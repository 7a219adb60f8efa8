SPECIFICATION Spec
CONSTANTS
    Player = {p, q}
    Level = {L1}
    Town = Town
    Mobs = 1
    MaxHp = 2
    MaxToken = 2
    MaxGen = 2
    MaxReports = 1
    Nobody = Nobody
    NoMob = NoMob
    Harmful = FALSE
    Apart = TRUE
    Slow = TRUE
CHECK_DEADLOCK FALSE
SYMMETRY Symmetry
INVARIANTS TrackedAreLive PaidOnce 
