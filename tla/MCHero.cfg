SPECIFICATION Spec
CONSTANTS
    endurance = endurance
    Stat = {endurance}
    Endurance = endurance
    PerLevel = 1
    RespecCost = 1
    Gold = 1
    Need <- MCNeed
    ExactXp = TRUE
    MaxKills = 2
    MaxHurts = 1
    MaxMoves = 1
    MaxSpends = 2
CHECK_DEADLOCK FALSE
PROPERTIES SynchSettles
