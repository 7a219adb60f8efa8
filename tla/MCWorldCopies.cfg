SPECIFICATION Spec
CONSTANTS
    Login = {a, b, c}
    Party = {a, b}
    Conn = {1, 2, 3}
    Town = Town
    Level1 = Level1
    Level2 = Level2
    PublicZone <- MCPublic
    PrivateZone <- MCPrivate
    StartZone = Town
    GcOf <- MCGcOf
    Mobs = 1
    IdSpan = 20
    MaxToken = 2
    MaxGen = 3
    MaxEid = 31
    NoLogin = NoLogin
    NoZone = NoZone
CHECK_DEADLOCK FALSE
SYMMETRY Symmetry
INVARIANTS CopiesLive ClientsShareCopy SightAgrees
