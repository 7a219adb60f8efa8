\* Dungeon copies: one dungeon and two tokens; two groups of at most two, so that
\* a second invitee finds the group full.
CONSTANTS
    Login = {a, b, c}
    Conn = {1, 2, 3}
    PublicZone = {town}
    PrivateZone = {dungeon}
    StartZone = town
    Difficulty = {}
    InviteMode = {}
    OpenFlag = {}
    MaxGroupSize = 2
    MaxGid = 2
    MaxToken = 2
    OneConnPerLogin = TRUE
    NoLogin = NoLogin
    NoZone = NoZone
SPECIFICATION Spec
SYMMETRY Symmetry
CHECK_DEADLOCK FALSE
INVARIANTS GroupSound TokenSound
PROPERTIES PrivateCopyEntry
