\* Rosters and presence: three accounts so that a leader who leaves has an heir,
\* two groups so that an invitee may sit in one while invited to the other.
CONSTANTS
    Login = {a, b, c}
    Conn = {1, 2, 3}
    PublicZone = {town}
    PrivateZone = {}
    StartZone = town
    Difficulty = {0, 4}
    InviteMode = {3}
    OpenFlag = {FALSE}
    MaxGroupSize = 3
    MaxGid = 2
    MaxToken = 0
    OneConnPerLogin = TRUE
    NoLogin = NoLogin
    NoZone = NoZone
SPECIFICATION Spec
SYMMETRY Symmetry
CHECK_DEADLOCK FALSE
INVARIANTS SeatsAgree InviteSound PresenceAgrees
PROPERTIES HeirPresent ImplementsParty
