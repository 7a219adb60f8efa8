SPECIFICATION Spec
CONSTANTS
    ann = ann
    bob = bob
    rat = rat
    Player = {ann, bob}
    Seniority <- MCSeniority
    Hooked = {ann}
    Mob = {rat}
    Home <- MCHome
    Door = {3}
    Width = 3
    Ring = 1
    Radius = 2
    Speed = 2
    MoveEvery = 1
    FollowEvery = 2
    SwingEvery = 2
    Restore = 1
    ClampEvery = 1
    Models <- MCModels
    MaxId = 2
    MaxSteps = 1
CHECK_DEADLOCK FALSE

PROPERTIES ChaseSettles
