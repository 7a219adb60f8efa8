SPECIFICATION Spec
CONSTANTS
    walker = walker
    watcher = watcher
    town = town
    dungeon = dungeon
    Player = {walker, watcher}
    Mover = {walker}
    Zone = {town, dungeon}
    StartZone = town
    IntervalEvery = 2
    RelayEvery = 1
    EchoCap = 2
    MaxMoves = 3
    MaxActs = 1
    MaxSession = 1
    MaxVisits <- MCVisits
CHECK_DEADLOCK FALSE
INVARIANTS RootedIsKnown
PROPERTIES RelaysFollow MovementSettles
