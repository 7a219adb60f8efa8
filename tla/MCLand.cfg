SPECIFICATION Spec
CONSTANTS
    Tree = {"axe", "robe"}
    Seed = {"axe", "items.pal.robe"}
    Prefixed <- MCPrefixed
    Stock <- MCStock
    ZoneShops = {"smith"}
    HubShops = {"hubvendor"}
    AdminShops = {"admin"}
    Bestiary = {"orc", "boss"}
    Legacy <- MCLegacy
    Snapshot <- MCSnapshot
    Careful = TRUE
    MaxSaves = 2
    Mobs = {"melee", "alias", "boss"}
    Abstract = {"lib"}
    Species = {"dogbase"}
    Concrete = {"dog"}
    Chassis = {"ranged"}
    Extensions <- MCExtensions
    Statements <- MCStatements
    BossStats = 8
    BossFiles = {"boss"}
    MaxHops = 3
    Worlds <- MCWorlds
    EncounterTables <- MCTables
    Generated <- MCGenerated
    Width = 3
    Height = 3
    Plans <- MCPlans
    Sparseness = 2
    SureRemoval = TRUE
    Kind <- MCKind
    Encounter <- MCEncounter
    PackGroups <- MCGroups
    Markers <- MCMarkers
    Budgets = {9, 18}
    MaxPack = 16
    MaxMobs = 9
    cam = cam
    dee = dee
    k1 = k1
    k2 = k2
    tutorial = tutorial
    town = town
    cave = cave
    lair = lair
    Player = {cam, dee}
    Char = {k1, k2}
    Zone = {tutorial, town, cave, lair}
    Town = town
    StartZone = tutorial
    Procedural = {cave}
    Portals <- MCPortals
    Teleporters <- MCTeleporters
    Waypoints <- MCWaypoints
    Order <- MCOrder
    Chests = {cave}
    BossGates = {lair}
    MaxMoves = 3
    MaxScrolls = 1
    ann = ann
    bob = bob
    rat = rat
    Fighter = {ann, bob}
    Seniority <- MCSeniority
    Hooked = {ann}
    Mob = {rat}
    Home <- MCHome
    Door = {3}
    Length = 3
    Ring = 1
    Radius = 2
    Speed = 2
    MoveEvery = 1
    FollowEvery = 2
    SwingEvery = 2
    Restore = 1
    ClampEvery = 1
    Models <- MCModels
    MaxId = 2
    MaxSteps = 1
SYMMETRY Exchangeable
INVARIANTS SavesOnDisk SameStats LevelSound LevelConnected  UpdatesLive
PROPERTIES BuildComplete Terminates
CHECK_DEADLOCK FALSE
