SPECIFICATION Spec
CONSTANTS
    Tree = {"axe", "robe"}
    Seed = {"axe", "items.pal.robe"}
    Prefixed <- MCPrefixed
    Stock <- MCStock
    ZoneShops = {"smith"}
    HubShops = {"hubvendor"}
    AdminShops = {"admin"}
    Creatures = {"orc", "boss"}
    Legacy <- MCLegacy
    Snapshot <- MCSnapshot
    Careful = FALSE
    MaxSaves = 2
INVARIANT SavesOnDisk
