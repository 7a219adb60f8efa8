SPECIFICATION Spec
CONSTANTS
    Player = {p1, p2}
    Gear = {bow, sword}
    Potion = {m1, m2}
    TwoHanded = {bow}
    OffHand = {}
    NCells = 2
    LoadLimit = 1
    MaxStack = 2
    NDrops = 2
    NoItem = NoItem
SYMMETRY Symmetry
INVARIANTS NothingDuplicated PlacesLawful BagIsSaved
PROPERTIES KeepsItems
