SPECIFICATION Spec
CONSTANTS
    endurance = endurance
    Stat = {endurance}
    Endurance = endurance
    PerLevel = 1
    RespecCost = 1
    Need <- MCNeed
    ExactXp = TRUE
    Funds = 1
    MaxKills = 2
    MaxHurts = 1
    MaxTrips = 1
    MaxSpends = 2
    stomp = stomp
    sprint = sprint
    trait = trait
    other = other
    ann = ann
    bob = bob
    c1 = c1
    c2 = c2
    dagger = dagger
    axe = axe
    coins = coins
    sword = sword
    Skill = {stomp, sprint, trait, other}
    Passive = {trait, other}
    Foreign = {other}
    Loadout <- MCLoadout
    Slot <- MCSlot
    Authored <- MCAuthored
    MaxRank = 2
    Cost <- MCCost
    Savings = 3
    Lasts <- MCLasts
    Buffer = 1
    MaxTime = 4
    Player = {ann, bob}
    Copy = {c1, c2}
    FreePlayer = {bob}
    Kind = {dagger, axe}
    RareKind = {axe}
    Size <- MCSize
    Price <- MCPrice
    Width = 1
    Height = 2
    Ceiling = 2
    Purse = 1
    MaxLevel = 2
    MaxId = 3
    MaxUp = 1
    MaxMoves = 3
    MaxAsks = 2
    Drop = {coins, sword}
    GoldPile = {coins}
    Convertible = {sword}
    MaxUnits = 2
    MaxLeaves = 1
INVARIANTS PanelAgrees  BoughtAsShown NoGhosts
PROPERTIES PaidForClaims
CHECK_DEADLOCK FALSE
