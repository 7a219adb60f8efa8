-------------------------------- MODULE Land --------------------------------
(***************************************************************************)
(* The land: how it gets into the database and stays there (Content), which *)
(* monsters come of it (Mobs), how a level is laid out and filled           *)
(* (Dungeon), how travellers cross it (Travel) and how its monsters chase   *)
(* them (Chase).  The five keep their state apart, as their managers and    *)
(* tools do: a behaviour is one of them at work, which part says, and the   *)
(* others at rest.                                                          *)
(***************************************************************************)
EXTENDS Integers, Sequences, FiniteSets

CONSTANTS
    Tree, Seed, Prefixed, Stock, ZoneShops, HubShops, AdminShops,       \* Content
    Bestiary, Legacy, Snapshot, Careful, MaxSaves,
    Mobs, Abstract, Species, Concrete, Chassis, Extensions, Statements, \* Mobs
    BossStats, BossFiles, MaxHops, Worlds, EncounterTables, Generated,
    Width, Height, Plans, Sparseness, SureRemoval, Kind, Encounter,     \* Dungeon
    PackGroups, Markers, Budgets, MaxPack, MaxMobs,
    Player, Char, Zone, Town, StartZone, Procedural, Portals,           \* Travel
    Teleporters, Waypoints, Order, Chests, BossGates, MaxMoves, MaxScrolls,
    Fighter, Seniority, Hooked, Mob, Home, Door,                        \* Chase
    Length, Ring, Radius, Speed,        \* Player and Width of Chase are Fighter and Length
    MoveEvery, FollowEvery, SwingEvery, Restore, ClampEvery, Models, MaxId, MaxSteps

VARIABLES
    part,
    live, journal, server, tool, kept, committed,                     \* Content
    extends, own, built, rows, encounters, spawned,                   \* Mobs
    plan, phase, i, cells, room, left, at, entry, packs, next,        \* Dungeon
    row, roster, stage, role, zone, spot, saved, source, unlocked, turn, \* Travel
    menu, copy, passable, trips, casts, moves,
    model, avatar, pos, mob, latch, queue, shown, nextId, steps       \* Chase

contentVars == <<live, journal, server, tool, kept, committed>>
mobVars == <<extends, own, built, rows, encounters, spawned>>
dungeonVars == <<plan, phase, i, cells, room, left, at, entry, packs, next>>
travelVars == <<row, roster, stage, role, zone, spot, saved, source, unlocked, turn,
                menu, copy, passable, trips, casts, moves>>
chaseVars == <<model, avatar, pos, mob, latch, queue, shown, nextId, steps>>

Database == INSTANCE Content WITH Creatures <- Bestiary, saved <- committed
Population == INSTANCE Mobs WITH Tables <- EncounterTables
Level == INSTANCE Dungeon WITH Groups <- PackGroups
Journey == INSTANCE Travel WITH Gates <- BossGates
Pursuit == INSTANCE Chase WITH Player <- Fighter, Width <- Length, at <- pos

ASSUME DatabaseAssumption == Database!TableAssumption
ASSUME PopulationAssumption == Population!ContentAssumption
ASSUME LevelAssumption ==
    Level!GridAssumption /\ Level!PlanAssumption /\ Level!MobAssumption
ASSUME JourneyAssumption ==
    /\ Journey!ZoneAssumption /\ Journey!NameAssumption
    /\ Journey!OrderAssumption /\ Journey!BoundAssumption
ASSUME PursuitAssumption ==
    /\ Pursuit!RangeAssumption /\ Pursuit!PlaceAssumption /\ Pursuit!IntervalAssumption
    /\ Pursuit!BoundAssumption /\ Pursuit!SeniorityAssumption

-----------------------------------------------------------------------------
(* A part at rest begins with any one of its inputs.                       *)
Inputs(p, S) == IF part = p THEN S ELSE {CHOOSE x \in S : TRUE}

Init == /\ part \in {"database", "population", "level", "journey", "pursuit"}
        /\ extends \in Inputs("population", Extensions)
        /\ own \in Inputs("population", Statements)
        /\ plan \in Inputs("level", Plans)
        /\ model \in Inputs("pursuit", Models)
        /\ Database!Init /\ Population!Init /\ Level!Init /\ Journey!Init /\ Pursuit!Init

Next ==
    \/ /\ part = "database" /\ Database!Next
       /\ UNCHANGED <<part, mobVars, dungeonVars, travelVars, chaseVars>>
    \/ /\ part = "population" /\ Population!Next
       /\ UNCHANGED <<part, contentVars, dungeonVars, travelVars, chaseVars>>
    \/ /\ part = "level" /\ Level!Next
       /\ UNCHANGED <<part, contentVars, mobVars, travelVars, chaseVars>>
    \/ /\ part = "journey" /\ Journey!Next
       /\ UNCHANGED <<part, contentVars, mobVars, dungeonVars, chaseVars>>
    \/ /\ part = "pursuit" /\ Pursuit!Next
       /\ UNCHANGED <<part, contentVars, mobVars, dungeonVars, travelVars>>

vars == <<part, contentVars, mobVars, dungeonVars, travelVars, chaseVars>>
Spec == Init /\ [][Next]_vars

-----------------------------------------------------------------------------
(* No sequence of rebuilds, imports, restores and restarts, interrupted    *)
(* anywhere, loses a row the server has saved.                             *)
SavesOnDisk == part = "database" => Database!TypeOK /\ Database!SavesOnDisk

(* A rebuild of the items keeps what players and shops refer to, and a     *)
(* build of all steps leaves every vendor its shop, every creature its     *)
(* weapons.                                                                *)
BuildComplete == Database!ReferencedKept /\ Database!BuildComplete

(* A monster of an encounter has the stats its client will read, and a     *)
(* boss of an arena stands in it.                                          *)
SameStats ==
    part = "population" => Population!SameStats /\ Population!BossesSpawn

(* Openings of a level meet and rooms keep their exits; nobody arrives     *)
(* among monsters; leaders are never cut short for the sake of the packs   *)
(* in the corridors, and packs keep within the budget of their spot.       *)
LevelSound ==
    part = "level" => /\ Level!TypeOK /\ Level!OpeningsMeet /\ Level!RoomsKeepExits
                      /\ Level!ArrivalSafe /\ Level!LeadersStand /\ Level!PacksInBudget

(* Whoever arrives in a level can walk to all of it, its gates included,   *)
(* unless rooms wall in a cell.                                            *)
LevelConnected == part = "level" => Level!Connected

(* The generator of a level comes to an end: no step leaves as much to do  *)
(* as it found.                                                            *)
Terminates == Level!Terminates

(* A saved return place is offered by the obelisk as long as it can be     *)
(* used, on every client and after every zone change; waystones once       *)
(* reached stay reached and saved, a gate is shown as it is in the copy,   *)
(* and a scroll is worth one way back.                                     *)
PlacesKept ==
    part = "journey" =>
        /\ Journey!TypeOK /\ Journey!SavedPlaceOffered /\ Journey!WaystonesKept
        /\ Journey!GateShown /\ Journey!OneTripPerScroll

(* What waits for the next frame of a client is about monsters that the    *)
(* client shows.                                                           *)
UpdatesLive == part = "pursuit" => Pursuit!UpdatesLive
=============================================================================
