-------------------------------- MODULE Mobs --------------------------------
(***************************************************************************)
(* From the client's content files to the monsters of a zone: the creature *)
(* importer (data/creatures_importer.py), the dungeon importer             *)
(* (data/dungeon_world_importer.py) and the loaders of the spawner         *)
(* (managers/dungeon_spawner.py, managers/monsters.py).                     *)
(*                                                                         *)
(* A content node extends another node or a native class.  Its stats are   *)
(* one number, 0 when it states none: what the client and the server each  *)
(* derive a monster's hit points from.  The client flattens the whole      *)
(* chain; the server reads the row of a creature, which the importer       *)
(* flattened over a database without the worlds' own mobs.                 *)
(***************************************************************************)
EXTENDS Integers, Sequences, FiniteSets, Functions

CONSTANTS
    Mobs,        \* world.<dungeon>.mob.*
    Abstract,    \* creatures.base.*: the library
    Species,     \* creatures.<family>.<species>.base.*
    Concrete,    \* the other creatures.*
    Chassis,     \* base.* classes, which extend StockUnit
    Extensions,  \* the content considered: functions from nodes to what they extend
    Statements,  \* and functions from nodes to the stats they state
    BossStats,   \* the stats of CreatureDifficulty DUNGEON_BOSS
    BossFiles,   \* the mobs of a .../mob/boss.gc
    MaxHops,     \* _MAX_RESOLVE_HOPS
    Worlds,      \* [zone -> its *.world file]
    Tables,      \* [encounter table -> its groups of unit types]
    Generated    \* [placeholder placement -> the WorldEntity its table draws]

Creatures == Abstract \cup Species \cup Concrete
Nodes == Mobs \cup Creatures
None == "none"

\* Neither creatures/ nor base/ refers to a world's mobs, and no name is two nodes.
ContentAssumption ==
    /\ IsFiniteSet(Nodes \cup Chassis) /\ MaxHops \in Nat \ {0}
    /\ Mobs \cap Creatures = {} /\ Chassis \cap Nodes = {}
    /\ "StockUnit" \notin Nodes \cup Chassis /\ None \notin DOMAIN Tables
    /\ \A e \in Extensions : \A c \in Creatures : e[c] \notin Mobs
    /\ \A f \in Range(Tables) \cup {w.markers : w \in Range(Worlds)} : f \in Seq(Range(f))

VARIABLES extends, own,  \* the content: fixed
          built,         \* the importers that have run
          rows,          \* the creatures table: [key -> stats]
          encounters,    \* the dungeon tables
          spawned        \* [zone -> its monsters <<entity, key, stats>>], for zones filled

vars == <<extends, own, built, rows, encounters, spawned>>

Nothing == [x \in {} |-> {}]

Init == /\ extends \in Extensions /\ own \in Statements
        /\ built = {} /\ rows = Nothing /\ spawned = Nothing
        /\ encounters = [tables |-> Nothing, placements |-> Nothing]

(***************************************************************************)
(* Chains over a database of nodes (GCDatabase): a name it does not hold    *)
(* ends the chain, and so does one already met.                             *)
(***************************************************************************)
Extends(n) == IF n \in Chassis THEN "StockUnit" ELSE extends[n]

Walk(db, n) ==
    LET w[k \in 0..Cardinality(db) + 1] ==
          IF k = 0 THEN n
          ELSE IF k = 1 \/ w[k - 1] \in db THEN Extends(w[k - 1]) ELSE w[k - 1]
    IN w

RootsAtStockUnit(db, n) == Walk(db, n)[Cardinality(db) + 1] = "StockUnit"

\* The stats nearest to the node on its chain, 0 when the chain states none.
Flattened(db, n) ==
    LET w == Walk(db, n)
        stated == {k \in DOMAIN w : w[k] \in Nodes /\ (k = 0 \/ w[k] \in db) /\ own[w[k]] # 0}
    IN IF stated = {} THEN 0
       ELSE own[w[CHOOSE k \in stated : \A j \in stated : k <= j]]

CreatureDb == Creatures
ChassisDb == Creatures \cup Chassis

(***************************************************************************)
(* Which creature a mob stands for.                                         *)
(***************************************************************************)
Chased(m) ==
    LET t[k \in 0..MaxHops - 1] ==
          IF k = 0 THEN extends[m]
          ELSE IF t[k - 1] \in Mobs THEN extends[t[k - 1]] ELSE t[k - 1]
    IN t[MaxHops - 1]

IsBoss(m) == m \in BossFiles \/ own[m] = BossStats

\* A boss, a mob whose chain reaches no creature, and one that reaches only the
\* library stand for themselves.
CreatureOf_Chain(m) == IF Chased(m) \in Species \cup Concrete THEN Chased(m) ELSE m
CreatureOf(m) == IF ~IsBoss(m) /\ Chased(m) \in Species \cup Concrete THEN Chased(m) ELSE m

(***************************************************************************)
(* The creatures table.                                                     *)
(***************************************************************************)
ConcreteKeys == {n \in Concrete : RootsAtStockUnit(CreatureDb, n)}

WorldBossKeys(seen) ==
    {m \in Mobs : /\ IsBoss(m) \/ CreatureOf(m) \notin seen
                  /\ RootsAtStockUnit(ChassisDb, m)
                  /\ Flattened(ChassisDb, m) # 0}

ReferencedBaseKeys == {CreatureOf(m) : m \in Mobs}
                        \cap {n \in Species : RootsAtStockUnit(ChassisDb, n)}

Row(key) == IF key \in ConcreteKeys THEN Flattened(CreatureDb, key)
            ELSE Flattened(ChassisDb, key)

CreatureRows ==
    [key \in ConcreteKeys \cup WorldBossKeys(ConcreteKeys) \cup ReferencedBaseKeys |-> Row(key)]

RebuildCreatures ==
    /\ "creatures" \notin built /\ built' = built \cup {"creatures"}
    /\ rows' = CreatureRows
    /\ UNCHANGED <<extends, own, encounters, spawned>>

(***************************************************************************)
(* The dungeon tables.                                                      *)
(***************************************************************************)
\* A unit's asset and its creature; a type that is neither is dropped.
Unit(type) == <<type, IF type \in Mobs THEN CreatureOf(type) ELSE type>>
Parsed(groups) ==
    [g \in DOMAIN groups |-> {Unit(t) : t \in Range(groups[g]) \cap Nodes}]

\* The drawn asset is what the world entity directly extends.
WorldEntity(e) ==
    IF e \notin Mobs THEN Unit(e)
    ELSE <<IF extends[e] \in Nodes THEN extends[e] ELSE e, CreatureOf(e)>>
Placement(type) == WorldEntity(IF type \in DOMAIN Generated THEN Generated[type] ELSE type)
Placements(w) == {Placement(t) : t \in {p \in w.placed : p \in DOMAIN Generated \/ p \in Nodes}}

MazeTables(w) == {w.table, w.leader} \cup Range(w.rooms)
StaticTables(w) == {w.table} \cup Range(w.markers)

TablesOf(w) == IF w.maze THEN MazeTables(w) ELSE StaticTables(w)
Encounters ==
    [tables |-> [t \in (UNION {TablesOf(Worlds[z]) : z \in DOMAIN Worlds}) \cap DOMAIN Tables
                   |-> Parsed(Tables[t])],
     placements |-> [z \in {y \in DOMAIN Worlds : ~Worlds[y].maze} |-> Placements(Worlds[z])]]

ImportWorlds ==
    /\ "worlds" \notin built /\ built' = built \cup {"worlds"}
    /\ encounters' = Encounters
    /\ UNCHANGED <<extends, own, rows, spawned>>

(***************************************************************************)
(* Filling a zone from the tables.                                          *)
(***************************************************************************)
\* The groups of a table that are left with a unit, and their turns.
Groups(t) == IF t \in DOMAIN encounters.tables THEN encounters.tables[t] ELSE <<>>
Full(groups) == {g \in DOMAIN groups : groups[g] # {}}
Turn(groups, g) == Cardinality({h \in Full(groups) : h < g})
Chosen(groups, i) ==
    UNION {groups[g] : g \in {f \in Full(groups) :
                                 Turn(groups, f) = i % Cardinality(Full(groups))}}

\* A level without a main table is left empty; else each room's own table and the
\* main one in the other cells.
MazeUnits(w) ==
    IF Full(Groups(w.table)) = {} THEN {}
    ELSE (UNION Range(Groups(w.table)))
         \cup (UNION {Chosen(Groups(w.rooms[r]), r - 1) : r \in 1..Len(w.rooms)})

\* Each marker's group, from its own table or the world's, and the placements.
StaticUnits(z, w) ==
    (UNION {Chosen(Groups(IF w.markers[i] # None THEN w.markers[i] ELSE w.table), i - 1)
              : i \in 1..Len(w.markers)})
    \cup encounters.placements[z]

Units(z) == IF Worlds[z].maze THEN MazeUnits(Worlds[z]) ELSE StaticUnits(z, Worlds[z])

\* A unit the client cannot load, or whose creature has no row, is skipped.
Streamed(units) ==
    {<<u[1], u[2], rows[u[2]]>> : u \in {v \in units : v[1] \in Nodes /\ v[2] \in DOMAIN rows}}

FillZone(z) ==
    /\ built = {"creatures", "worlds"} /\ z \notin DOMAIN spawned
    /\ spawned' = [y \in DOMAIN spawned \cup {z} |->
          IF y \in DOMAIN spawned THEN spawned[y] ELSE Streamed(Units(z))]
    /\ UNCHANGED <<extends, own, built, rows, encounters>>

Next == RebuildCreatures \/ ImportWorlds \/ \E z \in DOMAIN Worlds : FillZone(z)
Spec == Init /\ [][Next]_vars

----------------------------------------------------------------------------
\* What the client derives: every node resolves.
ClientStats(n) == Flattened(Nodes \cup Chassis, n)

\* The mobs a mob extends before its chain leaves the worlds.
Templates(m) ==
    {Walk(Nodes \cup Chassis, m)[k] : k \in 1..Cardinality(Nodes \cup Chassis)} \cap Mobs
\* Content that states stats where the importers look for them: in a boss or a mob
\* over the library, and in no mob another one extends.
Ordinary(n) ==
    \/ n \in Creatures
    \/ /\ IsBoss(n) \/ Chased(n) \notin Species \cup Concrete \/ own[n] = 0
       /\ \A t \in Templates(n) : own[t] = 0

\* Every monster that an encounter table places is announced with hit points
\* computed from the stats the client will read for the same asset (a difference
\* is a fatal sync error on the client), bosses with overridden stats included.
SameStats ==
    \A z \in DOMAIN spawned : \A s \in spawned[z] :
        (Ordinary(s[1]) /\ s \notin {<<p[1], p[2], rows[p[2]]>> :
                p \in {q \in UNION Range(encounters.placements) : q[2] \in DOMAIN rows}})
            => s[3] = ClientStats(s[1])

\* A boss that extends a unit of the creature files and has stats of its own or
\* inherited ones is in the table and stands in its arena, whatever it overrides.
BossesSpawn ==
    \A z \in DOMAIN spawned : \A t \in Range(Worlds[z].markers) \cap DOMAIN Tables : \A m \in Mobs :
        /\ ~Worlds[z].maze /\ Tables[t] # <<>>
        /\ \A g \in DOMAIN Tables[t] : m \in Range(Tables[t][g])
        /\ IsBoss(m) /\ extends[m] \in ChassisDb
        /\ RootsAtStockUnit(Nodes \cup Chassis, m) /\ ClientStats(m) # 0
        => <<m, m>> \in {<<s[1], s[2]>> : s \in spawned[z]}
=============================================================================
