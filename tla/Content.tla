------------------------------ MODULE Content ------------------------------
(***************************************************************************)
(* The database file, the server that writes player rows into it through a *)
(* write-ahead log, and the offline tools that rebuild its content tables: *)
(* scripts/rebuild_content_tables.py, build_database.py,                    *)
(* restore_database.py, import_world_npcs.py and the importers of           *)
(* drserver/data.  A tool works on a copy, or in place after a backup, and  *)
(* may be interrupted between any two steps.                                *)
(*                                                                         *)
(* A database is abstracted to the rows the tools can hurt: the item keys, *)
(* the vendors that have a shop, the creatures and those of them that have *)
(* weapons, which of the plain tables come from the client's files, and    *)
(* the item rows of players.  A save is a pair <<serial, item key>>.        *)
(***************************************************************************)
EXTENDS Integers, SequencesExt

CONSTANTS
    Tree,       \* the keys of the flat numbered item tree
    Seed,       \* the keys of the exported item seed
    Prefixed,   \* [key -> its key in the client's namespace], for some keys
    Stock,      \* [vendor -> the item keys its shop lists]
    ZoneShops,  \* vendors under world/<zone>/npc
    HubShops,   \* vendors filed elsewhere, registered by the NPC import
    AdminShops, \* emulator vendors, in no client file
    Creatures,  \* the creatures of the client's files
    Legacy,     \* the database the server starts with
    Snapshot,   \* the database in the restore archive
    Careful,    \* TRUE: tools run only after a server that closed its file
    MaxSaves    \* bound on the rows the server saves

Plain == {"skills", "quests", "zones", "classes", "wiremods", "markers", "dungeons",
          "teleporters"}
VARIABLES live,     \* the file at the database path, or NoFile
          journal,  \* its -wal file: the saves in it, and whether it is of another file
          server,   \* "up" or "down"
          tool,     \* the tool at work: its step, its job, its copy
          kept,     \* the saves some backup file holds
          saved     \* history: the saves the server has committed

vars == <<live, journal, server, tool, kept, saved>>

NoFile == [items |-> {"no file"}]
NoJournal == [saves |-> {}, foreign |-> FALSE]
Idle == [at |-> "idle", job |-> "none", work |-> NoFile]

EmptyDb == [items |-> {}, shops |-> {}, creatures |-> {}, armed |-> {},
            client |-> {}, players |-> {}, sound |-> TRUE]

\* What a database can hold.
Keys == Tree \cup Seed \cup Legacy.items \cup Snapshot.items \cup Range(Prefixed)
Vendors == ZoneShops \cup HubShops \cup AdminShops \cup Legacy.shops \cup Snapshot.shops
Beasts == Creatures \cup Legacy.creatures \cup Snapshot.creatures
Rows == Nat \X Keys
Db == [items : SUBSET Keys, shops : SUBSET Vendors, creatures : SUBSET Beasts,
       armed : SUBSET Beasts, client : SUBSET Plain, players : SUBSET Rows, sound : BOOLEAN]
TableAssumption == \A d \in {Legacy, Snapshot} : d \in Db /\ d.sound

Init == /\ live = Legacy /\ journal = NoJournal
        /\ server = "down" /\ tool = Idle
        /\ kept = {} /\ saved = {}

(***************************************************************************)
(* The server.                                                              *)
(***************************************************************************)
\* What opening the file makes of it: SQLite replays the -wal beside it, whichever
\* file it was written for.
Recovered == IF journal.foreign THEN [live EXCEPT !.sound = FALSE]
             ELSE [live EXCEPT !.players = @ \cup journal.saves]

\* An absent file is created with the player tables only.
Start == /\ server = "down" /\ tool.at = "idle"
         /\ live' = IF live = NoFile THEN EmptyDb ELSE Recovered
         /\ journal' = NoJournal /\ server' = "up"
         /\ UNCHANGED <<tool, kept, saved>>

Save == /\ server = "up" /\ Cardinality(saved) < MaxSaves
        /\ \E k \in live.items : LET row == <<Cardinality(saved) + 1, k>> IN
              /\ journal' = [journal EXCEPT !.saves = @ \cup {row}]
              /\ saved' = saved \cup {row}
        /\ UNCHANGED <<live, server, tool, kept>>

\* A clean exit closes the connection, which checkpoints and removes the log.
Stop == /\ server = "up" /\ server' = "down"
        /\ live' = Recovered /\ journal' = NoJournal
        /\ UNCHANGED <<tool, kept, saved>>

Die == /\ server = "up" /\ server' = "down"
       /\ UNCHANGED <<live, journal, tool, kept, saved>>

(***************************************************************************)
(* The importers: each takes a database and returns it rebuilt.             *)
(***************************************************************************)
Referenced(d) == {s[2] : s \in d.players} \cup UNION {Stock[v] : v \in d.shops}

\* The new tree's keys, and the old rows something still refers to.
RebuildItems(d) == [d EXCEPT !.items = Tree \cup (@ \cap Referenced(d))]

\* A row moves to its client key unless that key is taken.
Rekey(d) == LET moves == {k \in d.items \cap DOMAIN Prefixed : Prefixed[k] \notin d.items} IN
            [d EXCEPT !.items = (@ \ moves) \cup {Prefixed[k] : k \in moves}]

LoadSeed(d) == [d EXCEPT !.items = Seed]

Arm(d) == [d EXCEPT !.armed = @ \cup d.creatures]
RebuildCreatures(d) == Arm([d EXCEPT !.creatures = Creatures])

RebuildMerchants(d) == [d EXCEPT !.shops = ZoneShops \cup (@ \cap AdminShops)]
ImportTeleporters(d) == [d EXCEPT !.client = @ \cup {"teleporters"}]
ImportNpcs(d) == ImportTeleporters([d EXCEPT !.shops = @ \cup HubShops])

RebuildSkills(d) == [d EXCEPT !.client = @ \cup {"skills"}]
RebuildQuests(d) == [d EXCEPT !.client = @ \cup {"quests"}]
RebuildWireMods(d) == [d EXCEPT !.client = @ \cup {"wiremods"}]
ImportDungeons(d) == [d EXCEPT !.client = @ \cup {"dungeons"}]
ImportMarkers(d) == [d EXCEPT !.client = @ \cup {"markers"}]
SeedZones(d) == [d EXCEPT !.client = @ \cup {"zones"}]
SeedClasses(d) == [d EXCEPT !.client = @ \cup {"classes"}]
\* Only rows that exist are updated, so an empty table stays empty.
AugmentZones(d) == d
DressClasses(d) == d

Rebuilt(table, d) ==
    CASE table = "items" -> RebuildItems(d)
      [] table = "items_keys" -> Rekey(d)
      [] table = "creatures" -> RebuildCreatures(d)
      [] table = "merchants" -> RebuildMerchants(d)
      [] table = "skills" -> RebuildSkills(d)
      [] table = "quests" -> RebuildQuests(d)
      [] table = "item_wire_mods" -> RebuildWireMods(d)
      [] table = "zones" -> AugmentZones(d)
      [] table = "class_equipment" -> DressClasses(d)
Tables == {"items", "items_keys", "creatures", "merchants", "skills", "quests",
           "item_wire_mods", "zones", "class_equipment"}

\* The steps of a build from zero, in order.
BuildSteps_MerchantsLast == <<"creatures", "creature_manipulators", "skills", "classes",
    "items", "quests", "item_wire_mods", "dungeon_worlds", "zones", "world_markers",
    "npcs", "npc_teleporters", "merchants">>
BuildSteps == <<"creatures", "creature_manipulators", "skills", "classes", "items",
    "quests", "item_wire_mods", "merchants", "dungeon_worlds", "zones", "world_markers",
    "npcs", "npc_teleporters">>
Built(step, d) ==
    CASE step = "creature_manipulators" -> Arm(d)
      [] step = "classes" -> SeedClasses(d)
      [] step = "items" -> LoadSeed(d)
      [] step = "dungeon_worlds" -> ImportDungeons(d)
      [] step = "zones" -> SeedZones(d)
      [] step = "world_markers" -> ImportMarkers(d)
      [] step = "npcs" -> ImportNpcs(d)
      [] step = "npc_teleporters" -> ImportTeleporters(d)
      [] OTHER -> Rebuilt(step, d)
FromZero(only) ==
    LET built[n \in 0 .. Len(BuildSteps)] ==
            IF n = 0 THEN EmptyDb
            ELSE IF BuildSteps[n] \in only THEN Built(BuildSteps[n], built[n - 1])
            ELSE built[n - 1]
    IN  built[Len(BuildSteps)]

(***************************************************************************)
(* The tools.  Working on a copy, backing up and swapping are separate      *)
(* steps; an interrupted tool leaves the path as its last step did.         *)
(***************************************************************************)
MayRun == /\ server = "down" /\ tool.at = "idle"
          /\ Careful => journal = NoJournal

At(step, job, work) == tool' = [at |-> step, job |-> job, work |-> work]

\* The copy is of the database file alone; the log beside it stays where it is.
CopyAndRebuild == /\ MayRun /\ live # NoFile
                  /\ \E t \in Tables : At("rebuilt", t, Rebuilt(t, live))
                  /\ UNCHANGED <<live, journal, server, kept, saved>>

BackUp == /\ tool.at = "rebuilt"
          /\ kept' = kept \cup live.players
          /\ tool' = [tool EXCEPT !.at = "ready"]
          /\ UNCHANGED <<live, journal, server, saved>>

BuildFromZero == /\ MayRun
                 /\ \E only \in {Range(BuildSteps), {"creatures", "zones"}} :
                       At("ready", IF only = Range(BuildSteps) THEN "build" ELSE "subset",
                          FromZero(only))
                 /\ UNCHANGED <<live, journal, server, kept, saved>>

\* The staged copy is verified and then replaces the file in one rename.  A build
\* from zero asks for an empty realm: what was saved before it is given up.
Swap == /\ tool.at = "ready" /\ tool.job # "restore"
        /\ live' = tool.work /\ tool' = Idle
        /\ journal' = [journal EXCEPT !.foreign = journal.saves # {}]
        /\ saved' = IF tool.job \in {"build", "subset"} THEN {} ELSE saved
        /\ kept' = IF tool.job \in {"build", "subset"} THEN {} ELSE kept
        /\ UNCHANGED server

\* The archived content with the live player rows, where there are any: attaching
\* the live file replays and removes its log.
Merged(d) == IF d.players = {} THEN Snapshot
             ELSE [Snapshot EXCEPT !.players = d.players]
Merge == /\ MayRun
         /\ IF live = NoFile
            THEN /\ At("moved", "restore", Snapshot)
                 /\ UNCHANGED <<live, journal>>
            ELSE /\ live' = Recovered /\ journal' = NoJournal
                 /\ At("ready", "restore", Merged(Recovered))
         /\ UNCHANGED <<server, kept, saved>>

\* The old file is moved aside first, the new one moved in after.
MoveAside_Deletes == /\ tool.at = "ready" /\ tool.job = "restore"
                     /\ kept' = kept /\ live' = NoFile
                     /\ tool' = [tool EXCEPT !.at = "moved"]
                     /\ UNCHANGED <<journal, server, saved>>
MoveAside == /\ tool.at = "ready" /\ tool.job = "restore"
             /\ kept' = kept \cup live.players /\ live' = NoFile
             /\ tool' = [tool EXCEPT !.at = "moved"]
             /\ UNCHANGED <<journal, server, saved>>
MoveIn == /\ tool.at = "moved"
          /\ live' = tool.work /\ tool' = Idle
          /\ UNCHANGED <<journal, server, kept, saved>>

\* In place: a backup copy of the file, then one transaction on it.
ImportBackUp == /\ MayRun /\ live # NoFile
                /\ kept' = kept \cup live.players
                /\ At("import", "npcs", NoFile)
                /\ UNCHANGED <<live, journal, server, saved>>
ImportWrite == /\ tool.at = "import"
               /\ live' = ImportNpcs(Recovered) /\ journal' = NoJournal
               /\ tool' = Idle
               /\ UNCHANGED <<server, kept, saved>>

\* Ctrl-C, a failed parse, a failed integrity check, a full disk.
Interrupted == /\ tool.at # "idle" /\ tool' = Idle
               /\ UNCHANGED <<live, journal, server, kept, saved>>

Next == \/ Start \/ Save \/ Stop \/ Die
        \/ CopyAndRebuild \/ BackUp \/ BuildFromZero \/ Swap
        \/ Merge \/ MoveAside \/ MoveIn \/ ImportBackUp \/ ImportWrite \/ Interrupted

Spec == Init /\ [][Next]_vars

----------------------------------------------------------------------------
Tools == [at : {"idle", "rebuilt", "ready", "moved", "import"},
          job : Tables \cup {"none", "build", "subset", "restore", "npcs"},
          work : Db \cup {NoFile}]
TypeOK ==
    /\ live \in Db \cup {NoFile}
    /\ journal \in [saves : SUBSET Rows, foreign : BOOLEAN] /\ server \in {"up", "down"}
    /\ tool \in Tools
    /\ kept \in SUBSET Rows /\ saved \in SUBSET Rows /\ IsFiniteSet(saved)

\* Every row the server has committed is in the file, in the log that belongs to it,
\* or in a backup, wherever a tool or the server was interrupted: no sequence of
\* rebuilds, imports, restores and restarts loses a player's item.
SavesOnDisk ==
    LET inFile == IF live = NoFile \/ ~live.sound THEN {} ELSE live.players
        inLog == IF journal.foreign THEN {} ELSE journal.saves
    IN saved \subseteq inFile \cup inLog \cup kept

\* A rebuild of the item tables never removes the row of an item that a player's
\* bag or a shop refers to (_referenced_keys: "never orphan these even if the
\* selector misses them").
ReferencedKept ==
    [][tool.at = "ready" /\ tool.job = "items" /\ live' = tool.work
          => Referenced(live) \cap live.items \subseteq live'.items]_vars

\* A build of all steps leaves a database in which every vendor the client places
\* has its shop and every creature has its weapons: the steps that delete rows come
\* before those that add to the same tables.
BuildComplete ==
    [][tool.job = "build" /\ live' = tool.work
          => /\ ZoneShops \cup HubShops \subseteq live'.shops
             /\ live'.creatures \subseteq live'.armed
             /\ live'.client = Plain]_vars
=============================================================================
