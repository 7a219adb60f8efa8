------------------------------- MODULE Travel -------------------------------
(***************************************************************************)
(* How a character comes into the world and moves between its zones: the    *)
(* character screen and the zone transfer (net/game_server.py), portals     *)
(* (managers/portals.py), waystones (managers/checkpoints.py), waypoint     *)
(* scrolls (managers/town_portal.py), chests, shrines and boss gates        *)
(* (managers/world_entities.py), and the clicks that reach them             *)
(* (net/movement.py).                                                       *)
(*                                                                          *)
(* A scroll saves the place it is read at, in the connection and in the     *)
(* character's row, and the client lists it in the obelisk's menu; the      *)
(* first arrival there spends it.  Waystones are unlocked in both as well.  *)
(* A gate is opened for the players in the copy when its boss falls, and    *)
(* for those who come later on arrival.                                     *)
(*                                                                          *)
(* Abstractions.  A zone has one copy at a time (World models copies); it   *)
(* has at most one waystone, one chest, one gate and one boss.  Coordinates *)
(* are the kind of place a transfer picks.  A player is a login with one    *)
(* connection at a time, and a connection plays one character: the client   *)
(* asks once.                                                               *)
(***************************************************************************)
EXTENDS Integers, FiniteSets

CONSTANTS
    Player,      \* logins
    Char,        \* names of characters; a row is known by its name
    Zone,        \* zones the registry knows
    Town, StartZone,
    Procedural,  \* zones laid out by the maze generator
    Portals,     \* zone_portals, warp gates and teleporters: [from, to, way]
    Teleporters, \* npc_teleporters, by the zone of the NPC
    Waypoints,   \* zone_waypoints: <<zone, name>>
    Order,       \* checkpoints: zone of an active waystone -> display order
    Chests, Gates, \* zones with a chest, with a gate and its boss
    MaxMoves,    \* bound: zone transfers
    MaxScrolls   \* bound: scrolls read

NoPlace == "none"
Nobody == "nobody"
Waystones == DOMAIN Order
(* A waystone is known by its zone.                                        *)
DefaultCheckpoints == {Town, StartZone}

ZoneAssumption == {Town, StartZone} \subseteq Waystones /\ Waystones \subseteq Zone
NameAssumption == NoPlace \notin Zone /\ Nobody \notin Player \cup Char
OrderAssumption == \A v, w \in Waystones : Order[v] = Order[w] => v = w
BoundAssumption == IsFiniteSet(Waystones) /\ {MaxMoves, MaxScrolls} \subseteq Nat

VARIABLES
    row,       \* characters, character_checkpoints: [owner, tp, cps]
    roster,    \* persistent_characters: login -> its list
    stage,     \* how far a connection is: "off", "select", "loading", "in"
    role,      \* char_sql_id
    zone,      \* current_zone_name
    spot,      \* where the avatar stands
    saved,     \* town_portal_zone_name, NoPlace while has_saved_town_portal is false
    source,    \* zone_portal_source
    unlocked,  \* unlocked_checkpoints
    turn,      \* obelisk_click_index
    menu,      \* the saved place in the client's obelisk menu
    copy,      \* the live copy of a zone: [live, open, looted, boss]
    passable,  \* whether a client has removed the gate of the zone it shows
    trips,     \* return portals drawn on arrival, by character
    casts, moves

vars == <<row, roster, stage, role, zone, spot, saved, source, unlocked, turn,
          menu, copy, passable, trips, casts, moves>>
journey == <<zone, spot, source, turn, passable>>

Absent == [owner |-> Nobody, tp |-> NoPlace, cps |-> {}]
Fresh == [live |-> TRUE, open |-> FALSE, looted |-> FALSE, boss |-> TRUE]
TornDown == [Fresh EXCEPT !.live = FALSE]

Playing(p) == stage[p] \in {"loading", "in"}
In(z) == {q \in Player : stage[q] = "in" /\ zone[q] = z}

Init ==
    /\ row = [k \in Char |-> Absent] /\ roster = [p \in Player |-> {}]
    /\ stage = [p \in Player |-> "off"] /\ role = [p \in Player |-> Nobody]
    /\ zone = [p \in Player |-> Town] /\ spot = [p \in Player |-> "default"]
    /\ saved = [p \in Player |-> NoPlace] /\ source = [p \in Player |-> NoPlace]
    /\ unlocked = [p \in Player |-> {}] /\ turn = [p \in Player |-> 0]
    /\ menu = [p \in Player |-> NoPlace] /\ copy = [z \in Zone |-> TornDown]
    /\ passable = [p \in Player |-> FALSE]
    /\ trips = [k \in Char |-> 0] /\ casts = [k \in Char |-> 0] /\ moves = 0

-----------------------------------------------------------------------------
(* The character screen.                                                    *)

(* _start_character_flow keeps a GCObject of every row: an id and a name,   *)
(* none of the other columns.                                               *)
Entry(k) == [id |-> k, tp |-> NoPlace]

Flow(p) == {Entry(k) : k \in {c \in Char : row[c].owner = p}}

(* load_tp_state, given what the list holds.                                *)
LoadTpState(p, c) == saved' = [saved EXCEPT ![p] = IF c.tp = NoPlace THEN @ ELSE c.tp]

(* load_checkpoints, with the starter waystones.                            *)
Checkpoints(k) == row[k].cps \cup DefaultCheckpoints

(* A new connection: RRConnection.__init__, _handle_initial_connection.     *)
Login(p) ==
    /\ stage[p] = "off"
    /\ stage' = [stage EXCEPT ![p] = "select"]
    /\ roster' = [roster EXCEPT ![p] = Flow(p)]
    /\ saved' = [saved EXCEPT ![p] = NoPlace] /\ source' = [source EXCEPT ![p] = NoPlace]
    /\ unlocked' = [unlocked EXCEPT ![p] = {}] /\ turn' = [turn EXCEPT ![p] = 0]
    /\ UNCHANGED <<row, role, zone, spot, menu, copy, passable, trips, casts, moves>>

(* _handle_character_create; the name is unique.                            *)
Create(p, k) ==
    /\ stage[p] = "select" /\ row[k] = Absent
    /\ row' = [row EXCEPT ![k] = [Absent EXCEPT !.owner = p]]
    /\ roster' = [roster EXCEPT ![p] = @ \cup {Entry(k)}]
    /\ UNCHANGED <<stage, role, saved, unlocked, menu, copy, trips, casts, moves>>
    /\ UNCHANGED journey

(* _handle_character_delete: only what the list holds; ON DELETE CASCADE.   *)
Delete(p, k) ==
    /\ stage[p] = "select" /\ \E c \in roster[p] : c.id = k
    /\ row' = [row EXCEPT ![k] = Absent]
    /\ roster' = [roster EXCEPT ![p] = {c \in @ : c.id # k}]
    /\ trips' = [trips EXCEPT ![k] = 0] /\ casts' = [casts EXCEPT ![k] = 0]
    /\ UNCHANGED <<stage, role, saved, unlocked, menu, copy, moves>>
    /\ UNCHANGED journey

(* _start_zone_join: always to the starting zone, wherever the row was.     *)
StartJoin(p) ==
    /\ stage' = [stage EXCEPT ![p] = "loading"]
    /\ zone' = [zone EXCEPT ![p] = StartZone] /\ spot' = [spot EXCEPT ![p] = "default"]

(* _handle_character_play.                                                  *)
Play(p, c) ==
    /\ stage[p] = "select" /\ c \in roster[p]
    /\ role' = [role EXCEPT ![p] = c.id]
    /\ unlocked' = [unlocked EXCEPT ![p] = Checkpoints(c.id)]
    /\ row' = [row EXCEPT ![c.id].cps = Checkpoints(c.id)]
    /\ LoadTpState(p, c) /\ StartJoin(p)
    /\ UNCHANGED <<roster, source, turn, menu, copy, passable, trips, casts, moves>>

-----------------------------------------------------------------------------
(* The zone transfer.                                                       *)

(* The last player to leave a copy tears it down.                           *)
Left(p) ==
    IF stage[p] = "in" /\ In(zone[p]) = {p} THEN [copy EXCEPT ![zone[p]] = TornDown] ELSE copy

(* find_waypoint.                                                           *)
NamedWaypoint(z, way) == <<z, way>> \in Waypoints

(* _transfer_zone and _respawn_in_place: an explicit position, the named    *)
(* waypoint or the default of the zone, and in a maze its entrance.         *)
Arrival(z, way, pos) ==
    IF z \in Procedural THEN "entrance"
    ELSE IF pos # "" THEN pos
    ELSE IF NamedWaypoint(z, way) THEN "waypoint"
    ELSE "default"

(* _transfer_zone, after the changes of whoever sends the player: to an     *)
(* unknown zone, in place, or away through a zone load.                     *)
Transfer(p, z, way, pos) ==
    /\ moves < MaxMoves /\ moves' = moves + 1
    /\ IF z \notin Zone THEN UNCHANGED <<stage, zone, spot, copy, passable>>
       ELSE /\ spot' = [spot EXCEPT ![p] = Arrival(z, way, pos)]
            /\ IF z = zone[p] THEN UNCHANGED <<stage, zone, copy, passable>>
               ELSE /\ stage' = [stage EXCEPT ![p] = "loading"]
                    /\ copy' = Left(p)
                    /\ zone' = [zone EXCEPT ![p] = z]
                    /\ passable' = [passable EXCEPT ![p] = FALSE]
    /\ UNCHANGED <<row, roster, role, saved, unlocked, menu, trips, casts>>

(* reopen_gates_for_joiner: the snapshot draws the gate closed.             *)
Reopen(p) == copy[zone[p]].open

(* clear_tp_state with persist_tp_state.                                    *)
Cleared(p) ==
    /\ saved' = [saved EXCEPT ![p] = NoPlace]
    /\ row' = [row EXCEPT ![role[p]].tp = NoPlace]

(* spawn_return_portal_if_home.                                             *)
SpawnReturn(p) ==
    IF saved[p] # NoPlace /\ saved[p] = zone[p]
    THEN trips' = [trips EXCEPT ![role[p]] = @ + 1] /\ Cleared(p)
    ELSE UNCHANGED <<saved, row, trips>>

(* The client has loaded: _send_zone_progression with write_quest_manager,  *)
(* WorldInstanceRegistry.enter and the return portal.                       *)
Arrive(p) ==
    /\ stage[p] = "loading"
    /\ stage' = [stage EXCEPT ![p] = "in"]
    /\ menu' = [menu EXCEPT ![p] = saved[p]]
    /\ copy' = [copy EXCEPT ![zone[p]] = IF @.live THEN @ ELSE Fresh]
    /\ passable' = [passable EXCEPT ![p] = Reopen(p)]
    /\ SpawnReturn(p)
    /\ UNCHANGED <<roster, role, zone, spot, source, unlocked, turn, casts, moves>>

(* _on_disconnect.                                                          *)
Disconnect(p) ==
    /\ stage[p] # "off"
    /\ stage' = [stage EXCEPT ![p] = "off"] /\ copy' = Left(p)
    /\ role' = [role EXCEPT ![p] = Nobody] /\ menu' = [menu EXCEPT ![p] = NoPlace]
    /\ UNCHANGED <<row, roster, saved, unlocked, trips, casts, moves>>
    /\ UNCHANGED journey

-----------------------------------------------------------------------------
(* What a player may do in a zone.                                          *)

Sent(p, z, way, pos) == stage[p] = "in" /\ Transfer(p, z, way, pos)

(* build_zone_portals, build_dungeon_warp_gates, find_by_entity_id: what    *)
(* can be clicked in a zone.                                                *)
PortalsIn(z) == {g \in Portals : g.from = z}

(* 0x06 on a portal or a teleporter; the only transfer that may touch the   *)
(* recent zone portal.                                                      *)
UsePortal(p) ==
    /\ \E g \in PortalsIn(zone[p]) : Sent(p, g.to, g.way, "")
    /\ source' = [source EXCEPT ![p] = zone[p]] /\ UNCHANGED turn

(* 0x06 on the blue portal of one's own scroll.                             *)
UseTownPortal(p) ==
    /\ saved[p] # NoPlace /\ saved[p] = zone[p] /\ Sent(p, Town, "", "")
    /\ source' = [source EXCEPT ![p] = zone[p]] /\ UNCHANGED turn

(* QuestManager 0x08: an NPC who teleports.                                 *)
UseTeleporter(p) ==
    /\ \E g \in Teleporters : g.from = zone[p] /\ Sent(p, g.to, g.way, "")
    /\ UNCHANGED <<source, turn>>

(* 0x06 on a waystone.                                                      *)
Unlock(p) ==
    /\ stage[p] = "in" /\ zone[p] \in Waystones \ unlocked[p]
    /\ unlocked' = [unlocked EXCEPT ![p] = @ \cup {zone[p]}]
    /\ row' = [row EXCEPT ![role[p]].cps = @ \cup {zone[p]}]
    /\ UNCHANGED <<roster, stage, role, saved, menu, copy, trips, casts, moves>>
    /\ UNCHANGED journey

(* 0x52: recall to the exact position of a waystone in the menu.            *)
RecallUse(p) ==
    /\ \E w \in unlocked[p] : Sent(p, w, "", "waystone") /\ UNCHANGED <<source, turn>>

(* _handle_qm_checkpoint_recall, _handle_checkpoint_teleport.               *)
RecallMenu(p) ==
    /\ \E w \in unlocked[p] : Sent(p, w, "", "") /\ UNCHANGED <<source, turn>>

(* _handle_obelisk_teleport: the next of the other unlocked waystones.      *)
CycleObelisk(p) ==
    LET available == unlocked[p] \ {zone[p]}
        idx == turn[p] % Cardinality(available)
        dest == CHOOSE w \in available :
                    Cardinality({v \in available : Order[v] < Order[w]}) = idx
    IN /\ available # {} /\ Sent(p, dest, "", "")
       /\ turn' = [turn EXCEPT ![p] = idx + 1] /\ UNCHANGED source

(* _handle_saved_place_teleport.                                            *)
SavedPlace(p) ==
    /\ Sent(p, IF saved[p] # NoPlace THEN saved[p] ELSE Town, "", "")
    /\ UNCHANGED <<source, turn>>

(* QuestManager 0x0A.                                                       *)
TownPortalReturn(p) ==
    /\ saved[p] # NoPlace /\ Sent(p, saved[p], "", "cast")
    /\ UNCHANGED <<source, turn>>

(* QuestManager 0x0C.                                                       *)
RecentPortal(p) ==
    /\ source[p] # NoPlace /\ Sent(p, source[p], "", "") /\ UNCHANGED <<source, turn>>

(* request_respawn; every zone of the model names the town.                 *)
Respawn(p) == Sent(p, Town, "", "") /\ UNCHANGED <<source, turn>>

(* _send_qm_town_portal_state.                                              *)
TellPlace(p) == menu' = [menu EXCEPT ![p] = zone[p]]

(* use_waypoint_scroll with persist_tp_state.                               *)
UseScroll_Untold(p) ==
    /\ stage[p] = "in" /\ casts[role[p]] < MaxScrolls
    /\ casts' = [casts EXCEPT ![role[p]] = @ + 1]
    /\ saved' = [saved EXCEPT ![p] = zone[p]]
    /\ row' = [row EXCEPT ![role[p]].tp = zone[p]]
    /\ UNCHANGED <<roster, stage, role, unlocked, menu, copy, trips, moves>>
    /\ UNCHANGED journey

UseScroll(p) ==
    /\ stage[p] = "in" /\ casts[role[p]] < MaxScrolls
    /\ casts' = [casts EXCEPT ![role[p]] = @ + 1]
    /\ saved' = [saved EXCEPT ![p] = zone[p]]
    /\ row' = [row EXCEPT ![role[p]].tp = zone[p]]
    /\ TellPlace(p)
    /\ UNCHANGED <<roster, stage, role, unlocked, copy, trips, moves>>
    /\ UNCHANGED journey

(* open_chest: once.                                                        *)
OpenChest(p) ==
    /\ stage[p] = "in" /\ zone[p] \in Chests /\ ~copy[zone[p]].looted
    /\ copy' = [copy EXCEPT ![zone[p]].looted = TRUE]
    /\ UNCHANGED <<row, roster, stage, role, saved, unlocked, menu, trips, casts, moves>>
    /\ UNCHANGED journey

(* CombatManager.on_kill of the boss, with open_boss_doors.                 *)
BossFalls(z) ==
    /\ z \in Gates /\ In(z) # {} /\ copy[z].boss
    /\ copy' = [copy EXCEPT ![z].boss = FALSE, ![z].open = TRUE]
    /\ passable' = [q \in Player |-> passable[q] \/ q \in In(z)]
    /\ UNCHANGED <<row, roster, stage, role, zone, spot, saved, source, unlocked, turn,
                   menu, trips, casts, moves>>

Next ==
    \/ \E p \in Player :
        \/ Login(p)
        \/ \E k \in Char : Create(p, k)
        \/ \E k \in Char : Delete(p, k)
        \/ \E c \in roster[p] : Play(p, c)
        \/ Arrive(p)
        \/ Disconnect(p)
        \/ UsePortal(p)
        \/ UseTownPortal(p)
        \/ UseTeleporter(p)
        \/ Unlock(p)
        \/ RecallUse(p)
        \/ RecallMenu(p)
        \/ CycleObelisk(p)
        \/ SavedPlace(p)
        \/ TownPortalReturn(p)
        \/ RecentPortal(p)
        \/ Respawn(p)
        \/ UseScroll(p)
        \/ OpenChest(p)
    \/ \E z \in Zone : BossFalls(z)

Spec == Init /\ [][Next]_vars

-----------------------------------------------------------------------------
Place == Zone \cup {NoPlace}

TypeOK ==
    /\ row \in [Char -> [owner : Player \cup {Nobody}, tp : Place, cps : SUBSET Waystones]]
    /\ roster \in [Player -> SUBSET [id : Char, tp : Place]]
    /\ stage \in [Player -> {"off", "select", "loading", "in"}]
    /\ role \in [Player -> Char \cup {Nobody}]
    /\ zone \in [Player -> Zone] /\ saved \in [Player -> Place]
    /\ spot \in [Player -> {"default", "waypoint", "waystone", "cast", "entrance"}]
    /\ source \in [Player -> Place] /\ menu \in [Player -> Place]
    /\ unlocked \in [Player -> SUBSET Waystones]
    /\ turn \in [Player -> 0 .. Cardinality(Waystones)]
    /\ copy \in [Zone -> [live : BOOLEAN, open : BOOLEAN, looted : BOOLEAN, boss : BOOLEAN]]
    /\ passable \in [Player -> BOOLEAN]
    /\ trips \in [Char -> Nat] /\ casts \in [Char -> 0 .. MaxScrolls]
    /\ moves \in 0 .. MaxMoves

(* A place the connection holds for the way back is in the row of the very *)
(* character it plays, and in the menu of its client: the scroll that is    *)
(* gone left something to use, and nobody uses another character's.         *)
SavedPlaceOffered ==
    \A p \in Player : Playing(p) /\ saved[p] # NoPlace =>
        /\ row[role[p]].tp = saved[p]
        /\ stage[p] = "in" => menu[p] = saved[p]

(* The waystones of a connection are those of its character's row, the two *)
(* starter ones always among them: what is unlocked stays unlocked in the   *)
(* next session.                                                            *)
WaystonesKept ==
    \A p \in Player : Playing(p) =>
        unlocked[p] = row[role[p]].cps /\ DefaultCheckpoints \subseteq unlocked[p]

(* A gate is open to a client exactly if it is open in the copy the client  *)
(* is in, whichever came first, the death of the boss or the player.        *)
GateShown == \A p \in Player : stage[p] = "in" => (passable[p] = copy[zone[p]].open)

(* A scroll is worth one way back: a character draws at most as many return *)
(* portals on arrival as he has read scrolls.                               *)
OneTripPerScroll == \A k \in Char : trips[k] <= casts[k]
=============================================================================
