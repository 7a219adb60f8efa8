------------------------------- MODULE Chase --------------------------------
(***************************************************************************)
(* The monsters of one copy of a zone, as the server drives them            *)
(* (managers/monster_ai.py, enroll_monsters of managers/world_instance.py,  *)
(* the create streams of managers/monsters.py).                             *)
(*                                                                          *)
(* Flags choose who drives a monster.  "native": the client alone.          *)
(* "follow": the server picks a target, steps the monster toward it up to   *)
(* its attack range, and streams Follow, Move and swings.  "enroll": the    *)
(* client's own brain, woken by the player's first attack.  The updates of  *)
(* a monster wait in each client's interval queue for the next frame; the   *)
(* destroy of a dead one is sent at once.                                   *)
(*                                                                          *)
(* Abstractions.  Positions are points of a line, and a tick of the copy    *)
(* steps a monster Speed points; the contact epsilon is less than a point.  *)
(* The time since something was last sent is counted in ticks, up to its    *)
(* interval.  Health is what _is_dead tells apart.                  *)
(***************************************************************************)
EXTENDS Integers, FiniteSets

CONSTANTS
    Player,
    Seniority,   \* the order of connections: player -> a number
    Hooked,      \* players whose client hook is connected
    Mob,
    Home,        \* where a monster spawns
    Door,        \* where players arrive
    Width,       \* bound: the line is 0 .. Width
    Ring,        \* effective_attack_range
    Radius,      \* AGGRO_RADIUS
    Speed,       \* MOVE_SPEED in one tick
    MoveEvery, FollowEvery, SwingEvery, Restore, ClampEvery, \* the intervals, in ticks
    Models,      \* the combinations of flags: [who, inject, clamp];
                 \* late: the monsters only an administrator spawns
    MaxId,       \* bound: avatars
    MaxSteps     \* bound: steps of players

RangeAssumption ==
    /\ {Width, Radius, Speed} \subseteq Nat
    /\ Ring \in 1 .. Width /\ Radius >= Ring /\ Speed >= 1
PlaceAssumption == Home \in [Mob -> 0 .. Width] /\ Door \subseteq 0 .. Width
IntervalAssumption ==
    {MoveEvery, FollowEvery, SwingEvery, Restore, ClampEvery} \subseteq Nat
BoundAssumption == {MaxId, MaxSteps} \subseteq Nat
SeniorityAssumption ==
    /\ IsFiniteSet(Player) /\ Seniority \in [Player -> 1 .. Cardinality(Player)]
    /\ \A p, q \in Player : Seniority[p] = Seniority[q] => p = q

VARIABLES
    model,     \* MONSTER_AI_ENABLED and the other switches of the process
    avatar,    \* the avatar a player has in the copy, 0 if he is not in it
    at,        \* player_pos
    mob,       \* TrackedMonster: position, target, life, ages, simulated_by
    latch,     \* _monsters_enrolled
    queue,     \* interval_message_queue
    shown,     \* monsters a client shows
    nextId, steps

vars == <<model, avatar, at, mob, latch, queue, shown, nextId, steps>>

Point == 0 .. Width
Here == {p \in Player : avatar[p] # 0}
Distance(x, y) == IF x < y THEN y - x ELSE x - y
Less(x, y) == IF x < y THEN x ELSE y

(* build_monsters_from_spawns, TrackedMonster: nothing sent yet.            *)
Spawned(m, late) ==
    [at |-> Home[m], target |-> 0, life |-> IF m \in late THEN "unborn" ELSE "up",
     move |-> MoveEvery, follow |-> FollowEvery, swing |-> SwingEvery, clamp |-> ClampEvery,
     sim |-> {}]
Populated(late) == [m \in Mob |-> Spawned(m, late)]

Init ==
    /\ model \in Models
    /\ avatar = [p \in Player |-> 0] /\ at = [p \in Player |-> 0]
    /\ mob = Populated(model.late) /\ latch = [p \in Player |-> FALSE]
    /\ queue = [p \in Player |-> {}] /\ shown = [p \in Player |-> {}]
    /\ nextId = 1 /\ steps = 0

Tracked == {m \in Mob : mob[m].life \in {"up", "dying"}}
IsDead(m) == mob[m].life = "dying"

(* build_monster_follow_packet, _attack_packet, _move_packet.               *)
Update(m, kind, dest) == [mob |-> m, kind |-> kind, dest |-> dest]

(* _enqueue_to_instance.                                                    *)
Enqueued(us) == [p \in Player |-> IF p \in Here THEN queue[p] \cup us ELSE queue[p]]

-----------------------------------------------------------------------------
(* Players enter, move and leave.                                           *)

(* _send_zone_progression: the snapshot, an avatar with a new id, and       *)
(* start_tick, which empties the queue.  send_client_control_reset clears   *)
(* the latch.                                                               *)
Enter(p, x) ==
    /\ avatar[p] = 0 /\ nextId <= MaxId
    /\ avatar' = [avatar EXCEPT ![p] = nextId] /\ nextId' = nextId + 1
    /\ at' = [at EXCEPT ![p] = x] /\ latch' = [latch EXCEPT ![p] = FALSE]
    /\ queue' = [queue EXCEPT ![p] = {}]
    /\ shown' = [shown EXCEPT ![p] = {m \in Mob : mob[m].life # "unborn"}]
    /\ UNCHANGED <<model, mob, steps>>

(* WorldInstanceRegistry.leave: the last one tears the copy down.           *)
Leave(p) ==
    /\ avatar[p] # 0
    /\ avatar' = [avatar EXCEPT ![p] = 0] /\ shown' = [shown EXCEPT ![p] = {}]
    /\ at' = [at EXCEPT ![p] = 0]
    /\ mob' = IF Here = {p} THEN Populated(model.late) ELSE mob
    /\ UNCHANGED <<model, latch, queue, nextId, steps>>

Walk(p, x) ==
    /\ avatar[p] # 0 /\ steps < MaxSteps /\ x # at[p]
    /\ at' = [at EXCEPT ![p] = x] /\ steps' = steps + 1
    /\ UNCHANGED <<model, avatar, mob, latch, queue, shown, nextId>>

-----------------------------------------------------------------------------
(* A tick of the copy: tick_instance.                                       *)

(* _nearest_player: of two at the same distance, the later connection.      *)
InRadius(m) == {p \in Here : Distance(at[p], mob[m].at) <= Radius}
Nearest(m) ==
    CHOOSE p \in InRadius(m) : \A q \in InRadius(m) :
        \/ Distance(at[p], mob[m].at) < Distance(at[q], mob[m].at)
        \/ /\ Distance(at[p], mob[m].at) = Distance(at[q], mob[m].at)
           /\ Seniority[p] >= Seniority[q]

(* Acquire a target, and stand down from one that has left:                 *)
(* _conn_for_target.                                                        *)
Aim(m) ==
    IF mob[m].target = 0
    THEN IF InRadius(m) = {} THEN 0 ELSE avatar[Nearest(m)]
    ELSE IF \E p \in Here : avatar[p] = mob[m].target THEN mob[m].target ELSE 0

Acquires(m) == mob[m].target = 0 /\ Aim(m) # 0
Quarry(m) == CHOOSE p \in Here : avatar[p] = Aim(m)
Gap(m) == Distance(at[Quarry(m)], mob[m].at)
Contact(m) == Gap(m) <= Ring

(* The steps of a chase end at the ring.                                    *)
StepLength_Short(m) == Less(Speed, Gap(m) - Ring - 1)

StepLength(m) == Less(Speed, Gap(m) - Ring)

Toward(m) == IF at[Quarry(m)] > mob[m].at THEN 1 ELSE -1
Stepped(m) == IF Contact(m) THEN mob[m].at ELSE mob[m].at + Toward(m) * StepLength(m)

(* Where the client's mover is sent: the point of the ring on this side, or *)
(* in contact the monster's own spot.                                       *)
Destination(m) == IF Contact(m) THEN mob[m].at ELSE at[Quarry(m)] - Toward(m) * Ring

Age(n, every) == Less(n + 1, every)

(* _maybe_swing: not without a hook to deal the damage.                     *)
Swings(m) ==
    /\ Contact(m) /\ model.inject /\ Quarry(m) \in Hooked
    /\ Age(mob[m].swing, SwingEvery) >= SwingEvery

(* _maybe_send_clamp.                                                       *)
Clamps(m, p) == model.clamp /\ p \in Hooked /\ Age(mob[m].clamp, ClampEvery) >= ClampEvery

(* The Follow that comes back after a swing.                                *)
Reasserts(m) ==
    /\ Contact(m) /\ model.inject /\ ~model.clamp
    /\ ~Swings(m) /\ Age(mob[m].swing, SwingEvery) >= Restore
    /\ ~Acquires(m) /\ Age(mob[m].follow, FollowEvery) >= FollowEvery

Corrects(m) == (Contact(m) => model.inject) /\ Age(mob[m].move, MoveEvery) >= MoveEvery

Updates(m) ==
    (IF Acquires(m) \/ Reasserts(m) THEN {Update(m, "follow", 0)} ELSE {})
    \cup (IF Swings(m) THEN {Update(m, "attack", 0)} ELSE {})
    \cup (IF Corrects(m) THEN {Update(m, "move", Destination(m))} ELSE {})

Sends(m) == Tracked # {} /\ m \in Tracked /\ ~IsDead(m) /\ Aim(m) # 0

Older(r) ==
    [r EXCEPT !.move = Age(@, MoveEvery), !.follow = Age(@, FollowEvery),
              !.swing = Age(@, SwingEvery), !.clamp = Age(@, ClampEvery)]

(* A monster after the tick.                                                *)
Driven(m) ==
    LET r == Older(mob[m]) IN
    CASE m \notin Tracked -> r
      [] IsDead(m) -> [r EXCEPT !.target = 0]
      [] m \in Tracked /\ ~IsDead(m) /\ Aim(m) = 0 -> [r EXCEPT !.target = 0]
      [] OTHER ->
            [r EXCEPT !.target = Aim(m), !.at = Stepped(m),
                      !.follow = IF Acquires(m) \/ Reasserts(m) THEN 0 ELSE @,
                      !.swing = IF Swings(m) THEN 0 ELSE @,
                      !.clamp = IF Clamps(m, Quarry(m)) THEN 0 ELSE @,
                      !.move = IF Corrects(m) THEN 0 ELSE @]

TickFollow ==
    /\ model.who = "follow" /\ Here # {}
    /\ mob' = [m \in Mob |-> Driven(m)]
    /\ queue' = Enqueued(UNION {Updates(m) : m \in {n \in Mob : Sends(n)}})
    /\ UNCHANGED <<model, avatar, at, latch, shown, nextId, steps>>

(* _tick_enroll_clamp, for a player who simulates the monster.              *)
TickEnroll ==
    /\ model.who = "enroll" /\ model.clamp /\ Here # {}
    /\ mob' = [m \in Mob |->
                 IF m \in Tracked /\ ~IsDead(m)
                    /\ \E p \in mob[m].sim \cap Here :
                          /\ \A q \in mob[m].sim \cap Here : Seniority[p] <= Seniority[q]
                          /\ Clamps(m, p)
                 THEN [Older(mob[m]) EXCEPT !.clamp = 0] ELSE Older(mob[m])]
    /\ UNCHANGED <<model, avatar, at, latch, queue, shown, nextId, steps>>

-----------------------------------------------------------------------------
(* The player attacks: the fork of handle_component_update.                 *)

(* aggro_from_attack, _aggro: from any distance, and away from another.     *)
Provoke(p, m) ==
    /\ model.who = "follow" /\ avatar[p] # 0 /\ m \in Tracked /\ ~IsDead(m)
    /\ LET turns == mob[m].target # avatar[p]
           again == ~turns /\ ~model.clamp /\ mob[m].follow >= FollowEvery
       IN /\ turns \/ again
          /\ mob' = [mob EXCEPT ![m].target = avatar[p], ![m].follow = 0]
          /\ queue' = Enqueued({Update(m, "follow", 0)})
    /\ UNCHANGED <<model, avatar, at, latch, shown, nextId, steps>>

(* enroll_instance_monsters, once per zone entry.                           *)
Enroll(p) ==
    /\ model.who = "enroll" /\ avatar[p] # 0 /\ ~latch[p]
    /\ latch' = [latch EXCEPT ![p] = TRUE]
    /\ mob' = [m \in Mob |->
                 IF m \in Tracked /\ ~IsDead(m) THEN [mob[m] EXCEPT !.sim = @ \cup {p}]
                 ELSE mob[m]]
    /\ UNCHANGED <<model, avatar, at, queue, shown, nextId, steps>>

(* The server counts the monster dead: pending_kill, or no health left.     *)
Fell(m) ==
    /\ Here # {} /\ mob[m].life = "up"
    /\ mob' = [mob EXCEPT ![m].life = "dying"]
    /\ UNCHANGED <<model, avatar, at, latch, queue, shown, nextId, steps>>

(* purge_monster.                                                           *)
Purged_TrackingOnly(m) == queue

Purged(m) ==
    [p \in Player |-> IF p \in Here THEN {u \in queue[p] : u.mob # m} ELSE queue[p]]

(* CombatManager.on_kill: purge, then the destroy; a client that simulates  *)
(* the monster has removed it itself.                                       *)
Kill(m) ==
    /\ Here # {} /\ m \in Tracked
    /\ mob' = [mob EXCEPT ![m].life = "gone"]
    /\ queue' = Purged(m)
    /\ shown' = [p \in Player |-> shown[p] \ {m}]
    /\ UNCHANGED <<model, avatar, at, latch, nextId, steps>>

(* spawn_monsters_live.                                                     *)
SpawnLive(m) ==
    /\ Here # {} /\ mob[m].life = "unborn"
    /\ mob' = [mob EXCEPT ![m].life = "up"]
    /\ shown' = [p \in Player |-> IF p \in Here THEN shown[p] \cup {m} ELSE shown[p]]
    /\ UNCHANGED <<model, avatar, at, latch, queue, nextId, steps>>

(* The interval frame of _tick_loop carries what waits.                     *)
Drain(p) ==
    /\ avatar[p] # 0 /\ queue[p] # {}
    /\ queue' = [queue EXCEPT ![p] = {}]
    /\ UNCHANGED <<model, avatar, at, mob, latch, shown, nextId, steps>>

Next ==
    \/ \E p \in Player :
        \/ \E x \in Door : Enter(p, x)
        \/ Leave(p)
        \/ \E x \in Point : Walk(p, x)
        \/ \E m \in Mob : Provoke(p, m)
        \/ Enroll(p)
        \/ Drain(p)
    \/ \E m \in Mob : Fell(m) \/ Kill(m) \/ SpawnLive(m)
    \/ TickFollow
    \/ TickEnroll

(* _instance_tick_loop sleeps and runs again for as long as the copy lives. *)
Spec == Init /\ [][Next]_vars /\ WF_vars(TickFollow)

-----------------------------------------------------------------------------
TypeOK ==
    /\ model \in Models /\ avatar \in [Player -> 0 .. MaxId] /\ at \in [Player -> Point]
    /\ mob \in [Mob -> [at : Point, target : 0 .. MaxId,
                        life : {"unborn", "up", "dying", "gone"},
                        move : 0 .. MoveEvery, follow : 0 .. FollowEvery,
                        swing : 0 .. SwingEvery, clamp : 0 .. ClampEvery, sim : SUBSET Player]]
    /\ latch \in [Player -> BOOLEAN] /\ shown \in [Player -> SUBSET Mob]
    /\ \A p \in Player : \A u \in queue[p] :
        u.mob \in Mob /\ u.kind \in {"follow", "attack", "move"}
    /\ nextId \in 1 .. MaxId + 1 /\ steps \in 0 .. MaxSteps

(* What waits for the next interval frame of a client is about monsters the *)
(* client shows: an update of a component that is gone is a zone error.     *)
UpdatesLive == TypeOK /\ \A p \in Here : \A u \in queue[p] : u.mob \in shown[p]

(* The server never drives a monster into a player: a tick leaves a monster *)
(* it moves outside the ring of its target, and every correction it sends   *)
(* ends there too, or where the monster stands.                             *)
KeepsDistance ==
    [][\A m \in Mob : TickFollow =>
        /\ mob'[m].at # mob[m].at =>
            \E p \in Here : avatar[p] = mob'[m].target
                            /\ Distance(at[p], mob'[m].at) >= Ring
        /\ \A p \in Here : \A u \in queue'[p] \ queue[p] :
            u.mob = m /\ u.kind = "move" /\ u.dest # mob[m].at =>
                \E q \in Here : avatar[q] = mob'[m].target /\ Distance(at[q], u.dest) >= Ring]_vars

(* The monster has a target in the copy and is not at its ring.             *)
Pursuing(m) ==
    /\ model.who = "follow" /\ mob[m].life = "up"
    /\ \E p \in Here : avatar[p] = mob[m].target /\ Distance(at[p], mob[m].at) > Ring

(* A chase ends: players who stand still are reached, or the monster dies   *)
(* or loses its target.                                                     *)
ChaseEnds == \A m \in Mob : []<>~Pursuing(m)

(* No player within the radius of a monster is left alone: it finds a       *)
(* target, dies, or they all leave.                                         *)
Idle(m) ==
    /\ model.who = "follow" /\ mob[m].life = "up" /\ InRadius(m) # {}
    /\ ~\E p \in Here : avatar[p] = mob[m].target
Noticed == \A m \in Mob : []<>~Idle(m)

(* Monsters notice, approach and stop short of players.                     *)
ChaseSettles == KeepsDistance /\ ChaseEnds /\ Noticed
=============================================================================
