------------------------------ MODULE Movement ------------------------------
(***************************************************************************)
(* The tick of a connection and the input it answers (net/movement.py), and *)
(* the copies of an avatar that other clients show and that the moves and   *)
(* actions of its player are relayed to (net/action_relay.py).              *)
(*                                                                          *)
(* A client that moves or acts waits for the echo of its own input.  Echoes *)
(* of moves and of combat actions are staged and leave in the interval      *)
(* frame of every IntervalEvery-th tick, all other answers leave with the   *)
(* next tick.  Relays to viewers are written at once, moves at most one per *)
(* tick interval, and every RelayEvery-th tick replays the last relayed     *)
(* move once after the player stopped.  Handlers and ticks run to           *)
(* completion on one asyncio loop: one handler, one action.                 *)
(*                                                                          *)
(* Abstractions.  A move record is its number in the walk of its player,    *)
(* which also names the position it leads to.  All players share one        *)
(* instance per zone (module World has the instances and the ids).          *)
(* Clocks are two flags per player, the hold-off of the staged echo and the *)
(* rate limit of the relay; both run out by an action of their own.         *)
(*                                                                          *)
(* An operator named Op_Slip, for some Slip, is Op with a mistake in it that *)
(* the checks must find; no other definition uses it.                       *)
(***************************************************************************)
EXTENDS Integers, SequencesExt

CONSTANTS
    Player,         \* the connections
    Mover,          \* bound: those whose clients send input; the ticks of the
                    \* others would send nothing
    Zone,           \* the zones
    StartZone,      \* the zone every player starts in
    IntervalEvery,  \* _WORLD_INTERVAL_EVERY, ticks between two interval frames
    RelayEvery,     \* _FALLBACK_RELAY_EVERY, ticks between two replays
    EchoCap,        \* records one echo holds, 255 in the code
    MaxMoves,       \* bound: positions a player reaches
    MaxActs,        \* bound: actions a player sends
    MaxSession,     \* bound: move sessions a client opens
    MaxVisits       \* bound: player -> times it joins a zone

ASSUME PlayerAssumption == Mover \subseteq Player /\ StartZone \in Zone
ASSUME PeriodAssumption ==
    {IntervalEvery, RelayEvery, EchoCap} \subseteq Nat \ {0}
ASSUME BoundAssumption ==
    /\ {MaxMoves, MaxActs, MaxSession} \subseteq Nat
    /\ MaxVisits \in [Player -> Nat]

VARIABLES
    online,     \* conn.is_connected
    spawned,    \* conn.is_spawned, and conn.allow_flush with it
    zone,       \* conn.current_zone_name
    visits,     \* zones joined so far
    tasks,      \* tick tasks of the connection that are not cancelled
    beat,       \* ticks of the running task, modulo both periods
    walk,       \* records received so far: the position of the player
    session,    \* conn.session_id as the client counts it
    staged,     \* conn.pending_local_move_*: the echo that waits for a frame
    held,       \* the hold-off of the staged echo has not run out
    acts,       \* actions received so far
    interval,   \* conn.interval_message_queue: answers to actions
    messages,   \* conn.message_queue: answers to clicks
    lastMove,   \* conn.last_raw_move_data
    halted,     \* conn.stop_signal_sent
    limited,    \* less than a tick interval has passed since the last relay
    rooting,    \* conn.viewer_action_pending
    copy,       \* viewer -> mover -> the avatar the viewer's client shows
    echoed,     \* client: the records that were echoed to it
    told,       \* client: its actions that were answered
    since       \* walk and acts when the running tick task was started

connVars   == <<online, spawned, zone, visits>>
tickVars   == <<tasks, beat>>
inputVars  == <<walk, session, acts>>
answerVars == <<staged, held, interval, messages>>
relayVars  == <<lastMove, halted, limited>>
viewVars   == <<rooting, copy>>
clientVars == <<echoed, told>>
vars == <<online, spawned, zone, visits, tasks, beat, walk, session, acts,
          staged, held, interval, messages, lastMove, halted, limited,
          rooting, copy, echoed, told, since>>

-----------------------------------------------------------------------------
(* State *)

NoEcho  == [session |-> 0, moves |-> <<>>]
NoCopy  == [at |-> 0, rooted |-> FALSE, shown |-> FALSE]
Fresh(n) == [at |-> n, rooted |-> FALSE, shown |-> TRUE]

Init ==
    /\ online   = [p \in Player |-> TRUE]
    /\ spawned  = [p \in Player |-> FALSE]
    /\ zone     = [p \in Player |-> StartZone]
    /\ visits   = [p \in Player |-> 0]
    /\ tasks    = [p \in Player |-> 0]
    /\ beat     = [p \in Player |-> 0]
    /\ walk     = [p \in Player |-> 0]
    /\ session  = [p \in Player |-> 0]
    /\ acts     = [p \in Player |-> 0]
    /\ staged   = [p \in Player |-> NoEcho]
    /\ held     = [p \in Player |-> FALSE]
    /\ interval = [p \in Player |-> <<>>]
    /\ messages = [p \in Player |-> <<>>]
    /\ lastMove = [p \in Player |-> <<>>]
    /\ halted   = [p \in Player |-> FALSE]
    /\ limited  = [p \in Player |-> FALSE]
    /\ rooting  = [p \in Player |-> FALSE]
    /\ copy     = [v \in Player |-> [p \in Player |-> NoCopy]]
    /\ echoed   = [p \in Player |-> <<>>]
    /\ told     = [p \in Player |-> <<>>]
    /\ since    = [p \in Player |-> [walk |-> 0, acts |-> 0]]

(* Whose clients are sent what p does: spawned in the same zone, with a    *)
(* mapping for the avatar of p.                                            *)
Viewers(p) ==
    {v \in Player \ {p} : spawned[v] /\ zone[v] = zone[p] /\ copy[v][p].shown}

(* The copies of p after its viewers applied step to theirs.               *)
Shown(cs, p, step) ==
    [v \in Player |->
        IF v \in Viewers(p) THEN [cs[v] EXCEPT ![p] = step[@]] ELSE cs[v]]

AnyCopy == [at : 0..MaxMoves, rooted : BOOLEAN, shown : BOOLEAN]

-----------------------------------------------------------------------------
(* Relays *)

(* A copy in an action does not follow moves until the action is cancelled.*)
Rooted   == [c \in AnyCopy |-> [c EXCEPT !.rooted = TRUE]]
Unrooted == [c \in AnyCopy |-> [c EXCEPT !.rooted = FALSE]]
Follows(moves) ==
    [c \in AnyCopy |-> IF c.rooted THEN c ELSE [c EXCEPT !.at = Last(moves)]]

(* relay_player_action: the flag is set when somebody was shown it.        *)
RelayAction_Unflagged(p) ==
    /\ copy' = Shown(copy, p, Rooted)
    /\ UNCHANGED rooting

RelayAction(p) ==
    /\ copy' = Shown(copy, p, Rooted)
    /\ rooting' = [rooting EXCEPT ![p] = @ \/ Viewers(p) # {}]

(* relay_cancel_action, on the copies cs.                                  *)
Cancelled(cs, p) == Shown(cs, p, Unrooted)

(* _broadcast_player_movement of a packet of moves, empty when the player  *)
(* stands still; cs are the copies it finds.  A call that passes the rate   *)
(* limit renews it, whether or not it relays anything.                      *)
Broadcast_NoReplay(p, moves, cs) ==
    LET replay == moves = <<>>
        relays == ~limited[p] /\ ~replay
    IN
    /\ limited' = [limited EXCEPT ![p] = TRUE]
    /\ copy' = IF relays THEN Shown(cs, p, Follows(moves)) ELSE cs
    /\ lastMove' = IF relays THEN [lastMove EXCEPT ![p] = moves] ELSE lastMove
    /\ UNCHANGED halted

Broadcast(p, moves, cs) ==
    LET replay == moves = <<>>
        relays == ~limited[p] /\ (replay => ~halted[p] /\ lastMove[p] # <<>>)
        sent   == IF replay THEN lastMove[p] ELSE moves
    IN
    /\ limited' = [limited EXCEPT ![p] = TRUE]
    /\ copy' = IF relays THEN Shown(cs, p, Follows(sent)) ELSE cs
    /\ lastMove' = IF relays THEN [lastMove EXCEPT ![p] = sent] ELSE lastMove
    /\ halted' = IF relays THEN [halted EXCEPT ![p] = replay] ELSE halted

-----------------------------------------------------------------------------
(* Input of the client *)

(* _queue_local_move_ack: records of one session gather, the last EchoCap   *)
(* of them; another session replaces what is staged.                        *)
Staged(p, s, moves) ==
    IF staged[p].session = s /\ staged[p].moves # <<>>
    THEN LET all == staged[p].moves \o moves
         IN [session |-> s,
             moves |-> SubSeq(all, Len(all) - (IF Len(all) < EchoCap THEN Len(all)
                                               ELSE EchoCap) + 1, Len(all))]
    ELSE [session |-> s, moves |-> moves]

(* _handle_client_move: n records of session s.  The copies that are still *)
(* in an action leave it before the move reaches them.                     *)
UnrootedFirst(p) == IF rooting[p] THEN Cancelled(copy, p) ELSE copy

HandleClientMove(p, s, n) ==
    LET moves == [i \in 1..n |-> walk[p] + i] IN
    /\ online[p] /\ visits[p] > 0
    /\ n > 0 /\ walk[p] + n <= MaxMoves
    /\ s \in {session[p], session[p] + 1} /\ s <= MaxSession
    /\ walk' = [walk EXCEPT ![p] = @ + n]
    /\ session' = [session EXCEPT ![p] = s]
    /\ rooting' = [rooting EXCEPT ![p] = FALSE]
    /\ staged' = [staged EXCEPT ![p] = Staged(p, s, moves)]
    /\ held' = [held EXCEPT ![p] = @ \/ staged[p].moves = <<>>]
    /\ Broadcast(p, moves, UnrootedFirst(p))
    /\ UNCHANGED <<connVars, tickVars, acts, interval, messages, clientVars, since>>

(* An attack or a cast (0x50, 0x51, 0x52): answered in the interval frame  *)
(* and shown to the viewers.                                               *)
Act(p) ==
    /\ online[p] /\ visits[p] > 0 /\ acts[p] < MaxActs
    /\ acts' = [acts EXCEPT ![p] = @ + 1]
    /\ interval' = [interval EXCEPT ![p] = Append(@, acts'[p])]
    /\ RelayAction(p)
    /\ UNCHANGED <<connVars, tickVars, walk, session, staged, held, messages,
                   relayVars, clientVars, since>>

(* _handle_cancel_action *)
HandleCancelAction(p) ==
    /\ online[p] /\ visits[p] > 0 /\ acts[p] < MaxActs
    /\ acts' = [acts EXCEPT ![p] = @ + 1]
    /\ interval' = [interval EXCEPT ![p] = Append(@, acts'[p])]
    /\ copy' = Cancelled(copy, p)
    /\ rooting' = [rooting EXCEPT ![p] = FALSE]
    /\ UNCHANGED <<connVars, tickVars, walk, session, staged, held, messages,
                   relayVars, clientVars, since>>

(* A click (0x06) on a person, a chest or a shrine: answered by the next   *)
(* tick.  A client that is loading a zone may still have sent one.         *)
Activate(p) ==
    /\ online[p] /\ visits[p] > 0 /\ acts[p] < MaxActs
    /\ acts' = [acts EXCEPT ![p] = @ + 1]
    /\ messages' = [messages EXCEPT ![p] = Append(@, acts'[p])]
    /\ UNCHANGED <<connVars, tickVars, walk, session, staged, held, interval,
                   relayVars, viewVars, clientVars, since>>

-----------------------------------------------------------------------------
(* Ticks *)

Every(n, b) == b % n = 0
Cycle == IntervalEvery * RelayEvery

(* _build_pending_local_move_ack: the echo that is due, if any.            *)
Due(p) == staged[p].moves # <<>> /\ ~held[p]

IntervalFrame(p) ==
    /\ interval' = [interval EXCEPT ![p] = <<>>]
    /\ IF Due(p)
       THEN /\ staged' = [staged EXCEPT ![p].moves = <<>>]
            /\ echoed' = [echoed EXCEPT ![p] = @ \o staged[p].moves]
       ELSE UNCHANGED <<staged, echoed>>

(* One turn of _tick_loop: the flush, every so often the interval frame,   *)
(* every so often the replay.                                              *)
Tick(p) ==
    LET b == (beat[p] + 1) % Cycle
        framed == Every(IntervalEvery, b)
    IN
    /\ tasks[p] > 0 /\ online[p] /\ spawned[p]
    /\ beat' = [beat EXCEPT ![p] = b]
    /\ messages' = [messages EXCEPT ![p] = <<>>]
    /\ told' = [told EXCEPT ![p] = @ \o messages[p]
                                     \o IF framed THEN interval[p] ELSE <<>>]
    /\ IF framed THEN IntervalFrame(p) ELSE UNCHANGED <<interval, staged, echoed>>
    /\ IF Every(RelayEvery, b) THEN Broadcast(p, <<>>, copy)
       ELSE UNCHANGED <<relayVars, copy>>
    /\ UNCHANGED <<connVars, tasks, inputVars, held, rooting, since>>

(* Time: the hold-off of 8 ms and the tick interval of 33 ms run out.      *)
HoldoffEnds(p) ==
    /\ held[p]
    /\ held' = [held EXCEPT ![p] = FALSE]
    /\ UNCHANGED <<connVars, tickVars, inputVars, staged, interval, messages,
                   relayVars, viewVars, clientVars, since>>

LimitEnds(p) ==
    /\ limited[p]
    /\ limited' = [limited EXCEPT ![p] = FALSE]
    /\ UNCHANGED <<connVars, tickVars, inputVars, answerVars, lastMove, halted,
                   viewVars, clientVars, since>>

-----------------------------------------------------------------------------
(* Zones *)

(* start_tick, where w is the position: one task, and nothing older.       *)
ResetRelayState_KeepsEcho(p) ==
    /\ lastMove' = [lastMove EXCEPT ![p] = <<>>]
    /\ halted' = [halted EXCEPT ![p] = FALSE]
    /\ limited' = [limited EXCEPT ![p] = FALSE]
    /\ UNCHANGED <<staged, held, interval>>

ResetRelayState(p) ==
    /\ staged' = [staged EXCEPT ![p] = NoEcho]
    /\ held' = [held EXCEPT ![p] = FALSE]
    /\ interval' = [interval EXCEPT ![p] = <<>>]
    /\ lastMove' = [lastMove EXCEPT ![p] = <<>>]
    /\ halted' = [halted EXCEPT ![p] = FALSE]
    /\ limited' = [limited EXCEPT ![p] = FALSE]

StartTask(p) == tasks' = [tasks EXCEPT ![p] = 1]

StartTick(p, w) ==
    /\ StartTask(p)
    /\ beat' = [beat EXCEPT ![p] = 0]
    /\ since' = [since EXCEPT ![p] = [walk |-> w, acts |-> acts[p]]]
    /\ ResetRelayState(p)

(* The copies p has of the others and the others have of p are gone.       *)
Forgotten(p) ==
    [v \in Player |-> [m \in Player |->
        IF p \in {v, m} THEN NoCopy ELSE copy[v][m]]]

(* _send_zone_progression, when the client has loaded the zone: everyone in *)
(* the zone gets a copy of the newcomer, and it one of each of them.        *)
Join(p) ==
    LET there == {q \in Player \ {p} : spawned[q] /\ zone[q] = zone[p]} IN
    /\ online[p] /\ ~spawned[p] /\ visits[p] < MaxVisits[p]
    /\ spawned' = [spawned EXCEPT ![p] = TRUE]
    /\ visits' = [visits EXCEPT ![p] = @ + 1]
    /\ copy' = [v \in Player |-> [m \in Player |->
                  IF (v = p /\ m \in there) \/ (m = p /\ v \in there)
                  THEN Fresh(walk[m]) ELSE copy[v][m]]]
    /\ StartTick(p, walk[p])
    /\ UNCHANGED <<online, zone, inputVars, messages, rooting, clientVars>>

(* _transfer_zone.  The answer to a click on a portal is queued before it  *)
(* and dropped by it.                                                      *)
TransferZone(p, z) ==
    /\ online[p] /\ visits[p] \in 1..(MaxVisits[p] - 1) /\ z # zone[p]
    /\ zone' = [zone EXCEPT ![p] = z]
    /\ spawned' = [spawned EXCEPT ![p] = FALSE]
    /\ tasks' = [tasks EXCEPT ![p] = 0]
    /\ messages' = [messages EXCEPT ![p] = <<>>]
    /\ copy' = Forgotten(p)
    /\ UNCHANGED <<online, visits, beat, inputVars, staged, held, interval,
                   relayVars, rooting, clientVars, since>>

(* _respawn_in_place: a new position in the same zone, told to p alone.    *)
RespawnInPlace(p) ==
    /\ online[p] /\ spawned[p] /\ walk[p] < MaxMoves
    /\ walk' = [walk EXCEPT ![p] = @ + 1]
    /\ StartTick(p, walk'[p])
    /\ UNCHANGED <<connVars, session, acts, messages, viewVars, clientVars>>

(* _on_disconnect *)
Disconnect(p) ==
    /\ online[p]
    /\ online' = [online EXCEPT ![p] = FALSE]
    /\ spawned' = [spawned EXCEPT ![p] = FALSE]
    /\ tasks' = [tasks EXCEPT ![p] = 0]
    /\ copy' = Forgotten(p)
    /\ UNCHANGED <<zone, visits, beat, inputVars, answerVars, relayVars, rooting,
                   clientVars, since>>

-----------------------------------------------------------------------------
Input(p) ==
    \/ \E s \in 0..MaxSession, n \in 1..EchoCap : HandleClientMove(p, s, n)
    \/ Act(p)
    \/ HandleCancelAction(p)
    \/ Activate(p)
    \/ RespawnInPlace(p)

Next ==
    \/ \E p \in Mover :
          \/ Input(p) \/ Disconnect(p)
          \/ Tick(p) \/ HoldoffEnds(p) \/ LimitEnds(p)
    \/ \E p \in Player : Join(p) \/ \E z \in Zone : TransferZone(p, z)

(* Time passes, and a task that sleeps for a tick interval runs again; what *)
(* clients do is not fair.                                                  *)
Fairness ==
    \A p \in Mover : WF_vars(Tick(p)) /\ WF_vars(HoldoffEnds(p)) /\ WF_vars(LimitEnds(p))

Spec == Init /\ [][Next]_vars /\ Fairness

-----------------------------------------------------------------------------
(* Properties *)

(* Types; and a spawned player has exactly one tick task, every other none: *)
(* two would double every frame of the zone (start_tick).                   *)
TypeOK ==
    /\ \A p \in Player :
          /\ {online[p], spawned[p], held[p], halted[p], limited[p], rooting[p]}
                \subseteq BOOLEAN
          /\ zone[p] \in Zone /\ visits[p] \in 0..MaxVisits[p]
          /\ beat[p] \in 0..(Cycle - 1)
          /\ {walk[p], since[p].walk} \subseteq 0..MaxMoves
          /\ Len(staged[p].moves) <= EchoCap
          /\ \A v \in Player : copy[v][p] \in AnyCopy
    /\ \A p \in Player : tasks[p] = IF online[p] /\ spawned[p] THEN 1 ELSE 0

(* A copy that stands in an action belongs to a player who is known to have *)
(* one shown: the next move or cancellation frees it.  Without the flag the *)
(* copy is frozen for good (relay_player_action, relay_cancel_action).      *)
RootedIsKnown ==
    TypeOK /\ \A v, p \in Player : copy[v][p].rooted => rooting[p] /\ v \in Viewers(p)

(* What a frame echoes is new: in the order of the walk, no record twice and *)
(* no action answered twice, and nothing staged before the tick task of this *)
(* zone was started (_reset_movement_relay_state).                           *)
FramesFresh ==
    [][\A p \in Player :
          /\ \A i \in DOMAIN echoed'[p] :
                /\ i > 1 => echoed'[p][i] > echoed'[p][i - 1]
                /\ i > Len(echoed[p]) => echoed'[p][i] > since[p].walk
          /\ Cardinality(ToSet(told'[p])) = Len(told'[p])]_<<echoed, told>>

(* A move that passes the rate limit is followed by every copy of the       *)
(* player, whatever action the copy was in (_handle_client_move).           *)
MovesFollowed ==
    [][\A p \in Player :
          lastMove'[p] # lastMove[p] /\ lastMove'[p] # <<>> =>
              \A v \in Viewers(p) : copy'[v][p].at = walk'[p]]_vars

(* Answers and copies follow the walk of the player.                        *)
RelaysFollow == FramesFresh /\ MovesFollowed

(* The client is never left waiting: every record staged is echoed, itself  *)
(* or by a later one, and every action answered, unless the player left the *)
(* zone or was respawned (_tick_loop).                                      *)
InputAnswered ==
    \A p \in Mover :
       /\ \A n \in 1..MaxMoves :
             n \in ToSet(staged[p].moves)
                ~> \/ \E m \in ToSet(echoed[p]) : m >= n
                   \/ since[p].walk >= n \/ ~spawned[p]
       /\ \A n \in 1..MaxActs :
             n \in ToSet(interval[p]) \cup ToSet(messages[p])
                ~> n \in ToSet(told[p]) \/ since[p].acts >= n \/ ~spawned[p]

(* After the last relayed move the viewers are told that the player stands  *)
(* (_broadcast_player_movement, the replay of the fallback tick).           *)
HaltShown ==
    \A p \in Mover :
       spawned[p] /\ lastMove[p] # <<>>
          ~> halted[p] \/ lastMove[p] = <<>> \/ ~spawned[p]

(* What a player does ends up answered at home and seen by others.          *)
MovementSettles == InputAnswered /\ HaltShown
=============================================================================
