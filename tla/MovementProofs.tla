--------------------------- MODULE MovementProofs ---------------------------
(***************************************************************************)
(* Proofs about Movement: types, one tick task per spawned player, no copy *)
(* of a player that is frozen in an action nobody remembers, and frames    *)
(* that neither repeat nor overtake, for any players, zones and bounds.    *)
(*                                                                         *)
(* RootedIsKnown is inductive once the types say what a replay relays:     *)
(* the last move is a sequence of positions, and what is staged too.       *)
(* RelaysFollow needs Frames: what is staged continues what was echoed,    *)
(* and what is queued was never answered.                                  *)
(***************************************************************************)
EXTENDS Movement, FiniteSetTheorems, TLAPS

Place == 0..MaxMoves
Copies == [Player -> [Player -> AnyCopy]]
Echo == [session : Int, moves : Seq(Place)]

Types ==
    /\ {online, spawned, held, halted, limited, rooting} \subseteq [Player -> BOOLEAN]
    /\ zone \in [Player -> Zone]
    /\ visits \in [Player -> Nat] /\ \A p \in Player : visits[p] <= MaxVisits[p]
    /\ beat \in [Player -> 0..(Cycle - 1)]
    /\ tasks \in [Player -> {0, 1}]
    /\ walk \in [Player -> Place] /\ acts \in [Player -> Nat]
    /\ since \in [Player -> [walk : Place, acts : Nat]]
    /\ staged \in [Player -> Echo] /\ \A p \in Player : Len(staged[p].moves) <= EchoCap
    /\ lastMove \in [Player -> Seq(Place)]
    /\ copy \in Copies

OneTask == \A p \in Player : tasks[p] = IF online[p] /\ spawned[p] THEN 1 ELSE 0

Known == \A v, p \in Player : copy[v][p].rooted => rooting[p] /\ v \in Viewers(p)

Sound == Types /\ OneTask /\ Known

-----------------------------------------------------------------------------
(* The relays *)

LEMMA StepTypes ==
    /\ Rooted \in [AnyCopy -> AnyCopy]
    /\ \A c \in AnyCopy : Rooted[c].shown = c.shown
    /\ Unrooted \in [AnyCopy -> AnyCopy]
    /\ \A c \in AnyCopy : Unrooted[c].shown = c.shown /\ ~Unrooted[c].rooted
BY DEF Rooted, Unrooted, AnyCopy

LEMMA FollowsType ==
    ASSUME NEW moves \in Seq(Place), moves # <<>>
    PROVE  /\ Follows(moves) \in [AnyCopy -> AnyCopy]
           /\ \A c \in AnyCopy : /\ Follows(moves)[c].shown = c.shown
                                 /\ Follows(moves)[c].rooted = c.rooted
<1>1. Last(moves) \in Place
  BY DEF Last
<1>2. QED
  BY <1>1 DEF Follows, AnyCopy, Place

(* The copies after a relay: those of the viewers took the step.           *)
LEMMA ShownType ==
    ASSUME NEW cs \in Copies, NEW p \in Player, NEW step \in [AnyCopy -> AnyCopy]
    PROVE  /\ Shown(cs, p, step) \in Copies
           /\ \A v, m \in Player :
                 Shown(cs, p, step)[v][m] =
                     IF v \in Viewers(p) /\ m = p THEN step[cs[v][p]] ELSE cs[v][m]
BY DEF Shown, Copies

LEMMA BroadcastType ==
    ASSUME Types, NEW p \in Player, NEW moves \in Seq(Place), NEW cs \in Copies,
           Broadcast(p, moves, cs)
    PROVE  /\ {limited', halted'} \subseteq [Player -> BOOLEAN]
           /\ lastMove' \in [Player -> Seq(Place)]
           /\ copy' \in Copies
           /\ \A v, m \in Player : /\ copy'[v][m].shown = cs[v][m].shown
                                   /\ copy'[v][m].rooted <=> cs[v][m].rooted
<1> DEFINE replay == moves = <<>>
           relays == ~limited[p] /\ (replay => ~halted[p] /\ lastMove[p] # <<>>)
           sent   == IF replay THEN lastMove[p] ELSE moves
<1>1. /\ limited' = [limited EXCEPT ![p] = TRUE]
      /\ copy' = IF relays THEN Shown(cs, p, Follows(sent)) ELSE cs
      /\ lastMove' = IF relays THEN [lastMove EXCEPT ![p] = sent] ELSE lastMove
      /\ halted' = IF relays THEN [halted EXCEPT ![p] = replay] ELSE halted
  BY DEF Broadcast
<1>2. sent \in Seq(Place) /\ (relays => sent # <<>>)
  BY DEF Types
<1>3. {limited', halted'} \subseteq [Player -> BOOLEAN] /\ lastMove' \in [Player -> Seq(Place)]
  <2>1. limited' \in [Player -> BOOLEAN]
    BY <1>1 DEF Types
  <2>2. halted' \in [Player -> BOOLEAN]
    BY <1>1 DEF Types
  <2>3. lastMove' \in [Player -> Seq(Place)]
    BY <1>1, <1>2 DEF Types
  <2>4. QED
    BY <2>1, <2>2, <2>3
<1>4. CASE relays
  <2> HIDE DEF sent
  <2>1. Follows(sent) \in [AnyCopy -> AnyCopy]
        /\ \A c \in AnyCopy : /\ Follows(sent)[c].shown = c.shown
                              /\ Follows(sent)[c].rooted = c.rooted
    BY <1>2, <1>4, FollowsType
  <2>2. copy' = Shown(cs, p, Follows(sent))
    BY <1>1, <1>4
  <2>3. \A v, m \in Player : cs[v][m] \in AnyCopy
    BY DEF Copies
  <2> DEFINE step == Follows(sent)
  <2> HIDE DEF step
  <2>4. /\ step \in [AnyCopy -> AnyCopy] /\ copy' = Shown(cs, p, step)
        /\ \A c \in AnyCopy : step[c].shown = c.shown /\ step[c].rooted = c.rooted
    BY <2>1, <2>2 DEF step
  <2>5. /\ copy' \in Copies
        /\ \A v, m \in Player :
              copy'[v][m] = IF v \in Viewers(p) /\ m = p THEN step[cs[v][p]] ELSE cs[v][m]
    BY <2>4, ShownType
  <2>6. ASSUME NEW v \in Player, NEW m \in Player
        PROVE  /\ copy'[v][m].shown = cs[v][m].shown
               /\ copy'[v][m].rooted <=> cs[v][m].rooted
    <3>1. CASE v \in Viewers(p) /\ m = p
      BY <2>3, <2>4, <2>5, <3>1
    <3>2. CASE ~(v \in Viewers(p) /\ m = p)
      BY <2>5, <3>2
    <3>3. QED
      BY <3>1, <3>2
  <2>7. QED
    BY <1>3, <2>5, <2>6
<1>5. CASE ~relays
  BY <1>1, <1>3, <1>5
<1>6. QED
  BY <1>4, <1>5

LEMMA InitSound == Init => Sound
<1> SUFFICES ASSUME Init PROVE Sound
  OBVIOUS
<1>1. 0 \in 0..(Cycle - 1) /\ 0 \in Place /\ <<>> \in Seq(Place)
  BY PeriodAssumption, BoundAssumption DEF Cycle, Place
<1>2. NoCopy \in AnyCopy /\ NoEcho \in Echo /\ Len(NoEcho.moves) <= EchoCap
  BY PeriodAssumption, BoundAssumption DEF NoCopy, AnyCopy, NoEcho, Echo, Place
<1>3. Types
  BY <1>1, <1>2, PlayerAssumption, BoundAssumption DEF Init, Types, Copies
<1>4. QED
  BY <1>3 DEF Init, Sound, OneTask, Known, NoCopy

-----------------------------------------------------------------------------
(* Input of the client *)

(* An echo that gathers more stays within its cap.                         *)
LEMMA StagedType ==
    ASSUME Types, NEW p \in Player, NEW s \in Int, NEW moves \in Seq(Place),
           Len(moves) <= EchoCap
    PROVE  Staged(p, s, moves) \in Echo /\ Len(Staged(p, s, moves).moves) <= EchoCap
<1> DEFINE all == staged[p].moves \o moves
           kept == IF Len(all) < EchoCap THEN Len(all) ELSE EchoCap
           cut == SubSeq(all, Len(all) - kept + 1, Len(all))
<1>1. all \in Seq(Place) /\ EchoCap \in Nat \ {0}
  BY PeriodAssumption DEF Types, Echo
<1>2. kept \in 0..Len(all) /\ kept <= EchoCap
  BY <1>1
<1> HIDE DEF all, kept
<1>3. cut \in Seq(Place) /\ Len(cut) = kept
  BY <1>1, <1>2
<1> HIDE DEF cut
<1>4. Staged(p, s, moves) = IF staged[p].session = s /\ staged[p].moves # <<>>
                            THEN [session |-> s, moves |-> cut]
                            ELSE [session |-> s, moves |-> moves]
  BY DEF Staged, cut, all, kept
<1>5. QED
  BY <1>2, <1>3, <1>4 DEF Echo

(* Freeing the copies of p frees all that were in an action.               *)
LEMMA FreedType ==
    ASSUME Sound, NEW p \in Player
    PROVE  /\ Cancelled(copy, p) \in Copies
           /\ \A v, m \in Player :
                 /\ Cancelled(copy, p)[v][m].shown = copy[v][m].shown
                 /\ Cancelled(copy, p)[v][m].rooted => copy[v][m].rooted /\ m # p
<1> DEFINE cs == Cancelled(copy, p)
<1>1. copy \in Copies
  BY DEF Sound, Types
<1>2. /\ cs \in Copies
      /\ \A v, m \in Player :
            cs[v][m] = IF v \in Viewers(p) /\ m = p THEN Unrooted[copy[v][p]] ELSE copy[v][m]
  BY <1>1, StepTypes, ShownType DEF Cancelled
<1>3. \A v, m \in Player : copy[v][m] \in AnyCopy
  BY <1>1 DEF Copies
<1> HIDE DEF cs
<1>4. QED
  <2>1. cs \in Copies /\ \A v, m \in Player :
                 /\ cs[v][m].shown = copy[v][m].shown
                 /\ cs[v][m].rooted => copy[v][m].rooted /\ m # p
    BY <1>2, <1>3, StepTypes DEF Sound, Known
  <2>2. QED
    BY <2>1 DEF cs

LEMMA HandleClientMoveSound ==
    ASSUME Sound, NEW p \in Player, NEW s \in 0..MaxSession, NEW n \in 1..EchoCap,
           HandleClientMove(p, s, n)
    PROVE  Sound'
<1> DEFINE moves == [i \in 1..n |-> walk[p] + i]
           cs == UnrootedFirst(p)
<1>1. walk[p] \in Nat /\ n \in Nat /\ n > 0 /\ walk[p] + n <= MaxMoves /\ MaxMoves \in Nat
  BY BoundAssumption, PeriodAssumption DEF Sound, Types, HandleClientMove, Place
<1>2. moves \in Seq(Place) /\ Len(moves) = n
  BY <1>1 DEF Place
<1>3. Staged(p, s, moves) \in Echo /\ Len(Staged(p, s, moves).moves) <= EchoCap
  BY <1>2, StagedType, BoundAssumption, PeriodAssumption DEF Sound
<1>4. /\ cs \in Copies
      /\ \A v, m \in Player : /\ cs[v][m].shown = copy[v][m].shown
                              /\ cs[v][m].rooted => copy[v][m].rooted /\ m # p
  BY FreedType DEF UnrootedFirst, Sound, Types, Known
<1>5. /\ walk' = [walk EXCEPT ![p] = @ + n]
      /\ rooting' = [rooting EXCEPT ![p] = FALSE]
      /\ staged' = [staged EXCEPT ![p] = Staged(p, s, moves)]
      /\ held' = [held EXCEPT ![p] = @ \/ staged[p].moves = <<>>]
      /\ Broadcast(p, moves, cs)
      /\ UNCHANGED <<online, spawned, zone, visits, tasks, beat, acts, since>>
  BY DEF HandleClientMove, connVars, tickVars
<1> HIDE DEF moves, cs
<1>6. /\ {limited', halted'} \subseteq [Player -> BOOLEAN]
      /\ lastMove' \in [Player -> Seq(Place)]
      /\ copy' \in Copies
      /\ \A v, m \in Player : /\ copy'[v][m].shown = cs[v][m].shown
                              /\ copy'[v][m].rooted <=> cs[v][m].rooted
  BY <1>2, <1>4, <1>5, BroadcastType DEF Sound
<1>7. Types'
  <2>1. walk' \in [Player -> Place] /\ rooting' \in [Player -> BOOLEAN] /\ held' \in [Player -> BOOLEAN]
    BY <1>1, <1>5 DEF Sound, Types, Place
  <2>2. staged' \in [Player -> Echo] /\ \A q \in Player : Len(staged'[q].moves) <= EchoCap
    BY <1>3, <1>5 DEF Sound, Types
  <2>3. QED
    BY <1>5, <1>6, <2>1, <2>2 DEF Sound, Types, Cycle
<1>8. Known'
  <2> SUFFICES ASSUME NEW v \in Player, NEW m \in Player, copy'[v][m].rooted
               PROVE  rooting'[m] /\ v \in Viewers(m)'
    BY DEF Known
  <2>1. copy[v][m].rooted /\ m # p /\ copy'[v][m].shown = copy[v][m].shown
    BY <1>4, <1>6
  <2>2. rooting[m] /\ v \in Viewers(m)
    BY <2>1 DEF Sound, Known
  <2>3. QED
    BY <1>5, <2>1, <2>2 DEF Viewers, Sound, Types
<1>9. QED
  BY <1>5, <1>7, <1>8 DEF Sound, OneTask

LEMMA ActSound ==
    ASSUME Sound, NEW p \in Player, Act(p)
    PROVE  Sound'
<1>1. /\ acts' = [acts EXCEPT ![p] = @ + 1]
      /\ copy' = Shown(copy, p, Rooted)
      /\ rooting' = [rooting EXCEPT ![p] = @ \/ Viewers(p) # {}]
      /\ UNCHANGED <<online, spawned, zone, visits, tasks, beat, walk, staged, held,
                     lastMove, halted, limited, since>>
  BY DEF Act, RelayAction, connVars, tickVars, relayVars
<1>2. copy \in Copies /\ \A v, m \in Player : copy[v][m] \in AnyCopy
  BY DEF Sound, Types, Copies
<1>3. /\ copy' \in Copies
      /\ \A v, m \in Player :
            copy'[v][m] = IF v \in Viewers(p) /\ m = p THEN Rooted[copy[v][p]] ELSE copy[v][m]
  BY <1>1, <1>2, StepTypes, ShownType
<1>4. Types'
  <2>1. acts' \in [Player -> Nat] /\ rooting' \in [Player -> BOOLEAN]
    BY <1>1 DEF Sound, Types
  <2>2. QED
    BY <1>1, <1>3, <2>1 DEF Sound, Types, Cycle
<1>5. \A v, m \in Player : copy'[v][m].shown = copy[v][m].shown
  BY <1>2, <1>3, StepTypes
<1>6. \A m \in Player : Viewers(m)' = Viewers(m)
  BY <1>1, <1>5 DEF Viewers
<1>7. Known'
  <2> SUFFICES ASSUME NEW v \in Player, NEW m \in Player, copy'[v][m].rooted
               PROVE  rooting'[m] /\ v \in Viewers(m)
    BY <1>6 DEF Known
  <2>1. CASE v \in Viewers(p) /\ m = p
    BY <1>1, <2>1 DEF Sound, Types
  <2>2. CASE ~(v \in Viewers(p) /\ m = p)
    BY <1>1, <1>3, <2>2 DEF Sound, Types, Known
  <2>3. QED
    BY <2>1, <2>2
<1>8. QED
  BY <1>1, <1>4, <1>7 DEF Sound, OneTask

LEMMA HandleCancelActionSound ==
    ASSUME Sound, NEW p \in Player, HandleCancelAction(p)
    PROVE  Sound'
<1>1. /\ acts' = [acts EXCEPT ![p] = @ + 1]
      /\ copy' = Cancelled(copy, p)
      /\ rooting' = [rooting EXCEPT ![p] = FALSE]
      /\ UNCHANGED <<online, spawned, zone, visits, tasks, beat, walk, staged, held,
                     lastMove, halted, limited, since>>
  BY DEF HandleCancelAction, connVars, tickVars, relayVars
<1>2. /\ copy' \in Copies
      /\ \A v, m \in Player : /\ copy'[v][m].shown = copy[v][m].shown
                              /\ copy'[v][m].rooted => copy[v][m].rooted /\ m # p
  BY <1>1, FreedType
<1>3. Types'
  <2>1. acts' \in [Player -> Nat] /\ rooting' \in [Player -> BOOLEAN]
    BY <1>1 DEF Sound, Types
  <2>2. QED
    BY <1>1, <1>2, <2>1 DEF Sound, Types, Cycle
<1>4. \A m \in Player : Viewers(m)' = Viewers(m)
  BY <1>1, <1>2 DEF Viewers
<1>5. Known'
  BY <1>1, <1>2, <1>4 DEF Sound, Types, Known
<1>6. QED
  BY <1>1, <1>3, <1>5 DEF Sound, OneTask

LEMMA ActivateSound ==
    ASSUME Sound, NEW p \in Player, Activate(p)
    PROVE  Sound'
<1>1. Types'
  BY DEF Activate, Sound, Types, Cycle, connVars, tickVars, relayVars, viewVars
<1>2. QED
  BY <1>1 DEF Activate, Sound, OneTask, Known, Viewers, connVars, tickVars, viewVars

-----------------------------------------------------------------------------
(* Ticks and time *)

LEMMA TickSound ==
    ASSUME Sound, NEW p \in Player, Tick(p)
    PROVE  Sound'
<1> DEFINE b == (beat[p] + 1) % Cycle
<1>1. /\ beat' = [beat EXCEPT ![p] = b]
      /\ staged' \in {staged, [staged EXCEPT ![p].moves = <<>>]}
      /\ Broadcast(p, <<>>, copy) \/ UNCHANGED <<lastMove, halted, limited, copy>>
      /\ UNCHANGED <<online, spawned, zone, visits, tasks, walk, acts, held, rooting, since>>
  BY DEF Tick, IntervalFrame, connVars, inputVars, relayVars
<1>2. copy \in Copies /\ <<>> \in Seq(Place)
  BY DEF Sound, Types
<1>3. /\ {limited', halted'} \subseteq [Player -> BOOLEAN]
      /\ lastMove' \in [Player -> Seq(Place)]
      /\ copy' \in Copies
      /\ \A v, m \in Player : /\ copy'[v][m].shown = copy[v][m].shown
                              /\ copy'[v][m].rooted <=> copy[v][m].rooted
  <2>1. CASE Broadcast(p, <<>>, copy)
    BY <1>2, <2>1, BroadcastType DEF Sound
  <2>2. CASE UNCHANGED <<lastMove, halted, limited, copy>>
    BY <2>2 DEF Sound, Types
  <2>3. QED
    BY <1>1, <2>1, <2>2
<1>4. Types'
  <2>1. b \in 0..(Cycle - 1)
    BY PeriodAssumption DEF Sound, Types, Cycle
  <2> HIDE DEF b
  <2>2. beat' \in [Player -> 0..(Cycle - 1)]
    BY <1>1, <2>1 DEF Sound, Types
  <2>3. staged' \in [Player -> Echo] /\ \A q \in Player : Len(staged'[q].moves) <= EchoCap
    <3>1. Len(<<>>) = 0 /\ 0 <= EchoCap
      BY PeriodAssumption
    <3> DEFINE none == [staged[p] EXCEPT !.moves = <<>>]
    <3>2. none \in Echo /\ none.moves = <<>>
      BY <1>2 DEF Sound, Types, Echo
    <3>3. [staged EXCEPT ![p].moves = <<>>] = [staged EXCEPT ![p] = none]
      OBVIOUS
    <3> HIDE DEF none
    <3>4. staged' = staged \/ staged' = [staged EXCEPT ![p] = none]
      BY <1>1, <3>3
    <3>5. QED
      BY <3>1, <3>2, <3>4 DEF Sound, Types
  <2>4. {online', spawned', held', halted', limited', rooting'} \subseteq [Player -> BOOLEAN]
    <3>1. /\ online \in [Player -> BOOLEAN] /\ spawned \in [Player -> BOOLEAN]
          /\ held \in [Player -> BOOLEAN] /\ rooting \in [Player -> BOOLEAN]
      BY DEF Sound, Types
    <3>2. online' = online /\ spawned' = spawned /\ held' = held /\ rooting' = rooting
      BY <1>1
    <3>3. limited' \in [Player -> BOOLEAN] /\ halted' \in [Player -> BOOLEAN]
      BY <1>3
    <3>4. QED
      BY <3>1, <3>2, <3>3
  <2>5. UNCHANGED <<zone, visits, tasks, walk, acts, since>>
    BY <1>1
  <2>6. QED
    BY <1>3, <2>2, <2>3, <2>4, <2>5 DEF Sound, Types, Cycle
<1>5. \A m \in Player : Viewers(m)' = Viewers(m)
  BY <1>1, <1>3 DEF Viewers
<1>6. Known'
  BY <1>1, <1>3, <1>5 DEF Sound, Known
<1>7. QED
  BY <1>1, <1>4, <1>6 DEF Sound, OneTask

LEMMA TimeSound ==
    ASSUME Sound, NEW p \in Player, HoldoffEnds(p) \/ LimitEnds(p)
    PROVE  Sound'
<1>1. /\ held' \in [Player -> BOOLEAN] /\ limited' \in [Player -> BOOLEAN]
      /\ UNCHANGED <<online, spawned, zone, visits, tasks, beat, walk, acts, staged,
                     lastMove, halted, rooting, copy, since>>
  BY DEF HoldoffEnds, LimitEnds, connVars, tickVars, inputVars, answerVars, relayVars,
         viewVars, Sound, Types
<1>2. Types'
  BY <1>1 DEF Sound, Types, Cycle
<1>3. QED
  BY <1>1, <1>2 DEF Sound, OneTask, Known, Viewers

-----------------------------------------------------------------------------
(* Zones *)

LEMMA StartTickType ==
    ASSUME Types, NEW p \in Player, NEW w \in Place, StartTick(p, w)
    PROVE  /\ tasks' = [tasks EXCEPT ![p] = 1]
           /\ tasks' \in [Player -> {0, 1}]
           /\ beat' \in [Player -> 0..(Cycle - 1)]
           /\ since' \in [Player -> [walk : Place, acts : Nat]]
           /\ staged' \in [Player -> Echo]
           /\ \A q \in Player : Len(staged'[q].moves) <= EchoCap
           /\ {held', halted', limited'} \subseteq [Player -> BOOLEAN]
           /\ lastMove' \in [Player -> Seq(Place)]
<1>1. 0 \in 0..(Cycle - 1)
  BY PeriodAssumption DEF Cycle
<1>2. NoEcho \in Echo /\ Len(NoEcho.moves) <= EchoCap
  BY PeriodAssumption DEF NoEcho, Echo
<1>3. <<>> \in Seq(Place)
  OBVIOUS
<1>4. tasks' = [tasks EXCEPT ![p] = 1] /\ tasks' \in [Player -> {0, 1}]
  BY DEF StartTick, StartTask, Types
<1>5. beat' \in [Player -> 0..(Cycle - 1)]
  BY <1>1 DEF StartTick, Types
<1>6. since' \in [Player -> [walk : Place, acts : Nat]]
  BY DEF StartTick, Types
<1>7. staged' \in [Player -> Echo] /\ \A q \in Player : Len(staged'[q].moves) <= EchoCap
  BY <1>2 DEF StartTick, ResetRelayState, Types
<1>8. {held', halted', limited'} \subseteq [Player -> BOOLEAN] /\ lastMove' \in [Player -> Seq(Place)]
  BY <1>3 DEF StartTick, ResetRelayState, Types
<1>9. QED
  BY <1>4, <1>5, <1>6, <1>7, <1>8

(* A newcomer was nobody's viewer, so the copies in an action are those of *)
(* others, or are replaced.                                                *)
LEMMA JoinSound ==
    ASSUME Sound, NEW p \in Player, Join(p)
    PROVE  Sound'
<1> DEFINE there == {q \in Player \ {p} : spawned[q] /\ zone[q] = zone[p]}
<1>1. /\ online[p] /\ ~spawned[p] /\ visits[p] < MaxVisits[p]
      /\ spawned' = [spawned EXCEPT ![p] = TRUE]
      /\ visits' = [visits EXCEPT ![p] = @ + 1]
      /\ copy' = [v \in Player |-> [m \in Player |->
                    IF (v = p /\ m \in there) \/ (m = p /\ v \in there)
                    THEN Fresh(walk[m]) ELSE copy[v][m]]]
      /\ StartTick(p, walk[p])
      /\ UNCHANGED <<online, zone, walk, acts, rooting>>
  BY DEF Join, inputVars
<1>2. walk \in [Player -> Place]
  BY DEF Sound, Types
<1>3. \A m \in Player : Fresh(walk[m]) \in AnyCopy /\ ~Fresh(walk[m]).rooted
  BY <1>2 DEF Fresh, AnyCopy, Place
<1>4. copy' \in Copies
  BY <1>1, <1>3 DEF Sound, Types, Copies
<1>5. Types'
  <2>1. /\ spawned' \in [Player -> BOOLEAN]
        /\ visits' \in [Player -> Nat] /\ \A q \in Player : visits'[q] <= MaxVisits[q]
    <3>1. spawned' \in [Player -> BOOLEAN]
      BY <1>1 DEF Sound, Types
    <3>2. visits[p] \in Nat /\ MaxVisits[p] \in Nat
      BY BoundAssumption DEF Sound, Types
    <3>3. QED
      BY <1>1, <3>1, <3>2 DEF Sound, Types
  <2>2. /\ tasks' \in [Player -> {0, 1}]
        /\ beat' \in [Player -> 0..(Cycle - 1)]
        /\ since' \in [Player -> [walk : Place, acts : Nat]]
        /\ staged' \in [Player -> Echo]
        /\ \A q \in Player : Len(staged'[q].moves) <= EchoCap
        /\ {held', halted', limited'} \subseteq [Player -> BOOLEAN]
        /\ lastMove' \in [Player -> Seq(Place)]
    BY <1>1, <1>2, StartTickType DEF Sound
  <2>3. QED
    BY <1>1, <1>4, <2>1, <2>2 DEF Sound, Types, Cycle
<1>6. OneTask'
  <2>1. tasks' = [tasks EXCEPT ![p] = 1]
    BY <1>1, <1>2, StartTickType DEF Sound
  <2>2. QED
    BY <1>1, <2>1 DEF Sound, Types, OneTask
<1>7. Known'
  <2> SUFFICES ASSUME NEW v \in Player, NEW m \in Player, copy'[v][m].rooted
               PROVE  rooting'[m] /\ v \in Viewers(m)'
    BY DEF Known
  <2>1. ~((v = p /\ m \in there) \/ (m = p /\ v \in there))
    BY <1>1, <1>3
  <2>2. copy'[v][m] = copy[v][m]
    BY <1>1, <2>1
  <2>3. rooting[m] /\ v \in Viewers(m)
    BY <2>2 DEF Sound, Known
  <2>4. spawned'[v]
    BY <1>1, <2>3 DEF Sound, Types, Viewers
  <2>5. QED
    BY <1>1, <2>2, <2>3, <2>4 DEF Viewers
<1>8. QED
  BY <1>5, <1>6, <1>7 DEF Sound

(* Who leaves takes its copies with it.                                    *)
LEMMA ForgottenType ==
    ASSUME Sound, NEW p \in Player
    PROVE  /\ Forgotten(p) \in Copies
           /\ \A v, m \in Player : Forgotten(p)[v][m].rooted =>
                 v # p /\ m # p /\ Forgotten(p)[v][m] = copy[v][m]
<1>1. NoCopy \in AnyCopy /\ ~NoCopy.rooted
  BY BoundAssumption DEF NoCopy, AnyCopy
<1>2. QED
  BY <1>1 DEF Forgotten, Sound, Types, Copies

LEMMA LeaveKnown ==
    ASSUME Sound, NEW p \in Player, copy' = Forgotten(p), UNCHANGED rooting,
           \A q \in Player \ {p} : spawned'[q] = spawned[q] /\ zone'[q] = zone[q]
    PROVE  Known'
<1> SUFFICES ASSUME NEW v \in Player, NEW m \in Player, copy'[v][m].rooted
             PROVE  rooting'[m] /\ v \in Viewers(m)'
  BY DEF Known
<1>1. v # p /\ m # p /\ copy'[v][m] = copy[v][m]
  BY ForgottenType
<1>2. rooting[m] /\ v \in Viewers(m)
  BY <1>1 DEF Sound, Known
<1>3. QED
  BY <1>1, <1>2 DEF Viewers

LEMMA TransferZoneSound ==
    ASSUME Sound, NEW p \in Player, NEW z \in Zone, TransferZone(p, z)
    PROVE  Sound'
<1>1. /\ zone' = [zone EXCEPT ![p] = z]
      /\ spawned' = [spawned EXCEPT ![p] = FALSE]
      /\ tasks' = [tasks EXCEPT ![p] = 0]
      /\ copy' = Forgotten(p)
      /\ UNCHANGED <<online, visits, beat, walk, acts, staged, held, lastMove, halted,
                     limited, rooting, since>>
  BY DEF TransferZone, inputVars, relayVars
<1>2. Types'
  <2>1. /\ zone' \in [Player -> Zone] /\ spawned' \in [Player -> BOOLEAN]
        /\ tasks' \in [Player -> {0, 1}] /\ copy' \in Copies
    BY <1>1, ForgottenType DEF Sound, Types
  <2>2. QED
    BY <1>1, <2>1 DEF Sound, Types, Cycle
<1>3. OneTask'
  BY <1>1 DEF Sound, Types, OneTask
<1>4. Known'
  BY <1>1, LeaveKnown DEF Sound, Types
<1>5. QED
  BY <1>2, <1>3, <1>4 DEF Sound

LEMMA DisconnectSound ==
    ASSUME Sound, NEW p \in Player, Disconnect(p)
    PROVE  Sound'
<1>1. /\ online' = [online EXCEPT ![p] = FALSE]
      /\ spawned' = [spawned EXCEPT ![p] = FALSE]
      /\ tasks' = [tasks EXCEPT ![p] = 0]
      /\ copy' = Forgotten(p)
      /\ UNCHANGED <<zone, visits, beat, walk, acts, staged, held, lastMove, halted,
                     limited, rooting, since>>
  BY DEF Disconnect, inputVars, answerVars, relayVars
<1>2. Types'
  <2>1. /\ online' \in [Player -> BOOLEAN] /\ spawned' \in [Player -> BOOLEAN]
        /\ tasks' \in [Player -> {0, 1}] /\ copy' \in Copies
    BY <1>1, ForgottenType DEF Sound, Types
  <2>2. QED
    BY <1>1, <2>1 DEF Sound, Types, Cycle
<1>3. OneTask'
  BY <1>1 DEF Sound, Types, OneTask
<1>4. Known'
  BY <1>1, LeaveKnown DEF Sound, Types
<1>5. QED
  BY <1>2, <1>3, <1>4 DEF Sound

LEMMA RespawnInPlaceSound ==
    ASSUME Sound, NEW p \in Player, RespawnInPlace(p)
    PROVE  Sound'
<1>1. /\ walk' = [walk EXCEPT ![p] = @ + 1] /\ walk[p] < MaxMoves
      /\ StartTick(p, walk'[p]) /\ online[p] /\ spawned[p]
      /\ UNCHANGED <<online, spawned, zone, visits, acts, rooting, copy>>
  BY DEF RespawnInPlace, connVars, viewVars
<1>2. walk' \in [Player -> Place] /\ walk'[p] \in Place
  BY <1>1, BoundAssumption DEF Sound, Types, Place
<1>3. /\ tasks' = [tasks EXCEPT ![p] = 1]
      /\ tasks' \in [Player -> {0, 1}]
      /\ beat' \in [Player -> 0..(Cycle - 1)]
      /\ since' \in [Player -> [walk : Place, acts : Nat]]
      /\ staged' \in [Player -> Echo]
      /\ \A q \in Player : Len(staged'[q].moves) <= EchoCap
      /\ {held', halted', limited'} \subseteq [Player -> BOOLEAN]
      /\ lastMove' \in [Player -> Seq(Place)]
  BY <1>1, <1>2, StartTickType DEF Sound
<1>4. Types'
  BY <1>1, <1>2, <1>3 DEF Sound, Types, Cycle
<1>5. OneTask'
  BY <1>1, <1>3 DEF Sound, Types, OneTask
<1>6. Known'
  BY <1>1 DEF Sound, Known, Viewers
<1>7. QED
  BY <1>4, <1>5, <1>6 DEF Sound

-----------------------------------------------------------------------------
LEMMA NextSound == Sound /\ [Next]_vars => Sound'
<1> SUFFICES ASSUME Sound, [Next]_vars PROVE Sound'
  OBVIOUS
<1>1. CASE UNCHANGED vars
  BY <1>1 DEF vars, Sound, Types, Cycle, OneTask, Known, Viewers
<1>2. ASSUME NEW p \in Mover, Input(p) PROVE Sound'
  <2>1. p \in Player
    BY PlayerAssumption
  <2>2. QED
    BY <1>2, <2>1, HandleClientMoveSound, ActSound, HandleCancelActionSound, ActivateSound,
       RespawnInPlaceSound DEF Input
<1>3. ASSUME NEW p \in Mover, Disconnect(p) \/ Tick(p) \/ HoldoffEnds(p) \/ LimitEnds(p)
      PROVE  Sound'
  <2>1. p \in Player
    BY PlayerAssumption
  <2>2. QED
    BY <1>3, <2>1, DisconnectSound, TickSound, TimeSound
<1>4. ASSUME NEW p \in Player, Join(p) \/ \E z \in Zone : TransferZone(p, z)
      PROVE  Sound'
  BY <1>4, JoinSound, TransferZoneSound
<1>5. QED
  BY <1>1, <1>2, <1>3, <1>4 DEF Next

LEMMA SoundIsRooted == Sound => RootedIsKnown
<1> SUFFICES ASSUME Sound PROVE RootedIsKnown
  OBVIOUS
<1>1. ASSUME NEW p \in Player
      PROVE  /\ {online[p], spawned[p], held[p], halted[p], limited[p], rooting[p]}
                    \subseteq BOOLEAN
             /\ zone[p] \in Zone /\ visits[p] \in 0..MaxVisits[p]
             /\ beat[p] \in 0..(Cycle - 1)
             /\ {walk[p], since[p].walk} \subseteq 0..MaxMoves
             /\ Len(staged[p].moves) <= EchoCap
             /\ \A v \in Player : copy[v][p] \in AnyCopy
  BY BoundAssumption DEF Sound, Types, Copies, Place
<1>2. QED
  BY <1>1 DEF Sound, OneTask, Known, RootedIsKnown, TypeOK

(* The echo never exceeds its cap, a spawned player has one tick task and  *)
(* every other none, and a displayed copy stands in an action only while   *)
(* the server knows to free it, over any walks, acts, respawns, travels    *)
(* and lost connections.                                                   *)
THEOREM RootedCorrect == Spec => []RootedIsKnown
<1>1. Spec => Init /\ [][Next]_vars
  BY DEF Spec
<1>2. QED
  BY <1>1, InitSound, NextSound, SoundIsRooted, PTL

-----------------------------------------------------------------------------
(* Moves and the copies that follow them *)

(* The copies a move finds stand in no action: those that did were freed.  *)
LEMMA MoveFollowed ==
    ASSUME Sound, NEW p \in Player, NEW s, NEW n \in 1..EchoCap,
           HandleClientMove(p, s, n), lastMove'[p] # lastMove[p], NEW v \in Viewers(p)
    PROVE  copy'[v][p].at = walk'[p]
<1> DEFINE moves == [i \in 1..n |-> walk[p] + i]
           cs == UnrootedFirst(p)
<1>1. walk[p] \in Nat /\ n \in Nat /\ n > 0 /\ walk[p] + n <= MaxMoves /\ MaxMoves \in Nat
  BY BoundAssumption, PeriodAssumption DEF Sound, Types, HandleClientMove, Place
<1>2. /\ moves \in Seq(Place) /\ moves # <<>> /\ Last(moves) = walk[p] + n
      /\ walk[p] + n \in 0..MaxMoves
  BY <1>1 DEF Place, Last
<1>3. walk'[p] = walk[p] + n /\ Broadcast(p, moves, cs)
  BY DEF HandleClientMove, Sound, Types
<1>4. v \in Player /\ copy \in Copies /\ cs \in Copies
  BY FreedType DEF Viewers, UnrootedFirst, Sound, Types
<1>5. ~cs[v][p].rooted
  <2>1. CASE rooting[p]
    BY <1>4, <2>1, FreedType DEF UnrootedFirst
  <2>2. CASE ~rooting[p]
    BY <1>4, <2>2 DEF UnrootedFirst, Sound, Known
  <2>3. QED
    BY <2>1, <2>2
<1> HIDE DEF moves, cs
<1>6. copy' = Shown(cs, p, Follows(moves))
  BY <1>2, <1>3 DEF Broadcast
<1>7. cs[v][p] \in AnyCopy
  BY <1>4 DEF Copies
<1>8. copy'[v][p] = Follows(moves)[cs[v][p]]
  BY <1>2, <1>4, <1>6, FollowsType, ShownType
<1>9. Follows(moves)[cs[v][p]].at = Last(moves)
  BY <1>5, <1>7 DEF Follows, AnyCopy
<1>10. QED
  BY <1>2, <1>3, <1>8, <1>9

(* What MovesFollowed says of one step.                                    *)
Followed ==
    \A p \in Player :
        lastMove'[p] # lastMove[p] /\ lastMove'[p] # <<>> =>
            \A v \in Viewers(p) : copy'[v][p].at = walk'[p]

(* Nobody's last move becomes another one.                                 *)
LastMoveKept == \A p \in Player : lastMove'[p] \in {lastMove[p], <<>>}

LEMMA StartTickKeeps ==
    ASSUME Types, NEW p \in Player, NEW w, StartTick(p, w)
    PROVE  LastMoveKept
BY DEF StartTick, ResetRelayState, LastMoveKept, Types

LEMMA StepFollowed == Sound /\ [Next]_vars => Followed
<1> SUFFICES ASSUME Sound, [Next]_vars PROVE Followed
  OBVIOUS
<1>1. LastMoveKept => Followed
  BY DEF LastMoveKept, Followed
<1>2. ASSUME NEW p \in Player, NEW s, NEW n \in 1..EchoCap, HandleClientMove(p, s, n)
      PROVE  Followed
  <2>1. \A q \in Player \ {p} : lastMove'[q] = lastMove[q]
    BY <1>2 DEF HandleClientMove, Broadcast, Sound, Types
  <2>2. lastMove'[p] # lastMove[p] => \A v \in Viewers(p) : copy'[v][p].at = walk'[p]
    BY <1>2, MoveFollowed
  <2>3. QED
    BY <2>1, <2>2 DEF Followed
<1>3. ASSUME NEW p \in Player, Tick(p)
      PROVE  LastMoveKept
  <2>1. UNCHANGED lastMove \/ lastMove' = [lastMove EXCEPT ![p] = lastMove[p]]
    BY <1>3 DEF Tick, Broadcast, relayVars
  <2>2. QED
    BY <2>1 DEF LastMoveKept, Sound, Types
<1>4. ASSUME NEW p \in Player,
             \/ Act(p) \/ HandleCancelAction(p) \/ Activate(p) \/ Disconnect(p)
             \/ HoldoffEnds(p) \/ LimitEnds(p) \/ \E z \in Zone : TransferZone(p, z)
      PROVE  LastMoveKept
  BY <1>4 DEF Act, HandleCancelAction, Activate, Disconnect, HoldoffEnds, LimitEnds,
              TransferZone, relayVars, LastMoveKept
<1>5. ASSUME NEW p \in Player, Join(p) \/ RespawnInPlace(p)
      PROVE  LastMoveKept
  BY <1>5, StartTickKeeps DEF Join, RespawnInPlace, Sound
<1>6. ASSUME UNCHANGED vars
      PROVE  LastMoveKept
  BY <1>6 DEF vars, LastMoveKept
<1>7. ASSUME NEW p \in Mover, Input(p)
      PROVE  Followed
  <2>1. p \in Player
    BY PlayerAssumption
  <2>2. QED
    BY <1>1, <1>2, <1>4, <1>5, <1>7, <2>1 DEF Input
<1>8. ASSUME NEW p \in Mover, Disconnect(p) \/ Tick(p) \/ HoldoffEnds(p) \/ LimitEnds(p)
      PROVE  Followed
  <2>1. p \in Player
    BY PlayerAssumption
  <2>2. QED
    BY <1>1, <1>3, <1>4, <1>8, <2>1
<1>9. QED
  BY <1>1, <1>4, <1>5, <1>6, <1>7, <1>8 DEF Next

-----------------------------------------------------------------------------
(* What the frames echo and answer *)

Ordered(s) == \A i \in DOMAIN s : \A j \in DOMAIN s : i < j => s[i] < s[j]
Before(s, t) == \A i \in DOMAIN s : \A j \in DOMAIN t : s[i] < t[j]
Distinct(s) == \A i \in DOMAIN s : \A j \in DOMAIN s : s[i] = s[j] => i = j
Disjoint(s, t) == \A i \in DOMAIN s : \A j \in DOMAIN t : s[i] # t[j]

(* What is staged continues what was echoed, and is newer than the tick    *)
(* task; what is queued was never answered.                                *)
Echoes(p) ==
    /\ since[p].walk <= walk[p]
    /\ echoed[p] \in Seq(1..walk[p])
    /\ staged[p].moves \in Seq((since[p].walk + 1)..walk[p])
    /\ Ordered(echoed[p]) /\ Ordered(staged[p].moves)
    /\ Before(echoed[p], staged[p].moves)

Answers(p) ==
    /\ {told[p], messages[p], interval[p]} \subseteq Seq(1..acts[p])
    /\ Distinct(told[p]) /\ Distinct(messages[p]) /\ Distinct(interval[p])
    /\ Disjoint(told[p], messages[p]) /\ Disjoint(told[p], interval[p])
    /\ Disjoint(messages[p], interval[p])

Frames ==
    /\ echoed \in [Player -> Seq(Place)]
    /\ {told, messages, interval} \subseteq [Player -> Seq(Nat)]
    /\ \A p \in Player : Echoes(p) /\ Answers(p)

LEMMA JoinedOrdered ==
    ASSUME NEW s \in Seq(Int), NEW t \in Seq(Int), Ordered(s), Ordered(t), Before(s, t)
    PROVE  Ordered(s \o t)
<1> DEFINE u == s \o t
<1>1. /\ Len(u) = Len(s) + Len(t) /\ DOMAIN u = 1..(Len(s) + Len(t))
      /\ \A i \in DOMAIN u : u[i] = IF i <= Len(s) THEN s[i] ELSE t[i - Len(s)]
  OBVIOUS
<1>2. \A i \in DOMAIN u : IF i <= Len(s) THEN i \in DOMAIN s ELSE i - Len(s) \in DOMAIN t
  BY <1>1
<1> HIDE DEF u
<1>3. ASSUME NEW i \in DOMAIN u, NEW j \in DOMAIN u, i < j
      PROVE  u[i] < u[j]
  <2>1. CASE j <= Len(s)
    BY <1>1, <1>2, <1>3, <2>1 DEF Ordered
  <2>2. CASE i <= Len(s) /\ Len(s) < j
    BY <1>1, <1>2, <1>3, <2>2 DEF Before
  <2>3. CASE Len(s) < i
    <3>1. i - Len(s) \in DOMAIN t /\ j - Len(s) \in DOMAIN t /\ i - Len(s) < j - Len(s)
      BY <1>1, <1>2, <1>3, <2>3
    <3>2. u[i] = t[i - Len(s)] /\ u[j] = t[j - Len(s)]
      BY <1>1, <1>3, <2>3
    <3>3. QED
      BY <3>1, <3>2 DEF Ordered
  <2>4. QED
    BY <1>1, <1>3, <2>1, <2>2, <2>3
<1>4. QED
  BY <1>3 DEF Ordered, u

LEMMA JoinedBefore ==
    ASSUME NEW s \in Seq(Int), NEW t \in Seq(Int), NEW r \in Seq(Int),
           Before(r, s), Before(r, t)
    PROVE  Before(r, s \o t)
<1> DEFINE u == s \o t
<1>1. /\ DOMAIN u = 1..(Len(s) + Len(t))
      /\ \A i \in DOMAIN u : u[i] = IF i <= Len(s) THEN s[i] ELSE t[i - Len(s)]
  OBVIOUS
<1>2. \A i \in DOMAIN u : IF i <= Len(s) THEN i \in DOMAIN s ELSE i - Len(s) \in DOMAIN t
  BY <1>1
<1> HIDE DEF u
<1>3. QED
  BY <1>1, <1>2 DEF Before, u

LEMMA JoinedDistinct ==
    ASSUME NEW s \in Seq(Nat), NEW t \in Seq(Nat),
           Distinct(s), Distinct(t), Disjoint(s, t)
    PROVE  Distinct(s \o t)
<1> DEFINE u == s \o t
<1>1. /\ Len(u) = Len(s) + Len(t) /\ DOMAIN u = 1..(Len(s) + Len(t))
      /\ \A i \in DOMAIN u : u[i] = IF i <= Len(s) THEN s[i] ELSE t[i - Len(s)]
  OBVIOUS
<1>2. \A i \in DOMAIN u : IF i <= Len(s) THEN i \in DOMAIN s ELSE i - Len(s) \in DOMAIN t
  BY <1>1
<1> HIDE DEF u
<1>3. ASSUME NEW i \in DOMAIN u, NEW j \in DOMAIN u, u[i] = u[j]
      PROVE  i = j
  <2>1. CASE i <= Len(s) /\ j <= Len(s)
    BY <1>1, <1>2, <1>3, <2>1 DEF Distinct
  <2>2. CASE i <= Len(s) /\ ~(j <= Len(s))
    BY <1>1, <1>2, <1>3, <2>2 DEF Disjoint
  <2>3. CASE ~(i <= Len(s)) /\ j <= Len(s)
    BY <1>1, <1>2, <1>3, <2>3 DEF Disjoint
  <2>4. CASE ~(i <= Len(s)) /\ ~(j <= Len(s))
    <3>1. i - Len(s) \in DOMAIN t /\ j - Len(s) \in DOMAIN t
      BY <1>2, <2>4
    <3>2. t[i - Len(s)] = t[j - Len(s)]
      BY <1>1, <1>3, <2>4
    <3>3. i - Len(s) = j - Len(s)
      BY <3>1, <3>2 DEF Distinct
    <3>4. QED
      BY <1>1, <3>3
  <2>5. QED
    BY <2>1, <2>2, <2>3, <2>4
<1>4. QED
  BY <1>3 DEF Distinct, u

LEMMA JoinedDisjoint ==
    ASSUME NEW s \in Seq(Nat), NEW t \in Seq(Nat), NEW r \in Seq(Nat)
    PROVE  /\ Disjoint(s, r) /\ Disjoint(t, r) => Disjoint(s \o t, r)
           /\ Disjoint(r, s) /\ Disjoint(r, t) => Disjoint(r, s \o t)
<1> DEFINE u == s \o t
<1>1. /\ DOMAIN u = 1..(Len(s) + Len(t))
      /\ \A i \in DOMAIN u : u[i] = IF i <= Len(s) THEN s[i] ELSE t[i - Len(s)]
  OBVIOUS
<1>2. \A i \in DOMAIN u : IF i <= Len(s) THEN i \in DOMAIN s ELSE i - Len(s) \in DOMAIN t
  BY <1>1
<1> HIDE DEF u
<1>3. QED
  BY <1>1, <1>2 DEF Disjoint, u

(* A sequence without repetitions has as many elements as entries.         *)
LEMMA DistinctSize ==
    ASSUME NEW n \in Nat, NEW s \in Seq(1..n), Distinct(s)
    PROVE  Cardinality(ToSet(s)) = Len(s)
<1>1. s \in [1..Len(s) -> ToSet(s)] /\ Len(s) \in Nat
  BY DEF ToSet
<1>2. s \in Bijection(1..Len(s), ToSet(s))
  <2>1. s \in Injection(1..Len(s), ToSet(s))
    BY <1>1 DEF Injection, IsInjective, Distinct
  <2>2. s \in Surjection(1..Len(s), ToSet(s))
    BY <1>1 DEF Surjection, ToSet
  <2>3. QED
    BY <2>1, <2>2 DEF Bijection
<1>3. QED
  BY <1>1, <1>2, FS_CountingElements DEF ExistsBijection

(* The end of a sequence.                                                  *)
LEMMA CutOrdered ==
    ASSUME NEW S \in SUBSET Int, NEW s \in Seq(S), NEW r \in Seq(Int), NEW a \in Nat, a >= 1,
           Ordered(s), Before(r, s)
    PROVE  /\ SubSeq(s, a, Len(s)) \in Seq(S)
           /\ Ordered(SubSeq(s, a, Len(s))) /\ Before(r, SubSeq(s, a, Len(s)))
<1> DEFINE u == SubSeq(s, a, Len(s))
<1>1. /\ u \in Seq(S)
      /\ DOMAIN u = 1..(IF a <= Len(s) THEN Len(s) - a + 1 ELSE 0)
      /\ \A i \in DOMAIN u : u[i] = s[a + i - 1]
  OBVIOUS
<1>2. \A i \in DOMAIN u : a + i - 1 \in DOMAIN s
  BY <1>1
<1> HIDE DEF u
<1>3. ASSUME NEW i \in DOMAIN u, NEW j \in DOMAIN u, i < j
      PROVE  u[i] < u[j]
  <2>1. a + i - 1 < a + j - 1
    BY <1>1, <1>3
  <2>2. s[a + i - 1] < s[a + j - 1]
    BY <1>2, <2>1 DEF Ordered
  <2>3. QED
    BY <1>1, <2>2
<1>4. QED
  BY <1>1, <1>2, <1>3 DEF Ordered, Before, u

LEMMA Widened ==
    ASSUME NEW S, NEW s \in Seq(S)
    PROVE  /\ \A i \in DOMAIN s : s[i] \in S
           /\ \A T : S \subseteq T => s \in Seq(T)
OBVIOUS

LEMMA StagedEchoes ==
    ASSUME Types, NEW p \in Player, Echoes(p), NEW s, NEW n \in Nat
    PROVE  LET moves == [i \in 1..n |-> walk[p] + i]
               next == Staged(p, s, moves).moves
           IN  /\ next \in Seq((since[p].walk + 1)..(walk[p] + n))
               /\ Ordered(next) /\ Before(echoed[p], next)
<1> DEFINE moves == [i \in 1..n |-> walk[p] + i]
           next == Staged(p, s, moves).moves
           all == staged[p].moves \o moves
           New == (since[p].walk + 1)..(walk[p] + n)
           a == Len(all) - (IF Len(all) < EchoCap THEN Len(all) ELSE EchoCap) + 1
<1>1. walk[p] \in Nat /\ since[p].walk \in Nat /\ EchoCap \in Nat /\ New \in SUBSET Int
  BY PeriodAssumption DEF Types, Place
<1>2. /\ echoed[p] \in Seq(Int)
      /\ \A i \in DOMAIN echoed[p] : echoed[p][i] <= walk[p] /\ echoed[p][i] \in Int
  BY <1>1 DEF Echoes
<1>3. /\ staged[p].moves \in Seq(Int) /\ staged[p].moves \in Seq(New)
      /\ \A i \in DOMAIN staged[p].moves : /\ staged[p].moves[i] <= walk[p]
                                           /\ staged[p].moves[i] \in Int
  <2>1. staged[p].moves \in Seq((since[p].walk + 1)..walk[p])
    BY DEF Echoes
  <2>2. /\ (since[p].walk + 1)..walk[p] \subseteq New
        /\ (since[p].walk + 1)..walk[p] \subseteq Int
        /\ \A x \in (since[p].walk + 1)..walk[p] : x <= walk[p] /\ x \in Int
    BY <1>1
  <2> DEFINE Old == (since[p].walk + 1)..walk[p]
  <2> HIDE DEF Old
  <2>3. staged[p].moves \in Seq(Old)
    BY <2>1 DEF Old
  <2>4. \A i \in DOMAIN staged[p].moves : staged[p].moves[i] \in Old
    BY <2>3, Widened
  <2> HIDE DEF New
  <2>5. staged[p].moves \in Seq(Int) /\ staged[p].moves \in Seq(New)
    BY <2>2, <2>3, Widened DEF Old
  <2>6. QED
    BY <2>2, <2>4, <2>5 DEF Old
<1>4. /\ moves \in Seq(Int) /\ DOMAIN moves = 1..n
      /\ \A i \in DOMAIN moves : moves[i] = walk[p] + i
  BY <1>1
<1> HIDE DEF moves
<1>5. Ordered(moves) /\ Before(staged[p].moves, moves) /\ Before(echoed[p], moves)
  BY <1>1, <1>2, <1>3, <1>4 DEF Ordered, Before
<1>6. moves \in Seq(New)
  <2>1. \A i \in DOMAIN moves : moves[i] \in New
    BY <1>1, <1>4 DEF Echoes
  <2> HIDE DEF New
  <2>2. moves \in [1..n -> New]
    BY <1>4, <2>1
  <2>3. QED
    BY <2>2
<1> HIDE DEF New
<1>7. CASE staged[p].session = s /\ staged[p].moves # <<>>
  <2>1. /\ all \in Seq(New) /\ Ordered(all) /\ Before(echoed[p], all)
    <3>1. all \in Seq(New)
      BY <1>3, <1>6
    <3>2. Ordered(all)
      BY <1>3, <1>4, <1>5, JoinedOrdered DEF Echoes
    <3>3. Before(echoed[p], all)
      BY <1>2, <1>3, <1>4, <1>5, JoinedBefore DEF Echoes
    <3>4. QED
      BY <3>1, <3>2, <3>3
  <2>2. Len(all) \in Nat
    BY <2>1
  <2>3. a \in Nat /\ a >= 1
    BY <1>1, <2>2
  <2>4. next = SubSeq(all, a, Len(all))
    BY <1>7 DEF Staged, moves
  <2> HIDE DEF all, a, next
  <2>5. /\ SubSeq(all, a, Len(all)) \in Seq(New)
        /\ Ordered(SubSeq(all, a, Len(all))) /\ Before(echoed[p], SubSeq(all, a, Len(all)))
    BY <1>1, <1>2, <2>1, <2>3, CutOrdered
  <2>6. QED
    BY <2>4, <2>5 DEF next, moves, New
<1>8. CASE ~(staged[p].session = s /\ staged[p].moves # <<>>)
  <2>1. next = moves
    BY <1>8 DEF Staged
  <2>2. QED
    BY <1>5, <1>6, <2>1 DEF moves, New
<1>9. QED
  BY <1>7, <1>8

(* A step that leaves the frames alone.                                    *)
LEMMA SameEchoes ==
    ASSUME NEW p \in Player, Echoes(p), UNCHANGED <<echoed, staged, walk, since>>
    PROVE  Echoes(p)'
BY DEF Echoes

LEMMA SameAnswers ==
    ASSUME NEW p \in Player, Answers(p), UNCHANGED <<told, messages, interval, acts>>
    PROVE  Answers(p)'
BY DEF Answers

LEMMA OtherFrames ==
    ASSUME Frames, NEW q \in Player,
           /\ echoed'[q] = echoed[q] /\ staged'[q] = staged[q]
           /\ walk'[q] = walk[q] /\ since'[q] = since[q],
           /\ told'[q] = told[q] /\ messages'[q] = messages[q]
           /\ interval'[q] = interval[q] /\ acts'[q] = acts[q]
    PROVE  Echoes(q)' /\ Answers(q)'
BY DEF Frames, Echoes, Answers

LEMMA InitFrames == Init => Frames
<1> SUFFICES ASSUME Init PROVE Frames
  OBVIOUS
<1>1. \A S : <<>> \in Seq(S) /\ DOMAIN <<>> = {}
  OBVIOUS
<1>2. ASSUME NEW p \in Player
      PROVE  Echoes(p) /\ Answers(p)
  <2>1. /\ echoed[p] = <<>> /\ staged[p].moves = <<>> /\ told[p] = <<>>
        /\ messages[p] = <<>> /\ interval[p] = <<>>
        /\ since[p].walk = 0 /\ walk[p] = 0
    BY DEF Init, NoEcho
  <2>2. /\ Ordered(<<>>) /\ Distinct(<<>>)
        /\ Before(<<>>, <<>>) /\ Disjoint(<<>>, <<>>)
    BY <1>1 DEF Ordered, Before, Distinct, Disjoint
  <2>3. Echoes(p)
    BY <1>1, <2>1, <2>2 DEF Echoes
  <2>4. Answers(p)
    BY <1>1, <2>1, <2>2 DEF Answers
  <2>5. QED
    BY <2>3, <2>4
<1>3. QED
  BY <1>1, <1>2 DEF Init, Frames

LEMMA MoveFrames ==
    ASSUME Types, Frames, NEW p \in Player, NEW s, NEW n \in Nat, HandleClientMove(p, s, n)
    PROVE  Frames'
<1> DEFINE next == Staged(p, s, [i \in 1..n |-> walk[p] + i])
<1>1. /\ walk' = [walk EXCEPT ![p] = @ + n]
      /\ staged' = [staged EXCEPT ![p] = next]
      /\ UNCHANGED <<echoed, since, told, messages, interval, acts>>
  BY DEF HandleClientMove, clientVars
<1>2. /\ next.moves \in Seq((since[p].walk + 1)..(walk[p] + n))
      /\ Ordered(next.moves) /\ Before(echoed[p], next.moves)
  BY StagedEchoes DEF Frames
<1> HIDE DEF next
<1>3. walk'[p] = walk[p] + n /\ staged'[p] = next /\ walk[p] \in Nat
  BY <1>1 DEF Types, Place
<1>4. since[p].walk <= walk[p] + n /\ echoed[p] \in Seq(1..(walk[p] + n))
  <2>1. 1..walk[p] \subseteq 1..(walk[p] + n)
    BY <1>3
  <2>2. echoed[p] \in Seq(1..walk[p]) /\ since[p].walk <= walk[p] /\ since[p].walk \in Nat
    BY DEF Frames, Echoes, Types, Place
  <2>3. QED
    BY <1>3, <2>1, <2>2
<1>5. Echoes(p)'
  <2>1. /\ since'[p].walk <= walk'[p]
        /\ echoed'[p] \in Seq(1..walk'[p])
        /\ staged'[p].moves \in Seq((since'[p].walk + 1)..walk'[p])
    BY <1>1, <1>2, <1>3, <1>4
  <2>2. Ordered(echoed'[p]) /\ Ordered(staged'[p].moves) /\ Before(echoed'[p], staged'[p].moves)
    BY <1>1, <1>2, <1>3 DEF Frames, Echoes
  <2>3. QED
    BY <2>1, <2>2 DEF Echoes, Ordered, Before
<1>6. Answers(p)'
  BY <1>1, SameAnswers DEF Frames
<1>7. \A q \in Player \ {p} : Echoes(q)' /\ Answers(q)'
  BY <1>1, OtherFrames DEF Types
<1>8. QED
  BY <1>1, <1>5, <1>6, <1>7 DEF Frames

(* The answer to a new action is new.                                      *)
LEMMA AppendedAnswer ==
    ASSUME NEW n \in Nat, NEW s \in Seq(1..n)
    PROVE  /\ Append(s, n + 1) \in Seq(1..(n + 1))
           /\ Distinct(s) => Distinct(Append(s, n + 1))
           /\ \A r \in Seq(1..n) :
                 /\ Disjoint(r, s) => Disjoint(r, Append(s, n + 1))
                 /\ Disjoint(s, r) => Disjoint(Append(s, n + 1), r)
<1> DEFINE u == Append(s, n + 1)
<1>1. /\ DOMAIN u = 1..(Len(s) + 1) /\ u[Len(s) + 1] = n + 1
      /\ \A i \in DOMAIN s : u[i] = s[i] /\ s[i] \in 1..n
      /\ DOMAIN s = 1..Len(s) /\ Len(s) \in Nat
  OBVIOUS
<1>2. u \in Seq(1..(n + 1))
  <2>1. s \in Seq(1..(n + 1)) /\ n + 1 \in 1..(n + 1)
    <3>1. 1..n \subseteq 1..(n + 1)
      OBVIOUS
    <3>2. QED
      BY <3>1
  <2>2. QED
    BY <2>1
<1> HIDE DEF u
<1>3. \A i \in DOMAIN u : i \in DOMAIN s \/ i = Len(s) + 1
  BY <1>1
<1>4. Distinct(s) => Distinct(u)
  BY <1>1, <1>3 DEF Distinct
<1>5. ASSUME NEW r \in Seq(1..n)
      PROVE  /\ Disjoint(r, s) => Disjoint(r, u)
             /\ Disjoint(s, r) => Disjoint(u, r)
  <2>1. \A i \in DOMAIN r : r[i] # n + 1
    <3>1. \A x \in 1..n : x # n + 1
      OBVIOUS
    <3>2. QED
      BY <3>1
  <2>2. ASSUME Disjoint(r, s), NEW i \in DOMAIN r, NEW j \in DOMAIN u
        PROVE  r[i] # u[j]
    BY <1>1, <1>3, <2>1, <2>2 DEF Disjoint
  <2>3. ASSUME Disjoint(s, r), NEW i \in DOMAIN r, NEW j \in DOMAIN u
        PROVE  u[j] # r[i]
    BY <1>1, <1>3, <2>1, <2>3 DEF Disjoint
  <2>4. QED
    BY <2>2, <2>3 DEF Disjoint
<1>6. QED
  BY <1>2, <1>4, <1>5 DEF u

LEMMA AnswersNext ==
    ASSUME NEW p, NEW n, NEW t, NEW m, NEW i,
           acts'[p] = n, told'[p] = t, messages'[p] = m, interval'[p] = i,
           t \in Seq(1..n), m \in Seq(1..n), i \in Seq(1..n),
           Distinct(t), Distinct(m), Distinct(i),
           Disjoint(t, m), Disjoint(t, i), Disjoint(m, i)
    PROVE  Answers(p)'
<1>1. Distinct(told'[p]) /\ Distinct(messages'[p]) /\ Distinct(interval'[p])
  OBVIOUS
<1>2. /\ Disjoint(told'[p], messages'[p]) /\ Disjoint(told'[p], interval'[p])
      /\ Disjoint(messages'[p], interval'[p])
  OBVIOUS
<1>3. QED
  BY <1>1, <1>2 DEF Answers, Distinct, Disjoint

LEMMA ActFrames ==
    ASSUME Types, Frames, NEW p \in Player, acts' = [acts EXCEPT ![p] = @ + 1],
           \/ interval' = [interval EXCEPT ![p] = Append(@, acts'[p])] /\ UNCHANGED messages
           \/ messages' = [messages EXCEPT ![p] = Append(@, acts'[p])] /\ UNCHANGED interval,
           UNCHANGED <<walk, staged, echoed, told, since>>
    PROVE  Frames'
<1> DEFINE n == acts[p]
<1>1. n \in Nat /\ acts'[p] = n + 1 /\ 1..n \subseteq 1..(n + 1) /\ 1..n \subseteq Nat
  BY DEF Types
<1>2. /\ told[p] \in Seq(1..n) /\ messages[p] \in Seq(1..n) /\ interval[p] \in Seq(1..n)
      /\ Distinct(told[p]) /\ Distinct(messages[p]) /\ Distinct(interval[p])
      /\ Disjoint(told[p], messages[p]) /\ Disjoint(told[p], interval[p])
      /\ Disjoint(messages[p], interval[p])
  BY DEF Frames, Answers
<1>3. /\ told \in [Player -> Seq(Nat)] /\ messages \in [Player -> Seq(Nat)]
      /\ interval \in [Player -> Seq(Nat)]
  BY DEF Frames
<1> HIDE DEF n
<1>4. /\ told[p] \in Seq(1..(n + 1)) /\ messages[p] \in Seq(1..(n + 1))
      /\ interval[p] \in Seq(1..(n + 1))
  BY <1>1, <1>2
<1>5. /\ told'[p] = told[p]
      /\ \/ messages'[p] = messages[p] /\ interval'[p] = Append(interval[p], n + 1)
         \/ messages'[p] = Append(messages[p], n + 1) /\ interval'[p] = interval[p]
      /\ interval' \in [Player -> Seq(Nat)] /\ messages' \in [Player -> Seq(Nat)]
  <2>1. CASE interval' = [interval EXCEPT ![p] = Append(@, acts'[p])] /\ UNCHANGED messages
    BY <1>1, <1>3, <2>1
  <2>2. CASE messages' = [messages EXCEPT ![p] = Append(@, acts'[p])] /\ UNCHANGED interval
    BY <1>1, <1>3, <2>2
  <2>3. QED
    BY <2>1, <2>2
<1>6. Answers(p)'
  <2>1. CASE messages'[p] = messages[p] /\ interval'[p] = Append(interval[p], n + 1)
    <3>1. /\ Append(interval[p], n + 1) \in Seq(1..(n + 1))
          /\ Distinct(Append(interval[p], n + 1))
          /\ Disjoint(told[p], Append(interval[p], n + 1))
          /\ Disjoint(messages[p], Append(interval[p], n + 1))
      BY <1>1, <1>2, AppendedAnswer
    <3>2. QED
      BY <1>1, <1>2, <1>4, <1>5, <2>1, <3>1, AnswersNext
  <2>2. CASE messages'[p] = Append(messages[p], n + 1) /\ interval'[p] = interval[p]
    <3>1. /\ Append(messages[p], n + 1) \in Seq(1..(n + 1))
          /\ Distinct(Append(messages[p], n + 1))
          /\ Disjoint(told[p], Append(messages[p], n + 1))
          /\ Disjoint(Append(messages[p], n + 1), interval[p])
      BY <1>1, <1>2, AppendedAnswer
    <3>2. QED
      BY <1>1, <1>2, <1>4, <1>5, <2>2, <3>1, AnswersNext
  <2>3. QED
    BY <1>5, <2>1, <2>2
<1>7. Echoes(p)'
  BY SameEchoes DEF Frames
<1>8. \A q \in Player \ {p} :
          acts'[q] = acts[q] /\ messages'[q] = messages[q] /\ interval'[q] = interval[q]
  BY <1>3 DEF Types
<1>9. \A q \in Player \ {p} : Echoes(q)' /\ Answers(q)'
  BY <1>8, OtherFrames
<1>10. QED
  BY <1>5, <1>6, <1>7, <1>9 DEF Frames

LEMMA TickFrames ==
    ASSUME Types, Frames, NEW p \in Player, Tick(p)
    PROVE  /\ Frames'
           /\ \A q \in Player : echoed'[q] = echoed[q]
                                \/ echoed'[q] = echoed[q] \o staged[q].moves
<1> DEFINE framed == Every(IntervalEvery, (beat[p] + 1) % Cycle)
           more == IF framed THEN interval[p] ELSE <<>>
           echo == framed /\ Due(p)
<1>1. /\ messages' = [messages EXCEPT ![p] = <<>>]
      /\ told' = [told EXCEPT ![p] = @ \o messages[p] \o more]
      /\ interval' = IF framed THEN [interval EXCEPT ![p] = <<>>] ELSE interval
      /\ staged' = IF echo THEN [staged EXCEPT ![p].moves = <<>>] ELSE staged
      /\ echoed' = IF echo THEN [echoed EXCEPT ![p] = @ \o staged[p].moves] ELSE echoed
      /\ UNCHANGED <<walk, acts, since>>
  BY DEF Tick, IntervalFrame, inputVars
<1> HIDE DEF echo, framed
<1>2. /\ echoed \in [Player -> Seq(Place)] /\ told \in [Player -> Seq(Nat)]
      /\ messages \in [Player -> Seq(Nat)] /\ interval \in [Player -> Seq(Nat)]
      /\ staged \in [Player -> Echo]
  BY DEF Frames, Types
<1>3. \A S : <<>> \in Seq(S) /\ DOMAIN <<>> = {}
  OBVIOUS
<1>4. Echoes(p) /\ Answers(p) /\ walk[p] \in Nat /\ since[p].walk \in Nat
  BY DEF Frames, Types, Place
<1>5. /\ {told', messages', interval'} \subseteq [Player -> Seq(Nat)]
      /\ Answers(p)'
      /\ \A q \in Player \ {p} :
            told'[q] = told[q] /\ messages'[q] = messages[q] /\ interval'[q] = interval[q]
  <2> DEFINE S == 1..acts[p]
             t1 == told[p] \o messages[p]
             t2 == t1 \o more
             rest == IF framed THEN <<>> ELSE interval[p]
  <2>1. told[p] \in Seq(S) /\ messages[p] \in Seq(S) /\ interval[p] \in Seq(S) /\ S \subseteq Nat
    BY <1>4 DEF Answers, Types
  <2>2. /\ Distinct(told[p]) /\ Distinct(messages[p]) /\ Distinct(interval[p])
        /\ Disjoint(told[p], messages[p]) /\ Disjoint(told[p], interval[p])
        /\ Disjoint(messages[p], interval[p])
    BY <1>4 DEF Answers
  <2> HIDE DEF S
  <2>3. told[p] \in Seq(Nat) /\ messages[p] \in Seq(Nat) /\ interval[p] \in Seq(Nat)
    BY <1>2
  <2>4. Distinct(t1) /\ Disjoint(t1, interval[p])
    BY <2>2, <2>3, JoinedDistinct, JoinedDisjoint
  <2>5. t1 \in Seq(S) /\ t1 \in Seq(Nat)
    BY <2>1, <2>3
  <2>6. /\ more \in Seq(S) /\ more \in Seq(Nat) /\ rest \in Seq(S) /\ rest \in Seq(Nat)
        /\ Distinct(more) /\ Disjoint(t1, more)
        /\ Distinct(rest) /\ Disjoint(t1, rest) /\ Disjoint(more, rest)
    <3>1. /\ Distinct(<<>>) /\ Disjoint(t1, <<>>)
          /\ Disjoint(interval[p], <<>>) /\ Disjoint(<<>>, interval[p])
      BY <1>3 DEF Distinct, Disjoint
    <3> HIDE DEF t1
    <3>2. CASE framed
      BY <1>3, <2>1, <2>2, <2>3, <2>4, <3>1, <3>2
    <3>3. CASE ~framed
      BY <1>3, <2>1, <2>2, <2>3, <2>4, <3>1, <3>3
    <3>4. QED
      BY <3>2, <3>3
  <2> HIDE DEF t1, more, rest
  <2>7. t2 \in Seq(S) /\ t2 \in Seq(Nat)
    BY <2>5, <2>6
  <2>8. Distinct(t2) /\ Disjoint(t2, rest)
    BY <2>4, <2>5, <2>6, JoinedDistinct, JoinedDisjoint
  <2>9. Disjoint(t2, <<>>) /\ Disjoint(<<>>, rest) /\ Distinct(<<>>)
    BY <1>3 DEF Distinct, Disjoint
  <2> HIDE DEF t2
  <2>10. /\ told' = [told EXCEPT ![p] = t2]
         /\ interval' = [interval EXCEPT ![p] = rest]
    <3>1. told' = [told EXCEPT ![p] = t2]
      BY <1>1 DEF t1, t2
    <3>2. interval' = [interval EXCEPT ![p] = rest]
      <4>1. CASE framed
        BY <1>1, <4>1 DEF rest
      <4>2. CASE ~framed
        BY <1>1, <1>2, <4>2 DEF rest
      <4>3. QED
        BY <4>1, <4>2
    <3>3. QED
      BY <3>1, <3>2
  <2>11. /\ told'[p] = t2 /\ messages'[p] = <<>> /\ interval'[p] = rest
         /\ told' \in [Player -> Seq(Nat)] /\ messages' \in [Player -> Seq(Nat)]
         /\ interval' \in [Player -> Seq(Nat)]
         /\ \A q \in Player \ {p} :
               told'[q] = told[q] /\ messages'[q] = messages[q] /\ interval'[q] = interval[q]
    BY <1>1, <1>2, <1>3, <2>6, <2>7, <2>10
  <2>12. Answers(p)'
    <3>1. acts'[p] = acts[p] /\ <<>> \in Seq(1..acts[p])
      BY <1>1, <1>3
    <3>2. t2 \in Seq(1..acts[p]) /\ rest \in Seq(1..acts[p])
      BY <2>6, <2>7 DEF S
    <3>3. QED
      BY <2>6, <2>8, <2>9, <2>11, <3>1, <3>2, AnswersNext
  <2>13. QED
    BY <2>11, <2>12
<1>6. CASE echo
  <2> DEFINE all == echoed[p] \o staged[p].moves
             S == 1..walk[p]
  <2>1. /\ (since[p].walk + 1)..walk[p] \subseteq S /\ S \subseteq Int /\ S \subseteq Place
    BY <1>4, BoundAssumption DEF Types, Place
  <2>2. echoed[p] \in Seq(S) /\ staged[p].moves \in Seq(S)
    <3>1. echoed[p] \in Seq(S) /\ staged[p].moves \in Seq((since[p].walk + 1)..walk[p])
      BY <1>4 DEF Echoes
    <3> HIDE DEF S
    <3>2. QED
      BY <2>1, <3>1, Widened
  <2> HIDE DEF S
  <2>3. echoed[p] \in Seq(Int) /\ staged[p].moves \in Seq(Int)
    BY <2>1, <2>2, Widened
  <2>4. all \in Seq(S)
    BY <2>2
  <2>5. all \in Seq(Place)
    BY <2>1, <2>4, Widened
  <2>6. Ordered(all)
    BY <1>4, <2>3, JoinedOrdered DEF Echoes
  <2> HIDE DEF all
  <2>7. /\ echoed'[p] = all /\ staged'[p].moves = <<>>
        /\ echoed' \in [Player -> Seq(Place)]
        /\ \A q \in Player \ {p} : echoed'[q] = echoed[q] /\ staged'[q] = staged[q]
    BY <1>1, <1>2, <1>6, <2>5 DEF all, Echo
  <2>8. Ordered(<<>>) /\ Before(all, <<>>)
    BY <1>3 DEF Ordered, Before
  <2>9. Echoes(p)'
    <3>1. /\ since'[p].walk <= walk'[p] /\ echoed'[p] \in Seq(1..walk'[p])
          /\ staged'[p].moves \in Seq((since'[p].walk + 1)..walk'[p])
      BY <1>1, <1>3, <1>4, <2>4, <2>7 DEF Echoes, S
    <3>2. /\ Ordered(echoed'[p]) /\ Ordered(staged'[p].moves)
          /\ Before(echoed'[p], staged'[p].moves)
      BY <2>6, <2>7, <2>8
    <3>3. QED
      BY <3>1, <3>2 DEF Echoes, Ordered, Before
  <2>10. \A q \in Player \ {p} : Echoes(q)' /\ Answers(q)'
    BY <1>1, <1>5, <2>7, OtherFrames
  <2>11. QED
    BY <1>5, <2>7, <2>9, <2>10 DEF Frames, all
<1>7. CASE ~echo
  <2>1. UNCHANGED <<echoed, staged, walk, since>>
    BY <1>1, <1>7
  <2>2. \A q \in Player \ {p} : Echoes(q)' /\ Answers(q)'
    BY <1>1, <1>5, <2>1, OtherFrames
  <2>3. Echoes(p)'
    BY <1>4, <2>1, SameEchoes
  <2>4. QED
    BY <1>2, <1>5, <2>1, <2>2, <2>3 DEF Frames
<1>8. QED
  BY <1>6, <1>7

(* A new tick task finds nothing staged and nothing queued.                *)
LEMMA StartTickFrames ==
    ASSUME Types, Frames, NEW p \in Player, NEW w \in Place, StartTick(p, w),
           walk' \in [Player -> Place], walk'[p] = w, walk[p] <= w,
           \A q \in Player \ {p} : walk'[q] = walk[q],
           UNCHANGED <<acts, messages, echoed, told>>
    PROVE  Frames'
<1>1. /\ since' = [since EXCEPT ![p] = [walk |-> w, acts |-> acts[p]]]
      /\ staged' = [staged EXCEPT ![p] = NoEcho]
      /\ interval' = [interval EXCEPT ![p] = <<>>]
  BY DEF StartTick, ResetRelayState
<1>2. \A S : <<>> \in Seq(S) /\ DOMAIN <<>> = {}
  OBVIOUS
<1>3. /\ since'[p].walk = w /\ staged'[p].moves = <<>> /\ interval'[p] = <<>>
      /\ \A q \in Player \ {p} : /\ since'[q] = since[q] /\ staged'[q] = staged[q]
                                 /\ interval'[q] = interval[q]
      /\ interval' \in [Player -> Seq(Nat)]
  BY <1>1, <1>2 DEF Types, Frames, NoEcho
<1>4. Echoes(p)'
  <2>1. walk[p] \in Nat /\ w \in Nat /\ 1..walk[p] \subseteq 1..w
    BY DEF Types, Place
  <2>2. echoed[p] \in Seq(1..walk[p])
    BY DEF Frames, Echoes
  <2>3. echoed'[p] \in Seq(1..w)
    BY <2>1, <2>2, Widened
  <2>4. Ordered(echoed'[p]) /\ Ordered(staged'[p].moves) /\ Before(echoed'[p], staged'[p].moves)
    BY <1>2, <1>3 DEF Frames, Echoes, Ordered, Before
  <2>5. since'[p].walk <= walk'[p] /\ staged'[p].moves \in Seq((since'[p].walk + 1)..walk'[p])
    BY <1>2, <1>3, <2>1
  <2>6. QED
    BY <2>3, <2>4, <2>5 DEF Echoes, Ordered, Before
<1>5. Answers(p)'
  <2>1. /\ told[p] \in Seq(1..acts[p]) /\ messages[p] \in Seq(1..acts[p])
        /\ Distinct(told[p]) /\ Distinct(messages[p]) /\ Disjoint(told[p], messages[p])
    BY DEF Frames, Answers
  <2>2. /\ Distinct(<<>>) /\ Disjoint(told[p], <<>>) /\ Disjoint(messages[p], <<>>)
        /\ <<>> \in Seq(1..acts[p])
    BY <1>2 DEF Distinct, Disjoint
  <2>3. acts'[p] = acts[p] /\ told'[p] = told[p] /\ messages'[p] = messages[p]
    OBVIOUS
  <2>4. QED
    BY <1>3, <2>1, <2>2, <2>3, AnswersNext
<1>6. \A q \in Player \ {p} : Echoes(q)' /\ Answers(q)'
  BY <1>3, OtherFrames
<1>7. QED
  BY <1>3, <1>4, <1>5, <1>6 DEF Frames

LEMMA TransferFrames ==
    ASSUME Types, Frames, NEW p \in Player, NEW z, TransferZone(p, z)
    PROVE  Frames'
<1>1. /\ messages' = [messages EXCEPT ![p] = <<>>]
      /\ UNCHANGED <<walk, acts, staged, interval, echoed, told, since>>
  BY DEF TransferZone, inputVars, clientVars
<1>2. \A S : <<>> \in Seq(S) /\ DOMAIN <<>> = {}
  OBVIOUS
<1>3. /\ messages'[p] = <<>> /\ messages' \in [Player -> Seq(Nat)]
      /\ \A q \in Player \ {p} : messages'[q] = messages[q]
  BY <1>1, <1>2 DEF Frames
<1>4. Answers(p)'
  <2>1. /\ told[p] \in Seq(1..acts[p]) /\ interval[p] \in Seq(1..acts[p])
        /\ Distinct(told[p]) /\ Distinct(interval[p]) /\ Disjoint(told[p], interval[p])
    BY DEF Frames, Answers
  <2>2. /\ Distinct(<<>>) /\ Disjoint(told[p], <<>>) /\ Disjoint(<<>>, interval[p])
        /\ <<>> \in Seq(1..acts[p])
    BY <1>2 DEF Distinct, Disjoint
  <2>3. acts'[p] = acts[p] /\ told'[p] = told[p] /\ interval'[p] = interval[p]
    BY <1>1
  <2>4. QED
    BY <1>3, <2>1, <2>2, <2>3, AnswersNext
<1>5. Echoes(p)'
  BY <1>1, SameEchoes DEF Frames
<1>6. \A q \in Player \ {p} : Echoes(q)' /\ Answers(q)'
  BY <1>1, <1>3, OtherFrames
<1>7. QED
  BY <1>1, <1>3, <1>4, <1>5, <1>6 DEF Frames

LEMMA SameFrames ==
    ASSUME Frames,
           UNCHANGED <<walk, acts, staged, interval, messages, echoed, told, since>>
    PROVE  Frames'
<1>1. \A p \in Player : Echoes(p)' /\ Answers(p)'
  BY SameEchoes, SameAnswers DEF Frames
<1>2. QED
  BY <1>1 DEF Frames

(* What is echoed in a step is what was staged before it.                  *)
EchoesStaged ==
    \A p \in Player : echoed'[p] = echoed[p] \/ echoed'[p] = echoed[p] \o staged[p].moves

LEMMA StepFrames == Sound /\ Frames /\ [Next]_vars => Frames' /\ EchoesStaged
<1> SUFFICES ASSUME Sound, Frames, [Next]_vars PROVE Frames' /\ EchoesStaged
  OBVIOUS
<1>1. Types
  BY DEF Sound
<1>2. ASSUME NEW p \in Player, NEW s, NEW n \in 1..EchoCap, HandleClientMove(p, s, n)
      PROVE  Frames' /\ EchoesStaged
  <2>1. n \in Nat
    BY PeriodAssumption
  <2>2. QED
    BY <1>1, <1>2, <2>1, MoveFrames DEF HandleClientMove, clientVars, EchoesStaged
<1>3. ASSUME NEW p \in Player, Act(p) \/ HandleCancelAction(p) \/ Activate(p)
      PROVE  Frames' /\ EchoesStaged
  BY <1>1, <1>3, ActFrames
     DEF Act, HandleCancelAction, Activate, clientVars, EchoesStaged
<1>4. ASSUME NEW p \in Player, Tick(p)
      PROVE  Frames' /\ EchoesStaged
  BY <1>1, <1>4, TickFrames DEF EchoesStaged
<1>5. ASSUME NEW p \in Player, Join(p) \/ RespawnInPlace(p)
      PROVE  Frames' /\ EchoesStaged
  <2>1. CASE Join(p)
    <3>1. StartTick(p, walk[p]) /\ UNCHANGED <<walk, acts, messages, echoed, told>>
      BY <2>1 DEF Join, inputVars, clientVars
    <3>2. walk \in [Player -> Place] /\ walk[p] \in Place /\ walk[p] <= walk[p]
      BY <1>1 DEF Types, Place
    <3>3. Frames'
      BY <1>1, <3>1, <3>2, StartTickFrames
    <3>4. QED
      BY <3>1, <3>3 DEF EchoesStaged
  <2>2. CASE RespawnInPlace(p)
    <3>1. /\ StartTick(p, walk'[p]) /\ walk' = [walk EXCEPT ![p] = @ + 1]
          /\ walk[p] < MaxMoves /\ UNCHANGED <<acts, messages, echoed, told>>
      BY <2>2 DEF RespawnInPlace, clientVars
    <3>2. /\ walk' \in [Player -> Place] /\ walk'[p] \in Place /\ walk[p] <= walk'[p]
          /\ \A q \in Player \ {p} : walk'[q] = walk[q]
      BY <1>1, <3>1, BoundAssumption DEF Types, Place
    <3>3. Frames'
      BY <1>1, <3>1, <3>2, StartTickFrames
    <3>4. QED
      BY <3>1, <3>3 DEF EchoesStaged
  <2>3. QED
    BY <1>5, <2>1, <2>2
<1>6. ASSUME NEW p \in Player, NEW z \in Zone, TransferZone(p, z)
      PROVE  Frames' /\ EchoesStaged
  BY <1>1, <1>6, TransferFrames DEF TransferZone, clientVars, EchoesStaged
<1>7. ASSUME NEW p \in Player, Disconnect(p) \/ HoldoffEnds(p) \/ LimitEnds(p)
      PROVE  Frames' /\ EchoesStaged
  BY <1>7, SameFrames
     DEF Disconnect, HoldoffEnds, LimitEnds, inputVars, answerVars, clientVars, EchoesStaged
<1>8. ASSUME UNCHANGED vars
      PROVE  Frames' /\ EchoesStaged
  BY <1>8, SameFrames DEF vars, EchoesStaged
<1>9. ASSUME NEW p \in Mover, Input(p)
      PROVE  Frames' /\ EchoesStaged
  <2>1. p \in Player
    BY PlayerAssumption
  <2>2. QED
    BY <1>2, <1>3, <1>5, <1>9, <2>1 DEF Input
<1>10. ASSUME NEW p \in Mover, Disconnect(p) \/ Tick(p) \/ HoldoffEnds(p) \/ LimitEnds(p)
      PROVE  Frames' /\ EchoesStaged
  <2>1. p \in Player
    BY PlayerAssumption
  <2>2. QED
    BY <1>4, <1>7, <1>10, <2>1
<1>11. QED
  BY <1>5, <1>6, <1>8, <1>9, <1>10 DEF Next

(* What FramesFresh says of one step.                                      *)
FreshStep ==
    \A p \in Player :
        /\ \A i \in DOMAIN echoed'[p] :
              /\ i > 1 => echoed'[p][i] > echoed'[p][i - 1]
              /\ i > Len(echoed[p]) => echoed'[p][i] > since[p].walk
        /\ Cardinality(ToSet(told'[p])) = Len(told'[p])

LEMMA FramesAreFresh ==
    ASSUME Types, Types', Frames, Frames', EchoesStaged
    PROVE  FreshStep
<1> SUFFICES ASSUME NEW p \in Player
             PROVE  /\ \A i \in DOMAIN echoed'[p] :
                          /\ i > 1 => echoed'[p][i] > echoed'[p][i - 1]
                          /\ i > Len(echoed[p]) => echoed'[p][i] > since[p].walk
                    /\ Cardinality(ToSet(told'[p])) = Len(told'[p])
  BY DEF FreshStep
<1>1. /\ echoed'[p] \in Seq(Place) /\ Ordered(echoed'[p])
      /\ echoed[p] \in Seq(Place) /\ staged[p].moves \in Seq((since[p].walk + 1)..walk[p])
      /\ since[p].walk \in Nat /\ walk[p] \in Nat
  <2>1. echoed'[p] \in Seq(Place) /\ echoed[p] \in Seq(Place)
    BY DEF Frames
  <2>2. Ordered(echoed'[p])
    BY DEF Frames, Echoes, Ordered
  <2>3. staged[p].moves \in Seq((since[p].walk + 1)..walk[p])
    BY DEF Frames, Echoes
  <2>4. since[p].walk \in Nat /\ walk[p] \in Nat
    BY DEF Types, Place
  <2>5. QED
    BY <2>1, <2>2, <2>3, <2>4
<1>2. ASSUME NEW i \in DOMAIN echoed'[p], i > 1
      PROVE  echoed'[p][i] > echoed'[p][i - 1]
  <2>1. i - 1 \in DOMAIN echoed'[p] /\ i - 1 < i
    BY <1>1, <1>2
  <2>2. echoed'[p][i - 1] < echoed'[p][i]
    BY <1>1, <2>1 DEF Ordered
  <2>3. QED
    BY <1>1, <2>1, <2>2 DEF Place
<1>3. ASSUME NEW i \in DOMAIN echoed'[p], i > Len(echoed[p])
      PROVE  echoed'[p][i] > since[p].walk
  <2>1. i \in Nat /\ Len(echoed[p]) \in Nat /\ i <= Len(echoed'[p])
    BY <1>1
  <2>2. echoed'[p] = echoed[p] \o staged[p].moves
    <3>1. echoed'[p] # echoed[p]
      BY <1>3, <2>1
    <3>2. QED
      BY <3>1 DEF EchoesStaged
  <2> DEFINE e == echoed[p]
             m == staged[p].moves
             S == (since[p].walk + 1)..walk[p]
  <2>3. e \in Seq(Place) /\ m \in Seq(S)
    BY <1>1
  <2>4. echoed'[p] = e \o m /\ i \in DOMAIN (e \o m) /\ i > Len(e)
    BY <1>3, <2>2
  <2>5. \A x \in S : x > since[p].walk
    BY <1>1
  <2> HIDE DEF e, m, S
  <2>6. i - Len(e) \in DOMAIN m /\ (e \o m)[i] = m[i - Len(e)]
    BY <2>3, <2>4
  <2>7. m[i - Len(e)] \in S
    BY <2>3, <2>6
  <2>8. QED
    BY <2>4, <2>5, <2>6, <2>7
<1>4. Cardinality(ToSet(told'[p])) = Len(told'[p])
  <2>1. /\ told'[p] \in Seq(1..acts'[p]) /\ Distinct(told'[p]) /\ acts'[p] \in Nat
    BY DEF Frames, Answers, Distinct, Types
  <2>2. QED
    BY <2>1, DistinctSize
<1>5. QED
  BY <1>2, <1>3, <1>4

(* What a frame echoes is new and in the order of the walk, no action is   *)
(* answered twice, and a move that passes the rate limit reaches every     *)
(* copy of the player, whatever it stood in (_build_pending_local_move_ack, *)
(* _tick_loop, _handle_client_move): over any walks, acts, travels,        *)
(* respawns and lost connections.                                          *)
THEOREM RelaysCorrect == Spec => RelaysFollow
<1>1. Spec => Init /\ [][Next]_vars
  BY DEF Spec
<1>2. Sound /\ Frames /\ [Next]_vars => (Sound /\ Frames)'
  BY NextSound, StepFrames
<1>3. Sound /\ Frames /\ [Next]_vars => [FreshStep]_<<echoed, told>>
  <2> SUFFICES ASSUME Sound, Frames, [Next]_vars PROVE FreshStep
    OBVIOUS
  <2>1. Sound' /\ Frames' /\ EchoesStaged
    BY NextSound, StepFrames
  <2>2. Types /\ Types'
    BY <2>1 DEF Sound
  <2>3. QED
    BY <2>1, <2>2, FramesAreFresh
<1>4. Sound /\ [Next]_vars => [Followed]_vars
  BY StepFollowed
<1>5. Init => Sound /\ Frames
  BY InitSound, InitFrames
<1>6. Spec => [][FreshStep]_<<echoed, told>>
  BY <1>1, <1>2, <1>3, <1>5, PTL
<1>7. Spec => [][Followed]_vars
  BY <1>1, <1>2, <1>4, <1>5, PTL
<1>8. QED
  BY <1>6, <1>7 DEF RelaysFollow, FramesFresh, MovesFollowed, FreshStep, Followed

=============================================================================
