------------------------------- MODULE Quests -------------------------------
(***************************************************************************)
(* The quests of one character (managers/quests.py), over any number of    *)
(* sessions: the active and the completed quests the server keeps, what it *)
(* saves of them, the flags by which it tells what a click of the client   *)
(* means, and the client's own journal and dialogs.                        *)
(*                                                                         *)
(* A handler runs to completion when a message of the client arrives; its  *)
(* answers travel back in order through wire.  The delay of a message on   *)
(* its way to the server has the same effect as that of an answer, so only *)
(* wire delays.  The client clicks on what it has been shown, which may be *)
(* out of date.                                                            *)
(*                                                                         *)
(* Abstractions.  A quest counts kills of one sort of monster and items of *)
(* one sort, required 0 of either when it has no such objective.  The list *)
(* of active quests is a set.  The "!" markers, gold, modifiers and reward *)
(* items change none of this state and are left out.                       *)
(*                                                                         *)
(* An operator named Op_Slip is Op with a mistake in it that the checks    *)
(* must find; no other definition uses it.                                 *)
(***************************************************************************)
EXTENDS Integers, FiniteSets, Sequences, SequencesExt

CONSTANTS
    Quest,          \* the quests
    Required,       \* quest -> goal -> how many
    Repeatable,     \* the quests that can be taken again
    Consuming,      \* those that take the items away (RemoveOnFinalize)
    Coins,          \* quest -> items of the counted sort it rewards
    BagSize,        \* how many of the items fit in the bag
    MaxInst,        \* bound: quest instances of one session
    MaxWire,        \* bound: answers on their way when the client clicks
    MaxTurnIns,     \* bound: times a repeatable quest is turned in
    MaxSessions,    \* bound: logins
    NoQuest         \* no quest is pending

Goal == {"kill", "item"}

ASSUME QuestAssumption ==
    /\ Required \in [Quest -> [Goal -> Nat]]
    /\ Coins \in [Quest -> Nat]
    /\ Repeatable \subseteq Quest /\ Consuming \subseteq Quest
    /\ NoQuest \notin Quest
ASSUME BoundAssumption ==
    {BagSize, MaxInst, MaxWire, MaxTurnIns, MaxSessions} \subseteq Nat

VARIABLES
    online,        \* the character is in the world
    active,        \* PlayerQuestState.active_quests
    done,          \* PlayerQuestState.completed_quests
    nextInst,      \* conn.next_quest_instance_id
    pendQuest,     \* conn.pending_quest_hash
    pendTurnIn,    \* conn.pending_turn_in_instance_id, 0 is none
    turnInDlg,     \* conn.turn_in_dialog_instance_id, 0 is none
    teardown,      \* conn.dialog_teardown_instance_id, 0 is none
    bag,           \* items of the counted sort in the bag
    savedActive,   \* active_quests of the character row
    savedDone,     \* completed_quests of the character row
    wire,          \* answers on their way to the client
    journal,       \* client: the quests of its journal
    dialog,        \* client: the dialog that is up
    owed,          \* client: what it still sends to close a turn-in dialog
    turnedIn,      \* history: how often each quest was turned in
    hasty,         \* history: the client clicked before an answer arrived
    sessions       \* history: logins so far

serverVars == <<online, active, done, nextInst, pendQuest, pendTurnIn,
                turnInDlg, teardown>>
savedVars  == <<savedActive, savedDone>>
clientVars == <<journal, dialog, owed>>
vars == <<online, active, done, nextInst, pendQuest, pendTurnIn, turnInDlg,
          teardown, bag, savedActive, savedDone, wire, journal, dialog, owed,
          turnedIn, hasty, sessions>>

-----------------------------------------------------------------------------
(* Data *)

Inst    == 1..MaxInst
Running == [quest : Quest, inst : Inst, got : [Goal -> Nat]]   \* RuntimeQuest
Saved   == [quest : Quest, got : [Goal -> Nat]]                \* SavedQuest
Entry   == [quest : Quest, inst : Inst, ready : BOOLEAN]       \* client journal

NoDialog  == [kind |-> "none"]
Offer(q)  == [kind |-> "offer", quest |-> q]
TurnIn(i) == [kind |-> "turnin", inst |-> i]
Dialog    == {NoDialog} \cup {Offer(q) : q \in Quest} \cup {TurnIn(i) : i \in Inst}

(* The messages a client sends when a turn-in dialog goes: 0x02, then 0x03 *)
(* with the instance.                                                      *)
NoneOwed == [step |-> "none"]
Owed     == {NoneOwed} \cup [step : {"close", "teardown"}, inst : Inst]

AtMost(a, b) == IF a <= b THEN a ELSE b

Complete(r) == \A g \in Goal : r.got[g] >= Required[r.quest][g]

(* _sync_item_objectives: the bag is authoritative for items.              *)
Synced(r, items) ==
    [r EXCEPT !.got["item"] = AtMost(Required[r.quest]["item"], items)]

EntryOf(r) == [quest |-> r.quest, inst |-> r.inst, ready |-> Complete(r)]
SavedOf(r) == [quest |-> r.quest, got |-> r.got]

ActiveInst(i)  == {r \in active : r.inst = i}
ActiveQuest(q) == {r \in active : r.quest = q}

-----------------------------------------------------------------------------
(* The client on receipt of an answer *)

AddMsg(r)      == [op |-> "add", entry |-> EntryOf(r)]
RemoveMsg(i)   == [op |-> "remove", inst |-> i]
FinalizeMsg(i) == [op |-> "finalize", inst |-> i]
ProgressMsg(r) == [op |-> "progress", entry |-> EntryOf(r)]
SpawnMsg(rs)   == [op |-> "spawn", entries |-> {EntryOf(r) : r \in rs}]
OfferMsg(q)    == [op |-> "offer", quest |-> q]
TurnInMsg(i)   == [op |-> "turnin", inst |-> i]

JournalAfter(jn, m) ==
    CASE m.op = "add" -> jn \cup {m.entry}
      [] m.op \in {"remove", "finalize"} -> {e \in jn : e.inst # m.inst}
      [] m.op = "progress" ->
            {IF e.inst = m.entry.inst THEN m.entry ELSE e : e \in jn}
      [] m.op = "spawn" -> m.entries
      [] OTHER -> jn

DialogAfter(m) ==
    CASE m.op = "offer" -> Offer(m.quest)
      [] m.op = "turnin" /\ \E e \in journal : e.inst = m.inst -> TurnIn(m.inst)
      [] m.op = "spawn" -> NoDialog
      [] OTHER -> dialog

Receive ==
    /\ wire # <<>>
    /\ journal' = JournalAfter(journal, Head(wire))
    /\ dialog' = DialogAfter(Head(wire))
    /\ wire' = Tail(wire)
    /\ UNCHANGED <<serverVars, savedVars, bag, owed, turnedIn, hasty, sessions>>

-----------------------------------------------------------------------------
(* Handlers *)

(* save_player_quests: what is saved are the runtime lists as they are now *)
Save ==
    /\ savedActive' = {SavedOf(r) : r \in active'}
    /\ savedDone' = done'

Send(msgs) == wire' = wire \o msgs

(* accept_quest refuses a quest that is active, and one that was completed *)
(* unless it can be repeated.                                              *)
Acceptable_Again(q) == ActiveQuest(q) = {}

Acceptable(q) == ActiveQuest(q) = {} /\ (q \in done => q \in Repeatable)

(* The instance id a quest gets; the counter never goes back.              *)
InstanceFor_Freed == 1 + Cardinality(active)

InstanceFor == nextInst

(* handle_accept_confirmed.                                                *)
AcceptConfirmed(q) ==
    \/ /\ ~Acceptable(q)
       /\ UNCHANGED <<active, done, nextInst, savedVars, wire>>
    \/ /\ Acceptable(q)
       /\ nextInst <= MaxInst
       /\ LET fresh == [quest |-> q, inst |-> InstanceFor,
                        got |-> [g \in Goal |-> 0]]
              r == Synced(fresh, bag)
          IN  active' = active \cup {r} /\ Send(<<AddMsg(r)>>)
       /\ done' = done \ {q}
       /\ nextInst' = nextInst + 1
       /\ Save

(* What is left in the bag once q is finalized and rewarded.               *)
BagAfter(q) ==
    LET used == IF q \in Consuming THEN AtMost(bag, Required[q]["item"]) ELSE 0
    IN  AtMost(bag - used + Coins[q], BagSize)

(* handle_turn_in_confirmed.  The objectives are not looked at again.      *)
TurnInConfirmed(i) ==
    \/ /\ ActiveInst(i) = {}
       /\ UNCHANGED <<active, done, bag, savedVars, wire, turnedIn>>
    \/ \E r \in ActiveInst(i) :
       /\ turnedIn[r.quest] < MaxTurnIns
       /\ bag' = BagAfter(r.quest)
       /\ active' = active \ {r}
       /\ done' = done \cup {r.quest}
       /\ Send(<<FinalizeMsg(i), RemoveMsg(i)>>)
       /\ turnedIn' = [turnedIn EXCEPT ![r.quest] = @ + 1]
       /\ Save

(* handle_abandon.  The row is written again whether or not i was active.  *)
Abandoned_Unsent(i) ==
    /\ active' = active \ ActiveInst(i)
    /\ UNCHANGED <<done, wire>>
    /\ Save

Abandoned(i) ==
    /\ active' = active \ ActiveInst(i)
    /\ done' = done
    /\ Send(<<RemoveMsg(i)>>)
    /\ Save

(* can_query_complete refreshes the item objective and, when the quest is  *)
(* ready, the turn-in dialog is shown; the offer that was up is forgotten. *)
ShowTurnIn(r) ==
    LET s == Synced(r, bag)
    IN  /\ active' = (active \ {r}) \cup {s}
        /\ IF Complete(s)
           THEN /\ pendTurnIn' = r.inst
                /\ pendQuest' = NoQuest
                /\ Send(<<TurnInMsg(r.inst)>>)
           ELSE UNCHANGED <<pendTurnIn, pendQuest, wire>>

-----------------------------------------------------------------------------
(* Messages of the client: a click, then the handler it reaches *)

(* Every click notes whether the client had seen all the answers.          *)
Click ==
    /\ online
    /\ owed = NoneOwed
    /\ Len(wire) <= MaxWire
    /\ hasty' = (hasty \/ wire # <<>>)

(* 0x06: a quest giver's offer is clicked; the journal does not have it.   *)
(* The same offer asked for twice is taken for an acceptance.              *)
QueryOffer(q) ==
    /\ Click
    /\ dialog = NoDialog
    /\ \A e \in journal : e.quest # q
    /\ \/ /\ pendQuest = q
          /\ pendQuest' = NoQuest
          /\ AcceptConfirmed(q)
          /\ UNCHANGED pendTurnIn
       \/ /\ pendQuest # q
          /\ ActiveQuest(q) = {}
          /\ pendQuest' = q
          /\ Send(<<OfferMsg(q)>>)
          /\ UNCHANGED <<active, done, nextInst, pendTurnIn, savedVars>>
       \/ /\ pendQuest # q
          /\ \E r \in ActiveQuest(q) :
                LET s == Synced(r, bag) IN
                /\ active' = (active \ {r}) \cup {s}
                /\ IF Complete(s)
                   THEN /\ pendTurnIn' = r.inst
                        /\ pendQuest' = NoQuest
                        /\ Send(<<TurnInMsg(r.inst)>>)
                   ELSE /\ pendQuest' = q
                        /\ UNCHANGED <<pendTurnIn, wire>>
          /\ UNCHANGED <<done, nextInst, savedVars>>
    /\ UNCHANGED <<online, turnInDlg, teardown, bag, clientVars, turnedIn, sessions>>

(* 0x01: Accept in the offer dialog; the message does not name the quest.  *)
ClickAccept ==
    /\ Click
    /\ dialog.kind = "offer"
    /\ dialog' = NoDialog
    /\ \/ /\ pendQuest # NoQuest
          /\ pendQuest' = NoQuest
          /\ AcceptConfirmed(pendQuest)
          /\ UNCHANGED <<pendTurnIn, bag, turnedIn>>
       \/ /\ pendQuest = NoQuest
          /\ pendTurnIn # 0
          /\ pendTurnIn' = 0
          /\ TurnInConfirmed(pendTurnIn)
          /\ UNCHANGED <<nextInst, pendQuest>>
       \/ /\ pendQuest = NoQuest
          /\ pendTurnIn = 0
          /\ UNCHANGED <<active, done, nextInst, pendQuest, pendTurnIn, bag,
                         savedVars, wire, turnedIn>>
    /\ UNCHANGED <<online, turnInDlg, teardown, journal, owed, sessions>>

(* What 0x02 does to the flags.                                            *)
DialogClosed_Unarmed == teardown' = 0 /\ turnInDlg' = 0 /\ pendQuest' = NoQuest

DialogClosed ==
    /\ pendQuest' = NoQuest
    /\ teardown' = turnInDlg
    /\ turnInDlg' = 0

(* 0x02: Close in the offer dialog.                                        *)
CloseOffer ==
    /\ Click
    /\ dialog.kind = "offer"
    /\ dialog' = NoDialog
    /\ DialogClosed
    /\ UNCHANGED <<online, active, done, nextInst, pendTurnIn, bag, savedVars,
                   wire, journal, owed, turnedIn, sessions>>

(* 0x04: an active quest is clicked.                                       *)
ViewActive(i) ==
    /\ Click
    /\ dialog = NoDialog
    /\ \E e \in journal : e.inst = i
    /\ \/ /\ ActiveInst(i) = {}
          /\ UNCHANGED <<active, pendTurnIn, pendQuest, wire, turnInDlg>>
       \/ \E r \in ActiveInst(i) :
          /\ ShowTurnIn(r)
          /\ turnInDlg' = IF Complete(Synced(r, bag)) THEN i ELSE turnInDlg
    /\ UNCHANGED <<online, done, nextInst, teardown, bag, savedVars, clientVars,
                   turnedIn, sessions>>

(* 0x05: Complete in the turn-in dialog.                                   *)
ClickComplete ==
    /\ Click
    /\ dialog.kind = "turnin"
    /\ pendTurnIn' = 0
    /\ turnInDlg' = 0
    /\ TurnInConfirmed(dialog.inst)
    /\ dialog' = NoDialog
    /\ owed' = [step |-> "close", inst |-> dialog.inst]
    /\ UNCHANGED <<online, nextInst, pendQuest, teardown, journal, sessions>>

(* Back in the turn-in dialog; its messages follow.                        *)
ClickBack ==
    /\ Click
    /\ dialog.kind = "turnin"
    /\ dialog' = NoDialog
    /\ owed' = [step |-> "close", inst |-> dialog.inst]
    /\ UNCHANGED <<serverVars, bag, savedVars, wire, journal, turnedIn, sessions>>

(* The 0x02 and the 0x03 a client sends when a turn-in dialog goes.        *)
SendClose ==
    /\ owed.step = "close"
    /\ owed' = [owed EXCEPT !.step = "teardown"]
    /\ DialogClosed
    /\ UNCHANGED <<online, active, done, nextInst, pendTurnIn, bag, savedVars,
                   wire, journal, dialog, turnedIn, hasty, sessions>>

(* 0x03 i: suppressed for the dialog that was just closed, otherwise the   *)
(* quest is abandoned.                                                     *)
HandleAbandon(i) ==
    /\ teardown' = 0
    /\ IF i = teardown
       THEN UNCHANGED <<active, done, savedVars, wire>>
       ELSE Abandoned(i)

SendTeardown ==
    /\ owed.step = "teardown"
    /\ owed' = NoneOwed
    /\ HandleAbandon(owed.inst)
    /\ UNCHANGED <<online, nextInst, pendQuest, pendTurnIn, turnInDlg, bag,
                   journal, dialog, turnedIn, hasty, sessions>>

(* 0x03: Abandon in the quest log.                                         *)
ClickAbandon(i) ==
    /\ Click
    /\ \E e \in journal : e.inst = i
    /\ HandleAbandon(i)
    /\ UNCHANGED <<online, nextInst, pendQuest, pendTurnIn, turnInDlg, bag,
                   clientVars, turnedIn, sessions>>

-----------------------------------------------------------------------------
(* The world around the quests *)

(* The quests that next moves on are pushed to the client, one by one; the *)
(* row is written if there were any (_advance_and_push, on_item_picked_up).*)
Progressed(next) ==
    LET changed == {r \in active : next[r] # r}
    IN  /\ active' = {next[r] : r \in active}
        /\ Send(SetToSeq({ProgressMsg(next[r]) : r \in changed}))
        /\ done' = done
        /\ IF changed = {} THEN UNCHANGED savedVars ELSE Save

Killed(r) ==
    IF r.got["kill"] < Required[r.quest]["kill"]
    THEN [r EXCEPT !.got["kill"] = @ + 1] ELSE r

(* A monster of the counted sort dies by this player.                      *)
Kill ==
    /\ online
    /\ Len(wire) <= MaxWire
    /\ Progressed([r \in active |-> Killed(r)])
    /\ UNCHANGED <<online, nextInst, pendQuest, pendTurnIn, turnInDlg, teardown,
                   bag, clientVars, turnedIn, hasty, sessions>>

(* An item is picked up from the ground.                                   *)
PickUp ==
    /\ online
    /\ Len(wire) <= MaxWire
    /\ bag < BagSize
    /\ bag' = bag + 1
    /\ Progressed([r \in active |-> Synced(r, bag + 1)])
    /\ UNCHANGED <<online, nextInst, pendQuest, pendTurnIn, turnInDlg, teardown,
                   clientVars, turnedIn, hasty, sessions>>

(* An item leaves the bag, for the cursor, the ground or a merchant; the   *)
(* quests are not told.                                                    *)
TakeOut ==
    /\ online
    /\ bag > 0
    /\ bag' = bag - 1
    /\ UNCHANGED <<serverVars, savedVars, wire, clientVars, turnedIn, hasty, sessions>>

(* Another zone is entered: the client's quest component is built anew     *)
(* from the runtime list, the flags of the connection stay.                *)
EnterZone ==
    /\ online
    /\ Len(wire) <= MaxWire
    /\ Send(<<SpawnMsg(active)>>)
    /\ UNCHANGED <<serverVars, bag, savedVars, clientVars, turnedIn, hasty, sessions>>

(* A new connection: initialize_player rebuilds the runtime lists from the *)
(* row with fresh instance ids, in the order of a list that a set forgets. *)
Login ==
    /\ ~online
    /\ sessions < MaxSessions
    /\ sessions' = sessions + 1
    /\ online' = TRUE
    /\ LET n == Cardinality(savedActive) IN
       \E inst \in {f \in [savedActive -> 1..n] :
                       \A s, t \in savedActive : f[s] = f[t] => s = t} :
          /\ n <= MaxInst
          /\ active' = {[quest |-> s.quest, inst |-> inst[s], got |-> s.got] :
                           s \in savedActive}
          /\ nextInst' = n + 1
    /\ done' = savedDone
    /\ wire' = <<SpawnMsg(active')>>
    /\ UNCHANGED <<pendQuest, pendTurnIn, turnInDlg, teardown, bag, savedVars,
                   clientVars, turnedIn, hasty>>

(* The connection is lost, at whatever point of a dialog.                  *)
Logout ==
    /\ online
    /\ online' = FALSE
    /\ active' = {} /\ done' = {} /\ nextInst' = 1
    /\ pendQuest' = NoQuest /\ pendTurnIn' = 0
    /\ turnInDlg' = 0 /\ teardown' = 0
    /\ wire' = <<>> /\ journal' = {} /\ dialog' = NoDialog /\ owed' = NoneOwed
    /\ UNCHANGED <<bag, savedVars, turnedIn, hasty, sessions>>

-----------------------------------------------------------------------------
Init ==
    /\ online = FALSE
    /\ active = {} /\ done = {} /\ nextInst = 1
    /\ pendQuest = NoQuest /\ pendTurnIn = 0
    /\ turnInDlg = 0 /\ teardown = 0
    /\ bag = 0
    /\ savedActive = {} /\ savedDone = {}
    /\ wire = <<>> /\ journal = {} /\ dialog = NoDialog /\ owed = NoneOwed
    /\ turnedIn = [q \in Quest |-> 0]
    /\ hasty = FALSE
    /\ sessions = 0

Next ==
    \/ Login \/ Logout \/ EnterZone \/ Receive
    \/ \E q \in Quest : QueryOffer(q)
    \/ ClickAccept \/ CloseOffer \/ ClickComplete \/ ClickBack
    \/ \E i \in Inst : ViewActive(i) \/ ClickAbandon(i)
    \/ SendClose \/ SendTeardown
    \/ Kill \/ PickUp \/ TakeOut

Spec == Init /\ [][Next]_vars

-----------------------------------------------------------------------------
(* Properties *)

TypeOK ==
    /\ online \in BOOLEAN
    /\ active \subseteq Running
    /\ \A r \in active : \A g \in Goal : r.got[g] <= Required[r.quest][g]
    /\ done \subseteq Quest
    /\ nextInst \in 1..(MaxInst + 1)
    /\ pendQuest \in Quest \cup {NoQuest}
    /\ {pendTurnIn, turnInDlg, teardown} \subseteq 0..MaxInst
    /\ bag \in 0..BagSize
    /\ savedActive \subseteq Saved
    /\ savedDone \subseteq Quest
    /\ journal \subseteq Entry
    /\ dialog \in Dialog
    /\ owed \in Owed
    /\ turnedIn \in [Quest -> 0..MaxTurnIns]

(* No quest runs twice, no two share an instance id, and ids still to be   *)
(* handed out are unused (accept_quest, handle_accept_confirmed).          *)
RunsOnce ==
    /\ \A r, s \in active : r.quest = s.quest \/ r.inst = s.inst => r = s
    /\ \A r \in active : r.inst < nextInst

(* What the journal is once the answers w have arrived, one by one.        *)
Delivered(jn, w) ==
    LET after[k \in 0..Len(w)] ==
            IF k = 0 THEN jn ELSE JournalAfter(after[k - 1], w[k])
    IN  after[Len(w)]

(* Once the answers on their way have arrived, the client's journal has    *)
(* exactly the active quests, and shows one that only counts kills ready   *)
(* exactly when it is: no answer is missing, whatever was clicked and      *)
(* killed meanwhile (send_add_packet, send_remove_packet,                  *)
(* send_progress_packet, write_quest_entries).                             *)
JournalAgrees ==
    online =>
        LET seen == Delivered(journal, wire)
        IN  /\ {<<e.quest, e.inst>> : e \in seen} = {<<r.quest, r.inst>> : r \in active}
            /\ \A e \in seen : Required[e.quest]["item"] = 0 =>
                   \A r \in ActiveInst(e.inst) : e.ready = Complete(r)

(* A connection lost at any moment loses no quest, no kill and no          *)
(* completion: the row has them all (save_player_quests).                  *)
SavedAgrees ==
    online =>
        /\ savedDone = done
        /\ {<<s.quest, s.got["kill"]>> : s \in savedActive}
               = {<<r.quest, r.got["kill"]>> : r \in active}

(* The three records of a quest, in memory, in the journal of the client   *)
(* and in the row, name the same quests.                                   *)
RecordsAgree == TypeOK /\ RunsOnce /\ JournalAgrees /\ SavedAgrees

(* A quest that cannot be repeated is turned in once over all sessions,    *)
(* and is then never active again (accept_quest, initialize_player).       *)
TurnedInOnce ==
    \A q \in Quest \ Repeatable :
        /\ turnedIn[q] <= 1
        /\ turnedIn[q] = 1 => ActiveQuest(q) = {}

(* A quest that counts kills is turned in only after all of them, in       *)
(* particular not through a dialog left over from an instance that was     *)
(* abandoned (handle_turn_in_confirmed checks nothing but the instance).   *)
KillsEarned ==
    [][\A r \in active : turnedIn'[r.quest] # turnedIn[r.quest] =>
           r.got["kill"] >= Required[r.quest]["kill"]]_vars

(* Leaving a turn-in dialog by Back keeps the quest (the 0x03 branch).     *)
BackKept == owed.step = "teardown" /\ owed' = NoneOwed /\ online' => active' = active

(* It does for a client that waits for its answers.                        *)
BackKeepsQuestInOrder == [][~hasty => BackKept]_vars

=============================================================================
