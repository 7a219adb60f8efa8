---------------------------- MODULE QuestsProofs ----------------------------
(***************************************************************************)
(* What is turned in, and what the row of the character holds, for any     *)
(* quests, any requirements and any number of sessions.                    *)
(*                                                                         *)
(* A turn-in names an instance and looks at nothing else.  It comes after  *)
(* all the kills because an instance is only ever named, by the flag of    *)
(* the connection, by an answer on its way or by the dialog that is up,    *)
(* once its kills are made, and because its id goes to no other quest of   *)
(* the session.  A quest is turned in once because the row remembers it as *)
(* completed, and what is completed and cannot be repeated is never active.*)
(***************************************************************************)
EXTENDS Quests, FiniteSetTheorems, SequenceTheorems, WellFoundedInduction, TLAPS

(* The answers on their way.                                               *)
Msg == [op : {"add", "progress"}, entry : Entry]
       \cup [op : {"remove", "finalize", "turnin"}, inst : Inst]
       \cup [op : {"spawn"}, entries : SUBSET Entry]
       \cup [op : {"offer"}, quest : Quest]

(* Whoever has instance i, now or later in the session, has its kills.     *)
Ripe(i) ==
    /\ i < nextInst
    /\ \A r \in active : r.inst = i => r.got["kill"] >= Required[r.quest]["kill"]

Fit == {m \in Msg : m.op = "turnin" => Ripe(m.inst)}

Counted ==
    /\ active \subseteq Running
    /\ \A r \in active : \A g \in Goal : r.got[g] <= Required[r.quest][g]
    /\ done \subseteq Quest
    /\ nextInst \in 1..(MaxInst + 1)
    /\ bag \in 0..BagSize
    /\ savedActive \subseteq Saved
    /\ \A s \in savedActive : \A g \in Goal : s.got[g] <= Required[s.quest][g]
    /\ savedDone \subseteq Quest
    /\ turnedIn \in [Quest -> 0..MaxTurnIns]

Shown ==
    /\ online \in BOOLEAN
    /\ pendQuest \in Quest \cup {NoQuest}
    /\ {pendTurnIn, turnInDlg, teardown} \subseteq 0..MaxInst
    /\ journal \subseteq Entry
    /\ dialog \in Dialog
    /\ owed \in Owed

SavedOnce == \A s, t \in savedActive : s.quest = t.quest => s = t

Retired ==
    \A q \in Quest \ Repeatable :
        /\ turnedIn[q] <= 1
        /\ turnedIn[q] = 1 => q \in savedDone /\ \A s \in savedActive : s.quest # q

(* The server's side of the inductive invariant.                           *)
Core ==
    /\ Counted
    /\ IsFiniteSet(active) /\ IsFiniteSet(savedActive)
    /\ RunsOnce /\ SavedAgrees /\ SavedOnce /\ Retired

Ripened ==
    /\ wire \in Seq(Fit)
    /\ pendTurnIn # 0 => Ripe(pendTurnIn)
    /\ dialog.kind = "turnin" => Ripe(dialog.inst)

Offline ==
    ~online => /\ active = {} /\ owed = NoneOwed /\ dialog = NoDialog
               /\ pendTurnIn = 0 /\ wire = <<>>

(* The inductive invariant.                                                *)
Sound == Core /\ Shown /\ Ripened /\ Offline

LEMMA SoundType == Sound => TypeOK
BY DEF Sound, Core, Counted, Shown, TypeOK

-----------------------------------------------------------------------------
(* Runtime quests and answers *)

LEMMA ImageFinite ==
    ASSUME NEW S, IsFiniteSet(S), NEW f, f \in [S -> {f[x] : x \in S}]
    PROVE  IsFiniteSet({f[x] : x \in S})
<1> DEFINE T == {f[x] : x \in S}
<1>1. f \in [S -> T] /\ \A t \in T : \E x \in S : f[x] = t
  OBVIOUS
<1> HIDE DEF T
<1>2. f \in Surjection(S, T)
  BY <1>1 DEF Surjection
<1>3. IsFiniteSet(T)
  BY <1>2, FS_Surjection
<1>4. QED
  BY <1>3 DEF T

LEMMA SetToSeqType ==
    ASSUME NEW S, IsFiniteSet(S)
    PROVE  SetToSeq(S) \in Seq(S)
<1> DEFINE n == Cardinality(S)
<1>1. n \in Nat /\ ExistsBijection(1..n, S)
  BY FS_CardinalityType
<1>2. \E f \in [1..n -> S] : IsInjective(f)
  BY <1>1 DEF ExistsBijection, Bijection, Injection
<1>3. SetToSeq(S) \in [1..n -> S]
  BY <1>2 DEF SetToSeq
<1> HIDE DEF n
<1>4. QED
  BY <1>1, <1>3

LEMMA AtMostType ==
    ASSUME NEW a \in Nat, NEW b \in Nat
    PROVE  AtMost(a, b) \in Nat /\ AtMost(a, b) <= a /\ AtMost(a, b) <= b
BY DEF AtMost

(* A refresh of the item objective touches nothing else.                   *)
LEMMA SyncedType ==
    ASSUME NEW r \in Running, NEW n \in Nat
    PROVE  /\ Synced(r, n) \in Running
           /\ Synced(r, n).quest = r.quest /\ Synced(r, n).inst = r.inst
           /\ Synced(r, n).got["kill"] = r.got["kill"]
           /\ Synced(r, n).got["item"] <= Required[r.quest]["item"]
<1>1. Required[r.quest]["item"] \in Nat
  BY QuestAssumption DEF Running, Goal
<1> DEFINE a == AtMost(Required[r.quest]["item"], n)
           h == [r.got EXCEPT !["item"] = a]
<1>2. a \in Nat /\ a <= Required[r.quest]["item"]
  BY <1>1, AtMostType
<1> HIDE DEF a
<1>3. h \in [Goal -> Nat] /\ h["item"] = a /\ h["kill"] = r.got["kill"]
  BY <1>2 DEF Running, Goal
<1>4. Synced(r, n) = [r EXCEPT !.got = h]
  BY DEF Synced, a, Running
<1> HIDE DEF h
<1>5. QED
  BY <1>2, <1>3, <1>4 DEF Running

LEMMA EntryType ==
    ASSUME NEW r \in Running
    PROVE  EntryOf(r) \in Entry
BY DEF EntryOf, Entry, Running, Complete

LEMMA SavedType ==
    ASSUME NEW r \in Running
    PROVE  SavedOf(r) \in Saved /\ SavedOf(r).quest = r.quest /\ SavedOf(r).got = r.got
BY DEF SavedOf, Saved, Running

(* Answers that show no turn-in dialog.                                    *)
Plain == {m \in Msg : m.op # "turnin"}

LEMMA PlainType ==
    /\ \A r \in Running : AddMsg(r) \in Plain /\ ProgressMsg(r) \in Plain
    /\ \A i \in Inst : RemoveMsg(i) \in Plain /\ FinalizeMsg(i) \in Plain
    /\ \A R \in SUBSET Running : SpawnMsg(R) \in Plain
    /\ \A q \in Quest : OfferMsg(q) \in Plain
<1>1. ASSUME NEW r \in Running PROVE AddMsg(r) \in Plain /\ ProgressMsg(r) \in Plain
  BY EntryType DEF AddMsg, ProgressMsg, Plain, Msg
<1>2. ASSUME NEW i \in Inst PROVE RemoveMsg(i) \in Plain /\ FinalizeMsg(i) \in Plain
  BY DEF RemoveMsg, FinalizeMsg, Plain, Msg
<1>3. ASSUME NEW R \in SUBSET Running PROVE SpawnMsg(R) \in Plain
  BY EntryType DEF SpawnMsg, Plain, Msg
<1>4. ASSUME NEW q \in Quest PROVE OfferMsg(q) \in Plain
  BY DEF OfferMsg, Plain, Msg
<1>5. QED
  BY <1>1, <1>2, <1>3, <1>4

-----------------------------------------------------------------------------
(* What a step does to the answers on their way *)

(* No step of a session takes a kill back.                                 *)
Riper == \A i \in Inst : Ripe(i) => Ripe(i)'

LEMMA FitStays ==
    ASSUME Riper
    PROVE  Fit \subseteq Fit'
<1>1. ASSUME NEW m \in Msg, m.op = "turnin" PROVE m.inst \in Inst
  BY <1>1 DEF Msg
<1>2. QED
  BY <1>1 DEF Fit, Riper

LEMMA QuietFit ==
    ASSUME wire \in Seq(Fit), Riper, UNCHANGED wire
    PROVE  wire' \in Seq(Fit')
BY FitStays, SeqMonotonic

LEMMA SentFit ==
    ASSUME wire \in Seq(Fit), Riper, NEW msgs \in Seq(Fit'), Send(msgs)
    PROVE  wire' \in Seq(Fit')
<1>1. wire \in Seq(Fit')
  BY FitStays, SeqMonotonic
<1>2. QED
  BY <1>1, ConcatProperties DEF Send

LEMMA PlainFit ==
    ASSUME wire \in Seq(Fit), Riper, NEW msgs \in Seq(Plain), Send(msgs)
    PROVE  wire' \in Seq(Fit')
<1>1. Plain \subseteq Fit'
  BY DEF Plain, Fit
<1>2. msgs \in Seq(Fit')
  BY <1>1, SeqMonotonic
<1>3. QED
  BY <1>2, SentFit

-----------------------------------------------------------------------------
(* What a handler does to the lists and the row *)

(* A save brings the row up to date with the lists.                        *)
LEMMA SaveKeeps ==
    ASSUME active' \subseteq Running, IsFiniteSet(active'), done' \subseteq Quest,
           \A r \in active' : \A g \in Goal : r.got[g] <= Required[r.quest][g],
           RunsOnce', Save
    PROVE  /\ savedActive' \subseteq Saved /\ IsFiniteSet(savedActive')
           /\ \A s \in savedActive' : \A g \in Goal : s.got[g] <= Required[s.quest][g]
           /\ savedDone' \subseteq Quest
           /\ SavedAgrees' /\ SavedOnce'
           /\ \A s \in savedActive' : \E r \in active' : s.quest = r.quest
<1>1. savedActive' = {SavedOf(r) : r \in active'} /\ savedDone' = done'
  BY DEF Save
<1>2. IsFiniteSet(savedActive')
  <2> DEFINE f == [r \in active' |-> SavedOf(r)]
  <2>1. f \in [active' -> {f[r] : r \in active'}]
    OBVIOUS
  <2>2. savedActive' = {f[r] : r \in active'}
    BY <1>1
  <2> HIDE DEF f
  <2>3. QED
    BY <2>1, <2>2, ImageFinite
<1>3. \A s \in savedActive' : \E r \in active' :
          s = SavedOf(r) /\ s \in Saved /\ s.quest = r.quest /\ s.got = r.got
  BY <1>1, SavedType
<1>4. \A r \in active' : \E s \in savedActive' : s.quest = r.quest /\ s.got = r.got
  BY <1>1, SavedType
<1>5. {<<s.quest, s.got["kill"]>> : s \in savedActive'}
          = {<<r.quest, r.got["kill"]>> : r \in active'}
  BY <1>3, <1>4
<1>6. SavedOnce'
  <2>1. ASSUME NEW s \in savedActive', NEW t \in savedActive', s.quest = t.quest
        PROVE  s = t
    <3>1. PICK r \in active' : s = SavedOf(r) /\ s.quest = r.quest
      BY <1>3
    <3>2. PICK u \in active' : t = SavedOf(u) /\ t.quest = u.quest
      BY <1>3
    <3>3. r = u
      BY <2>1, <3>1, <3>2 DEF RunsOnce
    <3>4. QED
      BY <3>1, <3>2, <3>3
  <2>2. QED
    BY <2>1 DEF SavedOnce
<1>7. QED
  BY <1>1, <1>2, <1>3, <1>5, <1>6 DEF SavedAgrees

(* What was turned in and cannot be repeated is completed, and not active. *)
LEMMA RetiredOnline ==
    ASSUME SavedAgrees, Retired, online, NEW q \in Quest \ Repeatable, turnedIn[q] = 1
    PROVE  q \in done /\ \A r \in active : r.quest # q
<1>1. savedDone = done
      /\ {<<s.quest, s.got["kill"]>> : s \in savedActive}
             = {<<r.quest, r.got["kill"]>> : r \in active}
  BY DEF SavedAgrees
<1>2. \A r \in active : \E s \in savedActive : s.quest = r.quest
  <2>1. ASSUME NEW r \in active PROVE \E s \in savedActive : s.quest = r.quest
    <3>1. <<r.quest, r.got["kill"]>> \in {<<s.quest, s.got["kill"]>> : s \in savedActive}
      BY <1>1
    <3>2. QED
      BY <3>1
  <2>2. QED
    BY <2>1
<1>3. QED
  BY <1>1, <1>2 DEF Retired

LEMMA BagKeeps ==
    ASSUME Core, bag' \in 0..BagSize,
           UNCHANGED <<online, active, done, nextInst, savedVars, turnedIn>>
    PROVE  Core' /\ Riper
<1>1. Core'
  BY DEF Core, Counted, RunsOnce, SavedAgrees, SavedOnce, Retired, savedVars
<1>2. Riper
  BY DEF Riper, Ripe
<1>3. QED
  BY <1>1, <1>2

LEMMA StillKeeps ==
    ASSUME Core,
           UNCHANGED <<online, active, done, nextInst, bag, savedVars, turnedIn>>
    PROVE  Core' /\ Riper
<1>1. bag' \in 0..BagSize
  BY DEF Core, Counted
<1>2. QED
  BY <1>1, BagKeeps

(* The row is fresh, so the invariant is one of the lists alone.           *)
LEMMA FreshKeeps ==
    ASSUME Counted', IsFiniteSet(active'), RunsOnce', Save,
           \A q \in Quest \ Repeatable :
               /\ turnedIn'[q] <= 1
               /\ turnedIn'[q] = 1 => q \in done' /\ \A r \in active' : r.quest # q
    PROVE  Core'
<1>1. /\ active' \subseteq Running /\ done' \subseteq Quest /\ savedDone' = done'
      /\ \A r \in active' : \A g \in Goal : r.got[g] <= Required[r.quest][g]
  BY DEF Counted, Save
<1>2. /\ IsFiniteSet(savedActive') /\ SavedAgrees' /\ SavedOnce'
      /\ \A s \in savedActive' : \E r \in active' : s.quest = r.quest
  BY <1>1, SaveKeeps
<1>3. Retired'
  BY <1>1, <1>2 DEF Retired
<1>4. QED
  BY <1>2, <1>3 DEF Core

LEMMA AcceptKeeps ==
    ASSUME Core, wire \in Seq(Fit), online, NEW q \in Quest, AcceptConfirmed(q),
           UNCHANGED <<online, bag, turnedIn>>
    PROVE  Core' /\ Riper /\ wire' \in Seq(Fit')
<1>1. CASE ~Acceptable(q)
  <2>1. UNCHANGED <<active, done, nextInst, savedVars, wire>>
    BY <1>1 DEF AcceptConfirmed
  <2>2. Core' /\ Riper
    BY <2>1, StillKeeps
  <2>3. QED
    BY <2>1, <2>2, QuietFit
<1>2. CASE Acceptable(q)
  <2> DEFINE fresh == [quest |-> q, inst |-> nextInst, got |-> [g \in Goal |-> 0]]
             r == Synced(fresh, bag)
  <2>1. /\ nextInst <= MaxInst
        /\ active' = active \cup {r} /\ Send(<<AddMsg(r)>>)
        /\ done' = done \ {q} /\ nextInst' = nextInst + 1 /\ Save
    BY <1>2 DEF AcceptConfirmed, InstanceFor
  <2>2. nextInst \in Inst /\ bag \in Nat /\ MaxInst \in Nat
    BY <2>1, BoundAssumption DEF Core, Counted, Inst
  <2>3. fresh \in Running
    BY <2>2 DEF Running
  <2>4. /\ r \in Running /\ r.quest = q /\ r.inst = nextInst
        /\ r.got["kill"] = 0 /\ r.got["item"] <= Required[q]["item"]
    BY <2>2, <2>3, SyncedType DEF Goal
  <2> HIDE DEF r
  <2>5. \A g \in Goal : r.got[g] <= Required[r.quest][g]
    <3>1. Required[q]["kill"] \in Nat
      BY QuestAssumption DEF Goal
    <3>2. QED
      BY <2>4, <3>1 DEF Goal
  <2>6. \A s \in active : s.quest # q /\ s.inst < nextInst
    BY <1>2 DEF Acceptable, ActiveQuest, Core, RunsOnce
  <2>7. RunsOnce'
    <3>1. \A s \in active' : s.inst < nextInst'
      <4>1. \A s \in active : s.inst \in Nat
        BY <2>2 DEF Core, Counted, Running, Inst
      <4>2. QED
        BY <2>1, <2>2, <2>4, <2>6, <4>1 DEF Inst
    <3>2. ASSUME NEW s \in active', NEW t \in active',
                 s.quest = t.quest \/ s.inst = t.inst
          PROVE  s = t
      <4>1. CASE s \in active /\ t \in active
        BY <3>2, <4>1 DEF Core, RunsOnce
      <4>2. CASE s = r /\ t \in active
        BY <2>2, <2>4, <2>6, <3>2, <4>2 DEF Core, Counted, Running, Inst
      <4>3. CASE t = r /\ s \in active
        BY <2>2, <2>4, <2>6, <3>2, <4>3 DEF Core, Counted, Running, Inst
      <4>4. QED
        BY <2>1, <4>1, <4>2, <4>3
    <3>3. QED
      BY <3>1, <3>2 DEF RunsOnce
  <2>8. IsFiniteSet(active')
    BY <2>1, FS_AddElement DEF Core
  <2>9. Counted'
    <3>1. active' \subseteq Running /\ done' \subseteq Quest
      BY <2>1, <2>4 DEF Core, Counted
    <3>2. \A s \in active' : \A g \in Goal : s.got[g] <= Required[s.quest][g]
      BY <2>1, <2>5 DEF Core, Counted
    <3>3. /\ savedActive' \subseteq Saved /\ savedDone' \subseteq Quest
          /\ \A s \in savedActive' : \A g \in Goal : s.got[g] <= Required[s.quest][g]
      BY <2>1, <2>7, <2>8, <3>1, <3>2, SaveKeeps
    <3>4. nextInst' \in 1..(MaxInst + 1)
      BY <2>1, <2>2 DEF Inst
    <3>5. QED
      BY <3>1, <3>2, <3>3, <3>4 DEF Core, Counted
  <2>10. Core'
    <3>1. ASSUME NEW p \in Quest \ Repeatable, turnedIn[p] = 1
          PROVE  p \in done' /\ \A s \in active' : s.quest # p
      <4>1. p \in done /\ \A s \in active : s.quest # p
        BY <3>1, RetiredOnline DEF Core
      <4>2. p # q
        BY <1>2, <4>1 DEF Acceptable
      <4>3. QED
        BY <2>1, <2>4, <4>1, <4>2
    <3>2. \A p \in Quest \ Repeatable : turnedIn[p] <= 1
      BY DEF Core, Retired
    <3>3. QED
      BY <2>1, <2>7, <2>8, <2>9, <3>1, <3>2, FreshKeeps
  <2>11. Riper
    <3>1. ASSUME NEW i \in Inst, Ripe(i) PROVE Ripe(i)'
      BY <2>1, <2>2, <2>4, <3>1 DEF Ripe, Inst
    <3>2. QED
      BY <3>1 DEF Riper
  <2>12. wire' \in Seq(Fit')
    <3>1. <<AddMsg(r)>> \in Seq(Plain)
      BY <2>4, PlainType
    <3>2. QED
      BY <2>1, <2>11, <3>1, PlainFit
  <2>13. QED
    BY <2>10, <2>11, <2>12
<1>3. QED
  BY <1>1, <1>2

LEMMA BagAfterType ==
    ASSUME NEW q \in Quest, bag \in 0..BagSize
    PROVE  BagAfter(q) \in 0..BagSize
<1>1. bag \in Nat /\ BagSize \in Nat /\ Coins[q] \in Nat /\ Required[q]["item"] \in Nat
  BY QuestAssumption, BoundAssumption DEF Goal
<1> DEFINE used == IF q \in Consuming THEN AtMost(bag, Required[q]["item"]) ELSE 0
<1>2. used \in Nat /\ used <= bag
  <2>1. AtMost(bag, Required[q]["item"]) \in Nat /\ AtMost(bag, Required[q]["item"]) <= bag
    BY <1>1, AtMostType
  <2>2. CASE q \in Consuming
    BY <2>1, <2>2
  <2>3. CASE q \notin Consuming
    BY <1>1, <2>3
  <2>4. QED
    BY <2>2, <2>3
<1> HIDE DEF used
<1>3. bag - used + Coins[q] \in Nat
  BY <1>1, <1>2
<1>4. BagAfter(q) = AtMost(bag - used + Coins[q], BagSize)
  BY DEF BagAfter, used
<1>5. QED
  BY <1>1, <1>3, <1>4, AtMostType

LEMMA TurnInKeeps ==
    ASSUME Core, wire \in Seq(Fit), online, NEW i \in Inst, TurnInConfirmed(i),
           UNCHANGED <<online, nextInst>>
    PROVE  Core' /\ Riper /\ wire' \in Seq(Fit')
<1>1. CASE ActiveInst(i) = {}
  <2>1. UNCHANGED <<active, done, bag, savedVars, wire, turnedIn>>
    BY <1>1 DEF TurnInConfirmed
  <2>2. Core' /\ Riper
    BY <2>1, StillKeeps
  <2>3. QED
    BY <2>1, <2>2, QuietFit
<1>2. CASE ActiveInst(i) # {}
  <2>1. PICK r \in ActiveInst(i) :
            /\ turnedIn[r.quest] < MaxTurnIns
            /\ bag' = BagAfter(r.quest)
            /\ active' = active \ {r} /\ done' = done \cup {r.quest}
            /\ Send(<<FinalizeMsg(i), RemoveMsg(i)>>)
            /\ turnedIn' = [turnedIn EXCEPT ![r.quest] = @ + 1]
            /\ Save
    BY <1>2 DEF TurnInConfirmed
  <2>2. r \in active /\ r \in Running /\ r.quest \in Quest
    BY <2>1 DEF ActiveInst, Core, Counted, Running
  <2>3. RunsOnce' /\ IsFiniteSet(active')
    BY <2>1, FS_RemoveElement DEF Core, RunsOnce
  <2>4. turnedIn' \in [Quest -> 0..MaxTurnIns]
    <3>1. turnedIn[r.quest] + 1 \in 0..MaxTurnIns
      BY <2>1, <2>2, BoundAssumption DEF Core, Counted
    <3>2. QED
      BY <2>1, <2>2, <3>1 DEF Core, Counted
  <2>5. Counted'
    <3>1. /\ active' \subseteq Running /\ done' \subseteq Quest
          /\ \A s \in active' : \A g \in Goal : s.got[g] <= Required[s.quest][g]
      BY <2>1, <2>2 DEF Core, Counted
    <3>2. /\ savedActive' \subseteq Saved /\ savedDone' \subseteq Quest
          /\ \A s \in savedActive' : \A g \in Goal : s.got[g] <= Required[s.quest][g]
      BY <2>1, <2>3, <3>1, SaveKeeps
    <3>3. bag' \in 0..BagSize
      BY <2>1, <2>2, BagAfterType DEF Core, Counted
    <3>4. QED
      BY <2>1, <2>4, <3>1, <3>2, <3>3 DEF Core, Counted
  <2>6. ASSUME NEW q \in Quest \ Repeatable
        PROVE  /\ turnedIn'[q] <= 1
               /\ turnedIn'[q] = 1 => q \in done' /\ \A s \in active' : s.quest # q
    <3>1. CASE q = r.quest
      <4>1. turnedIn[q] # 1
        BY <2>2, <3>1, RetiredOnline DEF Core
      <4>2. turnedIn[q] = 0
        BY <4>1, BoundAssumption DEF Core, Counted, Retired
      <4>3. turnedIn'[q] = 1
        BY <2>1, <3>1, <4>2 DEF Core, Counted
      <4>4. \A s \in active' : s.quest # q
        BY <2>1, <2>2, <3>1 DEF Core, RunsOnce
      <4>5. QED
        BY <2>1, <3>1, <4>3, <4>4
    <3>2. CASE q # r.quest
      <4>1. turnedIn'[q] = turnedIn[q]
        BY <2>1, <3>2 DEF Core, Counted
      <4>2. turnedIn[q] = 1 => q \in done /\ \A s \in active : s.quest # q
        BY RetiredOnline DEF Core
      <4>3. QED
        BY <2>1, <4>1, <4>2 DEF Core, Retired
    <3>3. QED
      BY <3>1, <3>2
  <2>7. Core'
    BY <2>1, <2>3, <2>5, <2>6, FreshKeeps
  <2>8. Riper
    BY <2>1 DEF Riper, Ripe
  <2>9. wire' \in Seq(Fit')
    <3>1. <<FinalizeMsg(i), RemoveMsg(i)>> \in Seq(Plain)
      BY PlainType
    <3>2. QED
      BY <2>1, <2>8, <3>1, PlainFit
  <2>10. QED
    BY <2>7, <2>8, <2>9
<1>3. QED
  BY <1>1, <1>2

LEMMA AbandonKeeps ==
    ASSUME Core, wire \in Seq(Fit), online, NEW i \in Inst, HandleAbandon(i),
           UNCHANGED <<online, nextInst, bag, turnedIn>>
    PROVE  Core' /\ Riper /\ wire' \in Seq(Fit')
<1>1. CASE i = teardown
  <2>1. UNCHANGED <<active, done, savedVars, wire>>
    BY <1>1 DEF HandleAbandon
  <2>2. Core' /\ Riper
    BY <2>1, StillKeeps
  <2>3. QED
    BY <2>1, <2>2, QuietFit
<1>2. CASE i # teardown
  <2>1. /\ active' = active \ ActiveInst(i) /\ done' = done
        /\ Send(<<RemoveMsg(i)>>) /\ Save
    BY <1>2 DEF HandleAbandon, Abandoned
  <2>2. RunsOnce' /\ IsFiniteSet(active')
    <3>1. active' \subseteq active
      BY <2>1
    <3>2. QED
      BY <3>1, FS_Subset DEF Core, RunsOnce
  <2>3. Counted'
    <3>1. /\ active' \subseteq Running /\ done' \subseteq Quest
          /\ \A s \in active' : \A g \in Goal : s.got[g] <= Required[s.quest][g]
      BY <2>1 DEF Core, Counted
    <3>2. /\ savedActive' \subseteq Saved /\ savedDone' \subseteq Quest
          /\ \A s \in savedActive' : \A g \in Goal : s.got[g] <= Required[s.quest][g]
      BY <2>1, <2>2, <3>1, SaveKeeps
    <3>3. QED
      BY <2>1, <3>1, <3>2 DEF Core, Counted
  <2>4. Core'
    <3>1. ASSUME NEW q \in Quest \ Repeatable
          PROVE  /\ turnedIn'[q] <= 1
                 /\ turnedIn'[q] = 1 => q \in done' /\ \A s \in active' : s.quest # q
      BY <2>1, RetiredOnline DEF Core, Retired
    <3>2. QED
      BY <2>1, <2>2, <2>3, <3>1, FreshKeeps
  <2>5. Riper
    BY <2>1 DEF Riper, Ripe
  <2>6. wire' \in Seq(Fit')
    <3>1. <<RemoveMsg(i)>> \in Seq(Plain)
      BY PlainType
    <3>2. QED
      BY <2>1, <2>5, <3>1, PlainFit
  <2>7. QED
    BY <2>4, <2>5, <2>6
<1>3. QED
  BY <1>1, <1>2

(* The item objective of one active quest is refreshed.                    *)
LEMMA RefreshKeeps ==
    ASSUME Core, NEW r \in active,
           active' = (active \ {r}) \cup {Synced(r, bag)},
           UNCHANGED <<online, done, nextInst, bag, savedVars, turnedIn>>
    PROVE  /\ Core' /\ Riper
           /\ Complete(Synced(r, bag)) => Ripe(r.inst)' /\ r.inst \in Inst
<1> DEFINE s == Synced(r, bag)
<1>1. r \in Running /\ bag \in Nat
  BY BoundAssumption DEF Core, Counted
<1>2. /\ s \in Running /\ s.quest = r.quest /\ s.inst = r.inst
      /\ s.got["kill"] = r.got["kill"] /\ s.got["item"] <= Required[r.quest]["item"]
  BY <1>1, SyncedType
<1> HIDE DEF s
<1>3. active' = (active \ {r}) \cup {s}
  BY DEF s
<1>4. RunsOnce'
  <2>1. \A t \in active' : t.inst < nextInst'
    BY <1>2, <1>3 DEF Core, RunsOnce
  <2>2. ASSUME NEW t \in active', NEW u \in active',
               t.quest = u.quest \/ t.inst = u.inst
        PROVE  t = u
    BY <1>2, <1>3, <2>2 DEF Core, RunsOnce
  <2>3. QED
    BY <2>1, <2>2 DEF RunsOnce
<1>5. IsFiniteSet(active')
  <2>1. IsFiniteSet(active \ {r})
    BY FS_RemoveElement DEF Core
  <2>2. QED
    BY <1>3, <2>1, FS_AddElement
<1>6. \A g \in Goal : s.got[g] <= Required[s.quest][g]
  BY <1>2 DEF Goal, Core, Counted
<1>7. Counted'
  BY <1>2, <1>3, <1>6 DEF Core, Counted, savedVars
<1>8. {<<t.quest, t.got["kill"]>> : t \in active'}
          = {<<t.quest, t.got["kill"]>> : t \in active}
  BY <1>2, <1>3
<1>9. SavedAgrees' /\ SavedOnce' /\ Retired'
  BY <1>8 DEF Core, SavedAgrees, SavedOnce, Retired, savedVars
<1>10. Riper
  <2>1. ASSUME NEW i \in Inst, Ripe(i) PROVE Ripe(i)'
    BY <1>2, <1>3, <2>1 DEF Ripe
  <2>2. QED
    BY <2>1 DEF Riper
<1>11. ASSUME Complete(s) PROVE Ripe(r.inst)' /\ r.inst \in Inst
  <2>1. s.got["kill"] >= Required[s.quest]["kill"]
    BY <1>11 DEF Complete, Goal
  <2>2. \A t \in active' : t.inst = r.inst => t = s
    BY <1>2, <1>3, <1>4 DEF RunsOnce
  <2>3. r.inst < nextInst'
    BY DEF Core, RunsOnce
  <2>4. QED
    BY <1>1, <2>1, <2>2, <2>3 DEF Ripe, Running
<1>12. QED
  BY <1>4, <1>5, <1>7, <1>9, <1>10, <1>11 DEF Core, s, savedVars

(* Every active quest moves on, and the row is written if any did.         *)
LEMMA ProgressKeeps ==
    ASSUME Core, wire \in Seq(Fit), online, NEW next,
           \A r \in active :
               /\ next[r] \in Running
               /\ next[r].quest = r.quest /\ next[r].inst = r.inst
               /\ next[r].got["kill"] >= r.got["kill"]
               /\ \A g \in Goal : next[r].got[g] <= Required[r.quest][g],
           Progressed(next), bag' \in 0..BagSize,
           UNCHANGED <<online, nextInst, turnedIn>>
    PROVE  Core' /\ Riper /\ wire' \in Seq(Fit')
<1> DEFINE changed == {r \in active : next[r] # r}
           msgs == {ProgressMsg(next[r]) : r \in changed}
<1>1. /\ active' = {next[r] : r \in active} /\ Send(SetToSeq(msgs)) /\ done' = done
      /\ IF changed = {} THEN UNCHANGED savedVars ELSE Save
  BY DEF Progressed
<1>2. Riper
  <2>1. ASSUME NEW i \in Inst, Ripe(i), NEW r \in active, next[r].inst = i
        PROVE  next[r].got["kill"] >= Required[r.quest]["kill"]
    <3>1. r.got["kill"] >= Required[r.quest]["kill"]
      BY <2>1 DEF Ripe
    <3>2. /\ r.got["kill"] \in Nat /\ next[r].got["kill"] \in Nat
          /\ Required[r.quest]["kill"] \in Nat
      BY QuestAssumption DEF Core, Counted, Running, Goal
    <3>3. QED
      BY <3>1, <3>2
  <2>2. QED
    BY <1>1, <2>1 DEF Riper, Ripe
<1>3. SetToSeq(msgs) \in Seq(Plain)
  <2> DEFINE f == [r \in changed |-> ProgressMsg(next[r])]
  <2>1. msgs = {f[r] : r \in changed}
    OBVIOUS
  <2>2. f \in [changed -> {f[r] : r \in changed}]
    OBVIOUS
  <2>3. IsFiniteSet(changed)
    BY FS_Subset DEF Core
  <2>4. msgs \subseteq Plain
    BY PlainType
  <2> HIDE DEF f, msgs, changed
  <2>5. IsFiniteSet(msgs)
    BY <2>1, <2>2, <2>3, ImageFinite
  <2>6. QED
    BY <2>4, <2>5, SetToSeqType, SeqMonotonic
<1>4. wire' \in Seq(Fit')
  BY <1>1, <1>2, <1>3, PlainFit
<1> HIDE DEF msgs
<1>5. CASE changed = {}
  <2>1. active' = active
    BY <1>1, <1>5
  <2>2. Core'
    BY <1>1, <1>5, <2>1, BagKeeps
  <2>3. QED
    BY <1>2, <1>4, <2>2
<1>6. CASE changed # {}
  <2>1. Save
    BY <1>1, <1>6
  <2>2. RunsOnce'
    <3>1. \A s \in active' : s.inst < nextInst'
      BY <1>1 DEF Core, RunsOnce
    <3>2. ASSUME NEW r \in active, NEW s \in active,
                 next[r].quest = next[s].quest \/ next[r].inst = next[s].inst
          PROVE  r = s
      BY <3>2 DEF Core, RunsOnce
    <3>3. QED
      BY <1>1, <3>1, <3>2 DEF RunsOnce
  <2>3. IsFiniteSet(active')
    <3> DEFINE f == [r \in active |-> next[r]]
    <3>1. active' = {f[r] : r \in active}
      BY <1>1
    <3>2. f \in [active -> {f[r] : r \in active}]
      OBVIOUS
    <3>3. IsFiniteSet(active)
      BY DEF Core
    <3> HIDE DEF f
    <3>4. QED
      BY <3>1, <3>2, <3>3, ImageFinite
  <2>4. Counted'
    <3>1. active' \subseteq Running /\ done' \subseteq Quest
      BY <1>1 DEF Core, Counted
    <3>2. \A s \in active' : \A g \in Goal : s.got[g] <= Required[s.quest][g]
      BY <1>1
    <3>3. /\ savedActive' \subseteq Saved /\ savedDone' \subseteq Quest
          /\ \A s \in savedActive' : \A g \in Goal : s.got[g] <= Required[s.quest][g]
      BY <2>1, <2>2, <2>3, <3>1, <3>2, SaveKeeps
    <3>4. QED
      BY <3>1, <3>2, <3>3 DEF Core, Counted
  <2>5. ASSUME NEW q \in Quest \ Repeatable
        PROVE  /\ turnedIn'[q] <= 1
               /\ turnedIn'[q] = 1 => q \in done' /\ \A s \in active' : s.quest # q
    <3>1. turnedIn[q] = 1 => q \in done /\ \A r \in active : r.quest # q
      BY RetiredOnline DEF Core
    <3>2. QED
      BY <1>1, <3>1 DEF Core, Retired
  <2>6. Core'
    BY <2>1, <2>2, <2>3, <2>4, <2>5, FreshKeeps
  <2>7. QED
    BY <1>2, <1>4, <2>6
<1>7. QED
  BY <1>5, <1>6

-----------------------------------------------------------------------------
(* One step *)

LEMMA SessionStep ==
    ASSUME Sound, Core', Riper, Shown', online, UNCHANGED online, wire' \in Seq(Fit'),
           pendTurnIn' = pendTurnIn \/ pendTurnIn' = 0 \/ Ripe(pendTurnIn)',
           dialog' = dialog \/ dialog'.kind # "turnin"
    PROVE  Sound'
<1>1. pendTurnIn' # 0 => Ripe(pendTurnIn)'
  <2>1. CASE pendTurnIn' = pendTurnIn /\ pendTurnIn # 0
    <3>1. pendTurnIn \in Inst /\ Ripe(pendTurnIn)
      BY <2>1, BoundAssumption DEF Sound, Shown, Ripened, Inst
    <3>2. QED
      BY <2>1, <3>1 DEF Riper, Ripe
  <2>2. QED
    BY <2>1
<1>2. dialog'.kind = "turnin" => Ripe(dialog.inst)'
  <2>1. CASE dialog' = dialog /\ dialog.kind = "turnin"
    <3>1. dialog.inst \in Inst /\ Ripe(dialog.inst)
      BY <2>1 DEF Sound, Shown, Ripened, Dialog, NoDialog, Offer, TurnIn
    <3>2. QED
      BY <2>1, <3>1 DEF Riper, Ripe
  <2>2. QED
    BY <2>1
<1>3. Ripened'
  BY <1>1, <1>2 DEF Ripened
<1>4. Offline'
  BY DEF Offline
<1>5. QED
  BY <1>3, <1>4 DEF Sound

LEMMA InitSound == Init => Sound
<1> SUFFICES ASSUME Init PROVE Sound
  OBVIOUS
<1>1. Core
  <2>1. Counted
    BY BoundAssumption DEF Init, Counted
  <2>2. IsFiniteSet(active) /\ IsFiniteSet(savedActive)
    BY FS_EmptySet DEF Init
  <2>3. RunsOnce /\ SavedAgrees /\ SavedOnce
    BY DEF Init, RunsOnce, SavedAgrees, SavedOnce
  <2>4. Retired
    BY DEF Init, Retired
  <2>5. QED
    BY <2>1, <2>2, <2>3, <2>4 DEF Core
<1>2. Shown
  <2>1. MaxInst \in Nat
    BY BoundAssumption
  <2>2. online \in BOOLEAN /\ pendQuest \in Quest \cup {NoQuest}
    BY DEF Init
  <2>3. {pendTurnIn, turnInDlg, teardown} \subseteq 0..MaxInst
    BY <2>1 DEF Init
  <2>4. journal \subseteq Entry /\ dialog \in Dialog /\ owed \in Owed
    BY DEF Init, Dialog, Owed
  <2>5. QED
    BY <2>2, <2>3, <2>4 DEF Shown
<1>3. Ripened
  <2>1. wire \in Seq(Fit)
    BY DEF Init
  <2>2. QED
    BY <2>1 DEF Init, Ripened, NoDialog
<1>4. Offline
  BY DEF Init, Offline
<1>5. QED
  BY <1>1, <1>2, <1>3, <1>4 DEF Sound

LEMMA ReceiveSound ==
    ASSUME Sound, Receive
    PROVE  Sound'
<1> DEFINE m == Head(wire)
<1>1. wire # <<>> /\ wire \in Seq(Fit) /\ online
  BY DEF Receive, Sound, Ripened, Offline, Shown
<1>2. m \in Fit /\ wire' = Tail(wire) /\ wire' \in Seq(Fit)
  BY <1>1, HeadTailProperties DEF Receive
<1>3. Core' /\ Riper
  BY StillKeeps DEF Sound, Receive, serverVars
<1>4. wire' \in Seq(Fit')
  BY <1>2, <1>3, FitStays, SeqMonotonic
<1> HIDE DEF m
<1>5. journal' = JournalAfter(journal, m) /\ dialog' = DialogAfter(m)
  BY DEF Receive, m
<1>6. /\ m \in Msg
      /\ m.op \in {"add", "progress"} => m.entry \in Entry
      /\ m.op = "spawn" => m.entries \subseteq Entry
      /\ m.op = "offer" => m.quest \in Quest
      /\ m.op = "turnin" => m.inst \in Inst /\ Ripe(m.inst)
  BY <1>2 DEF Fit, Msg
<1>7. JournalAfter(journal, m) \subseteq Entry
  <2>1. journal \subseteq Entry
    BY DEF Sound, Shown
  <2>2. QED
    BY <1>6, <2>1 DEF JournalAfter
<1>8. DialogAfter(m) \in {NoDialog, dialog}
          \/ (m.op = "offer" /\ DialogAfter(m) = Offer(m.quest))
          \/ (m.op = "turnin" /\ DialogAfter(m) = TurnIn(m.inst))
  BY DEF DialogAfter
<1>9. Shown'
  <2>1. dialog' \in Dialog
    BY <1>5, <1>6, <1>8 DEF Dialog, Sound, Shown
  <2>2. QED
    BY <1>5, <1>7, <2>1 DEF Sound, Shown, Receive, serverVars
<1>10. dialog'.kind = "turnin" => Ripe(dialog.inst)'
  <2>1. CASE m.op = "turnin" /\ dialog' = TurnIn(m.inst)
    BY <1>3, <1>6, <2>1 DEF Riper, Ripe, TurnIn
  <2>2. CASE dialog' = dialog
    <3>1. dialog.kind = "turnin" => dialog.inst \in Inst /\ Ripe(dialog.inst)
      BY DEF Sound, Shown, Ripened, Dialog, NoDialog, Offer, TurnIn
    <3>2. QED
      BY <1>3, <2>2, <3>1 DEF Riper, Ripe
  <2>3. QED
    BY <1>5, <1>8, <2>1, <2>2 DEF NoDialog, Offer
<1>11. Ripened'
  <2>1. pendTurnIn' = pendTurnIn /\ (pendTurnIn # 0 => Ripe(pendTurnIn))
    BY DEF Sound, Ripened, Receive, serverVars
  <2>2. pendTurnIn # 0 => pendTurnIn \in Inst
    BY BoundAssumption DEF Sound, Shown, Inst
  <2>3. pendTurnIn' # 0 => Ripe(pendTurnIn)'
    BY <1>3, <2>1, <2>2 DEF Riper, Ripe
  <2>4. QED
    BY <1>4, <1>10, <2>3 DEF Ripened
<1>12. Offline'
  BY <1>1 DEF Offline, Receive, serverVars
<1>13. QED
  BY <1>3, <1>9, <1>11, <1>12 DEF Sound

LEMMA SoundFacts ==
    ASSUME Sound
    PROVE  /\ Core /\ wire \in Seq(Fit) /\ bag \in 0..BagSize
           /\ MaxInst \in Nat /\ BagSize \in Nat
           /\ pendTurnIn # 0 => pendTurnIn \in Inst /\ Ripe(pendTurnIn)
           /\ dialog.kind = "turnin" => dialog.inst \in Inst /\ Ripe(dialog.inst)
<1>1. MaxInst \in Nat /\ BagSize \in Nat
  BY BoundAssumption
<1>2. pendTurnIn # 0 => pendTurnIn \in Inst /\ Ripe(pendTurnIn)
  BY <1>1 DEF Sound, Shown, Ripened, Inst
<1>3. dialog.kind = "turnin" => dialog.inst \in Inst /\ Ripe(dialog.inst)
  BY DEF Sound, Shown, Ripened, Dialog, NoDialog, Offer, TurnIn
<1>4. QED
  BY <1>1, <1>2, <1>3 DEF Sound, Core, Counted, Ripened

(* The turn-in dialog of an instance that has its kills may be shown.      *)
LEMMA TurnInFit ==
    ASSUME wire \in Seq(Fit), Riper, NEW i \in Inst, Ripe(i)', Send(<<TurnInMsg(i)>>)
    PROVE  wire' \in Seq(Fit')
<1>1. TurnInMsg(i) \in Fit'
  BY DEF TurnInMsg, Fit, Msg
<1>2. <<TurnInMsg(i)>> \in Seq(Fit')
  <2> HIDE DEF TurnInMsg
  <2>1. QED
    BY <1>1
<1>3. QED
  BY <1>2, SentFit

LEMMA QueryOfferSound ==
    ASSUME Sound, NEW q \in Quest, QueryOffer(q)
    PROVE  Sound'
<1>1. /\ online /\ UNCHANGED <<online, turnInDlg, teardown, bag, journal, dialog, owed,
                               turnedIn, sessions>>
  BY DEF QueryOffer, Click, clientVars
<1>2. CASE pendQuest' = NoQuest /\ AcceptConfirmed(q) /\ UNCHANGED pendTurnIn
  <2>1. Core' /\ Riper /\ wire' \in Seq(Fit')
    BY <1>1, <1>2, SoundFacts, AcceptKeeps
  <2>2. Shown'
    BY <1>1, <1>2 DEF Sound, Shown
  <2>3. QED
    BY <1>1, <1>2, <2>1, <2>2, SessionStep
<1>3. CASE /\ pendQuest' = q /\ Send(<<OfferMsg(q)>>)
           /\ UNCHANGED <<active, done, nextInst, pendTurnIn, savedVars>>
  <2>1. Core' /\ Riper
    BY <1>1, <1>3, SoundFacts, StillKeeps
  <2>2. wire' \in Seq(Fit')
    <3>1. <<OfferMsg(q)>> \in Seq(Plain)
      BY PlainType
    <3>2. QED
      BY <1>3, <2>1, <3>1, SoundFacts, PlainFit
  <2>3. Shown'
    BY <1>1, <1>3 DEF Sound, Shown
  <2>4. QED
    BY <1>1, <1>3, <2>1, <2>2, <2>3, SessionStep
<1>4. ASSUME NEW r \in ActiveQuest(q),
             active' = (active \ {r}) \cup {Synced(r, bag)},
             IF Complete(Synced(r, bag))
             THEN pendTurnIn' = r.inst /\ pendQuest' = NoQuest /\ Send(<<TurnInMsg(r.inst)>>)
             ELSE pendQuest' = q /\ UNCHANGED <<pendTurnIn, wire>>,
             UNCHANGED <<done, nextInst, savedVars>>
      PROVE  Sound'
  <2>1. r \in active
    BY DEF ActiveQuest
  <2>2. /\ Core' /\ Riper
        /\ Complete(Synced(r, bag)) => Ripe(r.inst)' /\ r.inst \in Inst
    BY <1>1, <1>4, <2>1, SoundFacts, RefreshKeeps
  <2>3. CASE Complete(Synced(r, bag))
    <3>1. wire' \in Seq(Fit')
      BY <1>4, <2>2, <2>3, SoundFacts, TurnInFit
    <3>2. Shown'
      BY <1>1, <1>4, <2>2, <2>3, SoundFacts DEF Sound, Shown, Inst
    <3>3. Ripe(pendTurnIn)'
      BY <1>4, <2>2, <2>3 DEF Ripe
    <3>4. QED
      BY <1>1, <2>2, <3>1, <3>2, <3>3, SessionStep
  <2>4. CASE ~Complete(Synced(r, bag))
    <3>1. wire' \in Seq(Fit')
      BY <1>4, <2>2, <2>4, SoundFacts, QuietFit
    <3>2. Shown'
      BY <1>1, <1>4, <2>4 DEF Sound, Shown
    <3>3. QED
      BY <1>1, <1>4, <2>2, <2>4, <3>1, <3>2, SessionStep
  <2>5. QED
    BY <2>3, <2>4
<1>5. QED
  BY <1>2, <1>3, <1>4 DEF QueryOffer

LEMMA ClickAcceptSound ==
    ASSUME Sound, ClickAccept
    PROVE  Sound'
<1>1. /\ online /\ dialog' = NoDialog
      /\ UNCHANGED <<online, turnInDlg, teardown, journal, owed, sessions>>
  BY DEF ClickAccept, Click
<1>2. CASE /\ pendQuest # NoQuest /\ pendQuest' = NoQuest /\ AcceptConfirmed(pendQuest)
           /\ UNCHANGED <<pendTurnIn, bag, turnedIn>>
  <2>1. pendQuest \in Quest
    BY <1>2 DEF Sound, Shown
  <2>2. Core' /\ Riper /\ wire' \in Seq(Fit')
    BY <1>1, <1>2, <2>1, SoundFacts, AcceptKeeps
  <2>3. Shown'
    BY <1>1, <1>2 DEF Sound, Shown, Dialog
  <2>4. dialog'.kind # "turnin"
    BY <1>1 DEF NoDialog
  <2>5. QED
    BY <1>1, <1>2, <2>2, <2>3, <2>4, SessionStep
<1>3. CASE /\ pendTurnIn # 0 /\ pendTurnIn' = 0 /\ TurnInConfirmed(pendTurnIn)
           /\ UNCHANGED <<nextInst, pendQuest>>
  <2>1. pendTurnIn \in Inst
    BY <1>3, SoundFacts
  <2>2. Core' /\ Riper /\ wire' \in Seq(Fit')
    BY <1>1, <1>3, <2>1, SoundFacts, TurnInKeeps
  <2>3. Shown'
    BY <1>1, <1>3, SoundFacts DEF Sound, Shown, Dialog
  <2>4. dialog'.kind # "turnin"
    BY <1>1 DEF NoDialog
  <2>5. QED
    BY <1>1, <1>3, <2>2, <2>3, <2>4, SessionStep
<1>4. CASE UNCHANGED <<active, done, nextInst, pendQuest, pendTurnIn, bag,
                       savedVars, wire, turnedIn>>
  <2>1. Core' /\ Riper
    BY <1>1, <1>4, SoundFacts, StillKeeps
  <2>2. wire' \in Seq(Fit')
    BY <1>4, <2>1, SoundFacts, QuietFit
  <2>3. Shown'
    BY <1>1, <1>4 DEF Sound, Shown, Dialog
  <2>4. dialog'.kind # "turnin"
    BY <1>1 DEF NoDialog
  <2>5. QED
    BY <1>1, <1>4, <2>1, <2>2, <2>3, <2>4, SessionStep
<1>5. QED
  BY <1>2, <1>3, <1>4 DEF ClickAccept

(* A step that leaves the lists, the row and the wire alone.               *)
LEMMA FlagStep ==
    ASSUME Sound, online, Shown',
           UNCHANGED <<online, active, done, nextInst, bag, savedVars, wire, turnedIn,
                       pendTurnIn>>,
           dialog' = dialog \/ dialog' = NoDialog
    PROVE  Sound'
<1>1. Core' /\ Riper
  BY SoundFacts, StillKeeps
<1>2. wire' \in Seq(Fit')
  BY <1>1, SoundFacts, QuietFit
<1>3. QED
  BY <1>1, <1>2, SessionStep DEF NoDialog

LEMMA DialogSound ==
    ASSUME Sound, CloseOffer \/ ClickBack \/ SendClose
    PROVE  Sound'
<1>1. online
  BY DEF CloseOffer, ClickBack, SendClose, Click, Sound, Offline, NoneOwed
<1>2. CASE CloseOffer
  <2>1. Shown'
    BY <1>2, SoundFacts DEF CloseOffer, Click, DialogClosed, Sound, Shown, Dialog
  <2>2. QED
    BY <1>1, <1>2, <2>1, FlagStep DEF CloseOffer, DialogClosed
<1>3. CASE ClickBack
  <2>1. owed' \in Owed
    BY <1>3, SoundFacts DEF ClickBack, Owed
  <2>2. Shown'
    BY <1>3, <2>1 DEF ClickBack, serverVars, Sound, Shown, Dialog
  <2>3. QED
    BY <1>1, <1>3, <2>2, FlagStep DEF ClickBack, serverVars
<1>4. CASE SendClose
  <2>1. owed' \in Owed
    BY <1>4 DEF SendClose, Sound, Shown, Owed, NoneOwed
  <2>2. Shown'
    BY <1>4, <2>1, SoundFacts DEF SendClose, DialogClosed, Sound, Shown
  <2>3. QED
    BY <1>1, <1>4, <2>2, FlagStep DEF SendClose, DialogClosed
<1>5. QED
  BY <1>2, <1>3, <1>4

LEMMA ViewActiveSound ==
    ASSUME Sound, NEW i \in Inst, ViewActive(i)
    PROVE  Sound'
<1>1. /\ online
      /\ UNCHANGED <<online, done, nextInst, teardown, bag, savedVars, journal, dialog,
                     owed, turnedIn, sessions>>
  BY DEF ViewActive, Click, clientVars
<1>2. CASE UNCHANGED <<active, pendTurnIn, pendQuest, wire, turnInDlg>>
  <2>1. Shown'
    BY <1>1, <1>2 DEF Sound, Shown
  <2>2. QED
    BY <1>1, <1>2, <2>1, FlagStep
<1>3. ASSUME NEW r \in ActiveInst(i), ShowTurnIn(r),
             turnInDlg' = IF Complete(Synced(r, bag)) THEN i ELSE turnInDlg
      PROVE  Sound'
  <2>1. r \in active /\ r.inst = i
    BY DEF ActiveInst
  <2>2. active' = (active \ {r}) \cup {Synced(r, bag)}
    BY <1>3 DEF ShowTurnIn
  <2>3. /\ Core' /\ Riper
        /\ Complete(Synced(r, bag)) => Ripe(r.inst)' /\ r.inst \in Inst
    BY <1>1, <2>1, <2>2, SoundFacts, RefreshKeeps
  <2>4. CASE Complete(Synced(r, bag))
    <3>1. pendTurnIn' = r.inst /\ pendQuest' = NoQuest /\ Send(<<TurnInMsg(r.inst)>>)
      BY <1>3, <2>4 DEF ShowTurnIn
    <3>2. wire' \in Seq(Fit')
      BY <2>3, <2>4, <3>1, SoundFacts, TurnInFit
    <3>3. Shown'
      BY <1>1, <1>3, <2>1, <2>4, <3>1, SoundFacts DEF Sound, Shown, Inst
    <3>4. Ripe(pendTurnIn)'
      BY <2>3, <2>4, <3>1 DEF Ripe
    <3>5. QED
      BY <1>1, <2>3, <3>2, <3>3, <3>4, SessionStep
  <2>5. CASE ~Complete(Synced(r, bag))
    <3>1. UNCHANGED <<pendTurnIn, pendQuest, wire>>
      BY <1>3, <2>5 DEF ShowTurnIn
    <3>2. wire' \in Seq(Fit')
      BY <2>3, <3>1, SoundFacts, QuietFit
    <3>3. Shown'
      BY <1>1, <1>3, <2>5, <3>1 DEF Sound, Shown
    <3>4. QED
      BY <1>1, <2>3, <3>1, <3>2, <3>3, SessionStep
  <2>6. QED
    BY <2>4, <2>5
<1>4. QED
  BY <1>2, <1>3 DEF ViewActive

LEMMA ClickCompleteSound ==
    ASSUME Sound, ClickComplete
    PROVE  Sound'
<1>1. /\ online /\ dialog.kind = "turnin" /\ dialog' = NoDialog
      /\ pendTurnIn' = 0 /\ turnInDlg' = 0 /\ TurnInConfirmed(dialog.inst)
      /\ owed' = [step |-> "close", inst |-> dialog.inst]
      /\ UNCHANGED <<online, nextInst, pendQuest, teardown, journal, sessions>>
  BY DEF ClickComplete, Click
<1>2. dialog.inst \in Inst
  BY <1>1, SoundFacts
<1>3. Core' /\ Riper /\ wire' \in Seq(Fit')
  BY <1>1, <1>2, SoundFacts, TurnInKeeps
<1>4. Shown'
  <2>1. owed' \in Owed /\ dialog' \in Dialog
    BY <1>1, <1>2 DEF Owed, Dialog
  <2>2. {pendTurnIn', turnInDlg', teardown'} \subseteq 0..MaxInst
    BY <1>1, SoundFacts DEF Sound, Shown
  <2>3. QED
    BY <1>1, <2>1, <2>2 DEF Sound, Shown
<1>5. QED
  BY <1>1, <1>3, <1>4, SessionStep DEF NoDialog

LEMMA AbandonSound ==
    ASSUME Sound, SendTeardown \/ \E i \in Inst : ClickAbandon(i)
    PROVE  Sound'
<1>1. PICK i \in Inst : HandleAbandon(i)
  BY DEF SendTeardown, ClickAbandon, Sound, Shown, Owed, NoneOwed
<1>2. /\ online /\ owed' \in {owed, NoneOwed}
      /\ UNCHANGED <<online, nextInst, pendQuest, pendTurnIn, turnInDlg, bag,
                     journal, dialog, turnedIn, sessions>>
  BY DEF SendTeardown, ClickAbandon, Click, clientVars, Sound, Offline, NoneOwed
<1>3. Core' /\ Riper /\ wire' \in Seq(Fit')
  BY <1>1, <1>2, SoundFacts, AbandonKeeps
<1>4. Shown'
  <2>1. owed' \in Owed
    BY <1>2 DEF Sound, Shown, Owed
  <2>2. teardown' \in 0..MaxInst
    BY <1>1, SoundFacts DEF HandleAbandon
  <2>3. QED
    BY <1>2, <2>1, <2>2 DEF Sound, Shown
<1>5. QED
  BY <1>2, <1>3, <1>4, SessionStep

-----------------------------------------------------------------------------
(* The world around the quests *)

LEMMA ProgressSound ==
    ASSUME Sound, NEW next,
           \A r \in active :
               /\ next[r] \in Running
               /\ next[r].quest = r.quest /\ next[r].inst = r.inst
               /\ next[r].got["kill"] >= r.got["kill"]
               /\ \A g \in Goal : next[r].got[g] <= Required[r.quest][g],
           Progressed(next), bag' \in 0..BagSize, online,
           UNCHANGED <<online, nextInst, pendQuest, pendTurnIn, turnInDlg, teardown,
                       clientVars, turnedIn, sessions>>
    PROVE  Sound'
<1>1. Core' /\ Riper /\ wire' \in Seq(Fit')
  BY SoundFacts, ProgressKeeps
<1>2. Shown'
  BY DEF Sound, Shown, clientVars
<1>3. QED
  BY <1>1, <1>2, SessionStep DEF clientVars

LEMMA KilledType ==
    ASSUME NEW r \in Running, \A g \in Goal : r.got[g] <= Required[r.quest][g]
    PROVE  /\ Killed(r) \in Running
           /\ Killed(r).quest = r.quest /\ Killed(r).inst = r.inst
           /\ Killed(r).got["kill"] >= r.got["kill"]
           /\ \A g \in Goal : Killed(r).got[g] <= Required[r.quest][g]
<1>1. /\ r.got \in [Goal -> Nat] /\ r.got["kill"] \in Nat
      /\ Required[r.quest] \in [Goal -> Nat] /\ Required[r.quest]["kill"] \in Nat
  BY QuestAssumption DEF Running, Goal
<1>2. CASE r.got["kill"] < Required[r.quest]["kill"]
  <2> DEFINE h == [r.got EXCEPT !["kill"] = @ + 1]
  <2>1. h \in [Goal -> Nat] /\ h["kill"] = r.got["kill"] + 1 /\ h["item"] = r.got["item"]
    BY <1>1 DEF Goal
  <2>2. Killed(r) = [r EXCEPT !.got = h]
    BY <1>2 DEF Killed, Running
  <2> HIDE DEF h
  <2>3. /\ Killed(r) \in Running /\ Killed(r).got = h
        /\ Killed(r).quest = r.quest /\ Killed(r).inst = r.inst
    BY <2>1, <2>2 DEF Running
  <2>4. \A g \in Goal : h[g] <= Required[r.quest][g]
    <3>1. h["kill"] <= Required[r.quest]["kill"]
      BY <1>1, <1>2, <2>1
    <3>2. QED
      BY <2>1, <3>1 DEF Goal
  <2>5. h["kill"] >= r.got["kill"]
    BY <1>1, <2>1
  <2>6. QED
    BY <2>3, <2>4, <2>5
<1>3. CASE ~(r.got["kill"] < Required[r.quest]["kill"])
  BY <1>1, <1>3 DEF Killed
<1>4. QED
  BY <1>2, <1>3

LEMMA KillSound ==
    ASSUME Sound, Kill
    PROVE  Sound'
<1> DEFINE next == [r \in active |-> Killed(r)]
<1>1. /\ online /\ Progressed(next)
      /\ UNCHANGED <<online, nextInst, pendQuest, pendTurnIn, turnInDlg, teardown, bag,
                     clientVars, turnedIn, sessions>>
  BY DEF Kill
<1>2. \A r \in active :
          /\ next[r] \in Running
          /\ next[r].quest = r.quest /\ next[r].inst = r.inst
          /\ next[r].got["kill"] >= r.got["kill"]
          /\ \A g \in Goal : next[r].got[g] <= Required[r.quest][g]
  BY KilledType DEF Sound, Core, Counted
<1> HIDE DEF next
<1>3. bag' \in 0..BagSize
  BY <1>1, SoundFacts
<1>4. QED
  BY <1>1, <1>2, <1>3, ProgressSound

LEMMA PickUpSound ==
    ASSUME Sound, PickUp
    PROVE  Sound'
<1> DEFINE next == [r \in active |-> Synced(r, bag + 1)]
<1>1. /\ online /\ Progressed(next) /\ bag < BagSize /\ bag' = bag + 1
      /\ UNCHANGED <<online, nextInst, pendQuest, pendTurnIn, turnInDlg, teardown,
                     clientVars, turnedIn, sessions>>
  BY DEF PickUp
<1>2. bag + 1 \in Nat /\ bag' \in 0..BagSize
  BY <1>1, SoundFacts
<1>3. ASSUME NEW r \in active
      PROVE  /\ next[r] \in Running
             /\ next[r].quest = r.quest /\ next[r].inst = r.inst
             /\ next[r].got["kill"] >= r.got["kill"]
             /\ \A g \in Goal : next[r].got[g] <= Required[r.quest][g]
  <2>1. /\ r \in Running /\ r.got["kill"] \in Nat
        /\ \A g \in Goal : r.got[g] <= Required[r.quest][g]
    BY DEF Sound, Core, Counted, Running, Goal
  <2> DEFINE s == Synced(r, bag + 1)
  <2>2. /\ s \in Running /\ s.quest = r.quest /\ s.inst = r.inst
        /\ s.got["kill"] = r.got["kill"] /\ s.got["item"] <= Required[r.quest]["item"]
    BY <1>2, <2>1, SyncedType
  <2>3. next[r] = s
    OBVIOUS
  <2> HIDE DEF s, next
  <2>4. \A g \in Goal : s.got[g] <= Required[r.quest][g]
    BY <2>1, <2>2 DEF Goal
  <2>5. s.got["kill"] >= r.got["kill"]
    BY <2>1, <2>2
  <2>6. QED
    BY <2>2, <2>3, <2>4, <2>5
<1> HIDE DEF next
<1>4. QED
  BY <1>1, <1>2, <1>3, ProgressSound

LEMMA TakeOutSound ==
    ASSUME Sound, TakeOut
    PROVE  Sound'
<1>1. /\ online /\ bag' \in 0..BagSize
      /\ UNCHANGED <<serverVars, savedVars, wire, clientVars, turnedIn, sessions>>
  BY SoundFacts DEF TakeOut
<1>2. Core' /\ Riper
  BY <1>1, SoundFacts, BagKeeps DEF serverVars
<1>3. wire' \in Seq(Fit')
  BY <1>1, <1>2, SoundFacts, QuietFit
<1>4. Shown'
  BY <1>1 DEF Sound, Shown, serverVars, clientVars
<1>5. QED
  BY <1>1, <1>2, <1>3, <1>4, SessionStep DEF serverVars, clientVars

LEMMA EnterZoneSound ==
    ASSUME Sound, EnterZone
    PROVE  Sound'
<1>1. /\ online /\ Send(<<SpawnMsg(active)>>)
      /\ UNCHANGED <<serverVars, bag, savedVars, clientVars, turnedIn, sessions>>
  BY DEF EnterZone
<1>2. Core' /\ Riper
  BY <1>1, SoundFacts, StillKeeps DEF serverVars
<1>3. <<SpawnMsg(active)>> \in Seq(Plain)
  <2>1. active \in SUBSET Running
    BY DEF Sound, Core, Counted
  <2>2. QED
    BY <2>1, PlainType
<1>4. wire' \in Seq(Fit')
  BY <1>1, <1>2, <1>3, SoundFacts, PlainFit
<1>5. Shown'
  BY <1>1 DEF Sound, Shown, serverVars, clientVars
<1>6. QED
  BY <1>1, <1>2, <1>4, <1>5, SessionStep DEF serverVars, clientVars

(* The runtime lists are rebuilt from the row, each quest of it once.      *)
LEMMA LoginSound ==
    ASSUME Sound, Login
    PROVE  Sound'
<1> DEFINE n == Cardinality(savedActive)
<1>1. PICK inst \in [savedActive -> 1..n] :
          /\ \A s, t \in savedActive : inst[s] = inst[t] => s = t
          /\ n <= MaxInst
          /\ active' = {[quest |-> s.quest, inst |-> inst[s], got |-> s.got] :
                           s \in savedActive}
          /\ nextInst' = n + 1
  BY DEF Login
<1>2. /\ ~online /\ online' = TRUE /\ done' = savedDone
      /\ wire' = <<SpawnMsg(active')>>
      /\ UNCHANGED <<pendQuest, pendTurnIn, turnInDlg, teardown, bag, savedVars,
                     journal, dialog, owed, turnedIn>>
  BY DEF Login, clientVars
<1>3. n \in Nat
  BY FS_CardinalityType DEF Sound, Core
<1> HIDE DEF n
<1> DEFINE run == [s \in savedActive |->
                     [quest |-> s.quest, inst |-> inst[s], got |-> s.got]]
<1>4. ASSUME NEW s \in savedActive
      PROVE  /\ run[s] \in Running /\ run[s].inst <= n
             /\ run[s].quest = s.quest /\ run[s].inst = inst[s] /\ run[s].got = s.got
  <2>1. inst[s] \in 1..n /\ inst[s] \in Inst
    BY <1>1, <1>3, SoundFacts DEF Inst
  <2>2. s \in Saved
    BY DEF Sound, Core, Counted
  <2>3. QED
    BY <1>3, <2>1, <2>2 DEF Running, Saved
<1>5. active' = {run[s] : s \in savedActive}
  BY <1>1
<1>6. run \in [savedActive -> {run[s] : s \in savedActive}]
  OBVIOUS
<1> HIDE DEF run
<1>7. IsFiniteSet(active') /\ IsFiniteSet(savedActive')
  BY <1>2, <1>5, <1>6, ImageFinite DEF Sound, Core, savedVars
<1>8. RunsOnce'
  <2>1. \A r \in active' : r.inst < nextInst'
    <3>1. ASSUME NEW s \in savedActive PROVE run[s].inst < n + 1
      BY <1>3, <1>4 DEF Running, Inst
    <3>2. QED
      BY <1>1, <1>5, <3>1
  <2>2. ASSUME NEW s \in savedActive, NEW t \in savedActive,
               run[s].quest = run[t].quest \/ run[s].inst = run[t].inst
        PROVE  s = t
    BY <1>1, <1>4, <2>2 DEF Sound, Core, SavedOnce
  <2>3. QED
    BY <1>5, <2>1, <2>2 DEF RunsOnce
<1>9. Counted'
  <2>1. active' \subseteq Running
    BY <1>4, <1>5
  <2>2. \A r \in active' : \A g \in Goal : r.got[g] <= Required[r.quest][g]
    BY <1>4, <1>5 DEF Sound, Core, Counted
  <2>3. nextInst' \in 1..(MaxInst + 1)
    BY <1>1, <1>3, SoundFacts
  <2>4. QED
    BY <1>2, <2>1, <2>2, <2>3 DEF Sound, Core, Counted, savedVars
<1>10. Core'
  <2>1. {<<s.quest, s.got["kill"]>> : s \in savedActive'}
            = {<<r.quest, r.got["kill"]>> : r \in active'}
    BY <1>2, <1>4, <1>5 DEF savedVars
  <2>2. SavedAgrees' /\ SavedOnce' /\ Retired'
    BY <1>2, <2>1 DEF Sound, Core, SavedAgrees, SavedOnce, Retired, savedVars
  <2>3. QED
    BY <1>7, <1>8, <1>9, <2>2 DEF Core
<1>11. Shown'
  BY <1>2 DEF Sound, Shown
<1>12. Ripened'
  <2>1. SpawnMsg(active') \in Plain
    <3>1. active' \in SUBSET Running
      BY <1>9 DEF Counted
    <3>2. QED
      BY <3>1, PlainType
  <2>2. SpawnMsg(active') \in Fit'
    BY <2>1 DEF Plain, Fit
  <2>3. wire' \in Seq(Fit')
    <3> HIDE DEF SpawnMsg
    <3>1. QED
      BY <1>2, <2>2
  <2>4. pendTurnIn' = 0 /\ dialog' = NoDialog
    BY <1>2 DEF Sound, Offline
  <2>5. QED
    BY <2>3, <2>4 DEF Ripened, NoDialog
<1>13. Offline'
  BY <1>2 DEF Offline
<1>14. QED
  BY <1>10, <1>11, <1>12, <1>13 DEF Sound

LEMMA LogoutSound ==
    ASSUME Sound, Logout
    PROVE  Sound'
<1>1. /\ online' = FALSE /\ active' = {} /\ done' = {} /\ nextInst' = 1
      /\ pendQuest' = NoQuest /\ pendTurnIn' = 0 /\ turnInDlg' = 0 /\ teardown' = 0
      /\ wire' = <<>> /\ journal' = {} /\ dialog' = NoDialog /\ owed' = NoneOwed
      /\ UNCHANGED <<bag, savedVars, turnedIn>>
  BY DEF Logout
<1>2. Core'
  <2>1. Counted'
    BY <1>1, SoundFacts DEF Sound, Core, Counted, savedVars
  <2>2. IsFiniteSet(active') /\ RunsOnce' /\ SavedAgrees'
    BY <1>1, FS_EmptySet DEF RunsOnce, SavedAgrees
  <2>3. IsFiniteSet(savedActive') /\ SavedOnce' /\ Retired'
    BY <1>1 DEF Sound, Core, SavedOnce, Retired, savedVars
  <2>4. QED
    BY <2>1, <2>2, <2>3 DEF Core
<1>3. Shown'
  <2>1. {pendTurnIn', turnInDlg', teardown'} \subseteq 0..MaxInst
    BY <1>1, SoundFacts
  <2>2. dialog' \in Dialog /\ owed' \in Owed
    BY <1>1 DEF Dialog, Owed
  <2>3. QED
    BY <1>1, <2>1, <2>2 DEF Shown
<1>4. Ripened'
  BY <1>1 DEF Ripened, NoDialog
<1>5. Offline'
  BY <1>1 DEF Offline
<1>6. QED
  BY <1>2, <1>3, <1>4, <1>5 DEF Sound

-----------------------------------------------------------------------------
(* Answers that arrive one by one *)

LEMMA BelowIsWellFounded ==
    \E R : IsWellFoundedOn(R, Nat) /\ \A x, y \in Nat : x < y => <<x, y>> \in R
<1>1. IsWellFoundedOn(OpToRel(<, Nat), Nat)
  BY NatLessThanWellFounded
<1>2. ASSUME NEW x \in Nat, NEW y \in Nat, x < y PROVE <<x, y>> \in OpToRel(<, Nat)
  BY <1>2, Zenon DEF OpToRel
<1>3. QED
  BY <1>1, <1>2, Zenon

(* A set of numbers has a least one.                                       *)
LEMMA HasLeast ==
    ASSUME NEW I \in SUBSET Nat, I # {}
    PROVE  \E k \in I : \A j \in I : k <= j
<1>1. PICK R : IsWellFoundedOn(R, Nat) /\ \A x, y \in Nat : x < y => <<x, y>> \in R
  BY BelowIsWellFounded
<1>2. IsWellFoundedOn(R, Nat) /\ I \subseteq Nat /\ I # {}
  BY <1>1
<1>3. PICK k \in I : \A j \in I : ~ (<<j, k>> \in R)
  BY <1>2, WFMin, Zenon
<1>4. ASSUME NEW j \in I PROVE k <= j
  <2>1. j \in Nat /\ k \in Nat
    OBVIOUS
  <2>2. ~(j < k)
    BY <1>1, <1>3, <2>1, Zenon
  <2>3. QED
    BY <2>1, <2>2
<1>5. QED
  BY <1>4

(* f lists the journal from jn on, after each of the first n answers of w. *)
Lists(f, jn, w, n) ==
    f = [k \in 0..n |-> IF k = 0 THEN jn ELSE JournalAfter(f[k - 1], w[k])]

LEMMA ListExists ==
    ASSUME NEW jn, NEW w, NEW n \in Nat
    PROVE  \E f : Lists(f, jn, w, n)
<1> DEFINE I == {m \in Nat : ~ \E f : Lists(f, jn, w, m)}
<1>1. ASSUME NEW m \in I, \A j \in I : m <= j
      PROVE  FALSE
  <2>1. m \in Nat /\ ~ \E f : Lists(f, jn, w, m)
    OBVIOUS
  <2>2. CASE m = 0
    <3> DEFINE f == [k \in 0..0 |-> jn]
    <3>1. f = [k \in 0..0 |-> IF k = 0 THEN jn ELSE JournalAfter(f[k - 1], w[k])]
      OBVIOUS
    <3>2. Lists(f, jn, w, 0)
      BY <3>1 DEF Lists
    <3>3. QED
      BY <2>1, <2>2, <3>2
  <2>3. CASE m # 0
    <3>1. m - 1 \in Nat /\ m - 1 \notin I
      BY <1>1, <2>1, <2>3
    <3>2. PICK f : Lists(f, jn, w, m - 1)
      BY <3>1
    <3>3. f = [k \in 0..(m - 1) |-> IF k = 0 THEN jn ELSE JournalAfter(f[k - 1], w[k])]
      BY <3>2 DEF Lists
    <3> DEFINE g == [k \in 0..m |-> IF k = m THEN JournalAfter(f[k - 1], w[k]) ELSE f[k]]
               h == [k \in 0..m |-> IF k = 0 THEN jn ELSE JournalAfter(g[k - 1], w[k])]
    <3>4. ASSUME NEW k \in 0..m PROVE g[k] = h[k]
      <4>1. CASE k = m
        <5>1. k - 1 \in 0..m /\ k - 1 # m /\ k # 0
          BY <2>1, <2>3, <4>1
        <5>2. g[k - 1] = f[k - 1]
          BY <5>1
        <5>3. QED
          BY <4>1, <5>1, <5>2
      <4>2. CASE k = 0
        BY <2>1, <2>3, <3>3, <4>2
      <4>3. CASE k # m /\ k # 0
        <5>1. k \in 0..(m - 1) /\ k - 1 \in 0..m /\ k - 1 # m
          BY <2>1, <4>3
        <5>2. g[k - 1] = f[k - 1] /\ g[k] = f[k]
          BY <4>3, <5>1
        <5>3. f[k] = JournalAfter(f[k - 1], w[k])
          BY <3>3, <4>3, <5>1
        <5>4. QED
          BY <4>3, <5>2, <5>3
      <4>4. QED
        BY <4>1, <4>2, <4>3
    <3>5. DOMAIN g = 0..m /\ DOMAIN h = 0..m /\ g = [k \in 0..m |-> g[k]]
          /\ h = [k \in 0..m |-> h[k]]
      OBVIOUS
    <3>6. g = h
      <4> HIDE DEF g, h
      <4>1. QED
        BY <3>4, <3>5
    <3>7. Lists(g, jn, w, m)
      BY <3>6 DEF Lists
    <3> HIDE DEF g
    <3>8. QED
      BY <2>1, <3>7
  <2>4. QED
    BY <2>2, <2>3
<1>2. I \in SUBSET Nat
  OBVIOUS
<1> HIDE DEF I
<1>3. I = {}
  BY <1>1, <1>2, HasLeast
<1>4. QED
  BY <1>3 DEF I

(* Two lists for answers that begin alike begin alike.                     *)
LEMMA ListsAgree ==
    ASSUME NEW jn, NEW w, NEW m \in Nat, NEW n \in Nat, NEW f, NEW g,
           Lists(f, jn, w, m), Lists(g, jn, w, n), NEW j \in 0..m, j \in 0..n
    PROVE  f[j] = g[j]
<1> DEFINE I == {k \in 0..j : f[k] # g[k]}
<1>1. /\ f = [k \in 0..m |-> IF k = 0 THEN jn ELSE JournalAfter(f[k - 1], w[k])]
      /\ g = [k \in 0..n |-> IF k = 0 THEN jn ELSE JournalAfter(g[k - 1], w[k])]
  BY DEF Lists
<1>2. ASSUME NEW k \in I, \A i \in I : k <= i
      PROVE  FALSE
  <2>1. k \in 0..j /\ f[k] # g[k] /\ k \in 0..m /\ k \in 0..n
    OBVIOUS
  <2>2. k # 0
    BY <1>1, <2>1
  <2>3. k - 1 \in 0..j /\ k - 1 \notin I
    BY <1>2, <2>1, <2>2
  <2>4. f[k - 1] = g[k - 1]
    BY <2>3
  <2>5. f[k] = JournalAfter(f[k - 1], w[k]) /\ g[k] = JournalAfter(g[k - 1], w[k])
    BY <1>1, <2>1, <2>2
  <2>6. QED
    BY <2>1, <2>4, <2>5
<1>3. I \in SUBSET Nat
  OBVIOUS
<1>4. j \in 0..j
  OBVIOUS
<1> HIDE DEF I
<1>5. I = {}
  BY <1>2, <1>3, HasLeast
<1>6. QED
  BY <1>4, <1>5 DEF I

LEMMA DeliveredIsLast ==
    ASSUME NEW jn, NEW w, Len(w) \in Nat, NEW f, Lists(f, jn, w, Len(w))
    PROVE  Delivered(jn, w) = f[Len(w)]
<1> DEFINE after == CHOOSE g : Lists(g, jn, w, Len(w))
<1>1. Lists(after, jn, w, Len(w))
  OBVIOUS
<1>2. Delivered(jn, w) = after[Len(w)]
  BY DEF Delivered, Lists
<1> HIDE DEF after
<1>3. Len(w) \in 0..Len(w)
  OBVIOUS
<1>4. QED
  BY <1>1, <1>2, <1>3, ListsAgree

LEMMA DeliveredNone ==
    ASSUME NEW jn
    PROVE  Delivered(jn, <<>>) = jn
<1>1. Len(<<>>) = 0
  OBVIOUS
<1>2. PICK f : Lists(f, jn, <<>>, 0)
  BY ListExists
<1>3. f[0] = jn
  BY <1>2 DEF Lists
<1>4. QED
  BY <1>1, <1>2, <1>3, DeliveredIsLast

LEMMA DeliveredOne ==
    ASSUME NEW jn, NEW m
    PROVE  Delivered(jn, <<m>>) = JournalAfter(jn, m)
<1>1. Len(<<m>>) = 1 /\ <<m>>[1] = m
  OBVIOUS
<1>2. PICK f : Lists(f, jn, <<m>>, 1)
  BY ListExists
<1>3. f = [k \in 0..1 |-> IF k = 0 THEN jn ELSE JournalAfter(f[k - 1], <<m>>[k])]
  BY <1>2 DEF Lists
<1>4. f[0] = jn /\ f[1] = JournalAfter(f[0], <<m>>[1])
  BY <1>3
<1>5. QED
  BY <1>1, <1>2, <1>4, DeliveredIsLast

(* What arrives later finds the journal that what came before has left.    *)
LEMMA DeliveredConcat ==
    ASSUME NEW M, NEW jn, NEW v \in Seq(M), NEW w \in Seq(M)
    PROVE  Delivered(jn, v \o w) = Delivered(Delivered(jn, v), w)
<1> DEFINE a == Len(v)
           b == Len(w)
           u == v \o w
<1>1. a \in Nat /\ b \in Nat /\ Len(u) = a + b
  BY ConcatProperties
<1>2. /\ \A k \in 1..a : u[k] = v[k]
      /\ \A k \in (a + 1)..(a + b) : u[k] = w[k - a]
  BY <1>1, ConcatProperties
<1>3. PICK f : Lists(f, jn, v, a)
  BY <1>1, ListExists
<1>4. Delivered(jn, v) = f[a]
  BY <1>1, <1>3, DeliveredIsLast
<1>5. PICK g : Lists(g, f[a], w, b)
  BY <1>1, ListExists
<1>6. Delivered(f[a], w) = g[b]
  BY <1>1, <1>5, DeliveredIsLast
<1> HIDE DEF a, b, u
<1>7. /\ f = [k \in 0..a |-> IF k = 0 THEN jn ELSE JournalAfter(f[k - 1], v[k])]
      /\ g = [k \in 0..b |-> IF k = 0 THEN f[a] ELSE JournalAfter(g[k - 1], w[k])]
  BY <1>3, <1>5 DEF Lists
<1>8. g[0] = f[a]
  BY <1>1, <1>7
<1> DEFINE h == [k \in 0..(a + b) |-> IF k <= a THEN f[k] ELSE g[k - a]]
           e == [k \in 0..(a + b) |-> IF k = 0 THEN jn ELSE JournalAfter(h[k - 1], u[k])]
<1>9. ASSUME NEW k \in 0..(a + b) PROVE h[k] = e[k]
  <2>1. CASE k = 0
    BY <1>1, <1>7, <2>1
  <2>2. CASE k # 0 /\ k <= a
    <3>1. k \in 0..a /\ k \in 1..a /\ k - 1 \in 0..(a + b) /\ k - 1 <= a
      BY <1>1, <2>2
    <3>2. f[k] = JournalAfter(f[k - 1], v[k])
      BY <1>7, <2>2, <3>1
    <3>3. QED
      BY <1>2, <2>2, <3>1, <3>2
  <2>3. CASE k # 0 /\ ~(k <= a)
    <3>1. /\ k - a \in 0..b /\ k - a # 0 /\ k \in (a + 1)..(a + b)
          /\ k - 1 \in 0..(a + b) /\ (k - a) - 1 = (k - 1) - a
      BY <1>1, <2>3
    <3>2. g[k - a] = JournalAfter(g[(k - 1) - a], w[k - a])
      BY <1>7, <3>1
    <3>3. h[k - 1] = g[(k - 1) - a]
      <4>1. CASE k - 1 <= a
        <5>1. k - 1 = a
          BY <1>1, <2>3, <4>1
        <5>2. (k - 1) - a = 0
          BY <1>1, <5>1
        <5>3. QED
          BY <1>8, <3>1, <4>1, <5>1, <5>2
      <4>2. CASE ~(k - 1 <= a)
        BY <3>1, <4>2
      <4>3. QED
        BY <4>1, <4>2
    <3>4. u[k] = w[k - a]
      BY <1>2, <3>1
    <3>5. h[k] = g[k - a] /\ e[k] = JournalAfter(h[k - 1], u[k])
      BY <2>3
    <3> HIDE DEF h, e
    <3>6. QED
      BY <3>2, <3>3, <3>4, <3>5
  <2>4. QED
    BY <2>1, <2>2, <2>3
<1>10. /\ h = [k \in 0..(a + b) |-> h[k]] /\ e = [k \in 0..(a + b) |-> e[k]]
  OBVIOUS
<1>11. h = e
  <2> HIDE DEF h, e
  <2>1. QED
    BY <1>9, <1>10
<1>12. Lists(h, jn, u, Len(u))
  BY <1>1, <1>11 DEF Lists
<1>13. h[Len(u)] = g[b]
  <2>1. CASE b = 0
    BY <1>1, <1>8, <2>1
  <2>2. CASE b # 0
    <3>1. a + b \in 0..(a + b) /\ ~(a + b <= a) /\ (a + b) - a = b
      BY <1>1, <2>2
    <3>2. QED
      BY <1>1, <3>1
  <2>3. QED
    BY <2>1, <2>2
<1> HIDE DEF h, e
<1>14. Len(u) \in Nat
  BY <1>1
<1>15. Delivered(jn, u) = h[Len(u)]
  BY <1>12, <1>14, DeliveredIsLast
<1>16. QED
  BY <1>4, <1>6, <1>13, <1>15 DEF u

-----------------------------------------------------------------------------
(* The journal of the client *)

(* The journal J shows the quests A: their instances, and which of those   *)
(* that only count kills are ready.                                        *)
Shows(J, A) ==
    /\ \A e \in J : \E r \in A : r.quest = e.quest /\ r.inst = e.inst
    /\ \A r \in A : \E e \in J : e.quest = r.quest /\ e.inst = r.inst
    /\ \A e \in J : Required[e.quest]["item"] = 0 =>
           \A r \in A : r.inst = e.inst => e.ready = Complete(r)

LEMMA EntryFields ==
    ASSUME NEW r
    PROVE  /\ EntryOf(r).quest = r.quest /\ EntryOf(r).inst = r.inst
           /\ EntryOf(r).ready = Complete(r)
BY DEF EntryOf

LEMMA ShowsAdded ==
    ASSUME NEW J, NEW A, Shows(J, A), NEW r, \A s \in A : s.inst # r.inst
    PROVE  Shows(JournalAfter(J, AddMsg(r)), A \cup {r})
<1>1. JournalAfter(J, AddMsg(r)) = J \cup {EntryOf(r)}
  BY DEF JournalAfter, AddMsg
<1>2. \A e \in J : e.inst # r.inst
  BY DEF Shows
<1>3. QED
  BY <1>1, <1>2, EntryFields DEF Shows

LEMMA ShowsRemoved ==
    ASSUME NEW J, NEW A, Shows(J, A), NEW i, NEW m \in {RemoveMsg(i), FinalizeMsg(i)}
    PROVE  Shows(JournalAfter(J, m), {r \in A : r.inst # i})
<1>1. JournalAfter(J, m) = {e \in J : e.inst # i}
  BY DEF JournalAfter, RemoveMsg, FinalizeMsg
<1>2. QED
  BY <1>1 DEF Shows

LEMMA ShowsMoved ==
    ASSUME NEW J, NEW A, Shows(J, A), NEW t,
           \E r \in A : r.quest = t.quest /\ r.inst = t.inst
    PROVE  Shows(JournalAfter(J, ProgressMsg(t)), {r \in A : r.inst # t.inst} \cup {t})
<1> DEFINE K == {e \in J : e.inst # t.inst} \cup {EntryOf(t)}
<1>1. JournalAfter(J, ProgressMsg(t))
        = {IF e.inst = t.inst THEN EntryOf(t) ELSE e : e \in J}
  BY EntryFields DEF JournalAfter, ProgressMsg
<1>2. \E e \in J : e.inst = t.inst
  BY DEF Shows
<1>3. JournalAfter(J, ProgressMsg(t)) = K
  BY <1>1, <1>2
<1>4. Shows(K, {r \in A : r.inst # t.inst} \cup {t})
  BY EntryFields DEF Shows
<1>5. QED
  BY <1>3, <1>4

LEMMA ShowsSpawned ==
    ASSUME NEW J, NEW A, \A r, s \in A : r.inst = s.inst => r = s
    PROVE  Shows(JournalAfter(J, SpawnMsg(A)), A)
<1>1. JournalAfter(J, SpawnMsg(A)) = {EntryOf(r) : r \in A}
  BY DEF JournalAfter, SpawnMsg
<1>2. QED
  BY <1>1, EntryFields DEF Shows

(* Nothing the client is told of: an item objective is refreshed.          *)
LEMMA ShowsRefreshed ==
    ASSUME NEW J, NEW A, Shows(J, A), NEW r \in A, NEW s,
           s.quest = r.quest, s.inst = r.inst,
           Required[r.quest]["item"] = 0 => Complete(s) = Complete(r),
           \A p, q \in A : p.inst = q.inst => p = q
    PROVE  Shows(J, (A \ {r}) \cup {s})
<1>1. ASSUME NEW e \in J
      PROVE  \E p \in (A \ {r}) \cup {s} : p.quest = e.quest /\ p.inst = e.inst
  BY DEF Shows
<1>2. ASSUME NEW p \in (A \ {r}) \cup {s}
      PROVE  \E e \in J : e.quest = p.quest /\ e.inst = p.inst
  BY DEF Shows
<1>3. ASSUME NEW e \in J, Required[e.quest]["item"] = 0,
             NEW p \in (A \ {r}) \cup {s}, p.inst = e.inst
      PROVE  e.ready = Complete(p)
  <2>1. CASE p # s
    BY <1>3, <2>1 DEF Shows
  <2>2. CASE p = s
    <3>1. PICK q \in A : q.quest = e.quest /\ q.inst = e.inst
      BY DEF Shows
    <3>2. q = r
      BY <1>3, <2>2, <3>1
    <3>3. e.ready = Complete(r)
      BY <1>3, <3>1, <3>2 DEF Shows
    <3>4. QED
      BY <1>3, <2>2, <3>1, <3>2, <3>3
  <2>3. QED
    BY <2>1, <2>2
<1>4. QED
  BY <1>1, <1>2, <1>3 DEF Shows

LEMMA SilentMsg ==
    ASSUME NEW J, NEW q, NEW i
    PROVE  JournalAfter(J, OfferMsg(q)) = J /\ JournalAfter(J, TurnInMsg(i)) = J
BY DEF JournalAfter, OfferMsg, TurnInMsg

(* A refresh does not make a quest ready that counts no items.             *)
LEMMA SyncedReady ==
    ASSUME NEW r \in Running, NEW n \in Nat, Required[r.quest]["item"] = 0
    PROVE  Complete(Synced(r, n)) = Complete(r)
<1> DEFINE s == Synced(r, n)
<1>1. /\ s \in Running /\ s.quest = r.quest /\ s.got["kill"] = r.got["kill"]
  BY SyncedType
<1> HIDE DEF s
<1>2. s.got["item"] >= 0 /\ r.got["item"] >= 0
  BY <1>1 DEF Running, Goal
<1>3. Complete(s) <=> s.got["kill"] >= Required[s.quest]["kill"]
  BY <1>1, <1>2 DEF Complete, Goal
<1>4. Complete(r) <=> r.got["kill"] >= Required[r.quest]["kill"]
  BY <1>2 DEF Complete, Goal
<1>5. Complete(s) \in BOOLEAN /\ Complete(r) \in BOOLEAN
  BY DEF Complete
<1>6. Complete(s) <=> Complete(r)
  BY <1>1, <1>3, <1>4
<1>7. QED
  BY <1>5, <1>6 DEF s

LEMMA SetToSeqOnto ==
    ASSUME NEW S, IsFiniteSet(S)
    PROVE  /\ SetToSeq(S) \in Seq(S)
           /\ \A x \in S : \E k \in 1..Len(SetToSeq(S)) : SetToSeq(S)[k] = x
<1> DEFINE n == Cardinality(S)
           f == SetToSeq(S)
<1>1. n \in Nat /\ ExistsBijection(1..n, S)
  BY FS_CardinalityType
<1>2. \E g \in [1..n -> S] : IsInjective(g)
  BY <1>1 DEF ExistsBijection, Bijection, Injection
<1>3. f \in [1..n -> S] /\ IsInjective(f)
  BY <1>2 DEF SetToSeq
<1>4. IsFiniteSet(1..n) /\ Cardinality(1..n) = n
  <2> HIDE DEF n
  <2>1. QED
    BY <1>1, FS_Interval
<1>5. f \in Surjection(1..n, S)
  <2>1. f \in Injection(1..n, S)
    BY <1>3 DEF Injection
  <2> HIDE DEF f
  <2>2. QED
    BY <1>4, <2>1, FS_Injection
<1>6. f \in Seq(S) /\ Len(f) = n
  <2> HIDE DEF n, f
  <2>1. QED
    BY <1>1, <1>3
<1>7. \A x \in S : \E k \in 1..n : f[k] = x
  <2> HIDE DEF n, f
  <2>1. QED
    BY <1>5 DEF Surjection
<1>8. QED
  BY <1>6, <1>7

(* The journal shows the active quests once every answer has arrived.      *)
Traced == online => Shows(Delivered(journal, wire), active)

LEMMA TracedSent ==
    ASSUME Sound, online, NEW msgs \in Seq(Msg), Send(msgs), UNCHANGED journal,
           Shows(Delivered(Delivered(journal, wire), msgs), active')
    PROVE  Traced'
<1>1. wire \in Seq(Msg)
  BY SeqMonotonic DEF Sound, Ripened, Fit
<1>2. Delivered(journal, wire \o msgs) = Delivered(Delivered(journal, wire), msgs)
  BY <1>1, DeliveredConcat
<1>3. Delivered(journal', wire') = Delivered(Delivered(journal, wire), msgs)
  BY <1>2 DEF Send
<1>4. QED
  BY <1>3 DEF Traced

LEMMA TracedOne ==
    ASSUME Sound, online, NEW m \in Msg, Send(<<m>>), UNCHANGED journal,
           Shows(JournalAfter(Delivered(journal, wire), m), active')
    PROVE  Traced'
<1>1. <<m>> \in Seq(Msg)
  OBVIOUS
<1>2. Delivered(Delivered(journal, wire), <<m>>)
          = JournalAfter(Delivered(journal, wire), m)
  BY DeliveredOne
<1>3. Shows(Delivered(Delivered(journal, wire), <<m>>), active')
  BY <1>2
<1>4. QED
  BY <1>1, <1>3, TracedSent

LEMMA TracedQuiet ==
    ASSUME Traced, UNCHANGED <<online, active, wire, journal>>
    PROVE  Traced'
BY DEF Traced

LEMMA AcceptTraced ==
    ASSUME Sound, Traced, online, NEW q \in Quest, AcceptConfirmed(q),
           UNCHANGED <<online, journal>>
    PROVE  Traced'
<1>1. CASE ~Acceptable(q)
  BY <1>1, TracedQuiet DEF AcceptConfirmed
<1>2. CASE Acceptable(q)
  <2> DEFINE fresh == [quest |-> q, inst |-> nextInst, got |-> [g \in Goal |-> 0]]
             r == Synced(fresh, bag)
             J == Delivered(journal, wire)
  <2>1. /\ nextInst <= MaxInst
        /\ active' = active \cup {r} /\ Send(<<AddMsg(r)>>)
    BY <1>2 DEF AcceptConfirmed, InstanceFor
  <2>2. nextInst \in Inst /\ bag \in Nat
    BY <2>1, BoundAssumption DEF Sound, Core, Counted, Inst
  <2>3. fresh \in Running
    BY <2>2 DEF Running
  <2>4. r \in Running /\ r.inst = nextInst
    BY <2>2, <2>3, SyncedType
  <2> HIDE DEF r, J
  <2>5. \A s \in active : s.inst # r.inst
    BY <2>2, <2>4 DEF Sound, Core, Counted, RunsOnce, Running, Inst
  <2>6. Shows(J, active)
    BY DEF Traced, J
  <2>7. Shows(JournalAfter(J, AddMsg(r)), active')
    BY <2>1, <2>5, <2>6, ShowsAdded
  <2>8. AddMsg(r) \in Msg
    BY <2>4, PlainType DEF Plain
  <2>9. QED
    BY <2>1, <2>7, <2>8, TracedOne DEF J
<1>3. QED
  BY <1>1, <1>2

LEMMA PairConcat ==
    ASSUME NEW M, NEW a \in M, NEW b \in M
    PROVE  <<a>> \o <<b>> = <<a, b>>
<1>1. /\ <<a>> \in Seq(M) /\ <<b>> \in Seq(M) /\ <<a, b>> \in Seq(M)
      /\ Len(<<a>>) = 1 /\ Len(<<b>>) = 1 /\ Len(<<a, b>>) = 2
  OBVIOUS
<1>2. <<a>> \o <<b>> \in Seq(M) /\ Len(<<a>> \o <<b>>) = 2
  BY <1>1, ConcatProperties
<1>3. (<<a>> \o <<b>>)[1] = a /\ (<<a>> \o <<b>>)[2] = b
  BY <1>1
<1>4. \A k \in 1..2 : (<<a>> \o <<b>>)[k] = <<a, b>>[k]
  BY <1>3
<1>5. QED
  BY <1>1, <1>2, <1>4, SeqEqual

LEMMA TurnInTraced ==
    ASSUME Sound, Traced, online, NEW i \in Inst, TurnInConfirmed(i),
           UNCHANGED <<online, journal>>
    PROVE  Traced'
<1>1. CASE ActiveInst(i) = {}
  BY <1>1, TracedQuiet DEF TurnInConfirmed
<1>2. CASE ActiveInst(i) # {}
  <2>1. PICK r \in ActiveInst(i) :
            active' = active \ {r} /\ Send(<<FinalizeMsg(i), RemoveMsg(i)>>)
    BY <1>2 DEF TurnInConfirmed
  <2> DEFINE J == Delivered(journal, wire)
             a == FinalizeMsg(i)
             b == RemoveMsg(i)
  <2>2. a \in Msg /\ b \in Msg
    BY PlainType DEF Plain
  <2>3. Shows(J, active)
    BY DEF Traced
  <2>4. a \in {RemoveMsg(i), FinalizeMsg(i)} /\ b \in {RemoveMsg(i), FinalizeMsg(i)}
    OBVIOUS
  <2>5. active' = {s \in {u \in active : u.inst # i} : s.inst # i}
    BY <2>1 DEF ActiveInst, Sound, Core, RunsOnce
  <2> HIDE DEF J, a, b
  <2>6. Shows(JournalAfter(J, a), {u \in active : u.inst # i})
    BY <2>3, <2>4, ShowsRemoved
  <2>7. Shows(JournalAfter(JournalAfter(J, a), b), active')
    BY <2>4, <2>5, <2>6, ShowsRemoved
  <2>8. Delivered(J, <<a, b>>) = JournalAfter(JournalAfter(J, a), b)
    <3>1. <<a>> \in Seq(Msg) /\ <<b>> \in Seq(Msg)
      BY <2>2
    <3>2. <<a>> \o <<b>> = <<a, b>>
      BY <2>2, PairConcat
    <3>3. \A v, w \in Seq(Msg) : Delivered(J, v \o w) = Delivered(Delivered(J, v), w)
      BY DeliveredConcat
    <3>4. Delivered(J, <<a>> \o <<b>>) = Delivered(Delivered(J, <<a>>), <<b>>)
      BY <3>1, <3>3
    <3>5. QED
      BY <3>2, <3>4, DeliveredOne
  <2>9. <<a, b>> \in Seq(Msg)
    BY <2>2
  <2>10. Send(<<a, b>>)
    BY <2>1 DEF a, b
  <2>11. Shows(Delivered(J, <<a, b>>), active')
    BY <2>7, <2>8
  <2>12. QED
    BY <2>9, <2>10, <2>11, TracedSent DEF J
<1>3. QED
  BY <1>1, <1>2

LEMMA AbandonTraced ==
    ASSUME Sound, Traced, online, NEW i \in Inst, HandleAbandon(i),
           UNCHANGED <<online, journal>>
    PROVE  Traced'
<1>1. CASE i = teardown
  BY <1>1, TracedQuiet DEF HandleAbandon
<1>2. CASE i # teardown
  <2> DEFINE J == Delivered(journal, wire)
             m == RemoveMsg(i)
  <2>1. active' = {r \in active : r.inst # i} /\ Send(<<m>>)
    BY <1>2 DEF HandleAbandon, Abandoned, ActiveInst
  <2>2. m \in Msg /\ m \in {RemoveMsg(i), FinalizeMsg(i)}
    BY PlainType DEF Plain
  <2>3. Shows(J, active)
    BY DEF Traced
  <2> HIDE DEF J, m
  <2>4. Shows(JournalAfter(J, m), active')
    BY <2>1, <2>2, <2>3, ShowsRemoved
  <2>5. QED
    BY <2>1, <2>2, <2>4, TracedOne DEF J
<1>3. QED
  BY <1>1, <1>2

(* A turn-in dialog is shown, or nothing, with the objective refreshed.    *)
LEMMA RefreshTraced ==
    ASSUME Sound, Traced, online, NEW r \in active,
           active' = (active \ {r}) \cup {Synced(r, bag)},
           Send(<<TurnInMsg(r.inst)>>) \/ UNCHANGED wire,
           UNCHANGED <<online, journal>>
    PROVE  Traced'
<1> DEFINE J == Delivered(journal, wire)
           s == Synced(r, bag)
           m == TurnInMsg(r.inst)
<1>1. r \in Running /\ bag \in Nat
  BY BoundAssumption DEF Sound, Core, Counted
<1>2. /\ s.quest = r.quest /\ s.inst = r.inst
      /\ Required[r.quest]["item"] = 0 => Complete(s) = Complete(r)
  BY <1>1, SyncedType, SyncedReady
<1>3. \A p, q \in active : p.inst = q.inst => p = q
  BY DEF Sound, Core, RunsOnce
<1>4. Shows(J, active)
  BY DEF Traced
<1>5. active' = (active \ {r}) \cup {s}
  OBVIOUS
<1>6. m \in Msg
  BY <1>1 DEF TurnInMsg, Msg, Running
<1>7. JournalAfter(J, m) = J
  BY SilentMsg
<1>8. Send(<<m>>) \/ UNCHANGED wire
  OBVIOUS
<1> HIDE DEF J, s, m
<1>9. Shows(J, active')
  BY <1>2, <1>3, <1>4, <1>5, ShowsRefreshed
<1>10. CASE Send(<<m>>)
  <2>1. Shows(JournalAfter(J, m), active')
    BY <1>7, <1>9
  <2>2. QED
    BY <1>6, <1>10, <2>1, TracedOne DEF J
<1>11. CASE UNCHANGED wire
  BY <1>9, <1>11 DEF Traced, J
<1>12. QED
  BY <1>8, <1>10, <1>11

(* The quests after the first k of the answers in msgs.                    *)
MovedOn(next, msgs, k) ==
    {IF \E j \in 1..k : msgs[j] = ProgressMsg(next[r]) THEN next[r] ELSE r : r \in active}

(* One answer for each quest that moves on, in whatever order.             *)
LEMMA ShowsMovedOn ==
    ASSUME \A r, s \in active : r.inst = s.inst => r = s,
           NEW next, \A r \in active : next[r].quest = r.quest /\ next[r].inst = r.inst,
           NEW J, Shows(J, active), NEW msgs, NEW n \in Nat, Len(msgs) = n,
           \A k \in 1..n : \E r \in active : msgs[k] = ProgressMsg(next[r])
    PROVE  Shows(Delivered(J, msgs), MovedOn(next, msgs, n))
<1>1. PICK f : Lists(f, J, msgs, n)
  BY ListExists
<1>2. f = [k \in 0..n |-> IF k = 0 THEN J ELSE JournalAfter(f[k - 1], msgs[k])]
  BY <1>1 DEF Lists
<1> DEFINE I == {k \in 0..n : ~ Shows(f[k], MovedOn(next, msgs, k))}
<1>3. ASSUME NEW k \in I, \A i \in I : k <= i
      PROVE  FALSE
  <2>1. k \in 0..n /\ ~ Shows(f[k], MovedOn(next, msgs, k))
    OBVIOUS
  <2>2. CASE k = 0
    <3>1. f[0] = J
      BY <1>2, <2>1, <2>2
    <3>2. MovedOn(next, msgs, 0) = active
      <4>1. 1..0 = {}
        OBVIOUS
      <4>2. QED
        BY <4>1 DEF MovedOn
    <3>3. QED
      BY <2>1, <2>2, <3>1, <3>2
  <2>3. CASE k # 0
    <3> DEFINE A == MovedOn(next, msgs, k - 1)
    <3>1. k \in 1..n /\ k - 1 \in 0..n /\ k - 1 \notin I
      BY <1>3, <2>1, <2>3
    <3>2. Shows(f[k - 1], A)
      BY <3>1
    <3>3. f[k] = JournalAfter(f[k - 1], msgs[k])
      BY <1>2, <2>1, <2>3
    <3>4. PICK s \in active : msgs[k] = ProgressMsg(next[s])
      BY <3>1
    <3> DEFINE t == next[s]
    <3>5. t.quest = s.quest /\ t.inst = s.inst
      OBVIOUS
    <3>6. \A r \in active : ProgressMsg(next[r]) = ProgressMsg(t) => r = s
      <4>1. ASSUME NEW r \in active, ProgressMsg(next[r]) = ProgressMsg(t)
            PROVE  r = s
        <5>1. EntryOf(next[r]) = EntryOf(t)
          BY <4>1 DEF ProgressMsg
        <5>2. next[r].inst = t.inst
          BY <5>1, EntryFields
        <5>3. QED
          BY <5>2
      <4>2. QED
        BY <4>1
    <3>7. A = {IF \E j \in 1..(k - 1) : msgs[j] = ProgressMsg(next[r])
               THEN next[r] ELSE r : r \in active}
      BY DEF MovedOn
    <3>8. MovedOn(next, msgs, k)
            = {IF \E j \in 1..k : msgs[j] = ProgressMsg(next[r])
               THEN next[r] ELSE r : r \in active}
      BY DEF MovedOn
    <3>9. ASSUME NEW r \in active, r # s
          PROVE  (\E j \in 1..k : msgs[j] = ProgressMsg(next[r]))
                     <=> (\E j \in 1..(k - 1) : msgs[j] = ProgressMsg(next[r]))
      <4>1. msgs[k] # ProgressMsg(next[r])
        BY <3>4, <3>6, <3>9
      <4>2. \A j \in 1..k : j # k => j \in 1..(k - 1)
        BY <3>1
      <4>3. \A j \in 1..(k - 1) : j \in 1..k
        BY <3>1
      <4>4. QED
        BY <4>1, <4>2, <4>3
    <3>10. \E j \in 1..k : msgs[j] = ProgressMsg(next[s])
      <4>1. k \in 1..k
        BY <3>1
      <4>2. QED
        BY <3>4, <4>1
    <3> DEFINE B == MovedOn(next, msgs, k)
               x == [r \in active |-> IF \E j \in 1..(k - 1) : msgs[j] = ProgressMsg(next[r])
                                      THEN next[r] ELSE r]
               y == [r \in active |-> IF \E j \in 1..k : msgs[j] = ProgressMsg(next[r])
                                      THEN next[r] ELSE r]
    <3>11. A = {x[r] : r \in active} /\ B = {y[r] : r \in active}
      BY <3>7, <3>8
    <3>12. /\ y[s] = t
           /\ \A r \in active : r # s => y[r] = x[r]
           /\ \A r \in active : x[r].inst = r.inst /\ x[r].quest = r.quest
      BY <3>9, <3>10
    <3> HIDE DEF A, B, x, y, t
    <3>13. B = {r \in A : r.inst # t.inst} \cup {t}
      <4>1. ASSUME NEW b \in B PROVE b \in {r \in A : r.inst # t.inst} \cup {t}
        <5>1. PICK r \in active : b = y[r]
          BY <3>11
        <5>2. QED
          BY <3>5, <3>11, <3>12, <5>1
      <4>2. ASSUME NEW a \in A, a.inst # t.inst PROVE a \in B
        <5>1. PICK r \in active : a = x[r]
          BY <3>11
        <5>2. r # s
          BY <3>5, <3>12, <4>2, <5>1
        <5>3. QED
          BY <3>11, <3>12, <5>1, <5>2
      <4>3. t \in B
        BY <3>11, <3>12
      <4>4. QED
        BY <4>1, <4>2, <4>3
    <3>14. \E r \in A : r.quest = t.quest /\ r.inst = t.inst
      BY <3>5, <3>11, <3>12
    <3>15. Shows(JournalAfter(f[k - 1], ProgressMsg(t)), B)
      BY <3>2, <3>13, <3>14, ShowsMoved
    <3>16. QED
      BY <2>1, <3>3, <3>4, <3>15 DEF B, t
  <2>4. QED
    BY <2>2, <2>3
<1>4. I \in SUBSET Nat
  OBVIOUS
<1> HIDE DEF I
<1>5. I = {}
  BY <1>3, <1>4, HasLeast
<1>6. Shows(f[n], MovedOn(next, msgs, n))
  BY <1>5 DEF I
<1>7. Delivered(J, msgs) = f[n]
  BY <1>1, DeliveredIsLast
<1>8. QED
  BY <1>6, <1>7

LEMMA ProgressTraced ==
    ASSUME Sound, Traced, online, NEW next,
           \A r \in active : /\ next[r] \in Running
                             /\ next[r].quest = r.quest /\ next[r].inst = r.inst,
           Progressed(next), UNCHANGED <<online, journal>>
    PROVE  Traced'
<1> DEFINE changed == {r \in active : next[r] # r}
           S == {ProgressMsg(next[r]) : r \in changed}
           J == Delivered(journal, wire)
           msgs == SetToSeq(S)
<1>1. active' = {next[r] : r \in active} /\ Send(msgs)
  BY DEF Progressed
<1>2. IsFiniteSet(S) /\ S \subseteq Msg
  <2> DEFINE f == [r \in changed |-> ProgressMsg(next[r])]
  <2>1. S = {f[r] : r \in changed} /\ f \in [changed -> {f[r] : r \in changed}]
    OBVIOUS
  <2>2. IsFiniteSet(changed)
    BY FS_Subset DEF Sound, Core
  <2>3. S \subseteq Msg
    BY PlainType DEF Plain
  <2> HIDE DEF f, S, changed
  <2>4. QED
    BY <2>1, <2>2, <2>3, ImageFinite
<1>3. /\ \A s \in S : \E r \in active : s = ProgressMsg(next[r])
      /\ \A r \in active : next[r] = r \/ ProgressMsg(next[r]) \in S
  OBVIOUS
<1> HIDE DEF S
<1>4. msgs \in Seq(S) /\ \A s \in S : \E k \in 1..Len(msgs) : msgs[k] = s
  BY <1>2, SetToSeqOnto
<1> HIDE DEF msgs, J
<1>5. msgs \in Seq(Msg) /\ Len(msgs) \in Nat /\ \A k \in 1..Len(msgs) : msgs[k] \in S
  BY <1>2, <1>4, SeqMonotonic, ElementOfSeq, LenProperties
<1>6. \A r, s \in active : r.inst = s.inst => r = s
  BY DEF Sound, Core, RunsOnce
<1>7. \A k \in 1..Len(msgs) : \E r \in active : msgs[k] = ProgressMsg(next[r])
  BY <1>3, <1>5
<1>8. Shows(J, active)
  BY DEF Traced, J
<1>9. Shows(Delivered(J, msgs), MovedOn(next, msgs, Len(msgs)))
  BY <1>5, <1>6, <1>7, <1>8, ShowsMovedOn
<1>10. MovedOn(next, msgs, Len(msgs)) = active'
  <2> DEFINE x == [r \in active |->
                     IF \E j \in 1..Len(msgs) : msgs[j] = ProgressMsg(next[r])
                     THEN next[r] ELSE r]
  <2>1. MovedOn(next, msgs, Len(msgs)) = {x[r] : r \in active}
    BY DEF MovedOn
  <2>2. \A r \in active : x[r] = next[r]
    BY <1>3, <1>4
  <2> HIDE DEF x
  <2>3. QED
    BY <1>1, <2>1, <2>2
<1>11. Shows(Delivered(J, msgs), active')
  BY <1>9, <1>10
<1>12. QED
  BY <1>1, <1>5, <1>11, TracedSent DEF J

LEMMA ReceiveTraced ==
    ASSUME Sound, Traced, Receive
    PROVE  Traced'
<1> DEFINE m == Head(wire)
           w == Tail(wire)
<1>1. /\ wire # <<>> /\ wire \in Seq(Msg)
      /\ wire' = w /\ journal' = JournalAfter(journal, m)
      /\ UNCHANGED <<online, active>>
  BY SeqMonotonic DEF Receive, serverVars, Sound, Ripened, Fit
<1>2. m \in Msg /\ w \in Seq(Msg)
  BY <1>1, HeadTailProperties
<1>3. wire = <<m>> \o w
  <2>1. <<m>> \in Seq(Msg) /\ Len(<<m>>) = 1 /\ <<m>>[1] = wire[1]
    BY <1>1, <1>2
  <2>2. <<m>> \o w \in Seq(Msg) /\ Len(<<m>> \o w) = 1 + Len(w)
    BY <1>2, <2>1, ConcatProperties
  <2>3. Len(wire) \in Nat \ {0} /\ Len(w) = Len(wire) - 1
    BY <1>1, EmptySeq, HeadTailProperties
  <2>4. ASSUME NEW k \in 1..Len(wire) PROVE (<<m>> \o w)[k] = wire[k]
    <3>1. k \in 1..(Len(<<m>>) + Len(w))
      BY <2>1, <2>3
    <3>2. (<<m>> \o w)[k] = IF k <= 1 THEN <<m>>[k] ELSE w[k - 1]
      BY <1>2, <2>1, <3>1, ConcatProperties
    <3>3. CASE k = 1
      BY <2>1, <3>2, <3>3
    <3>4. CASE k # 1
      <4>1. ~(k <= 1) /\ k - 1 \in 1..Len(w) /\ (k - 1) + 1 = k
        BY <2>3, <3>4
      <4>2. w[k - 1] = wire[(k - 1) + 1]
        BY <1>1, <4>1, HeadTailProperties
      <4>3. QED
        BY <3>2, <4>1, <4>2
    <3>5. QED
      BY <3>3, <3>4
  <2>5. Len(<<m>> \o w) = Len(wire)
    BY <2>2, <2>3
  <2> HIDE DEF m, w
  <2>6. QED
    BY <1>1, <2>2, <2>4, <2>5, SeqEqual
<1> HIDE DEF m, w
<1>4. Delivered(journal, wire) = Delivered(JournalAfter(journal, m), w)
  <2>1. <<m>> \in Seq(Msg)
    BY <1>2
  <2>2. \A v, u \in Seq(Msg) :
            Delivered(journal, v \o u) = Delivered(Delivered(journal, v), u)
    BY DeliveredConcat
  <2>3. Delivered(journal, <<m>> \o w) = Delivered(Delivered(journal, <<m>>), w)
    BY <1>2, <2>1, <2>2
  <2>4. QED
    BY <1>3, <2>3, DeliveredOne
<1>5. Delivered(journal', wire') = Delivered(journal, wire)
  BY <1>1, <1>4
<1>6. QED
  BY <1>1, <1>5 DEF Traced

LEMMA QueryOfferTraced ==
    ASSUME Sound, Traced, NEW q \in Quest, QueryOffer(q)
    PROVE  Traced'
<1>1. online /\ UNCHANGED <<online, journal>>
  BY DEF QueryOffer, Click, clientVars
<1>2. CASE AcceptConfirmed(q)
  BY <1>1, <1>2, AcceptTraced
<1>3. CASE Send(<<OfferMsg(q)>>) /\ UNCHANGED active
  <2> DEFINE m == OfferMsg(q)
             J == Delivered(journal, wire)
  <2>1. m \in Msg /\ JournalAfter(J, m) = J
    BY PlainType, SilentMsg DEF Plain
  <2>2. Send(<<m>>) /\ Shows(J, active')
    BY <1>1, <1>3 DEF Traced
  <2> HIDE DEF m
  <2>3. QED
    BY <1>1, <2>1, <2>2, TracedOne
<1>4. ASSUME NEW r \in ActiveQuest(q),
             active' = (active \ {r}) \cup {Synced(r, bag)},
             Send(<<TurnInMsg(r.inst)>>) \/ UNCHANGED wire
      PROVE  Traced'
  <2>1. r \in active
    BY DEF ActiveQuest
  <2>2. QED
    BY <1>1, <1>4, <2>1, RefreshTraced
<1>5. QED
  BY <1>2, <1>3, <1>4 DEF QueryOffer

LEMMA ClickTraced ==
    ASSUME Sound, Traced,
           \/ \E i \in Inst : ViewActive(i) \/ ClickAbandon(i)
           \/ SendTeardown \/ ClickAccept \/ ClickComplete
    PROVE  Traced'
<1>1. ASSUME NEW i \in Inst, ViewActive(i) PROVE Traced'
  <2>1. online /\ UNCHANGED <<online, journal>>
    BY <1>1 DEF ViewActive, Click, clientVars
  <2>2. CASE UNCHANGED <<active, wire>>
    BY <2>1, <2>2, TracedQuiet
  <2>3. ASSUME NEW r \in ActiveInst(i), ShowTurnIn(r) PROVE Traced'
    <3>1. /\ r \in active /\ active' = (active \ {r}) \cup {Synced(r, bag)}
          /\ Send(<<TurnInMsg(r.inst)>>) \/ UNCHANGED wire
      BY <2>3 DEF ActiveInst, ShowTurnIn
    <3>2. QED
      BY <2>1, <3>1, RefreshTraced
  <2>4. QED
    BY <1>1, <2>2, <2>3 DEF ViewActive
<1>2. ASSUME NEW i \in Inst, ClickAbandon(i) PROVE Traced'
  BY <1>2, AbandonTraced DEF ClickAbandon, Click, clientVars
<1>3. CASE SendTeardown
  <2>1. online /\ UNCHANGED <<online, journal>>
    BY <1>3 DEF SendTeardown, Sound, Offline, NoneOwed
  <2>2. owed.inst \in Inst /\ HandleAbandon(owed.inst)
    BY <1>3 DEF SendTeardown, Sound, Shown, Owed, NoneOwed
  <2>3. QED
    BY <2>1, <2>2, AbandonTraced
<1>4. CASE ClickAccept
  <2>1. online /\ UNCHANGED <<online, journal>>
    BY <1>4 DEF ClickAccept, Click
  <2>2. CASE pendQuest # NoQuest /\ AcceptConfirmed(pendQuest)
    <3>1. pendQuest \in Quest
      BY <2>2 DEF Sound, Shown
    <3>2. QED
      BY <2>1, <2>2, <3>1, AcceptTraced
  <2>3. CASE pendTurnIn # 0 /\ TurnInConfirmed(pendTurnIn)
    <3>1. pendTurnIn \in Inst
      BY <2>3, SoundFacts
    <3>2. QED
      BY <2>1, <2>3, <3>1, TurnInTraced
  <2>4. CASE UNCHANGED <<active, wire>>
    BY <2>1, <2>4, TracedQuiet
  <2>5. QED
    BY <1>4, <2>2, <2>3, <2>4 DEF ClickAccept
<1>5. CASE ClickComplete
  <2>1. online /\ UNCHANGED <<online, journal>> /\ TurnInConfirmed(dialog.inst)
    BY <1>5 DEF ClickComplete, Click
  <2>2. dialog.inst \in Inst
    BY <1>5, SoundFacts DEF ClickComplete
  <2>3. QED
    BY <2>1, <2>2, TurnInTraced
<1>6. QED
  BY <1>1, <1>2, <1>3, <1>4, <1>5

LEMMA GainTraced ==
    ASSUME Sound, Traced, Kill \/ PickUp
    PROVE  Traced'
<1>1. \A r \in active : r \in Running /\ \A g \in Goal : r.got[g] <= Required[r.quest][g]
  BY DEF Sound, Core, Counted
<1>2. CASE Kill
  <2> DEFINE next == [r \in active |-> Killed(r)]
  <2>1. online /\ Progressed(next) /\ UNCHANGED <<online, journal>>
    BY <1>2 DEF Kill, clientVars
  <2>2. \A r \in active : /\ next[r] \in Running
                          /\ next[r].quest = r.quest /\ next[r].inst = r.inst
    BY <1>1, KilledType
  <2> HIDE DEF next
  <2>3. QED
    BY <2>1, <2>2, ProgressTraced
<1>3. CASE PickUp
  <2> DEFINE next == [r \in active |-> Synced(r, bag + 1)]
  <2>1. online /\ Progressed(next) /\ UNCHANGED <<online, journal>>
    BY <1>3 DEF PickUp, clientVars
  <2>2. bag + 1 \in Nat
    BY SoundFacts
  <2>3. \A r \in active : /\ next[r] \in Running
                          /\ next[r].quest = r.quest /\ next[r].inst = r.inst
    BY <1>1, <2>2, SyncedType
  <2> HIDE DEF next
  <2>4. QED
    BY <2>1, <2>3, ProgressTraced
<1>4. QED
  BY <1>2, <1>3

(* The journal is built anew.                                              *)
LEMMA SpawnTraced ==
    ASSUME Sound, Sound', Traced, EnterZone \/ Login
    PROVE  Traced'
<1>1. \A r, s \in active' : r.inst = s.inst => r = s
  BY DEF Sound, Core, RunsOnce
<1>2. CASE EnterZone
  <2> DEFINE m == SpawnMsg(active)
             J == Delivered(journal, wire)
  <2>1. online /\ Send(<<m>>) /\ UNCHANGED <<online, journal, active>>
    BY <1>2 DEF EnterZone, serverVars, clientVars
  <2>2. m \in Msg
    <3>1. active \in SUBSET Running
      BY DEF Sound, Core, Counted
    <3>2. QED
      BY <3>1, PlainType DEF Plain
  <2>3. Shows(JournalAfter(J, m), active')
    BY <1>1, <2>1, ShowsSpawned
  <2> HIDE DEF m, J
  <2>4. QED
    BY <2>1, <2>2, <2>3, TracedOne DEF J
<1>3. CASE Login
  <2>1. PICK A : A = active'
    OBVIOUS
  <2> DEFINE m == SpawnMsg(A)
  <2>2. wire' = <<m>>
    BY <1>3, <2>1 DEF Login
  <2>3. Shows(JournalAfter(journal', m), A)
    BY <1>1, <2>1, ShowsSpawned
  <2> HIDE DEF m
  <2>4. Delivered(journal', wire') = JournalAfter(journal', m)
    BY <2>2, DeliveredOne
  <2>5. QED
    BY <2>1, <2>3, <2>4 DEF Traced
<1>4. QED
  BY <1>2, <1>3

LEMMA StepTraced == Sound /\ Traced /\ Sound' /\ [Next]_vars => Traced'
<1> SUFFICES ASSUME Sound, Traced, Sound', [Next]_vars PROVE Traced'
  OBVIOUS
<1>1. CASE Logout
  BY <1>1 DEF Logout, Traced
<1>2. CASE Login \/ EnterZone
  BY <1>2, SpawnTraced
<1>3. CASE Receive
  BY <1>3, ReceiveTraced
<1>4. CASE \E q \in Quest : QueryOffer(q)
  BY <1>4, QueryOfferTraced
<1>5. CASE \/ \E i \in Inst : ViewActive(i) \/ ClickAbandon(i)
           \/ SendTeardown \/ ClickAccept \/ ClickComplete
  BY <1>5, ClickTraced
<1>6. CASE Kill \/ PickUp
  BY <1>6, GainTraced
<1>7. CASE CloseOffer \/ ClickBack \/ SendClose \/ TakeOut \/ UNCHANGED vars
  <2>1. UNCHANGED <<online, active, wire, journal>>
    BY <1>7 DEF CloseOffer, ClickBack, SendClose, TakeOut, vars, serverVars, clientVars
  <2>2. QED
    BY <2>1, TracedQuiet
<1>8. QED
  BY <1>1, <1>2, <1>3, <1>4, <1>5, <1>6, <1>7 DEF Next

-----------------------------------------------------------------------------
(* A client that waits for its answers *)

(* The answers that may be on their way while turn-in dialogs are closed.  *)
Tidy == {m \in Msg : m.op = "turnin" => m.inst = turnInDlg /\ owed = NoneOwed}

(* The 0x03 that is still to come names the dialog the server has seen     *)
(* opened and closed, or a quest that is gone.                             *)
Orderly ==
    ~hasty =>
        /\ wire \in Seq(Tidy)
        /\ dialog.kind = "turnin" => dialog.inst = turnInDlg /\ owed = NoneOwed
        /\ owed.step = "close" => turnInDlg = owed.inst \/ ActiveInst(owed.inst) = {}
        /\ owed.step = "teardown" => teardown = owed.inst \/ ActiveInst(owed.inst) = {}

(* Nothing is sent, or answers that show no turn-in dialog.                *)
SendsPlain == UNCHANGED wire \/ \E msgs \in Seq(Plain) : Send(msgs)

LEMMA PlainTidy == Plain \subseteq Tidy
BY DEF Plain, Tidy

(* Whatever is sent besides turn-in dialogs leaves the order as it is.     *)
LEMMA OrderlySent ==
    ASSUME wire \in Seq(Tidy), UNCHANGED <<turnInDlg, owed>>,
           SendsPlain
    PROVE  wire' \in Seq(Tidy')
<1>1. Tidy' = Tidy
  BY DEF Tidy
<1>2. ASSUME NEW msgs \in Seq(Plain), Send(msgs) PROVE wire' \in Seq(Tidy)
  <2>1. msgs \in Seq(Tidy)
    BY PlainTidy, SeqMonotonic
  <2>2. QED
    BY <1>2, <2>1, ConcatProperties DEF Send
<1>3. QED
  BY <1>1, <1>2 DEF SendsPlain

(* An answer to a click of a client that has seen all the others.          *)
LEMMA OrderlyAnswer ==
    ASSUME wire = <<>>, SendsPlain
    PROVE  wire' \in Seq(Tidy')
<1>1. Plain \subseteq Tidy'
  BY DEF Plain, Tidy
<1>2. wire \in Seq(Tidy')
  OBVIOUS
<1>3. ASSUME NEW msgs \in Seq(Plain), Send(msgs) PROVE wire' \in Seq(Tidy')
  <2>1. msgs \in Seq(Tidy')
    BY <1>1, SeqMonotonic
  <2>2. QED
    BY <1>2, <1>3, <2>1, ConcatProperties DEF Send
<1>4. QED
  BY <1>2, <1>3 DEF SendsPlain

LEMMA AcceptSends ==
    ASSUME Sound, NEW q \in Quest, AcceptConfirmed(q)
    PROVE  SendsPlain
<1>1. CASE ~Acceptable(q)
  BY <1>1 DEF AcceptConfirmed, SendsPlain
<1>2. CASE Acceptable(q)
  <2> DEFINE fresh == [quest |-> q, inst |-> nextInst, got |-> [g \in Goal |-> 0]]
             r == Synced(fresh, bag)
  <2>1. nextInst <= MaxInst /\ Send(<<AddMsg(r)>>)
    BY <1>2 DEF AcceptConfirmed, InstanceFor
  <2>2. nextInst \in Inst /\ bag \in Nat
    BY <2>1, BoundAssumption DEF Sound, Core, Counted, Inst
  <2>3. fresh \in Running
    BY <2>2 DEF Running
  <2>4. r \in Running
    BY <2>2, <2>3, SyncedType
  <2> HIDE DEF r
  <2>5. AddMsg(r) \in Plain
    BY <2>4, PlainType
  <2>6. <<AddMsg(r)>> \in Seq(Plain)
    <3> HIDE DEF AddMsg
    <3>1. QED
      BY <2>5
  <2>7. QED
    BY <2>1, <2>6 DEF SendsPlain
<1>3. QED
  BY <1>1, <1>2

LEMMA TurnInSends ==
    ASSUME Sound, NEW i \in Inst, TurnInConfirmed(i)
    PROVE  SendsPlain /\ \A r \in active' : r.inst # i
<1>1. CASE ActiveInst(i) = {}
  BY <1>1 DEF TurnInConfirmed, SendsPlain, ActiveInst
<1>2. CASE ActiveInst(i) # {}
  <2>1. PICK r \in ActiveInst(i) :
            active' = active \ {r} /\ Send(<<FinalizeMsg(i), RemoveMsg(i)>>)
    BY <1>2 DEF TurnInConfirmed
  <2>2. FinalizeMsg(i) \in Plain /\ RemoveMsg(i) \in Plain
    BY PlainType
  <2>3. <<FinalizeMsg(i), RemoveMsg(i)>> \in Seq(Plain)
    <3> HIDE DEF FinalizeMsg, RemoveMsg
    <3>1. QED
      BY <2>2
  <2>4. \A s \in active' : s.inst # i
    BY <2>1 DEF ActiveInst, Sound, Core, RunsOnce
  <2>5. QED
    BY <2>1, <2>3, <2>4 DEF SendsPlain
<1>3. QED
  BY <1>1, <1>2

LEMMA AbandonSends ==
    ASSUME NEW i \in Inst, HandleAbandon(i)
    PROVE  SendsPlain /\ active' \subseteq active
<1>1. CASE i = teardown
  BY <1>1 DEF HandleAbandon, SendsPlain
<1>2. CASE i # teardown
  <2>1. active' \subseteq active /\ Send(<<RemoveMsg(i)>>)
    BY <1>2 DEF HandleAbandon, Abandoned
  <2>2. RemoveMsg(i) \in Plain
    BY PlainType
  <2>3. <<RemoveMsg(i)>> \in Seq(Plain)
    <3> HIDE DEF RemoveMsg
    <3>1. QED
      BY <2>2
  <2>4. QED
    BY <2>1, <2>3 DEF SendsPlain
<1>3. QED
  BY <1>1, <1>2

LEMMA ProgressSends ==
    ASSUME Sound, NEW next,
           \A r \in active : /\ next[r] \in Running
                             /\ next[r].quest = r.quest /\ next[r].inst = r.inst,
           Progressed(next)
    PROVE  SendsPlain /\ \A s \in active' : \E r \in active : r.inst = s.inst
<1> DEFINE changed == {r \in active : next[r] # r}
           S == {ProgressMsg(next[r]) : r \in changed}
<1>1. active' = {next[r] : r \in active} /\ Send(SetToSeq(S))
  BY DEF Progressed
<1>2. IsFiniteSet(S) /\ S \subseteq Plain
  <2> DEFINE f == [r \in changed |-> ProgressMsg(next[r])]
  <2>1. S = {f[r] : r \in changed} /\ f \in [changed -> {f[r] : r \in changed}]
    OBVIOUS
  <2>2. IsFiniteSet(changed)
    BY FS_Subset DEF Sound, Core
  <2>3. S \subseteq Plain
    BY PlainType
  <2> HIDE DEF f, S, changed
  <2>4. QED
    BY <2>1, <2>2, <2>3, ImageFinite
<1> HIDE DEF S
<1>3. SetToSeq(S) \in Seq(Plain)
  BY <1>2, SetToSeqType, SeqMonotonic
<1>4. QED
  BY <1>1, <1>3 DEF SendsPlain

(* A step that shows no turn-in dialog and moves none along.               *)
LEMMA OrderlyCalm ==
    ASSUME Orderly, wire \in Seq(Tidy) => SendsPlain, ~hasty' => ~hasty,
           UNCHANGED <<turnInDlg, owed>>,
           teardown' = teardown \/ owed = NoneOwed,
           dialog' = dialog \/ dialog'.kind # "turnin",
           \A s \in active' : \E r \in active : r.inst = s.inst
    PROVE  Orderly'
<1> SUFFICES ASSUME ~hasty'
             PROVE  /\ wire' \in Seq(Tidy')
                    /\ dialog'.kind = "turnin" =>
                           dialog'.inst = turnInDlg' /\ owed' = NoneOwed
                    /\ owed'.step = "close" =>
                           turnInDlg' = owed'.inst \/ ActiveInst(owed.inst)' = {}
                    /\ owed'.step = "teardown" =>
                           teardown' = owed'.inst \/ ActiveInst(owed.inst)' = {}
  BY DEF Orderly
<1>1. /\ wire \in Seq(Tidy)
      /\ dialog.kind = "turnin" => dialog.inst = turnInDlg /\ owed = NoneOwed
      /\ owed.step = "close" => turnInDlg = owed.inst \/ ActiveInst(owed.inst) = {}
      /\ owed.step = "teardown" => teardown = owed.inst \/ ActiveInst(owed.inst) = {}
  BY DEF Orderly
<1>2. wire' \in Seq(Tidy')
  BY <1>1, OrderlySent DEF SendsPlain
<1>3. ASSUME ActiveInst(owed.inst) = {} PROVE ActiveInst(owed.inst)' = {}
  BY <1>3 DEF ActiveInst
<1>4. QED
  BY <1>1, <1>2, <1>3 DEF NoneOwed

(* A click of a client that has seen every answer.                         *)
LEMMA ClickSeen ==
    ASSUME Click, ~hasty'
    PROVE  online /\ owed = NoneOwed /\ wire = <<>> /\ ~hasty
BY DEF Click

(* Such a click leaves nothing owed, unless it closes a turn-in dialog.    *)
LEMMA OrderlyClick ==
    ASSUME Click, SendsPlain, UNCHANGED owed, dialog'.kind # "turnin"
    PROVE  Orderly'
<1>1. CASE hasty'
  BY <1>1 DEF Orderly
<1>2. CASE ~hasty'
  <2>1. owed' = NoneOwed /\ wire = <<>>
    BY <1>2, ClickSeen
  <2>2. wire' \in Seq(Tidy')
    BY <2>1, OrderlyAnswer
  <2>3. QED
    BY <2>1, <2>2 DEF Orderly, NoneOwed
<1>3. QED
  BY <1>1, <1>2

(* A turn-in dialog is answered to a click that remembers it.              *)
LEMMA OrderlyShown ==
    ASSUME Click, NEW i \in Inst, Send(<<TurnInMsg(i)>>), turnInDlg' = i,
           UNCHANGED owed, dialog'.kind # "turnin"
    PROVE  Orderly'
<1>1. CASE hasty'
  BY <1>1 DEF Orderly
<1>2. CASE ~hasty'
  <2>1. owed' = NoneOwed /\ wire = <<>>
    BY <1>2, ClickSeen
  <2>2. TurnInMsg(i) \in Tidy'
    BY <2>1 DEF Tidy, TurnInMsg, Msg
  <2>3. wire' \in Seq(Tidy')
    <3>1. <<TurnInMsg(i)>> \in Seq(Tidy') /\ <<>> \in Seq(Tidy')
      <4> HIDE DEF TurnInMsg
      <4>1. QED
        BY <2>2
    <3>2. wire' = <<>> \o <<TurnInMsg(i)>>
      BY <2>1 DEF Send
    <3>3. QED
      BY <3>1, <3>2, ConcatProperties
  <2>4. QED
    BY <2>1, <2>3 DEF Orderly, NoneOwed
<1>3. QED
  BY <1>1, <1>2

LEMMA ReceiveOrderly ==
    ASSUME Sound, Orderly, Receive
    PROVE  Orderly'
<1> SUFFICES ASSUME ~hasty' PROVE Orderly'
  BY DEF Orderly
<1>1. /\ wire # <<>> /\ wire \in Seq(Tidy) /\ wire' = Tail(wire)
      /\ dialog' = DialogAfter(Head(wire))
      /\ UNCHANGED <<active, turnInDlg, teardown, owed>>
  BY DEF Receive, Orderly, serverVars
<1>2. Head(wire) \in Tidy /\ wire' \in Seq(Tidy)
  BY <1>1, HeadTailProperties
<1>3. Tidy' = Tidy
  BY <1>1 DEF Tidy
<1>4. /\ dialog.kind = "turnin" => dialog.inst = turnInDlg /\ owed = NoneOwed
      /\ owed.step = "close" => turnInDlg = owed.inst \/ ActiveInst(owed.inst) = {}
      /\ owed.step = "teardown" => teardown = owed.inst \/ ActiveInst(owed.inst) = {}
  BY DEF Orderly, Receive
<1> DEFINE m == Head(wire)
<1>5. m \in Tidy
  BY <1>2
<1> HIDE DEF m
<1>6. DialogAfter(m) \in {NoDialog, dialog}
          \/ (m.op = "offer" /\ DialogAfter(m) = Offer(m.quest))
          \/ (m.op = "turnin" /\ DialogAfter(m) = TurnIn(m.inst))
  BY DEF DialogAfter
<1>7. DialogAfter(m).kind = "turnin" =>
          DialogAfter(m).inst = turnInDlg /\ owed = NoneOwed
  BY <1>4, <1>5, <1>6 DEF Tidy, NoDialog, Offer, TurnIn
<1>8. ActiveInst(owed.inst)' = ActiveInst(owed.inst)
  BY <1>1 DEF ActiveInst
<1>9. QED
  BY <1>1, <1>2, <1>3, <1>4, <1>7, <1>8 DEF Orderly, m

(* The journal has every active quest, so no giver can show a turn-in to a *)
(* client that waits.                                                      *)
LEMMA QueryOfferOrderly ==
    ASSUME Sound, Traced, Orderly, NEW q \in Quest, QueryOffer(q)
    PROVE  Orderly'
<1> SUFFICES ASSUME ~hasty' PROVE Orderly'
  BY DEF Orderly
<1>1. Click /\ UNCHANGED <<owed, dialog>> /\ dialog = NoDialog
      /\ \A e \in journal : e.quest # q
  BY DEF QueryOffer, clientVars
<1>2. online /\ wire = <<>>
  BY <1>1, ClickSeen
<1>3. ActiveQuest(q) = {}
  <2>1. Shows(journal, active)
    BY <1>2, DeliveredNone DEF Traced
  <2>2. QED
    BY <1>1, <2>1 DEF Shows, ActiveQuest
<1>4. dialog'.kind # "turnin"
  BY <1>1 DEF NoDialog
<1>5. CASE AcceptConfirmed(q)
  BY <1>1, <1>4, <1>5, AcceptSends, OrderlyClick
<1>6. CASE Send(<<OfferMsg(q)>>)
  <2>1. OfferMsg(q) \in Plain
    BY PlainType
  <2>2. <<OfferMsg(q)>> \in Seq(Plain)
    <3> HIDE DEF OfferMsg
    <3>1. QED
      BY <2>1
  <2>3. SendsPlain
    BY <1>6, <2>2 DEF SendsPlain
  <2>4. QED
    BY <1>1, <1>4, <2>3, OrderlyClick
<1>7. QED
  BY <1>3, <1>5, <1>6 DEF QueryOffer

LEMMA DialogOrderly ==
    ASSUME Sound, Orderly,
           ClickAccept \/ CloseOffer \/ ClickComplete \/ ClickBack \/ SendClose
    PROVE  Orderly'
<1> SUFFICES ASSUME ~hasty' PROVE Orderly'
  BY DEF Orderly
<1>1. CASE ClickAccept
  <2>1. Click /\ UNCHANGED owed /\ dialog' = NoDialog
    BY <1>1 DEF ClickAccept
  <2>2. SendsPlain
    <3>1. CASE pendQuest # NoQuest /\ AcceptConfirmed(pendQuest)
      <4>1. pendQuest \in Quest
        BY <3>1 DEF Sound, Shown
      <4>2. QED
        BY <3>1, <4>1, AcceptSends
    <3>2. CASE pendTurnIn # 0 /\ TurnInConfirmed(pendTurnIn)
      <4>1. pendTurnIn \in Inst
        BY <3>2, SoundFacts
      <4>2. QED
        BY <3>2, <4>1, TurnInSends
    <3>3. CASE UNCHANGED wire
      BY <3>3 DEF SendsPlain
    <3>4. QED
      BY <1>1, <3>1, <3>2, <3>3 DEF ClickAccept
  <2>3. QED
    BY <2>1, <2>2, OrderlyClick DEF NoDialog
<1>2. CASE CloseOffer
  BY <1>2, OrderlyClick DEF CloseOffer, SendsPlain, NoDialog
<1>3. CASE ClickComplete
  <2>1. /\ Click /\ TurnInConfirmed(dialog.inst) /\ dialog' = NoDialog
        /\ owed' = [step |-> "close", inst |-> dialog.inst]
        /\ dialog.inst \in Inst
    BY <1>3, SoundFacts DEF ClickComplete
  <2>2. SendsPlain /\ \A r \in active' : r.inst # dialog.inst
    BY <2>1, TurnInSends
  <2>3. wire' \in Seq(Tidy')
    BY <2>1, <2>2, ClickSeen, OrderlyAnswer
  <2>4. owed'.inst = dialog.inst /\ owed'.step = "close"
    BY <2>1
  <2>5. ActiveInst(owed.inst)' = {}
    BY <2>2, <2>4 DEF ActiveInst
  <2>6. QED
    BY <2>1, <2>3, <2>4, <2>5 DEF Orderly, NoDialog
<1>4. CASE ClickBack
  <2>1. /\ Click /\ dialog.kind = "turnin" /\ dialog' = NoDialog
        /\ owed' = [step |-> "close", inst |-> dialog.inst]
        /\ UNCHANGED <<wire, turnInDlg>>
    BY <1>4 DEF ClickBack, serverVars
  <2>2. wire' \in Seq(Tidy')
    BY <2>1, ClickSeen, OrderlyAnswer DEF SendsPlain
  <2>3. dialog.inst = turnInDlg
    BY <2>1, ClickSeen DEF Orderly
  <2>4. QED
    BY <2>1, <2>2, <2>3 DEF Orderly, NoDialog
<1>5. CASE SendClose
  <2>1. /\ owed.step = "close" /\ owed' = [owed EXCEPT !.step = "teardown"]
        /\ teardown' = turnInDlg
        /\ UNCHANGED <<active, wire, dialog, hasty>>
    BY <1>5 DEF SendClose, DialogClosed
  <2>2. owed.inst \in Inst /\ owed' = [step |-> "teardown", inst |-> owed.inst]
    BY <2>1 DEF Sound, Shown, Owed, NoneOwed
  <2>3. /\ wire \in Seq(Tidy) /\ dialog.kind # "turnin"
        /\ turnInDlg = owed.inst \/ ActiveInst(owed.inst) = {}
    BY <2>1 DEF Orderly, NoneOwed
  <2>4. Tidy \subseteq Tidy'
    BY <2>1 DEF Tidy, NoneOwed
  <2>5. wire' \in Seq(Tidy')
    BY <2>1, <2>3, <2>4, SeqMonotonic
  <2>6. teardown' = owed'.inst \/ ActiveInst(owed.inst)' = {}
    BY <2>1, <2>2, <2>3 DEF ActiveInst
  <2>7. QED
    BY <2>1, <2>2, <2>3, <2>5, <2>6 DEF Orderly
<1>6. QED
  BY <1>1, <1>2, <1>3, <1>4, <1>5

LEMMA QuestOrderly ==
    ASSUME Sound, Orderly,
           SendTeardown \/ \E i \in Inst : ViewActive(i) \/ ClickAbandon(i)
    PROVE  Orderly'
<1>1. CASE SendTeardown
  <2>1. /\ owed.inst \in Inst /\ HandleAbandon(owed.inst) /\ owed.step = "teardown"
        /\ owed' = NoneOwed /\ UNCHANGED <<turnInDlg, dialog, hasty>>
    BY <1>1 DEF SendTeardown, Sound, Shown, Owed, NoneOwed
  <2>2. SendsPlain
    BY <2>1, AbandonSends
  <2>3. CASE hasty
    BY <2>1, <2>3 DEF Orderly
  <2>4. CASE ~hasty
    <3>1. wire \in Seq(Tidy) /\ dialog.kind # "turnin"
      BY <2>1, <2>4 DEF Orderly, NoneOwed
    <3>2. Tidy \subseteq Tidy' /\ Plain \subseteq Tidy'
      BY <2>1 DEF Tidy, NoneOwed, Plain
    <3>3. wire \in Seq(Tidy')
      BY <3>1, <3>2, SeqMonotonic
    <3>4. wire' \in Seq(Tidy')
      <4>1. ASSUME NEW msgs \in Seq(Plain), Send(msgs) PROVE wire' \in Seq(Tidy')
        <5>1. msgs \in Seq(Tidy')
          BY <3>2, SeqMonotonic
        <5>2. QED
          BY <3>3, <4>1, <5>1, ConcatProperties DEF Send
      <4>2. QED
        BY <2>2, <3>3, <4>1 DEF SendsPlain
    <3>5. QED
      BY <2>1, <3>1, <3>4 DEF Orderly, NoneOwed
  <2>5. QED
    BY <2>3, <2>4
<1>2. ASSUME NEW i \in Inst, ViewActive(i) PROVE Orderly'
  <2>1. Click /\ UNCHANGED <<owed, dialog>> /\ dialog'.kind # "turnin"
    BY <1>2 DEF ViewActive, clientVars, NoDialog
  <2>2. CASE UNCHANGED wire
    BY <2>1, <2>2, OrderlyClick DEF SendsPlain
  <2>3. CASE ~ UNCHANGED wire
    <3>1. PICK r \in ActiveInst(i) :
              /\ ShowTurnIn(r)
              /\ turnInDlg' = IF Complete(Synced(r, bag)) THEN i ELSE turnInDlg
      BY <1>2, <2>3 DEF ViewActive
    <3>2. r.inst = i /\ Send(<<TurnInMsg(r.inst)>>) /\ turnInDlg' = i
      BY <2>3, <3>1 DEF ShowTurnIn, ActiveInst
    <3>3. QED
      BY <2>1, <3>2, OrderlyShown
  <2>4. QED
    BY <2>2, <2>3
<1>3. ASSUME NEW i \in Inst, ClickAbandon(i) PROVE Orderly'
  <2>1. /\ Click /\ HandleAbandon(i)
        /\ UNCHANGED <<turnInDlg, owed, dialog>>
    BY <1>3 DEF ClickAbandon, clientVars
  <2>2. SendsPlain /\ active' \subseteq active
    BY <2>1, AbandonSends
  <2>3. ~hasty' => ~hasty /\ owed = NoneOwed
    BY <2>1, ClickSeen
  <2>4. CASE hasty'
    BY <2>4 DEF Orderly
  <2>5. CASE ~hasty'
    BY <2>1, <2>2, <2>3, <2>5, OrderlyCalm
  <2>6. QED
    BY <2>4, <2>5
<1>4. QED
  BY <1>1, <1>2, <1>3

LEMMA WorldOrderly ==
    ASSUME Sound, Orderly, Kill \/ PickUp \/ TakeOut \/ EnterZone
    PROVE  Orderly'
<1>1. UNCHANGED <<turnInDlg, owed, teardown, dialog, hasty>>
  BY DEF Kill, PickUp, TakeOut, EnterZone, serverVars, clientVars
<1>2. SendsPlain /\ \A s \in active' : \E r \in active : r.inst = s.inst
  <2>1. \A r \in active : r \in Running /\ \A g \in Goal : r.got[g] <= Required[r.quest][g]
    BY DEF Sound, Core, Counted
  <2>2. CASE Kill
    <3> DEFINE next == [r \in active |-> Killed(r)]
    <3>1. Progressed(next)
      BY <2>2 DEF Kill
    <3>2. \A r \in active : /\ next[r] \in Running
                            /\ next[r].quest = r.quest /\ next[r].inst = r.inst
      BY <2>1, KilledType
    <3> HIDE DEF next
    <3>3. QED
      BY <3>1, <3>2, ProgressSends
  <2>3. CASE PickUp
    <3> DEFINE next == [r \in active |-> Synced(r, bag + 1)]
    <3>1. Progressed(next) /\ bag + 1 \in Nat
      BY <2>3, SoundFacts DEF PickUp
    <3>2. \A r \in active : /\ next[r] \in Running
                            /\ next[r].quest = r.quest /\ next[r].inst = r.inst
      BY <2>1, <3>1, SyncedType
    <3> HIDE DEF next
    <3>3. QED
      BY <3>1, <3>2, ProgressSends
  <2>4. CASE TakeOut
    BY <2>4 DEF TakeOut, serverVars, SendsPlain
  <2>5. CASE EnterZone
    <3>1. active' = active /\ Send(<<SpawnMsg(active)>>)
      BY <2>5 DEF EnterZone, serverVars
    <3>2. SpawnMsg(active) \in Plain
      <4>1. active \in SUBSET Running
        BY <2>1
      <4>2. QED
        BY <4>1, PlainType
    <3>3. <<SpawnMsg(active)>> \in Seq(Plain)
      <4> HIDE DEF SpawnMsg
      <4>1. QED
        BY <3>2
    <3>4. QED
      BY <3>1, <3>3 DEF SendsPlain
  <2>6. QED
    BY <2>2, <2>3, <2>4, <2>5
<1>3. QED
  BY <1>1, <1>2, OrderlyCalm

LEMMA StepOrderly == Sound /\ Traced /\ Orderly /\ Sound' /\ [Next]_vars => Orderly'
<1> SUFFICES ASSUME Sound, Traced, Orderly, Sound', [Next]_vars PROVE Orderly'
  OBVIOUS
<1>1. CASE Logout
  BY <1>1 DEF Logout, Orderly, NoDialog, NoneOwed
<1>2. CASE Login
  <2>1. /\ wire' = <<SpawnMsg(active')>> /\ UNCHANGED <<dialog, owed, hasty>>
        /\ owed = NoneOwed /\ dialog = NoDialog
    BY <1>2 DEF Login, clientVars, Sound, Offline
  <2>2. SpawnMsg(active') \in Tidy'
    <3>1. active' \in SUBSET Running
      BY DEF Sound, Core, Counted
    <3>2. SpawnMsg(active') \in Plain
      BY <3>1, PlainType
    <3>3. QED
      BY <3>2 DEF Plain, Tidy
  <2>3. wire' \in Seq(Tidy')
    <3> HIDE DEF SpawnMsg
    <3>1. QED
      BY <2>1, <2>2
  <2>4. QED
    BY <2>1, <2>3 DEF Orderly, NoDialog, NoneOwed
<1>3. CASE Receive
  BY <1>3, ReceiveOrderly
<1>4. CASE \E q \in Quest : QueryOffer(q)
  BY <1>4, QueryOfferOrderly
<1>5. CASE ClickAccept \/ CloseOffer \/ ClickComplete \/ ClickBack \/ SendClose
  BY <1>5, DialogOrderly
<1>6. CASE SendTeardown \/ \E i \in Inst : ViewActive(i) \/ ClickAbandon(i)
  BY <1>6, QuestOrderly
<1>7. CASE Kill \/ PickUp \/ TakeOut \/ EnterZone
  BY <1>7, WorldOrderly
<1>8. CASE UNCHANGED vars
  BY <1>8 DEF vars, Orderly, Tidy, ActiveInst
<1>9. QED
  BY <1>1, <1>2, <1>3, <1>4, <1>5, <1>6, <1>7, <1>8 DEF Next

-----------------------------------------------------------------------------
(* The theorems *)

LEMMA StepSound == Sound /\ [Next]_vars => Sound'
<1> SUFFICES ASSUME Sound, [Next]_vars PROVE Sound'
  OBVIOUS
<1>1. CASE Login
  BY <1>1, LoginSound
<1>2. CASE Logout
  BY <1>2, LogoutSound
<1>3. CASE EnterZone
  BY <1>3, EnterZoneSound
<1>4. CASE Receive
  BY <1>4, ReceiveSound
<1>5. CASE \E q \in Quest : QueryOffer(q)
  BY <1>5, QueryOfferSound
<1>6. CASE ClickAccept
  BY <1>6, ClickAcceptSound
<1>7. CASE CloseOffer \/ ClickBack \/ SendClose
  BY <1>7, DialogSound
<1>8. CASE ClickComplete
  BY <1>8, ClickCompleteSound
<1>9. CASE \E i \in Inst : ViewActive(i)
  BY <1>9, ViewActiveSound
<1>10. CASE SendTeardown \/ \E i \in Inst : ClickAbandon(i)
  BY <1>10, AbandonSound
<1>11. CASE Kill
  BY <1>11, KillSound
<1>12. CASE PickUp
  BY <1>12, PickUpSound
<1>13. CASE TakeOut
  BY <1>13, TakeOutSound
<1>14. CASE UNCHANGED vars
  BY <1>14 DEF vars, serverVars, savedVars, clientVars, Sound, Core, Counted, Shown,
     Ripened, Offline, RunsOnce, SavedAgrees, SavedOnce, Retired, Ripe, Fit
<1>15. QED
  BY <1>1, <1>2, <1>3, <1>4, <1>5, <1>6, <1>7, <1>8, <1>9, <1>10, <1>11, <1>12,
     <1>13, <1>14 DEF Next

LEMMA AlwaysSound == Spec => []Sound
BY InitSound, StepSound, PTL DEF Spec

(* The state of the server, of the row and of the client stays well formed.*)
THEOREM TypeCorrect == Spec => []TypeOK
BY AlwaysSound, SoundType, PTL

(* No quest runs twice and no two share an instance id.                    *)
THEOREM RunsOnceCorrect == Spec => []RunsOnce
<1>1. Sound => RunsOnce
  BY DEF Sound, Core
<1>2. QED
  BY <1>1, AlwaysSound, PTL

(* The row has every quest, every kill and every completion, whenever the  *)
(* connection is lost.                                                     *)
THEOREM SavedCorrect == Spec => []SavedAgrees
<1>1. Sound => SavedAgrees
  BY DEF Sound, Core
<1>2. QED
  BY <1>1, AlwaysSound, PTL

(* Once its answers have arrived, the journal of the client has exactly the*)
(* active quests, and the three records of a quest, in memory, in the row  *)
(* and in the journal, agree.                                              *)
THEOREM RecordsCorrect == Spec => []RecordsAgree
<1>1. Init => Traced
  BY DEF Init, Traced
<1>2. Spec => []Traced
  BY <1>1, AlwaysSound, StepTraced, PTL DEF Spec
<1>3. ASSUME Sound, Traced PROVE RecordsAgree
  <2>1. ASSUME NEW J, Shows(J, active)
        PROVE  /\ {<<e.quest, e.inst>> : e \in J} = {<<r.quest, r.inst>> : r \in active}
               /\ \A e \in J : Required[e.quest]["item"] = 0 =>
                      \A r \in ActiveInst(e.inst) : e.ready = Complete(r)
    <3>1. \A e \in J : \E r \in active :
              <<e.quest, e.inst>> = <<r.quest, r.inst>>
      BY <2>1 DEF Shows
    <3>2. \A r \in active : \E e \in J :
              <<e.quest, e.inst>> = <<r.quest, r.inst>>
      BY <2>1 DEF Shows
    <3>3. {<<e.quest, e.inst>> : e \in J} = {<<r.quest, r.inst>> : r \in active}
      BY <3>1, <3>2
    <3>4. QED
      BY <2>1, <3>3 DEF Shows, ActiveInst
  <2>2. JournalAgrees
    BY <1>3, <2>1 DEF Traced, JournalAgrees
  <2>3. QED
    BY <1>3, <2>2, SoundType DEF Sound, Core, RecordsAgree
<1>4. QED
  BY <1>2, <1>3, AlwaysSound, PTL

(* A quest that cannot be repeated is turned in once over all sessions.    *)
THEOREM TurnedInCorrect == Spec => []TurnedInOnce
<1>1. ASSUME Sound PROVE TurnedInOnce
  <2>1. ASSUME NEW q \in Quest \ Repeatable, turnedIn[q] = 1, NEW r \in active
        PROVE  r.quest # q
    <3>1. online
      BY <1>1 DEF Sound, Shown, Offline
    <3>2. QED
      BY <1>1, <2>1, <3>1, RetiredOnline DEF Sound, Core
  <2>2. \A q \in Quest \ Repeatable : turnedIn[q] <= 1
    BY <1>1 DEF Sound, Core, Retired
  <2>3. QED
    BY <2>1, <2>2 DEF TurnedInOnce, ActiveQuest
<1>2. QED
  BY <1>1, AlwaysSound, PTL

(* Only a turn-in counts one, and it is of a quest whose kills are made.   *)
LEMMA TurnInEarned ==
    ASSUME Sound, NEW i \in Inst, Ripe(i), TurnInConfirmed(i), NEW r \in active,
           turnedIn'[r.quest] # turnedIn[r.quest]
    PROVE  r.got["kill"] >= Required[r.quest]["kill"]
<1>1. PICK s \in ActiveInst(i) : turnedIn' = [turnedIn EXCEPT ![s.quest] = @ + 1]
  BY DEF TurnInConfirmed
<1>2. s \in active /\ s.inst = i
  BY DEF ActiveInst
<1>3. r.quest = s.quest
  BY <1>1 DEF Sound, Core, Counted, Running
<1>4. r = s
  BY <1>2, <1>3 DEF Sound, Core, RunsOnce
<1>5. QED
  BY <1>2, <1>4 DEF Ripe

(* A quest that counts kills is turned in after all of them.               *)
THEOREM KillsCorrect == Spec => KillsEarned
<1> DEFINE Earned == \A r \in active : turnedIn'[r.quest] # turnedIn[r.quest] =>
                         r.got["kill"] >= Required[r.quest]["kill"]
<1>1. ASSUME Sound, [Next]_vars PROVE [Earned]_vars
  <2>1. CASE ClickComplete
    <3>1. /\ dialog.inst \in Inst /\ Ripe(dialog.inst) /\ TurnInConfirmed(dialog.inst)
      BY <1>1, <2>1, SoundFacts DEF ClickComplete
    <3>2. QED
      BY <1>1, <3>1, TurnInEarned
  <2>2. CASE ClickAccept
    <3>1. UNCHANGED turnedIn \/ (/\ pendTurnIn \in Inst /\ Ripe(pendTurnIn)
                                 /\ TurnInConfirmed(pendTurnIn))
      BY <1>1, <2>2, SoundFacts DEF ClickAccept
    <3>2. QED
      BY <1>1, <3>1, TurnInEarned
  <2>3. CASE ~ClickComplete /\ ~ClickAccept
    <3>1. UNCHANGED turnedIn
      BY <1>1, <2>3 DEF Next, vars, Login, Logout, EnterZone, Receive, QueryOffer,
         CloseOffer, ClickBack, ViewActive, ClickAbandon, SendClose, SendTeardown,
         Kill, PickUp, TakeOut
    <3>2. QED
      BY <3>1
  <2>4. QED
    BY <2>1, <2>2, <2>3
<1>2. QED
  BY <1>1, AlwaysSound, PTL DEF Spec, KillsEarned

(* Back in a turn-in dialog keeps the quest of a client that waits for its *)
(* answers.                                                                *)
THEOREM BackCorrect == Spec => BackKeepsQuestInOrder
<1>1. Init => Traced /\ Orderly
  BY DEF Init, Traced, Orderly, NoDialog, NoneOwed
<1>2. Spec => [](Sound /\ Traced /\ Orderly)
  BY <1>1, InitSound, StepSound, StepTraced, StepOrderly, PTL DEF Spec
<1>3. ASSUME Sound, Orderly, [Next]_vars PROVE [~hasty => BackKept]_vars
  <2>1. CASE SendTeardown
    <3>1. /\ owed.inst \in Inst /\ HandleAbandon(owed.inst) /\ owed.step = "teardown"
      BY <1>3, <2>1 DEF SendTeardown, Sound, Shown, Owed, NoneOwed
    <3>2. CASE ~hasty /\ owed.inst = teardown
      BY <3>1, <3>2 DEF HandleAbandon, BackKept
    <3>3. CASE ~hasty /\ owed.inst # teardown
      <4>1. ActiveInst(owed.inst) = {}
        BY <1>3, <3>1, <3>3 DEF Orderly
      <4>2. active' = active
        BY <3>1, <3>3, <4>1 DEF HandleAbandon, Abandoned
      <4>3. QED
        BY <4>2 DEF BackKept
    <3>4. QED
      BY <3>2, <3>3
  <2>2. CASE ~SendTeardown
    <3>1. ASSUME owed.step = "teardown", owed' = NoneOwed, online'
          PROVE  FALSE
      <4>1. owed # NoneOwed /\ online /\ ~Click
        BY <1>3, <3>1 DEF NoneOwed, Click, Sound, Offline
      <4>2. UNCHANGED owed
        <5>1. CASE Kill \/ PickUp \/ TakeOut \/ EnterZone \/ Receive \/ UNCHANGED vars
          BY <5>1 DEF Kill, PickUp, TakeOut, EnterZone, Receive, vars, clientVars
        <5>2. ~Login /\ ~Logout
          BY <3>1, <4>1 DEF Login, Logout
        <5>3. ~SendClose
          BY <3>1 DEF SendClose
        <5>4. /\ ~ClickAccept /\ ~CloseOffer /\ ~ClickComplete /\ ~ClickBack
              /\ \A q \in Quest : ~QueryOffer(q)
              /\ \A i \in Inst : ~ViewActive(i) /\ ~ClickAbandon(i)
          BY <4>1 DEF ClickAccept, CloseOffer, ClickComplete, ClickBack, QueryOffer,
             ViewActive, ClickAbandon
        <5>5. QED
          BY <1>3, <2>2, <5>1, <5>2, <5>3, <5>4 DEF Next
      <4>3. QED
        BY <3>1, <4>1, <4>2
    <3>2. QED
      BY <3>1 DEF BackKept
  <2>3. QED
    BY <2>1, <2>2
<1>4. QED
  BY <1>2, <1>3, PTL DEF Spec, BackKeepsQuestInOrder

=============================================================================
