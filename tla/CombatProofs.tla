---------------------------- MODULE CombatProofs ----------------------------
(***************************************************************************)
(* Proofs about Combat: the deaths of monsters, for any players, levels,   *)
(* monsters and bounds.                                                    *)
(*                                                                         *)
(* The invariants are layers, each proved on the one below.  Base needs    *)
(* nothing of the environment, and a monster that was paid for is tracked  *)
(* no longer in it.  Sound needs copies with populators of their own       *)
(* (Apart): an id then has one bearer that stands.  Watched adds what the  *)
(* screens show, Traced what the evidence under way is about, Spared who   *)
(* fights, Fits what a removal finds.  The last needs a dungeon of one     *)
(* level, as the server scopes what it sends by world group and instance,  *)
(* which the levels share.                                                 *)
(*                                                                         *)
(* A step is first brought into one of seven shapes (Shapes), so that no   *)
(* layer but Base looks at all the handlers.                               *)
(***************************************************************************)
EXTENDS Combat, TLAPS

Copy == [by : Player, key : Key]

(* What is tracked belongs to a copy that was made, under its own id.      *)
Known ==
    /\ paid \in [Mob -> Seq(Payment)]
    /\ \A e \in DOMAIN tracked :
           tracked[e][1] \in DOMAIN made /\ EidOf(tracked[e]) = e

(* A monster is paid for once, and from then on no longer tracked.         *)
PaidGone ==
    \A o \in Mob : paid[o] # <<>> =>
        /\ o[1] \in DOMAIN made
        /\ Len(paid[o]) = 1
        /\ \A e \in DOMAIN tracked : tracked[e] # o

Base == TypeOK /\ Known /\ PaidGone

(* Each monster is paid for at most once, whatever the ids, the copies and *)
(* the order of the evidence (_process_monster_kill).                      *)
OnePayment == \A o \in Mob : Len(paid[o]) <= 1

-----------------------------------------------------------------------------
(* What the helpers return *)

LEMMA MadeType ==
    ASSUME TypeOK
    PROVE  /\ made \in Seq(Copy)
           /\ \A g \in DOMAIN made : made[g] \in Copy /\ g \in 1..MaxGen
<1>1. made \in Seq(Copy) /\ Len(made) <= MaxGen
  BY DEF TypeOK, Copy
<1>2. MaxGen \in Nat
  BY NumberAssumption
<1> HIDE DEF Copy
<1>3. QED
  BY <1>1, <1>2

LEMMA HomeType ==
    ASSUME TypeOK, NEW o, o[1] \in DOMAIN made
    PROVE  HomeOf(o) \in Key
<1>1. made[o[1]] \in Copy
  BY MadeType
<1>2. QED
  BY <1>1 DEF HomeOf, Copy

LEMMA EidType ==
    ASSUME TypeOK, NEW o \in Mob, o[1] \in DOMAIN made
    PROVE  EidOf(o) \in Eid
<1>1. made[o[1]] \in Copy
  BY MadeType
<1>2. QED
  BY <1>1 DEF EidOf, Eid, Mob, Copy

LEMMA MobsType ==
    ASSUME TypeOK, NEW g \in 1..MaxGen
    PROVE  MobsOf(g) \subseteq Mob
BY DEF MobsOf, Mob

LEMMA InitBase == Init => Base
BY NumberAssumption, PlaceAssumption
DEF Init, Base, TypeOK, Known, PaidGone, Payment, Report, Eid, Mob

-----------------------------------------------------------------------------
(* Steps: types and payments *)

LEMMA DestroyedType ==
    ASSUME TypeOK, NEW Q \in SUBSET Player, NEW o, Destroyed(Q, o)
    PROVE  /\ {alive', corpse', hurt'} \subseteq [Player -> SUBSET Mob]
           /\ faults' \subseteq {"unknown", "other", "health"} \X Player
<1>1. alive' \in [Player -> SUBSET Mob]
  BY DEF TypeOK, Destroyed
<1>2. corpse' \in [Player -> SUBSET Mob]
  BY DEF TypeOK, Destroyed
<1>3. hurt' \in [Player -> SUBSET Mob]
  BY DEF TypeOK, Destroyed
<1>4. faults' \subseteq {"unknown", "other", "health"} \X Player
  BY DEF TypeOK, Destroyed
<1>5. QED
  BY <1>1, <1>2, <1>3, <1>4

(* The types of what a kill touches.                                       *)
KillTypes ==
    /\ present \subseteq Mob
    /\ DOMAIN tracked \subseteq Eid
    /\ \A e \in DOMAIN tracked : tracked[e] \in Mob
    /\ engaged \in [Eid -> SUBSET Player]
    /\ relayed \subseteq Eid
    /\ due \subseteq [to : Player, mob : Mob]
    /\ {alive, corpse, hurt} \subseteq [Player -> SUBSET Mob]
    /\ faults \subseteq {"unknown", "other", "health"} \X Player
    /\ \A o \in Mob : paid[o] \in Seq(Payment)

LEMMA ProcessKillBase ==
    ASSUME Base, NEW e \in DOMAIN tracked, NEW killer \in Player,
           NEW meant \in Mob, ProcessKill(e, killer, meant),
           UNCHANGED worldVars
    PROVE  KillTypes' /\ Known' /\ PaidGone'
<1> DEFINE o == tracked[e]
<1>1. /\ o \in Mob /\ o[1] \in DOMAIN made /\ EidOf(o) = e
      /\ e \in Eid
  BY DEF Base, TypeOK, Known
<1>2. /\ DOMAIN tracked' = DOMAIN tracked \ {e}
      /\ \A f \in DOMAIN tracked' : tracked'[f] = tracked[f]
  BY DEF ProcessKill, Without
<1>3. UNCHANGED made
  BY DEF worldVars
<1>4. present' \subseteq Mob
  BY DEF ProcessKill, Purged, Base, TypeOK
<1>5. engaged' \in [Eid -> SUBSET Player] /\ relayed' \subseteq Eid
  BY DEF ProcessKill, Base, TypeOK
<1>6. /\ due' \subseteq [to : Player, mob : Mob]
      /\ {alive', corpse', hurt'} \subseteq [Player -> SUBSET Mob]
      /\ faults' \subseteq {"unknown", "other", "health"} \X Player
  <2>1. Removal(o, killer)
    BY DEF ProcessKill
  <2> HIDE DEF o
  <2>2. due' \subseteq [to : Player, mob : Mob]
    BY <1>1, <2>1 DEF Removal, Base, TypeOK
  <2> DEFINE Q == {p \in Player \ {killer} : InScope(p, o)}
  <2>3. Q \in SUBSET Player /\ Destroyed(Q, o)
    BY <2>1 DEF Removal
  <2> HIDE DEF Q
  <2>4. QED
    BY <2>2, <2>3, DestroyedType DEF Base
<1>7. \E a \in Key \cup {Town} :
          paid' = [paid EXCEPT ![o] = Append(@, [meant |-> meant, at |-> a])]
  <2>1. (IF InInstance(killer, o) THEN place[killer] ELSE Town) \in Key \cup {Town}
    BY DEF Base, TypeOK
  <2>2. QED
    BY <2>1 DEF ProcessKill
<1>8. paid[o] = <<>>
  BY <1>1 DEF Base, PaidGone
<1>9. PICK a \in Key \cup {Town} : 
          paid' = [paid EXCEPT ![o] = Append(@, [meant |-> meant, at |-> a])]
  BY <1>7
<1>10. /\ paid'[o] = <<[meant |-> meant, at |-> a]>>
       /\ \A x \in Mob : x # o => paid'[x] = paid[x]
       /\ paid' \in [Mob -> Seq(Payment)]
  <2> HIDE DEF o
  <2>1. [meant |-> meant, at |-> a] \in Payment
    BY DEF Payment
  <2>2. paid \in [Mob -> Seq(Payment)]
    BY DEF Base, Known
  <2>3. QED
    BY <1>1, <1>8, <1>9, <2>1, <2>2
<1>11. Known'
  BY <1>2, <1>3, <1>10 DEF Known, Base, EidOf
<1>12. \A f \in DOMAIN tracked' : tracked'[f] # o
  BY <1>1, <1>2 DEF Base, Known
<1>13. PaidGone'
  <2> SUFFICES ASSUME NEW x \in Mob, paid'[x] # <<>>
               PROVE  /\ x[1] \in DOMAIN made'
                      /\ Len(paid'[x]) = 1
                      /\ \A f \in DOMAIN tracked' : tracked'[f] # x
    BY DEF PaidGone
  <2>1. CASE x = o
    BY <1>1, <1>3, <1>10, <1>12, <2>1
  <2>2. CASE x # o
    BY <1>2, <1>3, <1>10, <2>2 DEF Base, PaidGone
  <2>3. QED
    BY <2>1, <2>2
<1>14. QED
  BY <1>1, <1>2, <1>4, <1>5, <1>6, <1>10, <1>11, <1>13 DEF Base, TypeOK, KillTypes

(* The copy g that player p populates under key k.                         *)
Makes(p, k, g) ==
    /\ k = place[p] /\ k \in Key /\ k \notin DOMAIN copies
    /\ g = Len(made) + 1 /\ g \in 1..MaxGen /\ g \notin DOMAIN made
    /\ g \in DOMAIN made' /\ made'[g] = [by |-> p, key |-> k]
    /\ made' \in Seq(Copy) /\ Len(made') <= MaxGen
    /\ \A h \in DOMAIN made : h \in DOMAIN made' /\ made'[h] = made[h]
    /\ DOMAIN copies' = DOMAIN copies \cup {k}
    /\ copies'[k] = g
    /\ \A l \in DOMAIN copies : copies'[l] = copies[l]
    /\ present' = present \cup MobsOf(g)
    /\ DOMAIN tracked' = DOMAIN tracked \cup ({p} \X (1..Mobs))
    /\ \A e \in DOMAIN tracked' :
           tracked'[e] = IF e[1] = p THEN <<g, e[2]>> ELSE tracked[e]
    /\ Apart => \A l \in DOMAIN copies : made[copies[l]].by # p
    /\ Slow => \A x \in reports \cup due : Standing(x.mob)

LEMMA SpawnShape ==
    ASSUME TypeOK, NEW p \in Player, PlayerSpawned(p)
    PROVE  /\ place[p] \in Key /\ ~spawned[p]
           /\ spawned' = [spawned EXCEPT ![p] = TRUE]
           /\ UNCHANGED <<place, token, health, paid, relayVars, swing, hooked,
                          reports, due, corpse, hurt, faults>>
           /\ \E g \in 1..MaxGen :
                  /\ alive' = [alive EXCEPT ![p] = MobsOf(g)]
                  /\ \/ /\ place[p] \in DOMAIN copies
                        /\ g = copies[place[p]]
                        /\ UNCHANGED <<made, copies, present, tracked>>
                     \/ Makes(p, place[p], g)
<1> DEFINE k == place[p]
           new == k \notin DOMAIN copies
           g == IF new THEN Len(made) + 1 ELSE copies[k]
           c == [by |-> p, key |-> k]
<1>1. /\ k \in Key /\ ~spawned[p]
      /\ spawned' = [spawned EXCEPT ![p] = TRUE]
      /\ alive' = [alive EXCEPT ![p] = MobsOf(g)]
      /\ UNCHANGED <<place, token, health, paid, relayVars, swing, hooked,
                     reports, due, corpse, hurt, faults>>
  BY DEF PlayerSpawned, TypeOK
<1>2. c \in Copy
  BY <1>1 DEF Copy
<1>3. made \in Seq(Copy) /\ Len(made) \in Nat
  BY MadeType
<1>4. CASE ~new
  <2>1. UNCHANGED <<made, copies, present, tracked>>
    BY <1>4 DEF PlayerSpawned
  <2>2. g \in 1..MaxGen /\ g = copies[place[p]]
    BY <1>4, MadeType DEF TypeOK
  <2> HIDE DEF g
  <2>3. QED
    BY <1>1, <1>4, <2>1, <2>2
<1>5. CASE new
  <2>1. /\ Len(made) < MaxGen
        /\ made' = Append(made, c)
        /\ copies' = [l \in DOMAIN copies \cup {k} |->
                         IF l = k THEN g ELSE copies[l]]
        /\ present' = present \cup MobsOf(g)
        /\ tracked' = [e \in DOMAIN tracked \cup ({p} \X (1..Mobs)) |->
                          IF e[1] = p THEN <<g, e[2]>> ELSE tracked[e]]
        /\ Apart => \A l \in DOMAIN copies : made[copies[l]].by # p
        /\ Slow => \A x \in reports \cup due : Standing(x.mob)
    BY <1>5 DEF PlayerSpawned
  <2>2. /\ g = Len(made) + 1
        /\ g \in 1..MaxGen
        /\ g \in DOMAIN made' /\ g \notin DOMAIN made
        /\ made'[g] = c
        /\ made' \in Seq(Copy) /\ Len(made') <= MaxGen
    BY <1>2, <1>3, <1>5, <2>1, NumberAssumption
  <2>3. \A h \in DOMAIN made : h \in DOMAIN made' /\ made'[h] = made[h]
    BY <1>3, <2>1
  <2> HIDE DEF g
  <2>4. Makes(p, place[p], g)
    BY <1>1, <1>5, <2>1, <2>2, <2>3 DEF Makes
  <2>5. QED
    BY <1>1, <2>2, <2>4
<1>6. QED
  BY <1>4, <1>5

(* What is tracked once a copy was made is of that copy or was before.     *)
LEMMA MakesTracked ==
    ASSUME NEW p, NEW k, NEW g, Makes(p, k, g), NEW e \in DOMAIN tracked'
    PROVE  /\ e[1] = p => tracked'[e] = <<g, e[2]>> /\ tracked'[e][1] = g
           /\ e[1] # p => e \in DOMAIN tracked /\ tracked'[e] = tracked[e]
<1>1. tracked'[e] = IF e[1] = p THEN <<g, e[2]>> ELSE tracked[e]
  BY DEF Makes
<1>2. e \in DOMAIN tracked \/ e \in {p} \X (1..Mobs)
  BY DEF Makes
<1>3. QED
  BY <1>1, <1>2

LEMMA SpawnBase ==
    ASSUME Base, NEW p \in Player, PlayerSpawned(p)
    PROVE  Base'
<1> DEFINE k == place[p]
<1>1. /\ k \in Key
      /\ spawned' = [spawned EXCEPT ![p] = TRUE]
      /\ UNCHANGED <<place, token, health, paid, relayVars, swing, hooked,
                     reports, due, corpse, hurt, faults>>
  BY SpawnShape DEF Base
<1>2. PICK g \in 1..MaxGen :
          /\ alive' = [alive EXCEPT ![p] = MobsOf(g)]
          /\ \/ /\ place[p] \in DOMAIN copies
                /\ g = copies[place[p]]
                /\ UNCHANGED <<made, copies, present, tracked>>
             \/ Makes(p, place[p], g)
  BY SpawnShape DEF Base
<1>3. MobsOf(g) \subseteq Mob
  BY MobsType DEF Base
<1>4. alive' \in [Player -> SUBSET Mob]
  BY <1>2, <1>3 DEF Base, TypeOK
<1>5. place' \in [Player -> Key \cup {Town}] /\ spawned' \in [Player -> BOOLEAN]
  BY <1>1 DEF Base, TypeOK
<1>6. CASE place[p] \in DOMAIN copies /\ UNCHANGED <<made, copies, present, tracked>>
  <2>1. \A q \in Player : spawned'[q] => place'[q] \in DOMAIN copies'
    BY <1>1, <1>6 DEF Base, TypeOK
  <2>2. TypeOK'
    BY <1>1, <1>4, <1>5, <1>6, <2>1 DEF Base, TypeOK, relayVars
  <2>3. Known' /\ PaidGone'
    BY <1>1, <1>6 DEF Base, Known, PaidGone, EidOf
  <2>4. QED
    BY <2>2, <2>3 DEF Base
<1>7. CASE Makes(p, place[p], g)
  <2>1. /\ DOMAIN copies' \subseteq Key
        /\ \A l \in DOMAIN copies' : copies'[l] \in DOMAIN made'
        /\ \A q \in Player : spawned'[q] => place'[q] \in DOMAIN copies'
    BY <1>1, <1>7 DEF Makes, Base, TypeOK
  <2>2. made' \in Seq([by : Player, key : Key]) /\ Len(made') <= MaxGen
    BY <1>7 DEF Makes, Copy
  <2>3. present' \subseteq Mob /\ DOMAIN tracked' \subseteq Eid
    BY <1>3, <1>7 DEF Makes, Base, TypeOK, Eid
  <2>4. \A e \in DOMAIN tracked' :
           \/ e[1] = p /\ tracked'[e] = <<g, e[2]>> /\ tracked'[e][1] = g
           \/ e \in DOMAIN tracked /\ tracked'[e] = tracked[e]
    BY <1>7, MakesTracked
  <2>5. \A e \in DOMAIN tracked' : tracked'[e] \in Mob
    BY <2>3, <2>4 DEF Base, TypeOK, Eid, Mob
  <2>6. TypeOK'
    BY <1>1, <1>4, <1>5, <2>1, <2>2, <2>3, <2>5 DEF Base, TypeOK, relayVars
  <2>7. Known'
    <3>1. paid' \in [Mob -> Seq(Payment)]
      BY <1>1 DEF Base, Known
    <3>2. SUFFICES ASSUME NEW e \in DOMAIN tracked'
                   PROVE  /\ tracked'[e][1] \in DOMAIN made'
                          /\ EidOf(tracked[e])' = e
      BY <3>1 DEF Known
    <3>3. CASE e[1] = p /\ tracked'[e] = <<g, e[2]>>
      <4>1. EidOf(tracked[e])' = <<p, e[2]>> /\ g \in DOMAIN made'
        BY <1>7, <3>3 DEF Makes, EidOf
      <4>2. e \in Eid
        BY <2>3
      <4>3. QED
        BY <3>3, <4>1, <4>2 DEF Eid
    <3>4. CASE e \in DOMAIN tracked /\ tracked'[e] = tracked[e]
      BY <1>7, <3>4 DEF Makes, EidOf, Base, Known
    <3>5. QED
      BY <2>4, <3>3, <3>4
  <2>8. PaidGone'
    <3> SUFFICES ASSUME NEW o \in Mob, paid'[o] # <<>>
                 PROVE  /\ o[1] \in DOMAIN made'
                        /\ Len(paid'[o]) = 1
                        /\ \A e \in DOMAIN tracked' : tracked'[e] # o
      BY DEF PaidGone
    <3>1. /\ o[1] \in DOMAIN made /\ Len(paid[o]) = 1
          /\ \A e \in DOMAIN tracked : tracked[e] # o
      BY <1>1 DEF Base, PaidGone
    <3>2. o[1] \in DOMAIN made' /\ o[1] # g
      BY <1>7, <3>1 DEF Makes
    <3>3. QED
      BY <1>1, <2>4, <3>1, <3>2
  <2>9. QED
    BY <2>6, <2>7, <2>8 DEF Base
<1>8. QED
  BY <1>2, <1>6, <1>7

LEMMA TransferBase ==
    ASSUME Base, NEW p \in Player, NEW z \in Level \cup {Town}, TransferZone(p, z)
    PROVE  Base'
<1>1. /\ spawned' = [spawned EXCEPT ![p] = FALSE]
      /\ place' = [place EXCEPT ![p] = IF z = Town THEN Town ELSE <<z, token>>]
      /\ swing' = [swing EXCEPT ![p] = NoMob]
      /\ alive' = [alive EXCEPT ![p] = {}]
      /\ corpse' = [corpse EXCEPT ![p] = {}]
      /\ hurt' = [hurt EXCEPT ![p] = {}]
      /\ UNCHANGED <<token, made, health, paid, hooked, reports, due, faults>>
  BY DEF TransferZone, ClearCombat, Despawn
<1>2. place' \in [Player -> Key \cup {Town}]
  BY <1>1 DEF Base, TypeOK, Key
<1>3. /\ DOMAIN copies' \subseteq DOMAIN copies
      /\ \A k \in DOMAIN copies' : copies'[k] = copies[k]
      /\ \A q \in Player : spawned'[q] => place'[q] \in DOMAIN copies'
  <2>1. LeaveCopy(p)
    BY DEF TransferZone
  <2>2. CASE Deserted(p)
    <3>1. /\ DOMAIN copies' = DOMAIN copies \ {place[p]}
          /\ \A k \in DOMAIN copies' : copies'[k] = copies[k]
      BY <2>1, <2>2 DEF LeaveCopy, Without
    <3>2. \A q \in Player : spawned'[q] =>
             /\ spawned[q] /\ q # p /\ place'[q] = place[q] /\ place[q] # place[p]
      BY <1>1, <2>2 DEF Deserted, Base, TypeOK
    <3>3. QED
      BY <3>1, <3>2 DEF Base, TypeOK
  <2>3. CASE ~Deserted(p)
    BY <1>1, <2>1, <2>3 DEF LeaveCopy, Base, TypeOK
  <2>4. QED
    BY <2>2, <2>3
<1>4. /\ present' \subseteq present
      /\ DOMAIN tracked' \subseteq DOMAIN tracked
      /\ \A e \in DOMAIN tracked' : tracked'[e] = tracked[e]
      /\ engaged' \in [Eid -> SUBSET Player]
      /\ relayed' \subseteq Eid
  <2>1. LeaveCopy(p)
    BY DEF TransferZone
  <2>2. CASE Deserted(p)
    <3> DEFINE ids == {EidOf(o) : o \in present \cap MobsOf(copies[place[p]])}
                         \cap DOMAIN tracked
    <3>1. /\ present' \subseteq present
          /\ tracked' = Without(tracked, ids)
          /\ engaged' = [e \in Eid |-> IF e \in ids THEN {} ELSE engaged[e]]
          /\ relayed' = relayed \ ids
      BY <2>1, <2>2 DEF LeaveCopy
    <3> HIDE DEF ids
    <3>2. QED
      BY <3>1 DEF Without, Base, TypeOK
  <2>3. CASE ~Deserted(p)
    BY <2>1, <2>3 DEF LeaveCopy, Base, TypeOK
  <2>4. QED
    BY <2>2, <2>3
<1>5. TypeOK'
  BY <1>1, <1>2, <1>3, <1>4 DEF Base, TypeOK
<1>6. Known' /\ PaidGone'
  BY <1>1, <1>4 DEF Base, Known, PaidGone, EidOf
<1>7. QED
  BY <1>5, <1>6 DEF Base

LEMMA RelayType ==
    ASSUME TypeOK, NEW p \in Player, NEW e, Relay(p, e)
    PROVE  /\ engaged' \in [Eid -> SUBSET Player]
           /\ relayed' \subseteq Eid
           /\ faults' \subseteq {"unknown", "other", "health"} \X Player
<1>1. Viewers(p, e) \subseteq Player
  BY DEF Viewers
<1>2. QED
  BY <1>1 DEF Relay, TypeOK

LEMMA UseTargetBase ==
    ASSUME Base, NEW p \in Player, NEW o \in alive[p], UseTarget(p, o)
    PROVE  Base'
<1>1. /\ o \in Mob
      /\ hurt' = [hurt EXCEPT ![p] = @ \cup {o}]
      /\ swing' \in [Player -> Mob \cup {NoMob}]
      /\ Relay(p, EidOf(o))
      /\ UNCHANGED <<worldVars, mobVars, hooked, reports, due, alive, corpse>>
  BY DEF UseTarget, Base, TypeOK
<1>2. hurt' \in [Player -> SUBSET Mob]
  BY <1>1 DEF Base, TypeOK
<1>3. /\ engaged' \in [Eid -> SUBSET Player]
      /\ relayed' \subseteq Eid
      /\ faults' \subseteq {"unknown", "other", "health"} \X Player
  BY <1>1, RelayType DEF Base
<1>4. TypeOK'
  BY <1>1, <1>2, <1>3 DEF Base, TypeOK, worldVars, mobVars
<1>5. Known' /\ PaidGone'
  BY <1>1 DEF Base, Known, PaidGone, EidOf, worldVars, mobVars
<1>6. QED
  BY <1>4, <1>5 DEF Base

LEMMA TickBase ==
    ASSUME Base, NEW p \in Player, TickCombat(p)
    PROVE  Base'
<1> DEFINE o == swing[p]
           e == EidOf(o)
<1>1. /\ o \in Mob
      /\ UNCHANGED <<worldVars, hooked, reports>>
      /\ \/ /\ ClearCombat(p)
            /\ UNCHANGED <<mobVars, relayVars, due, clientVars>>
         \/ /\ health[o] > 1
            /\ health' = [health EXCEPT ![o] = @ - 1]
            /\ UNCHANGED <<present, tracked, paid, relayVars, swing, due,
                           clientVars>>
         \/ /\ health' = [health EXCEPT ![o] = 0]
            /\ ClearCombat(p)
            /\ IF e \in DOMAIN tracked
               THEN ProcessKill(e, p, o)
               ELSE UNCHANGED <<present, tracked, paid, relayVars, due,
                                clientVars>>
  BY NoneAssumption DEF TickCombat, Base, TypeOK, Mob
<1> HIDE DEF o, e
<1>2. health' \in [Mob -> 0..MaxHp]
  BY <1>1, NumberAssumption DEF Base, TypeOK, mobVars
<1>3. swing' \in [Player -> Mob \cup {NoMob}]
  BY <1>1 DEF ClearCombat, Base, TypeOK
<1>4. CASE UNCHANGED <<present, tracked, paid, relayVars, due, clientVars>>
  <2>1. TypeOK'
    BY <1>1, <1>2, <1>3, <1>4 DEF Base, TypeOK, worldVars, relayVars, clientVars
  <2>2. Known' /\ PaidGone'
    BY <1>1, <1>4 DEF Base, Known, PaidGone, EidOf, worldVars
  <2>3. QED
    BY <2>1, <2>2 DEF Base
<1>5. CASE e \in DOMAIN tracked /\ ProcessKill(e, p, o)
  <2>1. KillTypes' /\ Known' /\ PaidGone'
    BY <1>1, <1>5, ProcessKillBase
  <2>2. TypeOK'
    BY <1>1, <1>2, <1>3, <2>1 DEF Base, TypeOK, KillTypes, worldVars
  <2>3. QED
    BY <2>1, <2>2 DEF Base
<1>6. QED
  BY <1>1, <1>4, <1>5 DEF mobVars

LEMMA ClientKillBase ==
    ASSUME Base, NEW p \in Player, NEW o \in alive[p], NEW k \in {p, Nobody},
           ClientKill(p, o, k)
    PROVE  Base'
<1>1. o \in Mob
  BY DEF Base, TypeOK
<1>2. /\ alive' \in [Player -> SUBSET Mob]
      /\ corpse' \in [Player -> SUBSET Mob]
  BY <1>1 DEF ClientKill, Base, TypeOK
<1>3. reports' \subseteq Report
  BY <1>1 DEF ClientKill, Base, TypeOK, Report
<1>4. TypeOK'
  BY <1>2, <1>3 DEF ClientKill, Base, TypeOK, worldVars, mobVars, relayVars
<1>5. Known' /\ PaidGone'
  BY DEF ClientKill, Base, Known, PaidGone, EidOf, worldVars, mobVars
<1>6. QED
  BY <1>4, <1>5 DEF Base

LEMMA OnKillBase ==
    ASSUME Base, NEW r \in reports, OnKill(r)
    PROVE  Base'
<1> DEFINE e == EidOf(r.mob)
<1>1. /\ r.mob \in Mob
      /\ r.killer \in Player \cup {Nobody}
      /\ reports' \subseteq reports
      /\ UNCHANGED <<worldVars, health, swing, hooked>>
  BY DEF OnKill, Base, TypeOK, Report
<1>2. CASE e \in DOMAIN tracked /\ \E k \in Killer(r) : ProcessKill(e, k, r.mob)
  <2>1. PICK k \in Killer(r) : ProcessKill(e, k, r.mob)
    BY <1>2
  <2>2. k \in Player
    BY <1>1 DEF Killer
  <2> HIDE DEF e
  <2>3. KillTypes' /\ Known' /\ PaidGone'
    BY <1>1, <1>2, <2>1, <2>2, ProcessKillBase
  <2>4. TypeOK'
    BY <1>1, <2>3 DEF Base, TypeOK, KillTypes, worldVars
  <2>5. QED
    BY <2>3, <2>4 DEF Base
<1>3. CASE UNCHANGED <<present, tracked, paid, relayVars, due, clientVars>>
  <2>1. TypeOK'
    BY <1>1, <1>3 DEF Base, TypeOK, worldVars, relayVars, clientVars
  <2>2. Known' /\ PaidGone'
    BY <1>1, <1>3 DEF Base, Known, PaidGone, EidOf, worldVars
  <2>3. QED
    BY <2>1, <2>2 DEF Base
<1>4. QED
  BY <1>2, <1>3 DEF OnKill

LEMMA ObserveBase ==
    ASSUME Base, NEW p \in Player, NEW hp \in 0..MaxHp, NEW o \in hurt[p],
           ObserveMonsterHp(p, o, hp)
    PROVE  Base'
<1> DEFINE e == EidOf(o)
<1>1. /\ o \in Mob
      /\ e \in DOMAIN tracked
      /\ health' = [health EXCEPT ![tracked[e]] = hp]
      /\ UNCHANGED <<worldVars, swing, hooked, reports>>
      /\ \/ ProcessKill(e, p, o)
         \/ UNCHANGED <<present, tracked, paid, relayVars, due, clientVars>>
  BY DEF ObserveMonsterHp, Base, TypeOK
<1> HIDE DEF e
<1>2. health' \in [Mob -> 0..MaxHp]
  BY <1>1 DEF Base, TypeOK
<1>3. CASE ProcessKill(e, p, o)
  <2>1. KillTypes' /\ Known' /\ PaidGone'
    BY <1>1, <1>3, ProcessKillBase
  <2>2. TypeOK'
    BY <1>1, <1>2, <2>1 DEF Base, TypeOK, KillTypes, worldVars
  <2>3. QED
    BY <2>1, <2>2 DEF Base
<1>4. CASE UNCHANGED <<present, tracked, paid, relayVars, due, clientVars>>
  <2>1. TypeOK'
    BY <1>1, <1>2, <1>4 DEF Base, TypeOK, worldVars, relayVars, clientVars
  <2>2. Known' /\ PaidGone'
    BY <1>1, <1>4 DEF Base, Known, PaidGone, EidOf, worldVars
  <2>3. QED
    BY <2>1, <2>2 DEF Base
<1>5. QED
  BY <1>1, <1>3, <1>4

LEMMA DeferredBase ==
    ASSUME Base, NEW d \in due, DeferredDestroy(d)
    PROVE  Base'
<1>1. /\ d.to \in Player
      /\ due' \subseteq due
      /\ Destroyed({d.to}, d.mob) \/ UNCHANGED clientVars
      /\ UNCHANGED <<worldVars, mobVars, relayVars, swing, hooked, reports>>
  BY DEF DeferredDestroy, Base, TypeOK
<1>2. /\ {alive', corpse', hurt'} \subseteq [Player -> SUBSET Mob]
      /\ faults' \subseteq {"unknown", "other", "health"} \X Player
  <2>1. CASE Destroyed({d.to}, d.mob)
    BY <1>1, <2>1, DestroyedType DEF Base
  <2>2. CASE UNCHANGED clientVars
    BY <2>2 DEF clientVars, Base, TypeOK
  <2>3. QED
    BY <1>1, <2>1, <2>2
<1>3. TypeOK'
  BY <1>1, <1>2 DEF Base, TypeOK, worldVars, mobVars, relayVars
<1>4. Known' /\ PaidGone'
  BY <1>1 DEF Base, Known, PaidGone, EidOf, worldVars, mobVars
<1>5. QED
  BY <1>3, <1>4 DEF Base

LEMMA StepBase == Base /\ [Next]_vars => Base'
<1> SUFFICES ASSUME Base, [Next]_vars PROVE Base'
  OBVIOUS
<1>1. ASSUME NEW p \in Player, PlayerSpawned(p) PROVE Base'
  BY <1>1, SpawnBase
<1>2. ASSUME NEW p \in Player, NEW z \in Level \cup {Town}, TransferZone(p, z)
      PROVE Base'
  BY <1>2, TransferBase
<1>3. CASE ResetInstances
  <2>1. TypeOK'
    BY <1>3, NumberAssumption
    DEF ResetInstances, Base, TypeOK, mobVars, relayVars, clientVars
  <2>2. QED
    BY <1>3, <2>1 DEF ResetInstances, Base, Known, PaidGone, EidOf, mobVars
<1>4. ASSUME NEW p \in Player, NEW o \in alive[p], UseTarget(p, o) PROVE Base'
  BY <1>4, UseTargetBase
<1>5. ASSUME NEW p \in Player, NEW o \in alive[p], UsePosition(p, o) PROVE Base'
  <2>1. hurt' \in [Player -> SUBSET Mob]
    BY <1>5 DEF UsePosition, Base, TypeOK
  <2>2. TypeOK'
    BY <1>5, <2>1 DEF UsePosition, Base, TypeOK, worldVars, mobVars, relayVars
  <2>3. QED
    BY <1>5, <2>2 DEF UsePosition, Base, Known, PaidGone, EidOf, worldVars, mobVars
<1>6. ASSUME NEW p \in Player, CancelAction(p) PROVE Base'
  <2>1. swing' \in [Player -> Mob \cup {NoMob}]
    BY <1>6 DEF CancelAction, ClearCombat, Base, TypeOK
  <2>2. TypeOK'
    BY <1>6, <2>1 DEF CancelAction, Base, TypeOK, worldVars, mobVars, relayVars, clientVars
  <2>3. QED
    BY <1>6, <2>2 DEF CancelAction, Base, Known, PaidGone, EidOf, worldVars, mobVars
<1>7. ASSUME NEW p \in Player, TickCombat(p) PROVE Base'
  BY <1>7, TickBase
<1>8. ASSUME NEW p \in Player, NEW o \in alive[p], NEW k \in {p, Nobody},
             ClientKill(p, o, k)
      PROVE Base'
  BY <1>8, ClientKillBase
<1>9. ASSUME NEW r \in reports, OnKill(r) PROVE Base'
  BY <1>9, OnKillBase
<1>10. ASSUME NEW p \in Player, NEW hp \in 0..MaxHp, NEW o \in hurt[p],
              ObserveMonsterHp(p, o, hp)
       PROVE Base'
  BY <1>10, ObserveBase
<1>11. ASSUME NEW d \in due, DeferredDestroy(d) PROVE Base'
  BY <1>11, DeferredBase
<1>12. ASSUME NEW p \in Player, Hook(p) PROVE Base'
  <2>1. TypeOK'
    BY <1>12 DEF Hook, Base, TypeOK, worldVars, mobVars, relayVars, clientVars
  <2>2. QED
    BY <1>12, <2>1 DEF Hook, Base, Known, PaidGone, EidOf, worldVars, mobVars
<1>13. CASE UNCHANGED vars
  <2>1. TypeOK'
    BY <1>13 DEF vars, Base, TypeOK
  <2>2. QED
    BY <1>13, <2>1 DEF vars, Base, Known, PaidGone, EidOf
<1>14. QED
  BY <1>1, <1>2, <1>3, <1>4, <1>5, <1>6, <1>7, <1>8, <1>9, <1>10, <1>11,
     <1>12, <1>13 DEF Next

(* Every reachable state is well typed.                                    *)
THEOREM TypeCorrect == Spec => []TypeOK
<1>1. Base => TypeOK
  BY DEF Base
<1>2. QED
  BY InitBase, StepBase, <1>1, PTL DEF Spec

(* No monster is paid for twice: the replay of a swing, the reports of the *)
(* hooks and the health the clients report may each see it die, in any     *)
(* order and any number of times, and ids may be given out again while     *)
(* their last bearers live (_process_monster_kill).                        *)
THEOREM PaidAtMostOnce == Spec => []OnePayment
<1>1. Base => OnePayment
  <2> SUFFICES ASSUME Base, NEW o \in Mob PROVE Len(paid[o]) <= 1
    BY DEF OnePayment
  <2>1. CASE paid[o] = <<>>
    BY <2>1
  <2>2. CASE paid[o] # <<>>
    <3>1. Len(paid[o]) = 1
      BY <2>2 DEF Base, PaidGone
    <3>2. QED
      BY <3>1
  <2>3. QED
    BY <2>1, <2>2
<1>2. QED
  BY InitBase, StepBase, <1>1, PTL DEF Spec

-----------------------------------------------------------------------------
(* The shapes of a step *)

(* The evidence of a death: a replayed swing, a report, a client's health. *)
Evident(m) ==
    \/ \E p \in Player : swing[p] = m
    \/ \E r \in reports : r.mob = m
    \/ \E p \in Player : m \in hurt[p]

(* Evidence is only used up.                                               *)
Spent ==
    /\ reports' \subseteq reports
    /\ \A p \in Player : swing'[p] \in {swing[p], NoMob}

(* A monster dies on the server.                                           *)
Dies(e, killer, m) ==
    /\ EidOf(m) = e
    /\ Evident(m)
    /\ ProcessKill(e, killer, m)
    /\ UNCHANGED worldVars
    /\ Spent

(* Nothing is told, killed, entered or left.                               *)
Quiet ==
    /\ UNCHANGED <<place, spawned, made, copies, present, tracked, paid,
                   relayVars, due, alive, corpse, faults>>
    /\ \A p \in Player : hurt'[p] \subseteq hurt[p] \cup alive[p]
    /\ ~Harmful => hurt' = hurt
    /\ Spent

LEMMA Shapes ==
    ASSUME Base, [Next]_vars
    PROVE  \/ \E p \in Player : PlayerSpawned(p)
           \/ \E p \in Player, z \in Level \cup {Town} : TransferZone(p, z)
           \/ \E p \in Player : \E o \in alive[p] : UseTarget(p, o)
           \/ \E p \in Player : \E o \in alive[p], k \in {p, Nobody} : ClientKill(p, o, k)
           \/ \E e \in DOMAIN tracked, k \in Player, m \in Mob : Dies(e, k, m)
           \/ \E d \in due : DeferredDestroy(d)
           \/ Quiet
<1>1. CASE ResetInstances
  <2>1. Quiet
    BY <1>1 DEF ResetInstances, Quiet, Spent, mobVars, clientVars
  <2>2. QED
    BY <2>1
<1>2. ASSUME NEW p \in Player, NEW o \in alive[p], UsePosition(p, o) PROVE Quiet
  BY <1>2 DEF UsePosition, Quiet, Spent, worldVars, mobVars, Base, TypeOK
<1>3. ASSUME NEW p \in Player, CancelAction(p) PROVE Quiet
  BY <1>3 DEF CancelAction, ClearCombat, Quiet, Spent, worldVars, mobVars,
              clientVars, Base, TypeOK
<1>4. ASSUME NEW p \in Player, TickCombat(p)
      PROVE  Quiet \/ \E e \in DOMAIN tracked, k \in Player, m \in Mob : Dies(e, k, m)
  <2> DEFINE o == swing[p]
             e == EidOf(o)
  <2>1. /\ o \in Mob
        /\ UNCHANGED <<worldVars, hooked, reports>>
        /\ \A q \in Player : swing'[q] \in {swing[q], NoMob}
        /\ \/ UNCHANGED <<present, tracked, paid, relayVars, due, clientVars>>
           \/ e \in DOMAIN tracked /\ ProcessKill(e, p, o)
    BY <1>4 DEF TickCombat, ClearCombat, mobVars, Base, TypeOK
  <2>2. CASE e \in DOMAIN tracked /\ ProcessKill(e, p, o)
    <3>1. Dies(e, p, o)
      BY <2>1, <2>2 DEF Dies, Evident, Spent
    <3>2. QED
      BY <2>1, <2>2, <3>1
  <2>3. CASE UNCHANGED <<present, tracked, paid, relayVars, due, clientVars>>
    BY <2>1, <2>3 DEF Quiet, Spent, worldVars, clientVars
  <2>4. QED
    BY <2>1, <2>2, <2>3
<1>5. ASSUME NEW r \in reports, OnKill(r)
      PROVE  Quiet \/ \E e \in DOMAIN tracked, k \in Player, m \in Mob : Dies(e, k, m)
  <2> DEFINE e == EidOf(r.mob)
  <2>1. /\ r.mob \in Mob
        /\ r.killer \in Player \cup {Nobody}
        /\ UNCHANGED <<worldVars, health, swing, hooked>>
        /\ Spent
    BY <1>5 DEF OnKill, Spent, Base, TypeOK, Report
  <2>2. CASE e \in DOMAIN tracked /\ \E k \in Killer(r) : ProcessKill(e, k, r.mob)
    <3>1. PICK k \in Killer(r) : ProcessKill(e, k, r.mob)
      BY <2>2
    <3>2. k \in Player
      BY <2>1 DEF Killer
    <3>3. Dies(e, k, r.mob)
      BY <2>1, <3>1 DEF Dies, Evident
    <3>4. QED
      BY <2>1, <2>2, <3>2, <3>3
  <2>3. CASE UNCHANGED <<present, tracked, paid, relayVars, due, clientVars>>
    BY <2>1, <2>3 DEF Quiet, worldVars, clientVars
  <2>4. QED
    BY <1>5, <2>2, <2>3 DEF OnKill
<1>6. ASSUME NEW p \in Player, NEW hp \in 0..MaxHp, NEW o \in hurt[p],
             ObserveMonsterHp(p, o, hp)
      PROVE  Quiet \/ \E e \in DOMAIN tracked, k \in Player, m \in Mob : Dies(e, k, m)
  <2> DEFINE e == EidOf(o)
  <2>1. /\ o \in Mob
        /\ e \in DOMAIN tracked
        /\ UNCHANGED <<worldVars, swing, hooked, reports>>
        /\ \/ ProcessKill(e, p, o)
           \/ UNCHANGED <<present, tracked, paid, relayVars, due, clientVars>>
    BY <1>6 DEF ObserveMonsterHp, Base, TypeOK
  <2>2. Spent
    BY <2>1 DEF Spent
  <2>3. CASE ProcessKill(e, p, o)
    <3>1. Dies(e, p, o)
      BY <2>1, <2>2, <2>3 DEF Dies, Evident
    <3>2. QED
      BY <2>1, <3>1
  <2>4. CASE UNCHANGED <<present, tracked, paid, relayVars, due, clientVars>>
    BY <2>1, <2>2, <2>4 DEF Quiet, worldVars, clientVars
  <2>5. QED
    BY <2>1, <2>3, <2>4
<1>7. ASSUME NEW p \in Player, Hook(p) PROVE Quiet
  BY <1>7 DEF Hook, Quiet, Spent, worldVars, mobVars, clientVars
<1>8. CASE UNCHANGED vars
  BY <1>8 DEF vars, Quiet, Spent, relayVars
<1>9. QED
  BY <1>1, <1>2, <1>3, <1>4, <1>5, <1>6, <1>7, <1>8 DEF Next

-----------------------------------------------------------------------------
(* Steps: the table of monsters *)

(* The live copies have keys and populators of their own.                  *)
CopiesApart ==
    /\ \A k \in DOMAIN copies : made[copies[k]].key = k
    /\ \A k, l \in DOMAIN copies :
           made[copies[k]].by = made[copies[l]].by => k = l

Live ==
    /\ {tracked[e] : e \in DOMAIN tracked} = present
    /\ \A e \in DOMAIN tracked : Standing(tracked[e])
    /\ \A e \in Eid : engaged[e] # {} \/ e \in relayed => e \in DOMAIN tracked

Sound == Base /\ CopiesApart /\ Live

(* Of the monsters that stand, no two share an id.                         *)
LEMMA OneBearer ==
    ASSUME CopiesApart, NEW o \in Mob, NEW x \in Mob,
           Standing(o), Standing(x), EidOf(o) = EidOf(x)
    PROVE  o = x
<1>1. made[o[1]].by = made[x[1]].by /\ o[2] = x[2]
  BY DEF EidOf
<1>2. HomeOf(o) = HomeOf(x)
  BY <1>1 DEF CopiesApart, Standing
<1>3. o[1] = x[1]
  BY <1>2 DEF Standing
<1>4. QED
  BY <1>1, <1>3 DEF Mob

(* What is on the ground of a live copy stands.                            *)
LEMMA InCopyStands ==
    ASSUME TypeOK, CopiesApart, NEW k \in DOMAIN copies, NEW o \in MobsOf(copies[k])
    PROVE  o \in Mob /\ o[1] \in DOMAIN made /\ Standing(o) /\ HomeOf(o) = k
<1>1. o[1] = copies[k] /\ copies[k] \in DOMAIN made
  BY DEF MobsOf, TypeOK
<1>2. copies[k] \in 1..MaxGen
  BY <1>1, MadeType
<1>3. o \in Mob
  BY <1>2, MobsType
<1>4. QED
  BY <1>1, <1>3 DEF Standing, HomeOf, CopiesApart

(* A kill takes the one bearer of the id out of the copy.                  *)
LEMMA PurgedIsTracked ==
    ASSUME Sound, NEW e \in DOMAIN tracked
    PROVE  Purged(e) = present \ {tracked[e]}
<1> DEFINE holders == {o \in present : EidOf(o) = e}
<1>1. holders = {tracked[e]}
  BY DEF Sound, Base, Known, Live
<1>2. tracked[e][1] <= tracked[e][1]
  BY DEF Sound, Base, TypeOK, Mob
<1> HIDE DEF holders
<1>3. {o \in holders : \A x \in holders : o[1] <= x[1]} = {tracked[e]}
  BY <1>1, <1>2
<1>4. QED
  BY <1>3 DEF Purged, holders

LEMMA DiesSound ==
    ASSUME Sound, NEW e \in DOMAIN tracked, NEW k \in Player, NEW m \in Mob,
           Dies(e, k, m)
    PROVE  CopiesApart' /\ Live'
<1>1. /\ DOMAIN tracked' = DOMAIN tracked \ {e}
      /\ \A f \in DOMAIN tracked' : tracked'[f] = tracked[f]
      /\ engaged' = [engaged EXCEPT ![e] = {}]
      /\ relayed' = relayed \ {e}
      /\ present' = present \ {tracked[e]}
      /\ UNCHANGED <<made, copies>>
  BY PurgedIsTracked DEF Dies, ProcessKill, Without, worldVars
<1>2. CopiesApart'
  BY <1>1 DEF Sound, CopiesApart
<1>3. \A f \in DOMAIN tracked : f # e => tracked[f] # tracked[e]
  BY DEF Sound, Base, Known
<1>4. {tracked'[f] : f \in DOMAIN tracked'} = present'
  BY <1>1, <1>3 DEF Sound, Live
<1>5. \A f \in DOMAIN tracked' : Standing(tracked[f])'
  BY <1>1 DEF Sound, Live, Standing, HomeOf
<1>6. \A f \in Eid : engaged'[f] # {} \/ f \in relayed' => f \in DOMAIN tracked'
  BY <1>1 DEF Sound, Base, TypeOK, Live
<1>7. QED
  BY <1>2, <1>4, <1>5, <1>6 DEF Live

LEMMA MakesSound ==
    ASSUME Sound, Apart, NEW p \in Player, NEW k, NEW g, Makes(p, k, g),
           UNCHANGED relayVars
    PROVE  CopiesApart' /\ Live'
<1>1. \A l \in DOMAIN copies : l # k /\ copies[l] \in DOMAIN made /\ copies[l] # g
  BY DEF Makes, Sound, Base, TypeOK
<1>2. CopiesApart'
  <2>1. \A l \in DOMAIN copies' :
           /\ l = k => made'[copies'[l]].key = k /\ made'[copies'[l]].by = p
           /\ l # k => /\ l \in DOMAIN copies
                       /\ made'[copies'[l]] = made[copies[l]]
                       /\ made'[copies'[l]].by # p
    BY <1>1 DEF Makes
  <2>2. QED
    BY <2>1 DEF Sound, CopiesApart
<1>3. \A e \in DOMAIN tracked : e[1] # p
  <2> SUFFICES ASSUME NEW e \in DOMAIN tracked, e[1] = p PROVE FALSE
    OBVIOUS
  <2>1. /\ HomeOf(tracked[e]) \in DOMAIN copies
        /\ copies[HomeOf(tracked[e])] = tracked[e][1]
        /\ made[tracked[e][1]].by = p
    BY DEF Sound, Base, Known, EidOf, Live, Standing
  <2>2. QED
    BY <2>1 DEF Makes
<1>4. \A e \in DOMAIN tracked' :
         \/ e \in DOMAIN tracked /\ tracked'[e] = tracked[e]
         \/ e \in {p} \X (1..Mobs) /\ tracked'[e] = <<g, e[2]>>
  BY DEF Makes, Sound, Base, TypeOK, Eid
<1>5. \A e \in DOMAIN tracked : e \in DOMAIN tracked' /\ tracked'[e] = tracked[e]
  BY <1>3 DEF Makes
<1>6. \A i \in 1..Mobs : <<p, i>> \in DOMAIN tracked' /\ tracked'[<<p, i>>] = <<g, i>>
  BY DEF Makes
<1>7. {tracked'[e] : e \in DOMAIN tracked'} = present'
  <2>1. ASSUME NEW e \in DOMAIN tracked' PROVE tracked'[e] \in present'
    BY <1>4 DEF Makes, Sound, Live, MobsOf
  <2>2. ASSUME NEW o \in present'
        PROVE  \E e \in DOMAIN tracked' : tracked'[e] = o
    <3>1. CASE o \in present
      BY <1>5, <3>1 DEF Sound, Live
    <3>2. CASE o \in MobsOf(g)
      <4>1. o[2] \in 1..Mobs /\ o = <<g, o[2]>>
        BY <3>2 DEF MobsOf
      <4>2. QED
        BY <1>6, <4>1
    <3>3. QED
      BY <3>1, <3>2 DEF Makes
  <2>3. QED
    BY <2>1, <2>2
<1>8. \A e \in DOMAIN tracked' : Standing(tracked[e])'
  <2> SUFFICES ASSUME NEW e \in DOMAIN tracked'
               PROVE  LET o == tracked'[e]
                      IN  /\ made'[o[1]].key \in DOMAIN copies'
                          /\ copies'[made'[o[1]].key] = o[1]
    BY DEF Standing, HomeOf
  <2>1. CASE e \in DOMAIN tracked /\ tracked'[e] = tracked[e]
    BY <2>1 DEF Makes, Sound, Base, Known, Live, Standing, HomeOf
  <2>2. CASE e \in {p} \X (1..Mobs) /\ tracked'[e] = <<g, e[2]>>
    BY <2>2 DEF Makes
  <2>3. QED
    BY <1>4, <2>1, <2>2
<1>9. \A e \in Eid : engaged'[e] # {} \/ e \in relayed' => e \in DOMAIN tracked'
  BY <1>5 DEF Sound, Live, relayVars
<1>10. QED
  BY <1>2, <1>7, <1>8, <1>9 DEF Live

(* What leaving does.                                                      *)
LEMMA LeaveShape ==
    ASSUME Sound, NEW p \in Player, NEW z \in Level \cup {Town}, TransferZone(p, z)
    PROVE  /\ made' = made
           /\ \A k \in DOMAIN copies' : k \in DOMAIN copies /\ copies'[k] = copies[k]
           /\ DOMAIN tracked' \subseteq DOMAIN tracked
           /\ \A e \in DOMAIN tracked' : tracked'[e] = tracked[e]
           /\ CopiesApart' /\ Live'
<1>1. LeaveCopy(p) /\ made' = made
  BY DEF TransferZone
<1>2. CASE Deserted(p)
  <2> DEFINE k == place[p]
             left == present \cap MobsOf(copies[k])
             ids == {EidOf(o) : o \in left} \cap DOMAIN tracked
  <2>1. /\ copies' = Without(copies, {k})
        /\ present' = present \ left
        /\ tracked' = Without(tracked, ids)
        /\ engaged' = [e \in Eid |-> IF e \in ids THEN {} ELSE engaged[e]]
        /\ relayed' = relayed \ ids
    BY <1>1, <1>2 DEF LeaveCopy
  <2>2. k \in DOMAIN copies
    BY <1>2 DEF Deserted, Sound, Base, TypeOK
  <2>3. /\ DOMAIN copies' = DOMAIN copies \ {k}
        /\ \A l \in DOMAIN copies' : copies'[l] = copies[l]
    BY <2>1 DEF Without
  <2>4. \A e \in DOMAIN tracked : e \in ids <=> tracked[e] \in left
    <3>1. ASSUME NEW e \in DOMAIN tracked, e \in ids PROVE tracked[e] \in left
      <4>1. PICK o \in left : EidOf(o) = e
        BY <3>1
      <4>2. PICK f \in DOMAIN tracked : tracked[f] = o
        BY <4>1 DEF Sound, Live
      <4>3. QED
        BY <4>1, <4>2 DEF Sound, Base, Known
    <3>2. ASSUME NEW e \in DOMAIN tracked, tracked[e] \in left PROVE e \in ids
      BY <3>2 DEF Sound, Base, Known
    <3>3. QED
      BY <3>1, <3>2
  <2>5. \A e \in DOMAIN tracked : tracked[e] \in left <=> HomeOf(tracked[e]) = k
    <3> SUFFICES ASSUME NEW e \in DOMAIN tracked
                 PROVE  tracked[e] \in left <=> HomeOf(tracked[e]) = k
      OBVIOUS
    <3>1. /\ tracked[e] \in Mob /\ tracked[e] \in present
          /\ HomeOf(tracked[e]) \in DOMAIN copies
          /\ copies[HomeOf(tracked[e])] = tracked[e][1]
      BY DEF Sound, Base, TypeOK, Live, Standing
    <3>2. tracked[e] \in left => HomeOf(tracked[e]) = k
      BY <2>2, InCopyStands DEF Sound, Base
    <3>3. HomeOf(tracked[e]) = k => tracked[e] \in MobsOf(copies[k])
      BY <3>1 DEF MobsOf, Mob
    <3>4. QED
      BY <3>1, <3>2, <3>3
  <2> HIDE DEF ids, left, k
  <2>6. /\ DOMAIN tracked' = DOMAIN tracked \ ids
        /\ \A e \in DOMAIN tracked' : tracked'[e] = tracked[e]
    BY <2>1 DEF Without
  <2>7. CopiesApart'
    BY <1>1, <2>3 DEF Sound, CopiesApart
  <2>8. {tracked'[e] : e \in DOMAIN tracked'} = present'
    BY <2>1, <2>4, <2>6 DEF Sound, Live
  <2>9. \A e \in DOMAIN tracked' : Standing(tracked[e])'
    BY <1>1, <2>3, <2>4, <2>5, <2>6 DEF Sound, Live, Standing, HomeOf
  <2>10. \A e \in Eid : engaged'[e] # {} \/ e \in relayed' => e \in DOMAIN tracked'
    BY <2>1, <2>6 DEF Sound, Live
  <2>11. QED
    BY <1>1, <2>3, <2>6, <2>7, <2>8, <2>9, <2>10 DEF Live
<1>3. CASE ~Deserted(p)
  <2>1. UNCHANGED <<made, copies, present, tracked, engaged, relayed>>
    BY <1>1, <1>3 DEF LeaveCopy
  <2>2. QED
    BY <2>1 DEF Sound, CopiesApart, Live, Standing, HomeOf
<1>4. QED
  BY <1>2, <1>3

LEMMA RelayShape ==
    ASSUME Base, NEW p \in Player, NEW e, Relay(p, e)
    PROVE  /\ e \notin DOMAIN tracked => UNCHANGED <<engaged, relayed, faults>>
           /\ \A f \in Eid : f # e => engaged'[f] = engaged[f] /\ (f \in relayed' <=> f \in relayed)
BY DEF Relay, Base, TypeOK

LEMMA StepSound ==
    ASSUME Apart
    PROVE  Sound /\ [Next]_vars => Sound'
<1> SUFFICES ASSUME Sound, [Next]_vars PROVE CopiesApart' /\ Live'
  BY StepBase DEF Sound
<1> USE DEF Sound
<1>1. ASSUME NEW p \in Player, PlayerSpawned(p) PROVE CopiesApart' /\ Live'
  <2>1. PICK g \in 1..MaxGen :
            \/ UNCHANGED <<made, copies, present, tracked>>
            \/ Makes(p, place[p], g)
    BY <1>1, SpawnShape DEF Base
  <2>2. UNCHANGED relayVars
    BY <1>1, SpawnShape DEF Base
  <2>3. CASE UNCHANGED <<made, copies, present, tracked>>
    BY <2>2, <2>3 DEF CopiesApart, Live, Standing, HomeOf, relayVars
  <2>4. CASE Makes(p, place[p], g)
    BY <2>2, <2>4, MakesSound
  <2>5. QED
    BY <2>1, <2>3, <2>4
<1>2. ASSUME NEW p \in Player, NEW z \in Level \cup {Town}, TransferZone(p, z)
      PROVE  CopiesApart' /\ Live'
  BY <1>2, LeaveShape
<1>3. ASSUME NEW p \in Player, NEW o \in alive[p], UseTarget(p, o)
      PROVE  CopiesApart' /\ Live'
  <2>1. UNCHANGED <<made, copies, present, tracked>> /\ Relay(p, EidOf(o))
    BY <1>3 DEF UseTarget, worldVars, mobVars
  <2>2. \A f \in Eid : engaged'[f] # {} \/ f \in relayed' => f \in DOMAIN tracked'
    BY <2>1, RelayShape DEF Live
  <2>3. QED
    BY <2>1, <2>2 DEF CopiesApart, Live, Standing, HomeOf
<1>4. ASSUME NEW p \in Player, NEW o \in alive[p], NEW k \in {p, Nobody},
             ClientKill(p, o, k)
      PROVE  CopiesApart' /\ Live'
  BY <1>4 DEF ClientKill, worldVars, mobVars, relayVars, CopiesApart, Live,
              Standing, HomeOf
<1>5. ASSUME NEW e \in DOMAIN tracked, NEW k \in Player, NEW m \in Mob, Dies(e, k, m)
      PROVE  CopiesApart' /\ Live'
  BY <1>5, DiesSound
<1>6. ASSUME NEW d \in due, DeferredDestroy(d) PROVE CopiesApart' /\ Live'
  BY <1>6 DEF DeferredDestroy, worldVars, mobVars, relayVars, CopiesApart, Live,
              Standing, HomeOf
<1>7. CASE Quiet
  BY <1>7 DEF Quiet, relayVars, CopiesApart, Live, Standing, HomeOf
<1>8. QED
  BY <1>1, <1>2, <1>3, <1>4, <1>5, <1>6, <1>7, Shapes

LEMMA InitSound == Init => Sound
BY InitBase DEF Init, Sound, CopiesApart, Live

(* The table of monsters holds exactly the living ones of the live copies, *)
(* each under its own id, and only they have fighters on record, so that   *)
(* no id is given out with a past (register_monster, unregister_monster,   *)
(* purge_mob): as long as nobody populates a copy while one of his lives.  *)
THEOREM TrackedCorrect ==
    ASSUME Apart
    PROVE  Spec => []TrackedAreLive
<1>1. Sound => TrackedAreLive
  BY DEF Sound, Base, Known, Live, TrackedAreLive
<1>2. QED
  BY InitSound, StepSound, <1>1, PTL DEF Spec

-----------------------------------------------------------------------------
(* Steps: screens and evidence *)

(* A client in a level shows and fights only the monsters of the copy it   *)
(* stands in, and no client shows or fights any elsewhere.                 *)
Screens ==
    \A p \in Player :
        /\ alive[p] \cup corpse[p] \cup hurt[p] \subseteq
              IF spawned[p] THEN MobsOf(copies[place[p]]) ELSE {}
        /\ swing[p] # NoMob =>
              spawned[p] /\ swing[p] \in MobsOf(copies[place[p]])

Watched == Sound /\ Screens

LEMMA ScreenStands ==
    ASSUME Watched, NEW p \in Player,
           NEW o \in alive[p] \cup corpse[p] \cup hurt[p]
    PROVE  /\ spawned[p] /\ place[p] \in DOMAIN copies
           /\ o \in Mob /\ o[1] \in DOMAIN made
           /\ Standing(o) /\ HomeOf(o) = place[p]
           /\ o \in MobsOf(copies[place[p]])
<1>1. spawned[p] /\ o \in MobsOf(copies[place[p]])
  BY DEF Watched, Screens
<1>2. place[p] \in DOMAIN copies
  BY <1>1 DEF Watched, Sound, Base, TypeOK
<1>3. QED
  BY <1>1, <1>2, InCopyStands DEF Watched, Sound, Base

LEMMA SwingStands ==
    ASSUME Watched, NEW p \in Player, swing[p] # NoMob
    PROVE  swing[p] \in Mob /\ swing[p][1] \in DOMAIN made /\ Standing(swing[p])
<1>1. spawned[p] /\ swing[p] \in MobsOf(copies[place[p]])
  BY DEF Watched, Screens
<1>2. place[p] \in DOMAIN copies
  BY <1>1 DEF Watched, Sound, Base, TypeOK
<1>3. QED
  BY <1>1, <1>2, InCopyStands DEF Watched, Sound, Base

(* Under the id of a standing monster only that monster is tracked.        *)
LEMMA TrackedBearer ==
    ASSUME Sound, NEW o \in Mob, Standing(o), EidOf(o) \in DOMAIN tracked
    PROVE  tracked[EidOf(o)] = o
BY OneBearer DEF Sound, Base, TypeOK, Known, Live

(* A removal takes away no more than it should show.                       *)
LEMMA DestroyedShrinks ==
    ASSUME NEW Q \in SUBSET Player, NEW o, Destroyed(Q, o)
    PROVE  \A p \in Player :
              /\ alive'[p] \cup corpse'[p] \cup hurt'[p] \subseteq
                    alive[p] \cup corpse[p] \cup hurt[p]
              /\ alive'[p] \cup corpse'[p] =
                    IF p \in Q THEN (alive[p] \cup corpse[p]) \ OnScreen(p, EidOf(o))
                               ELSE alive[p] \cup corpse[p]
              /\ hurt'[p] \subseteq hurt[p]
<1> SUFFICES ASSUME NEW p \in Player
    PROVE  /\ alive'[p] \cup corpse'[p] \cup hurt'[p] \subseteq
                 alive[p] \cup corpse[p] \cup hurt[p]
           /\ alive'[p] \cup corpse'[p] =
                 IF p \in Q THEN (alive[p] \cup corpse[p]) \ OnScreen(p, EidOf(o))
                            ELSE alive[p] \cup corpse[p]
           /\ hurt'[p] \subseteq hurt[p]
  OBVIOUS
<1>1. /\ alive'[p] = IF p \in Q THEN alive[p] \ OnScreen(p, EidOf(o)) ELSE alive[p]
      /\ corpse'[p] = IF p \in Q THEN corpse[p] \ OnScreen(p, EidOf(o)) ELSE corpse[p]
      /\ hurt'[p] = IF p \in Q THEN hurt[p] \ OnScreen(p, EidOf(o)) ELSE hurt[p]
  BY DEF Destroyed
<1>2. QED
  BY <1>1

(* Where the copies and the players stay, screens that lose monsters stay  *)
(* as they should be.                                                      *)
LEMMA ScreensShrink ==
    ASSUME Screens, UNCHANGED <<place, spawned, copies>>, Spent,
           \A p \in Player : alive'[p] \cup corpse'[p] \cup hurt'[p] \subseteq
                                 alive[p] \cup corpse[p] \cup hurt[p]
    PROVE  Screens'
<1> SUFFICES ASSUME NEW p \in Player
    PROVE  /\ alive'[p] \cup corpse'[p] \cup hurt'[p] \subseteq
                 IF spawned'[p] THEN MobsOf(copies'[place'[p]]) ELSE {}
           /\ swing'[p] # NoMob =>
                 spawned'[p] /\ swing'[p] \in MobsOf(copies'[place'[p]])
  BY DEF Screens, MobsOf
<1>1. swing'[p] # NoMob => swing'[p] = swing[p]
  BY DEF Spent
<1>2. QED
  BY <1>1 DEF Screens

LEMMA SpawnScreens ==
    ASSUME Watched, NEW p \in Player, PlayerSpawned(p)
    PROVE  Screens'
<1>1. /\ place[p] \in Key /\ ~spawned[p]
      /\ spawned' = [spawned EXCEPT ![p] = TRUE]
      /\ UNCHANGED <<place, swing, corpse, hurt>>
  BY SpawnShape DEF Watched, Sound, Base
<1>2. PICK g \in 1..MaxGen :
          /\ alive' = [alive EXCEPT ![p] = MobsOf(g)]
          /\ \/ /\ place[p] \in DOMAIN copies
                /\ g = copies[place[p]]
                /\ UNCHANGED <<made, copies, present, tracked>>
             \/ Makes(p, place[p], g)
  BY SpawnShape DEF Watched, Sound, Base
<1>3. copies'[place[p]] = g /\ \A l \in DOMAIN copies : copies'[l] = copies[l]
  BY <1>2 DEF Makes
<1> SUFFICES ASSUME NEW q \in Player
    PROVE  /\ alive'[q] \cup corpse'[q] \cup hurt'[q] \subseteq
                 IF spawned'[q] THEN MobsOf(copies'[place'[q]]) ELSE {}
           /\ swing'[q] # NoMob =>
                 spawned'[q] /\ swing'[q] \in MobsOf(copies'[place'[q]])
  BY DEF Screens, MobsOf
<1>4. CASE q = p
  <2>1. corpse[p] = {} /\ hurt[p] = {} /\ swing[p] = NoMob
    BY <1>1 DEF Watched, Screens
  <2>2. spawned'[p] /\ alive'[p] = MobsOf(g)
    BY <1>1, <1>2 DEF Watched, Sound, Base, TypeOK
  <2>3. QED
    BY <1>1, <1>3, <1>4, <2>1, <2>2
<1>5. CASE q # p
  <2>1. spawned'[q] = spawned[q] /\ alive'[q] = alive[q]
    BY <1>1, <1>2, <1>5 DEF Watched, Sound, Base, TypeOK
  <2>2. spawned[q] => copies'[place[q]] = copies[place[q]]
    BY <1>3 DEF Watched, Sound, Base, TypeOK
  <2>3. QED
    BY <1>1, <2>1, <2>2 DEF Watched, Screens
<1>6. QED
  BY <1>4, <1>5

LEMMA TransferScreens ==
    ASSUME Watched, NEW p \in Player, NEW z \in Level \cup {Town}, TransferZone(p, z)
    PROVE  Screens'
<1>1. /\ spawned' = [spawned EXCEPT ![p] = FALSE]
      /\ place' = [place EXCEPT ![p] = IF z = Town THEN Town ELSE <<z, token>>]
      /\ swing' = [swing EXCEPT ![p] = NoMob]
      /\ alive' = [alive EXCEPT ![p] = {}]
      /\ corpse' = [corpse EXCEPT ![p] = {}]
      /\ hurt' = [hurt EXCEPT ![p] = {}]
  BY DEF TransferZone, ClearCombat, Despawn
<1>2. \A k \in DOMAIN copies' : k \in DOMAIN copies /\ copies'[k] = copies[k]
  BY LeaveShape DEF Watched
<1>3. Base'
  BY TransferBase DEF Watched, Sound
<1> SUFFICES ASSUME NEW q \in Player
    PROVE  /\ alive'[q] \cup corpse'[q] \cup hurt'[q] \subseteq
                 IF spawned'[q] THEN MobsOf(copies'[place'[q]]) ELSE {}
           /\ swing'[q] # NoMob =>
                 spawned'[q] /\ swing'[q] \in MobsOf(copies'[place'[q]])
  BY DEF Screens, MobsOf
<1>4. CASE q = p
  BY <1>1, <1>4 DEF Watched, Sound, Base, TypeOK
<1>5. CASE q # p
  <2>1. /\ spawned'[q] = spawned[q] /\ place'[q] = place[q] /\ swing'[q] = swing[q]
        /\ alive'[q] = alive[q] /\ corpse'[q] = corpse[q] /\ hurt'[q] = hurt[q]
    BY <1>1, <1>5 DEF Watched, Sound, Base, TypeOK
  <2>2. spawned'[q] => place'[q] \in DOMAIN copies'
    BY <1>3 DEF Base, TypeOK
  <2>3. spawned[q] => copies'[place[q]] = copies[place[q]]
    BY <1>2, <2>1, <2>2
  <2>4. QED
    BY <2>1, <2>3 DEF Watched, Screens
<1>6. QED
  BY <1>4, <1>5

LEMMA UseTargetScreens ==
    ASSUME Watched, NEW p \in Player, NEW o \in alive[p], UseTarget(p, o)
    PROVE  Screens'
<1>1. /\ hurt' = [hurt EXCEPT ![p] = @ \cup {o}]
      /\ UNCHANGED <<place, spawned, copies, tracked, alive, corpse>>
  BY DEF UseTarget, worldVars, mobVars
<1>2. \A q \in Player :
         alive'[q] \cup corpse'[q] \cup hurt'[q] \subseteq
            alive[q] \cup corpse[q] \cup hurt[q]
  BY <1>1 DEF Watched, Sound, Base, TypeOK
<1>3. \A q \in Player : swing'[q] # swing[q] => q = p /\ swing'[q] = o
  <2>1. o \in Mob /\ Standing(o)
    BY ScreenStands
  <2>2. EidOf(o) \in DOMAIN tracked => tracked[EidOf(o)] = o
    BY <2>1, TrackedBearer DEF Watched
  <2>3. \/ swing' = swing
        \/ EidOf(o) \in DOMAIN tracked /\ swing' = [swing EXCEPT ![p] = tracked[EidOf(o)]]
    BY DEF UseTarget
  <2>4. QED
    BY <2>2, <2>3 DEF Watched, Sound, Base, TypeOK
<1>4. spawned[p] /\ o \in MobsOf(copies[place[p]])
  BY ScreenStands
<1> SUFFICES ASSUME NEW q \in Player
    PROVE  /\ alive'[q] \cup corpse'[q] \cup hurt'[q] \subseteq
                 IF spawned'[q] THEN MobsOf(copies'[place'[q]]) ELSE {}
           /\ swing'[q] # NoMob =>
                 spawned'[q] /\ swing'[q] \in MobsOf(copies'[place'[q]])
  BY DEF Screens, MobsOf
<1>5. QED
  BY <1>1, <1>2, <1>3, <1>4 DEF Watched, Screens

LEMMA DiesScreens ==
    ASSUME Watched, NEW e \in DOMAIN tracked, NEW k \in Player, NEW m \in Mob,
           Dies(e, k, m)
    PROVE  Screens'
<1> DEFINE Q == {p \in Player \ {k} : InScope(p, tracked[e])}
<1>1. Destroyed(Q, tracked[e]) /\ Q \in SUBSET Player
  BY DEF Dies, ProcessKill, Removal
<1> HIDE DEF Q
<1>2. \A p \in Player : alive'[p] \cup corpse'[p] \cup hurt'[p] \subseteq
                           alive[p] \cup corpse[p] \cup hurt[p]
  BY <1>1, DestroyedShrinks
<1>3. UNCHANGED <<place, spawned, copies>> /\ Spent
  BY DEF Dies, worldVars
<1>4. QED
  BY <1>2, <1>3, ScreensShrink DEF Watched

LEMMA DeferredScreens ==
    ASSUME Watched, NEW d \in due, DeferredDestroy(d)
    PROVE  Screens'
<1>1. /\ UNCHANGED <<place, spawned, copies>> /\ Spent
      /\ d.to \in Player
      /\ Destroyed({d.to}, d.mob) \/ UNCHANGED <<alive, corpse, hurt>>
  BY DEF DeferredDestroy, worldVars, clientVars, Spent, Watched, Sound, Base, TypeOK
<1>2. \A p \in Player : alive'[p] \cup corpse'[p] \cup hurt'[p] \subseteq
                           alive[p] \cup corpse[p] \cup hurt[p]
  <2>1. CASE Destroyed({d.to}, d.mob)
    BY <1>1, <2>1, DestroyedShrinks
  <2>2. CASE UNCHANGED <<alive, corpse, hurt>>
    BY <2>2
  <2>3. QED
    BY <1>1, <2>1, <2>2
<1>3. QED
  BY <1>1, <1>2, ScreensShrink DEF Watched

LEMMA StepWatched ==
    ASSUME Apart
    PROVE  Watched /\ [Next]_vars => Watched'
<1> SUFFICES ASSUME Watched, [Next]_vars PROVE Screens'
  BY StepSound DEF Watched
<1>1. ASSUME NEW p \in Player, NEW o \in alive[p], NEW k \in {p, Nobody},
             ClientKill(p, o, k)
      PROVE  Screens'
  <2>1. /\ UNCHANGED <<place, spawned, copies, swing, hurt>>
        /\ \A q \in Player : alive'[q] \cup corpse'[q] \subseteq alive[q] \cup corpse[q]
    BY <1>1 DEF ClientKill, worldVars, Watched, Sound, Base, TypeOK
  <2>2. QED
    BY <2>1 DEF Watched, Screens, MobsOf
<1>2. CASE Quiet
  BY <1>2, ScreensShrink DEF Quiet, Watched
<1>3. QED
  BY <1>1, <1>2, SpawnScreens, TransferScreens, UseTargetScreens, DiesScreens,
     DeferredScreens, Shapes DEF Watched, Sound

LEMMA InitWatched == Init => Watched
BY InitSound DEF Init, Watched, Screens

(* No report under way would be taken for one about another monster.       *)
Evidence ==
    \A r \in reports :
        /\ r.mob[1] \in DOMAIN made
        /\ EidOf(r.mob) \in DOMAIN tracked => tracked[EidOf(r.mob)] = r.mob

(* The payments so far were on evidence about the monster that died.       *)
MeantRight ==
    \A o \in Mob : \A i \in DOMAIN paid[o] : paid[o][i].meant = o

(* The loot so far lies in the copy of the monster, or nowhere.            *)
LootHome ==
    \A o \in Mob : \A i \in DOMAIN paid[o] : paid[o][i].at \in {HomeOf(o), Town}

Traced == Watched /\ Evidence /\ MeantRight

OneLevel == \A a, b \in Level : a = b

LEMMA MadeKeeps ==
    ASSUME Base, [Next]_vars
    PROVE  \A h \in DOMAIN made : h \in DOMAIN made' /\ made'[h] = made[h]
<1>1. ASSUME NEW p \in Player, PlayerSpawned(p)
      PROVE  \A h \in DOMAIN made : h \in DOMAIN made' /\ made'[h] = made[h]
  BY <1>1, SpawnShape DEF Makes, Base
<1>2. ASSUME NEW p \in Player, NEW z \in Level \cup {Town}, TransferZone(p, z)
      PROVE  made' = made
  BY <1>2 DEF TransferZone
<1>3. ASSUME NEW p \in Player, NEW o \in alive[p], UseTarget(p, o)
      PROVE  made' = made
  BY <1>3 DEF UseTarget, worldVars
<1>4. ASSUME NEW p \in Player, NEW o \in alive[p], NEW k \in {p, Nobody},
             ClientKill(p, o, k)
      PROVE  made' = made
  BY <1>4 DEF ClientKill, worldVars
<1>5. ASSUME NEW e \in DOMAIN tracked, NEW k \in Player, NEW m \in Mob, Dies(e, k, m)
      PROVE  made' = made
  BY <1>5 DEF Dies, worldVars
<1>6. ASSUME NEW d \in due, DeferredDestroy(d) PROVE made' = made
  BY <1>6 DEF DeferredDestroy, worldVars
<1>7. CASE Quiet
  BY <1>7 DEF Quiet
<1>8. QED
  BY <1>1, <1>2, <1>3, <1>4, <1>5, <1>6, <1>7, Shapes

(* A death is paid as the handler says, and nothing else is paid.          *)
LEMMA PaidShape ==
    ASSUME Base, [Next]_vars
    PROVE  \/ paid' = paid
           \/ \E e \in DOMAIN tracked, k \in Player, m \in Mob :
                 /\ Dies(e, k, m)
                 /\ paid'[tracked[e]] =
                      <<[meant |-> m,
                         at |-> IF InInstance(k, tracked[e]) THEN place[k] ELSE Town]>>
                 /\ \A x \in Mob : x # tracked[e] => paid'[x] = paid[x]
<1>1. ASSUME NEW p \in Player, PlayerSpawned(p) PROVE paid' = paid
  BY <1>1 DEF PlayerSpawned
<1>2. ASSUME NEW p \in Player, NEW z \in Level \cup {Town}, TransferZone(p, z)
      PROVE  paid' = paid
  BY <1>2 DEF TransferZone
<1>3. ASSUME NEW p \in Player, NEW o \in alive[p], UseTarget(p, o)
      PROVE  paid' = paid
  BY <1>3 DEF UseTarget, mobVars
<1>4. ASSUME NEW p \in Player, NEW o \in alive[p], NEW k \in {p, Nobody},
             ClientKill(p, o, k)
      PROVE  paid' = paid
  BY <1>4 DEF ClientKill, mobVars
<1>5. ASSUME NEW d \in due, DeferredDestroy(d) PROVE paid' = paid
  BY <1>5 DEF DeferredDestroy, mobVars
<1>6. CASE Quiet
  BY <1>6 DEF Quiet
<1>7. ASSUME NEW e \in DOMAIN tracked, NEW k \in Player, NEW m \in Mob, Dies(e, k, m)
      PROVE  /\ paid'[tracked[e]] =
                  <<[meant |-> m,
                     at |-> IF InInstance(k, tracked[e]) THEN place[k] ELSE Town]>>
             /\ \A x \in Mob : x # tracked[e] => paid'[x] = paid[x]
  <2> DEFINE o == tracked[e]
             pay == [meant |-> m, at |-> IF InInstance(k, o) THEN place[k] ELSE Town]
  <2>1. paid' = [paid EXCEPT ![o] = Append(@, pay)]
    BY <1>7 DEF Dies, ProcessKill
  <2>2. o \in Mob /\ paid[o] = <<>> /\ paid \in [Mob -> Seq(Payment)]
    BY DEF Base, TypeOK, Known, PaidGone
  <2> HIDE DEF o, pay
  <2>3. paid'[o] = Append(<<>>, pay) /\ \A x \in Mob : x # o => paid'[x] = paid[x]
    BY <2>1, <2>2
  <2>4. Append(<<>>, pay) = <<pay>>
    OBVIOUS
  <2>5. QED
    BY <2>3, <2>4 DEF o, pay
<1>8. QED
  BY <1>1, <1>2, <1>3, <1>4, <1>5, <1>6, <1>7, Shapes

(* The evidence of a death is about the monster that dies.                 *)
LEMMA DiesRight ==
    ASSUME Traced, NEW e \in DOMAIN tracked, NEW k, NEW m \in Mob, Dies(e, k, m)
    PROVE  m = tracked[e]
<1>1. EidOf(m) = e
  BY DEF Dies
<1>2. CASE \E p \in Player : swing[p] = m
  <2>1. Standing(m)
    BY <1>2, SwingStands, NoneAssumption DEF Traced, Mob
  <2>2. QED
    BY <1>1, <2>1, TrackedBearer DEF Traced, Watched
<1>3. CASE \E r \in reports : r.mob = m
  BY <1>1, <1>3 DEF Traced, Evidence
<1>4. CASE \E p \in Player : m \in hurt[p]
  <2>1. Standing(m)
    BY <1>4, ScreenStands DEF Traced
  <2>2. QED
    BY <1>1, <2>1, TrackedBearer DEF Traced, Watched
<1>5. QED
  BY <1>2, <1>3, <1>4 DEF Dies, Evident

LEMMA StepMeant ==
    ASSUME Traced, [Next]_vars
    PROVE  MeantRight'
<1>1. CASE paid' = paid
  BY <1>1 DEF Traced, MeantRight
<1>2. ASSUME NEW e \in DOMAIN tracked, NEW k \in Player, NEW m \in Mob, NEW a,
             Dies(e, k, m),
             paid'[tracked[e]] = <<[meant |-> m, at |-> a]>>,
             \A x \in Mob : x # tracked[e] => paid'[x] = paid[x]
      PROVE  MeantRight'
  <2>1. m = tracked[e]
    BY <1>2, DiesRight
  <2>2. \A i \in DOMAIN paid'[m] : paid'[m][i].meant = m
    BY <1>2, <2>1
  <2>3. QED
    BY <1>2, <2>1, <2>2 DEF Traced, MeantRight
<1>3. QED
  BY <1>1, <1>2, PaidShape DEF Traced, Watched, Sound

(* Evidence that is used up, about monsters that are tracked no longer,    *)
(* stays right.                                                            *)
LEMMA EvidenceShrinks ==
    ASSUME Evidence, made' = made, reports' \subseteq reports,
           DOMAIN tracked' \subseteq DOMAIN tracked,
           \A e \in DOMAIN tracked' : tracked'[e] = tracked[e]
    PROVE  Evidence'
BY DEF Evidence, EidOf

LEMMA StepEvidence ==
    ASSUME Apart, Slow, Traced, [Next]_vars
    PROVE  Evidence'
<1> USE DEF Traced
<1>1. ASSUME NEW p \in Player, PlayerSpawned(p) PROVE Evidence'
  <2>1. PICK g \in 1..MaxGen :
            \/ UNCHANGED <<made, copies, present, tracked>>
            \/ Makes(p, place[p], g)
    BY <1>1, SpawnShape DEF Watched, Sound, Base
  <2>2. reports' = reports
    BY <1>1 DEF PlayerSpawned
  <2>3. CASE UNCHANGED <<made, copies, present, tracked>>
    BY <2>2, <2>3, EvidenceShrinks
  <2>4. CASE Makes(p, place[p], g)
    <3> SUFFICES ASSUME NEW r \in reports
                 PROVE  /\ r.mob[1] \in DOMAIN made'
                        /\ EidOf(r.mob)' \in DOMAIN tracked' =>
                              tracked'[EidOf(r.mob)'] = r.mob
      BY <2>2 DEF Evidence
    <3> DEFINE o == r.mob
    <3>1. o[1] \in DOMAIN made /\ Standing(o)
      BY <2>4 DEF Makes, Evidence
    <3>2. made[o[1]].by # p
      BY <2>4, <3>1 DEF Makes, Standing
    <3>3. o[1] \in DOMAIN made' /\ made'[o[1]] = made[o[1]]
      BY <2>4, <3>1 DEF Makes
    <3>4. \A e : e \in DOMAIN tracked' /\ e[1] # p =>
                    e \in DOMAIN tracked /\ tracked'[e] = tracked[e]
      BY <2>4 DEF Makes
    <3>5. EidOf(o)' = <<made[o[1]].by, o[2]>> /\ EidOf(o) = <<made[o[1]].by, o[2]>>
      BY <3>3, <2>2 DEF EidOf
    <3>6. QED
      BY <3>2, <3>3, <3>4, <3>5 DEF Evidence
  <2>5. QED
    BY <2>1, <2>3, <2>4
<1>2. ASSUME NEW p \in Player, NEW z \in Level \cup {Town}, TransferZone(p, z)
      PROVE  Evidence'
  <2>1. reports' = reports
    BY <1>2 DEF TransferZone
  <2>2. QED
    BY <1>2, <2>1, LeaveShape, EvidenceShrinks DEF Watched
<1>3. ASSUME NEW p \in Player, NEW o \in alive[p], UseTarget(p, o) PROVE Evidence'
  BY <1>3, EvidenceShrinks DEF UseTarget, worldVars, mobVars
<1>4. ASSUME NEW p \in Player, NEW o \in alive[p], NEW k \in {p, Nobody},
             ClientKill(p, o, k)
      PROVE  Evidence'
  <2>1. o \in Mob /\ o[1] \in DOMAIN made /\ Standing(o)
    BY ScreenStands
  <2>2. EidOf(o) \in DOMAIN tracked => tracked[EidOf(o)] = o
    BY <2>1, TrackedBearer DEF Watched
  <2>3. /\ reports' \subseteq reports \cup {[from |-> p, killer |-> k, mob |-> o]}
        /\ UNCHANGED <<made, tracked>>
    BY <1>4 DEF ClientKill, worldVars, mobVars
  <2>4. QED
    BY <2>1, <2>2, <2>3 DEF Evidence, EidOf
<1>5. ASSUME NEW e \in DOMAIN tracked, NEW k \in Player, NEW m \in Mob, Dies(e, k, m)
      PROVE  Evidence'
  <2>1. /\ made' = made /\ reports' \subseteq reports
        /\ DOMAIN tracked' \subseteq DOMAIN tracked
        /\ \A f \in DOMAIN tracked' : tracked'[f] = tracked[f]
    BY <1>5 DEF Dies, Spent, worldVars, ProcessKill, Without
  <2>2. QED
    BY <2>1, EvidenceShrinks
<1>6. ASSUME NEW d \in due, DeferredDestroy(d) PROVE Evidence'
  BY <1>6, EvidenceShrinks DEF DeferredDestroy, worldVars, mobVars
<1>7. CASE Quiet
  BY <1>7, EvidenceShrinks DEF Quiet, Spent
<1>8. QED
  BY <1>1, <1>2, <1>3, <1>4, <1>5, <1>6, <1>7, Shapes DEF Watched, Sound

(* On one level, the players of the copy's instance stand in the copy.     *)
LEMMA AtHome ==
    ASSUME OneLevel, TypeOK, NEW p \in Player, NEW o, o[1] \in DOMAIN made,
           InInstance(p, o)
    PROVE  place[p] = HomeOf(o)
<1>1. place[p] \in Key /\ HomeOf(o) \in Key
  BY HomeType DEF InInstance, TypeOK
<1>2. place[p][2] = HomeOf(o)[2]
  BY DEF InInstance
<1>3. place[p][1] = HomeOf(o)[1]
  BY <1>1 DEF OneLevel, Key
<1>4. QED
  BY <1>1, <1>2, <1>3 DEF Key

LEMMA StepLoot ==
    ASSUME OneLevel, Base, LootHome, [Next]_vars
    PROVE  LootHome'
<1>1. \A o \in Mob : o[1] \in DOMAIN made => HomeOf(o)' = HomeOf(o)
  BY MadeKeeps DEF HomeOf
<1>2. \A o \in Mob : \A i \in DOMAIN paid[o] :
         o[1] \in DOMAIN made /\ paid[o][i].at \in {HomeOf(o), Town}
  BY DEF Base, Known, PaidGone, LootHome
<1>3. CASE paid' = paid
  BY <1>1, <1>2, <1>3 DEF LootHome
<1>4. ASSUME NEW e \in DOMAIN tracked, NEW k \in Player, NEW m \in Mob,
             Dies(e, k, m),
             paid'[tracked[e]] =
                <<[meant |-> m,
                   at |-> IF InInstance(k, tracked[e]) THEN place[k] ELSE Town]>>,
             \A x \in Mob : x # tracked[e] => paid'[x] = paid[x]
      PROVE  LootHome'
  <2> DEFINE o == tracked[e]
             a == IF InInstance(k, o) THEN place[k] ELSE Town
  <2>1. o \in Mob /\ o[1] \in DOMAIN made
    BY DEF Base, TypeOK, Known
  <2>2. a \in {HomeOf(o), Town}
    BY <2>1, AtHome DEF Base
  <2> HIDE DEF a, o
  <2>3. paid'[o] = <<[meant |-> m, at |-> a]>>
    BY <1>4 DEF a, o
  <2>4. \A i \in DOMAIN paid'[o] : paid'[o][i].at \in {HomeOf(o), Town}
    BY <2>2, <2>3
  <2>5. \A x \in Mob : x # o => paid'[x] = paid[x]
    BY <1>4 DEF o
  <2> SUFFICES ASSUME NEW x \in Mob, NEW i \in DOMAIN paid'[x]
               PROVE  paid'[x][i].at \in {HomeOf(x)', Town}
    BY DEF LootHome
  <2>6. CASE x = o
    BY <1>1, <2>1, <2>4, <2>6
  <2>7. CASE x # o
    BY <1>1, <1>2, <2>5, <2>7
  <2>8. QED
    BY <2>6, <2>7
<1>5. QED
  BY <1>3, <1>4, PaidShape

LEMMA StepTraced ==
    ASSUME Apart, Slow
    PROVE  Traced /\ [Next]_vars => Traced'
BY StepWatched, StepEvidence, StepMeant DEF Traced

LEMMA InitTraced == Init => Traced /\ LootHome
BY InitWatched DEF Init, Traced, Evidence, MeantRight, LootHome

(* A monster that dies is paid for on evidence about that very monster,    *)
(* not one that bore its id before (on_kill, _on_replay_kill): as long as  *)
(* copies are populated apart, and only after what was said of those gone. *)
THEOREM PaidOnTrueEvidence ==
    ASSUME Apart, Slow
    PROVE  Spec => []MeantRight
<1>1. Traced => MeantRight
  BY DEF Traced
<1>2. QED
  BY InitTraced, StepTraced, <1>1, PTL DEF Spec

(* Each monster of a dungeon of one level is paid for once, on evidence    *)
(* about it, and its loot lies in its copy or nowhere.                     *)
THEOREM PaymentCorrect ==
    ASSUME Apart, Slow, OneLevel
    PROVE  Spec => []PaidOnce
<1>1. Traced /\ LootHome => PaidOnce
  <2> SUFFICES ASSUME Traced, LootHome, NEW o \in Mob
               PROVE  /\ Len(paid[o]) <= 1
                      /\ \A i \in DOMAIN paid[o] :
                            /\ o \notin {tracked[e] : e \in DOMAIN tracked}
                            /\ paid[o][i].meant = o
                            /\ paid[o][i].at \in {HomeOf(o), Town}
    BY DEF PaidOnce
  <2>1. paid[o] # <<>> => /\ Len(paid[o]) = 1
                          /\ \A e \in DOMAIN tracked : tracked[e] # o
    BY DEF Traced, Watched, Sound, Base, PaidGone
  <2>2. Len(paid[o]) <= 1
    <3>1. CASE paid[o] = <<>>
      BY <3>1
    <3>2. CASE Len(paid[o]) = 1
      BY <3>2
    <3>3. QED
      BY <2>1, <3>1, <3>2
  <2>3. \A i \in DOMAIN paid[o] : paid[o] # <<>>
    OBVIOUS
  <2>4. QED
    BY <2>1, <2>2, <2>3 DEF Traced, MeantRight, LootHome
<1>2. Traced /\ LootHome /\ [Next]_vars => (Traced /\ LootHome)'
  BY StepTraced, StepLoot DEF Traced, Watched, Sound
<1>3. QED
  BY InitTraced, <1>1, <1>2, PTL DEF Spec

-----------------------------------------------------------------------------
(* Steps: what the clients are sent *)

(* Whoever computes the health of a tracked monster is on record as one of *)
(* its fighters.                                                           *)
Fighters ==
    \A p \in Player : \A o \in hurt[p] :
        EidOf(o) \in DOMAIN tracked => p \in engaged[EidOf(o)]

Spared == Watched /\ Fighters /\ FollowSparesFighters

(* Where only ids that lose their monster lose their fighters.             *)
LEMMA FightersShrink ==
    ASSUME Fighters, made' = made,
           DOMAIN tracked' \subseteq DOMAIN tracked,
           \A e \in DOMAIN tracked' : engaged[e] \subseteq engaged'[e],
           \A p \in Player : hurt'[p] \subseteq hurt[p]
    PROVE  Fighters'
BY DEF Fighters, EidOf

(* Whoever is sent the Follow is not on record, so has not hurt it.        *)
LEMMA RelaySpares ==
    ASSUME Spared, NEW p \in Player, NEW o \in Mob, Relay(p, EidOf(o))
    PROVE  FollowSparesFighters'
<1> DEFINE e == EidOf(o)
<1>1. CASE e \notin DOMAIN tracked
  BY <1>1 DEF Relay, Spared, FollowSparesFighters
<1>2. CASE e \in DOMAIN tracked
  <2>1. \A v \in Viewers(p, e) : OnScreen(v, e) \cap hurt[v] = {}
    <3> SUFFICES ASSUME NEW v \in Viewers(p, e), NEW x \in OnScreen(v, e) \cap hurt[v]
                 PROVE  FALSE
      OBVIOUS
    <3>1. v \in Player /\ v \notin engaged[e]
      BY DEF Viewers
    <3>2. EidOf(x) = e /\ x \in hurt[v]
      BY DEF OnScreen
    <3>3. QED
      BY <1>2, <3>1, <3>2 DEF Spared, Fighters
  <2> HIDE DEF e
  <2>2. faults' \subseteq faults
    BY <2>1 DEF Relay, e
  <2>3. QED
    BY <2>2 DEF Spared, FollowSparesFighters
<1>3. QED
  BY <1>1, <1>2

LEMMA UseTargetFighters ==
    ASSUME Spared, NEW p \in Player, NEW o \in alive[p], UseTarget(p, o)
    PROVE  Fighters'
<1> DEFINE e == EidOf(o)
<1>1. /\ hurt' = [hurt EXCEPT ![p] = @ \cup {o}]
      /\ UNCHANGED <<place, spawned, made, copies, tracked>>
      /\ Relay(p, e)
  BY DEF UseTarget, worldVars, mobVars
<1>2. /\ spawned[p] /\ place[p] \in DOMAIN copies /\ o \in Mob
      /\ Standing(o) /\ HomeOf(o) = place[p]
  BY ScreenStands DEF Spared
<1>3. e \in DOMAIN tracked => engaged' = [engaged EXCEPT ![e] = @ \cup {p}]
  <2> SUFFICES ASSUME e \in DOMAIN tracked PROVE InScope(p, tracked[e])
    BY <1>1 DEF Relay
  <2>1. tracked[e] = o
    BY <1>2, TrackedBearer DEF Spared, Watched
  <2>2. place[p] # Town
    <3>1. place[p] \in Key
      BY <1>2 DEF Spared, Watched, Sound, Base, TypeOK
    <3>2. QED
      BY <3>1, PlaceAssumption DEF Key
  <2>3. QED
    BY <1>2, <2>1, <2>2 DEF InScope, InInstance
<1>4. e \notin DOMAIN tracked => engaged' = engaged
  BY <1>1 DEF Relay
<1> HIDE DEF e
<1>5. \A f \in DOMAIN tracked : engaged[f] \subseteq engaged'[f]
  BY <1>3, <1>4 DEF Spared, Watched, Sound, Base, TypeOK
<1>6. e \in DOMAIN tracked => p \in engaged'[e]
  BY <1>3 DEF Spared, Watched, Sound, Base, TypeOK
<1>7. \A q \in Player : \A x : x \in hurt'[q] => x \in hurt[q] \/ (q = p /\ x = o)
  BY <1>1 DEF Spared, Watched, Sound, Base, TypeOK
<1>8. QED
  BY <1>1, <1>5, <1>6, <1>7 DEF Spared, Fighters, EidOf, e

LEMMA MakesFighters ==
    ASSUME Spared, Apart, NEW p \in Player, NEW k, NEW g, Makes(p, k, g),
           UNCHANGED <<engaged, hurt>>
    PROVE  Fighters'
<1> SUFFICES ASSUME NEW q \in Player, NEW o \in hurt[q],
                    EidOf(o)' \in DOMAIN tracked'
             PROVE  q \in engaged[EidOf(o)']
  BY DEF Fighters
<1>1. o[1] \in DOMAIN made /\ Standing(o)
  BY ScreenStands DEF Spared
<1>2. made[o[1]].by # p
  BY <1>1 DEF Makes, Standing
<1>3. EidOf(o)' = EidOf(o) /\ EidOf(o)[1] # p
  BY <1>1, <1>2 DEF Makes, EidOf
<1>4. EidOf(o) \in DOMAIN tracked
  BY <1>3 DEF Makes
<1>5. QED
  BY <1>3, <1>4 DEF Spared, Fighters

LEMMA LeaveFighters ==
    ASSUME Spared, NEW p \in Player, NEW z \in Level \cup {Town}, TransferZone(p, z)
    PROVE  Fighters'
<1>1. /\ hurt' = [hurt EXCEPT ![p] = {}]
      /\ LeaveCopy(p)
  BY DEF TransferZone
<1>2. \A e \in DOMAIN tracked' : engaged[e] \subseteq engaged'[e]
  <2>1. CASE Deserted(p)
    <3> DEFINE ids == {EidOf(o) : o \in present \cap MobsOf(copies[place[p]])}
                         \cap DOMAIN tracked
    <3>1. /\ tracked' = Without(tracked, ids)
          /\ engaged' = [e \in Eid |-> IF e \in ids THEN {} ELSE engaged[e]]
      BY <1>1, <2>1 DEF LeaveCopy
    <3> HIDE DEF ids
    <3>2. DOMAIN tracked' = DOMAIN tracked \ ids /\ DOMAIN tracked \subseteq Eid
      BY <3>1 DEF Without, Spared, Watched, Sound, Base, TypeOK
    <3>3. QED
      BY <3>1, <3>2
  <2>2. CASE ~Deserted(p)
    BY <1>1, <2>2 DEF LeaveCopy
  <2>3. QED
    BY <2>1, <2>2
<1>3. \A q \in Player : hurt'[q] \subseteq hurt[q]
  BY <1>1 DEF Spared, Watched, Sound, Base, TypeOK
<1>4. QED
  BY <1>2, <1>3, LeaveShape, FightersShrink DEF Spared, Watched

(* A removal sends no health.                                              *)
LEMMA DestroyedSpares ==
    ASSUME FollowSparesFighters, NEW Q, NEW o, Destroyed(Q, o)
    PROVE  FollowSparesFighters'
BY DEF Destroyed, FollowSparesFighters

LEMMA DiesSpares ==
    ASSUME Spared, NEW e \in DOMAIN tracked, NEW k \in Player, NEW m \in Mob,
           Dies(e, k, m)
    PROVE  Fighters' /\ FollowSparesFighters'
<1> DEFINE Q == {p \in Player \ {k} : InScope(p, tracked[e])}
<1>1. Destroyed(Q, tracked[e]) /\ Q \in SUBSET Player
  BY DEF Dies, ProcessKill, Removal
<1> HIDE DEF Q
<1>2. FollowSparesFighters'
  BY <1>1, DestroyedSpares DEF Spared
<1>3. /\ made' = made
      /\ DOMAIN tracked' = DOMAIN tracked \ {e}
      /\ engaged' = [engaged EXCEPT ![e] = {}]
  BY DEF Dies, ProcessKill, Without, worldVars
<1>4. \A f \in DOMAIN tracked' : engaged[f] \subseteq engaged'[f]
  BY <1>3 DEF Spared, Watched, Sound, Base, TypeOK
<1>5. \A p \in Player : hurt'[p] \subseteq hurt[p]
  BY <1>1, DestroyedShrinks
<1>6. QED
  BY <1>2, <1>3, <1>4, <1>5, FightersShrink DEF Spared

LEMMA DeferredSpares ==
    ASSUME Spared, NEW d \in due, DeferredDestroy(d)
    PROVE  Fighters' /\ FollowSparesFighters'
<1>1. /\ UNCHANGED <<made, tracked, engaged>>
      /\ d.to \in Player
      /\ Destroyed({d.to}, d.mob) \/ UNCHANGED <<hurt, faults>>
  BY DEF DeferredDestroy, worldVars, mobVars, relayVars, clientVars,
         Spared, Watched, Sound, Base, TypeOK
<1>2. CASE Destroyed({d.to}, d.mob)
  <2>1. \A p \in Player : hurt'[p] \subseteq hurt[p]
    BY <1>1, <1>2, DestroyedShrinks
  <2>2. QED
    BY <1>1, <1>2, <2>1, DestroyedSpares, FightersShrink DEF Spared
<1>3. CASE UNCHANGED <<hurt, faults>>
  BY <1>1, <1>3, FightersShrink DEF Spared, FollowSparesFighters
<1>4. QED
  BY <1>1, <1>2, <1>3

LEMMA StepSpared ==
    ASSUME Apart, ~Harmful
    PROVE  Spared /\ [Next]_vars => Spared'
<1> SUFFICES ASSUME Spared, [Next]_vars PROVE Fighters' /\ FollowSparesFighters'
  BY StepWatched DEF Spared
<1>1. ASSUME NEW p \in Player, PlayerSpawned(p)
      PROVE  Fighters' /\ FollowSparesFighters'
  <2>1. PICK g \in 1..MaxGen :
            \/ UNCHANGED <<made, copies, present, tracked>>
            \/ Makes(p, place[p], g)
    BY <1>1, SpawnShape DEF Spared, Watched, Sound, Base
  <2>2. UNCHANGED <<engaged, hurt, faults>>
    BY <1>1 DEF PlayerSpawned, relayVars
  <2>3. FollowSparesFighters'
    BY <2>2 DEF Spared, FollowSparesFighters
  <2>4. CASE UNCHANGED <<made, copies, present, tracked>>
    BY <2>2, <2>3, <2>4, FightersShrink DEF Spared
  <2>5. CASE Makes(p, place[p], g)
    BY <2>2, <2>3, <2>5, MakesFighters
  <2>6. QED
    BY <2>1, <2>4, <2>5
<1>2. ASSUME NEW p \in Player, NEW z \in Level \cup {Town}, TransferZone(p, z)
      PROVE  Fighters' /\ FollowSparesFighters'
  BY <1>2, LeaveFighters DEF TransferZone, Spared, FollowSparesFighters
<1>3. ASSUME NEW p \in Player, NEW o \in alive[p], UseTarget(p, o)
      PROVE  Fighters' /\ FollowSparesFighters'
  <2>1. o \in Mob /\ Relay(p, EidOf(o))
    BY <1>3 DEF UseTarget, Spared, Watched, Sound, Base, TypeOK
  <2>2. QED
    BY <1>3, <2>1, UseTargetFighters, RelaySpares
<1>4. ASSUME NEW p \in Player, NEW o \in alive[p], NEW k \in {p, Nobody},
             ClientKill(p, o, k)
      PROVE  Fighters' /\ FollowSparesFighters'
  <2>1. UNCHANGED <<made, tracked, engaged, hurt, faults>>
    BY <1>4 DEF ClientKill, worldVars, mobVars, relayVars
  <2>2. QED
    BY <2>1, FightersShrink DEF Spared, FollowSparesFighters
<1>5. CASE Quiet
  <2>1. UNCHANGED <<made, tracked, engaged, hurt, faults>>
    BY <1>5 DEF Quiet, relayVars
  <2>2. QED
    BY <2>1, FightersShrink DEF Spared, FollowSparesFighters
<1>6. QED
  BY <1>1, <1>2, <1>3, <1>4, <1>5, DiesSpares, DeferredSpares, Shapes
  DEF Spared, Watched, Sound

LEMMA InitSpared == Init => Spared
BY InitWatched DEF Init, Spared, Fighters, FollowSparesFighters

(* What is still on the screens.  A tracked monster of the copy a player   *)
(* stands in is on his, alive or killed by him.                            *)
Shown ==
    \A p \in Player : \A e \in DOMAIN tracked :
        spawned[p] /\ HomeOf(tracked[e]) = place[p] =>
            tracked[e] \in alive[p] \cup corpse[p]

(* So is one whose removal waits: under its key there is no later copy.    *)
Removals ==
    \A d \in due :
        /\ d.mob[1] \in DOMAIN made
        /\ \A e \in DOMAIN tracked : tracked[e] # d.mob
        /\ HomeOf(d.mob) \in DOMAIN copies => Standing(d.mob)
        /\ spawned[d.to] /\ HomeOf(d.mob) = place[d.to] =>
              d.mob \in alive[d.to] \cup corpse[d.to]

Fits == Watched /\ Shown /\ Removals /\ DestroysShown

(* A player in the scope of a monster of a live copy stands in that copy.  *)
LEMMA ScopeHome ==
    ASSUME OneLevel, TypeOK, NEW p \in Player, NEW o, o[1] \in DOMAIN made,
           InScope(p, o)
    PROVE  spawned[p] /\ place[p] = HomeOf(o) /\ place[p] \in DOMAIN copies
BY AtHome DEF InScope, TypeOK

(* The id of a standing monster that a client shows finds that one there.  *)
LEMMA OneOnScreen ==
    ASSUME Watched, NEW p \in Player, NEW o \in alive[p] \cup corpse[p]
    PROVE  OnScreen(p, EidOf(o)) = {o}
<1>1. o \in Mob /\ Standing(o)
  BY ScreenStands
<1>2. \A x \in alive[p] \cup corpse[p] : EidOf(x) = EidOf(o) => x = o
  BY <1>1, ScreenStands, OneBearer DEF Watched, Sound
<1>3. QED
  BY <1>2 DEF OnScreen

(* A removal that everyone it is sent to shows is no fault, and takes just *)
(* that monster off their screens.                                         *)
LEMMA DestroyedFits ==
    ASSUME Watched, DestroysShown, NEW Q \in SUBSET Player, NEW o, Destroyed(Q, o),
           \A p \in Q : o \in alive[p] \cup corpse[p]
    PROVE  /\ DestroysShown'
           /\ \A p \in Player : \A x \in alive[p] \cup corpse[p] :
                 x # o => x \in alive'[p] \cup corpse'[p]
           /\ \A p \in Player \ Q : alive'[p] \cup corpse'[p] = alive[p] \cup corpse[p]
<1>1. \A p \in Q : OnScreen(p, EidOf(o)) = {o}
  BY OneOnScreen
<1>2. DestroysShown'
  BY <1>1 DEF Destroyed, DestroysShown
<1>3. \A p \in Player : alive'[p] \cup corpse'[p] =
         IF p \in Q THEN (alive[p] \cup corpse[p]) \ OnScreen(p, EidOf(o))
                    ELSE alive[p] \cup corpse[p]
  BY DestroyedShrinks
<1>4. \A p \in Player : \A x \in alive[p] \cup corpse[p] :
         x # o => x \in alive'[p] \cup corpse'[p]
  <2> SUFFICES ASSUME NEW p \in Player, NEW x \in alive[p] \cup corpse[p], x # o
               PROVE  x \in alive'[p] \cup corpse'[p]
    OBVIOUS
  <2>1. CASE p \in Q
    BY <1>1, <1>3, <2>1
  <2>2. CASE p \notin Q
    BY <1>3, <2>2
  <2>3. QED
    BY <2>1, <2>2
<1>5. QED
  BY <1>2, <1>3, <1>4

LEMMA DiesFits ==
    ASSUME Fits, OneLevel, NEW e \in DOMAIN tracked, NEW k \in Player,
           NEW m \in Mob, Dies(e, k, m)
    PROVE  Shown' /\ Removals' /\ DestroysShown'
<1> USE DEF Fits
<1> DEFINE o == tracked[e]
           Q == {p \in Player \ {k} : InScope(p, o)}
<1>1. o \in Mob /\ o[1] \in DOMAIN made /\ Standing(o)
  BY DEF Watched, Sound, Base, TypeOK, Known, Live
<1>2. Destroyed(Q, o) /\ Q \in SUBSET Player
  BY DEF Dies, ProcessKill, Removal
<1>3. \A p \in Player : InScope(p, o) =>
         spawned[p] /\ place[p] = HomeOf(o) /\ o \in alive[p] \cup corpse[p]
  BY <1>1, ScopeHome DEF Watched, Sound, Base, Shown
<1>4. \A p \in Q : o \in alive[p] \cup corpse[p]
  BY <1>3
<1> HIDE DEF Q
<1>5. /\ DestroysShown'
      /\ \A p \in Player : \A x \in alive[p] \cup corpse[p] :
            x # o => x \in alive'[p] \cup corpse'[p]
      /\ \A p \in Player \ Q : alive'[p] \cup corpse'[p] = alive[p] \cup corpse[p]
  BY <1>2, <1>4, DestroyedFits
<1>6. /\ UNCHANGED <<made, place, spawned, copies>>
      /\ DOMAIN tracked' = DOMAIN tracked \ {e}
      /\ \A f \in DOMAIN tracked' : tracked'[f] = tracked[f]
      /\ due' \subseteq due \cup {[to |-> k, mob |-> o]}
      /\ ~InScope(k, o) => due' = due
  BY DEF Dies, ProcessKill, Removal, Without, worldVars
<1>7. \A f \in DOMAIN tracked' : tracked[f] # o
  BY <1>6 DEF Watched, Sound, Base, Known
<1> HIDE DEF o
<1>8. Shown'
  <2> SUFFICES ASSUME NEW p \in Player, NEW f \in DOMAIN tracked',
                      spawned[p], HomeOf(tracked[f]) = place[p]
               PROVE  tracked[f] \in alive'[p] \cup corpse'[p]
    BY <1>6 DEF Shown, HomeOf
  <2>1. tracked[f] \in alive[p] \cup corpse[p] /\ tracked[f] # o
    BY <1>6, <1>7 DEF Shown
  <2>2. QED
    BY <1>5, <2>1
<1>9. Removals'
  <2> SUFFICES ASSUME NEW d \in due'
               PROVE  /\ d.mob[1] \in DOMAIN made
                      /\ \A f \in DOMAIN tracked' : tracked[f] # d.mob
                      /\ HomeOf(d.mob) \in DOMAIN copies => Standing(d.mob)
                      /\ spawned[d.to] /\ HomeOf(d.mob) = place[d.to] =>
                            d.mob \in alive'[d.to] \cup corpse'[d.to]
    BY <1>6 DEF Removals, HomeOf, Standing
  <2>1. CASE d \in due
    <3>1. /\ d.mob[1] \in DOMAIN made
          /\ d.mob # o
          /\ HomeOf(d.mob) \in DOMAIN copies => Standing(d.mob)
          /\ \A f \in DOMAIN tracked' : tracked[f] # d.mob
      BY <1>6, <2>1 DEF Removals, o
    <3>2. d.to \in Player
      BY <2>1 DEF Watched, Sound, Base, TypeOK
    <3>3. spawned[d.to] /\ HomeOf(d.mob) = place[d.to] =>
             d.mob \in alive[d.to] \cup corpse[d.to]
      BY <2>1 DEF Removals
    <3>4. QED
      BY <1>5, <3>1, <3>2, <3>3
  <2>2. CASE d = [to |-> k, mob |-> o] /\ InScope(k, o)
    <3>1. d.mob = o /\ d.to = k /\ k \notin Q
      BY <2>2 DEF Q
    <3>2. alive'[k] \cup corpse'[k] = alive[k] \cup corpse[k]
      BY <1>5, <3>1
    <3>3. o \in alive[k] \cup corpse[k]
      BY <1>3, <2>2
    <3>4. QED
      BY <1>1, <1>7, <3>1, <3>2, <3>3
  <2>3. QED
    BY <1>6, <2>1, <2>2
<1>10. QED
  BY <1>5, <1>8, <1>9

LEMMA DeferredFits ==
    ASSUME Fits, OneLevel, NEW d \in due, DeferredDestroy(d)
    PROVE  Shown' /\ Removals' /\ DestroysShown'
<1> USE DEF Fits
<1>1. /\ d.to \in Player
      /\ d.mob[1] \in DOMAIN made
      /\ due' = due \ {d}
      /\ UNCHANGED <<made, place, spawned, copies, tracked>>
  BY DEF DeferredDestroy, worldVars, mobVars, Watched, Sound, Base, TypeOK, Removals
<1>2. CASE ~InScope(d.to, d.mob)
  <2>1. UNCHANGED <<alive, corpse, faults>>
    BY <1>2 DEF DeferredDestroy, clientVars
  <2>2. QED
    BY <1>1, <2>1 DEF Shown, Removals, DestroysShown, HomeOf, Standing
<1>3. CASE InScope(d.to, d.mob)
  <2> DEFINE o == d.mob
  <2>1. spawned[d.to] /\ place[d.to] = HomeOf(o) /\ place[d.to] \in DOMAIN copies
    BY <1>1, <1>3, ScopeHome DEF Watched, Sound, Base
  <2>2. o \in alive[d.to] \cup corpse[d.to]
    BY <2>1 DEF Removals
  <2>3. Destroyed({d.to}, o)
    BY <1>3 DEF DeferredDestroy
  <2>4. /\ DestroysShown'
        /\ \A p \in Player : \A x \in alive[p] \cup corpse[p] :
              x # o => x \in alive'[p] \cup corpse'[p]
        /\ \A p \in Player \ {d.to} : alive'[p] \cup corpse'[p] = alive[p] \cup corpse[p]
    BY <1>1, <2>2, <2>3, DestroyedFits
  <2>5. Shown'
    <3> SUFFICES ASSUME NEW p \in Player, NEW f \in DOMAIN tracked,
                        spawned[p], HomeOf(tracked[f]) = place[p]
                 PROVE  tracked[f] \in alive'[p] \cup corpse'[p]
      BY <1>1 DEF Shown, HomeOf
    <3>1. tracked[f] \in alive[p] \cup corpse[p] /\ tracked[f] # o
      BY DEF Shown, Removals
    <3>2. QED
      BY <2>4, <3>1
  <2>6. Removals'
    <3> SUFFICES ASSUME NEW c \in due, c # d
                 PROVE  spawned[c.to] /\ HomeOf(c.mob) = place[c.to] =>
                            c.mob \in alive'[c.to] \cup corpse'[c.to]
      BY <1>1 DEF Removals, HomeOf, Standing
    <3>1. c.to \in Player /\ (c.to # d.to \/ c.mob # d.mob)
      BY DEF Watched, Sound, Base, TypeOK
    <3>2. spawned[c.to] /\ HomeOf(c.mob) = place[c.to] =>
             c.mob \in alive[c.to] \cup corpse[c.to]
      BY DEF Removals
    <3>3. QED
      BY <2>4, <3>1, <3>2
  <2>7. QED
    BY <2>4, <2>5, <2>6
<1>4. QED
  BY <1>2, <1>3

LEMMA SpawnFits ==
    ASSUME Fits, Slow, NEW p \in Player, PlayerSpawned(p)
    PROVE  Shown' /\ Removals' /\ DestroysShown'
<1> USE DEF Fits
<1>1. /\ ~spawned[p]
      /\ spawned' = [spawned EXCEPT ![p] = TRUE]
      /\ UNCHANGED <<place, due, corpse, faults>>
  BY SpawnShape DEF Watched, Sound, Base
<1>2. PICK g \in 1..MaxGen :
          /\ alive' = [alive EXCEPT ![p] = MobsOf(g)]
          /\ \/ /\ place[p] \in DOMAIN copies
                /\ g = copies[place[p]]
                /\ UNCHANGED <<made, copies, present, tracked>>
             \/ Makes(p, place[p], g)
  BY SpawnShape DEF Watched, Sound, Base
<1>3. DestroysShown'
  BY <1>1 DEF DestroysShown
<1>4. /\ spawned'[p] /\ alive'[p] = MobsOf(g)
      /\ \A q \in Player \ {p} : spawned'[q] = spawned[q] /\ alive'[q] = alive[q]
  BY <1>1, <1>2 DEF Watched, Sound, Base, TypeOK
<1>5. CASE /\ place[p] \in DOMAIN copies
           /\ g = copies[place[p]]
           /\ UNCHANGED <<made, copies, present, tracked>>
  <2>1. Shown'
    <3> SUFFICES ASSUME NEW q \in Player, NEW f \in DOMAIN tracked,
                        spawned'[q], HomeOf(tracked[f]) = place[q]
                 PROVE  tracked[f] \in alive'[q] \cup corpse'[q]
      BY <1>1, <1>5 DEF Shown, HomeOf
    <3>1. CASE q = p
      <4>1. tracked[f] \in Mob /\ copies[place[p]] = tracked[f][1]
        BY <3>1 DEF Watched, Sound, Base, TypeOK, Live, Standing
      <4>2. tracked[f] \in MobsOf(g)
        BY <1>5, <4>1 DEF MobsOf, Mob
      <4>3. QED
        BY <1>4, <3>1, <4>2
    <3>2. CASE q # p
      BY <1>1, <1>4, <3>2 DEF Shown
    <3>3. QED
      BY <3>1, <3>2
  <2>2. Removals'
    <3> SUFFICES ASSUME NEW d \in due, spawned'[d.to], HomeOf(d.mob) = place[d.to]
                 PROVE  d.mob \in alive'[d.to] \cup corpse'[d.to]
      BY <1>1, <1>5 DEF Removals, HomeOf, Standing
    <3>1. d.to \in Player /\ d.mob \in Mob
      BY DEF Watched, Sound, Base, TypeOK
    <3>2. CASE d.to = p
      <4>1. copies[place[p]] = d.mob[1]
        BY <1>5, <3>2 DEF Removals, Standing
      <4>2. d.mob \in MobsOf(g)
        BY <1>5, <3>1, <4>1 DEF MobsOf, Mob
      <4>3. QED
        BY <1>4, <3>2, <4>2
    <3>3. CASE d.to # p
      BY <1>1, <1>4, <3>1, <3>3 DEF Removals
    <3>4. QED
      BY <3>2, <3>3
  <2>3. QED
    BY <1>3, <2>1, <2>2
<1>6. CASE Makes(p, place[p], g)
  <2> DEFINE k == place[p]
  <2>1. \A o : o[1] \in DOMAIN made => /\ o[1] \in DOMAIN made'
                                       /\ made'[o[1]].key = HomeOf(o)
    BY <1>6 DEF Makes, HomeOf
  <2>2. \A q \in Player : spawned'[q] /\ place[q] # k =>
           q # p /\ spawned[q] /\ alive'[q] = alive[q]
    BY <1>4
  <2>3. \A q \in Player : spawned[q] => place[q] # k
    BY <1>6 DEF Makes, Watched, Sound, Base, TypeOK
  <2>4. Shown'
    <3> SUFFICES ASSUME NEW q \in Player, NEW f \in DOMAIN tracked',
                        spawned'[q], HomeOf(tracked[f])' = place[q]
                 PROVE  tracked'[f] \in alive'[q] \cup corpse[q]
      BY <1>1 DEF Shown
    <3> DEFINE o == tracked'[f]
    <3>1. CASE f[1] = p
      <4>1. o = <<g, f[2]>> /\ o[1] = g /\ made'[g].key = k
        <5>1. o = <<g, f[2]>>
          BY <1>6, <3>1, MakesTracked
        <5>2. made'[g].key = k
          BY <1>6 DEF Makes
        <5>3. QED
          BY <5>1, <5>2
      <4>2. f \in Eid
        BY <1>6 DEF Makes, Watched, Sound, Base, TypeOK, Eid
      <4>3. o \in MobsOf(g)
        BY <4>1, <4>2 DEF MobsOf, Eid
      <4>4. place[q] = k
        BY <4>1 DEF HomeOf
      <4>5. q = p
        BY <1>4, <2>3, <4>4
      <4>6. QED
        BY <1>4, <4>3, <4>5
    <3>2. CASE f[1] # p
      <4>1. f \in DOMAIN tracked /\ o = tracked[f]
        BY <1>6, <3>2 DEF Makes
      <4>2. HomeOf(tracked[f]) \in DOMAIN copies /\ tracked[f][1] \in DOMAIN made
        BY <4>1 DEF Watched, Sound, Base, Known, Live, Standing
      <4>3. HomeOf(tracked[f]) = place[q]
        BY <2>1, <4>1, <4>2 DEF HomeOf
      <4>4. place[q] # k
        BY <1>6, <4>2, <4>3 DEF Makes
      <4>5. QED
        BY <2>2, <4>1, <4>3, <4>4 DEF Shown
    <3>3. QED
      BY <3>1, <3>2
  <2>5. Removals'
    <3> SUFFICES ASSUME NEW d \in due
                 PROVE  /\ d.mob[1] \in DOMAIN made'
                        /\ \A f \in DOMAIN tracked' : tracked'[f] # d.mob
                        /\ HomeOf(d.mob)' \in DOMAIN copies' => Standing(d.mob)'
                        /\ spawned'[d.to] /\ HomeOf(d.mob)' = place[d.to] =>
                              d.mob \in alive'[d.to] \cup corpse[d.to]
      BY <1>1 DEF Removals
    <3> DEFINE o == d.mob
    <3>1. d.to \in Player /\ o[1] \in DOMAIN made /\ Standing(o)
      BY <1>6 DEF Makes, Watched, Sound, Base, TypeOK, Removals
    <3>2. made'[o[1]].key = HomeOf(o) /\ o[1] \in DOMAIN made'
      BY <2>1, <3>1
    <3>3. HomeOf(o)' = HomeOf(o)
      BY <1>1, <3>2 DEF HomeOf
    <3>4. Standing(o)'
      BY <1>6, <3>1, <3>3 DEF Makes, Standing
    <3>5. \A f \in DOMAIN tracked' : tracked'[f] # o
      <4>1. \A f \in DOMAIN tracked' :
               \/ tracked'[f][1] = g
               \/ f \in DOMAIN tracked /\ tracked'[f] = tracked[f]
        BY <1>6, MakesTracked
      <4>2. o[1] # g
        BY <1>6, <3>1 DEF Makes
      <4>3. QED
        BY <4>1, <4>2 DEF Removals
    <3>6. spawned'[d.to] /\ HomeOf(o) = place[d.to] => o \in alive'[d.to] \cup corpse[d.to]
      <4>1. HomeOf(o) # k
        BY <1>6, <3>1 DEF Makes, Standing
      <4>2. QED
        BY <2>2, <3>1, <4>1 DEF Removals
    <3>7. QED
      BY <3>2, <3>3, <3>4, <3>5, <3>6
  <2>6. QED
    BY <1>3, <2>4, <2>5
<1>7. QED
  BY <1>2, <1>5, <1>6

LEMMA LeaveFits ==
    ASSUME Fits, NEW p \in Player, NEW z \in Level \cup {Town}, TransferZone(p, z)
    PROVE  Shown' /\ Removals' /\ DestroysShown'
<1> USE DEF Fits
<1>1. /\ spawned' = [spawned EXCEPT ![p] = FALSE]
      /\ place' = [place EXCEPT ![p] = IF z = Town THEN Town ELSE <<z, token>>]
      /\ alive' = [alive EXCEPT ![p] = {}]
      /\ corpse' = [corpse EXCEPT ![p] = {}]
      /\ UNCHANGED <<due, faults>>
  BY DEF TransferZone, Despawn
<1>2. /\ made' = made
      /\ \A k \in DOMAIN copies' : k \in DOMAIN copies /\ copies'[k] = copies[k]
      /\ DOMAIN tracked' \subseteq DOMAIN tracked
      /\ \A e \in DOMAIN tracked' : tracked'[e] = tracked[e]
  BY LeaveShape DEF Watched
<1>3. ~spawned'[p] /\ \A q \in Player \ {p} :
         /\ spawned'[q] = spawned[q] /\ place'[q] = place[q]
         /\ alive'[q] = alive[q] /\ corpse'[q] = corpse[q]
  BY <1>1 DEF Watched, Sound, Base, TypeOK
<1>4. Shown'
  <2> SUFFICES ASSUME NEW q \in Player, NEW f \in DOMAIN tracked',
                      spawned'[q], HomeOf(tracked[f])' = place'[q]
               PROVE  tracked'[f] \in alive'[q] \cup corpse'[q]
    BY DEF Shown
  <2>1. q # p /\ HomeOf(tracked[f]) = place[q]
    BY <1>2, <1>3 DEF HomeOf
  <2>2. QED
    BY <1>2, <1>3, <2>1 DEF Shown
<1>5. Removals'
  <2> SUFFICES ASSUME NEW d \in due
               PROVE  /\ d.mob[1] \in DOMAIN made
                      /\ \A f \in DOMAIN tracked' : tracked'[f] # d.mob
                      /\ HomeOf(d.mob) \in DOMAIN copies' =>
                            copies'[HomeOf(d.mob)] = d.mob[1]
                      /\ spawned'[d.to] /\ HomeOf(d.mob) = place'[d.to] =>
                            d.mob \in alive'[d.to] \cup corpse'[d.to]
    BY <1>1, <1>2 DEF Removals, HomeOf, Standing
  <2>1. d.to \in Player
    BY DEF Watched, Sound, Base, TypeOK
  <2>2. QED
    BY <1>2, <1>3, <2>1 DEF Removals, Standing
<1>6. QED
  BY <1>1, <1>4, <1>5 DEF DestroysShown

LEMMA StepFits ==
    ASSUME Apart, Slow, OneLevel
    PROVE  Fits /\ [Next]_vars => Fits'
<1> SUFFICES ASSUME Fits, [Next]_vars PROVE Shown' /\ Removals' /\ DestroysShown'
  BY StepWatched DEF Fits
<1>1. ASSUME NEW p \in Player, NEW o \in alive[p], UseTarget(p, o)
      PROVE  Shown' /\ Removals' /\ DestroysShown'
  <2>1. UNCHANGED <<place, spawned, made, copies, tracked, due, alive, corpse>>
    BY <1>1 DEF UseTarget, worldVars, mobVars
  <2>2. DestroysShown'
    BY <1>1 DEF UseTarget, Relay, DestroysShown, Fits
  <2>3. QED
    BY <2>1, <2>2 DEF Fits, Shown, Removals, HomeOf, Standing
<1>2. ASSUME NEW p \in Player, NEW o \in alive[p], NEW k \in {p, Nobody},
             ClientKill(p, o, k)
      PROVE  Shown' /\ Removals' /\ DestroysShown'
  <2>1. UNCHANGED <<place, spawned, made, copies, tracked, due, faults>>
    BY <1>2 DEF ClientKill, worldVars, mobVars
  <2>2. \A q \in Player : alive'[q] \cup corpse'[q] = alive[q] \cup corpse[q]
    BY <1>2 DEF ClientKill, Fits, Watched, Sound, Base, TypeOK
  <2>3. \A d \in due : d.to \in Player
    BY DEF Fits, Watched, Sound, Base, TypeOK
  <2>4. QED
    BY <2>1, <2>2, <2>3 DEF Fits, Shown, Removals, DestroysShown, HomeOf, Standing
<1>3. CASE Quiet
  BY <1>3 DEF Quiet, Fits, Shown, Removals, DestroysShown, HomeOf, Standing
<1>4. QED
  BY <1>1, <1>2, <1>3, SpawnFits, LeaveFits, DiesFits, DeferredFits, Shapes
  DEF Fits, Watched, Sound

LEMMA InitFits == Init => Fits
BY InitWatched DEF Init, Fits, Shown, Removals, DestroysShown

(* A client that computes the health of a monster is never sent the Follow *)
(* with the monster's full health (on_player_attack): as long as copies    *)
(* are populated apart and no spell cast at a position hurts a monster.    *)
THEOREM FollowsCorrect ==
    ASSUME Apart, ~Harmful
    PROVE  Spec => []FollowSparesFighters
<1>1. Spared => FollowSparesFighters
  BY DEF Spared
<1>2. QED
  BY InitSpared, StepSpared, <1>1, PTL DEF Spec

(* Clients are sent only what they can take, where besides copies are      *)
(* populated only after what was said of those gone, on one level:         *)
(* removals, at once or after the delay, find the monster they are about   *)
(* (_broadcast_despawn, _defer_despawn).                                   *)
THEOREM ClientsCorrect ==
    ASSUME Apart, Slow, ~Harmful, OneLevel
    PROVE  Spec => []ClientsCanTake
<1>1. Spared /\ Fits => ClientsCanTake
  BY DEF Spared, Fits, ClientsCanTake
<1>2. QED
  BY InitSpared, StepSpared, InitFits, StepFits, <1>1, PTL DEF Spec
=============================================================================
