---------------------------- MODULE WorldProofs ----------------------------
(***************************************************************************)
(* Proofs about World: the life of the copies, for any accounts,           *)
(* connections, zones and bounds.                                          *)
(*                                                                         *)
(* That a copy is live exactly while a player stands in it is not          *)
(* inductive: a player in the world must be known to stand in a zone, and  *)
(* a copy torn down must not take the tick task of another with it, so the *)
(* numbers of the live copies must differ and lie below the next one.      *)
(***************************************************************************)
EXTENDS World, FiniteSetTheorems, TLAPS

USE DEF Gen, Zone, Keys

(* Only accepted connections log in, and only they stand in a zone.        *)
Placed ==
    \A c \in Conn :
        /\ login[c] # NoLogin => c \in accepted
        /\ spawned[c] => login[c] # NoLogin /\ zone[c] # NoZone

(* The live copies have numbers of their own, all handed out.              *)
GensApart ==
    /\ \A k \in DOMAIN copies : copies[k].gen < nextGen
    /\ \A j, k \in DOMAIN copies : copies[j].gen = copies[k].gen => j = k

Living == TypeOK /\ Placed /\ GensApart /\ CopiesInhabited /\ TickOwnCopy

-----------------------------------------------------------------------------
(* What the helpers return *)

(* The player has a place in the world, so its key is one.                 *)
LEMMA KeyType ==
    ASSUME TypeOK, NEW c \in Conn, zone[c] # NoZone
    PROVE  Key(c) \in Keys
BY DEF TypeOK, Key

LEMMA AssignType ==
    ASSUME TypeOK, NEW c \in Conn, NEW z \in Zone, AssignInstance(c, z)
    PROVE  /\ inst' \in [Conn -> 0..MaxToken]
           /\ token' \in 0..MaxToken
           /\ nextToken' \in 1..(MaxToken + 1)
           /\ \A d \in Conn \ {c} : inst'[d] = inst[d]
BY BoundAssumption DEF TypeOK, AssignInstance

LEMMA PopulationType ==
    ASSUME NEW z, NEW e \in Nat
    PROVE  /\ Population(z, e) \subseteq Nat
           /\ Cardinality(Population(z, e)) \in Nat
<1>1. Mobs \in Nat
  BY BoundAssumption
<1>2. IsFiniteSet(e .. (e + Mobs - 1)) /\ IsFiniteSet({})
  BY <1>1, FS_Interval, FS_EmptySet
<1>3. QED
  BY <1>1, <1>2, FS_CardinalityType DEF Population

LEMMA PeersFinite ==
    ASSUME NEW c \in Conn, NEW S \in SUBSET Peers(c)
    PROVE  Cardinality(S) \in Nat
<1>1. S \subseteq Conn
  BY DEF Peers
<1>2. IsFiniteSet(S)
  BY <1>1, ConnAssumption, FS_Subset
<1>3. QED
  BY <1>2, FS_CardinalityType

LEMMA AvatarIdType ==
    ASSUME NEW c \in Conn
    PROVE  AvatarId(c) \in Nat
BY ConnAssumption, BoundAssumption DEF AvatarId

LEMMA ExchangedType ==
    ASSUME TypeOK, NEW c \in Conn, NEW first \in Nat
    PROVE  Exchanged(c, first) \in [Login -> [Login -> Sight]]
<1> DEFINE id(m) == RemoteId(c, CHOOSE d \in PeerOf(c, m) : TRUE, first)
<1>1. \A m : id(m) \in Nat
  <2> TAKE m
  <2> DEFINE d == CHOOSE e \in PeerOf(c, m) : TRUE
  <2>1. {e \in Peers(c) : e < d} \in SUBSET Peers(c)
    OBVIOUS
  <2>2. Cardinality({e \in Peers(c) : e < d}) \in Nat
    BY <2>1, PeersFinite
  <2> HIDE DEF d
  <2>3. RemoteId(c, d, first) \in Nat
    BY <2>2 DEF RemoteId
  <2>4. QED
    BY <2>3 DEF d
<1>2. AvatarId(c) \in Nat
  BY AvatarIdType
<1> HIDE DEF id
<1>3. \A v, m \in Login :
        /\ [avatar |-> avatar[m], player |-> id(m)] \in Sight
        /\ [avatar |-> AvatarId(c), player |-> id(v) + 1] \in Sight
        /\ remote[v][m] \in Sight
  BY <1>1, <1>2 DEF TypeOK, Sight
<1>4. QED
  BY <1>3 DEF Exchanged, id

LEMMA InitLiving == Init => Living
BY BoundAssumption, ConnAssumption
DEF Init, Living, TypeOK, Placed, GensApart, CopiesInhabited, TickOwnCopy,
    InWorld, Sight, NotSeen, Copy

-----------------------------------------------------------------------------
(* Steps *)

(* What leaving does to the copies, whatever else the handler does.        *)
LEMMA LeaveLiving ==
    ASSUME Living, NEW c \in Conn, LeaveCopy(c), nextGen' = nextGen,
           ~InWorld(c)',
           \A d \in Conn \ {c} : InWorld(d)' = InWorld(d) /\ Key(d)' = Key(d)
    PROVE  /\ DOMAIN copies' \subseteq Keys
           /\ \A k \in DOMAIN copies' : copies'[k] \in Copy
           /\ ticks' \in [Gen -> {0, 1}]
           /\ GensApart' /\ CopiesInhabited' /\ TickOwnCopy'
<1>1. CASE InWorld(c) /\ Key(c) \in DOMAIN copies /\ Empties(c)
  <2>1. /\ copies' = [k \in DOMAIN copies \ {Key(c)} |-> copies[k]]
        /\ ticks' = [ticks EXCEPT ![copies[Key(c)].gen] = 0]
    BY <1>1 DEF LeaveCopy
  <2>2. /\ DOMAIN copies' = DOMAIN copies \ {Key(c)}
        /\ \A k \in DOMAIN copies' : copies'[k] = copies[k]
    BY <2>1
  <2>3. copies[Key(c)].gen \in Gen
    BY <1>1 DEF Living, TypeOK, Copy
  <2>4. CopiesInhabited'
    BY <1>1, <2>2 DEF Living, CopiesInhabited, Empties
  <2>5. GensApart'
    BY <2>2 DEF Living, GensApart
  <2>6. TickOwnCopy'
    BY <1>1, <2>1, <2>2, <2>3 DEF Living, TypeOK, TickOwnCopy, GensApart
  <2>7. QED
    BY <2>1, <2>2, <2>3, <2>4, <2>5, <2>6 DEF Living, TypeOK
<1>2. CASE ~(InWorld(c) /\ Key(c) \in DOMAIN copies /\ Empties(c))
  <2>1. UNCHANGED <<copies, ticks>>
    BY <1>2 DEF LeaveCopy
  <2>2. ~InWorld(c) \/ \E d \in Conn \ {c} : InWorld(d) /\ Key(d) = Key(c)
    BY <1>2 DEF Living, CopiesInhabited, Empties
  <2>3. CopiesInhabited'
    BY <2>1, <2>2 DEF Living, CopiesInhabited
  <2>4. QED
    BY <2>1, <2>3 DEF Living, TypeOK, GensApart, TickOwnCopy
<1>3. QED
  BY <1>1, <1>2

LEMMA ForgetType ==
    ASSUME TypeOK, NEW c \in Conn, Forget(c)
    PROVE  avatar' \in [Login -> Nat] /\ remote' \in [Login -> [Login -> Sight]]
<1>1. NotSeen \in Sight
  BY DEF NotSeen, Sight
<1>2. QED
  BY <1>1 DEF Forget, TypeOK

LEMMA LogInLiving ==
    ASSUME Living, NEW c \in Conn, NEW l \in Login, LogIn(c, l)
    PROVE  Living'
<1>1. TypeOK'
  BY DEF Living, LogIn, TypeOK, idVars, copyVars, viewVars
<1>2. ~spawned[c] /\ \A d \in Conn \ {c} : login'[d] = login[d]
  BY DEF Living, Placed, LogIn, TypeOK
<1>3. \A d \in Conn : InWorld(d)' = InWorld(d) /\ Key(d)' = Key(d)
  BY <1>2 DEF LogIn, InWorld, Key
<1>4. CopiesInhabited'
  BY <1>3 DEF Living, CopiesInhabited, LogIn, copyVars
<1>5. Placed'
  BY <1>2 DEF Living, Placed, LogIn, TypeOK
<1>6. QED
  BY <1>1, <1>4, <1>5 DEF Living, LogIn, copyVars, GensApart, TickOwnCopy

LEMMA StartZoneJoinLiving ==
    ASSUME Living, NEW c \in Conn, StartZoneJoin(c)
    PROVE  Living'
<1>1. StartZone \in Zone
  BY ZoneAssumption
<1>2. inst' \in [Conn -> 0..MaxToken] /\ token' \in 0..MaxToken
      /\ nextToken' \in 1..(MaxToken + 1) /\ \A d \in Conn \ {c} : inst'[d] = inst[d]
  BY <1>1, AssignType DEF StartZoneJoin, Living
<1>3. TypeOK'
  BY <1>1, <1>2 DEF Living, StartZoneJoin, TypeOK, copyVars, viewVars
<1>4. \A d \in Conn : /\ InWorld(d)' = InWorld(d)
                      /\ InWorld(d) => Key(d)' = Key(d) /\ zone'[d] = zone[d]
  BY <1>2 DEF StartZoneJoin, InWorld, Key, Living, TypeOK
<1>5. CopiesInhabited'
  BY <1>4 DEF Living, CopiesInhabited, StartZoneJoin, copyVars
<1>6. QED
  BY <1>3, <1>4, <1>5 DEF Living, StartZoneJoin, copyVars, Placed, GensApart, TickOwnCopy

LEMMA TransferZoneLiving ==
    ASSUME Living, NEW c \in Conn, NEW z \in Zone, TransferZone(c, z)
    PROVE  Living'
<1>1. inst' \in [Conn -> 0..MaxToken] /\ token' \in 0..MaxToken
      /\ nextToken' \in 1..(MaxToken + 1) /\ \A d \in Conn \ {c} : inst'[d] = inst[d]
  BY AssignType DEF TransferZone, Living
<1>2. ~InWorld(c)'
  BY DEF TransferZone, InWorld, Living, TypeOK
<1>3. \A d \in Conn \ {c} : InWorld(d)' = InWorld(d) /\ Key(d)' = Key(d) /\ zone'[d] = zone[d]
  BY <1>1 DEF TransferZone, InWorld, Key, Living, TypeOK
<1>4. /\ DOMAIN copies' \subseteq Keys
      /\ \A k \in DOMAIN copies' : copies'[k] \in Copy
      /\ ticks' \in [Gen -> {0, 1}]
      /\ GensApart' /\ CopiesInhabited' /\ TickOwnCopy'
  BY <1>2, <1>3, LeaveLiving DEF TransferZone
<1>5. TypeOK'
  BY <1>1, <1>4, ForgetType DEF Living, TransferZone, TypeOK
<1>6. Placed'
  <2>1. \A d \in Conn \ {c} : spawned'[d] = spawned[d]
    BY DEF TransferZone, Living, TypeOK
  <2>2. ~spawned'[c] /\ accepted' = accepted /\ login' = login
    BY DEF TransferZone, Living, TypeOK
  <2>3. QED
    BY <1>3, <2>1, <2>2 DEF Living, Placed
<1>7. QED
  BY <1>4, <1>5, <1>6 DEF Living

LEMMA DisconnectLiving ==
    ASSUME Living, NEW c \in Conn, Disconnect(c)
    PROVE  Living'
<1>1. ~InWorld(c)'
  BY DEF Disconnect, InWorld, Living, TypeOK
<1>2. \A d \in Conn \ {c} : InWorld(d)' = InWorld(d) /\ Key(d)' = Key(d) /\ zone'[d] = zone[d]
  BY DEF Disconnect, InWorld, Key, Living, TypeOK
<1>3. /\ DOMAIN copies' \subseteq Keys
      /\ \A k \in DOMAIN copies' : copies'[k] \in Copy
      /\ ticks' \in [Gen -> {0, 1}]
      /\ GensApart' /\ CopiesInhabited' /\ TickOwnCopy'
  BY <1>1, <1>2, LeaveLiving DEF Disconnect
<1>4. TypeOK'
  <2>1. avatar' \in [Login -> Nat] /\ remote' \in [Login -> [Login -> Sight]]
    BY ForgetType DEF Living, Disconnect
  <2>2. 0 \in 0..MaxToken
    BY BoundAssumption
  <2>3. QED
    BY <1>3, <2>1, <2>2 DEF Living, Disconnect, TypeOK, idVars
<1>5. Placed'
  <2>1. \A d \in Conn \ {c} : login'[d] = login[d] /\ spawned'[d] = spawned[d]
    BY DEF Disconnect, Living, TypeOK
  <2>2. login'[c] = NoLogin /\ ~spawned'[c] /\ accepted' = accepted
    BY DEF Disconnect, Living, TypeOK
  <2>3. QED
    BY <1>2, <2>1, <2>2 DEF Living, Placed
<1>6. QED
  BY <1>3, <1>4, <1>5 DEF Living

LEMMA PlayerSpawnedLiving ==
    ASSUME Living, NEW c \in Conn, PlayerSpawned(c)
    PROVE  Living'
<1> DEFINE new   == Key(c) \notin DOMAIN copies
           ids   == Population(zone[c], AvatarId(c) + 1)
           copy  == IF new THEN [gen |-> nextGen, ids |-> ids] ELSE copies[Key(c)]
           first == AvatarId(c) + 1 + (IF new THEN Cardinality(ids) ELSE 0)
<1>1. Key(c) \in Keys
  BY KeyType DEF PlayerSpawned, Living
<1>2. first \in Nat /\ ids \subseteq Nat /\ AvatarId(c) \in Nat
  BY AvatarIdType, PopulationType
<1>3. copy \in Copy /\ (new => nextGen \in Gen)
  BY <1>2 DEF PlayerSpawned, Living, TypeOK, Copy
<1>4. /\ copies' = [k \in DOMAIN copies \cup {Key(c)} |-> IF k = Key(c) THEN copy ELSE copies[k]]
      /\ nextGen' = IF new THEN nextGen + 1 ELSE nextGen
      /\ ticks' = StartTick(copy.gen)
      /\ shown' = [shown EXCEPT ![c] = copy.ids]
      /\ remote' = Exchanged(c, first)
      /\ nextEid' = first + 2 * Cardinality(Peers(c))
      /\ spawned' = [spawned EXCEPT ![c] = TRUE]
      /\ avatar' = [avatar EXCEPT ![login[c]] = AvatarId(c)]
      /\ UNCHANGED <<accepted, login, zone, inst, token, nextToken>>
      /\ login[c] # NoLogin /\ zone[c] # NoZone /\ ~spawned[c]
      /\ (new => nextGen <= MaxGen)
  BY DEF PlayerSpawned
<1>5. nextEid' \in Nat
  BY <1>2, <1>4, PeersFinite
<1>6. remote' \in [Login -> [Login -> Sight]]
  BY <1>2, <1>4, ExchangedType DEF Living
<1>7. InWorld(c)' /\ Key(c)' = Key(c)
      /\ \A d \in Conn \ {c} : InWorld(d)' = InWorld(d) /\ Key(d)' = Key(d)
  BY <1>4 DEF InWorld, Key, Living, TypeOK
<1> HIDE DEF ids, first
<1>8. /\ DOMAIN copies' = DOMAIN copies \cup {Key(c)} /\ copies'[Key(c)] = copy
      /\ \A k \in DOMAIN copies : copies'[k] = copies[k]
  BY <1>4
<1>9. GensApart'
  BY <1>3, <1>4, <1>8 DEF Living, GensApart, TypeOK, Copy
<1>10. CopiesInhabited'
  BY <1>7, <1>8 DEF Living, CopiesInhabited
<1>11. TickOwnCopy' /\ ticks' \in [Gen -> {0, 1}]
  <2>1. copy.gen \in Gen /\ ticks' = [ticks EXCEPT ![copy.gen] = IF @ = 0 THEN 1 ELSE @]
    BY <1>3, <1>4 DEF Copy, StartTick
  <2>2. ticks'[copy.gen] = 1 /\ \A g \in Gen \ {copy.gen} : ticks'[g] = ticks[g]
    BY <2>1 DEF Living, TypeOK
  <2>3. \A k \in DOMAIN copies' : k = Key(c) \/ k \in DOMAIN copies
    BY <1>8
  <2>4. \A g \in Gen \ {copy.gen} :
          (\E k \in DOMAIN copies' : copies'[k].gen = g) <=> \E k \in DOMAIN copies : copies[k].gen = g
    BY <1>8, <2>3
  <2> HIDE DEF copy
  <2>5. TickOwnCopy'
    BY <1>8, <2>1, <2>2, <2>4 DEF Living, TickOwnCopy
  <2>6. QED
    BY <2>1, <2>5 DEF Living, TypeOK
<1>12. TypeOK'
  <2>1. /\ shown' \in [Conn -> SUBSET Nat] /\ spawned' \in [Conn -> BOOLEAN]
        /\ avatar' \in [Login -> Nat]
    BY <1>2, <1>3, <1>4 DEF Living, TypeOK, Copy
  <2>2. nextGen' \in 1..(MaxGen + 1)
    BY <1>4, BoundAssumption DEF Living, TypeOK
  <2>3. DOMAIN copies' \subseteq Keys /\ \A k \in DOMAIN copies' : copies'[k] \in Copy
    BY <1>1, <1>3, <1>8 DEF Living, TypeOK
  <2> HIDE DEF copy, new
  <2>4. QED
    BY <1>4, <1>5, <1>6, <1>11, <2>1, <2>2, <2>3 DEF Living, TypeOK
<1>13. Placed'
  BY <1>4, <1>7 DEF Living, Placed
<1>14. QED
  BY <1>9, <1>10, <1>11, <1>12, <1>13 DEF Living

LEMMA SpawnLiveLiving ==
    ASSUME Living, NEW c \in Conn, SpawnLive(c)
    PROVE  Living'
<1>1. Key(c) \in DOMAIN copies
  BY DEF SpawnLive, Living, CopiesInhabited
<1>2. /\ DOMAIN copies' = DOMAIN copies
      /\ \A k \in DOMAIN copies : copies'[k].gen = copies[k].gen /\ copies'[k] \in Copy
  BY <1>1 DEF SpawnLive, Living, TypeOK, Copy
<1>3. TypeOK'
  <2>1. shown' \in [Conn -> SUBSET Nat] /\ nextEid' \in Nat
    BY DEF SpawnLive, Living, TypeOK
  <2>2. QED
    BY <1>2, <2>1 DEF SpawnLive, Living, TypeOK, viewVars
<1>4. \A d \in Conn : InWorld(d)' = InWorld(d) /\ Key(d)' = Key(d) /\ zone'[d] = zone[d]
  BY DEF SpawnLive, InWorld, Key
<1>5. QED
  BY <1>2, <1>3, <1>4 DEF SpawnLive, Living, Placed, GensApart, CopiesInhabited, TickOwnCopy

LEMMA ResetInstancesLiving ==
    ASSUME Living, ResetInstances
    PROVE  Living'
<1>1. TypeOK'
  BY BoundAssumption DEF ResetInstances, Living, TypeOK, connVars, copyVars, viewVars
<1>2. QED
  BY <1>1 DEF ResetInstances, Living, Placed, GensApart, CopiesInhabited, TickOwnCopy,
              InWorld, Key, connVars, copyVars, viewVars

LEMMA NextLiving == Living /\ [Next]_vars => Living'
<1> SUFFICES ASSUME Living, [Next]_vars PROVE Living'
  OBVIOUS
<1>1. CASE UNCHANGED vars
  <2>1. TypeOK' /\ Placed' /\ GensApart' /\ TickOwnCopy'
    BY <1>1 DEF vars, Living, TypeOK, Placed, GensApart, TickOwnCopy
  <2>2. \A d \in Conn : InWorld(d)' = InWorld(d) /\ Key(d)' = Key(d)
    BY <1>1 DEF vars, InWorld, Key
  <2>3. CopiesInhabited'
    BY <1>1, <2>2 DEF vars, Living, CopiesInhabited
  <2>4. QED
    BY <2>1, <2>3 DEF Living
<1>2. CASE Next
  BY <1>2, LogInLiving, StartZoneJoinLiving, TransferZoneLiving, PlayerSpawnedLiving,
     SpawnLiveLiving, DisconnectLiving, ResetInstancesLiving DEF Next
<1>3. QED
  BY <1>1, <1>2

(* A copy is live exactly while a player stands in it, each live copy has  *)
(* one tick task and no other task runs, for any players, zones, bounds    *)
(* and order of spawns, transfers and lost connections (CopiesLive).       *)
THEOREM CopiesCorrect == Spec => []CopiesLive
<1>1. Living => CopiesLive
  BY DEF Living, CopiesLive
<1>2. QED
  BY InitLiving, NextLiving, <1>1, PTL DEF Spec

-----------------------------------------------------------------------------
(* What the clients show of their copies *)

Shared == Living /\ ClientsShareCopy

(* Nobody who stays is touched by somebody who leaves.                     *)
LEMMA LeaveShared ==
    ASSUME Shared, NEW c \in Conn, LeaveCopy(c), ~InWorld(c)',
           shown' = [shown EXCEPT ![c] = {}],
           \A d \in Conn \ {c} : InWorld(d)' = InWorld(d) /\ Key(d)' = Key(d)
    PROVE  ClientsShareCopy'
<1> SUFFICES ASSUME NEW d \in Conn, InWorld(d)'
             PROVE  Key(d)' \in DOMAIN copies' /\ shown'[d] = copies'[Key(d)'].ids
  BY DEF ClientsShareCopy
<1>1. d \in Conn \ {c} /\ InWorld(d) /\ Key(d)' = Key(d) /\ shown'[d] = shown[d]
  BY DEF Shared, Living, TypeOK
<1>2. Key(d) \in DOMAIN copies' /\ copies'[Key(d)] = copies[Key(d)]
  <2>1. CASE InWorld(c) /\ Key(c) \in DOMAIN copies /\ Empties(c)
    <3>1. Key(d) # Key(c)
      BY <1>1, <2>1 DEF Empties
    <3>2. QED
      BY <1>1, <2>1, <3>1 DEF LeaveCopy, Shared, ClientsShareCopy
  <2>2. CASE ~(InWorld(c) /\ Key(c) \in DOMAIN copies /\ Empties(c))
    BY <1>1, <2>2 DEF LeaveCopy, Shared, ClientsShareCopy
  <2>3. QED
    BY <2>1, <2>2
<1>3. QED
  BY <1>1, <1>2 DEF Shared, ClientsShareCopy

(* Nor does anything change for those whose place, screen and copy a       *)
(* handler leaves alone.                                                   *)
LEMMA SameShared ==
    ASSUME Shared, UNCHANGED <<shown, copies>>,
           \A d \in Conn : InWorld(d)' => InWorld(d) /\ Key(d)' = Key(d)
    PROVE  ClientsShareCopy'
BY DEF Shared, ClientsShareCopy

LEMMA TransferZoneShared ==
    ASSUME Shared, NEW c \in Conn, NEW z \in Zone, TransferZone(c, z)
    PROVE  ClientsShareCopy'
<1>1. \A d \in Conn \ {c} : inst'[d] = inst[d]
  BY AssignType DEF TransferZone, Shared, Living
<1>2. ~InWorld(c)'
  BY DEF TransferZone, InWorld, Shared, Living, TypeOK
<1>3. \A d \in Conn \ {c} : InWorld(d)' = InWorld(d) /\ Key(d)' = Key(d)
  BY <1>1 DEF TransferZone, InWorld, Key, Shared, Living, TypeOK
<1>4. QED
  BY <1>2, <1>3, LeaveShared DEF TransferZone

LEMMA DisconnectShared ==
    ASSUME Shared, NEW c \in Conn, Disconnect(c)
    PROVE  ClientsShareCopy'
<1>1. ~InWorld(c)'
  BY DEF Disconnect, InWorld, Shared, Living, TypeOK
<1>2. \A d \in Conn \ {c} : InWorld(d)' = InWorld(d) /\ Key(d)' = Key(d)
  BY DEF Disconnect, InWorld, Key, Shared, Living, TypeOK
<1>3. QED
  BY <1>1, <1>2, LeaveShared DEF Disconnect

LEMMA PlayerSpawnedShared ==
    ASSUME Shared, NEW c \in Conn, PlayerSpawned(c)
    PROVE  ClientsShareCopy'
<1> DEFINE new  == Key(c) \notin DOMAIN copies
           ids  == Population(zone[c], AvatarId(c) + 1)
           copy == IF new THEN [gen |-> nextGen, ids |-> ids] ELSE copies[Key(c)]
<1>1. /\ copies' = [k \in DOMAIN copies \cup {Key(c)} |-> IF k = Key(c) THEN copy ELSE copies[k]]
      /\ shown' = [shown EXCEPT ![c] = copy.ids]
      /\ spawned' = [spawned EXCEPT ![c] = TRUE]
      /\ UNCHANGED <<login, zone, inst>>
  BY DEF PlayerSpawned
<1>2. /\ Key(c)' = Key(c)
      /\ \A d \in Conn \ {c} : InWorld(d)' = InWorld(d) /\ Key(d)' = Key(d) /\ shown'[d] = shown[d]
  BY <1>1 DEF InWorld, Key, Shared, Living, TypeOK
<1>3. shown'[c] = copy.ids
  BY <1>1 DEF Shared, Living, TypeOK
<1>4. Key(c) \in DOMAIN copies => copy = copies[Key(c)]
  OBVIOUS
<1> HIDE DEF copy
<1>5. /\ DOMAIN copies' = DOMAIN copies \cup {Key(c)} /\ copies'[Key(c)] = copy
      /\ \A k \in DOMAIN copies : copies'[k] = copies[k]
  BY <1>1, <1>4
<1>6. QED
  BY <1>2, <1>3, <1>5 DEF Shared, ClientsShareCopy

LEMMA SpawnLiveShared ==
    ASSUME Shared, NEW c \in Conn, SpawnLive(c)
    PROVE  ClientsShareCopy'
<1> SUFFICES ASSUME NEW d \in Conn, InWorld(d)'
             PROVE  Key(d)' \in DOMAIN copies' /\ shown'[d] = copies'[Key(d)'].ids
  BY DEF ClientsShareCopy
<1>1. InWorld(d) /\ Key(d)' = Key(d) /\ InWorld(c)
  BY DEF SpawnLive, InWorld, Key
<1>2. /\ Key(d) \in DOMAIN copies /\ Key(c) \in DOMAIN copies
      /\ shown[d] = copies[Key(d)].ids /\ \A k \in DOMAIN copies : copies[k] \in Copy
  BY <1>1 DEF Shared, ClientsShareCopy, Living, TypeOK
<1>3. copies' = [copies EXCEPT ![Key(c)].ids = @ \cup {nextEid}]
  BY DEF SpawnLive
<1>4. CASE Key(d) = Key(c)
  <2>1. shown'[d] = shown[d] \cup {nextEid}
    BY <1>1, <1>4 DEF SpawnLive
  <2>2. copies[Key(c)] \in [gen : Gen, ids : SUBSET Nat]
    BY <1>2 DEF Copy
  <2>3. copies'[Key(c)].ids = copies[Key(c)].ids \cup {nextEid}
    BY <1>2, <1>3, <2>2
  <2>4. QED
    BY <1>1, <1>2, <1>3, <1>4, <2>1, <2>3
<1>5. CASE Key(d) # Key(c)
  <2>1. shown'[d] = shown[d]
    BY <1>1, <1>5 DEF SpawnLive
  <2>2. QED
    BY <1>1, <1>2, <1>3, <1>5, <2>1
<1>6. QED
  BY <1>4, <1>5

LEMMA NextShared == Shared /\ [Next]_vars => Shared'
<1> SUFFICES ASSUME Shared, [Next]_vars PROVE ClientsShareCopy'
  BY NextLiving DEF Shared
<1>1. CASE UNCHANGED vars
  <2>1. \A d \in Conn : InWorld(d)' = InWorld(d) /\ Key(d)' = Key(d)
    BY <1>1 DEF vars, InWorld, Key
  <2>2. QED
    BY <1>1, <2>1, SameShared DEF vars
<1>2. ASSUME NEW c \in Conn, NEW l \in Login, LogIn(c, l) PROVE ClientsShareCopy'
  <2>1. ~spawned[c] /\ \A d \in Conn \ {c} : login'[d] = login[d]
    BY <1>2 DEF Shared, Living, Placed, LogIn, TypeOK
  <2>2. \A d \in Conn : InWorld(d)' => InWorld(d) /\ Key(d)' = Key(d)
    BY <1>2, <2>1 DEF LogIn, InWorld, Key
  <2>3. QED
    BY <1>2, <2>2, SameShared DEF LogIn, copyVars
<1>3. ASSUME NEW c \in Conn, StartZoneJoin(c) PROVE ClientsShareCopy'
  <2>1. \A d \in Conn \ {c} : inst'[d] = inst[d]
    BY <1>3, AssignType, ZoneAssumption DEF StartZoneJoin, Shared, Living
  <2>2. \A d \in Conn : InWorld(d)' => InWorld(d) /\ Key(d)' = Key(d)
    BY <1>3, <2>1 DEF StartZoneJoin, InWorld, Key, Shared, Living, TypeOK
  <2>3. QED
    BY <1>3, <2>2, SameShared DEF StartZoneJoin, copyVars
<1>4. ASSUME ResetInstances PROVE ClientsShareCopy'
  <2>1. \A d \in Conn : InWorld(d)' => InWorld(d) /\ Key(d)' = Key(d)
    BY <1>4 DEF ResetInstances, connVars, InWorld, Key
  <2>2. QED
    BY <1>4, <2>1, SameShared DEF ResetInstances, connVars, copyVars
<1>5. QED
  BY <1>1, <1>2, <1>3, <1>4, TransferZoneShared, DisconnectShared, PlayerSpawnedShared,
     SpawnLiveShared DEF Next

(* Everyone in a copy shows exactly the entities of the copy, whoever      *)
(* built it, whenever he came and whatever was spawned meanwhile.          *)
THEOREM ScreensCorrect == Spec => []ClientsShareCopy
<1>1. Init => Shared
  BY InitLiving DEF Init, Shared, ClientsShareCopy, InWorld
<1>2. Shared => ClientsShareCopy
  BY DEF Shared
<1>3. QED
  BY <1>1, <1>2, NextShared, PTL DEF Spec

-----------------------------------------------------------------------------
(* What the players see of one another *)

(* Two of the players stand in scope of one another.                       *)
Meet(v, m) ==
    \E c, d \in Conn : /\ c # d
                       /\ InWorld(c) /\ login[c] = v
                       /\ InWorld(d) /\ login[d] = m
                       /\ SameScope(c, d)

(* One connection per account.                                             *)
LoginsApart ==
    \A c, d \in Conn : login[c] # NoLogin /\ login[c] = login[d] => c = d

(* Who is in the world has an avatar.                                      *)
Named == \A c \in Conn : InWorld(c) => avatar[login[c]] # 0

Seen == Living /\ LoginsApart /\ Named /\ SightAgrees

LEMMA SightMeet ==
    SightAgrees <=>
        \A v, m \in Login :
            /\ Meet(v, m) => remote[v][m].avatar = avatar[m] /\ avatar[m] # 0
            /\ ~Meet(v, m) => remote[v][m] = NotSeen
BY DEF SightAgrees, Meet

LEMMA SightMeetNext ==
    SightAgrees' <=>
        \A v, m \in Login :
            /\ Meet(v, m)' => remote'[v][m].avatar = avatar'[m] /\ avatar'[m] # 0
            /\ ~Meet(v, m)' => remote'[v][m] = NotSeen
BY DEF SightAgrees, Meet

(* Whom c meets are its peers.                                             *)
LEMMA PeersMeet ==
    ASSUME LoginsApart, NEW c \in Conn, InWorld(c), NEW v \in Login
    PROVE  PeerOf(c, v) # {} <=> Meet(v, login[c])
<1>1. ASSUME PeerOf(c, v) # {}
      PROVE  Meet(v, login[c])
  BY <1>1 DEF PeerOf, Peers, Meet, SameScope
<1>2. ASSUME Meet(v, login[c])
      PROVE  PeerOf(c, v) # {}
  <2>1. PICK d, e \in Conn : /\ d # e /\ InWorld(d) /\ login[d] = v
                             /\ InWorld(e) /\ login[e] = login[c] /\ SameScope(d, e)
    BY <1>2 DEF Meet
  <2>2. e = c
    BY <2>1 DEF LoginsApart, InWorld
  <2>3. d \in PeerOf(c, v)
    BY <2>1, <2>2 DEF PeerOf, Peers
  <2>4. QED
    BY <2>3
<1>3. QED
  BY <1>1, <1>2

LEMMA MeetSymmetric ==
    ASSUME NEW v, NEW m, Meet(v, m)
    PROVE  Meet(m, v)
BY DEF Meet, SameScope

(* A step that touches neither the places nor the maps of who is in the    *)
(* world.                                                                  *)
LEMMA SameSight ==
    ASSUME Seen, remote' = remote, avatar' = avatar,
           \A d \in Conn : InWorld(d)' = InWorld(d),
           \A d \in Conn : InWorld(d) => /\ login'[d] = login[d]
                                         /\ zone'[d] = zone[d] /\ inst'[d] = inst[d]
    PROVE  SightAgrees' /\ Named'
<1>1. \A v, m \in Login : Meet(v, m)' <=> Meet(v, m)
  BY DEF Meet, SameScope
<1>2. \A v, m \in Login :
          /\ Meet(v, m) => remote[v][m].avatar = avatar[m] /\ avatar[m] # 0
          /\ ~Meet(v, m) => remote[v][m] = NotSeen
  BY SightMeet DEF Seen
<1>3. SightAgrees'
  BY <1>1, <1>2, SightMeetNext
<1>4. Named'
  BY DEF Seen, Named
<1>5. QED
  BY <1>3, <1>4

(* Who leaves is forgotten by those who saw him, and forgets them.         *)
LEMMA LeaveSight ==
    ASSUME Seen, NEW c \in Conn, login[c] # NoLogin, Forget(c), ~InWorld(c)',
           \A d \in Conn \ {c} : /\ InWorld(d)' = InWorld(d) /\ login'[d] = login[d]
                                 /\ zone'[d] = zone[d] /\ inst'[d] = inst[d]
    PROVE  SightAgrees' /\ Named'
<1> DEFINE l == login[c]
<1>1. l \in Login
  BY DEF Seen, Living, TypeOK
<1>2. /\ \A v, m \in Login :
            remote'[v][m] = IF v = l \/ (m = l /\ InWorld(c) /\ PeerOf(c, v) # {})
                            THEN NotSeen ELSE remote[v][m]
      /\ \A m \in Login : m # l => avatar'[m] = avatar[m]
  BY DEF Forget, Seen, Living, TypeOK
<1>3. \A d \in Conn : InWorld(d)' => d # c /\ login'[d] = login[d] /\ login[d] # l
  BY DEF Seen, LoginsApart
<1>4. \A v, m \in Login : v = l \/ m = l => ~Meet(v, m)'
  BY <1>3 DEF Meet
<1>5. \A v, m \in Login : v # l /\ m # l => (Meet(v, m)' <=> Meet(v, m))
  BY <1>3 DEF Meet, SameScope
<1>6. \A v, m \in Login :
          /\ Meet(v, m) => remote[v][m].avatar = avatar[m] /\ avatar[m] # 0
          /\ ~Meet(v, m) => remote[v][m] = NotSeen
  BY SightMeet DEF Seen
<1>7. ASSUME NEW v \in Login, v # l
      PROVE  remote'[v][l] = NotSeen
  <2>1. CASE InWorld(c) /\ PeerOf(c, v) # {}
    BY <1>1, <1>2, <2>1
  <2>2. CASE ~(InWorld(c) /\ PeerOf(c, v) # {})
    <3>1. ~Meet(v, l)
      <4>1. CASE InWorld(c)
        BY <2>2, <4>1, PeersMeet DEF Seen
      <4>2. CASE ~InWorld(c)
        BY <4>2 DEF Meet, Seen, LoginsApart, InWorld
      <4>3. QED
        BY <4>1, <4>2
    <3>2. QED
      BY <1>1, <1>2, <1>6, <1>7, <2>2, <3>1
  <2>3. QED
    BY <2>1, <2>2
<1> HIDE DEF l
<1>8. \A v, m \in Login :
          /\ Meet(v, m)' => remote'[v][m].avatar = avatar'[m] /\ avatar'[m] # 0
          /\ ~Meet(v, m)' => remote'[v][m] = NotSeen
  <2> SUFFICES ASSUME NEW v \in Login, NEW m \in Login
               PROVE  /\ Meet(v, m)' => remote'[v][m].avatar = avatar'[m] /\ avatar'[m] # 0
                      /\ ~Meet(v, m)' => remote'[v][m] = NotSeen
    OBVIOUS
  <2>1. CASE v = l
    BY <1>2, <1>4, <2>1
  <2>2. CASE v # l /\ m = l
    BY <1>4, <1>7, <2>2
  <2>3. CASE v # l /\ m # l
    BY <1>2, <1>5, <1>6, <2>3
  <2>4. QED
    BY <2>1, <2>2, <2>3
<1>9. SightAgrees'
  BY <1>8, SightMeetNext
<1>10. Named'
  <2>1. \A d \in Conn : InWorld(d)' => /\ InWorld(d) /\ login'[d] = login[d]
                                       /\ login[d] # l /\ login[d] \in Login
    BY <1>3 DEF Seen, Living, TypeOK, InWorld
  <2>2. QED
    BY <1>2, <2>1 DEF Seen, Named
<1>11. QED
  BY <1>9, <1>10

LEMMA PlayerSpawnedSight ==
    ASSUME Seen, NEW c \in Conn, PlayerSpawned(c)
    PROVE  SightAgrees' /\ Named'
<1> DEFINE new == Key(c) \notin DOMAIN copies
           ids == Population(zone[c], AvatarId(c) + 1)
           first == AvatarId(c) + 1 + (IF new THEN Cardinality(ids) ELSE 0)
           id(m) == RemoteId(c, CHOOSE d \in PeerOf(c, m) : TRUE, first)
<1>0. PICK l \in Login : l = login[c]
  BY DEF PlayerSpawned, Seen, Living, TypeOK
<1>1. /\ ~spawned[c] /\ l # NoLogin
      /\ spawned' = [spawned EXCEPT ![c] = TRUE]
      /\ avatar' = [avatar EXCEPT ![l] = AvatarId(c)]
      /\ remote' = Exchanged(c, first)
      /\ login' = login /\ zone' = zone /\ inst' = inst
  BY <1>0 DEF PlayerSpawned, Seen, Living, TypeOK
<1>2. AvatarId(c) # 0
  BY ConnAssumption, BoundAssumption DEF AvatarId
<1>3. /\ avatar'[l] = AvatarId(c)
      /\ \A m \in Login : m # l => avatar'[m] = avatar[m]
  BY <1>1 DEF Seen, Living, TypeOK
<1>4. \A v, m \in Login :
         remote'[v][m] = IF v = l /\ PeerOf(c, m) # {}
                         THEN [avatar |-> avatar[m], player |-> id(m)]
                         ELSE IF m = l /\ PeerOf(c, v) # {}
                         THEN [avatar |-> AvatarId(c), player |-> id(v) + 1]
                         ELSE remote[v][m]
  BY <1>0, <1>1 DEF Exchanged
<1> HIDE DEF id
<1>5. \A v, m \in Login :
         /\ v = l /\ PeerOf(c, m) # {} => remote'[v][m].avatar = avatar[m]
         /\ v # l /\ m = l /\ PeerOf(c, v) # {} => remote'[v][m].avatar = AvatarId(c)
         /\ v = l /\ m # l /\ PeerOf(c, m) = {} => remote'[v][m] = remote[v][m]
         /\ v # l /\ m = l /\ PeerOf(c, v) = {} => remote'[v][m] = remote[v][m]
         /\ v = l /\ m = l /\ PeerOf(c, l) = {} => remote'[v][m] = remote[v][m]
         /\ v # l /\ m # l => remote'[v][m] = remote[v][m]
  <2> SUFFICES ASSUME NEW v \in Login, NEW m \in Login
               PROVE  /\ v = l /\ PeerOf(c, m) # {} => remote'[v][m].avatar = avatar[m]
                      /\ v # l /\ m = l /\ PeerOf(c, v) # {} =>
                            remote'[v][m].avatar = AvatarId(c)
                      /\ v = l /\ m # l /\ PeerOf(c, m) = {} => remote'[v][m] = remote[v][m]
                      /\ v # l /\ m = l /\ PeerOf(c, v) = {} => remote'[v][m] = remote[v][m]
                      /\ v = l /\ m = l /\ PeerOf(c, l) = {} => remote'[v][m] = remote[v][m]
                      /\ v # l /\ m # l => remote'[v][m] = remote[v][m]
    OBVIOUS
  <2>1. CASE v = l /\ PeerOf(c, m) # {}
    <3>1. remote'[v][m] = [avatar |-> avatar[m], player |-> id(m)]
      BY <1>4, <2>1
    <3>2. QED
      BY <2>1, <3>1
  <2>2. CASE v # l /\ m = l /\ PeerOf(c, v) # {}
    <3>1. remote'[v][m] = [avatar |-> AvatarId(c), player |-> id(v) + 1]
      BY <1>4, <2>2
    <3>2. QED
      BY <2>2, <3>1
  <2>3. CASE /\ ~(v = l /\ PeerOf(c, m) # {})
             /\ ~(m = l /\ PeerOf(c, v) # {})
    BY <1>4, <2>3
  <2>4. CASE v = l /\ PeerOf(c, m) = {} /\ m = l /\ PeerOf(c, v) # {}
    BY <2>4
  <2>5. QED
    BY <2>1, <2>2, <2>3, <2>4
<1>6. \A d \in Conn : login[d] = l => d = c
  BY <1>0, <1>1 DEF Seen, LoginsApart
<1>7. /\ ~InWorld(c) /\ InWorld(c)'
      /\ \A d \in Conn \ {c} : InWorld(d)' = InWorld(d)
  BY <1>0, <1>1 DEF InWorld, Seen, Living, TypeOK
<1>8. \A v, m \in Login :
          /\ Meet(v, m) => remote[v][m].avatar = avatar[m] /\ avatar[m] # 0
          /\ ~Meet(v, m) => remote[v][m] = NotSeen
  BY SightMeet DEF Seen
<1>9. \A v \in Login : ~Meet(v, l) /\ ~Meet(l, v)
  BY <1>6, <1>7 DEF Meet
<1>10. \A v \in Login : PeerOf(c, v) # {} <=> (Meet(v, l)' \/ Meet(l, v)')
  <2> SUFFICES ASSUME NEW v \in Login
               PROVE  PeerOf(c, v) # {} <=> (Meet(v, l)' \/ Meet(l, v)')
    OBVIOUS
  <2>1. ASSUME PeerOf(c, v) # {}
        PROVE  Meet(v, l)'
    <3>1. PICK d \in Conn \ {c} : InWorld(d) /\ SameScope(d, c) /\ login[d] = v
      BY <2>1 DEF PeerOf, Peers
    <3>2. InWorld(d)' /\ SameScope(d, c)' /\ login'[d] = v /\ login'[c] = l
      BY <1>0, <1>1, <1>7, <3>1 DEF SameScope
    <3>3. QED
      BY <1>7, <3>1, <3>2 DEF Meet
  <2>2. ASSUME NEW d \in Conn, NEW e \in Conn, d # e,
               InWorld(d)', login'[d] = v, InWorld(e)', login'[e] = l,
               SameScope(d, e)' \/ SameScope(e, d)'
        PROVE  PeerOf(c, v) # {}
    <3>1. e = c /\ d # c
      BY <1>1, <1>6, <2>2
    <3>2. InWorld(d) /\ SameScope(d, c) /\ login[d] = v
      BY <1>1, <1>7, <2>2, <3>1 DEF SameScope
    <3>3. d \in PeerOf(c, v)
      BY <3>1, <3>2 DEF PeerOf, Peers
    <3>4. QED
      BY <3>3
  <2>3. QED
    BY <2>1, <2>2 DEF Meet
<1>11. \A v \in Login : Meet(v, l)' <=> Meet(l, v)'
  BY DEF Meet, SameScope
<1>12. PeerOf(c, l) = {}
  BY <1>6 DEF PeerOf, Peers
<1>13. \A v, m \in Login : v # l /\ m # l => (Meet(v, m)' <=> Meet(v, m))
  <2>1. \A d \in Conn : InWorld(d)' /\ login'[d] # l => d # c /\ InWorld(d)
    BY <1>0, <1>1, <1>7
  <2>2. \A d \in Conn : InWorld(d) => InWorld(d)'
    BY <1>7
  <2>3. \A d, e \in Conn : SameScope(d, e)' <=> SameScope(d, e)
    BY <1>1 DEF SameScope
  <2>4. QED
    BY <1>1, <2>1, <2>2, <2>3 DEF Meet
<1>14. \A m \in Login : PeerOf(c, m) # {} => avatar[m] # 0
  BY DEF PeerOf, Peers, Seen, Named
<1> HIDE DEF first
<1>15. \A v, m \in Login :
          /\ Meet(v, m)' => remote'[v][m].avatar = avatar'[m] /\ avatar'[m] # 0
          /\ ~Meet(v, m)' => remote'[v][m] = NotSeen
  <2> SUFFICES ASSUME NEW v \in Login, NEW m \in Login
               PROVE  /\ Meet(v, m)' => remote'[v][m].avatar = avatar'[m] /\ avatar'[m] # 0
                      /\ ~Meet(v, m)' => remote'[v][m] = NotSeen
    OBVIOUS
  <2>1. CASE v = l /\ m = l
    BY <1>5, <1>8, <1>9, <1>10, <1>12, <2>1
  <2>2. CASE v = l /\ m # l
    BY <1>3, <1>5, <1>8, <1>9, <1>10, <1>11, <1>14, <2>2
  <2>3. CASE v # l /\ m = l
    BY <1>2, <1>3, <1>5, <1>8, <1>9, <1>10, <1>11, <2>3
  <2>4. CASE v # l /\ m # l
    BY <1>3, <1>5, <1>8, <1>13, <2>4
  <2>5. QED
    BY <2>1, <2>2, <2>3, <2>4
<1>16. SightAgrees'
  BY <1>15, SightMeetNext
<1>17. Named'
  <2> SUFFICES ASSUME NEW d \in Conn, InWorld(d)'
               PROVE  avatar'[login'[d]] # 0
    BY DEF Named
  <2>1. CASE d = c
    BY <1>0, <1>1, <1>2, <1>3, <2>1
  <2>2. CASE d # c
    <3>1. InWorld(d) /\ login[d] # l /\ login[d] \in Login
      BY <1>6, <1>7, <2>2 DEF Seen, Living, TypeOK, InWorld
    <3>2. avatar[login[d]] # 0
      BY <3>1 DEF Seen, Named
    <3>3. QED
      BY <1>1, <1>3, <3>1, <3>2
  <2>3. QED
    BY <2>1, <2>2
<1>18. QED
  BY <1>16, <1>17

LEMMA NextSeen == Seen /\ [Next]_vars => Seen'
<1> SUFFICES ASSUME Seen, [Next]_vars
             PROVE  LoginsApart' /\ SightAgrees' /\ Named'
  BY NextLiving DEF Seen
<1>1. CASE UNCHANGED vars
  <2>1. LoginsApart'
    BY <1>1 DEF vars, Seen, LoginsApart
  <2>2. \A d \in Conn : InWorld(d)' = InWorld(d)
    BY <1>1 DEF vars, InWorld
  <2>3. QED
    BY <1>1, <2>1, <2>2, SameSight DEF vars
<1>2. ASSUME NEW c \in Conn, NEW l \in Login, LogIn(c, l)
      PROVE  LoginsApart' /\ SightAgrees' /\ Named'
  <2>1. /\ ~spawned[c] /\ login[c] = NoLogin /\ login'[c] = l /\ spawned' = spawned
        /\ \A d \in Conn \ {c} : login'[d] = login[d]
    BY <1>2 DEF Seen, Living, Placed, LogIn, TypeOK
  <2>2. \A d \in Conn : login[d] # l
    BY <1>2, PartyAssumption DEF LogIn, Seen, Living, Placed
  <2>3. LoginsApart'
    BY <2>1, <2>2 DEF Seen, LoginsApart
  <2>4. \A d \in Conn : InWorld(d)' = InWorld(d)
    BY <2>1 DEF InWorld
  <2>5. \A d \in Conn : InWorld(d) => login'[d] = login[d]
    BY <2>1 DEF InWorld
  <2>6. QED
    BY <1>2, <2>3, <2>4, <2>5, SameSight DEF LogIn, viewVars
<1>3. ASSUME NEW c \in Conn, StartZoneJoin(c)
      PROVE  LoginsApart' /\ SightAgrees' /\ Named'
  <2>1. \A d \in Conn \ {c} : inst'[d] = inst[d] /\ zone'[d] = zone[d]
    BY <1>3, AssignType, ZoneAssumption DEF StartZoneJoin, Seen, Living, TypeOK
  <2>2. login' = login /\ spawned' = spawned /\ ~spawned[c]
    BY <1>3 DEF StartZoneJoin
  <2>3. LoginsApart'
    BY <2>2 DEF Seen, LoginsApart
  <2>4. \A d \in Conn : InWorld(d)' = InWorld(d) /\ (InWorld(d) => d # c)
    BY <2>2 DEF InWorld
  <2>5. QED
    BY <1>3, <2>1, <2>2, <2>3, <2>4, SameSight DEF StartZoneJoin, viewVars
<1>4. ASSUME NEW c \in Conn, NEW z \in Zone, TransferZone(c, z)
      PROVE  LoginsApart' /\ SightAgrees' /\ Named'
  <2>1. \A d \in Conn \ {c} : inst'[d] = inst[d]
    BY <1>4, AssignType DEF TransferZone, Seen, Living
  <2>2. login' = login /\ ~InWorld(c)'
    BY <1>4 DEF TransferZone, InWorld, Seen, Living, TypeOK
  <2>3. \A d \in Conn \ {c} : InWorld(d)' = InWorld(d) /\ zone'[d] = zone[d]
    BY <1>4 DEF TransferZone, InWorld, Seen, Living, TypeOK
  <2>4. LoginsApart'
    BY <2>2 DEF Seen, LoginsApart
  <2>5. QED
    BY <1>4, <2>1, <2>2, <2>3, <2>4, LeaveSight DEF TransferZone
<1>5. ASSUME NEW c \in Conn, Disconnect(c)
      PROVE  LoginsApart' /\ SightAgrees' /\ Named'
  <2>1. ~InWorld(c)'
    BY <1>5 DEF Disconnect, InWorld, Seen, Living, TypeOK
  <2>2. \A d \in Conn \ {c} : /\ InWorld(d)' = InWorld(d) /\ login'[d] = login[d]
                              /\ zone'[d] = zone[d] /\ inst'[d] = inst[d]
    BY <1>5 DEF Disconnect, InWorld, Seen, Living, TypeOK
  <2>3. LoginsApart'
    BY <1>5 DEF Disconnect, Seen, LoginsApart, Living, TypeOK
  <2>4. QED
    BY <1>5, <2>1, <2>2, <2>3, LeaveSight DEF Disconnect
<1>6. ASSUME NEW c \in Conn, PlayerSpawned(c)
      PROVE  LoginsApart' /\ SightAgrees' /\ Named'
  <2>1. LoginsApart'
    BY <1>6 DEF PlayerSpawned, Seen, LoginsApart
  <2>2. QED
    BY <1>6, <2>1, PlayerSpawnedSight
<1>7. ASSUME \/ \E c \in Conn : SpawnLive(c)
             \/ ResetInstances
      PROVE  LoginsApart' /\ SightAgrees' /\ Named'
  <2>1. UNCHANGED <<login, spawned, zone, inst, avatar, remote>>
    BY <1>7 DEF SpawnLive, ResetInstances, connVars, viewVars
  <2>2. LoginsApart' /\ \A d \in Conn : InWorld(d)' = InWorld(d)
    BY <2>1 DEF Seen, LoginsApart, InWorld
  <2>3. QED
    BY <2>1, <2>2, SameSight
<1>8. QED
  BY <1>1, <1>2, <1>3, <1>4, <1>5, <1>6, <1>7 DEF Next

(* A viewer has an entry for a mover exactly while both stand in scope of  *)
(* one another, under the avatar id the mover has now, for any accounts,   *)
(* zones, copies and order of spawns, transfers and lost connections       *)
(* (exchange_player_spawns, the pops of _transfer_zone and _on_disconnect).*)
THEOREM SightCorrect == Spec => []SightAgrees
<1>1. Init => Seen
  <2> SUFFICES ASSUME Init PROVE Seen
    OBVIOUS
  <2>1. Living /\ LoginsApart /\ Named
    BY InitLiving DEF Init, LoginsApart, Named, InWorld
  <2>2. \A v, m \in Login : ~Meet(v, m) /\ remote[v][m] = NotSeen
    BY DEF Init, Meet, InWorld
  <2>3. SightAgrees
    BY <2>2, SightMeet
  <2>4. QED
    BY <2>1, <2>3 DEF Seen
<1>2. Seen => SightAgrees
  BY DEF Seen
<1>3. QED
  BY <1>1, <1>2, NextSeen, PTL DEF Spec

=============================================================================
