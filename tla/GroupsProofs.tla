----------------------------- MODULE GroupsProofs -----------------------------
(***************************************************************************)
(* Proofs about Groups: for any accounts, connections, zones and bounds.   *)
(***************************************************************************)
EXTENDS Groups, FiniteSetTheorems, TLAPS

USE DEF Gid, Zone

(* A group record stays one when a member takes or gives up a seat.        *)
LEMMA JoinedType ==
    ASSUME NEW G \in Group, NEW l \in Login
    PROVE  Joined(G, l) \in Group
BY DEF Joined, Group

LEMMA NoGroupType == NoGroup \in Group
BY DEF NoGroup, Group

LEMMA NewGroupType ==
    ASSUME NEW l \in Login
    PROVE  NewGroup(l) \in Group
BY NoGroupType DEF NewGroup, NoGroup, Group

LEMMA ShrunkType ==
    ASSUME NEW g \in Gid, NEW l \in Login, group[g] \in Group,
           NEW heir \in Login \cup {NoLogin}
    PROVE  Shrunk(g, l, heir) \in Group
<1> DEFINE own == [group[g].personal EXCEPT ![l] = 0]
<1>1. own \in [Login -> 0..3]
  BY DEF Group
<1>2. [group[g] EXCEPT !.members  = @ \ {l},
                       !.online   = @ \ {l},
                       !.personal = own,
                       !.leader   = heir] \in Group
  <2> HIDE DEF own
  <2> QED BY <1>1 DEF Group
<1>3. QED
  BY <1>2, NoGroupType DEF Shrunk

LEMMA GroupOfType ==
    ASSUME TypeOK, NEW l \in Login
    PROVE  /\ GroupOf(l) \in Gid \cup {0}
           /\ GroupOf(l) # 0 => GroupOf(l) = playerGroup[l] /\ Live(GroupOf(l))
BY DEF GroupOf, TypeOK

(* A connection that passes the login test of a handler has an account.    *)
LEMMA LoginType ==
    ASSUME TypeOK, NEW c \in Conn, login[c] # NoLogin
    PROVE  login[c] \in Login
BY DEF TypeOK

LEMMA InitType == Init => TypeOK
BY NoGroupType, BoundAssumption DEF Init, TypeOK

(* The record of one group may be replaced by another record.              *)
LEMMA UpdateType ==
    ASSUME TypeOK, NEW g \in Gid, NEW G \in Group
    PROVE  [group EXCEPT ![g] = G] \in [Gid -> Group]
BY DEF TypeOK

LEMMA AssignType ==
    ASSUME TypeOK, NEW c \in Conn, NEW z \in Zone, login[c] \in Login,
           AssignInstance(c, z)
    PROVE  /\ inst' \in [Conn -> Nat]
           /\ group' \in [Gid -> Group]
           /\ nextToken' \in Nat \ {0}
<1> DEFINE g == GroupOf(login[c])
<1>1. CASE z \in PublicZone
  <2>1. inst' = [inst EXCEPT ![c] = 0] /\ UNCHANGED <<group, nextToken>>
    BY <1>1, ZoneAssumption DEF AssignInstance
  <2>2. QED
    BY <2>1 DEF TypeOK
<1>2. CASE z \in PrivateZone /\ g # 0 /\ group[g].token # 0
  <2>1. g \in Gid
    BY <1>2, GroupOfType
  <2>2. group[g].token \in Nat
    BY <2>1 DEF TypeOK, Group
  <2>3. inst' = [inst EXCEPT ![c] = group[g].token] /\ UNCHANGED <<group, nextToken>>
    BY <1>2, ZoneAssumption DEF AssignInstance
  <2>4. QED
    BY <2>2, <2>3 DEF TypeOK
<1>3. CASE z \in PrivateZone /\ g # 0 /\ group[g].token = 0
  <2>1. g \in Gid /\ nextToken \in Nat
    BY <1>3, GroupOfType DEF TypeOK
  <2>2. /\ group' = [group EXCEPT ![g].token = nextToken]
        /\ inst' = [inst EXCEPT ![c] = nextToken]
        /\ nextToken' = nextToken + 1
    BY <1>3, ZoneAssumption DEF AssignInstance
  <2>3. [group[g] EXCEPT !.token = nextToken] \in Group
    <3>1. group[g] \in Group
      BY <2>1 DEF TypeOK
    <3>2. QED
      BY <2>1, <3>1 DEF Group
  <2>4. group' \in [Gid -> Group]
    <3>1. group' = [group EXCEPT ![g] = [group[g] EXCEPT !.token = nextToken]]
      BY <2>2
    <3>2. QED
      BY <2>1, <2>3, <3>1, UpdateType
  <2>5. QED
    BY <2>1, <2>2, <2>4 DEF TypeOK
<1>4. CASE z \in PrivateZone /\ g = 0
  <2>1. /\ inst' = [inst EXCEPT ![c] = nextToken]
        /\ nextToken' = nextToken + 1
        /\ UNCHANGED group
    BY <1>4, ZoneAssumption DEF AssignInstance
  <2>2. QED
    BY <2>1 DEF TypeOK
<1>5. QED
  BY <1>1, <1>2, <1>3, <1>4

(* A seat given up leaves a table of group records.                        *)
LEMMA DepartType ==
    ASSUME TypeOK, NEW g \in Gid, NEW l \in Login, Depart(g, l)
    PROVE  TypeOK'
<1>1. Heirs(g, l) \subseteq Login \cup {NoLogin}
  BY DEF Heirs, Stayers, TypeOK, Group
<1>2. PICK heir \in Login \cup {NoLogin} :
         group' = [group EXCEPT ![g] = Shrunk(g, l, heir)]
  BY <1>1 DEF Depart
<1>3. Shrunk(g, l, heir) \in Group
  BY ShrunkType DEF TypeOK
<1>4. group' \in [Gid -> Group]
  BY <1>2, <1>3, UpdateType
<1>5. playerGroup' \in [Login -> Gid \cup {0}] /\ pending' \in [Login -> Gid \cup {0}]
  BY DEF Depart, TypeOK
<1>6. QED
  BY <1>4, <1>5 DEF Depart, TypeOK, connVars

LEMMA InviteType ==
    ASSUME TypeOK, NEW c \in Conn, NEW t \in Login, Invite(c, t)
    PROVE  TypeOK'
<1> DEFINE l == login[c]
           founds == playerGroup[l] = 0
           g == IF founds THEN nextId ELSE playerGroup[l]
           G == IF founds THEN NewGroup(l) ELSE group[g]
<1>1. l \in Login
  BY LoginType DEF Invite
<1>2. g \in Gid
  BY <1>1, BoundAssumption DEF Invite, TypeOK
<1>3. G \in Group
  BY <1>1, <1>2, NewGroupType DEF TypeOK
<1>4. group' \in [Gid -> Group]
  BY <1>2, <1>3, UpdateType DEF Invite
<1>5. playerGroup' \in [Login -> Gid \cup {0}] /\ pending' \in [Login -> Gid \cup {0}]
  BY <1>1, <1>2 DEF Invite, TypeOK
<1>6. nextId' \in 1..(MaxGid + 1)
  BY BoundAssumption DEF Invite, TypeOK
<1>7. QED
  BY <1>4, <1>5, <1>6 DEF Invite, TypeOK, connVars

LEMMA AcceptType ==
    ASSUME TypeOK, NEW c \in Conn, Accept(c)
    PROVE  TypeOK'
<1> DEFINE l == login[c]
           g == pending[l]
           h == GroupOf(l)
<1>1. l \in Login /\ g \in Gid
  <2>1. l \in Login
    BY LoginType DEF Accept
  <2>2. QED
    BY <2>1 DEF Accept, TypeOK
<1>2. UNCHANGED <<connVars, nextId, nextToken>>
  BY DEF Accept
<1>3. group' \in [Gid -> Group] /\ playerGroup' \in [Login -> Gid \cup {0}]
  <2>1. CASE UNCHANGED <<group, playerGroup>>
    BY <2>1 DEF TypeOK
  <2>2. CASE /\ group' = [group EXCEPT ![g] = Joined(group[g], l)]
             /\ playerGroup' = [playerGroup EXCEPT ![l] = g]
    <3>1. Joined(group[g], l) \in Group
      BY <1>1, JoinedType DEF TypeOK
    <3>2. QED
      BY <1>1, <2>2, <3>1, UpdateType DEF TypeOK
  <2>3. CASE /\ h # 0
             /\ \E heir \in Heirs(h, l) \cup {NoLogin} :
                   group' = [group EXCEPT ![h] = Shrunk(h, l, heir),
                                          ![g] = Joined(group[g], l)]
             /\ playerGroup' =
                   [m \in Login |-> IF m = l THEN g
                                    ELSE IF m \in Unseated(h, l) THEN 0
                                    ELSE playerGroup[m]]
    <3>1. h \in Gid
      BY <1>1, <2>3, GroupOfType
    <3>2. Heirs(h, l) \subseteq Login \cup {NoLogin}
      BY <3>1 DEF Heirs, Stayers, TypeOK, Group
    <3>3. PICK heir \in Login \cup {NoLogin} :
             group' = [group EXCEPT ![h] = Shrunk(h, l, heir),
                                    ![g] = Joined(group[g], l)]
      BY <2>3, <3>2
    <3>4. Shrunk(h, l, heir) \in Group
      BY <1>1, <3>1, ShrunkType DEF TypeOK
    <3>5. Joined(group[g], l) \in Group
      BY <1>1, JoinedType DEF TypeOK
    <3>6. group' \in [Gid -> Group]
      BY <1>1, <3>1, <3>3, <3>4, <3>5, UpdateType DEF TypeOK
    <3>7. playerGroup' \in [Login -> Gid \cup {0}]
      BY <1>1, <2>3 DEF TypeOK
    <3>8. QED
      BY <3>6, <3>7
  <2>4. QED
    BY <2>1, <2>2, <2>3 DEF Accept
<1>4. pending' \in [Login -> Gid \cup {0}]
  BY DEF Accept, TypeOK
<1>5. QED
  BY <1>2, <1>3, <1>4 DEF TypeOK, connVars

(* Changing one field of a group record leaves a group record.             *)
LEMMA FieldType ==
    ASSUME NEW G \in Group
    PROVE  /\ \A l \in Login : /\ [G EXCEPT !.online = @ \cup {l}] \in Group
                               /\ [G EXCEPT !.online = @ \ {l}] \in Group
                               /\ \A d \in 0..3 :
                                     [G EXCEPT !.leader = l, !.difficulty = d] \in Group
           /\ \A n \in Nat : /\ [G EXCEPT !.invite = n] \in Group
                             /\ [G EXCEPT !.token = n] \in Group
           /\ \A b \in BOOLEAN : [G EXCEPT !.open = b] \in Group
           /\ \A f \in [Login -> 0..3], d \in 0..3 :
                 [G EXCEPT !.personal = f, !.difficulty = d] \in Group
<1>1. \A l \in Login : /\ [G EXCEPT !.online = @ \cup {l}] \in Group
                       /\ [G EXCEPT !.online = @ \ {l}] \in Group
  BY DEF Group
<1>2. \A l \in Login, d \in 0..3 : [G EXCEPT !.leader = l, !.difficulty = d] \in Group
  BY DEF Group
<1>3. \A n \in Nat : /\ [G EXCEPT !.invite = n] \in Group
                     /\ [G EXCEPT !.token = n] \in Group
  BY DEF Group
<1>4. \A b \in BOOLEAN : [G EXCEPT !.open = b] \in Group
  BY DEF Group
<1>5. \A f \in [Login -> 0..3], d \in 0..3 :
         [G EXCEPT !.personal = f, !.difficulty = d] \in Group
  BY DEF Group
<1>6. QED
  BY <1>1, <1>2, <1>3, <1>4, <1>5

LEMMA TransferType ==
    ASSUME TypeOK, NEW c \in Conn, NEW z, TransferZone(c, z)
    PROVE  TypeOK'
<1>1. z \in Zone
  BY DEF TransferZone, AssignInstance
<1>2. login[c] \in Login
  BY LoginType DEF TransferZone
<1>3. /\ inst' \in [Conn -> Nat]
      /\ group' \in [Gid -> Group]
      /\ nextToken' \in Nat \ {0}
  BY <1>1, <1>2, AssignType DEF TransferZone
<1>4. /\ spawned' = [spawned EXCEPT ![c] = FALSE]
      /\ zone' = [zone EXCEPT ![c] = z]
      /\ UNCHANGED <<accepted, login, playerGroup, pending, nextId>>
  BY DEF TransferZone
<1>5. QED
  BY <1>1, <1>3, <1>4 DEF TypeOK

LEMMA StepType == TypeOK /\ [Next]_vars => TypeOK'
<1> SUFFICES ASSUME TypeOK, [Next]_vars
             PROVE  TypeOK'
  OBVIOUS
<1>1. ASSUME NEW c \in Conn, NEW l \in Login, LogIn(c, l)
      PROVE  TypeOK'
  BY <1>1 DEF LogIn, TypeOK, groupVars
<1>2. ASSUME NEW c \in Conn, StartZoneJoin(c)
      PROVE  TypeOK'
  <2>1. StartZone \in Zone /\ login[c] \in Login
    BY <1>2, LoginType, ZoneAssumption DEF StartZoneJoin
  <2>2. /\ inst' \in [Conn -> Nat]
        /\ group' \in [Gid -> Group]
        /\ nextToken' \in Nat \ {0}
    BY <1>2, <2>1, AssignType DEF StartZoneJoin
  <2>3. /\ zone' \in [Conn -> Zone \cup {NoZone}]
        /\ UNCHANGED <<accepted, login, spawned, playerGroup, pending, nextId>>
    BY <1>2, <2>1 DEF StartZoneJoin, TypeOK
  <2>4. QED
    BY <2>2, <2>3 DEF TypeOK
<1>3. ASSUME NEW c \in Conn, NEW z \in Zone, TransferZone(c, z)
      PROVE  TypeOK'
  BY <1>3, TransferType
<1>4. ASSUME NEW c \in Conn, PlayerSpawned(c)
      PROVE  TypeOK'
  <2> DEFINE l == login[c]
             g == GroupOf(l)
  <2>1. l \in Login
    BY <1>4, LoginType DEF PlayerSpawned
  <2>2. l # NoLogin
    BY <2>1, LoginAssumption
  <2>3. CASE g # 0 /\ l \in group[g].members
    <3>1. g \in Gid
      BY <2>1, <2>3, GroupOfType
    <3>2. [group[g] EXCEPT !.online = @ \cup {l}] \in Group
      BY <2>1, <3>1, FieldType DEF TypeOK
    <3>3. group' = [group EXCEPT ![g] = [group[g] EXCEPT !.online = @ \cup {l}]]
      BY <1>4, <2>2, <2>3 DEF PlayerSpawned
    <3>4. group' \in [Gid -> Group]
      BY <3>1, <3>2, <3>3, UpdateType
    <3>5. QED
      BY <1>4, <3>4 DEF PlayerSpawned, TypeOK
  <2>4. CASE ~(g # 0 /\ l \in group[g].members)
    <3>1. UNCHANGED group
      BY <1>4, <2>2, <2>4 DEF PlayerSpawned
    <3>2. QED
      BY <1>4, <3>1 DEF PlayerSpawned, TypeOK
  <2>5. QED
    BY <2>3, <2>4
<1>5. ASSUME NEW c \in Conn, Disconnect(c)
      PROVE  TypeOK'
  <2> DEFINE l == login[c]
             g == GroupOf(l)
  <2>1. l \in Login
    BY <1>5, LoginType DEF Disconnect
  <2>2. l # NoLogin
    BY <2>1, LoginAssumption
  <2>3. group' \in [Gid -> Group]
    <3>1. CASE g # 0 /\ l \in group[g].members
      <4>1. g \in Gid
        BY <2>1, <3>1, GroupOfType
      <4>2. [group[g] EXCEPT !.online = @ \ {l}] \in Group
        BY <2>1, <4>1, FieldType DEF TypeOK
      <4>3. group' = [group EXCEPT ![g] = [group[g] EXCEPT !.online = @ \ {l}]]
        BY <1>5, <2>2, <3>1 DEF Disconnect
      <4>4. QED
        BY <4>1, <4>2, <4>3, UpdateType
    <3>2. CASE ~(g # 0 /\ l \in group[g].members)
      BY <1>5, <2>2, <3>2 DEF Disconnect, TypeOK
    <3>3. QED
      BY <3>1, <3>2
  <2>4. /\ login' \in [Conn -> Login \cup {NoLogin}]
        /\ spawned' \in [Conn -> BOOLEAN]
        /\ zone' \in [Conn -> Zone \cup {NoZone}]
        /\ inst' \in [Conn -> Nat]
        /\ pending' \in [Login -> Gid \cup {0}]
        /\ UNCHANGED <<accepted, playerGroup, nextId, nextToken>>
    BY <1>5 DEF Disconnect, TypeOK
  <2>5. QED
    BY <2>3, <2>4 DEF TypeOK
<1>6. ASSUME NEW c \in Conn, NEW t \in Login, Invite(c, t)
      PROVE  TypeOK'
  BY <1>6, InviteType
<1>7. ASSUME NEW c \in Conn, Accept(c)
      PROVE  TypeOK'
  BY <1>7, AcceptType
<1>8. ASSUME NEW c \in Conn, Decline(c)
      PROVE  TypeOK'
  BY <1>8 DEF Decline, TypeOK, connVars
<1>9. ASSUME NEW c \in Conn, Leave(c)
      PROVE  TypeOK'
  BY <1>9, LoginType, GroupOfType, DepartType DEF Leave
<1>10. ASSUME NEW c \in Conn, NEW t \in Login, Kick(c, t)
       PROVE  TypeOK'
  BY <1>10, LoginType, GroupOfType, DepartType DEF Kick
<1>11. ASSUME NEW c \in Conn, NEW t \in Login, SetLeader(c, t)
       PROVE  TypeOK'
  <2> DEFINE g == GroupOf(login[c])
  <2>1. g \in Gid
    BY <1>11, LoginType, GroupOfType DEF SetLeader
  <2>2. group[g].personal[t] \in 0..3
    BY <2>1 DEF TypeOK, Group
  <2>3. [group[g] EXCEPT !.leader = t, !.difficulty = group[g].personal[t]] \in Group
    BY <2>1, <2>2, FieldType DEF TypeOK
  <2>4. group' = [group EXCEPT ![g] =
            [group[g] EXCEPT !.leader = t, !.difficulty = group[g].personal[t]]]
    BY <1>11, <2>1 DEF SetLeader, TypeOK
  <2>5. group' \in [Gid -> Group]
    BY <2>1, <2>3, <2>4, UpdateType
  <2>6. QED
    BY <1>11, <2>5 DEF SetLeader, TypeOK, connVars
<1>12. ASSUME NEW c \in Conn, NEW d \in Difficulty, SetMonsterDifficulty(c, d)
       PROVE  TypeOK'
  <2> DEFINE l == login[c]
             g == GroupOf(l)
             own == [group[g].personal EXCEPT ![l] = d]
             all == IF group[g].leader = l THEN d ELSE group[g].difficulty
  <2>1. l \in Login /\ g \in Gid
    BY <1>12, LoginType, GroupOfType DEF SetMonsterDifficulty
  <2>2. d \in 0..3
    BY <1>12, SettingAssumption DEF SetMonsterDifficulty
  <2>3. own \in [Login -> 0..3] /\ all \in 0..3
    BY <2>1, <2>2 DEF TypeOK, Group
  <2>4. [group[g] EXCEPT !.personal = own, !.difficulty = all] \in Group
    <3>1. group[g] \in Group
      BY <2>1 DEF TypeOK
    <3> HIDE DEF own, all
    <3>2. QED
      BY <2>3, <3>1, FieldType
  <2>5. group' = [group EXCEPT ![g] =
                     [group[g] EXCEPT !.personal = own, !.difficulty = all]]
    BY <1>12, <2>1 DEF SetMonsterDifficulty, TypeOK
  <2>6. group' \in [Gid -> Group]
    <3> HIDE DEF own, all
    <3> QED BY <2>1, <2>4, <2>5, UpdateType
  <2>7. UNCHANGED <<connVars, playerGroup, pending, nextId, nextToken>>
    BY <1>12 DEF SetMonsterDifficulty
  <2>8. QED
    BY <2>6, <2>7 DEF TypeOK, connVars
<1>13. ASSUME NEW c \in Conn, NEW mode \in InviteMode, SetInviteMode(c, mode)
       PROVE  TypeOK'
  <2> DEFINE g == GroupOf(login[c])
  <2>1. g \in Gid /\ group[g] \in Group
    BY <1>13, LoginType, GroupOfType DEF SetInviteMode, TypeOK
  <2>2. group' = [group EXCEPT ![g] = [group[g] EXCEPT !.invite = mode]]
    BY <1>13 DEF SetInviteMode
  <2>3. group' \in [Gid -> Group]
    BY <2>1, <2>2, FieldType, UpdateType, SettingAssumption
  <2>4. QED
    BY <1>13, <2>3 DEF SetInviteMode, TypeOK, connVars
<1>14. ASSUME NEW c \in Conn, NEW flag \in OpenFlag, SetOpenGroup(c, flag)
       PROVE  TypeOK'
  <2> DEFINE g == GroupOf(login[c])
  <2>1. g \in Gid /\ group[g] \in Group
    BY <1>14, LoginType, GroupOfType DEF SetOpenGroup, TypeOK
  <2>2. group' = [group EXCEPT ![g] = [group[g] EXCEPT !.open = flag]]
    BY <1>14 DEF SetOpenGroup
  <2>3. group' \in [Gid -> Group]
    BY <2>1, <2>2, FieldType, UpdateType, SettingAssumption
  <2>4. QED
    BY <1>14, <2>3 DEF SetOpenGroup, TypeOK, connVars
<1>15. ASSUME NEW c \in Conn, ResetInstances(c)
       PROVE  TypeOK'
  <2> DEFINE g == GroupOf(login[c])
  <2>1. g \in Gid /\ group[g] \in Group /\ nextToken \in Nat
    BY <1>15, LoginType, GroupOfType DEF ResetInstances, TypeOK
  <2>2. group' = [group EXCEPT ![g] = [group[g] EXCEPT !.token = nextToken]]
    BY <1>15 DEF ResetInstances
  <2>3. group' \in [Gid -> Group]
    BY <2>1, <2>2, FieldType, UpdateType
  <2>4. QED
    BY <1>15, <2>1, <2>3 DEF ResetInstances, TypeOK, connVars
<1>16. ASSUME NEW c \in Conn, NEW t \in Login, GotoMember(c, t)
       PROVE  TypeOK'
  <2>1. TransferZone(c, zone[ConnFor(t)])
    BY <1>16 DEF GotoMember
  <2>2. QED
    BY <2>1, TransferType
<1>17. CASE UNCHANGED vars
  BY <1>17 DEF vars, TypeOK
<1>18. QED
  BY <1>1, <1>2, <1>3, <1>4, <1>5, <1>6, <1>7, <1>8, <1>9, <1>10, <1>11,
     <1>12, <1>13, <1>14, <1>15, <1>16, <1>17 DEF Next

(* Type correctness, whatever the number of accounts and connections.      *)
THEOREM TypeCorrect == Spec => []TypeOK
<1>1. Init => TypeOK
  BY InitType
<1>2. TypeOK /\ [Next]_vars => TypeOK'
  BY StepType
<1>3. QED
  BY <1>1, <1>2, PTL DEF Spec

-----------------------------------------------------------------------------
(* The rosters.  The three invariants need each other: a seat may be given *)
(* or taken away safely only because the two tables agree, and an accepted *)
(* invitation leads to another group than the one that is left.            *)

RosterInv == TypeOK /\ SeatsAgree /\ GroupSound /\ InviteSound

LEMMA DeadGroupIsEmpty ==
    ASSUME NEW g \in Gid, ~Live(g)
    PROVE  group[g].members = {} /\ group[g].online = {} /\ group[g].token = 0
BY DEF Live, NoGroup

LEMMA SeatedInLive ==
    ASSUME NEW g \in Gid, NEW l \in group[g].members
    PROVE  Live(g)
BY DeadGroupIsEmpty

(* While the tables agree _group_of finds the group of every login.        *)
LEMMA GroupOfSeat ==
    ASSUME RosterInv, NEW l \in Login
    PROVE  /\ GroupOf(l) = playerGroup[l]
           /\ GroupOf(l) # 0 => /\ GroupOf(l) \in Gid
                                /\ Live(GroupOf(l))
                                /\ l \in group[GroupOf(l)].members
<1>1. CASE playerGroup[l] = 0
  BY <1>1 DEF GroupOf
<1>2. CASE playerGroup[l] # 0
  <2>1. playerGroup[l] \in Gid
    BY <1>2 DEF RosterInv, TypeOK
  <2>2. l \in group[playerGroup[l]].members
    BY <2>1 DEF RosterInv, SeatsAgree
  <2>3. Live(playerGroup[l])
    BY <2>1, <2>2, SeatedInLive
  <2>4. QED
    BY <1>2, <2>1, <2>2, <2>3 DEF GroupOf
<1>3. QED
  BY <1>1, <1>2

(* A step that seats and unseats nobody keeps the invariant.               *)
LEMMA QuietStep ==
    ASSUME RosterInv, TypeOK', playerGroup' = playerGroup, nextId' = nextId,
           \A l \in Login : pending'[l] \in {0, pending[l]},
           \A g \in Gid : /\ Live(g)' => Live(g)
                          /\ group'[g].members = group[g].members
                          /\ Live(g)' => group'[g].leader \in group[g].members
                          /\ group'[g].online \subseteq group[g].members
    PROVE  RosterInv'
<1>1. SeatsAgree'
  BY DEF RosterInv, SeatsAgree
<1>2. GroupSound'
  BY DEF RosterInv, GroupSound
<1>3. InviteSound'
  BY DEF RosterInv, InviteSound
<1>4. QED
  BY <1>1, <1>2, <1>3 DEF RosterInv

(* A step that leaves every group as it is, or replaces one live group by  *)
(* one with the same roster, is quiet.                                     *)
LEMMA SameRosters ==
    ASSUME RosterInv, TypeOK', playerGroup' = playerGroup, nextId' = nextId,
           \A l \in Login : pending'[l] \in {0, pending[l]},
           \/ group' = group
           \/ \E g \in Gid, G \in Group :
                 /\ group' = [group EXCEPT ![g] = G]
                 /\ Live(g)
                 /\ G.members = group[g].members
                 /\ G.leader \in group[g].members
                 /\ G.online \subseteq group[g].members
    PROVE  RosterInv'
<1>1. \A g \in Gid : /\ Live(g) => group[g].leader \in group[g].members
                     /\ group[g].online \subseteq group[g].members
  BY DeadGroupIsEmpty DEF RosterInv, GroupSound
<1>2. CASE group' = group
  <2>1. \A g \in Gid : /\ Live(g)' => Live(g)
                       /\ group'[g].members = group[g].members
                       /\ Live(g)' => group'[g].leader \in group[g].members
                       /\ group'[g].online \subseteq group[g].members
    BY <1>1, <1>2 DEF Live
  <2>2. QED
    BY <2>1, QuietStep
<1>3. CASE \E g \in Gid, G \in Group :
              /\ group' = [group EXCEPT ![g] = G]
              /\ Live(g)
              /\ G.members = group[g].members
              /\ G.leader \in group[g].members
              /\ G.online \subseteq group[g].members
  <2>1. PICK g \in Gid, G \in Group :
              /\ group' = [group EXCEPT ![g] = G]
              /\ Live(g)
              /\ G.members = group[g].members
              /\ G.leader \in group[g].members
              /\ G.online \subseteq group[g].members
    BY <1>3
  <2>2. \A k \in Gid : group'[k] = IF k = g THEN G ELSE group[k]
    BY <2>1 DEF RosterInv, TypeOK
  <2>3. QED
    BY <1>1, <2>1, <2>2, QuietStep DEF Live
<1>4. QED
  BY <1>2, <1>3

-----------------------------------------------------------------------------
(* Departures *)

(* What is left of a group after l gave up its seat.                       *)
LEMMA ShrunkRoster ==
    ASSUME RosterInv, NEW g \in Gid, NEW l \in group[g].members,
           NEW heir \in Heirs(g, l) \cup {NoLogin},
           heir = NoLogin <=> Heirs(g, l) = {}
    PROVE  LET G == Shrunk(g, l, heir) IN
           /\ G \in Group
           /\ G.members = group[g].members \ Unseated(g, l)
           /\ G # NoGroup => /\ G.leader \in G.members
                             /\ G.online \subseteq G.members
                             /\ Cardinality(G.members) <= MaxGroupSize
<1> DEFINE M == group[g].members
           G == Shrunk(g, l, heir)
<1>1. /\ group[g] \in Group /\ M \subseteq Login /\ l \in Login
      /\ group[g].leader \in M /\ group[g].online \subseteq M
      /\ IsFiniteSet(M) /\ Cardinality(M) \in Nat
      /\ Cardinality(M) <= MaxGroupSize
  <2>1. group[g] \in Group /\ M \subseteq Login
    BY DEF RosterInv, TypeOK, Group
  <2>2. IsFiniteSet(M) /\ Cardinality(M) \in Nat
    BY <2>1, LoginAssumption, FS_Subset, FS_CardinalityType
  <2>3. Live(g)
    BY SeatedInLive
  <2>4. QED
    BY <2>1, <2>2, <2>3 DEF RosterInv, GroupSound
<1>2. heir \in Login \cup {NoLogin}
  BY <1>1 DEF Heirs, Stayers
<1>3. G \in Group
  BY <1>1, <1>2, ShrunkType
<1>4. CASE Dissolves(g)
  BY <1>3, <1>4 DEF Shrunk, Unseated, NoGroup
<1>5. CASE ~Dissolves(g)
  <2>1. Cardinality(M) > 2
    BY <1>1, <1>5 DEF Dissolves
  <2>2. IsFiniteSet(M \ {l}) /\ Cardinality(M \ {l}) = Cardinality(M) - 1
    BY <1>1, FS_RemoveElement
  <2>3. M \ {l} # {}
    BY <1>1, <2>1, <2>2, FS_EmptySet
  <2>4. heir \in M \ {l}
    BY <1>1, <2>3, LoginAssumption DEF Heirs, Stayers
  <2> DEFINE own == [group[g].personal EXCEPT ![l] = 0]
  <2>5. G = [group[g] EXCEPT !.members  = @ \ {l},
                             !.online   = @ \ {l},
                             !.personal = own,
                             !.leader   = heir]
    BY <1>5 DEF Shrunk
  <2>6. G.members = M \ {l} /\ G.online = group[g].online \ {l} /\ G.leader = heir
    <3> HIDE DEF own
    <3> QED BY <1>1, <2>5 DEF Group
  <2>7. Unseated(g, l) = {l}
    BY <1>5 DEF Unseated
  <2>8. Cardinality(G.members) <= MaxGroupSize
    BY <1>1, <2>2, <2>6, SizeAssumption
  <2>9. QED
    BY <1>1, <1>3, <2>4, <2>6, <2>7, <2>8
<1>6. QED
  BY <1>4, <1>5

LEMMA DepartRoster ==
    ASSUME RosterInv, TypeOK', NEW g \in Gid, NEW l \in group[g].members, Depart(g, l)
    PROVE  RosterInv'
<1>1. PICK heir \in Heirs(g, l) \cup {NoLogin} :
         /\ heir = NoLogin <=> Heirs(g, l) = {}
         /\ group' = [group EXCEPT ![g] = Shrunk(g, l, heir)]
  BY DEF Depart
<1> DEFINE G == Shrunk(g, l, heir)
<1>2. /\ \A m \in Login : playerGroup'[m] = IF m \in Unseated(g, l) THEN 0
                                            ELSE playerGroup[m]
      /\ \A m \in Login : pending'[m] = IF m \in Unseated(g, l) THEN 0
                                        ELSE pending[m]
      /\ nextId' = nextId
  BY DEF Depart
<1>3. \A k \in Gid : group'[k] = IF k = g THEN G ELSE group[k]
  BY <1>1 DEF RosterInv, TypeOK
<1>4. /\ G.members = group[g].members \ Unseated(g, l)
      /\ G # NoGroup => /\ G.leader \in G.members
                        /\ G.online \subseteq G.members
                        /\ Cardinality(G.members) <= MaxGroupSize
  BY <1>1, ShrunkRoster
<1>5. Unseated(g, l) \subseteq group[g].members /\ Live(g)
  BY SeatedInLive DEF Unseated
<1>6. SeatsAgree'
  <2> SUFFICES ASSUME NEW m \in Login, NEW k \in Gid
               PROVE  playerGroup'[m] = k <=> m \in group'[k].members
    BY DEF SeatsAgree
  <2>1. playerGroup[m] = k <=> m \in group[k].members
    BY DEF RosterInv, SeatsAgree
  <2>2. playerGroup[m] = g <=> m \in group[g].members
    BY DEF RosterInv, SeatsAgree
  <2>3. k # 0
    OBVIOUS
  <2> HIDE DEF G
  <2>4. CASE k = g
    BY <1>2, <1>3, <1>4, <2>1, <2>3, <2>4
  <2>5. CASE k # g
    BY <1>2, <1>3, <1>5, <2>1, <2>2, <2>3, <2>5
  <2>6. QED
    BY <2>4, <2>5
<1>7. GroupSound'
  <2> SUFFICES ASSUME NEW k \in Gid, Live(k)'
               PROVE  /\ k < nextId'
                      /\ group'[k].leader \in group'[k].members
                      /\ group'[k].online \subseteq group'[k].members
                      /\ Cardinality(group'[k].members) <= MaxGroupSize
    BY DEF GroupSound
  <2> HIDE DEF G
  <2>1. CASE k = g
    BY <1>2, <1>3, <1>4, <1>5, <2>1 DEF RosterInv, GroupSound, Live
  <2>2. CASE k # g
    BY <1>2, <1>3, <2>2 DEF RosterInv, GroupSound, Live
  <2>3. QED
    BY <2>1, <2>2
<1>8. InviteSound'
  BY <1>2 DEF RosterInv, InviteSound
<1>9. QED
  BY <1>6, <1>7, <1>8 DEF RosterInv

-----------------------------------------------------------------------------
(* Invitations *)

LEMMA InviteRoster ==
    ASSUME RosterInv, NEW c \in Conn, NEW t \in Login, Invite(c, t)
    PROVE  RosterInv'
<1> DEFINE l == login[c]
           founds == playerGroup[l] = 0
           g == IF founds THEN nextId ELSE playerGroup[l]
           G == IF founds THEN NewGroup(l) ELSE group[g]
<1>1. TypeOK' /\ l \in Login /\ l # t
  BY InviteType, LoginType DEF RosterInv, Invite
<1>2. /\ g \in Gid
      /\ group' = [group EXCEPT ![g] = G]
      /\ playerGroup' = [playerGroup EXCEPT ![l] = g]
      /\ nextId' = IF founds THEN nextId + 1 ELSE nextId
      /\ \/ pending' = pending
         \/ pending' = [pending EXCEPT ![t] = g] /\ playerGroup[t] = 0
      /\ nextId \in Nat
  BY <1>1, BoundAssumption DEF Invite, Invitable, RosterInv, TypeOK
<1>3. CASE ~founds
  <2>1. group' = group /\ playerGroup' = playerGroup /\ nextId' = nextId
    BY <1>1, <1>2, <1>3 DEF RosterInv, TypeOK
  <2>2. g < nextId
    <3>1. l \in group[g].members
      BY <1>1, <1>2, <1>3 DEF RosterInv, SeatsAgree
    <3>2. QED
      BY <1>2, <3>1, SeatedInLive DEF RosterInv, GroupSound
  <2>3. SeatsAgree' /\ GroupSound'
    BY <2>1 DEF RosterInv, SeatsAgree, GroupSound, Live
  <2>4. InviteSound'
    BY <1>2, <2>1, <2>2 DEF RosterInv, InviteSound, TypeOK
  <2>5. QED
    BY <1>1, <2>3, <2>4 DEF RosterInv
<1>4. CASE founds
  <2>1. g = nextId /\ G = NewGroup(l)
    BY <1>4
  <2>2. ~Live(g)
    <3>1. Live(nextId) /\ nextId \in Gid => nextId < nextId
      BY DEF RosterInv, GroupSound
    <3>2. QED
      BY <1>2, <2>1, <3>1
  <2>3. /\ G.members = {l} /\ G.leader = l /\ G.online = {l}
        /\ Cardinality(G.members) <= MaxGroupSize
    <3>1. G = [NoGroup EXCEPT !.leader = l, !.members = {l}, !.online = {l}]
      BY <2>1 DEF NewGroup
    <3>2. G.members = {l} /\ G.leader = l /\ G.online = {l}
      <4> HIDE DEF G
      <4> QED BY <3>1, NoGroupType DEF Group
    <3>3. Cardinality({l}) = 1
      BY FS_Singleton
    <3>4. QED
      <4> HIDE DEF G
      <4> QED BY <3>2, <3>3, SizeAssumption
  <2>4. \A k \in Gid : group'[k] = IF k = g THEN G ELSE group[k]
    BY <1>2 DEF RosterInv, TypeOK
  <2>5. \A m \in Login : playerGroup'[m] = IF m = l THEN g ELSE playerGroup[m]
    BY <1>2 DEF RosterInv, TypeOK
  <2> HIDE DEF G, g
  <2>6. SeatsAgree'
    <3> SUFFICES ASSUME NEW m \in Login, NEW k \in Gid
                 PROVE  playerGroup'[m] = k <=> m \in group'[k].members
      BY DEF SeatsAgree
    <3>1. /\ playerGroup[m] = k <=> m \in group[k].members
          /\ playerGroup[m] = g <=> m \in group[g].members
      BY <1>2 DEF RosterInv, SeatsAgree
    <3>2. group[g].members = {} /\ playerGroup[l] = 0 /\ k # 0
      BY <1>2, <1>4, <2>2, DeadGroupIsEmpty
    <3>3. QED
      BY <2>3, <2>4, <2>5, <3>1, <3>2
  <2>7. GroupSound'
    <3> SUFFICES ASSUME NEW k \in Gid, Live(k)'
                 PROVE  /\ k < nextId'
                        /\ group'[k].leader \in group'[k].members
                        /\ group'[k].online \subseteq group'[k].members
                        /\ Cardinality(group'[k].members) <= MaxGroupSize
      BY DEF GroupSound
    <3>1. nextId' = nextId + 1
      BY <1>2, <1>4
    <3>2. CASE k = g
      <4>1. group'[k] = G
        BY <2>4, <3>2
      <4>2. k < nextId'
        BY <1>2, <2>1, <3>1, <3>2
      <4>3. QED
        BY <2>3, <4>1, <4>2
    <3>3. CASE k # g
      <4>1. Live(k)
        BY <2>4, <3>3 DEF Live
      <4>2. k < nextId
        BY <4>1 DEF RosterInv, GroupSound
      <4>3. QED
        BY <1>2, <2>4, <3>1, <3>3, <4>1, <4>2 DEF RosterInv, GroupSound
    <3>4. QED
      BY <3>2, <3>3
  <2>8. InviteSound'
    <3> SUFFICES ASSUME NEW m \in Login, pending'[m] # 0
                 PROVE  pending'[m] < nextId' /\ pending'[m] # playerGroup'[m]
      BY DEF InviteSound
    <3>1. nextId' = nextId + 1 /\ nextId \in Nat /\ g = nextId
      BY <1>2, <1>4, <2>1
    <3>2. CASE pending'[m] = pending[m]
      <4>1. pending[m] < nextId /\ pending[m] # playerGroup[m]
        BY <3>2 DEF RosterInv, InviteSound
      <4>2. pending[m] \in Nat
        BY DEF RosterInv, TypeOK
      <4>3. QED
        BY <2>5, <3>1, <3>2, <4>1, <4>2
    <3>3. CASE pending'[m] # pending[m]
      <4>1. m = t /\ pending'[m] = g /\ playerGroup[t] = 0
        <5>1. pending \in [Login -> Gid \cup {0}]
          BY DEF RosterInv, TypeOK
        <5>2. QED
          BY <1>2, <3>3, <5>1
      <4>2. playerGroup'[m] = 0
        BY <1>1, <2>5, <4>1
      <4>3. QED
        BY <1>2, <3>1, <4>1, <4>2
    <3>4. QED
      BY <3>2, <3>3
  <2>9. QED
    BY <1>1, <2>6, <2>7, <2>8 DEF RosterInv
<1>5. QED
  BY <1>3, <1>4

(* The group an accepted invitation leads to, once l sits in it.           *)
LEMMA JoinedRoster ==
    ASSUME RosterInv, NEW g \in Gid, NEW l \in Login, Live(g),
           Cardinality(group[g].members) < MaxGroupSize
    PROVE  LET G == Joined(group[g], l) IN
           /\ G.members = group[g].members \cup {l}
           /\ G.leader \in G.members
           /\ G.online \subseteq G.members
           /\ Cardinality(G.members) <= MaxGroupSize
<1> DEFINE G == Joined(group[g], l)
           own == [group[g].personal EXCEPT ![l] = group[g].difficulty]
<1>1. /\ group[g] \in Group /\ group[g].leader \in group[g].members
      /\ group[g].online \subseteq group[g].members
      /\ IsFiniteSet(group[g].members) /\ Cardinality(group[g].members) \in Nat
  <2>1. group[g] \in Group /\ group[g].members \subseteq Login
    BY DEF RosterInv, TypeOK, Group
  <2>2. QED
    BY <2>1, LoginAssumption, FS_Subset, FS_CardinalityType DEF RosterInv, GroupSound
<1>2. G = [group[g] EXCEPT !.members  = @ \cup {l},
                           !.online   = @ \cup {l},
                           !.personal = own]
  BY DEF Joined
<1>3. /\ G.members = group[g].members \cup {l}
      /\ G.online = group[g].online \cup {l}
      /\ G.leader = group[g].leader
  <2> HIDE DEF own
  <2> QED BY <1>1, <1>2 DEF Group
<1>4. Cardinality(group[g].members \cup {l}) <= MaxGroupSize
  <2> DEFINE M == group[g].members
  <2>1. Cardinality(M) \in Nat /\ Cardinality(M) < MaxGroupSize /\ IsFiniteSet(M)
    BY <1>1
  <2>2. Cardinality(M \cup {l}) = IF l \in M THEN Cardinality(M) ELSE Cardinality(M) + 1
    <3> HIDE DEF M
    <3> QED BY <2>1, FS_AddElement
  <2>3. Cardinality(M \cup {l}) <= MaxGroupSize
    <3> HIDE DEF M
    <3> QED BY <2>1, <2>2, SizeAssumption
  <2>4. QED
    BY <2>3
<1>5. Cardinality(G.members) <= MaxGroupSize
  BY <1>3, <1>4
<1>6. G.leader \in G.members /\ G.online \subseteq G.members
  <2> HIDE DEF G
  <2> QED BY <1>1, <1>3
<1>7. QED
  BY <1>3, <1>5, <1>6

LEMMA AcceptRoster ==
    ASSUME RosterInv, NEW c \in Conn, Accept(c)
    PROVE  RosterInv'
<1> DEFINE l == login[c]
           g == pending[l]
           h == GroupOf(l)
           G == Joined(group[g], l)
<1>1. /\ TypeOK' /\ l \in Login /\ g \in Gid
      /\ g # playerGroup[l] /\ h = playerGroup[l]
      /\ nextId' = nextId
      /\ \A m \in Login : pending'[m] \in {0, pending[m]}
      /\ pending'[l] = 0
  <2>1. TypeOK' /\ l \in Login
    BY AcceptType, LoginType DEF RosterInv, Accept
  <2>2. g \in Gid /\ g # playerGroup[l] /\ h = playerGroup[l]
    BY <2>1, GroupOfSeat DEF Accept, RosterInv, TypeOK, InviteSound
  <2>3. /\ nextId' = nextId
        /\ \A m \in Login : pending'[m] \in {0, pending[m]}
        /\ pending'[l] = 0
    BY <2>1 DEF Accept, RosterInv, TypeOK, Unseated
  <2>4. QED
    BY <2>1, <2>2, <2>3
<1>2. CASE UNCHANGED <<group, playerGroup>>
  <2>1. SeatsAgree' /\ GroupSound'
    BY <1>1, <1>2 DEF RosterInv, SeatsAgree, GroupSound, Live
  <2>2. InviteSound'
    BY <1>1, <1>2 DEF RosterInv, InviteSound
  <2>3. QED
    BY <1>1, <2>1, <2>2 DEF RosterInv
<1>3. CASE /\ Joinable(g)
           /\ h = 0
           /\ group' = [group EXCEPT ![g] = Joined(group[g], l)]
           /\ playerGroup' = [playerGroup EXCEPT ![l] = g]
           /\ pending' = [pending EXCEPT ![l] = 0]
  <2>1. \A k \in Gid : group'[k] = IF k = g THEN G ELSE group[k]
    BY <1>1, <1>3 DEF RosterInv, TypeOK
  <2>2. \A m \in Login : /\ playerGroup'[m] = IF m = l THEN g ELSE playerGroup[m]
                         /\ pending'[m] = IF m = l THEN 0 ELSE pending[m]
    BY <1>1, <1>3 DEF RosterInv, TypeOK
  <2>3. /\ G.members = group[g].members \cup {l}
        /\ G.leader \in G.members
        /\ G.online \subseteq G.members
        /\ Cardinality(G.members) <= MaxGroupSize
    BY <1>1, <1>3, JoinedRoster DEF Joinable
  <2>4. playerGroup[l] = 0
    BY <1>1, <1>3
  <2> HIDE DEF G, g, h, l
  <2>5. SeatsAgree'
    <3> SUFFICES ASSUME NEW m \in Login, NEW k \in Gid
                 PROVE  playerGroup'[m] = k <=> m \in group'[k].members
      BY DEF SeatsAgree
    <3>1. playerGroup[m] = k <=> m \in group[k].members
      BY DEF RosterInv, SeatsAgree
    <3>2. k # 0
      OBVIOUS
    <3>3. QED
      BY <2>1, <2>2, <2>3, <2>4, <3>1, <3>2
  <2>6. GroupSound'
    <3> SUFFICES ASSUME NEW k \in Gid, Live(k)'
                 PROVE  /\ k < nextId'
                        /\ group'[k].leader \in group'[k].members
                        /\ group'[k].online \subseteq group'[k].members
                        /\ Cardinality(group'[k].members) <= MaxGroupSize
      BY DEF GroupSound
    <3>1. Live(k)
      BY <1>3, <2>1 DEF Live, Joinable
    <3>2. k < nextId'
      BY <1>1, <3>1 DEF RosterInv, GroupSound
    <3>3. CASE k = g
      <4>1. group'[k] = G
        BY <2>1, <3>3
      <4>2. QED
        BY <2>3, <3>2, <4>1
    <3>4. CASE k # g
      BY <2>1, <3>1, <3>2, <3>4 DEF RosterInv, GroupSound
    <3>5. QED
      BY <3>3, <3>4
  <2>7. InviteSound'
    BY <1>1, <2>2 DEF RosterInv, InviteSound
  <2>8. QED
    BY <1>1, <2>5, <2>6, <2>7 DEF RosterInv
<1>4. CASE /\ Joinable(g)
           /\ h # 0
           /\ \E heir \in Heirs(h, l) \cup {NoLogin} :
                 /\ heir = NoLogin <=> Heirs(h, l) = {}
                 /\ group' = [group EXCEPT ![h] = Shrunk(h, l, heir),
                                           ![g] = Joined(group[g], l)]
           /\ playerGroup' =
                 [m \in Login |-> IF m = l THEN g
                                  ELSE IF m \in Unseated(h, l) THEN 0
                                  ELSE playerGroup[m]]
           /\ pending' =
                 [m \in Login |-> IF m \in Unseated(h, l) THEN 0
                                  ELSE pending[m]]
  <2>1. h \in Gid /\ Live(h) /\ l \in group[h].members /\ h # g
    BY <1>1, <1>4, GroupOfSeat
  <2>2. PICK heir \in Heirs(h, l) \cup {NoLogin} :
                 /\ heir = NoLogin <=> Heirs(h, l) = {}
                 /\ group' = [group EXCEPT ![h] = Shrunk(h, l, heir),
                                           ![g] = Joined(group[g], l)]
    BY <1>4
  <2> DEFINE H == Shrunk(h, l, heir)
             U == Unseated(h, l)
  <2>3. \A k \in Gid : group'[k] = IF k = g THEN G ELSE IF k = h THEN H ELSE group[k]
    BY <1>1, <2>1, <2>2 DEF RosterInv, TypeOK
  <2>4. \A m \in Login : /\ playerGroup'[m] = IF m = l THEN g
                                              ELSE IF m \in U THEN 0
                                              ELSE playerGroup[m]
                         /\ pending'[m] = IF m \in U THEN 0 ELSE pending[m]
    BY <1>4
  <2>5. /\ G.members = group[g].members \cup {l}
        /\ G.leader \in G.members
        /\ G.online \subseteq G.members
        /\ Cardinality(G.members) <= MaxGroupSize
    BY <1>1, <1>4, JoinedRoster DEF Joinable
  <2>6. /\ H.members = group[h].members \ U
        /\ H # NoGroup => /\ H.leader \in H.members
                          /\ H.online \subseteq H.members
                          /\ Cardinality(H.members) <= MaxGroupSize
    BY <2>1, <2>2, ShrunkRoster
  <2>7. U \subseteq group[h].members /\ l \in U
    BY <2>1 DEF Unseated
  <2> HIDE DEF G, H, U, g, h, l
  <2>8. SeatsAgree'
    <3> SUFFICES ASSUME NEW m \in Login, NEW k \in Gid
                 PROVE  playerGroup'[m] = k <=> m \in group'[k].members
      BY DEF SeatsAgree
    <3>1. /\ playerGroup[m] = k <=> m \in group[k].members
          /\ playerGroup[m] = g <=> m \in group[g].members
          /\ playerGroup[m] = h <=> m \in group[h].members
      BY <1>1, <2>1 DEF RosterInv, SeatsAgree
    <3>2. k # 0
      OBVIOUS
    <3>3. CASE k = g
      <4>1. group'[k].members = group[g].members \cup {l}
        BY <2>3, <2>5, <3>3
      <4>2. QED
        BY <2>1, <2>4, <2>7, <3>1, <3>2, <3>3, <4>1
    <3>4. CASE k = h
      <4>1. group'[k].members = group[h].members \ U
        BY <2>1, <2>3, <2>6, <3>4
      <4>2. QED
        BY <2>1, <2>4, <2>7, <3>1, <3>2, <3>4, <4>1
    <3>5. CASE k # g /\ k # h
      BY <2>3, <2>4, <2>7, <3>1, <3>2, <3>5
    <3>6. QED
      BY <3>3, <3>4, <3>5
  <2>9. GroupSound'
    <3> SUFFICES ASSUME NEW k \in Gid, Live(k)'
                 PROVE  /\ k < nextId'
                        /\ group'[k].leader \in group'[k].members
                        /\ group'[k].online \subseteq group'[k].members
                        /\ Cardinality(group'[k].members) <= MaxGroupSize
      BY DEF GroupSound
    <3>1. Live(k)
      BY <1>4, <2>1, <2>3 DEF Live, Joinable
    <3>2. k < nextId'
      BY <1>1, <3>1 DEF RosterInv, GroupSound
    <3>3. CASE k = g
      <4>1. group'[k] = G
        BY <2>3, <3>3
      <4>2. QED
        BY <2>5, <3>2, <4>1
    <3>4. CASE k = h
      <4>1. group'[k] = H /\ H # NoGroup
        BY <2>1, <2>3, <3>4 DEF Live
      <4>2. QED
        BY <2>6, <3>2, <4>1
    <3>5. CASE k # g /\ k # h
      BY <2>3, <3>1, <3>2, <3>5 DEF RosterInv, GroupSound
    <3>6. QED
      BY <3>3, <3>4, <3>5
  <2>10. InviteSound'
    BY <1>1, <2>4 DEF RosterInv, InviteSound
  <2>11. QED
    BY <1>1, <2>8, <2>9, <2>10 DEF RosterInv
<1>5. QED
  BY <1>2, <1>3, <1>4 DEF Accept

-----------------------------------------------------------------------------
(* Every other step *)

(* Entering a zone changes at most the token of a live group.              *)
LEMMA AssignRosters ==
    ASSUME RosterInv, NEW c \in Conn, NEW z \in Zone, login[c] \in Login,
           AssignInstance(c, z)
    PROVE  \/ group' = group
           \/ \E g \in Gid, G \in Group :
                 /\ group' = [group EXCEPT ![g] = G]
                 /\ Live(g)
                 /\ G.members = group[g].members
                 /\ G.leader \in group[g].members
                 /\ G.online \subseteq group[g].members
<1> DEFINE g == GroupOf(login[c])
           G == [group[g] EXCEPT !.token = nextToken]
<1>1. CASE /\ g # 0
           /\ group' = [group EXCEPT ![g].token = nextToken]
  <2>1. g \in Gid /\ Live(g) /\ group[g] \in Group /\ nextToken \in Nat
    BY <1>1, GroupOfSeat DEF RosterInv, TypeOK
  <2>2. G \in Group /\ group' = [group EXCEPT ![g] = G]
    BY <1>1, <2>1, FieldType
  <2>3. /\ G.members = group[g].members /\ G.leader = group[g].leader
        /\ G.online = group[g].online
    BY <2>1 DEF Group
  <2>4. /\ group[g].leader \in group[g].members
        /\ group[g].online \subseteq group[g].members
    BY <2>1 DEF RosterInv, GroupSound
  <2> HIDE DEF G, g
  <2>5. QED
    BY <2>1, <2>2, <2>3, <2>4
<1>2. CASE group' = group
  BY <1>2
<1>3. QED
  BY <1>1, <1>2 DEF AssignInstance

(* One field of a live group is replaced by a legal value.                 *)
LEMMA FieldRosters ==
    ASSUME RosterInv, TypeOK', NEW g \in Gid, Live(g), NEW G \in Group,
           group' = [group EXCEPT ![g] = G],
           G.members = group[g].members,
           G.leader \in group[g].members,
           G.online \subseteq group[g].members,
           playerGroup' = playerGroup, nextId' = nextId, pending' = pending
    PROVE  RosterInv'
<1>1. \A l \in Login : pending'[l] \in {0, pending[l]}
  OBVIOUS
<1>2. QED
  BY <1>1, SameRosters

(* The roster invariant is inductive.                                      *)
LEMMA RosterStep == RosterInv /\ [Next]_vars => RosterInv'
<1> SUFFICES ASSUME RosterInv, [Next]_vars
             PROVE  RosterInv'
  OBVIOUS
<1>0. TypeOK'
  BY StepType DEF RosterInv
<1>a. \A g \in Gid : /\ group[g] \in Group
                     /\ Live(g) => /\ group[g].leader \in group[g].members
                                   /\ group[g].online \subseteq group[g].members
  BY DEF RosterInv, TypeOK, GroupSound
<1>1. ASSUME NEW c \in Conn, NEW l \in Login, LogIn(c, l)
      PROVE  RosterInv'
  <2>1. UNCHANGED <<group, playerGroup, pending, nextId>>
    BY <1>1 DEF LogIn, groupVars
  <2>2. QED
    BY <1>0, <2>1, SameRosters
<1>2. ASSUME NEW c \in Conn, StartZoneJoin(c)
      PROVE  RosterInv'
  <2>1. /\ login[c] \in Login /\ StartZone \in Zone
        /\ AssignInstance(c, StartZone)
        /\ UNCHANGED <<playerGroup, pending, nextId>>
    BY <1>2, LoginType, ZoneAssumption DEF StartZoneJoin, RosterInv
  <2>2. QED
    BY <1>0, <2>1, AssignRosters, SameRosters
<1>3. ASSUME NEW c \in Conn, NEW z, TransferZone(c, z)
      PROVE  RosterInv'
  <2>1. /\ login[c] \in Login /\ z \in Zone
        /\ AssignInstance(c, z)
        /\ UNCHANGED <<playerGroup, pending, nextId>>
    BY <1>3, LoginType DEF TransferZone, RosterInv, AssignInstance
  <2>2. QED
    BY <1>0, <2>1, AssignRosters, SameRosters
<1>4. ASSUME NEW c \in Conn, PlayerSpawned(c)
      PROVE  RosterInv'
  <2> DEFINE l == login[c]
             g == GroupOf(l)
             G == [group[g] EXCEPT !.online = @ \cup {l}]
  <2>1. /\ l \in Login /\ l # NoLogin
        /\ UNCHANGED <<playerGroup, pending, nextId>>
    BY <1>4, LoginType DEF PlayerSpawned, RosterInv
  <2>2. CASE g # 0 /\ l \in group[g].members
    <3>1. g \in Gid /\ Live(g)
      BY <2>1, <2>2, GroupOfSeat
    <3>2. group' = [group EXCEPT ![g] = G]
      BY <1>4, <2>1, <2>2 DEF PlayerSpawned
    <3>3. /\ G \in Group /\ G.members = group[g].members
          /\ G.leader = group[g].leader
          /\ G.online = group[g].online \cup {l}
      <4>1. group[g] \in Group
        BY <1>a, <2>1, <3>1
      <4>2. G \in Group
        BY <1>a, <2>1, <3>1, <4>1, FieldType
      <4>3. QED
        BY <4>1, <4>2 DEF Group
    <3> HIDE DEF G, g, l
    <3>4. QED
      BY <1>0, <1>a, <2>1, <2>2, <3>1, <3>2, <3>3, FieldRosters
  <2>3. CASE ~(g # 0 /\ l \in group[g].members)
    <3>1. group' = group
      BY <1>4, <2>1, <2>3 DEF PlayerSpawned
    <3>2. QED
      BY <1>0, <2>1, <3>1, SameRosters
  <2>4. QED
    BY <2>2, <2>3
<1>5. ASSUME NEW c \in Conn, Disconnect(c)
      PROVE  RosterInv'
  <2> DEFINE l == login[c]
             g == GroupOf(l)
             G == [group[g] EXCEPT !.online = @ \ {l}]
  <2>1. /\ l \in Login /\ l # NoLogin
        /\ UNCHANGED <<playerGroup, nextId>>
    BY <1>5, LoginType DEF Disconnect, RosterInv
  <2>2. \A m \in Login : pending'[m] \in {0, pending[m]}
    BY <1>5, <2>1 DEF Disconnect, RosterInv, TypeOK
  <2>3. CASE g # 0 /\ l \in group[g].members
    <3>1. g \in Gid /\ Live(g)
      BY <2>1, <2>3, GroupOfSeat
    <3>2. group' = [group EXCEPT ![g] = G]
      BY <1>5, <2>1, <2>3 DEF Disconnect
    <3>3. /\ G \in Group /\ G.members = group[g].members
          /\ G.leader = group[g].leader
          /\ G.online = group[g].online \ {l}
      <4>1. group[g] \in Group
        BY <1>a, <2>1, <3>1
      <4>2. G \in Group
        BY <1>a, <2>1, <3>1, <4>1, FieldType
      <4>3. QED
        BY <4>1, <4>2 DEF Group
    <3> HIDE DEF G, g, l
    <3>4. G.leader \in group[g].members /\ G.online \subseteq group[g].members
      BY <1>a, <3>1, <3>3
    <3>5. QED
      BY <1>0, <2>1, <2>2, <3>1, <3>2, <3>3, <3>4, SameRosters
  <2>4. CASE ~(g # 0 /\ l \in group[g].members)
    <3>1. group' = group
      BY <1>5, <2>1, <2>4 DEF Disconnect
    <3>2. QED
      BY <1>0, <2>1, <2>2, <3>1, SameRosters
  <2>5. QED
    BY <2>3, <2>4
<1>6. ASSUME NEW c \in Conn, NEW t \in Login, Invite(c, t)
      PROVE  RosterInv'
  BY <1>6, InviteRoster
<1>7. ASSUME NEW c \in Conn, Accept(c)
      PROVE  RosterInv'
  BY <1>7, AcceptRoster
<1>8. ASSUME NEW c \in Conn, Decline(c)
      PROVE  RosterInv'
  <2>1. /\ UNCHANGED <<group, playerGroup, nextId>>
        /\ \A m \in Login : pending'[m] \in {0, pending[m]}
    BY <1>8, LoginType DEF Decline, RosterInv, TypeOK
  <2>2. QED
    BY <1>0, <2>1, SameRosters
<1>9. ASSUME NEW c \in Conn, Leave(c)
      PROVE  RosterInv'
  BY <1>0, <1>9, LoginType, GroupOfSeat, DepartRoster DEF Leave, RosterInv
<1>10. ASSUME NEW c \in Conn, NEW t \in Login, Kick(c, t)
       PROVE  RosterInv'
  BY <1>0, <1>10, LoginType, GroupOfSeat, DepartRoster DEF Kick, RosterInv
<1>11. ASSUME NEW c \in Conn, NEW t \in Login, SetLeader(c, t)
       PROVE  RosterInv'
  <2> DEFINE g == GroupOf(login[c])
             G == [group[g] EXCEPT !.leader = t, !.difficulty = group[g].personal[t]]
  <2>1. g \in Gid /\ Live(g)
    BY <1>11, LoginType, GroupOfSeat DEF SetLeader, RosterInv
  <2>2. /\ group' = [group EXCEPT ![g] = G]
        /\ t \in group[g].members
        /\ UNCHANGED <<playerGroup, pending, nextId>>
    BY <1>11, <2>1 DEF SetLeader, RosterInv, TypeOK
  <2>3. group[g].personal[t] \in 0..3
    BY <1>a, <2>1 DEF Group
  <2>4. /\ G \in Group /\ G.members = group[g].members
        /\ G.leader = t /\ G.online = group[g].online
    <3>1. group[g] \in Group
      BY <1>a, <2>1, <2>3
    <3>2. G \in Group
      BY <1>a, <2>1, <2>3, <3>1, FieldType
    <3>3. QED
      BY <3>1, <3>2 DEF Group
  <2> HIDE DEF G, g
  <2>5. QED
    BY <1>0, <1>a, <2>1, <2>2, <2>4, FieldRosters
<1>12. ASSUME NEW c \in Conn, NEW d \in Difficulty, SetMonsterDifficulty(c, d)
       PROVE  RosterInv'
  <2> DEFINE l == login[c]
             g == GroupOf(l)
             own == [group[g].personal EXCEPT ![l] = d]
             all == IF group[g].leader = l THEN d ELSE group[g].difficulty
             G == [group[g] EXCEPT !.personal = own, !.difficulty = all]
  <2>1. l \in Login /\ g \in Gid /\ Live(g)
    BY <1>12, LoginType, GroupOfSeat DEF SetMonsterDifficulty, RosterInv
  <2>2. own \in [Login -> 0..3] /\ all \in 0..3
    BY <1>12, <1>a, <2>1, SettingAssumption DEF SetMonsterDifficulty, Group
  <2>3. group' = [group EXCEPT ![g] = G]
    BY <1>12, <2>1 DEF SetMonsterDifficulty, RosterInv, TypeOK
  <2>4. UNCHANGED <<playerGroup, pending, nextId>>
    BY <1>12 DEF SetMonsterDifficulty
  <2>5. /\ G \in Group /\ G.members = group[g].members
        /\ G.leader = group[g].leader /\ G.online = group[g].online
    <3>1. group[g] \in Group
      BY <1>a, <2>1
    <3> HIDE DEF own, all
    <3>2. G \in Group
      BY <2>2, <3>1, FieldType
    <3>3. QED
      BY <3>1, <3>2 DEF Group
  <2> HIDE DEF G, g
  <2>6. QED
    BY <1>0, <1>a, <2>1, <2>3, <2>4, <2>5, FieldRosters
<1>13. ASSUME NEW c \in Conn, NEW mode \in InviteMode, SetInviteMode(c, mode)
       PROVE  RosterInv'
  <2> DEFINE g == GroupOf(login[c])
             G == [group[g] EXCEPT !.invite = mode]
  <2>1. g \in Gid /\ Live(g)
    BY <1>13, LoginType, GroupOfSeat DEF SetInviteMode, RosterInv
  <2>2. /\ group' = [group EXCEPT ![g] = G]
        /\ UNCHANGED <<playerGroup, pending, nextId>>
    BY <1>13 DEF SetInviteMode
  <2>3. /\ G \in Group /\ G.members = group[g].members
        /\ G.leader = group[g].leader /\ G.online = group[g].online
    <3>1. group[g] \in Group
      BY <1>a, <2>1
    <3>2. G \in Group
      BY <1>a, <2>1, <3>1, FieldType, SettingAssumption
    <3>3. QED
      BY <3>1, <3>2 DEF Group
  <2> HIDE DEF G, g
  <2>4. QED
    BY <1>0, <1>a, <2>1, <2>2, <2>3, FieldRosters
<1>14. ASSUME NEW c \in Conn, NEW flag \in OpenFlag, SetOpenGroup(c, flag)
       PROVE  RosterInv'
  <2> DEFINE g == GroupOf(login[c])
             G == [group[g] EXCEPT !.open = flag]
  <2>1. g \in Gid /\ Live(g)
    BY <1>14, LoginType, GroupOfSeat DEF SetOpenGroup, RosterInv
  <2>2. /\ group' = [group EXCEPT ![g] = G]
        /\ UNCHANGED <<playerGroup, pending, nextId>>
    BY <1>14 DEF SetOpenGroup
  <2>3. /\ G \in Group /\ G.members = group[g].members
        /\ G.leader = group[g].leader /\ G.online = group[g].online
    <3>1. group[g] \in Group
      BY <1>a, <2>1
    <3>2. G \in Group
      BY <1>a, <2>1, <3>1, FieldType, SettingAssumption
    <3>3. QED
      BY <3>1, <3>2 DEF Group
  <2> HIDE DEF G, g
  <2>4. QED
    BY <1>0, <1>a, <2>1, <2>2, <2>3, FieldRosters
<1>15. ASSUME NEW c \in Conn, ResetInstances(c)
       PROVE  RosterInv'
  <2> DEFINE g == GroupOf(login[c])
             G == [group[g] EXCEPT !.token = nextToken]
  <2>1. g \in Gid /\ Live(g) /\ nextToken \in Nat
    BY <1>15, LoginType, GroupOfSeat DEF ResetInstances, RosterInv, TypeOK
  <2>2. /\ group' = [group EXCEPT ![g] = G]
        /\ UNCHANGED <<playerGroup, pending, nextId>>
    BY <1>15 DEF ResetInstances
  <2>3. /\ G \in Group /\ G.members = group[g].members
        /\ G.leader = group[g].leader /\ G.online = group[g].online
    <3>1. group[g] \in Group
      BY <1>a, <2>1
    <3>2. G \in Group
      BY <1>a, <2>1, <3>1, FieldType
    <3>3. QED
      BY <3>1, <3>2 DEF Group
  <2> HIDE DEF G, g
  <2>4. QED
    BY <1>0, <1>a, <2>1, <2>2, <2>3, FieldRosters
<1>16. ASSUME NEW c \in Conn, NEW t \in Login, GotoMember(c, t)
       PROVE  RosterInv'
  BY <1>3, <1>16 DEF GotoMember
<1>17. CASE UNCHANGED vars
  <2>1. UNCHANGED <<group, playerGroup, pending, nextId>>
    BY <1>17 DEF vars
  <2>2. QED
    BY <1>0, <2>1, SameRosters
<1>18. QED
  BY <1>1, <1>2, <1>3, <1>4, <1>5, <1>6, <1>7, <1>8, <1>9, <1>10, <1>11,
     <1>12, <1>13, <1>14, <1>15, <1>16, <1>17 DEF Next

(* No group is founded and nobody is seated or invited at the start.       *)
LEMMA InitRoster == Init => RosterInv
<1> SUFFICES ASSUME Init
             PROVE  RosterInv
  OBVIOUS
<1>1. TypeOK
  BY InitType
<1>2. SeatsAgree
  BY DEF Init, SeatsAgree, NoGroup
<1>3. GroupSound /\ InviteSound
  BY DEF Init, GroupSound, InviteSound, Live
<1>4. QED
  BY <1>1, <1>2, <1>3 DEF RosterInv

LEMMA RosterAlways == Spec => []RosterInv
BY InitRoster, RosterStep, PTL DEF Spec

(* The table of seats and the rosters agree in every reachable state,      *)
(* whatever the order of invitations, acceptances, leaves, kicks and lost  *)
(* connections.                                                            *)
THEOREM SeatsCorrect == Spec => []SeatsAgree
<1>1. RosterInv => SeatsAgree
  BY DEF RosterInv
<1>2. QED
  BY <1>1, RosterAlways, PTL

(* No group is ever over its size, led by a stranger or shown with a       *)
(* stranger online.                                                        *)
THEOREM GroupCorrect == Spec => []GroupSound
<1>1. RosterInv => GroupSound
  BY DEF RosterInv
<1>2. QED
  BY <1>1, RosterAlways, PTL

(* No pending invitation names a group that was never founded or the one   *)
(* its addressee already sits in.                                          *)
THEOREM InviteCorrect == Spec => []InviteSound
<1>1. RosterInv => InviteSound
  BY DEF RosterInv
<1>2. QED
  BY <1>1, RosterAlways, PTL

-----------------------------------------------------------------------------
(* The dungeon copies *)

TokenInv == TypeOK /\ TokenSound

(* A step that only drops tokens, and drops connections to the public copy.*)
LEMMA TokensDropped ==
    ASSUME TokenInv, nextToken' = nextToken,
           \A g \in Gid : group'[g].token \in {0, group[g].token},
           \A c \in Conn : inst'[c] \in {0, inst[c]}
    PROVE  TokenSound'
<1>1. nextToken \in Nat \ {0}
  BY DEF TokenInv, TypeOK
<1>2. \A g \in Gid : group'[g].token < nextToken'
  BY <1>1 DEF TokenInv, TokenSound
<1>3. \A c \in Conn : inst'[c] < nextToken'
  BY <1>1 DEF TokenInv, TokenSound
<1>4. \A g, h \in Gid :
         g # h /\ group'[g].token # 0 => group'[g].token # group'[h].token
  BY DEF TokenInv, TokenSound
<1>5. QED
  BY <1>2, <1>3, <1>4 DEF TokenSound

(* A step that gives a freshly minted token to one group, and moves        *)
(* connections only to it, is sound.                                       *)
LEMMA TokenMinted ==
    ASSUME TokenInv, NEW k \in Gid, nextToken' = nextToken + 1,
           \A g \in Gid : group'[g].token = IF g = k THEN nextToken
                                            ELSE group[g].token,
           \A c \in Conn : inst'[c] \in {nextToken, inst[c]}
    PROVE  TokenSound'
<1>1. /\ nextToken \in Nat \ {0}
      /\ \A g \in Gid : group[g].token \in Nat /\ group[g].token < nextToken
      /\ \A c \in Conn : inst[c] \in Nat /\ inst[c] < nextToken
  BY DEF TokenInv, TypeOK, TokenSound, Group
<1>2. \A g \in Gid : group'[g].token < nextToken'
  BY <1>1
<1>3. \A c \in Conn : inst'[c] < nextToken'
  BY <1>1
<1>4. \A g, h \in Gid :
         g # h /\ group'[g].token # 0 => group'[g].token # group'[h].token
  BY <1>1 DEF TokenInv, TokenSound
<1>5. QED
  BY <1>2, <1>3, <1>4 DEF TokenSound

(* Entering a zone keeps the copies apart.                                 *)
LEMMA AssignTokens ==
    ASSUME TokenInv, NEW c \in Conn, NEW z, login[c] \in Login,
           AssignInstance(c, z)
    PROVE  TokenSound'
<1> DEFINE g == GroupOf(login[c])
<1>1. g # 0 => g \in Gid
  BY GroupOfType DEF TokenInv
<1>2. CASE inst' = [inst EXCEPT ![c] = 0] /\ UNCHANGED <<group, nextToken>>
  <2>1. \A d \in Conn : inst'[d] \in {0, inst[d]}
    BY <1>2 DEF TokenInv, TypeOK
  <2>2. QED
    BY <1>2, <2>1, TokensDropped
<1>3. CASE /\ g # 0 /\ inst' = [inst EXCEPT ![c] = group[g].token]
           /\ UNCHANGED <<group, nextToken>>
  <2>1. \A d \in Conn : inst'[d] < nextToken'
    BY <1>1, <1>3 DEF TokenInv, TokenSound, TypeOK
  <2>2. QED
    BY <1>3, <2>1 DEF TokenInv, TokenSound
<1>4. CASE /\ g # 0 /\ group' = [group EXCEPT ![g].token = nextToken]
           /\ inst' = [inst EXCEPT ![c] = nextToken]
           /\ nextToken' = nextToken + 1
  <2>1. \A k \in Gid : group'[k].token = IF k = g THEN nextToken ELSE group[k].token
    BY <1>1, <1>4 DEF TokenInv, TypeOK, Group
  <2>2. \A d \in Conn : inst'[d] \in {nextToken, inst[d]}
    BY <1>4 DEF TokenInv, TypeOK
  <2> HIDE DEF g
  <2>3. QED
    BY <1>1, <1>4, <2>1, <2>2, TokenMinted
<1>5. CASE /\ inst' = [inst EXCEPT ![c] = nextToken]
           /\ nextToken' = nextToken + 1
           /\ UNCHANGED group
  <2>1. /\ nextToken \in Nat
        /\ \A k \in Gid : group[k].token \in Nat
        /\ \A d \in Conn : inst[d] \in Nat
    BY DEF TokenInv, TypeOK, Group
  <2>2. \A d \in Conn : inst'[d] < nextToken'
    BY <1>5, <2>1 DEF TokenInv, TokenSound, TypeOK
  <2>3. \A k \in Gid : group'[k].token < nextToken'
    BY <1>5, <2>1 DEF TokenInv, TokenSound
  <2>4. QED
    BY <1>5, <2>2, <2>3 DEF TokenInv, TokenSound
<1>6. QED
  BY <1>2, <1>3, <1>4, <1>5 DEF AssignInstance

(* What a departure and an arrival do to the token of the group: a group   *)
(* that is dissolved loses it, any other keeps it.                         *)
LEMMA RosterTokens ==
    ASSUME TypeOK, NEW g \in Gid, NEW l \in Login
    PROVE  /\ \A heir \in Login \cup {NoLogin} :
                 Shrunk(g, l, heir).token \in {0, group[g].token}
           /\ Joined(group[g], l).token = group[g].token
           /\ NewGroup(l).token = 0
<1> DEFINE own == [group[g].personal EXCEPT ![l] = 0]
           mine == [group[g].personal EXCEPT ![l] = group[g].difficulty]
<1>1. group[g] \in Group
  BY DEF TypeOK
<1>2. ASSUME NEW heir \in Login \cup {NoLogin}
      PROVE  Shrunk(g, l, heir).token \in {0, group[g].token}
  <2> DEFINE S == [group[g] EXCEPT !.members = @ \ {l}, !.online = @ \ {l},
                                   !.personal = own, !.leader = heir]
  <2>1. S.token = group[g].token
    <3> HIDE DEF own
    <3> QED BY <1>1 DEF Group
  <2>2. Shrunk(g, l, heir) = IF Dissolves(g) THEN NoGroup ELSE S
    BY DEF Shrunk
  <2>3. NoGroup.token = 0
    BY DEF NoGroup
  <2> HIDE DEF S
  <2>4. QED
    BY <2>1, <2>2, <2>3
<1>3. Joined(group[g], l).token = group[g].token
  <2> DEFINE J == [group[g] EXCEPT !.members = @ \cup {l}, !.online = @ \cup {l},
                                   !.personal = mine]
  <2>1. J.token = group[g].token
    <3> HIDE DEF mine
    <3> QED BY <1>1 DEF Group
  <2>2. Joined(group[g], l) = J
    BY DEF Joined
  <2> HIDE DEF J
  <2>3. QED
    BY <2>1, <2>2
<1>4. NewGroup(l).token = 0
  BY NoGroupType DEF NewGroup, NoGroup
<1>5. QED
  BY <1>2, <1>3, <1>4

(* The token invariant is inductive.                                       *)
LEMMA TokenStep == TokenInv /\ [Next]_vars => TokenInv'
<1> SUFFICES ASSUME TokenInv, [Next]_vars
             PROVE  TokenSound'
  BY StepType DEF TokenInv
<1>0. TypeOK
  BY DEF TokenInv
<1>a. \A g \in Gid : group[g] \in Group
  BY <1>0 DEF TypeOK
<1>b. ASSUME nextToken' = nextToken, inst' = inst,
             \A g \in Gid : group'[g].token \in {0, group[g].token}
      PROVE  TokenSound'
  BY <1>b, TokensDropped
<1>1. ASSUME NEW c \in Conn, NEW l \in Login, LogIn(c, l)
      PROVE  TokenSound'
  BY <1>1, <1>b DEF LogIn, groupVars
<1>2. ASSUME NEW c \in Conn, StartZoneJoin(c)
      PROVE  TokenSound'
  BY <1>0, <1>2, LoginType, AssignTokens DEF StartZoneJoin
<1>3. ASSUME NEW c \in Conn, NEW z, TransferZone(c, z)
      PROVE  TokenSound'
  BY <1>0, <1>3, LoginType, AssignTokens DEF TransferZone
<1>4. ASSUME NEW c \in Conn, PlayerSpawned(c)
      PROVE  TokenSound'
  <2>1. \A g \in Gid : group'[g].token = group[g].token
    <3>1. \/ group' = group
          \/ group' = [group EXCEPT ![GroupOf(login[c])].online = @ \cup {login[c]}]
      BY <1>4 DEF PlayerSpawned
    <3>2. \A k \in Gid : group'[k] = group[k]
                      \/ group'[k] = [group[k] EXCEPT !.online = @ \cup {login[c]}]
      BY <1>0, <3>1 DEF TypeOK
    <3>3. \A k \in Gid : [group[k] EXCEPT !.online = @ \cup {login[c]}].token = group[k].token
      BY <1>a DEF Group
    <3>4. QED
      BY <3>2, <3>3
  <2>2. inst' = inst /\ nextToken' = nextToken
    BY <1>4 DEF PlayerSpawned
  <2>3. QED
    BY <2>1, <2>2, <1>b
<1>5. ASSUME NEW c \in Conn, Disconnect(c)
      PROVE  TokenSound'
  <2>1. \A g \in Gid : group'[g].token = group[g].token
    <3>1. \/ group' = group
          \/ group' = [group EXCEPT ![GroupOf(login[c])].online = @ \ {login[c]}]
      BY <1>5 DEF Disconnect
    <3>2. \A k \in Gid : group'[k] = group[k]
                      \/ group'[k] = [group[k] EXCEPT !.online = @ \ {login[c]}]
      BY <1>0, <3>1 DEF TypeOK
    <3>3. \A k \in Gid : [group[k] EXCEPT !.online = @ \ {login[c]}].token = group[k].token
      BY <1>a DEF Group
    <3>4. QED
      BY <3>2, <3>3
  <2>2. /\ inst' = [inst EXCEPT ![c] = 0]
        /\ nextToken' = nextToken
    BY <1>5 DEF Disconnect
  <2>3. \A d \in Conn : inst'[d] \in {0, inst[d]}
    BY <1>0, <2>2 DEF TypeOK
  <2>4. QED
    BY <2>1, <2>2, <2>3, TokensDropped
<1>6. ASSUME NEW c \in Conn, NEW t \in Login, Invite(c, t)
      PROVE  TokenSound'
  <2> DEFINE l == login[c]
             founds == playerGroup[l] = 0
             g == IF founds THEN nextId ELSE playerGroup[l]
             G == IF founds THEN NewGroup(l) ELSE group[g]
  <2>1. l \in Login /\ g \in Gid
    <3>1. l \in Login
      BY <1>0, <1>6, LoginType DEF Invite
    <3>2. QED
      BY <1>0, <1>6, <3>1, BoundAssumption DEF Invite, TypeOK
  <2>2. G.token \in {0, group[g].token}
    BY <1>0, <2>1, RosterTokens
  <2>3. group' = [group EXCEPT ![g] = G] /\ inst' = inst /\ nextToken' = nextToken
    BY <1>6 DEF Invite, connVars
  <2> HIDE DEF G, g
  <2>4. \A k \in Gid : group'[k].token \in {0, group[k].token}
    BY <1>0, <2>1, <2>2, <2>3 DEF TypeOK
  <2>5. QED
    BY <2>3, <2>4, <1>b
<1>7. ASSUME NEW c \in Conn, Accept(c)
      PROVE  TokenSound'
  <2> DEFINE l == login[c]
             g == pending[l]
             h == GroupOf(l)
             J == Joined(group[g], l)
  <2>1. l \in Login /\ g \in Gid /\ inst' = inst /\ nextToken' = nextToken
    <3>1. l \in Login
      BY <1>0, <1>7, LoginType DEF Accept
    <3>2. QED
      BY <1>0, <1>7, <3>1 DEF Accept, TypeOK, connVars
  <2>2. J.token = group[g].token
    BY <1>0, <2>1, RosterTokens
  <2>3. \/ group' = group
        \/ group' = [group EXCEPT ![g] = J]
        \/ /\ h \in Gid
           /\ \E heir \in Login \cup {NoLogin} :
                 group' = [group EXCEPT ![h] = Shrunk(h, l, heir), ![g] = J]
    <3>1. h # 0 => h \in Gid /\ Heirs(h, l) \subseteq Login \cup {NoLogin}
      BY <1>0, <1>a, <2>1, GroupOfType DEF Heirs, Stayers, Group
    <3>2. QED
      BY <1>7, <3>1 DEF Accept
  <2>4. \A heir \in Login \cup {NoLogin} :
           h \in Gid => Shrunk(h, l, heir).token \in {0, group[h].token}
    BY <1>0, <2>1, RosterTokens
  <2> HIDE DEF J, g, h, l
  <2>5. \A k \in Gid : group'[k].token \in {0, group[k].token}
    BY <1>0, <2>1, <2>2, <2>3, <2>4 DEF TypeOK
  <2>6. QED
    BY <2>1, <2>5, <1>b
<1>8. ASSUME NEW c \in Conn, Decline(c)
      PROVE  TokenSound'
  BY <1>8, <1>b DEF Decline, connVars
<1>9. ASSUME NEW g \in Gid, NEW l \in Login, Depart(g, l)
      PROVE  TokenSound'
  <2>1. Heirs(g, l) \subseteq Login \cup {NoLogin}
    BY <1>a DEF Heirs, Stayers, Group
  <2>2. PICK heir \in Login \cup {NoLogin} :
           group' = [group EXCEPT ![g] = Shrunk(g, l, heir)]
    BY <1>9, <2>1 DEF Depart
  <2>3. Shrunk(g, l, heir).token \in {0, group[g].token}
    BY <1>0, RosterTokens
  <2>4. \A k \in Gid : group'[k].token \in {0, group[k].token}
    BY <1>0, <2>2, <2>3 DEF TypeOK
  <2>5. inst' = inst /\ nextToken' = nextToken
    BY <1>9 DEF Depart, connVars
  <2>6. QED
    BY <2>4, <2>5, <1>b
<1>10. ASSUME NEW c \in Conn, Leave(c)
       PROVE  TokenSound'
  BY <1>0, <1>9, <1>10, LoginType, GroupOfType DEF Leave
<1>11. ASSUME NEW c \in Conn, NEW t \in Login, Kick(c, t)
       PROVE  TokenSound'
  BY <1>0, <1>9, <1>11, LoginType, GroupOfType DEF Kick
<1>12. ASSUME NEW c \in Conn, NEW t \in Login, SetLeader(c, t)
       PROVE  TokenSound'
  <2>1. \A g \in Gid : group'[g].token = group[g].token
    BY <1>0, <1>a, <1>12 DEF SetLeader, TypeOK, Group
  <2>2. QED
    BY <1>12, <2>1, <1>b DEF SetLeader, connVars
<1>13. ASSUME NEW c \in Conn, NEW d \in Difficulty, SetMonsterDifficulty(c, d)
       PROVE  TokenSound'
  <2> DEFINE l == login[c]
             g == GroupOf(l)
             own == [group[g].personal EXCEPT ![l] = d]
             all == IF group[g].leader = l THEN d ELSE group[g].difficulty
             G == [group[g] EXCEPT !.personal = own, !.difficulty = all]
  <2>1. g \in Gid /\ group[g] \in Group
    BY <1>0, <1>a, <1>13, LoginType, GroupOfType DEF SetMonsterDifficulty
  <2>2. group' = [group EXCEPT ![g] = G]
    BY <1>0, <1>13, <2>1 DEF SetMonsterDifficulty, TypeOK
  <2>3. G.token = group[g].token
    <3> HIDE DEF own, all
    <3> QED BY <2>1 DEF Group
  <2>4. inst' = inst /\ nextToken' = nextToken
    BY <1>13 DEF SetMonsterDifficulty, connVars
  <2> HIDE DEF G, g
  <2>5. \A k \in Gid : group'[k].token = group[k].token
    BY <1>0, <2>1, <2>2, <2>3 DEF TypeOK
  <2>6. QED
    BY <2>4, <2>5, <1>b
<1>14. ASSUME NEW c \in Conn, NEW mode \in InviteMode, SetInviteMode(c, mode)
       PROVE  TokenSound'
  <2>1. \A g \in Gid : group'[g].token = group[g].token
    BY <1>0, <1>a, <1>14 DEF SetInviteMode, TypeOK, Group
  <2>2. QED
    BY <1>14, <2>1, <1>b DEF SetInviteMode, connVars
<1>15. ASSUME NEW c \in Conn, NEW flag \in OpenFlag, SetOpenGroup(c, flag)
       PROVE  TokenSound'
  <2>1. \A g \in Gid : group'[g].token = group[g].token
    BY <1>0, <1>a, <1>15 DEF SetOpenGroup, TypeOK, Group
  <2>2. QED
    BY <1>15, <2>1, <1>b DEF SetOpenGroup, connVars
<1>16. ASSUME NEW c \in Conn, ResetInstances(c)
       PROVE  TokenSound'
  <2> DEFINE k == GroupOf(login[c])
  <2>1. k \in Gid
    BY <1>0, <1>16, LoginType, GroupOfType DEF ResetInstances
  <2>2. /\ group' = [group EXCEPT ![k].token = nextToken]
        /\ nextToken' = nextToken + 1 /\ inst' = inst
    BY <1>16 DEF ResetInstances, connVars
  <2>3. \A g \in Gid : group'[g].token = IF g = k THEN nextToken ELSE group[g].token
    BY <1>0, <1>a, <2>1, <2>2 DEF TypeOK, Group
  <2> HIDE DEF k
  <2>4. QED
    BY <2>1, <2>2, <2>3, TokenMinted
<1>17. ASSUME NEW c \in Conn, NEW t \in Login, GotoMember(c, t)
       PROVE  TokenSound'
  BY <1>3, <1>17 DEF GotoMember
<1>18. CASE UNCHANGED vars
  BY <1>18, <1>b DEF vars
<1>19. QED
  BY <1>1, <1>2, <1>3, <1>4, <1>5, <1>6, <1>7, <1>8, <1>10, <1>11,
     <1>12, <1>13, <1>14, <1>15, <1>16, <1>17, <1>18 DEF Next

(* No two groups share a dungeon copy and no copy in use is still to be    *)
(* minted: the next solo player or group gets one of its own.              *)
THEOREM TokenCorrect == Spec => []TokenSound
<1>1. Init => TokenInv
  <2>1. Init => TypeOK
    BY InitType
  <2>2. Init => TokenSound
    BY DEF Init, TokenSound, NoGroup
  <2>3. QED
    BY <2>1, <2>2 DEF TokenInv
<1>2. TokenInv => TokenSound
  BY DEF TokenInv
<1>3. QED
  BY <1>1, <1>2, TokenStep, PTL DEF Spec
-----------------------------------------------------------------------------
(* Who may take over, and who may walk in *)

(* A departure hands the leadership to a member who is there, or to any    *)
(* when nobody is.                                                         *)
LEMMA HeirAfterDeparture ==
    ASSUME RosterInv, NEW g \in Gid, NEW l \in group[g].members,
           NEW heir \in Heirs(g, l) \cup {NoLogin},
           heir = NoLogin <=> Heirs(g, l) = {},
           heir # group[g].leader, Shrunk(g, l, heir) # NoGroup
    PROVE  LET G == Shrunk(g, l, heir) IN
           G.leader = heir /\ (heir \in G.online \/ G.online = {})
<1> DEFINE M == group[g].members
           G == Shrunk(g, l, heir)
           own == [group[g].personal EXCEPT ![l] = 0]
<1>1. /\ group[g] \in Group /\ M \subseteq Login
      /\ group[g].online \subseteq M /\ group[g].leader \in M
  BY SeatedInLive DEF RosterInv, TypeOK, Group, GroupSound
<1>2. ~Dissolves(g)
  BY DEF Shrunk
<1>3. G = [group[g] EXCEPT !.members  = @ \ {l},
                           !.online   = @ \ {l},
                           !.personal = own,
                           !.leader   = heir]
  BY <1>2 DEF Shrunk
<1>4. G.online = group[g].online \ {l} /\ G.leader = heir
  <2> HIDE DEF own
  <2> QED BY <1>1, <1>3 DEF Group
<1>5. group[g].leader = l
  <2>1. CASE group[g].leader # l
    BY <1>1, <2>1, LoginAssumption DEF Heirs
  <2>2. QED
    BY <2>1
<1>6. CASE Stayers(g, l) \cap group[g].online # {}
  <2>1. heir \in Stayers(g, l) \cap group[g].online
    BY <1>5, <1>6 DEF Heirs
  <2>2. QED
    BY <1>4, <2>1 DEF Stayers
<1>7. CASE Stayers(g, l) \cap group[g].online = {}
  <2>1. group[g].online \subseteq {l}
    BY <1>1, <1>7 DEF Stayers
  <2>2. QED
    BY <1>4, <2>1
<1>8. QED
  BY <1>6, <1>7

Heired(g) ==
    Live(g) /\ Live(g)' /\ group'[g].leader # group[g].leader =>
       \/ group'[g].leader \in group'[g].online
       \/ ConnFor(group'[g].leader) # 0
       \/ group'[g].online = {}

(* Every step but a departure and an explicit choice keeps the leaders.    *)
LEMMA LeadersKept ==
    ASSUME RosterInv, NEW g \in Gid, NEW G,
           group' = group \/ (group' = [group EXCEPT ![g] = G]
                              /\ G.leader = group[g].leader),
           NEW k \in Gid
    PROVE  Heired(k)
BY DEF Heired, RosterInv, TypeOK

LEMMA HeirStep ==
    ASSUME RosterInv, [Next]_vars, NEW k \in Gid
    PROVE  Heired(k)
<1>0. TypeOK /\ \A g \in Gid : group[g] \in Group
  BY DEF RosterInv, TypeOK
<1>a. ASSUME group' = group
      PROVE  Heired(k)
  BY <1>a DEF Heired
<1>b. ASSUME NEW g \in Gid, NEW G, group' = [group EXCEPT ![g] = G],
             G.leader = group[g].leader
      PROVE  Heired(k)
  BY <1>b, LeadersKept
<1>c. ASSUME NEW c \in Conn, NEW z, login[c] \in Login, AssignInstance(c, z)
      PROVE  Heired(k)
  <2> DEFINE g == GroupOf(login[c])
             G == [group[g] EXCEPT !.token = nextToken]
  <2>1. CASE group' = group
    BY <2>1, <1>a
  <2>2. CASE g # 0 /\ group' = [group EXCEPT ![g].token = nextToken]
    <3>1. g \in Gid /\ G.leader = group[g].leader
      BY <1>0, <1>c, <2>2, GroupOfType DEF Group
    <3>2. group' = [group EXCEPT ![g] = G]
      BY <2>2
    <3> HIDE DEF g, G
    <3>3. QED
      BY <3>1, <3>2, <1>b
  <2>3. QED
    BY <1>c, <2>1, <2>2 DEF AssignInstance
<1>1. ASSUME NEW c \in Conn, NEW l \in Login, LogIn(c, l)
      PROVE  Heired(k)
  BY <1>1, <1>a DEF LogIn, groupVars
<1>2. ASSUME NEW c \in Conn, StartZoneJoin(c)
      PROVE  Heired(k)
  BY <1>0, <1>2, <1>c, LoginType DEF StartZoneJoin
<1>3. ASSUME NEW c \in Conn, NEW z, TransferZone(c, z)
      PROVE  Heired(k)
  BY <1>0, <1>3, <1>c, LoginType DEF TransferZone
<1>4. ASSUME NEW c \in Conn, PlayerSpawned(c) \/ Disconnect(c)
      PROVE  Heired(k)
  <2> DEFINE l == login[c]
             g == GroupOf(l)
             G1 == [group[g] EXCEPT !.online = @ \cup {l}]
             G2 == [group[g] EXCEPT !.online = @ \ {l}]
  <2>1. l \in Login /\ l # NoLogin
    BY <1>0, <1>4, LoginType DEF PlayerSpawned, Disconnect
  <2>2. \/ group' = group
        \/ g # 0 /\ group' = [group EXCEPT ![g] = G1]
        \/ g # 0 /\ group' = [group EXCEPT ![g] = G2]
    BY <1>4, <2>1 DEF PlayerSpawned, Disconnect
  <2>3. g # 0 => /\ g \in Gid
                 /\ G1.leader = group[g].leader
                 /\ G2.leader = group[g].leader
    BY <1>0, <2>1, GroupOfType DEF Group
  <2> HIDE DEF g, G1, G2
  <2>4. QED
    BY <2>2, <2>3, <1>a, <1>b
<1>5. ASSUME NEW c \in Conn, NEW t \in Login, Invite(c, t)
      PROVE  Heired(k)
  <2> DEFINE l == login[c]
             founds == playerGroup[l] = 0
             g == IF founds THEN nextId ELSE playerGroup[l]
             G == IF founds THEN NewGroup(l) ELSE group[g]
  <2>1. l \in Login /\ g \in Gid
    <3>1. l \in Login
      BY <1>0, <1>5, LoginType DEF Invite
    <3>2. QED
      BY <1>0, <1>5, <3>1, BoundAssumption DEF Invite, TypeOK
  <2>2. group' = [group EXCEPT ![g] = G]
    BY <1>5 DEF Invite
  <2>3. CASE founds
    <3>1. ~Live(g)
      BY <2>1, <2>3 DEF RosterInv, GroupSound
    <3> HIDE DEF g, G
    <3>2. QED
      BY <1>0, <2>1, <2>2, <3>1 DEF Heired, Live, TypeOK
  <2>4. CASE ~founds
    <3>1. G = group[g]
      BY <2>4
    <3> HIDE DEF g, G
    <3>2. QED
      BY <2>1, <2>2, <3>1, <1>b
  <2>5. QED
    BY <2>3, <2>4
<1>6. ASSUME NEW c \in Conn, Accept(c)
      PROVE  Heired(k)
  <2> DEFINE l == login[c]
             g == pending[l]
             h == GroupOf(l)
             J == Joined(group[g], l)
  <2>1. l \in Login /\ g \in Gid /\ h # g
    <3>1. l \in Login
      BY <1>0, <1>6, LoginType DEF Accept
    <3>2. g \in Gid /\ g # playerGroup[l]
      BY <1>0, <1>6, <3>1 DEF Accept, RosterInv, TypeOK, InviteSound
    <3>3. QED
      BY <3>1, <3>2, GroupOfSeat
  <2>2. J.leader = group[g].leader
    <3> DEFINE own == [group[g].personal EXCEPT ![l] = group[g].difficulty]
    <3>1. J = [group[g] EXCEPT !.members  = @ \cup {l},
                               !.online   = @ \cup {l},
                               !.personal = own]
      BY DEF Joined
    <3>2. group[g] \in Group
      BY <1>0, <2>1
    <3> HIDE DEF own
    <3>3. QED
      BY <3>1, <3>2 DEF Group
  <2>3. CASE group' = group
    BY <2>3, <1>a
  <2>4. CASE group' = [group EXCEPT ![g] = J]
    <3> HIDE DEF g, J
    <3> QED BY <2>1, <2>2, <2>4, <1>b
  <2>5. CASE h # 0 /\ \E heir \in Heirs(h, l) \cup {NoLogin} :
                         /\ heir = NoLogin <=> Heirs(h, l) = {}
                         /\ group' = [group EXCEPT ![h] = Shrunk(h, l, heir), ![g] = J]
    <3>1. PICK heir \in Heirs(h, l) \cup {NoLogin} :
             /\ heir = NoLogin <=> Heirs(h, l) = {}
             /\ group' = [group EXCEPT ![h] = Shrunk(h, l, heir), ![g] = J]
      BY <2>5
    <3>2. h \in Gid /\ l \in group[h].members
      BY <2>1, <2>5, GroupOfSeat
    <3> DEFINE H == Shrunk(h, l, heir)
    <3>3. heir # group[h].leader /\ H # NoGroup =>
             H.leader = heir /\ (heir \in H.online \/ H.online = {})
      BY <3>1, <3>2, HeirAfterDeparture
    <3>4. H # NoGroup => H.leader = heir
      <4> DEFINE own == [group[h].personal EXCEPT ![l] = 0]
      <4>1. H # NoGroup => H = [group[h] EXCEPT !.members  = @ \ {l},
                                                !.online   = @ \ {l},
                                                !.personal = own,
                                                !.leader   = heir]
        BY DEF Shrunk
      <4>2. group[h] \in Group
        BY <1>0, <3>2
      <4> HIDE DEF own
      <4>3. QED
        BY <4>1, <4>2 DEF Group
    <3> HIDE DEF g, h, J, H, l
    <3>5. \A n \in Gid : group'[n] = IF n = g THEN J ELSE IF n = h THEN H ELSE group[n]
      BY <1>0, <2>1, <3>1, <3>2 DEF TypeOK, H
    <3>6. QED
      BY <2>1, <2>2, <3>3, <3>4, <3>5 DEF Heired, Live
  <2>6. QED
    BY <1>6, <2>3, <2>4, <2>5 DEF Accept
<1>7. ASSUME NEW g \in Gid, NEW l \in group[g].members, Depart(g, l)
      PROVE  Heired(k)
  <2>1. PICK heir \in Heirs(g, l) \cup {NoLogin} :
           /\ heir = NoLogin <=> Heirs(g, l) = {}
           /\ group' = [group EXCEPT ![g] = Shrunk(g, l, heir)]
    BY <1>7 DEF Depart
  <2> DEFINE H == Shrunk(g, l, heir)
  <2>2. heir # group[g].leader /\ H # NoGroup =>
           H.leader = heir /\ (heir \in H.online \/ H.online = {})
    BY <2>1, HeirAfterDeparture
  <2>3. H # NoGroup => H.leader = heir
    <3> DEFINE own == [group[g].personal EXCEPT ![l] = 0]
    <3>1. H # NoGroup => H = [group[g] EXCEPT !.members  = @ \ {l},
                                              !.online   = @ \ {l},
                                              !.personal = own,
                                              !.leader   = heir]
      BY DEF Shrunk
    <3>2. group[g] \in Group
      BY <1>0
    <3> HIDE DEF own
    <3>3. QED
      BY <3>1, <3>2 DEF Group
  <2> HIDE DEF H
  <2>4. \A n \in Gid : group'[n] = IF n = g THEN H ELSE group[n]
    BY <1>0, <2>1 DEF TypeOK, H
  <2>5. QED
    BY <2>2, <2>3, <2>4 DEF Heired, Live
<1>8. ASSUME NEW c \in Conn, Decline(c)
      PROVE  Heired(k)
  BY <1>8, <1>a DEF Decline
<1>9. ASSUME NEW c \in Conn, Leave(c)
      PROVE  Heired(k)
  BY <1>0, <1>9, <1>7, LoginType, GroupOfSeat DEF Leave
<1>10. ASSUME NEW c \in Conn, NEW t \in Login, Kick(c, t)
       PROVE  Heired(k)
  BY <1>0, <1>10, <1>7, LoginType, GroupOfSeat DEF Kick
<1>11. ASSUME NEW c \in Conn, NEW t \in Login, SetLeader(c, t)
       PROVE  Heired(k)
  <2>1. \A n \in Gid : group'[n].leader \in {t, group[n].leader}
    BY <1>0, <1>11 DEF SetLeader, TypeOK, Group
  <2>2. ConnFor(t) # 0
    BY <1>11 DEF SetLeader
  <2>3. QED
    BY <2>1, <2>2 DEF Heired
<1>12. ASSUME NEW c \in Conn, NEW d \in Difficulty, SetMonsterDifficulty(c, d)
       PROVE  Heired(k)
  <2> DEFINE l == login[c]
             g == GroupOf(l)
             own == [group[g].personal EXCEPT ![l] = d]
             all == IF group[g].leader = l THEN d ELSE group[g].difficulty
             G == [group[g] EXCEPT !.personal = own, !.difficulty = all]
  <2>1. g \in Gid /\ group[g] \in Group
    BY <1>0, <1>12, LoginType, GroupOfType DEF SetMonsterDifficulty
  <2>2. group' = [group EXCEPT ![g] = G]
    BY <1>0, <1>12, <2>1 DEF SetMonsterDifficulty, TypeOK
  <2>3. G.leader = group[g].leader
    <3> HIDE DEF own, all
    <3> QED BY <2>1 DEF Group
  <2> HIDE DEF G, g
  <2>4. QED
    BY <2>1, <2>2, <2>3, <1>b
<1>13. ASSUME NEW c \in Conn, NEW mode \in InviteMode, SetInviteMode(c, mode)
       PROVE  Heired(k)
  <2>1. \A n \in Gid : group'[n].leader = group[n].leader
    BY <1>0, <1>13 DEF SetInviteMode, TypeOK, Group
  <2>2. QED
    BY <2>1 DEF Heired
<1>14. ASSUME NEW c \in Conn, NEW flag \in OpenFlag, SetOpenGroup(c, flag)
       PROVE  Heired(k)
  <2>1. \A n \in Gid : group'[n].leader = group[n].leader
    BY <1>0, <1>14 DEF SetOpenGroup, TypeOK, Group
  <2>2. QED
    BY <2>1 DEF Heired
<1>15. ASSUME NEW c \in Conn, ResetInstances(c)
       PROVE  Heired(k)
  <2>1. \A n \in Gid : group'[n].leader = group[n].leader
    BY <1>0, <1>15 DEF ResetInstances, TypeOK, Group
  <2>2. QED
    BY <2>1 DEF Heired
<1>16. ASSUME NEW c \in Conn, NEW t \in Login, GotoMember(c, t)
       PROVE  Heired(k)
  BY <1>3, <1>16 DEF GotoMember
<1>17. CASE UNCHANGED vars
  BY <1>17, <1>a DEF vars
<1>18. QED
  BY <1>1, <1>2, <1>3, <1>4, <1>5, <1>6, <1>8, <1>9, <1>10, <1>11,
     <1>12, <1>13, <1>14, <1>15, <1>16, <1>17 DEF Next

(* Leadership never passes to a member who is away while another is there: *)
(* not when the leader leaves, is superseded or accepts another invitation *)
(* (_remove_member), nor when it names a successor (set_leader).           *)
THEOREM HeirCorrect == Spec => HeirPresent
<1>1. RosterInv /\ [Next]_vars =>
         \A g \in Gid :
            LET heir == group'[g].leader IN
            Live(g) /\ Live(g)' /\ heir # group[g].leader =>
               \/ heir \in group'[g].online
               \/ ConnFor(heir) # 0
               \/ group'[g].online = {}
  BY HeirStep DEF Heired
<1>2. Spec => []RosterInv
  BY RosterAlways
<1>3. QED
  BY <1>1, <1>2, PTL DEF Spec, HeirPresent

(* A connection keyed to another copy enters the copy of its own group, or *)
(* a copy nobody else is keyed to and no group owns.                       *)
Entry(c) ==
    inst'[c] # inst[c] /\ inst'[c] # 0 =>
       \/ \E g \in Gid : /\ login'[c] \in group'[g].members
                         /\ group'[g].token = inst'[c]
       \/ /\ \A d \in Conn \ {c} : inst'[d] # inst'[c]
          /\ \A g \in Gid : group'[g].token # inst'[c]

LEMMA AssignEntry ==
    ASSUME RosterInv, TokenInv, NEW c \in Conn, NEW z, login[c] \in Login,
           AssignInstance(c, z), login' = login, NEW e \in Conn
    PROVE  Entry(e)
<1> DEFINE g == GroupOf(login[c])
<1>0. /\ TypeOK /\ inst \in [Conn -> Nat] /\ group \in [Gid -> Group]
      /\ nextToken \in Nat \ {0}
  BY DEF RosterInv, TypeOK
<1>1. g # 0 => /\ g \in Gid /\ login[c] \in group[g].members
               /\ group[g] \in Group
  BY <1>0, GroupOfSeat
<1>2. /\ \A d \in Conn : inst[d] < nextToken
      /\ \A k \in Gid : group[k].token < nextToken
  BY DEF TokenInv, TokenSound
<1>3. CASE inst' = [inst EXCEPT ![c] = 0]
  BY <1>0, <1>3 DEF Entry
<1>4. CASE /\ g # 0 /\ inst' = [inst EXCEPT ![c] = group[g].token]
           /\ UNCHANGED group
  BY <1>0, <1>1, <1>4 DEF Entry
<1>5. CASE /\ g # 0 /\ group' = [group EXCEPT ![g].token = nextToken]
           /\ inst' = [inst EXCEPT ![c] = nextToken]
  <2> DEFINE G == [group[g] EXCEPT !.token = nextToken]
  <2>1. group' = [group EXCEPT ![g] = G]
    BY <1>5
  <2>2. G.token = nextToken /\ G.members = group[g].members
    BY <1>0, <1>1, <1>5 DEF Group
  <2> HIDE DEF G, g
  <2>3. group'[g] = G /\ g \in Gid
    BY <1>0, <1>1, <1>5, <2>1
  <2>4. login'[c] \in group'[g].members /\ group'[g].token = nextToken
    BY <1>1, <1>5, <2>2, <2>3
  <2>5. inst'[e] # inst[e] => e = c /\ inst'[e] = nextToken
    BY <1>0, <1>5
  <2>6. QED
    BY <2>3, <2>4, <2>5 DEF Entry
<1>6. CASE /\ inst' = [inst EXCEPT ![c] = nextToken]
           /\ UNCHANGED group
  <2>1. inst'[e] # inst[e] => e = c /\ inst'[e] = nextToken
    BY <1>0, <1>6
  <2>2. \A d \in Conn \ {c} : inst'[d] # nextToken
    BY <1>0, <1>2, <1>6
  <2>3. \A k \in Gid : group'[k].token # nextToken
    BY <1>0, <1>2, <1>6
  <2>4. QED
    BY <2>1, <2>2, <2>3 DEF Entry
<1>7. QED
  BY <1>3, <1>4, <1>5, <1>6 DEF AssignInstance

LEMMA EntryStep ==
    ASSUME RosterInv, TokenInv, [Next]_vars, NEW e \in Conn
    PROVE  Entry(e)
<1>0. TypeOK
  BY DEF RosterInv
<1>a. ASSUME inst' = inst
      PROVE  Entry(e)
  BY <1>a DEF Entry
<1>1. ASSUME NEW c \in Conn, StartZoneJoin(c)
      PROVE  Entry(e)
  BY <1>0, <1>1, LoginType, AssignEntry DEF StartZoneJoin
<1>2. ASSUME NEW c \in Conn, NEW z, TransferZone(c, z)
      PROVE  Entry(e)
  BY <1>0, <1>2, LoginType, AssignEntry DEF TransferZone
<1>3. ASSUME NEW c \in Conn, NEW t \in Login, GotoMember(c, t)
      PROVE  Entry(e)
  BY <1>2, <1>3 DEF GotoMember
<1>4. ASSUME NEW c \in Conn, Disconnect(c)
      PROVE  Entry(e)
  BY <1>0, <1>4 DEF Disconnect, TypeOK, Entry
<1>5. CASE UNCHANGED vars
  BY <1>5, <1>a DEF vars
<1>6. ASSUME NEW c \in Conn,
             \/ \E l \in Login : LogIn(c, l)
             \/ PlayerSpawned(c)
      PROVE  Entry(e)
  BY <1>6, <1>a DEF LogIn, PlayerSpawned
<1>7. ASSUME NEW c \in Conn,
             \/ \E t \in Login : Invite(c, t) \/ Kick(c, t) \/ SetLeader(c, t)
             \/ Accept(c) \/ Decline(c) \/ Leave(c)
      PROVE  Entry(e)
  BY <1>7, <1>a DEF Invite, Kick, SetLeader, Accept, Decline, Leave, Depart, connVars
<1>8. ASSUME NEW c \in Conn,
             \/ \E d \in Difficulty : SetMonsterDifficulty(c, d)
             \/ \E mode \in InviteMode : SetInviteMode(c, mode)
             \/ \E flag \in OpenFlag : SetOpenGroup(c, flag)
             \/ ResetInstances(c)
      PROVE  Entry(e)
  BY <1>8, <1>a DEF SetMonsterDifficulty, SetInviteMode, SetOpenGroup,
                    ResetInstances, connVars
<1>9. QED
  BY <1>1, <1>2, <1>3, <1>4, <1>5, <1>6, <1>7, <1>8 DEF Next

(* Nobody walks into a stranger's dungeon: whoever is keyed to another     *)
(* copy belongs to the group that owns it, or is alone in a fresh one      *)
(* (_assign_instance_id), whatever groups were left, dissolved or reset    *)
(* before.                                                                 *)
THEOREM EntryCorrect == Spec => PrivateCopyEntry
<1>1. RosterInv /\ TokenInv /\ [Next]_vars => [\A c \in Conn : Entry(c)]_vars
  BY EntryStep
<1>2. Spec => []TokenInv
  <2>1. Init => TokenInv
    BY InitType DEF Init, TokenInv, TokenSound, NoGroup
  <2>2. QED
    BY <2>1, TokenStep, PTL DEF Spec
<1>3. Spec => [][\A c \in Conn : Entry(c)]_vars
  BY <1>1, <1>2, RosterAlways, PTL DEF Spec
<1>4. QED
  BY <1>3 DEF PrivateCopyEntry, Entry

-----------------------------------------------------------------------------
(* Presence.  It holds where an account has one connection at a time; with *)
(* two the loss of one greys out the player who still plays on the other.  *)

(* Only a connection that was accepted and not closed has a login, only    *)
(* one with a login has an avatar, and no two have the same login.         *)
Attached ==
    /\ \A c \in Conn : /\ login[c] # NoLogin => c \in accepted
                       /\ spawned[c] => login[c] # NoLogin
    /\ \A c, d \in Conn : login[c] = login[d] /\ login[c] # NoLogin => c = d

PresenceInv == RosterInv /\ Attached /\ PresenceAgrees

(* The server resolves a login to a connection exactly when one has it.    *)
LEMMA Resolved ==
    ASSUME Attached, TypeOK, NEW l \in Login
    PROVE  ConnFor(l) # 0 <=> \E c \in Conn : login[c] = l
<1>1. CASE ConnsOf(l) = {}
  BY <1>1, LoginAssumption DEF ConnFor, ConnsOf, Attached, TypeOK
<1>2. CASE ConnsOf(l) # {}
  <2>1. PICK c \in accepted : login[c] = l
    BY <1>2 DEF ConnsOf
  <2>2. c \in Conn /\ c \in Nat /\ c # 0 /\ l # NoLogin
    BY <2>1, ConnAssumption, LoginAssumption DEF TypeOK
  <2>3. ConnsOf(l) = {c}
    BY <2>1, <2>2 DEF ConnsOf, Attached, TypeOK
  <2>4. \E x \in ConnsOf(l) : \A d \in ConnsOf(l) : x <= d
    BY <2>2, <2>3
  <2>5. ConnFor(l) = CHOOSE x \in ConnsOf(l) : \A d \in ConnsOf(l) : x <= d
    BY <1>2 DEF ConnFor
  <2>6. ConnFor(l) \in ConnsOf(l)
    BY <2>4, <2>5
  <2>7. QED
    BY <2>1, <2>2, <2>3, <2>6
<1>3. QED
  BY <1>1, <1>2

LEMMA ResolvedNext ==
    ASSUME Attached', TypeOK', NEW l \in Login
    PROVE  ConnFor(l)' # 0 <=> \E c \in Conn : login'[c] = l
<1>1. CASE ConnsOf(l)' = {}
  BY <1>1, LoginAssumption DEF ConnFor, ConnsOf, Attached, TypeOK
<1>2. CASE ConnsOf(l)' # {}
  <2>1. PICK c \in accepted' : login'[c] = l
    BY <1>2 DEF ConnsOf
  <2>2. c \in Conn /\ c \in Nat /\ c # 0 /\ l # NoLogin
    BY <2>1, ConnAssumption, LoginAssumption DEF TypeOK
  <2>3. ConnsOf(l)' = {c}
    BY <2>1, <2>2 DEF ConnsOf, Attached, TypeOK
  <2>4. \E x \in ConnsOf(l)' : \A d \in ConnsOf(l)' : x <= d
    BY <2>2, <2>3
  <2>5. ConnFor(l)' = CHOOSE x \in ConnsOf(l)' : \A d \in ConnsOf(l)' : x <= d
    BY <1>2 DEF ConnFor
  <2>6. ConnFor(l)' \in ConnsOf(l)'
    BY <2>4, <2>5
  <2>7. QED
    BY <2>1, <2>2, <2>3, <2>6
<1>3. QED
  BY <1>1, <1>2

LEMMA AttachedStep ==
    ASSUME OneConnPerLogin, TypeOK, Attached, [Next]_vars
    PROVE  Attached'
<1>a. ASSUME accepted' = accepted, login' = login,
             \A d \in Conn : spawned'[d] => spawned[d]
      PROVE  Attached'
  BY <1>a DEF Attached
<1>1. ASSUME NEW c \in Conn, NEW l \in Login, LogIn(c, l)
      PROVE  Attached'
  <2>1. \A d \in Conn : login[d] # l
    BY <1>1, LoginAssumption DEF LogIn, ConnsOf, Attached
  <2>2. login[c] = NoLogin
    BY <1>1 DEF LogIn, Attached
  <2>3. /\ \A d \in Conn : login'[d] = IF d = c THEN l ELSE login[d]
        /\ accepted' = accepted \cup {c} /\ spawned' = spawned
    BY <1>1 DEF LogIn, TypeOK
  <2>4. QED
    BY <2>1, <2>2, <2>3, LoginAssumption DEF Attached
<1>2. ASSUME NEW c \in Conn, StartZoneJoin(c)
      PROVE  Attached'
  BY <1>2, <1>a DEF StartZoneJoin
<1>3. ASSUME NEW c \in Conn, NEW z, TransferZone(c, z)
      PROVE  Attached'
  <2>1. \A d \in Conn : spawned'[d] => spawned[d]
    BY <1>3 DEF TransferZone, TypeOK
  <2>2. QED
    BY <1>3, <2>1, <1>a DEF TransferZone
<1>4. ASSUME NEW c \in Conn, NEW t \in Login, GotoMember(c, t)
      PROVE  Attached'
  BY <1>3, <1>4 DEF GotoMember
<1>5. ASSUME NEW c \in Conn, Disconnect(c)
      PROVE  Attached'
  <2>1. /\ \A d \in Conn : login'[d] = IF d = c THEN NoLogin ELSE login[d]
        /\ \A d \in Conn : spawned'[d] = IF d = c THEN FALSE ELSE spawned[d]
        /\ accepted' = accepted
    BY <1>5 DEF Disconnect, TypeOK
  <2>2. QED
    BY <2>1 DEF Attached
<1>6. ASSUME NEW c \in Conn, PlayerSpawned(c)
      PROVE  Attached'
  <2>1. /\ login[c] # NoLogin /\ login' = login /\ accepted' = accepted
        /\ \A d \in Conn : spawned'[d] = IF d = c THEN TRUE ELSE spawned[d]
    BY <1>6 DEF PlayerSpawned, TypeOK
  <2>2. QED
    BY <2>1 DEF Attached
<1>7. CASE UNCHANGED vars
  BY <1>7, <1>a DEF vars
<1>8. ASSUME NEW c \in Conn,
             \/ \E t \in Login : Invite(c, t) \/ Kick(c, t) \/ SetLeader(c, t)
             \/ Accept(c) \/ Decline(c) \/ Leave(c)
      PROVE  Attached'
  BY <1>8, <1>a DEF Invite, Kick, SetLeader, Accept, Decline, Leave, Depart, connVars
<1>9. ASSUME NEW c \in Conn,
             \/ \E d \in Difficulty : SetMonsterDifficulty(c, d)
             \/ \E mode \in InviteMode : SetInviteMode(c, mode)
             \/ \E flag \in OpenFlag : SetOpenGroup(c, flag)
             \/ ResetInstances(c)
      PROVE  Attached'
  BY <1>9, <1>a DEF SetMonsterDifficulty, SetInviteMode, SetOpenGroup,
                    ResetInstances, connVars
<1>10. QED
  BY <1>1, <1>2, <1>3, <1>4, <1>5, <1>6, <1>7, <1>8, <1>9 DEF Next

(* Presence in terms of the connections and of what a step leaves alone:   *)
(* nobody is shown online anew but with a connection, nobody who is in the *)
(* world joins greyed out, and nobody in the world is greyed out.          *)
LEMMA PresenceKept ==
    ASSUME PresenceInv, RosterInv', Attached', login' = login,
           \A d \in Conn : spawned'[d] => spawned[d],
           \A k \in Gid :
              /\ \A l \in group'[k].online :
                    l \in group[k].online \/ \E c \in Conn : login[c] = l
              /\ \A l \in group'[k].members :
                    l \in group'[k].online
                    \/ (l \in group[k].members /\ l \notin group[k].online)
    PROVE  PresenceAgrees'
<1>1. TypeOK /\ TypeOK' /\ Attached
  BY DEF PresenceInv, RosterInv
<1>2. \A k \in Gid : group[k].online \subseteq Login
  BY <1>1 DEF TypeOK, Group
<1>3. \A k \in Gid : group'[k].online \subseteq Login
  BY <1>1 DEF TypeOK, Group
<1>4. ASSUME NEW k \in Gid, NEW l \in group'[k].online
      PROVE  ConnFor(l)' # 0
  <2>1. l \in Login
    BY <1>3, <1>4
  <2>2. \E c \in Conn : login[c] = l
    <3>1. CASE l \in group[k].online
      BY <1>1, <2>1, <3>1, Resolved DEF PresenceInv, PresenceAgrees
    <3>2. QED
      BY <3>1, <1>4
  <2>3. \E c \in Conn : login'[c] = l
    BY <2>2
  <2>4. QED
    BY <1>1, <2>1, <2>3, ResolvedNext
<1>5. ASSUME NEW c \in Conn, NEW k \in Gid, spawned'[c], login'[c] \in group'[k].members
      PROVE  login'[c] \in group'[k].online
  BY <1>5 DEF PresenceInv, PresenceAgrees
<1>6. QED
  BY <1>4, <1>5 DEF PresenceAgrees

(* Who sits in, and is shown online in, a group that was left or joined.   *)
LEMMA ShrunkPresence ==
    ASSUME TypeOK, NEW h \in Gid, NEW l \in Login, NEW heir \in Login \cup {NoLogin}
    PROVE  LET H == Shrunk(h, l, heir) IN
           \/ H.members = {} /\ H.online = {}
           \/ /\ H.members = group[h].members \ {l}
              /\ H.online = group[h].online \ {l}
<1> DEFINE own == [group[h].personal EXCEPT ![l] = 0]
           S == [group[h] EXCEPT !.members = @ \ {l}, !.online = @ \ {l},
                                 !.personal = own, !.leader = heir]
<1>1. S.members = group[h].members \ {l} /\ S.online = group[h].online \ {l}
  <2>1. group[h] \in Group
    BY DEF TypeOK
  <2> HIDE DEF own
  <2>2. QED
    BY <2>1 DEF Group
<1>2. Shrunk(h, l, heir) = IF Dissolves(h) THEN NoGroup ELSE S
  BY DEF Shrunk
<1>3. NoGroup.members = {} /\ NoGroup.online = {}
  BY DEF NoGroup
<1> HIDE DEF S
<1>4. QED
  BY <1>1, <1>2, <1>3

LEMMA JoinedPresence ==
    ASSUME TypeOK, NEW g \in Gid, NEW l \in Login
    PROVE  LET J == Joined(group[g], l) IN
           /\ J.members = group[g].members \cup {l}
           /\ J.online = group[g].online \cup {l}
           /\ J.leader = group[g].leader
<1> DEFINE own == [group[g].personal EXCEPT ![l] = group[g].difficulty]
<1>1. Joined(group[g], l) = [group[g] EXCEPT !.members  = @ \cup {l},
                                             !.online   = @ \cup {l},
                                             !.personal = own]
  BY DEF Joined
<1>2. group[g] \in Group
  BY DEF TypeOK
<1> HIDE DEF own
<1>3. QED
  BY <1>1, <1>2 DEF Group

LEMMA PresenceStep ==
    ASSUME OneConnPerLogin, PresenceInv, [Next]_vars
    PROVE  PresenceInv'
<1>0. /\ TypeOK /\ RosterInv /\ Attached /\ PresenceAgrees
      /\ RosterInv' /\ Attached' /\ TypeOK'
      /\ \A k \in Gid : group[k] \in Group
  <2>1. TypeOK /\ RosterInv /\ Attached /\ PresenceAgrees
    BY DEF PresenceInv, RosterInv
  <2>2. RosterInv'
    BY <2>1, RosterStep
  <2>3. Attached'
    BY <2>1, AttachedStep
  <2>4. QED
    BY <2>1, <2>2, <2>3 DEF RosterInv, TypeOK
<1> SUFFICES PresenceAgrees'
  BY <1>0 DEF PresenceInv
<1>a. ASSUME login' = login, \A d \in Conn : spawned'[d] => spawned[d],
             \A k \in Gid : /\ group'[k].members = group[k].members
                            /\ group'[k].online = group[k].online
      PROVE  PresenceAgrees'
  BY <1>0, <1>a, PresenceKept
<1>b. ASSUME NEW c \in Conn, NEW z, login[c] \in Login, AssignInstance(c, z)
      PROVE  \A k \in Gid : /\ group'[k].members = group[k].members
                            /\ group'[k].online = group[k].online
  <2>1. CASE group' = group
    BY <2>1
  <2>2. CASE /\ GroupOf(login[c]) # 0
             /\ group' = [group EXCEPT ![GroupOf(login[c])].token = nextToken]
    BY <1>0, <1>b, <2>2, GroupOfType DEF TypeOK, Group
  <2>3. QED
    BY <1>b, <2>1, <2>2 DEF AssignInstance
<1>1. ASSUME NEW c \in Conn, NEW l \in Login, LogIn(c, l)
      PROVE  PresenceAgrees'
  <2>1. /\ login[c] = NoLogin /\ ~spawned[c] /\ group' = group /\ spawned' = spawned
        /\ \A d \in Conn : login'[d] = IF d = c THEN l ELSE login[d]
    BY <1>0, <1>1 DEF LogIn, Attached, TypeOK, groupVars
  <2>2. ASSUME NEW k \in Gid, NEW m \in group'[k].online
        PROVE  ConnFor(m)' # 0
    <3>1. m \in Login /\ m # NoLogin /\ m \in group[k].online
      BY <1>0, <2>1, <2>2, LoginAssumption DEF Group
    <3>2. \E d \in Conn : login[d] = m
      BY <1>0, <3>1, Resolved DEF PresenceAgrees
    <3>3. \E d \in Conn : login'[d] = m
      BY <2>1, <3>1, <3>2
    <3>4. QED
      BY <1>0, <3>1, <3>3, ResolvedNext
  <2>3. ASSUME NEW d \in Conn, NEW k \in Gid, spawned'[d], login'[d] \in group'[k].members
        PROVE  login'[d] \in group'[k].online
    BY <1>0, <2>1, <2>3 DEF PresenceAgrees
  <2>4. QED
    BY <2>2, <2>3 DEF PresenceAgrees
<1>2. ASSUME NEW c \in Conn, StartZoneJoin(c)
      PROVE  PresenceAgrees'
  <2>1. login[c] \in Login
    BY <1>0, <1>2, LoginType DEF StartZoneJoin
  <2>2. QED
    BY <1>2, <2>1, <1>a, <1>b DEF StartZoneJoin
<1>3. ASSUME NEW c \in Conn, NEW z, TransferZone(c, z)
      PROVE  PresenceAgrees'
  <2>1. login[c] \in Login
    BY <1>0, <1>3, LoginType DEF TransferZone
  <2>2. login' = login /\ \A d \in Conn : spawned'[d] => spawned[d]
    BY <1>0, <1>3 DEF TransferZone, TypeOK
  <2>3. \A k \in Gid : /\ group'[k].members = group[k].members
                       /\ group'[k].online = group[k].online
    BY <1>3, <2>1, <1>b DEF TransferZone
  <2>4. QED
    BY <2>2, <2>3, <1>a
<1>4. ASSUME NEW c \in Conn, NEW t \in Login, GotoMember(c, t)
      PROVE  PresenceAgrees'
  BY <1>3, <1>4 DEF GotoMember
<1>5. ASSUME NEW c \in Conn, PlayerSpawned(c)
      PROVE  PresenceAgrees'
  <2> DEFINE l == login[c]
             g == GroupOf(l)
             G == [group[g] EXCEPT !.online = @ \cup {l}]
  <2>1. /\ l \in Login /\ l # NoLogin /\ login' = login
        /\ \A d \in Conn : spawned'[d] = IF d = c THEN TRUE ELSE spawned[d]
    BY <1>0, <1>5, LoginType DEF PlayerSpawned, TypeOK
  <2>2. \A k \in Gid : l \in group[k].members => k = g
    BY <1>0, <2>1, GroupOfSeat DEF RosterInv, SeatsAgree
  <2>3. \A k \in Gid : /\ group'[k].members = group[k].members
                       /\ group'[k].online = group[k].online
                             \cup (IF l \in group[k].members THEN {l} ELSE {})
    <3>1. CASE g # 0 /\ l \in group[g].members
      <4>1. g \in Gid /\ group' = [group EXCEPT ![g] = G]
        BY <1>5, <2>1, <3>1, <1>0, GroupOfType DEF PlayerSpawned
      <4>2. G.members = group[g].members /\ G.online = group[g].online \cup {l}
        BY <1>0, <4>1 DEF Group
      <4> HIDE DEF G, g, l
      <4>3. QED
        BY <1>0, <2>2, <3>1, <4>1, <4>2 DEF TypeOK
    <3>2. CASE ~(g # 0 /\ l \in group[g].members)
      <4>1. group' = group
        BY <1>5, <2>1, <3>2 DEF PlayerSpawned
      <4> HIDE DEF g, l
      <4>2. QED
        BY <2>2, <3>2, <4>1
    <3>3. QED
      BY <3>1, <3>2
  <2>4. ASSUME NEW k \in Gid, NEW m \in group'[k].online
        PROVE  ConnFor(m)' # 0
    <3>1. m = l \/ m \in group[k].online
      BY <2>3, <2>4
    <3>2. m \in Login
      BY <1>0, <2>1, <3>1 DEF Group
    <3>3. \E d \in Conn : login[d] = m
      BY <1>0, <3>1, <3>2, Resolved DEF PresenceAgrees
    <3>4. QED
      BY <1>0, <2>1, <3>2, <3>3, ResolvedNext
  <2>5. ASSUME NEW d \in Conn, NEW k \in Gid, spawned'[d], login'[d] \in group'[k].members
        PROVE  login'[d] \in group'[k].online
    <3>1. login'[d] = login[d] /\ login[d] \in group[k].members
      BY <2>1, <2>3, <2>5
    <3>2. CASE d = c
      BY <2>3, <3>1, <3>2
    <3>3. CASE d # c
      BY <1>0, <2>1, <2>3, <2>5, <3>1, <3>3 DEF PresenceAgrees
    <3>4. QED
      BY <3>2, <3>3
  <2>6. QED
    BY <2>4, <2>5 DEF PresenceAgrees
<1>6. ASSUME NEW c \in Conn, Disconnect(c)
      PROVE  PresenceAgrees'
  <2> DEFINE l == login[c]
             g == GroupOf(l)
             G == [group[g] EXCEPT !.online = @ \ {l}]
  <2>1. /\ l \in Login /\ l # NoLogin
        /\ \A d \in Conn : login'[d] = IF d = c THEN NoLogin ELSE login[d]
        /\ \A d \in Conn : spawned'[d] = IF d = c THEN FALSE ELSE spawned[d]
    BY <1>0, <1>6, LoginType DEF Disconnect, TypeOK
  <2>2. \A k \in Gid : l \in group[k].members => k = g /\ g # 0
    BY <1>0, <2>1, GroupOfSeat DEF RosterInv, SeatsAgree
  <2>3. \A k \in Gid : group[k].online \subseteq group[k].members
    BY <1>0, DeadGroupIsEmpty DEF RosterInv, GroupSound
  <2>4. \A k \in Gid : /\ group'[k].members = group[k].members
                       /\ group'[k].online = group[k].online \ {l}
    <3>1. CASE g # 0 /\ l \in group[g].members
      <4>1. g \in Gid /\ group' = [group EXCEPT ![g] = G]
        BY <1>6, <2>1, <3>1, <1>0, GroupOfType DEF Disconnect
      <4>2. G.members = group[g].members /\ G.online = group[g].online \ {l}
        BY <1>0, <4>1 DEF Group
      <4> HIDE DEF G, g, l
      <4>3. QED
        BY <1>0, <2>2, <2>3, <3>1, <4>1, <4>2 DEF TypeOK
    <3>2. CASE ~(g # 0 /\ l \in group[g].members)
      <4>1. group' = group
        BY <1>6, <2>1, <3>2 DEF Disconnect
      <4> HIDE DEF g, l
      <4>2. QED
        BY <2>2, <2>3, <3>2, <4>1
    <3>3. QED
      BY <3>1, <3>2
  <2>5. ASSUME NEW k \in Gid, NEW m \in group'[k].online
        PROVE  ConnFor(m)' # 0
    <3>1. m # l /\ m \in group[k].online /\ m \in Login
      BY <1>0, <2>4, <2>5 DEF Group
    <3>2. \E d \in Conn : login[d] = m
      BY <1>0, <3>1, Resolved DEF PresenceAgrees
    <3>3. \E d \in Conn : login'[d] = m
      BY <2>1, <3>1, <3>2
    <3>4. QED
      BY <1>0, <3>1, <3>3, ResolvedNext
  <2>6. ASSUME NEW d \in Conn, NEW k \in Gid, spawned'[d], login'[d] \in group'[k].members
        PROVE  login'[d] \in group'[k].online
    <3>1. d # c /\ login'[d] = login[d] /\ spawned[d] /\ login[d] \in group[k].members
      BY <2>1, <2>4, <2>6
    <3>2. login[d] # l
      BY <1>0, <2>1, <3>1 DEF Attached
    <3>3. QED
      BY <1>0, <2>4, <3>1, <3>2 DEF PresenceAgrees
  <2>7. QED
    BY <2>5, <2>6 DEF PresenceAgrees
<1>7. ASSUME NEW c \in Conn, NEW t \in Login, Invite(c, t)
      PROVE  PresenceAgrees'
  <2> DEFINE l == login[c]
             founds == playerGroup[l] = 0
             g == IF founds THEN nextId ELSE playerGroup[l]
             G == IF founds THEN NewGroup(l) ELSE group[g]
  <2>1. l \in Login /\ g \in Gid
    <3>1. l \in Login
      BY <1>0, <1>7, LoginType DEF Invite
    <3>2. QED
      BY <1>0, <1>7, <3>1, BoundAssumption DEF Invite, TypeOK
  <2>2. group' = [group EXCEPT ![g] = G] /\ login' = login /\ spawned' = spawned
    BY <1>7 DEF Invite, connVars
  <2>3. \/ G = group[g]
        \/ G.members = {l} /\ G.online = {l}
    <3>1. NewGroup(l).members = {l} /\ NewGroup(l).online = {l}
      BY NoGroupType DEF NewGroup, Group
    <3>2. QED
      BY <3>1
  <2> HIDE DEF g, G
  <2>4. \A k \in Gid : group'[k] = IF k = g THEN G ELSE group[k]
    BY <1>0, <2>1, <2>2 DEF TypeOK
  <2>5. \A k \in Gid :
           /\ \A m \in group'[k].online :
                 m \in group[k].online \/ \E d \in Conn : login[d] = m
           /\ \A m \in group'[k].members :
                 m \in group'[k].online
                 \/ (m \in group[k].members /\ m \notin group[k].online)
    BY <2>3, <2>4
  <2>6. QED
    BY <1>0, <2>2, <2>5, PresenceKept
<1>8. ASSUME NEW c \in Conn, Accept(c)
      PROVE  PresenceAgrees'
  <2> DEFINE l == login[c]
             g == pending[l]
             h == GroupOf(l)
             J == Joined(group[g], l)
  <2>1. l \in Login /\ g \in Gid /\ login' = login /\ spawned' = spawned
    <3>1. l \in Login
      BY <1>0, <1>8, LoginType DEF Accept
    <3>2. QED
      BY <1>0, <1>8, <3>1 DEF Accept, TypeOK, connVars
  <2>2. J.members = group[g].members \cup {l} /\ J.online = group[g].online \cup {l}
    BY <1>0, <2>1, JoinedPresence
  <2>3. \/ group' = group
        \/ group' = [group EXCEPT ![g] = J]
        \/ /\ h \in Gid
           /\ \E heir \in Login \cup {NoLogin} :
                 group' = [group EXCEPT ![h] = Shrunk(h, l, heir), ![g] = J]
    <3>1. h # 0 => h \in Gid /\ Heirs(h, l) \subseteq Login \cup {NoLogin}
      BY <1>0, <2>1, GroupOfType DEF Heirs, Stayers, Group
    <3>2. QED
      BY <1>8, <3>1 DEF Accept
  <2>4. \A heir \in Login \cup {NoLogin} : h \in Gid =>
           LET H == Shrunk(h, l, heir) IN
           \/ H.members = {} /\ H.online = {}
           \/ /\ H.members = group[h].members \ {l}
              /\ H.online = group[h].online \ {l}
    BY <1>0, <2>1, ShrunkPresence
  <2>5. \E d \in Conn : login[d] = l
    OBVIOUS
  <2> HIDE DEF J, g, h, l
  <2>6. \A k \in Gid :
           /\ \A m \in group'[k].online :
                 m \in group[k].online \/ \E d \in Conn : login[d] = m
           /\ \A m \in group'[k].members :
                 m \in group'[k].online
                 \/ (m \in group[k].members /\ m \notin group[k].online)
    <3>1. CASE group' = group
      BY <3>1
    <3>2. CASE group' = [group EXCEPT ![g] = J]
      <4>1. \A k \in Gid : group'[k] = IF k = g THEN J ELSE group[k]
        BY <1>0, <2>1, <3>2 DEF TypeOK
      <4>2. QED
        BY <2>2, <2>5, <4>1
    <3>3. ASSUME h \in Gid, NEW heir \in Login \cup {NoLogin},
                 group' = [group EXCEPT ![h] = Shrunk(h, l, heir), ![g] = J]
          PROVE  \A k \in Gid :
                   /\ \A m \in group'[k].online :
                         m \in group[k].online \/ \E d \in Conn : login[d] = m
                   /\ \A m \in group'[k].members :
                         m \in group'[k].online
                         \/ (m \in group[k].members /\ m \notin group[k].online)
      <4> DEFINE H == Shrunk(h, l, heir)
      <4>1. \/ H.members = {} /\ H.online = {}
            \/ /\ H.members = group[h].members \ {l}
               /\ H.online = group[h].online \ {l}
        BY <2>4, <3>3
      <4> HIDE DEF H
      <4>2. \A k \in Gid : group'[k] = IF k = g THEN J ELSE IF k = h THEN H ELSE group[k]
        BY <1>0, <2>1, <3>3 DEF TypeOK, H
      <4>a. CASE g = h
        <5>1. \A k \in Gid : group'[k] = IF k = g THEN J ELSE group[k]
          BY <4>2, <4>a
        <5>2. QED
          BY <2>2, <2>5, <5>1
      <4>b. CASE g # h
        BY <2>2, <2>5, <4>1, <4>2, <4>b
      <4>3. QED
        BY <4>a, <4>b
    <3>4. QED
      BY <2>3, <3>1, <3>2, <3>3
  <2>7. QED
    BY <1>0, <2>1, <2>6, PresenceKept
<1>9. ASSUME NEW g \in Gid, NEW l \in Login, Depart(g, l)
      PROVE  PresenceAgrees'
  <2>1. Heirs(g, l) \subseteq Login \cup {NoLogin}
    BY <1>0 DEF Heirs, Stayers, Group
  <2>2. PICK heir \in Login \cup {NoLogin} :
           group' = [group EXCEPT ![g] = Shrunk(g, l, heir)]
    BY <1>9, <2>1 DEF Depart
  <2> DEFINE H == Shrunk(g, l, heir)
  <2>3. \/ H.members = {} /\ H.online = {}
        \/ /\ H.members = group[g].members \ {l}
           /\ H.online = group[g].online \ {l}
    BY <1>0, ShrunkPresence
  <2> HIDE DEF H
  <2>4. \A k \in Gid : group'[k] = IF k = g THEN H ELSE group[k]
    BY <1>0, <2>2 DEF TypeOK, H
  <2>5. \A k \in Gid :
           /\ \A m \in group'[k].online :
                 m \in group[k].online \/ \E d \in Conn : login[d] = m
           /\ \A m \in group'[k].members :
                 m \in group'[k].online
                 \/ (m \in group[k].members /\ m \notin group[k].online)
    BY <2>3, <2>4
  <2>6. login' = login /\ spawned' = spawned
    BY <1>9 DEF Depart, connVars
  <2>7. QED
    BY <1>0, <2>5, <2>6, PresenceKept
<1>10. ASSUME NEW c \in Conn, Leave(c)
       PROVE  PresenceAgrees'
  BY <1>0, <1>9, <1>10, LoginType, GroupOfType DEF Leave
<1>11. ASSUME NEW c \in Conn, NEW t \in Login, Kick(c, t)
       PROVE  PresenceAgrees'
  BY <1>0, <1>9, <1>11, LoginType, GroupOfType DEF Kick
<1>12. ASSUME NEW c \in Conn, Decline(c)
       PROVE  PresenceAgrees'
  BY <1>12, <1>a DEF Decline, connVars
<1>13. ASSUME NEW c \in Conn, NEW t \in Login, SetLeader(c, t)
       PROVE  PresenceAgrees'
  <2>1. \A k \in Gid : /\ group'[k].members = group[k].members
                       /\ group'[k].online = group[k].online
    BY <1>0, <1>13 DEF SetLeader, TypeOK, Group
  <2>2. QED
    BY <1>13, <2>1, <1>a DEF SetLeader, connVars
<1>14. ASSUME NEW c \in Conn, NEW d \in Difficulty, SetMonsterDifficulty(c, d)
       PROVE  PresenceAgrees'
  <2> DEFINE l == login[c]
             g == GroupOf(l)
             own == [group[g].personal EXCEPT ![l] = d]
             all == IF group[g].leader = l THEN d ELSE group[g].difficulty
             G == [group[g] EXCEPT !.personal = own, !.difficulty = all]
  <2>1. g \in Gid /\ group[g] \in Group
    BY <1>0, <1>14, LoginType, GroupOfType DEF SetMonsterDifficulty
  <2>2. group' = [group EXCEPT ![g] = G]
    BY <1>0, <1>14, <2>1 DEF SetMonsterDifficulty, TypeOK
  <2>3. G.members = group[g].members /\ G.online = group[g].online
    <3> HIDE DEF own, all
    <3> QED BY <2>1 DEF Group
  <2> HIDE DEF G, g
  <2>4. \A k \in Gid : /\ group'[k].members = group[k].members
                       /\ group'[k].online = group[k].online
    BY <1>0, <2>1, <2>2, <2>3 DEF TypeOK
  <2>5. QED
    BY <1>14, <2>4, <1>a DEF SetMonsterDifficulty, connVars
<1>15. ASSUME NEW c \in Conn, NEW mode \in InviteMode, SetInviteMode(c, mode)
       PROVE  PresenceAgrees'
  <2>1. \A k \in Gid : /\ group'[k].members = group[k].members
                       /\ group'[k].online = group[k].online
    BY <1>0, <1>15 DEF SetInviteMode, TypeOK, Group
  <2>2. QED
    BY <1>15, <2>1, <1>a DEF SetInviteMode, connVars
<1>16. ASSUME NEW c \in Conn, NEW flag \in OpenFlag, SetOpenGroup(c, flag)
       PROVE  PresenceAgrees'
  <2>1. \A k \in Gid : /\ group'[k].members = group[k].members
                       /\ group'[k].online = group[k].online
    BY <1>0, <1>16 DEF SetOpenGroup, TypeOK, Group
  <2>2. QED
    BY <1>16, <2>1, <1>a DEF SetOpenGroup, connVars
<1>17. ASSUME NEW c \in Conn, ResetInstances(c)
       PROVE  PresenceAgrees'
  <2>1. \A k \in Gid : /\ group'[k].members = group[k].members
                       /\ group'[k].online = group[k].online
    BY <1>0, <1>17 DEF ResetInstances, TypeOK, Group
  <2>2. QED
    BY <1>17, <2>1, <1>a DEF ResetInstances, connVars
<1>18. CASE UNCHANGED vars
  BY <1>18, <1>a DEF vars
<1>19. QED
  BY <1>1, <1>2, <1>3, <1>4, <1>5, <1>6, <1>7, <1>8, <1>10, <1>11, <1>12,
     <1>13, <1>14, <1>15, <1>16, <1>17, <1>18 DEF Next

(* A member is greyed out exactly while away, as long as an account plays  *)
(* on one connection at a time (on_disconnect, on_player_spawned, accept). *)
THEOREM PresenceCorrect ==
    ASSUME OneConnPerLogin
    PROVE  Spec => []PresenceAgrees
<1>1. Init => PresenceInv
  <2>1. Init => Attached /\ PresenceAgrees
    BY DEF Init, Attached, PresenceAgrees, NoGroup
  <2>2. QED
    BY <2>1, InitRoster DEF PresenceInv
<1>2. PresenceInv /\ [Next]_vars => PresenceInv'
  BY PresenceStep
<1>3. PresenceInv => PresenceAgrees
  BY DEF PresenceInv
<1>4. QED
  BY <1>1, <1>2, <1>3, PTL DEF Spec

-----------------------------------------------------------------------------
(* The refinement of Party.  A login leads at most one group, so the party *)
(* it leads is the roster of that group.                                   *)

Parties == [l \in Login |-> Led(l)]

(* The party of k in a table of groups.                                    *)
LedIn(G, k) == UNION {G[g].members : g \in {h \in Gid : G[h].leader = k}}

LEMMA LedOne ==
    ASSUME NEW G, NEW g \in Gid, NEW k, G[g].leader = k,
           \A h \in Gid : G[h].leader = k => h = g
    PROVE  LedIn(G, k) = G[g].members
<1>1. {h \in Gid : G[h].leader = k} = {g}
  OBVIOUS
<1>2. {G[n].members : n \in {h \in Gid : G[h].leader = k}} = {G[g].members}
  BY <1>1
<1>3. QED
  BY <1>2 DEF LedIn

LEMMA LedNone ==
    ASSUME NEW G, NEW k, \A h \in Gid : G[h].leader # k
    PROVE  LedIn(G, k) = {}
BY DEF LedIn

(* The party of a login in a sound table: what it leads, or nothing.       *)
Tables(G, seat) ==
    /\ \A g \in Gid : /\ G[g].members \subseteq Login
                      /\ G[g].leader = NoLogin \/ G[g].leader \in G[g].members
    /\ \A l \in Login, g \in Gid : seat[l] = g <=> l \in G[g].members

LEMMA LedInTables ==
    ASSUME NEW G, NEW seat, Tables(G, seat), NEW k \in Login
    PROVE  /\ \A g \in Gid : G[g].leader = k => LedIn(G, k) = G[g].members
           /\ (\A g \in Gid : G[g].leader # k) => LedIn(G, k) = {}
           /\ \A l \in LedIn(G, k) :
                 l \in Login /\ seat[l] \in Gid /\ G[seat[l]].leader = k
<1>1. k # NoLogin
  BY LoginAssumption
<1>2. \A g \in Gid : G[g].leader = k => seat[k] = g
  BY <1>1 DEF Tables
<1>3. \A g \in Gid : G[g].leader = k => LedIn(G, k) = G[g].members
  BY <1>2, LedOne
<1>4. (\A g \in Gid : G[g].leader # k) => LedIn(G, k) = {}
  BY LedNone
<1>5. ASSUME NEW l \in LedIn(G, k)
      PROVE  l \in Login /\ seat[l] \in Gid /\ G[seat[l]].leader = k
  <2>1. PICK g \in Gid : G[g].leader = k
    BY <1>4, <1>5
  <2>2. l \in G[g].members
    BY <1>3, <1>5, <2>1
  <2>3. seat[l] = g
    BY <2>2 DEF Tables
  <2>4. QED
    BY <2>1, <2>2, <2>3 DEF Tables
<1>6. QED
  BY <1>3, <1>4, <1>5

LEMMA TablesNow ==
    ASSUME RosterInv
    PROVE  Tables(group, playerGroup) /\ \A l \in Login : Led(l) = LedIn(group, l)
<1>1. \A g \in Gid : /\ group[g].members \subseteq Login
                     /\ group[g].leader = NoLogin \/ group[g].leader \in group[g].members
  <2>1. \A g \in Gid : group[g].members \subseteq Login
    BY DEF RosterInv, TypeOK, Group
  <2>2. ASSUME NEW g \in Gid
        PROVE  group[g].leader = NoLogin \/ group[g].leader \in group[g].members
    <3>1. CASE Live(g)
      BY <3>1 DEF RosterInv, GroupSound
    <3>2. CASE ~Live(g)
      BY <3>2 DEF Live, NoGroup
    <3>3. QED
      BY <3>1, <3>2
  <2>3. QED
    BY <2>1, <2>2
<1>2. \A l \in Login, g \in Gid : playerGroup[l] = g <=> l \in group[g].members
  BY DEF RosterInv, SeatsAgree
<1>3. QED
  BY <1>1, <1>2 DEF Tables, Led, LedIn

(* The party of every login after a step, from the table it leaves.        *)
LEMMA TablesNext ==
    ASSUME RosterInv'
    PROVE  Tables(group', playerGroup') /\ \A l \in Login : Led(l)' = LedIn(group', l)
<1>1. \A g \in Gid : /\ group'[g].members \subseteq Login
                     /\ group'[g].leader = NoLogin \/ group'[g].leader \in group'[g].members
  <2>1. \A g \in Gid : group'[g].members \subseteq Login
    BY DEF RosterInv, TypeOK, Group
  <2>2. ASSUME NEW g \in Gid
        PROVE  group'[g].leader = NoLogin \/ group'[g].leader \in group'[g].members
    <3>1. CASE Live(g)'
      BY <3>1 DEF RosterInv, GroupSound
    <3>2. CASE ~Live(g)'
      BY <3>2 DEF Live, NoGroup
    <3>3. QED
      BY <3>1, <3>2
  <2>3. QED
    BY <2>1, <2>2
<1>2. \A l \in Login, g \in Gid : playerGroup'[l] = g <=> l \in group'[g].members
  BY DEF RosterInv, SeatsAgree
<1>3. QED
  BY <1>1, <1>2 DEF Tables, Led, LedIn

(* A step that changes neither rosters nor leaders keeps every party.      *)
LEMMA PartiesKept ==
    ASSUME \A k \in Gid : /\ group'[k].members = group[k].members
                          /\ group'[k].leader = group[k].leader
    PROVE  Parties' = Parties
<1>1. ASSUME NEW l \in Login
      PROVE  Led(l)' = Led(l)
  <2>1. {h \in Gid : group'[h].leader = l} = {h \in Gid : group[h].leader = l}
    OBVIOUS
  <2>2. {group'[g].members : g \in {h \in Gid : group'[h].leader = l}}
           = {group[g].members : g \in {h \in Gid : group[h].leader = l}}
    OBVIOUS
  <2>3. QED
    BY <2>2 DEF Led
<1>2. QED
  BY <1>1 DEF Parties

(* What every login leads once one group of a sound table is replaced.     *)
LEMMA LedChanged ==
    ASSUME NEW G, NEW seat, Tables(G, seat), NEW g \in Gid, NEW R, NEW G2,
           \A h \in Gid : G2[h] = IF h = g THEN R ELSE G[h],
           R.leader \in Login => seat[R.leader] \in {g, 0},
           NEW k \in Login
    PROVE  LedIn(G2, k) = IF R.leader = k THEN R.members
                          ELSE IF G[g].leader = k THEN {}
                          ELSE LedIn(G, k)
<1>1. k # NoLogin /\ \A h \in Gid : h # 0
  BY LoginAssumption
<1>2. \A h \in Gid : G[h].leader = k => seat[k] = h
  BY <1>1 DEF Tables
<1>3. CASE R.leader = k
  <2>1. \A h \in Gid : G2[h].leader = k => h = g
    BY <1>1, <1>2, <1>3
  <2>2. LedIn(G2, k) = G2[g].members
    BY <1>3, <2>1, LedOne
  <2>3. QED
    BY <1>3, <2>2
<1>4. CASE R.leader # k /\ G[g].leader = k
  <2>1. \A h \in Gid : G2[h].leader # k
    BY <1>2, <1>4
  <2>2. QED
    BY <1>4, <2>1, LedNone
<1>5. CASE R.leader # k /\ G[g].leader # k
  <2>1. {h \in Gid : G2[h].leader = k} = {h \in Gid : G[h].leader = k}
    BY <1>5
  <2>2. {G2[h].members : h \in {n \in Gid : G2[n].leader = k}}
           = {G[h].members : h \in {n \in Gid : G[n].leader = k}}
    BY <1>5, <2>1
  <2>3. QED
    BY <1>5, <2>2 DEF LedIn
<1>6. QED
  BY <1>3, <1>4, <1>5

(* The same when the leader stays, in any table.                           *)
LEMMA LedGrown ==
    ASSUME NEW G, NEW g \in Gid, NEW R, NEW G2,
           \A h \in Gid : G2[h] = IF h = g THEN R ELSE G[h],
           R.leader = G[g].leader,
           \A h \in Gid : G[h].leader = R.leader => h = g,
           NEW k \in Login
    PROVE  LedIn(G2, k) = IF R.leader = k THEN R.members ELSE LedIn(G, k)
<1>1. CASE R.leader = k
  <2>1. \A h \in Gid : G2[h].leader = k => h = g
    BY <1>1
  <2>2. LedIn(G2, k) = G2[g].members
    BY <1>1, <2>1, LedOne
  <2>3. QED
    BY <1>1, <2>2
<1>2. CASE R.leader # k
  <2>1. {h \in Gid : G2[h].leader = k} = {h \in Gid : G[h].leader = k}
    BY <1>2
  <2>2. {G2[h].members : h \in {n \in Gid : G2[n].leader = k}}
           = {G[h].members : h \in {n \in Gid : G[n].leader = k}}
    BY <1>2, <2>1
  <2>3. QED
    BY <1>2, <2>2 DEF LedIn
<1>3. QED
  BY <1>1, <1>2

(* The party of a member, and of what it leads itself.                     *)
LEMMA PartyOf ==
    ASSUME RosterInv, NEW g \in Gid, NEW l \in group[g].members
    PROVE  /\ l \in Login /\ Live(g)
           /\ group[g].leader \in group[g].members
           /\ group[g].leader \in Login
           /\ Led(group[g].leader) = group[g].members
           /\ group[g].leader # l => Led(l) = {}
           /\ \A k \in Login : k # group[g].leader => l \notin Led(k)
           /\ IsFiniteSet(group[g].members)
           /\ Cardinality(group[g].members) \in Nat
<1>1. Tables(group, playerGroup) /\ \A k \in Login : Led(k) = LedIn(group, k)
  BY TablesNow
<1>2. group[g].members \subseteq Login /\ Live(g)
  BY SeatedInLive DEF RosterInv, TypeOK, Group
<1>3. group[g].leader \in group[g].members
  BY <1>2 DEF RosterInv, GroupSound
<1>4. Led(group[g].leader) = group[g].members
  BY <1>1, <1>2, <1>3, LedInTables
<1>5. playerGroup[l] = g
  BY <1>1, <1>2 DEF Tables
<1>6. ASSUME NEW k \in Login, k # group[g].leader
      PROVE  l \notin Led(k)
  <2>1. l \in LedIn(group, k) => group[playerGroup[l]].leader = k
    BY <1>1, LedInTables
  <2>2. QED
    BY <1>1, <1>5, <1>6, <2>1
<1>7. ASSUME group[g].leader # l
      PROVE  Led(l) = {}
  <2>1. \A h \in Gid : group[h].leader # l
    <3>1. ASSUME NEW h \in Gid, group[h].leader = l
          PROVE  FALSE
      <4>1. l # NoLogin /\ l \in Login
        BY <1>2, LoginAssumption
      <4>2. l \in group[h].members
        BY <1>1, <3>1, <4>1 DEF Tables
      <4>3. playerGroup[l] = h
        BY <1>1, <4>1, <4>2 DEF Tables
      <4>4. QED
        BY <1>5, <1>7, <3>1, <4>3
    <3>2. QED
      BY <3>1
  <2>2. QED
    BY <1>1, <1>2, <2>1, LedNone
<1>8. IsFiniteSet(group[g].members) /\ Cardinality(group[g].members) \in Nat
  BY <1>2, LoginAssumption, FS_Subset, FS_CardinalityType
<1>9. QED
  BY <1>2, <1>3, <1>4, <1>6, <1>7, <1>8

(* The sizes Party speaks of are those of Groups.                          *)
LEMMA SameSize == \A S : PartyView!Cardinality(S) = Cardinality(S)
BY DEF PartyView!Cardinality, Cardinality

(* A seat given up in the tables is a seat given up in the parties.        *)
LEMMA Vacates ==
    ASSUME RosterInv, NEW g \in Gid, NEW l \in group[g].members,
           NEW heir \in Heirs(g, l) \cup {NoLogin},
           heir = NoLogin <=> Heirs(g, l) = {},
           NEW G2, \A h \in Gid : G2[h] = IF h = g THEN Shrunk(g, l, heir) ELSE group[h]
    PROVE  \E x \in Login :
              /\ (x = l /\ Cardinality(Led(l)) <= 2) \/ x \in Led(l) \ {l}
              /\ \A k \in Login : LedIn(G2, k) = PartyView!Vacated(Parties, l, x)[k]
<1> DEFINE M == group[g].members
           a == group[g].leader
           R == Shrunk(g, l, heir)
           own == [group[g].personal EXCEPT ![l] = 0]
<1>1. /\ l \in Login /\ Live(g) /\ a \in M /\ a \in Login
      /\ Led(a) = M
      /\ a # l => Led(l) = {}
      /\ \A k \in Login : k # a => l \notin Led(k)
      /\ IsFiniteSet(M) /\ Cardinality(M) \in Nat
  BY PartyOf
<1>2. Tables(group, playerGroup) /\ \A k \in Login : Led(k) = LedIn(group, k)
  BY TablesNow
<1>3. ASSUME NEW k \in Login, NEW x \in Login
      PROVE  PartyView!Vacated(Parties, l, x)[k] =
                IF k = a THEN IF a = l \/ Cardinality(M) <= 2 THEN {} ELSE M \ {l}
                ELSE IF k = x /\ Cardinality(Led(l)) > 2 THEN Led(l) \ {l}
                ELSE Led(k)
  <2>1. PartyView!Vacated(Parties, l, x)[k] =
           IF l \in Led(k) THEN IF k = l \/ Cardinality(Led(k)) <= 2 THEN {}
                                ELSE Led(k) \ {l}
           ELSE IF k = x /\ Cardinality(Led(l)) > 2 THEN Led(l) \ {l}
           ELSE Led(k)
    BY <1>1, SameSize DEF PartyView!Vacated, Parties
  <2> HIDE DEF M, a
  <2>2. CASE k = a
    BY <1>1, <2>1, <2>2 DEF M
  <2>3. CASE k # a
    BY <1>1, <2>1, <2>3
  <2>4. QED
    BY <2>2, <2>3
<1>4. a # l => ~(Cardinality(Led(l)) > 2) /\ Cardinality(Led(l)) <= 2
  BY <1>1, FS_EmptySet
<1>5. CASE Dissolves(g)
  <2>1. R = NoGroup /\ Cardinality(M) <= 2
    BY <1>5 DEF Shrunk, Dissolves
  <2>2. R.leader \notin Login
    BY <2>1, LoginAssumption DEF NoGroup
  <2>3. \A k \in Login : LedIn(G2, k) = IF a = k THEN {} ELSE Led(k)
    <3> SUFFICES ASSUME NEW k \in Login
                 PROVE  LedIn(G2, k) = IF a = k THEN {} ELSE Led(k)
      OBVIOUS
    <3> HIDE DEF R
    <3>1. \A h \in Gid : G2[h] = IF h = g THEN R ELSE group[h]
      BY DEF R
    <3>2. LedIn(G2, k) = IF R.leader = k THEN R.members
                         ELSE IF group[g].leader = k THEN {}
                         ELSE LedIn(group, k)
      BY <1>2, <2>2, <3>1, LedChanged
    <3>3. QED
      BY <1>2, <2>2, <3>2
  <2>4. Cardinality(Led(l)) <= 2
    BY <1>1, <1>4, <2>1
  <2>5. ~(Cardinality(Led(l)) > 2)
    BY <1>1, <1>4, <2>1
  <2>6. \A k \in Login : LedIn(G2, k) = PartyView!Vacated(Parties, l, l)[k]
    <3> HIDE DEF M, a, R
    <3> QED BY <1>1, <1>3, <2>1, <2>3, <2>5
  <2>7. QED
    BY <1>1, <2>4, <2>6
<1>6. CASE ~Dissolves(g)
  <2>1. Cardinality(M) > 2
    BY <1>1, <1>6 DEF Dissolves
  <2>2. R.members = M \ {l} /\ R.leader = heir
    <3>1. R = [group[g] EXCEPT !.members  = @ \ {l},
                               !.online   = @ \ {l},
                               !.personal = own,
                               !.leader   = heir]
      BY <1>6 DEF Shrunk
    <3>2. group[g] \in Group
      BY DEF RosterInv, TypeOK
    <3> HIDE DEF own
    <3>3. QED
      BY <3>1, <3>2 DEF Group
  <2>3. heir \in M \ {l} /\ (a # l => heir = a)
    <3>1. IsFiniteSet(M \ {l}) /\ Cardinality(M \ {l}) = Cardinality(M) - 1
      BY <1>1, FS_RemoveElement
    <3>2. M \ {l} # {}
      BY <1>1, <2>1, <3>1, FS_EmptySet
    <3>3. QED
      BY <1>1, <3>2, LoginAssumption DEF Heirs, Stayers
  <2>4. heir \in Login /\ playerGroup[heir] = g /\ (heir # a => Led(heir) = {})
    <3>1. heir \in group[g].members
      BY <2>3
    <3>2. heir \in Login /\ playerGroup[heir] = g
      BY <1>2, <3>1 DEF Tables
    <3>3. group[g].leader # heir => Led(heir) = {}
      BY <3>1, PartyOf
    <3>4. QED
      BY <3>2, <3>3
  <2>5. \A k \in Login : LedIn(G2, k) = IF heir = k THEN M \ {l}
                                        ELSE IF a = k THEN {} ELSE Led(k)
    <3> SUFFICES ASSUME NEW k \in Login
                 PROVE  LedIn(G2, k) = IF heir = k THEN M \ {l}
                                       ELSE IF a = k THEN {} ELSE Led(k)
      OBVIOUS
    <3> HIDE DEF R
    <3>1. \A h \in Gid : G2[h] = IF h = g THEN R ELSE group[h]
      BY DEF R
    <3>2. R.leader \in Login => playerGroup[R.leader] \in {g, 0}
      BY <2>2, <2>4
    <3>3. LedIn(G2, k) = IF R.leader = k THEN R.members
                         ELSE IF group[g].leader = k THEN {}
                         ELSE LedIn(group, k)
      BY <1>2, <3>1, <3>2, LedChanged
    <3>4. QED
      BY <1>2, <2>2, <3>3
  <2>6. CASE a # l
    <3>1. \A k \in Login : LedIn(G2, k) = PartyView!Vacated(Parties, l, l)[k]
      <4> HIDE DEF M, a, R
      <4> QED BY <1>1, <1>3, <1>4, <2>1, <2>3, <2>5, <2>6
    <3>2. QED
      BY <1>1, <1>4, <2>6, <3>1
  <2>7. CASE a = l
    <3>1. Led(l) = M
      BY <1>1, <2>7
    <3>2. \A k \in Login : LedIn(G2, k) = PartyView!Vacated(Parties, l, heir)[k]
      <4> SUFFICES ASSUME NEW k \in Login
                   PROVE  LedIn(G2, k) = PartyView!Vacated(Parties, l, heir)[k]
        OBVIOUS
      <4>1. PartyView!Vacated(Parties, l, heir)[k] =
                IF k = a THEN IF a = l \/ Cardinality(M) <= 2 THEN {} ELSE M \ {l}
                ELSE IF k = heir /\ Cardinality(Led(l)) > 2 THEN Led(l) \ {l}
                ELSE Led(k)
        BY <1>3, <2>4
      <4> HIDE DEF M, a, R
      <4>2. QED
        BY <2>1, <2>3, <2>5, <2>7, <3>1, <4>1
    <3>3. QED
      BY <2>3, <2>4, <3>1, <3>2
  <2>8. QED
    BY <2>6, <2>7
<1>7. QED
  BY <1>5, <1>6

LEMMA DepartIsDepart ==
    ASSUME RosterInv, RosterInv', NEW g \in Gid, NEW l \in group[g].members, Depart(g, l)
    PROVE  PartyView!Depart(l)
<1>1. PICK heir \in Heirs(g, l) \cup {NoLogin} :
         /\ heir = NoLogin <=> Heirs(g, l) = {}
         /\ group' = [group EXCEPT ![g] = Shrunk(g, l, heir)]
  BY DEF Depart
<1>2. \A h \in Gid : group'[h] = IF h = g THEN Shrunk(g, l, heir) ELSE group[h]
  BY <1>1 DEF RosterInv, TypeOK
<1>3. PICK x \in Login :
         /\ (x = l /\ Cardinality(Led(l)) <= 2) \/ x \in Led(l) \ {l}
         /\ \A k \in Login : LedIn(group', k) = PartyView!Vacated(Parties, l, x)[k]
  <2>1. PICK G2 : G2 = group'
    OBVIOUS
  <2>2. \A h \in Gid : G2[h] = IF h = g THEN Shrunk(g, l, heir) ELSE group[h]
    BY <1>2, <2>1
  <2>3. heir = NoLogin <=> Heirs(g, l) = {}
    BY <1>1
  <2>4. \E x \in Login :
           /\ (x = l /\ Cardinality(Led(l)) <= 2) \/ x \in Led(l) \ {l}
           /\ \A k \in Login : LedIn(G2, k) = PartyView!Vacated(Parties, l, x)[k]
    BY <2>2, <2>3, Vacates
  <2>5. QED
    BY <2>1, <2>4
<1>4. Parties' = PartyView!Vacated(Parties, l, x)
  <2>1. \A k \in Login : Led(k)' = PartyView!Vacated(Parties, l, x)[k]
    BY <1>3, TablesNext
  <2>2. PartyView!Vacated(Parties, l, x) =
           [k \in Login |-> PartyView!Vacated(Parties, l, x)[k]]
    BY DEF PartyView!Vacated
  <2>3. QED
    BY <2>1, <2>2 DEF Parties
<1>5. l \in Login /\ group[g].leader \in Login /\ l \in Led(group[g].leader)
  BY PartyOf
<1>6. Parties[l] = Led(l) /\ Parties[group[g].leader] = Led(group[g].leader)
  BY <1>5 DEF Parties
<1>7. ~PartyView!Unseated(l)
  BY <1>5, <1>6 DEF PartyView!Unseated, Parties
<1>8. CASE x = l /\ Cardinality(Led(l)) <= 2
  <2>1. PartyView!Cardinality(Parties[l]) <= 2
    BY <1>6, <1>8, SameSize
  <2>2. Parties' = PartyView!Vacated(Parties, l, l)
    BY <1>4, <1>8
  <2>3. QED
    BY <1>7, <2>1, <2>2 DEF PartyView!Depart, Parties
<1>9. CASE x \in Led(l) \ {l}
  <2>1. x \in Parties[l] \ {l}
    BY <1>6, <1>9
  <2>2. QED
    BY <1>4, <1>7, <2>1 DEF PartyView!Depart, Parties
<1>10. QED
  BY <1>3, <1>8, <1>9

LEMMA SetLeaderIsPass ==
    ASSUME RosterInv, RosterInv', NEW c \in Conn, NEW t \in Login, SetLeader(c, t)
    PROVE  PartyView!PassLeadership(login[c], t) \/ Parties' = Parties
<1> DEFINE l == login[c]
           g == GroupOf(l)
           R == [group[g] EXCEPT !.leader = t, !.difficulty = group[g].personal[t]]
<1>1. /\ l \in Login /\ g \in Gid /\ l \in group[g].members
      /\ group[g].leader = l /\ t \in group[g].members
  BY LoginType, GroupOfSeat DEF SetLeader, RosterInv
<1>2. group[g] \in Group /\ group \in [Gid -> Group]
  BY <1>1 DEF RosterInv, TypeOK
<1>3. group' = [group EXCEPT ![g] = R]
  BY DEF SetLeader
<1>4. R.members = group[g].members /\ R.leader = t
  BY <1>2 DEF Group
<1>5. Led(l) = group[g].members /\ playerGroup[t] = g
  BY <1>1, PartyOf DEF RosterInv, SeatsAgree
<1>6. Tables(group, playerGroup) /\ \A k \in Login : Led(k) = LedIn(group, k)
  BY TablesNow
<1> HIDE DEF R, g, l
<1>7. \A h \in Gid : group'[h] = IF h = g THEN R ELSE group[h]
  BY <1>1, <1>2, <1>3
<1>8. \A k \in Login : LedIn(group', k) = IF t = k THEN Led(l)
                                          ELSE IF l = k THEN {} ELSE Led(k)
  <2> SUFFICES ASSUME NEW k \in Login
               PROVE  LedIn(group', k) = IF t = k THEN Led(l)
                                         ELSE IF l = k THEN {} ELSE Led(k)
    OBVIOUS
  <2>1. R.leader \in Login => playerGroup[R.leader] \in {g, 0}
    BY <1>4, <1>5
  <2>2. LedIn(group', k) = IF R.leader = k THEN R.members
                           ELSE IF group[g].leader = k THEN {}
                           ELSE LedIn(group, k)
    BY <1>1, <1>6, <1>7, <2>1, LedChanged
  <2>3. QED
    BY <1>1, <1>4, <1>5, <1>6, <2>2
<1>9. \A k \in Login : Led(k)' = IF t = k THEN Led(l)
                                 ELSE IF l = k THEN {} ELSE Led(k)
  BY <1>8, TablesNext
<1>10. CASE t = l
  BY <1>9, <1>10 DEF Parties
<1>11. CASE t # l
  <2>1. t \in Parties[l]
    BY <1>1, <1>5 DEF Parties
  <2>2. Parties' = [Parties EXCEPT ![l] = {}, ![t] = Parties[l]]
    BY <1>1, <1>9, <1>11 DEF Parties
  <2>3. QED
    BY <1>11, <2>1, <2>2 DEF PartyView!PassLeadership, Parties, l
<1>12. QED
  BY <1>10, <1>11

LEMMA InviteIsForm ==
    ASSUME RosterInv, RosterInv', NEW c \in Conn, NEW t \in Login, Invite(c, t)
    PROVE  PartyView!Form(login[c]) \/ Parties' = Parties
<1> DEFINE l == login[c]
           founds == playerGroup[l] = 0
           g == IF founds THEN nextId ELSE playerGroup[l]
           G == IF founds THEN NewGroup(l) ELSE group[g]
<1>1. TypeOK /\ l \in Login /\ g \in Gid
  <2>1. TypeOK /\ l \in Login
    BY LoginType DEF Invite, RosterInv
  <2>2. QED
    BY <2>1, BoundAssumption DEF Invite, TypeOK
<1>2. group' = [group EXCEPT ![g] = G] /\ group \in [Gid -> Group]
  BY <1>1 DEF Invite, TypeOK
<1>3. CASE ~founds
  <2>1. group' = group
    BY <1>1, <1>2, <1>3
  <2>2. QED
    BY <2>1, PartiesKept
<1>4. CASE founds
  <2>1. ~Live(g)
    BY <1>1, <1>4 DEF RosterInv, GroupSound
  <2>2. G.members = {l} /\ G.leader = l
    <3>1. G = NewGroup(l)
      BY <1>4
    <3>2. NewGroup(l).members = {l} /\ NewGroup(l).leader = l
      BY NoGroupType DEF NewGroup, Group
    <3> HIDE DEF G
    <3>3. QED
      BY <3>1, <3>2
  <2>3. group[g].leader = NoLogin
    BY <2>1 DEF Live, NoGroup
  <2>4. playerGroup[l] = 0
    BY <1>4
  <2>5. Tables(group, playerGroup) /\ \A k \in Login : Led(k) = LedIn(group, k)
    BY TablesNow
  <2> HIDE DEF G, g, l
  <2>6. \A h \in Gid : group'[h] = IF h = g THEN G ELSE group[h]
    BY <1>1, <1>2
  <2>7. \A k \in Login : Led(k)' = IF k = l THEN {l} ELSE Led(k)
    <3> SUFFICES ASSUME NEW k \in Login
                 PROVE  LedIn(group', k) = IF k = l THEN {l} ELSE Led(k)
      BY TablesNext
    <3>1. G.leader \in Login => playerGroup[G.leader] \in {g, 0}
      BY <2>2, <2>4
    <3>2. LedIn(group', k) = IF G.leader = k THEN G.members
                             ELSE IF group[g].leader = k THEN {}
                             ELSE LedIn(group, k)
      BY <1>1, <2>5, <2>6, <3>1, LedChanged
    <3>3. QED
      BY <2>2, <2>3, <2>5, <3>2, LoginAssumption
  <2>8. Parties' = [Parties EXCEPT ![l] = {l}]
    BY <1>1, <2>7 DEF Parties
  <2>9. \A k \in Login : l \notin Parties[k]
    <3>1. \A k \in Login : l \in LedIn(group, k) => playerGroup[l] \in Gid
      BY <2>5, LedInTables
    <3>2. QED
      BY <2>4, <2>5, <3>1 DEF Parties
  <2>10. QED
    BY <2>8, <2>9 DEF PartyView!Form, PartyView!Unseated, Parties, l
<1>5. QED
  BY <1>3, <1>4

(* The party of a leader who takes l in, whatever table l comes from.      *)
LEMMA TakenIn ==
    ASSUME RosterInv, NEW g \in Gid, Live(g), NEW l \in Login,
           NEW G1, G1[g] = group[g],
           \A h \in Gid : G1[h].leader = group[g].leader => h = g,
           \A h \in Gid : group'[h] = IF h = g THEN Joined(group[g], l) ELSE G1[h],
           NEW k \in Login
    PROVE  LedIn(group', k) = IF k = group[g].leader THEN LedIn(G1, k) \cup {l}
                              ELSE LedIn(G1, k)
<1> DEFINE J == Joined(group[g], l)
<1>1. J.members = group[g].members \cup {l} /\ J.leader = group[g].leader
  BY JoinedPresence DEF RosterInv
<1>2. LedIn(G1, group[g].leader) = G1[g].members
  BY LedOne
<1>3. LedIn(group', k) = IF J.leader = k THEN J.members ELSE LedIn(G1, k)
  <2> HIDE DEF J
  <2>1. PICK G2 : G2 = group'
    OBVIOUS
  <2>2. \A h \in Gid : G2[h] = IF h = g THEN J ELSE G1[h]
    BY <2>1 DEF J
  <2>3. J.leader = G1[g].leader /\ \A h \in Gid : G1[h].leader = J.leader => h = g
    BY <1>1
  <2>4. LedIn(G2, k) = IF J.leader = k THEN J.members ELSE LedIn(G1, k)
    BY <2>2, <2>3, LedGrown
  <2>5. QED
    BY <2>1, <2>4
<1> HIDE DEF J
<1>4. QED
  BY <1>1, <1>2, <1>3

LEMMA AcceptIsJoin ==
    ASSUME RosterInv, RosterInv', NEW c \in Conn, Accept(c)
    PROVE  \/ Parties' = Parties
           \/ \E k \in Login : PartyView!Join(login[c], k)
<1> DEFINE l == login[c]
           g == pending[l]
           h == GroupOf(l)
           a == group[g].leader
<1>1. /\ TypeOK /\ l \in Login /\ g \in Gid /\ group \in [Gid -> Group]
      /\ g # playerGroup[l] /\ h = playerGroup[l] /\ h # g
  <2>1. TypeOK /\ l \in Login
    BY LoginType DEF Accept, RosterInv
  <2>2. g \in Gid /\ g # playerGroup[l]
    BY <2>1 DEF Accept, RosterInv, TypeOK, InviteSound
  <2>3. QED
    BY <2>1, <2>2, GroupOfSeat DEF TypeOK
<1>2. Tables(group, playerGroup) /\ \A k \in Login : Led(k) = LedIn(group, k)
  BY TablesNow
<1>3. CASE group' = group
  BY <1>3, PartiesKept
<1>4. ASSUME Joinable(g)
      PROVE  /\ Live(g) /\ a \in group[g].members /\ a \in Login
             /\ Led(a) = group[g].members /\ l \notin Led(a) /\ a # l
             /\ Cardinality(Led(a)) < MaxGroupSize
             /\ \A n \in Gid : group[n].leader = a => n = g
  <2>1. Live(g) /\ Cardinality(group[g].members) < MaxGroupSize
    BY <1>4 DEF Joinable
  <2>2. a \in group[g].members
    BY <1>1, <2>1 DEF RosterInv, GroupSound
  <2>3. a \in Login /\ Led(a) = group[g].members
    BY <1>1, <2>2, PartyOf
  <2>4. l \notin group[g].members
    BY <1>1, <1>2 DEF Tables
  <2>5. \A n \in Gid : group[n].leader = a => n = g
    <3>1. playerGroup[a] = g /\ a # NoLogin
      BY <1>1, <1>2, <2>2, <2>3, LoginAssumption DEF Tables
    <3>2. QED
      BY <1>2, <2>3, <3>1 DEF Tables
  <2>6. QED
    BY <2>1, <2>2, <2>3, <2>4, <2>5
<1>5. CASE Joinable(g) /\ h = 0 /\ group' = [group EXCEPT ![g] = Joined(group[g], l)]
  <2>1. \A n \in Gid : group'[n] = IF n = g THEN Joined(group[g], l) ELSE group[n]
    BY <1>1, <1>5
  <2>2. \A k \in Login : Led(k)' = IF k = a THEN Led(k) \cup {l} ELSE Led(k)
    <3> SUFFICES ASSUME NEW k \in Login
                 PROVE  LedIn(group', k) = IF k = a THEN Led(k) \cup {l} ELSE Led(k)
      BY TablesNext
    <3>1. Live(g) /\ \A n \in Gid : group[n].leader = group[g].leader => n = g
      BY <1>4, <1>5
    <3>2. LedIn(group', k) = IF k = group[g].leader THEN LedIn(group, k) \cup {l}
                             ELSE LedIn(group, k)
      <4> HIDE DEF g, l
      <4>1. PICK G1 : G1 = group
        OBVIOUS
      <4>2. /\ G1[g] = group[g]
            /\ \A n \in Gid : G1[n].leader = group[g].leader => n = g
            /\ \A n \in Gid : group'[n] = IF n = g THEN Joined(group[g], l) ELSE G1[n]
        BY <2>1, <3>1, <4>1
      <4>3. LedIn(group', k) = IF k = group[g].leader THEN LedIn(G1, k) \cup {l}
                               ELSE LedIn(G1, k)
        BY <1>1, <3>1, <4>2, TakenIn
      <4>4. QED
        BY <4>1, <4>3
    <3>3. QED
      BY <1>2, <3>2
  <2>3. \A k \in Login : l \notin Led(k)
    <3>1. \A k \in Login : l \in LedIn(group, k) => playerGroup[l] \in Gid
      BY <1>2, LedInTables
    <3>2. QED
      BY <1>1, <1>2, <1>5, <3>1
  <2>4. Led(l) = {}
    <3>1. ASSUME NEW n \in Gid, group[n].leader = l
          PROVE  FALSE
      <4>1. l \in group[n].members
        BY <1>1, <1>2, <3>1, LoginAssumption DEF Tables
      <4>2. playerGroup[l] = n /\ n # 0
        BY <1>1, <1>2, <4>1 DEF Tables
      <4>3. QED
        BY <1>1, <1>5, <4>2
    <3>2. QED
      BY <1>1, <1>2, <3>1, LedNone
  <2> HIDE DEF a, g, h, l
  <2>5. Cardinality(Led(l)) <= 2 /\ ~(Cardinality(Led(l)) > 2)
    BY <2>4, FS_EmptySet
  <2>6. PartyView!Vacated(Parties, l, l) = Parties
    BY <1>1, <2>3, <2>5, SameSize DEF PartyView!Vacated, Parties
  <2>7. Parties' = [PartyView!Vacated(Parties, l, l) EXCEPT ![a] = @ \cup {l}]
    BY <1>4, <1>5, <2>2, <2>6 DEF Parties
  <2>8. /\ a # l /\ Parties[a] # {} /\ l \notin Parties[a]
        /\ PartyView!Cardinality(Parties[a]) < MaxGroupSize
        /\ PartyView!Cardinality(Parties[l]) <= 2
    BY <1>1, <1>4, <1>5, <2>5, SameSize DEF Parties
  <2>9. PartyView!Join(l, a)
    BY <2>7, <2>8 DEF PartyView!Join, Parties
  <2>10. QED
    BY <1>4, <1>5, <2>9 DEF l
<1>6. CASE /\ Joinable(g) /\ h # 0
           /\ \E heir \in Heirs(h, l) \cup {NoLogin} :
                 /\ heir = NoLogin <=> Heirs(h, l) = {}
                 /\ group' = [group EXCEPT ![h] = Shrunk(h, l, heir),
                                           ![g] = Joined(group[g], l)]
  <2>1. h \in Gid /\ l \in group[h].members
    BY <1>1, <1>6, GroupOfSeat
  <2>2. PICK heir \in Heirs(h, l) \cup {NoLogin} :
                 /\ heir = NoLogin <=> Heirs(h, l) = {}
                 /\ group' = [group EXCEPT ![h] = Shrunk(h, l, heir),
                                           ![g] = Joined(group[g], l)]
    BY <1>6
  <2> DEFINE H == Shrunk(h, l, heir)
  <2>3. PICK G1 : G1 = [group EXCEPT ![h] = H]
    OBVIOUS
  <2>4. \A n \in Gid : G1[n] = IF n = h THEN Shrunk(h, l, heir) ELSE group[n]
    BY <1>1, <2>3
  <2>5. PICK x \in Login :
           /\ (x = l /\ Cardinality(Led(l)) <= 2) \/ x \in Led(l) \ {l}
           /\ \A k \in Login : LedIn(G1, k) = PartyView!Vacated(Parties, l, x)[k]
    <3>1. heir = NoLogin <=> Heirs(h, l) = {}
      BY <2>2
    <3> HIDE DEF h, l
    <3>2. QED
      BY <2>1, <2>4, <3>1, Vacates
  <2>6. H.leader \in {NoLogin} \cup group[h].members
    <3>1. H.members \subseteq group[h].members /\ (H # NoGroup => H.leader \in H.members)
      BY <2>1, <2>2, ShrunkRoster
    <3>2. QED
      BY <3>1 DEF NoGroup
  <2>7. G1[g] = group[g] /\ \A n \in Gid : G1[n].leader = a => n = g
    <3>1. G1[g] = group[g]
      BY <1>1, <2>4
    <3>2. H.leader # a
      <4>1. a \notin group[h].members
        BY <1>1, <1>2, <1>4, <1>6, <2>1 DEF Tables
      <4>2. a # NoLogin
        BY <1>4, <1>6, LoginAssumption
      <4>3. QED
        BY <2>6, <4>1, <4>2
    <3>3. \A n \in Gid : G1[n].leader = a => n = g
      BY <1>4, <1>6, <2>4, <3>2
    <3>4. QED
      BY <3>1, <3>3
  <2>8. \A n \in Gid : group'[n] = IF n = g THEN Joined(group[g], l) ELSE G1[n]
    BY <1>1, <2>1, <2>2, <2>3
  <2>9. ASSUME NEW k \in Login
        PROVE  Led(k)' = IF k = a THEN PartyView!Vacated(Parties, l, x)[k] \cup {l}
                         ELSE PartyView!Vacated(Parties, l, x)[k]
    <3>1. Live(g) /\ G1[g] = group[g]
          /\ \A n \in Gid : G1[n].leader = group[g].leader => n = g
      BY <1>4, <1>6, <2>7
    <3>2. LedIn(group', k) = IF k = group[g].leader THEN LedIn(G1, k) \cup {l}
                             ELSE LedIn(G1, k)
      <4> HIDE DEF g, l
      <4> QED BY <1>1, <2>8, <3>1, TakenIn
    <3>3. LedIn(G1, k) = PartyView!Vacated(Parties, l, x)[k]
      BY <2>5
    <3>4. Led(k)' = LedIn(group', k)
      BY TablesNext
    <3>5. QED
      BY <3>2, <3>3, <3>4
  <2> HIDE DEF a, g, h, l, H
  <2>10. PICK V : V = PartyView!Vacated(Parties, l, x)
    OBVIOUS
  <2>11. V = [k \in Login |-> V[k]]
    BY <2>10 DEF PartyView!Vacated
  <2>12. Parties' = [V EXCEPT ![a] = @ \cup {l}]
    <3>1. Parties' = [k \in Login |-> IF k = a THEN V[k] \cup {l} ELSE V[k]]
      BY <2>9, <2>10 DEF Parties
    <3>2. QED
      BY <2>11, <3>1
  <2>13. Parties' = [PartyView!Vacated(Parties, l, x) EXCEPT ![a] = @ \cup {l}]
    BY <2>10, <2>12
  <2>14. /\ a # l /\ Parties[a] # {} /\ l \notin Parties[a] /\ Parties[l] = Led(l)
         /\ PartyView!Cardinality(Parties[a]) < MaxGroupSize
    BY <1>1, <1>4, <1>6, SameSize DEF Parties
  <2>15. CASE x = l /\ Cardinality(Led(l)) <= 2
    <3>1. PartyView!Cardinality(Parties[l]) <= 2
      BY <2>14, <2>15, SameSize
    <3>2. Parties' = [PartyView!Vacated(Parties, l, l) EXCEPT ![a] = @ \cup {l}]
      BY <2>13, <2>15
    <3>3. PartyView!Join(l, a)
      BY <2>14, <3>1, <3>2 DEF PartyView!Join, Parties
    <3>4. QED
      BY <1>4, <1>6, <3>3 DEF l
  <2>16. CASE x \in Led(l) \ {l}
    <3>1. x \in Parties[l] \ {l}
      BY <2>14, <2>16
    <3>2. PartyView!Join(l, a)
      BY <2>13, <2>14, <3>1 DEF PartyView!Join, Parties
    <3>3. QED
      BY <1>4, <1>6, <3>2 DEF l
  <2>17. QED
    BY <2>5, <2>15, <2>16
<1>7. QED
  BY <1>3, <1>5, <1>6 DEF Accept

(* The rosters and leaders of every group are those of before.             *)
SameParties == \A k \in Gid : /\ group'[k].members = group[k].members
                              /\ group'[k].leader = group[k].leader

LEMMA OthersKeep ==
    ASSUME TypeOK, NEW c \in Conn,
           \/ \E l \in Login : LogIn(c, l)
           \/ StartZoneJoin(c) \/ \E z : TransferZone(c, z)
           \/ PlayerSpawned(c) \/ Disconnect(c) \/ Decline(c)
           \/ \E d \in Difficulty : SetMonsterDifficulty(c, d)
           \/ \E mode \in InviteMode : SetInviteMode(c, mode)
           \/ \E flag \in OpenFlag : SetOpenGroup(c, flag)
           \/ ResetInstances(c)
    PROVE  SameParties
<1> DEFINE l == login[c]
           g == GroupOf(l)
<1>0. group \in [Gid -> Group] /\ \A k \in Gid : group[k] \in Group
  BY DEF TypeOK
<1>a. CASE group' = group
  BY <1>a DEF SameParties
<1>b. ASSUME NEW k \in Gid, NEW R, group' = [group EXCEPT ![k] = R],
             R.members = group[k].members, R.leader = group[k].leader
      PROVE  SameParties
  BY <1>0, <1>b DEF SameParties
<1>1. ASSUME NEW z, AssignInstance(c, z), l \in Login
      PROVE  SameParties
  <2> DEFINE R == [group[g] EXCEPT !.token = nextToken]
  <2>1. CASE g # 0 /\ group' = [group EXCEPT ![g] = R]
    <3>1. g \in Gid /\ R.members = group[g].members /\ R.leader = group[g].leader
      BY <1>0, <1>1, <2>1, GroupOfType DEF Group
    <3> HIDE DEF R, g
    <3>2. QED
      BY <2>1, <3>1, <1>b
  <2>2. QED
    BY <1>1, <1>a, <2>1 DEF AssignInstance
<1>2. CASE StartZoneJoin(c) \/ \E z : TransferZone(c, z)
  BY <1>1, <1>2, LoginType DEF StartZoneJoin, TransferZone
<1>3. CASE PlayerSpawned(c) \/ Disconnect(c)
  <2> DEFINE G1 == [group[g] EXCEPT !.online = @ \cup {l}]
             G2 == [group[g] EXCEPT !.online = @ \ {l}]
  <2>1. l \in Login /\ l # NoLogin
    BY <1>3, LoginType DEF PlayerSpawned, Disconnect
  <2>2. \/ group' = group
        \/ g # 0 /\ group' = [group EXCEPT ![g] = G1]
        \/ g # 0 /\ group' = [group EXCEPT ![g] = G2]
    BY <1>3, <2>1 DEF PlayerSpawned, Disconnect
  <2>3. g # 0 => /\ g \in Gid
                 /\ G1.leader = group[g].leader /\ G1.members = group[g].members
                 /\ G2.leader = group[g].leader /\ G2.members = group[g].members
    BY <1>0, <2>1, GroupOfType DEF Group
  <2> HIDE DEF g, G1, G2
  <2>4. QED
    BY <2>2, <2>3, <1>a, <1>b
<1>4. CASE \E d \in Difficulty : SetMonsterDifficulty(c, d)
  <2>1. PICK d \in Difficulty : SetMonsterDifficulty(c, d)
    BY <1>4
  <2> DEFINE own == [group[g].personal EXCEPT ![l] = d]
             all == IF group[g].leader = l THEN d ELSE group[g].difficulty
             R == [group[g] EXCEPT !.personal = own, !.difficulty = all]
  <2>2. g \in Gid /\ group[g] \in Group
    BY <1>0, <2>1, LoginType, GroupOfType DEF SetMonsterDifficulty
  <2>3. group' = [group EXCEPT ![g] = R]
    BY <1>0, <2>1, <2>2 DEF SetMonsterDifficulty
  <2>4. R.members = group[g].members /\ R.leader = group[g].leader
    <3> HIDE DEF own, all
    <3> QED BY <2>2 DEF Group
  <2> HIDE DEF R, g
  <2>5. QED
    BY <2>2, <2>3, <2>4, <1>b
<1>5. CASE \/ \E mode \in InviteMode : SetInviteMode(c, mode)
           \/ \E flag \in OpenFlag : SetOpenGroup(c, flag)
           \/ ResetInstances(c)
  <2>1. \A mode \in InviteMode : SetInviteMode(c, mode) => SameParties
    BY <1>0 DEF SetInviteMode, Group, SameParties
  <2>2. \A flag \in OpenFlag : SetOpenGroup(c, flag) => SameParties
    BY <1>0 DEF SetOpenGroup, Group, SameParties
  <2>3. ResetInstances(c) => SameParties
    BY <1>0 DEF ResetInstances, Group, SameParties
  <2>4. QED
    BY <1>5, <2>1, <2>2, <2>3
<1>6. CASE Decline(c) \/ \E m \in Login : LogIn(c, m)
  BY <1>6, <1>a DEF Decline, LogIn, groupVars
<1>7. QED
  BY <1>2, <1>3, <1>4, <1>5, <1>6

(* Every step of the manager is a step of the parties or none.             *)
LEMMA PartyStep ==
    ASSUME RosterInv, [Next]_vars
    PROVE  PartyView!Next \/ Parties' = Parties
<1>0. TypeOK /\ RosterInv'
  BY RosterStep DEF RosterInv
<1>a. ASSUME SameParties
      PROVE  Parties' = Parties
  BY <1>a, PartiesKept DEF SameParties
<1>b. ASSUME NEW l \in Login, NEW k \in Login,
             \/ PartyView!Form(l) \/ PartyView!Join(l, k)
             \/ PartyView!Depart(l) \/ PartyView!PassLeadership(l, k)
      PROVE  PartyView!Next
  BY <1>b DEF PartyView!Next
<1>1. ASSUME NEW c \in Conn,
             \/ \E l \in Login : LogIn(c, l)
             \/ StartZoneJoin(c) \/ \E z : TransferZone(c, z)
             \/ PlayerSpawned(c) \/ Disconnect(c) \/ Decline(c)
             \/ \E d \in Difficulty : SetMonsterDifficulty(c, d)
             \/ \E mode \in InviteMode : SetInviteMode(c, mode)
             \/ \E flag \in OpenFlag : SetOpenGroup(c, flag)
             \/ ResetInstances(c)
      PROVE  Parties' = Parties
  BY <1>0, <1>1, <1>a, OthersKeep
<1>2. ASSUME NEW c \in Conn, NEW t \in Login, Invite(c, t)
      PROVE  PartyView!Next \/ Parties' = Parties
  <2>1. login[c] \in Login
    BY <1>0, <1>2, LoginType DEF Invite
  <2>2. QED
    BY <1>0, <1>2, <2>1, <1>b, InviteIsForm
<1>3. ASSUME NEW c \in Conn, Accept(c)
      PROVE  PartyView!Next \/ Parties' = Parties
  <2>1. login[c] \in Login
    BY <1>0, <1>3, LoginType DEF Accept
  <2>2. QED
    BY <1>0, <1>3, <2>1, <1>b, AcceptIsJoin
<1>4. ASSUME NEW g \in Gid, NEW l \in group[g].members, Depart(g, l)
      PROVE  PartyView!Next
  <2>1. l \in Login
    BY PartyOf
  <2>2. QED
    BY <1>0, <1>4, <2>1, <1>b, DepartIsDepart
<1>5. ASSUME NEW c \in Conn, Leave(c)
      PROVE  PartyView!Next
  BY <1>0, <1>5, <1>4, LoginType, GroupOfSeat DEF Leave
<1>6. ASSUME NEW c \in Conn, NEW t \in Login, Kick(c, t)
      PROVE  PartyView!Next
  BY <1>0, <1>6, <1>4, LoginType, GroupOfSeat DEF Kick
<1>7. ASSUME NEW c \in Conn, NEW t \in Login, SetLeader(c, t)
      PROVE  PartyView!Next \/ Parties' = Parties
  <2>1. login[c] \in Login
    BY <1>0, <1>7, LoginType DEF SetLeader
  <2>2. QED
    BY <1>0, <1>7, <2>1, <1>b, SetLeaderIsPass
<1>8. ASSUME NEW c \in Conn, NEW t \in Login, GotoMember(c, t)
      PROVE  Parties' = Parties
  BY <1>8, <1>1 DEF GotoMember
<1>9. CASE UNCHANGED vars
  BY <1>9, <1>a DEF vars, SameParties
<1>10. QED
  BY <1>1, <1>2, <1>3, <1>5, <1>6, <1>7, <1>8, <1>9 DEF Next

(* The group manager, with its two tables, its stale invitations and its   *)
(* greyed-out members, implements parties: every handler forms, joins,     *)
(* leaves or re-leads one party, or touches none (groups.py).              *)
THEOREM PartyImplemented == Spec => ImplementsParty
<1>1. Init => PartyView!Init
  <2>1. ASSUME Init
        PROVE  \A l \in Login : Led(l) = {}
    BY <2>1, LoginAssumption DEF Init, Led, NoGroup
  <2>2. QED
    BY <2>1 DEF PartyView!Init
<1>2. RosterInv /\ [Next]_vars => [PartyView!Next]_([l \in Login |-> Led(l)])
  BY PartyStep DEF Parties
<1>3. QED
  BY <1>1, <1>2, RosterAlways, PTL DEF Spec, ImplementsParty, PartyView!Spec
=============================================================================
