------------------------------- MODULE Groups -------------------------------
(***************************************************************************)
(* The group manager of the game server (managers/groups.py) together with *)
(* the connection lifecycle that drives it (net/game_server.py).           *)
(*                                                                         *)
(* Every handler of the server runs to completion on one asyncio loop, so  *)
(* one handler is one action.  Two actors make the interleavings: the      *)
(* clients, whose requests arrive in any order and in any state of their   *)
(* connection, and the network, which drops a connection at any point.     *)
(*                                                                         *)
(* Abstractions.  A player is its login: the character ids of the wire are *)
(* resolved to logins.  A roster is a set: the one place where the code    *)
(* uses its order, the choice of the heir of a leader who left, is a       *)
(* choice among the members the code may find first.                       *)
(*                                                                         *)
(* An operator named Op_Slip is Op with a mistake in it that the checks    *)
(* must find; no other definition uses it.                                 *)
(***************************************************************************)
EXTENDS Integers, FiniteSets

CONSTANTS
    Login,          \* the accounts that play
    Conn,           \* connection ids, in the order the server accepts them
    PublicZone,     \* zones where everyone shares instance 0
    PrivateZone,    \* dungeon levels, one copy per group or per solo player
    StartZone,      \* the zone a character starts in
    Difficulty,     \* the monster difficulties a client may ask for
    InviteMode,     \* the invite modes a client may ask for
    OpenFlag,       \* the open-group flags a client may ask for
    MaxGroupSize,   \* MAX_GROUP_SIZE
    MaxGid,         \* bound: groups ever created
    MaxToken,       \* bound: instance tokens ever minted
    OneConnPerLogin,\* environment: a login never has two connections open
    NoLogin,        \* no login: before the handshake, and after the close
    NoZone          \* the zone of a connection that has not entered the world

ASSUME ConnAssumption == Conn \subseteq Nat \ {0}
ASSUME BoundAssumption == MaxGid \in Nat /\ MaxToken \in Nat
ASSUME SizeAssumption == MaxGroupSize \in Nat \ {0, 1}
ASSUME LoginAssumption == IsFiniteSet(Login) /\ NoLogin \notin Login
ASSUME ZoneAssumption ==
    /\ PublicZone \cap PrivateZone = {}
    /\ StartZone \in PublicZone
    /\ NoZone \notin PublicZone \cup PrivateZone
ASSUME SettingAssumption ==
    /\ Difficulty \subseteq Nat
    /\ InviteMode \subseteq Nat
    /\ OpenFlag \subseteq BOOLEAN
    /\ OneConnPerLogin \in BOOLEAN

VARIABLES
    accepted,      \* the connections accepted so far
    login,         \* conn.login_name, NoLogin when the connection is not usable
    spawned,       \* conn.is_spawned
    zone,          \* conn.current_zone_name
    inst,          \* conn.instance_id, 0 is the public instance
    group,         \* _groups, NoGroup where the dict has no entry
    playerGroup,   \* _player_groups, 0 where the dict has no entry
    pending,       \* _pending_invites, 0 where the dict has no entry
    nextId,        \* _next_id
    nextToken      \* GameServer.next_instance_id

connVars  == <<accepted, login, spawned, zone, inst>>
groupVars == <<group, playerGroup, pending, nextId>>
vars      == <<accepted, login, spawned, zone, inst,
               group, playerGroup, pending, nextId, nextToken>>

Zone == PublicZone \cup PrivateZone
Gid  == 1..MaxGid

-----------------------------------------------------------------------------
(* State *)

Group == [leader     : Login \cup {NoLogin},
          members    : SUBSET Login,
          online     : SUBSET Login,          \* the members with is_online set
          personal   : [Login -> 0..3],       \* personal_difficulty
          difficulty : 0..3,                  \* monster_difficulty
          invite     : Nat,                   \* invite_mode
          open       : BOOLEAN,               \* is_open
          token      : Nat]                   \* instance_token, 0: not minted

NoGroup == [leader |-> NoLogin, members |-> {}, online |-> {},
            personal |-> [l \in Login |-> 0], difficulty |-> 0,
            invite |-> 3, open |-> FALSE, token |-> 0]

(* A group as create() makes it: its founder alone, leading. *)
NewGroup(l) == [NoGroup EXCEPT !.leader = l, !.members = {l}, !.online = {l}]

Live(g) == group[g] # NoGroup

(* The group of a login, 0 when there is none (_group_of). *)
GroupOf(l) ==
    IF playerGroup[l] = 0 THEN 0
    ELSE IF Live(playerGroup[l]) THEN playerGroup[l] ELSE 0

(* The connections a login has open, and the one the server resolves the   *)
(* login to: the first in the order of acceptance; 0 when there is none.   *)
ConnsOf(l) == {c \in accepted : login[c] = l}

ConnFor(l) ==
    IF ConnsOf(l) = {} THEN 0
    ELSE CHOOSE c \in ConnsOf(l) : \A d \in ConnsOf(l) : c <= d

Init ==
    /\ accepted    = {}
    /\ login       = [c \in Conn |-> NoLogin]
    /\ spawned     = [c \in Conn |-> FALSE]
    /\ zone        = [c \in Conn |-> NoZone]
    /\ inst        = [c \in Conn |-> 0]
    /\ group       = [g \in Gid |-> NoGroup]
    /\ playerGroup = [l \in Login |-> 0]
    /\ pending     = [l \in Login |-> 0]
    /\ nextId      = 1
    /\ nextToken   = 1

-----------------------------------------------------------------------------
(* Connection lifecycle *)

(* A connection is accepted and its login is known, from the queue bridge  *)
(* or from the one-time key.  The server never looks for another           *)
(* connection of the same login.                                           *)
LogIn(c, l) ==
    /\ c \notin accepted
    /\ \A d \in Conn : d < c => d \in accepted
    /\ OneConnPerLogin => ConnsOf(l) = {}
    /\ accepted' = accepted \cup {c}
    /\ login' = [login EXCEPT ![c] = l]
    /\ UNCHANGED <<spawned, zone, inst, groupVars, nextToken>>

(* The copy of the zone z a connection is keyed to when it enters z, and   *)
(* the token its group mints when it has none yet (_assign_instance_id,    *)
(* _group_instance_token, instance_token_for, allocate_instance_id).       *)
AssignInstance(c, z) ==
    LET g == GroupOf(login[c]) IN
    \/ /\ z \in PublicZone
       /\ inst' = [inst EXCEPT ![c] = 0]
       /\ UNCHANGED <<group, nextToken>>
    \/ /\ z \in PrivateZone
       /\ g # 0
       /\ group[g].token # 0
       /\ inst' = [inst EXCEPT ![c] = group[g].token]
       /\ UNCHANGED <<group, nextToken>>
    \/ /\ z \in PrivateZone
       /\ g # 0
       /\ group[g].token = 0
       /\ nextToken <= MaxToken
       /\ group' = [group EXCEPT ![g].token = nextToken]
       /\ inst' = [inst EXCEPT ![c] = nextToken]
       /\ nextToken' = nextToken + 1
    \/ /\ z \in PrivateZone
       /\ g = 0
       /\ nextToken <= MaxToken
       /\ inst' = [inst EXCEPT ![c] = nextToken]
       /\ nextToken' = nextToken + 1
       /\ UNCHANGED group

(* CharacterPlay from the character screen: the start zone is entered.     *)
StartZoneJoin(c) ==
    /\ login[c] # NoLogin
    /\ ~spawned[c]
    /\ zone' = [zone EXCEPT ![c] = StartZone]
    /\ AssignInstance(c, StartZone)
    /\ UNCHANGED <<accepted, login, spawned, playerGroup, pending, nextId>>

(* A transfer to another zone: portal, checkpoint, respawn, chat command.  *)
(* A spawned player already in z is repositioned in place, which changes   *)
(* nothing here.  The client loads, and joins later with PlayerSpawned.    *)
TransferZone(c, z) ==
    /\ login[c] # NoLogin
    /\ zone[c] # NoZone
    /\ ~(spawned[c] /\ zone[c] = z)
    /\ spawned' = [spawned EXCEPT ![c] = FALSE]
    /\ zone' = [zone EXCEPT ![c] = z]
    /\ AssignInstance(c, z)
    /\ UNCHANGED <<accepted, login, playerGroup, pending, nextId>>

(* The zone-join tail: the avatar is spawned and the group is told.        *)
PlayerSpawned(c) ==
    LET l == login[c]
        g == IF l = NoLogin THEN 0 ELSE GroupOf(l)
    IN  /\ l # NoLogin
        /\ zone[c] # NoZone
        /\ ~spawned[c]
        /\ spawned' = [spawned EXCEPT ![c] = TRUE]
        /\ IF g # 0 /\ l \in group[g].members
           THEN group' = [group EXCEPT ![g].online = @ \cup {l}]
           ELSE UNCHANGED group
        /\ UNCHANGED <<accepted, login, zone, inst,
                       playerGroup, pending, nextId, nextToken>>

(* The connection is lost: the member keeps its seat and is greyed out.    *)
Disconnect(c) ==
    LET l == login[c]
        g == IF l = NoLogin THEN 0 ELSE GroupOf(l)
    IN  /\ l # NoLogin
        /\ login' = [login EXCEPT ![c] = NoLogin]
        /\ spawned' = [spawned EXCEPT ![c] = FALSE]
        /\ zone' = [zone EXCEPT ![c] = NoZone]
        /\ inst' = [inst EXCEPT ![c] = 0]
        /\ pending' = [pending EXCEPT ![l] = 0]
        /\ IF g # 0 /\ l \in group[g].members
           THEN group' = [group EXCEPT ![g].online = @ \ {l}]
           ELSE UNCHANGED group
        /\ UNCHANGED <<accepted, playerGroup, nextId, nextToken>>

-----------------------------------------------------------------------------
(* Roster changes *)

(* The tail every departure shares (_remove_member, _after_roster_shrink): *)
(* with at most one member left the group goes and every seat with it,     *)
(* otherwise the leadership passes on if it was the leader who left.       *)
Dissolves_WhenEmpty(g) == Cardinality(group[g].members) <= 1

Dissolves(g) == Cardinality(group[g].members) <= 2

Unseated_NotTheLast(g, l) == {l}

Unseated(g, l) == IF Dissolves(g) THEN group[g].members \cup {l} ELSE {l}

Stayers(g, l) == group[g].members \ {l}

Heirs_FirstInRoster(g, l) ==
    IF group[g].leader # l THEN {group[g].leader} ELSE Stayers(g, l)

Heirs(g, l) ==
    IF group[g].leader # l THEN {group[g].leader}
    ELSE IF Stayers(g, l) \cap group[g].online # {}
         THEN Stayers(g, l) \cap group[g].online
         ELSE Stayers(g, l)

Shrunk(g, l, heir) ==
    IF Dissolves(g) THEN NoGroup
    ELSE [group[g] EXCEPT !.members  = @ \ {l},
                          !.online   = @ \ {l},
                          !.personal = [@ EXCEPT ![l] = 0],
                          !.leader   = heir]

(* The leader l of G may offer t a seat: room is left and t is solo.       *)
Invitable_Seated(G, l, t) ==
    /\ G.leader = l
    /\ Cardinality(G.members) < MaxGroupSize

Invitable(G, l, t) ==
    /\ G.leader = l
    /\ Cardinality(G.members) < MaxGroupSize
    /\ playerGroup[t] = 0

(* Leader invites t; an inviter without a group founds one first, and      *)
(* keeps it whatever becomes of the invitation.                            *)
Invite(c, t) ==
    LET l      == login[c]
        founds == playerGroup[l] = 0
        g      == IF founds THEN nextId ELSE playerGroup[l]
        G      == IF founds THEN NewGroup(l) ELSE group[g]
    IN  /\ l # NoLogin
        /\ t # l
        /\ ConnFor(t) # 0
        /\ founds => nextId <= MaxGid
        /\ ~founds => Live(g)
        /\ group' = [group EXCEPT ![g] = G]
        /\ playerGroup' = [playerGroup EXCEPT ![l] = g]
        /\ nextId' = IF founds THEN nextId + 1 ELSE nextId
        /\ pending' = IF Invitable(G, l, t) THEN [pending EXCEPT ![t] = g] ELSE pending
        /\ UNCHANGED <<connVars, nextToken>>

Joined_Greyed(G, l) == [G EXCEPT !.members  = @ \cup {l},
                                 !.personal = [@ EXCEPT ![l] = G.difficulty]]

(* The seat a member takes: online, with the group's difficulty as its own *)
Joined(G, l) == [G EXCEPT !.members  = @ \cup {l},
                          !.online   = @ \cup {l},
                          !.personal = [@ EXCEPT ![l] = G.difficulty]]

(* The group of an invitation still exists and still has a seat free.      *)
Joinable_Unchecked(g) == Live(g)

Joinable(g) == Live(g) /\ Cardinality(group[g].members) < MaxGroupSize

(* The pending invitation is spent whether or not it can be honoured; a    *)
(* player who founded a group meanwhile leaves it first.                   *)
Accept(c) ==
    LET l == login[c]
        g == pending[l]
        h == GroupOf(l)
    IN  /\ l # NoLogin
        /\ g # 0
        /\ \/ /\ ~Joinable(g)
              /\ pending' = [pending EXCEPT ![l] = 0]
              /\ UNCHANGED <<group, playerGroup>>
           \/ /\ Joinable(g)
              /\ h = 0
              /\ group' = [group EXCEPT ![g] = Joined(group[g], l)]
              /\ playerGroup' = [playerGroup EXCEPT ![l] = g]
              /\ pending' = [pending EXCEPT ![l] = 0]
           \/ /\ Joinable(g)
              /\ h # 0
              /\ \E heir \in Heirs(h, l) \cup {NoLogin} :
                    /\ heir = NoLogin <=> Heirs(h, l) = {}
                    /\ group' = [group EXCEPT ![h] = Shrunk(h, l, heir),
                                              ![g] = Joined(group[g], l)]
              /\ playerGroup' =
                    [m \in Login |-> IF m = l THEN g
                                     ELSE IF m \in Unseated(h, l) THEN 0
                                     ELSE playerGroup[m]]
              /\ pending' =
                    [m \in Login |-> IF m \in Unseated(h, l) THEN 0
                                     ELSE pending[m]]
        /\ UNCHANGED <<connVars, nextId, nextToken>>

Decline(c) ==
    LET l == login[c] IN
    /\ l # NoLogin
    /\ pending[l] # 0
    /\ pending' = [pending EXCEPT ![l] = 0]
    /\ UNCHANGED <<connVars, group, playerGroup, nextId, nextToken>>

(* l gives up its seat in g: by leaving, or by being kicked.               *)
Depart(g, l) ==
    /\ \E heir \in Heirs(g, l) \cup {NoLogin} :
          /\ heir = NoLogin <=> Heirs(g, l) = {}
          /\ group' = [group EXCEPT ![g] = Shrunk(g, l, heir)]
    /\ playerGroup' = [m \in Login |-> IF m \in Unseated(g, l) THEN 0
                                       ELSE playerGroup[m]]
    /\ pending' = [m \in Login |-> IF m \in Unseated(g, l) THEN 0
                                   ELSE pending[m]]
    /\ UNCHANGED <<connVars, nextId, nextToken>>

Leave(c) ==
    /\ login[c] # NoLogin
    /\ GroupOf(login[c]) # 0
    /\ Depart(GroupOf(login[c]), login[c])

(* Kicking by name needs the target connected, kicking by character id     *)
(* also reaches the seat of a member who is away: together, any member.    *)
Kick(c, t) ==
    LET l == login[c]
        g == GroupOf(l)
    IN  /\ l # NoLogin
        /\ g # 0
        /\ group[g].leader = l
        /\ t \in group[g].members \ {l}
        /\ Depart(g, t)

SetLeader(c, t) ==
    LET l == login[c]
        g == GroupOf(l)
    IN  /\ l # NoLogin
        /\ ConnFor(t) # 0
        /\ g # 0
        /\ group[g].leader = l
        /\ t \in group[g].members
        /\ group' = [group EXCEPT ![g].leader = t,
                                  ![g].difficulty = group[g].personal[t]]
        /\ UNCHANGED <<connVars, playerGroup, pending, nextId, nextToken>>

-----------------------------------------------------------------------------
(* Settings and dungeon copies *)

SetMonsterDifficulty(c, d) ==
    LET l == login[c]
        g == GroupOf(l)
    IN  /\ l # NoLogin
        /\ g # 0
        /\ d < 4
        /\ l \in group[g].members
        /\ group' = [group EXCEPT
                        ![g].personal = [@ EXCEPT ![l] = d],
                        ![g].difficulty = IF group[g].leader = l THEN d ELSE @]
        /\ UNCHANGED <<connVars, playerGroup, pending, nextId, nextToken>>

(* Any member may change these two: the code asks only for a group.        *)
SetInviteMode(c, mode) ==
    /\ login[c] # NoLogin
    /\ GroupOf(login[c]) # 0
    /\ group' = [group EXCEPT ![GroupOf(login[c])].invite = mode]
    /\ UNCHANGED <<connVars, playerGroup, pending, nextId, nextToken>>

SetOpenGroup(c, flag) ==
    /\ login[c] # NoLogin
    /\ GroupOf(login[c]) # 0
    /\ group' = [group EXCEPT ![GroupOf(login[c])].open = flag]
    /\ UNCHANGED <<connVars, playerGroup, pending, nextId, nextToken>>

ResetInstances_Peek(c) ==
    LET l == login[c]
        g == GroupOf(l)
    IN  /\ l # NoLogin
        /\ g # 0
        /\ group[g].leader = l
        /\ group' = [group EXCEPT ![g].token = nextToken]
        /\ UNCHANGED <<connVars, playerGroup, pending, nextId, nextToken>>

(* The leader makes the NEXT dungeon entry land in a fresh copy.           *)
ResetInstances(c) ==
    LET l == login[c]
        g == GroupOf(l)
    IN  /\ l # NoLogin
        /\ g # 0
        /\ group[g].leader = l
        /\ nextToken <= MaxToken
        /\ group' = [group EXCEPT ![g].token = nextToken]
        /\ nextToken' = nextToken + 1
        /\ UNCHANGED <<connVars, playerGroup, pending, nextId>>

(* "Go To" a member of the roster: a transfer to the zone it stands in.    *)
GotoMember(c, t) ==
    /\ login[c] # NoLogin
    /\ GroupOf(login[c]) # 0
    /\ t \in group[GroupOf(login[c])].members
    /\ ConnFor(t) # 0
    /\ spawned[ConnFor(t)]
    /\ ConnFor(t) # c
    /\ TransferZone(c, zone[ConnFor(t)])

-----------------------------------------------------------------------------
Next ==
    \/ \E c \in Conn, l \in Login : LogIn(c, l)
    \/ \E c \in Conn : StartZoneJoin(c)
    \/ \E c \in Conn, z \in Zone : TransferZone(c, z)
    \/ \E c \in Conn : PlayerSpawned(c)
    \/ \E c \in Conn : Disconnect(c)
    \/ \E c \in Conn, t \in Login : Invite(c, t)
    \/ \E c \in Conn : Accept(c)
    \/ \E c \in Conn : Decline(c)
    \/ \E c \in Conn : Leave(c)
    \/ \E c \in Conn, t \in Login : Kick(c, t)
    \/ \E c \in Conn, t \in Login : SetLeader(c, t)
    \/ \E c \in Conn, d \in Difficulty : SetMonsterDifficulty(c, d)
    \/ \E c \in Conn, mode \in InviteMode : SetInviteMode(c, mode)
    \/ \E c \in Conn, flag \in OpenFlag : SetOpenGroup(c, flag)
    \/ \E c \in Conn : ResetInstances(c)
    \/ \E c \in Conn, t \in Login : GotoMember(c, t)

Spec == Init /\ [][Next]_vars
-----------------------------------------------------------------------------
(* Correctness *)

(* Every variable keeps the type the code gives it.                        *)
TypeOK ==
    /\ accepted \subseteq Conn
    /\ login \in [Conn -> Login \cup {NoLogin}]
    /\ spawned \in [Conn -> BOOLEAN]
    /\ zone \in [Conn -> Zone \cup {NoZone}]
    /\ inst \in [Conn -> Nat]
    /\ group \in [Gid -> Group]
    /\ playerGroup \in [Login -> Gid \cup {0}]
    /\ pending \in [Login -> Gid \cup {0}]
    /\ nextId \in 1..(MaxGid + 1)
    /\ nextToken \in Nat \ {0}

(* The two tables the manager keeps, the roster of each group and the      *)
(* group of each login, never disagree, whatever mix of leaves, kicks,     *)
(* dissolutions and superseding accepts went before (_remove_member and    *)
(* accept update them separately).                                         *)
SeatsAgree ==
    \A l \in Login, g \in Gid : playerGroup[l] = g <=> l \in group[g].members

(* A group in the table is led by one of its members, counts as online     *)
(* only members, and is never over MAX_GROUP_SIZE: accept checks the size  *)
(* long after the invitation was sent, when others may have joined.        *)
GroupSound ==
    \A g \in Gid : Live(g) =>
        /\ g < nextId
        /\ group[g].leader \in group[g].members
        /\ group[g].online \subseteq group[g].members
        /\ Cardinality(group[g].members) <= MaxGroupSize

(* An invitation that is still pending is to a group that exists or once   *)
(* existed, and never to the group the invitee already sits in.            *)
InviteSound ==
    \A l \in Login : pending[l] # 0 =>
        /\ pending[l] < nextId
        /\ pending[l] # playerGroup[l]

(* Two groups never share a dungeon copy: a token belongs to one group,    *)
(* and no token in use, of a group or of a connection, is still unminted.  *)
TokenSound ==
    /\ \A g, h \in Gid :
          g # h /\ group[g].token # 0 => group[g].token # group[h].token
    /\ \A g \in Gid : group[g].token < nextToken
    /\ \A c \in Conn : inst[c] < nextToken

(* A member is greyed out exactly while away: a member shown online has a  *)
(* connection, and one whose avatar is in the world is shown online        *)
(* (on_disconnect, on_player_spawned, accept).                             *)
PresenceAgrees ==
    /\ \A g \in Gid : \A l \in group[g].online : ConnFor(l) # 0
    /\ \A c \in Conn, g \in Gid :
          spawned[c] /\ login[c] \in group[g].members
             => login[c] \in group[g].online

(* A player enters a copy of a dungeon that somebody else is keyed to, or  *)
(* that a group owns, only as a member of the group that owns it: solo     *)
(* copies are never shared (the policy of _assign_instance_id).            *)
PrivateCopyEntry ==
    [][\A c \in Conn : inst'[c] # inst[c] /\ inst'[c] # 0 =>
          \/ \E g \in Gid : /\ login'[c] \in group'[g].members
                            /\ group'[g].token = inst'[c]
          \/ /\ \A d \in Conn \ {c} : inst'[d] # inst'[c]
             /\ \A g \in Gid : group'[g].token # inst'[c]]_vars

(* Leadership is handed to a member who is away only when no other member  *)
(* is there to take it; a leader never names one without a connection.     *)
HeirPresent ==
    [][\A g \in Gid :
          LET heir == group'[g].leader IN
          Live(g) /\ Live(g)' /\ heir # group[g].leader =>
             \/ heir \in group'[g].online
             \/ ConnFor(heir) # 0
             \/ group'[g].online = {}]_vars

-----------------------------------------------------------------------------
(* The abstract party a login leads                                        *)

Led(l) == UNION {group[g].members : g \in {h \in Gid : group[h].leader = l}}

PartyView == INSTANCE Party WITH party <- [l \in Login |-> Led(l)]

(* Behind its tables and its stale invitations the manager implements      *)
(* parties: every step forms, joins, leaves or re-leads one, or none.      *)
ImplementsParty == PartyView!Spec
=============================================================================
