------------------------------- MODULE World -------------------------------
(***************************************************************************)
(* The live copies of the zones (managers/world_instance.py), the avatars  *)
(* the players see of one another (net/spawn.py) and the entity ids both   *)
(* are made of, driven by the zone transfers of net/game_server.py.        *)
(*                                                                         *)
(* A copy is keyed by zone and instance.  It is populated by the first     *)
(* player who enters it, sent whole to every player who enters, and torn   *)
(* down when the last one leaves.  All of it happens inside handlers that  *)
(* run to completion on one asyncio loop: one handler, one action.         *)
(*                                                                         *)
(* Abstractions.  Who is grouped is fixed: Party shares one token, and     *)
(* everyone else is solo (module Groups has the life of a group).  An      *)
(* avatar, a monster and a remote player object take one entity id each    *)
(* where the code also numbers their components, and only monsters         *)
(* populate a copy.                                                        *)
(*                                                                         *)
(* An operator named Op_Slip is Op with a mistake in it that the checks    *)
(* must find; no other definition uses it.                                 *)
(***************************************************************************)
EXTENDS Integers, FiniteSets

CONSTANTS
    Login,          \* the accounts that play
    Party,          \* the logins that are grouped together
    Conn,           \* connection ids, in the order the server accepts them
    PublicZone,     \* zones where everyone shares instance 0
    PrivateZone,    \* dungeon levels
    StartZone,      \* the zone a character starts in
    GcOf,           \* zone -> its world group, one for all levels of a dungeon
    Mobs,           \* bound: monsters a level is populated with
    IdSpan,         \* distance between the id bases of two connections
    MaxToken,       \* bound: instance tokens ever minted
    MaxGen,         \* bound: copies ever created
    MaxEid,         \* bound: ids the debug spawn may reach
    NoLogin,        \* no login: before the handshake, and after the close
    NoZone          \* the zone of a connection that has not entered the world

ASSUME ConnAssumption == Conn \subseteq Nat \ {0} /\ IsFiniteSet(Conn)
ASSUME PartyAssumption == Party \subseteq Login /\ NoLogin \notin Login
ASSUME ZoneAssumption ==
    /\ PublicZone \cap PrivateZone = {}
    /\ StartZone \in PublicZone
    /\ NoZone \notin PublicZone \cup PrivateZone
ASSUME BoundAssumption ==
    /\ {Mobs, MaxToken, MaxGen, MaxEid} \subseteq Nat
    /\ IdSpan \in Nat \ {0}

VARIABLES
    accepted,      \* the connections accepted so far
    login,         \* conn.login_name, NoLogin when the connection is not usable
    spawned,       \* conn.is_spawned
    zone,          \* conn.current_zone_name, which decides current_zone_gc_type
    inst,          \* conn.instance_id, 0 is the public instance
    shown,         \* client: the entities of the copy it was sent
    token,         \* the token of the party, 0 when none is minted
    nextToken,     \* GameServer.next_instance_id
    nextEid,       \* GameServer.next_entity_id
    copies,        \* WorldInstanceRegistry._instances: live key -> copy
    nextGen,       \* numbers the copies ever created
    ticks,         \* copy number -> its tick tasks that are not cancelled
    avatar,        \* spawned_avatar_ids, 0 where the dict has no entry
    remote         \* remote_avatar_ids and remote_player_ids of viewer, mover

connVars  == <<accepted, login, spawned, zone, inst, shown>>
idVars    == <<token, nextToken, nextEid>>
copyVars  == <<copies, nextGen, ticks>>
viewVars  == <<avatar, remote>>
vars == <<accepted, login, spawned, zone, inst, shown, token, nextToken,
          nextEid, copies, nextGen, ticks, avatar, remote>>

Zone == PublicZone \cup PrivateZone
Gen  == 1..MaxGen

-----------------------------------------------------------------------------
(* State *)

Copy == [gen : Gen, ids : SUBSET Nat]      \* ZoneInstance: entity_ids

Key(c)  == <<zone[c], inst[c]>>            \* key_for
Keys    == Zone \X (0..MaxToken)

(* What a viewer keeps of a mover, NotSeen where the dicts have no entry.  *)
Sight   == [avatar : Nat, player : Nat]
NotSeen == [avatar |-> 0, player |-> 0]

InWorld(c) == login[c] # NoLogin /\ spawned[c]

(* The scope of every send between players: the world group of the zone    *)
(* and the instance.                                                       *)
SameScope(c, d) == GcOf[zone[c]] = GcOf[zone[d]] /\ inst[c] = inst[d]

(* The other players in scope of c, and those of them that play l.         *)
Peers(c) == {d \in Conn \ {c} : InWorld(d) /\ SameScope(d, c)}

PeerOf(c, l) == {d \in Peers(c) : login[d] = l}

Init ==
    /\ accepted  = {}
    /\ login     = [c \in Conn |-> NoLogin]
    /\ spawned   = [c \in Conn |-> FALSE]
    /\ zone      = [c \in Conn |-> NoZone]
    /\ inst      = [c \in Conn |-> 0]
    /\ shown     = [c \in Conn |-> {}]
    /\ token     = 0
    /\ nextToken = 1
    /\ nextEid   = 10
    /\ copies    = [k \in {} |-> {}]
    /\ nextGen   = 1
    /\ ticks     = [g \in Gen |-> 0]
    /\ avatar    = [l \in Login |-> 0]
    /\ remote    = [v \in Login |-> [m \in Login |-> NotSeen]]

-----------------------------------------------------------------------------
(* Entering and leaving *)

(* A connection is accepted and its login known; one client per account.   *)
LogIn(c, l) ==
    /\ c \notin accepted
    /\ \A d \in Conn : d < c => d \in accepted
    /\ \A d \in accepted : login[d] # l
    /\ accepted' = accepted \cup {c}
    /\ login' = [login EXCEPT ![c] = l]
    /\ UNCHANGED <<spawned, zone, inst, shown, idVars, copyVars, viewVars>>

(* The copy of z the connection will enter (_assign_instance_id).          *)
AssignInstance(c, z) ==
    \/ /\ z \in PublicZone
       /\ inst' = [inst EXCEPT ![c] = 0]
       /\ UNCHANGED <<token, nextToken>>
    \/ /\ z \in PrivateZone
       /\ login[c] \in Party
       /\ token # 0
       /\ inst' = [inst EXCEPT ![c] = token]
       /\ UNCHANGED <<token, nextToken>>
    \/ /\ z \in PrivateZone
       /\ login[c] \in Party => token = 0
       /\ nextToken <= MaxToken
       /\ inst' = [inst EXCEPT ![c] = nextToken]
       /\ nextToken' = nextToken + 1
       /\ token' = IF login[c] \in Party THEN nextToken ELSE token

(* The copies once c has left: its copy goes with its last player.         *)
Empties_Unasked(c) == TRUE

Empties_ItselfCounted(c) == \A d \in Conn : InWorld(d) => Key(d) # Key(c)

Empties(c) == \A d \in Conn \ {c} : InWorld(d) => Key(d) # Key(c)

LeaveCopy(c) ==
    IF InWorld(c) /\ Key(c) \in DOMAIN copies /\ Empties(c)
    THEN /\ copies' = [k \in DOMAIN copies \ {Key(c)} |-> copies[k]]
         /\ ticks' = [ticks EXCEPT ![copies[Key(c)].gen] = 0]
    ELSE UNCHANGED <<copies, ticks>>

(* The viewer maps once c has gone: those who share its scope forget its   *)
(* avatar, and its own login's maps are dropped.                           *)
Forget_OwnMapsOnly(c) ==
    /\ remote' = [remote EXCEPT ![login[c]] = [m \in Login |-> NotSeen]]
    /\ avatar' = [avatar EXCEPT ![login[c]] = 0]

Forget(c) ==
    /\ remote' = [v \in Login |-> [m \in Login |->
           IF v = login[c] \/ (m = login[c] /\ InWorld(c) /\ PeerOf(c, v) # {})
           THEN NotSeen
           ELSE remote[v][m]]]
    /\ avatar' = [avatar EXCEPT ![login[c]] = 0]

(* CharacterPlay from the character screen: the start zone is entered.     *)
StartZoneJoin(c) ==
    /\ login[c] # NoLogin
    /\ ~spawned[c]
    /\ zone' = [zone EXCEPT ![c] = StartZone]
    /\ AssignInstance(c, StartZone)
    /\ UNCHANGED <<accepted, login, spawned, shown, nextEid, copyVars, viewVars>>

(* A transfer to another zone.  A player already in the world leaves its   *)
(* copy and the sight of the others; the client unloads the zone.          *)
TransferZone(c, z) ==
    /\ login[c] # NoLogin
    /\ zone[c] # NoZone
    /\ ~(spawned[c] /\ zone[c] = z)
    /\ LeaveCopy(c)
    /\ Forget(c)
    /\ spawned' = [spawned EXCEPT ![c] = FALSE]
    /\ shown' = [shown EXCEPT ![c] = {}]
    /\ zone' = [zone EXCEPT ![c] = z]
    /\ AssignInstance(c, z)
    /\ UNCHANGED <<accepted, login, nextEid, nextGen>>

Disconnect(c) ==
    /\ login[c] # NoLogin
    /\ LeaveCopy(c)
    /\ Forget(c)
    /\ login' = [login EXCEPT ![c] = NoLogin]
    /\ spawned' = [spawned EXCEPT ![c] = FALSE]
    /\ shown' = [shown EXCEPT ![c] = {}]
    /\ zone' = [zone EXCEPT ![c] = NoZone]
    /\ inst' = [inst EXCEPT ![c] = 0]
    /\ UNCHANGED <<accepted, idVars, nextGen>>

(* What a copy of z holds when ids are handed out from e on.               *)
Population(z, e) == IF z \in PrivateZone THEN e .. (e + Mobs - 1) ELSE {}

(* The tick tasks of a copy after a player entered: one is started unless  *)
(* it runs already.                                                        *)
StartTick(g) == [ticks EXCEPT ![g] = IF @ = 0 THEN 1 ELSE @]

(* The id counter is set back to the base of the connection at every spawn *)
(* and the avatar takes the first id.                                      *)
AvatarId(c) == c * IdSpan + 10

(* The id of the player object that stands for d on the screen of c; the   *)
(* next id is the object that stands for c on the screen of d.             *)
RemoteId(c, d, first) == first + 2 * Cardinality({e \in Peers(c) : e < d})

(* The viewer maps once c has exchanged avatars with everyone in scope,    *)
(* numbering the player objects from first on.                             *)
Exchanged(c, first) ==
    LET l == login[c]
        id(m) == RemoteId(c, CHOOSE d \in PeerOf(c, m) : TRUE, first)
    IN  [v \in Login |-> [m \in Login |->
            IF v = l /\ PeerOf(c, m) # {}
            THEN [avatar |-> avatar[m], player |-> id(m)]
            ELSE IF m = l /\ PeerOf(c, v) # {}
            THEN [avatar |-> AvatarId(c), player |-> id(v) + 1]
            ELSE remote[v][m]]]

(* The client has loaded the zone (13/6) and the spawn progression runs:   *)
(* it numbers the avatar, then the population if the copy is new, then the *)
(* player objects exchanged.                                               *)
PlayerSpawned(c) ==
    LET new   == Key(c) \notin DOMAIN copies
        ids   == Population(zone[c], AvatarId(c) + 1)
        copy  == IF new THEN [gen |-> nextGen, ids |-> ids] ELSE copies[Key(c)]
        first == AvatarId(c) + 1 + (IF new THEN Cardinality(ids) ELSE 0)
    IN  /\ login[c] # NoLogin
        /\ zone[c] # NoZone
        /\ ~spawned[c]
        /\ new => nextGen <= MaxGen
        /\ spawned' = [spawned EXCEPT ![c] = TRUE]
        /\ avatar' = [avatar EXCEPT ![login[c]] = AvatarId(c)]
        /\ copies' = [k \in DOMAIN copies \cup {Key(c)} |->
                         IF k = Key(c) THEN copy ELSE copies[k]]
        /\ nextGen' = IF new THEN nextGen + 1 ELSE nextGen
        /\ ticks' = StartTick(copy.gen)
        /\ shown' = [shown EXCEPT ![c] = copy.ids]
        /\ remote' = Exchanged(c, first)
        /\ nextEid' = first + 2 * Cardinality(Peers(c))
        /\ UNCHANGED <<accepted, login, zone, inst, token, nextToken>>

(* The debug spawn: one more monster, sent to everyone in the copy.        *)
SpawnLive(c) ==
    /\ InWorld(c)
    /\ nextEid <= MaxEid
    /\ copies' = [copies EXCEPT ![Key(c)].ids = @ \cup {nextEid}]
    /\ shown' = [d \in Conn |-> IF InWorld(d) /\ Key(d) = Key(c)
                                THEN shown[d] \cup {nextEid} ELSE shown[d]]
    /\ nextEid' = nextEid + 1
    /\ UNCHANGED <<accepted, login, spawned, zone, inst, token, nextToken,
                   nextGen, ticks, viewVars>>

(* The leader makes the NEXT dungeon entry land in a fresh copy.           *)
ResetInstances ==
    /\ \E c \in Conn : login[c] \in Party
    /\ nextToken <= MaxToken
    /\ token' = nextToken
    /\ nextToken' = nextToken + 1
    /\ UNCHANGED <<connVars, nextEid, copyVars, viewVars>>

-----------------------------------------------------------------------------
Next ==
    \/ \E c \in Conn, l \in Login : LogIn(c, l)
    \/ \E c \in Conn : StartZoneJoin(c)
    \/ \E c \in Conn, z \in Zone : TransferZone(c, z)
    \/ \E c \in Conn : PlayerSpawned(c)
    \/ \E c \in Conn : SpawnLive(c)
    \/ \E c \in Conn : Disconnect(c)
    \/ ResetInstances

Spec == Init /\ [][Next]_vars

-----------------------------------------------------------------------------
(* Properties *)

TypeOK ==
    /\ accepted \subseteq Conn
    /\ login \in [Conn -> Login \cup {NoLogin}]
    /\ spawned \in [Conn -> BOOLEAN]
    /\ zone \in [Conn -> Zone \cup {NoZone}]
    /\ inst \in [Conn -> 0..MaxToken]
    /\ shown \in [Conn -> SUBSET Nat]
    /\ token \in 0..MaxToken
    /\ nextToken \in 1..(MaxToken + 1)
    /\ nextEid \in Nat
    /\ DOMAIN copies \subseteq Keys
    /\ \A k \in DOMAIN copies : copies[k] \in Copy
    /\ nextGen \in 1..(MaxGen + 1)
    /\ ticks \in [Gen -> {0, 1}]
    /\ avatar \in [Login -> Nat]
    /\ remote \in [Login -> [Login -> Sight]]

(* A copy is live exactly while a player stands in it: none is torn down   *)
(* under a player's feet, and none outlives its last player, whichever of  *)
(* transfers, reloads and lost connections emptied it (leave, _teardown).  *)
CopiesInhabited == DOMAIN copies = {Key(c) : c \in {d \in Conn : InWorld(d)}}

(* Everyone in a copy was sent the same entities, and all of them: those   *)
(* who met at its creation, those who came later and those who saw the     *)
(* debug spawns happen (enter, _send_snapshot, spawn_monsters_live).       *)
ClientsShareCopy ==
    \A c \in Conn : InWorld(c) =>
        /\ Key(c) \in DOMAIN copies
        /\ shown[c] = copies[Key(c)].ids

(* A viewer has an entry for a mover exactly while both are in the world   *)
(* and in scope of one another, and the entry names the avatar id the      *)
(* mover uses now, not that of an earlier visit (exchange_player_spawns,   *)
(* broadcast_entity_remove, and the pops of _transfer_zone and             *)
(* _on_disconnect).                                                        *)
SightAgrees ==
    \A v, m \in Login :
        IF \E c, d \in Conn : /\ c # d
                              /\ InWorld(c) /\ login[c] = v
                              /\ InWorld(d) /\ login[d] = m
                              /\ SameScope(c, d)
        THEN remote[v][m].avatar = avatar[m] /\ avatar[m] # 0
        ELSE remote[v][m] = NotSeen

(* Each live copy has exactly one running tick task, and a copy that was   *)
(* torn down has none: the AI of a copy never steps twice per tick, nor    *)
(* after the end (start_instance_tick, _teardown).                         *)
TickOwnCopy ==
    \A g \in Gen : ticks[g] = IF \E k \in DOMAIN copies : copies[k].gen = g
                              THEN 1 ELSE 0

(* The life of the copies as a whole: entered, ticked and torn down with   *)
(* their players.                                                          *)
CopiesLive == TypeOK /\ CopiesInhabited /\ TickOwnCopy

=============================================================================
