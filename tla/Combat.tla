------------------------------- MODULE Combat -------------------------------
(***************************************************************************)
(* The monsters of a party's dungeon: how the server learns of a death,    *)
(* and what it then pays out and tells the clients (managers/combat.py,    *)
(* mob_engagement_relay.py, world_instance.py, net/telemetry.py, and the   *)
(* swing replay of drserver/combat).                                       *)
(*                                                                         *)
(* Every client simulates its own copy of every monster.  The server sees  *)
(* swings, never their outcome: it replays the swings against a health of  *)
(* its own, or, while any client runs the reporting hook, takes the deaths *)
(* the hooks report.  Whichever comes first ends the monster for all.      *)
(*                                                                         *)
(* Abstractions.  All players are of one party, whose token keys the copy  *)
(* they enter (modules Groups and World).  A monster takes one entity id;  *)
(* the ids a connection gives out start from the same base each time it    *)
(* populates a copy, so an id is the populating player and a number.  Of   *)
(* experience, levels and the content of loot only the payment is kept.    *)
(* The default model of monster behaviour is modelled: clients run the     *)
(* monsters alone (DR_MONSTER_AI, DR_LEGACY_ENROLL and the clamp are off). *)
(*                                                                         *)
(* An operator named Op_Slip is Op with a mistake in it that the checks    *)
(* must find; no other definition uses it.                                 *)
(***************************************************************************)
EXTENDS Integers, Sequences, FiniteSets

CONSTANTS
    Player,         \* the members of one party, a connection each
    Level,          \* the levels of one dungeon, which share a world group
    Town,           \* everywhere else
    Mobs,           \* monsters of a level
    MaxHp,          \* hits that kill a monster in the replay
    MaxToken,       \* bound: instance tokens ever minted
    MaxGen,         \* bound: copies ever populated
    MaxReports,     \* bound: kill reports under way
    Nobody,         \* no player: a killer the hook cannot name
    NoMob,          \* no monster
    Harmful,        \* spells cast at positions hurt the monsters there
    Apart,          \* nobody populates a copy while one of his is alive
    Slow            \* a copy is populated only after what was under way
                    \* about the copies that are gone

ASSUME PlaceAssumption == Town \notin Level \cup (Level \X Nat)
ASSUME NumberAssumption == {Mobs, MaxHp, MaxToken, MaxGen, MaxReports} \subseteq Nat \ {0}
ASSUME NoneAssumption == Nobody \notin Player /\ NoMob \notin Nat \X Nat
ASSUME SwitchAssumption == {Harmful, Apart, Slow} \subseteq BOOLEAN

VARIABLES
    place,        \* the level and instance of a connection, or Town
    spawned,      \* conn.is_spawned, in a level
    token,        \* the instance token of the party
    made,         \* the copies ever populated: by whom, under which key
    copies,       \* WorldInstanceRegistry._instances: live key -> copy
    present,      \* the monster_ids of the live copies
    tracked,      \* CombatManager._monsters: entity id -> monster
    health,       \* TrackedMonster.current_hp
    engaged,      \* mob_engagement_relay._engaged, {} where it has no entry
    relayed,      \* mob_engagement_relay._last_relay: ids that have an entry
    swing,        \* the target of the active weapon cycle of a player
    hooked,       \* players whose telemetry hook is connected
    reports,      \* kill reports under way from the hooks
    due,          \* corpse removals that wait for _DEATH_DESPAWN_DELAY
    paid,         \* history: what the deaths of a monster paid
    alive,        \* client: monsters alive on its screen
    corpse,       \* client: monsters it has killed, still on its screen
    hurt,         \* client: monsters it has damaged and computes the health of
    faults        \* client: what its engine would have stopped at

worldVars  == <<place, spawned, token, made, copies>>
mobVars    == <<present, tracked, health, paid>>
relayVars  == <<engaged, relayed>>
clientVars == <<alive, corpse, hurt, faults>>
vars == <<place, spawned, token, made, copies, present, tracked, health,
          engaged, relayed, swing, hooked, reports, due, paid, alive, corpse,
          hurt, faults>>

Key == Level \X (1..MaxToken)
Mob == (1..MaxGen) \X (1..Mobs)
Eid == Player \X (1..Mobs)

-----------------------------------------------------------------------------
(* Copies, ids and screens *)

HomeOf(o) == made[o[1]].key
EidOf(o)  == <<made[o[1]].by, o[2]>>

MobsOf(g) == {g} \X (1..Mobs)

(* Sends are scoped by the world group of the zone and the instance: all   *)
(* the levels of a dungeon under one token.                                *)
InInstance(p, o) == place[p] # Town /\ place[p][2] = HomeOf(o)[2]

InScope(p, o) == spawned[p] /\ InInstance(p, o)

(* What a client shows under an entity id.                                 *)
OnScreen(p, e) == {o \in alive[p] \cup corpse[p] : EidOf(o) = e}

(* The copy of the monster is still there.                                 *)
Standing(o) == HomeOf(o) \in DOMAIN copies /\ copies[HomeOf(o)] = o[1]

Without(f, S) == [x \in DOMAIN f \ S |-> f[x]]

(* _telemetry_authoritative: one hook anywhere silences every replay.      *)
Authoritative == hooked # {}

Init ==
    /\ place    = [p \in Player |-> Town]
    /\ spawned  = [p \in Player |-> FALSE]
    /\ token    = 1
    /\ made     = <<>>
    /\ copies   = [k \in {} |-> 0]
    /\ present  = {}
    /\ tracked  = [e \in {} |-> NoMob]
    /\ health   = [o \in Mob |-> MaxHp]
    /\ engaged  = [e \in Eid |-> {}]
    /\ relayed  = {}
    /\ swing    = [p \in Player |-> NoMob]
    /\ hooked   = {}
    /\ reports  = {}
    /\ due      = {}
    /\ paid     = [o \in Mob |-> <<>>]
    /\ alive    = [p \in Player |-> {}]
    /\ corpse   = [p \in Player |-> {}]
    /\ hurt     = [p \in Player |-> {}]
    /\ faults   = {}

-----------------------------------------------------------------------------
(* Entering and leaving a level *)

(* The zone is loaded: the first in populates the copy and its monsters    *)
(* are tracked; the client is sent all of them, the dead ones too.         *)
PlayerSpawned(p) ==
    LET k   == place[p]
        new == k \notin DOMAIN copies
        g   == IF new THEN Len(made) + 1 ELSE copies[k]
    IN  /\ k # Town
        /\ ~spawned[p]
        /\ spawned' = [spawned EXCEPT ![p] = TRUE]
        /\ alive' = [alive EXCEPT ![p] = MobsOf(g)]
        /\ \/ /\ ~new
              /\ UNCHANGED <<made, copies, present, tracked>>
           \/ /\ new
              /\ Len(made) < MaxGen
              /\ Apart => \A l \in DOMAIN copies : made[copies[l]].by # p
              /\ Slow => \A m \in reports \cup due : Standing(m.mob)
              /\ made' = Append(made, [by |-> p, key |-> k])
              /\ copies' = [l \in DOMAIN copies \cup {k} |->
                               IF l = k THEN g ELSE copies[l]]
              /\ present' = present \cup MobsOf(g)
              /\ tracked' = [e \in DOMAIN tracked \cup ({p} \X (1..Mobs)) |->
                                IF e[1] = p THEN <<g, e[2]>> ELSE tracked[e]]
        /\ UNCHANGED <<place, token, health, paid, relayVars, swing, hooked,
                       reports, due, corpse, hurt, faults>>

(* A copy goes with its last player, and its monsters with it.             *)
Deserted(p) == spawned[p] /\ \A q \in Player \ {p} :
                                 spawned[q] => place[q] # place[p]

LeaveCopy_Tracked(p) ==
    IF Deserted(p)
    THEN /\ copies' = Without(copies, {place[p]})
         /\ present' = present \ MobsOf(copies[place[p]])
         /\ UNCHANGED <<tracked, engaged, relayed>>
    ELSE UNCHANGED <<copies, present, tracked, engaged, relayed>>

LeaveCopy(p) ==
    IF Deserted(p)
    THEN LET left == present \cap MobsOf(copies[place[p]])
             ids  == {EidOf(o) : o \in left} \cap DOMAIN tracked
         IN  /\ copies' = Without(copies, {place[p]})
             /\ present' = present \ left
             /\ tracked' = Without(tracked, ids)
             /\ engaged' = [e \in Eid |-> IF e \in ids THEN {} ELSE engaged[e]]
             /\ relayed' = relayed \ ids
    ELSE UNCHANGED <<copies, present, tracked, engaged, relayed>>

(* clear_combat: the player's weapon cycle is dropped.                     *)
ClearCombat_Keeps(p) == swing' = swing

ClearCombat(p) == swing' = [swing EXCEPT ![p] = NoMob]

Despawn(p) == spawned' = [spawned EXCEPT ![p] = FALSE]

(* A transfer to level z or out of the dungeon; the client unloads.        *)
TransferZone(p, z) ==
    /\ z = Town => place[p] # Town
    /\ ~(spawned[p] /\ place[p] # Town /\ place[p][1] = z)
    /\ LeaveCopy(p)
    /\ ClearCombat(p)
    /\ Despawn(p)
    /\ place' = [place EXCEPT ![p] = IF z = Town THEN Town ELSE <<z, token>>]
    /\ alive' = [alive EXCEPT ![p] = {}]
    /\ corpse' = [corpse EXCEPT ![p] = {}]
    /\ hurt' = [hurt EXCEPT ![p] = {}]
    /\ UNCHANGED <<token, made, health, paid, hooked, reports, due, faults>>

(* The leader makes the next entry of a level land in a fresh copy.        *)
ResetInstances ==
    /\ token < MaxToken
    /\ token' = token + 1
    /\ UNCHANGED <<place, spawned, made, copies, mobVars, relayVars, swing,
                   hooked, reports, due, clientVars>>

-----------------------------------------------------------------------------
(* The death of a monster *)

(* purge_monster: the id leaves the first live copy that has it.           *)
Purged(e) ==
    LET holders == {o \in present : EidOf(o) = e}
    IN  present \ {o \in holders : \A x \in holders : o[1] <= x[1]}

(* The clients of Q are sent the removal of monster o, which they look up  *)
(* by its id.                                                              *)
Destroyed(Q, o) ==
    LET e == EidOf(o)
    IN  /\ alive' = [p \in Player |-> IF p \in Q THEN alive[p] \ OnScreen(p, e)
                                                 ELSE alive[p]]
        /\ corpse' = [p \in Player |-> IF p \in Q THEN corpse[p] \ OnScreen(p, e)
                                                  ELSE corpse[p]]
        /\ hurt' = [p \in Player |-> IF p \in Q THEN hurt[p] \ OnScreen(p, e)
                                                ELSE hurt[p]]
        /\ faults' = faults \cup
              {<<"unknown", p>> : p \in {q \in Q : OnScreen(q, e) = {}}} \cup
              {<<"other", p>> : p \in {q \in Q : OnScreen(q, e) \cap {o} # OnScreen(q, e)}}

(* Who is sent the removal at once, and who later: the killer's client     *)
(* plays the death of the monster first.                                   *)
Removal_Everyone(o, killer) ==
    /\ Destroyed({p \in Player \ {killer} : spawned[p]}, o)
    /\ due' = due

Removal(o, killer) ==
    /\ Destroyed({p \in Player \ {killer} : InScope(p, o)}, o)
    /\ due' = IF InScope(killer, o)
              THEN due \cup {[to |-> killer, mob |-> o]}
              ELSE due

(* _process_monster_kill for the id e; meant is the monster the evidence   *)
(* of the death was about.                                                 *)
ProcessKill(e, killer, meant) ==
    LET o == tracked[e]
    IN  /\ paid' = [paid EXCEPT ![o] = Append(@, [meant |-> meant,
                       at |-> IF InInstance(killer, o) THEN place[killer] ELSE Town])]
        /\ present' = Purged(e)
        /\ engaged' = [engaged EXCEPT ![e] = {}]
        /\ relayed' = relayed \ {e}
        /\ Removal(o, killer)
        /\ tracked' = Without(tracked, {e})

(* The removal that waited: sent if the player is still in scope.          *)
DeferredDestroy(d) ==
    /\ due' = due \ {d}
    /\ IF InScope(d.to, d.mob)
       THEN Destroyed({d.to}, d.mob)
       ELSE UNCHANGED clientVars
    /\ UNCHANGED <<worldVars, mobVars, relayVars, swing, hooked, reports>>

-----------------------------------------------------------------------------
(* Fighting *)

(* The followers of a swing at id e: players in the attacker's copy whose  *)
(* client only displays the monster.                                       *)
Viewers(p, e) ==
    {q \in Player \ {p} : /\ spawned[q]
                          /\ place[q][2] = place[p][2]
                          /\ q \notin engaged[e]}

(* on_player_attack: the attacker is engaged, and the viewers' clients are *)
(* told, with the monster's full health, that it follows him; at most once *)
(* in _RELAY_THROTTLE.                                                     *)
Relay(p, e) ==
    IF e \in DOMAIN tracked /\ InScope(p, tracked[e])
    THEN /\ engaged' = [engaged EXCEPT ![e] = @ \cup {p}]
         /\ \/ /\ e \in relayed
               /\ UNCHANGED <<relayed, faults>>
            \/ /\ relayed' = IF Viewers(p, e) # {} THEN relayed \cup {e} ELSE relayed
               /\ faults' = faults \cup {<<"health", q>> :
                     q \in {v \in Viewers(p, e) : OnScreen(v, e) \cap hurt[v] # {}}}
    ELSE UNCHANGED <<engaged, relayed, faults>>

(* The client swings at a monster (0x50), which hurts the copy it runs.    *)
UseTarget(p, o) ==
    LET e == EidOf(o)
    IN  /\ o \in alive[p]
        /\ hurt' = [hurt EXCEPT ![p] = @ \cup {o}]
        /\ swing' = IF Authoritative \/ e \notin DOMAIN tracked
                    THEN swing
                    ELSE [swing EXCEPT ![p] = tracked[e]]
        /\ Relay(p, e)
        /\ UNCHANGED <<worldVars, mobVars, hooked, reports, due, alive, corpse>>

(* The client casts a spell at a position (0x51), which may hurt the copy  *)
(* of a monster it runs there; the server acknowledges the cast and knows  *)
(* of no target.                                                           *)
UsePosition(p, o) ==
    /\ o \in alive[p]
    /\ hurt' = IF Harmful THEN [hurt EXCEPT ![p] = @ \cup {o}] ELSE hurt
    /\ UNCHANGED <<worldVars, mobVars, relayVars, swing, hooked, reports, due,
                   alive, corpse, faults>>

(* The client cancels its action, or respawns in place.                    *)
CancelAction(p) ==
    /\ swing[p] # NoMob
    /\ ClearCombat(p)
    /\ UNCHANGED <<worldVars, mobVars, relayVars, hooked, reports, due,
                   clientVars>>

(* tick_combat: the replay of the player's swing lands a hit, or finds the *)
(* monster dead, or ends its cycle.                                        *)
TickCombat(p) ==
    LET o == swing[p]
        e == EidOf(o)
    IN  /\ spawned[p]
        /\ o # NoMob
        /\ ~Authoritative
        /\ UNCHANGED <<worldVars, hooked, reports>>
        /\ \/ /\ ClearCombat(p)
              /\ UNCHANGED <<mobVars, relayVars, due, clientVars>>
           \/ /\ health[o] > 1
              /\ health' = [health EXCEPT ![o] = @ - 1]
              /\ UNCHANGED <<present, tracked, paid, relayVars, swing, due,
                             clientVars>>
           \/ /\ health[o] = 1
              /\ health' = [health EXCEPT ![o] = 0]
              /\ ClearCombat(p)
              /\ IF e \in DOMAIN tracked
                 THEN ProcessKill(e, p, o)
                 ELSE UNCHANGED <<present, tracked, paid, relayVars, due,
                                  clientVars>>

(* A monster dies on a client; its hook reports it, and may be unable to   *)
(* name the killer: a summon, a projectile or an effect over time.         *)
ClientKill(p, o, killer) ==
    /\ o \in alive[p] \cap hurt[p]
    /\ killer = Nobody => p \in hooked
    /\ p \in hooked => Cardinality(reports) < MaxReports
    /\ alive' = [alive EXCEPT ![p] = @ \ {o}]
    /\ corpse' = [corpse EXCEPT ![p] = @ \cup {o}]
    /\ reports' = IF p \in hooked
                  THEN reports \cup {[from |-> p, killer |-> killer, mob |-> o]}
                  ELSE reports
    /\ UNCHANGED <<worldVars, mobVars, relayVars, swing, hooked, due, hurt, faults>>

(* _resolve_killer: an unnamed killer is the only player in the copy.      *)
Killer(r) ==
    LET o     == tracked[EidOf(r.mob)]
        there == {p \in Player : InScope(p, o)}
    IN  IF r.killer # Nobody THEN {r.killer}
        ELSE IF Cardinality(there) = 1 THEN there ELSE {}

(* on_kill: a kill report arrives.                                         *)
OnKill(r) ==
    LET e == EidOf(r.mob)
    IN  /\ reports' = reports \ {r}
        /\ UNCHANGED <<worldVars, health, swing, hooked>>
        /\ \/ /\ e \in DOMAIN tracked
              /\ \E k \in Killer(r) : ProcessKill(e, k, r.mob)
           \/ /\ e \in DOMAIN tracked => Killer(r) = {}
              /\ UNCHANGED <<present, tracked, paid, relayVars, due, clientVars>>

(* A client reports the health of a monster (0x36, 0x03).  That the new    *)
(* health is sent on to all in scope is left out (hp_broadcast).           *)
ObserveMonsterHp(p, o, hp) ==
    LET e == EidOf(o)
    IN  /\ o \in hurt[p]
        /\ e \in DOMAIN tracked
        /\ hp < health[tracked[e]]
        /\ health' = [health EXCEPT ![tracked[e]] = hp]
        /\ UNCHANGED <<worldVars, swing, hooked, reports>>
        /\ IF hp = 0
           THEN ProcessKill(e, p, o)
           ELSE UNCHANGED <<present, tracked, paid, relayVars, due, clientVars>>

(* A hook connects or goes (_handle_client).                               *)
Hook(p) ==
    /\ hooked' = IF p \in hooked THEN hooked \ {p} ELSE hooked \cup {p}
    /\ UNCHANGED <<worldVars, mobVars, relayVars, swing, reports, due,
                   clientVars>>

-----------------------------------------------------------------------------
Next ==
    \/ \E p \in Player : PlayerSpawned(p)
    \/ \E p \in Player, z \in Level \cup {Town} : TransferZone(p, z)
    \/ ResetInstances
    \/ \E p \in Player : \E o \in alive[p] : UseTarget(p, o)
    \/ \E p \in Player : \E o \in alive[p] : UsePosition(p, o)
    \/ \E p \in Player : CancelAction(p)
    \/ \E p \in Player : TickCombat(p)
    \/ \E p \in Player : \E o \in alive[p], k \in {p, Nobody} : ClientKill(p, o, k)
    \/ \E r \in reports : OnKill(r)
    \/ \E p \in Player, hp \in 0..MaxHp :
           \E o \in hurt[p] : ObserveMonsterHp(p, o, hp)
    \/ \E d \in due : DeferredDestroy(d)
    \/ \E p \in Player : Hook(p)

Spec == Init /\ [][Next]_vars

-----------------------------------------------------------------------------
(* Properties *)

Report  == [from : Player, killer : Player \cup {Nobody}, mob : Mob]
Payment == [meant : Mob, at : Key \cup {Town}]

TypeOK ==
    /\ place \in [Player -> Key \cup {Town}]
    /\ spawned \in [Player -> BOOLEAN]
    /\ \A p \in Player : spawned[p] => place[p] \in DOMAIN copies
    /\ token \in 1..MaxToken
    /\ made \in Seq([by : Player, key : Key]) /\ Len(made) <= MaxGen
    /\ DOMAIN copies \subseteq Key
    /\ \A k \in DOMAIN copies : copies[k] \in DOMAIN made
    /\ present \subseteq Mob
    /\ DOMAIN tracked \subseteq Eid
    /\ \A e \in DOMAIN tracked : tracked[e] \in Mob
    /\ health \in [Mob -> 0..MaxHp]
    /\ engaged \in [Eid -> SUBSET Player]
    /\ relayed \subseteq Eid
    /\ swing \in [Player -> Mob \cup {NoMob}]
    /\ hooked \subseteq Player
    /\ reports \subseteq Report
    /\ due \subseteq [to : Player, mob : Mob]
    /\ \A o \in Mob : paid[o] \in Seq(Payment)
    /\ {alive, corpse, hurt} \subseteq [Player -> SUBSET Mob]
    /\ faults \subseteq {"unknown", "other", "health"} \X Player

(* The tracked monsters are exactly the living ones of the live copies,    *)
(* each under its own id, and only they have fighters on record: what a    *)
(* copy leaves behind never meets a monster that is given the same id      *)
(* later (register_monster, unregister_monster, purge_mob).                *)
TrackedAreLive ==
    /\ TypeOK
    /\ {tracked[e] : e \in DOMAIN tracked} = present
    /\ \A e \in DOMAIN tracked :
           EidOf(tracked[e]) = e /\ Standing(tracked[e])
    /\ \A e \in Eid : engaged[e] # {} \/ e \in relayed => e \in DOMAIN tracked

(* Each monster is paid for once however many replays and reports see it   *)
(* die, on evidence about that very monster and not one that bore its id   *)
(* before, and its loot lies in the copy it died in or nowhere             *)
(* (_on_replay_kill, on_kill, observe_monster_hp, _process_monster_kill).  *)
PaidOnce ==
    \A o \in Mob :
        /\ Len(paid[o]) <= 1
        /\ \A i \in DOMAIN paid[o] :
              /\ o \notin {tracked[e] : e \in DOMAIN tracked}
              /\ paid[o][i].meant = o
              /\ paid[o][i].at \in {HomeOf(o), Town}

(* A client that has damaged a monster computes its health alone: it is    *)
(* never sent the Follow that carries the monster's full health            *)
(* (mob_engagement_relay.on_player_attack).                                *)
FollowSparesFighters == \A p \in Player : <<"health", p>> \notin faults

(* A client is told to remove a monster only while it shows that monster,  *)
(* at once or after the delay (_broadcast_despawn, _defer_despawn).        *)
DestroysShown ==
    \A p \in Player : <<"unknown", p>> \notin faults /\ <<"other", p>> \notin faults

(* Clients are sent only what they can take.                               *)
ClientsCanTake == FollowSparesFighters /\ DestroysShown

=============================================================================
