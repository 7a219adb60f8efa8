-------------------------------- MODULE Hero --------------------------------
(***************************************************************************)
(* The progress of one character: level, experience and attribute points in *)
(* its row (data/player_state.py, net/attributes.py, the experience and     *)
(* synch parts of net/game_server.py), and the health the server writes     *)
(* into the trailers of everything it sends about the avatar.               *)
(*                                                                          *)
(* The client fights, levels up and takes damage on its own.  The server    *)
(* learns of it three ways: reports of health that ride on the packets of   *)
(* the game connection, kills that the hook in the client sends over a      *)
(* connection of its own, and, while no hook is connected, kills that its   *)
(* replay of the swings finds.  Packets of one connection keep their order; *)
(* the two connections overtake each other.                                 *)
(*                                                                          *)
(* Abstractions.  Every kill is worth one unit of experience and Need gives *)
(* the thresholds in such units; a point of health is a unit of MaxHp.  The *)
(* clock of the respec cooldown is one flag.  A player travels through the  *)
(* loading screen to a fresh avatar, or is moved within its zone.           *)
(***************************************************************************)
EXTENDS Integers, Sequences, FiniteSets, FiniteSetsExt, Sums

CONSTANTS
    Stat,        \* the primary attributes a player raises
    Endurance,   \* the one that gives health
    PerLevel,    \* STAT_POINTS_PER_LEVEL
    RespecCost,  \* respec_cost_gold, the same at every level here
    Gold,        \* bound: gold of the character, spent on respecs only
    Need,        \* xp_threshold_for_level: level -> experience to reach it
    ExactXp,     \* the hook reports experience too (OP_KILL_AT_XP)
    MaxKills,    \* bound: kills of the client
    MaxHurts,    \* bound: hits the avatar takes
    MaxMoves,    \* bound: travels, respawns and changes of the hook
    MaxSpends    \* bound: requests about attribute points

Level == DOMAIN Need \cup {1}
TopLevel == Max(Level)
None == -1

StatAssumption == Endurance \in Stat /\ IsFiniteSet(Stat)
NeedAssumption ==
    /\ IsFiniteSet(DOMAIN Need) /\ DOMAIN Need = 2..(Cardinality(DOMAIN Need) + 1)
    /\ Need \in [DOMAIN Need -> Nat]
    /\ {PerLevel, RespecCost, Gold, MaxKills} \subseteq Nat

VARIABLES
    row,      \* characters: level, exp, gold, allocated points
    cooling,  \* less than _RESPEC_COOLDOWN_SECONDS since last_respec_time
    hpWire,   \* conn.hp_wire
    clientHp, \* conn.client_hp_wire
    hooked,   \* has_active_hook()
    unpaid,   \* kills of the client that the server has not processed
    hook,     \* kills on their way from the hook
    up,       \* packets on their way to the server
    down,     \* packets on their way to the client
    cli,      \* the client: level, exp, hp, its Attributes panel, in the world
    used      \* kills, hits, moves and requests so far

vars == <<row, cooling, hpWire, clientHp, hooked, unpaid, hook, up, down, cli, used>>
netVars == <<hook, up, down>>

NoPoints == [s \in Stat |-> 0]
allocated_total(points) == SumOver(points, Stat)
earned(level) == (level - 1) * PerLevel
points_available(r) == Max({0, earned(r.level) - allocated_total(r.stats)})

(* compute_saved_avatar_hp_wire: base, level and allocated endurance.      *)
MaxHp(level, stats) == 1 + level + stats[Endurance]

resolve_synch_hp_wire(max, reported) ==
    IF reported # None /\ 0 < reported /\ reported < max THEN reported ELSE max

(* The trailer of owner updates, and of the frames of the tick.            *)
SynchHp == resolve_synch_hp_wire(hpWire, clientHp)

Init ==
    /\ row = [level |-> 1, exp |-> 0, gold |-> Gold, stats |-> NoPoints]
    /\ cooling = FALSE /\ hooked \in BOOLEAN
    /\ hpWire = MaxHp(1, NoPoints) /\ clientHp = None
    /\ unpaid = {} /\ hook = <<>> /\ up = <<>> /\ down = <<>>
    /\ cli = [level |-> 1, exp |-> 0, hp |-> MaxHp(1, NoPoints),
              stats |-> NoPoints, in |-> TRUE]
    /\ used = [kills |-> 0, hurts |-> 0, moves |-> 0, spends |-> 0]

Counted(what) == used' = [used EXCEPT ![what] = @ + 1]

-----------------------------------------------------------------------------
(* Experience *)

Owed(from, to) == SumTo([i \in 1..(to - from) |-> Need[from + i]], to - from)

(* Where level and experience stand after the thresholds up to cap are     *)
(* deducted.                                                               *)
apply_xp(level, exp, cap) ==
    LET to == Min({l \in level..cap : l = cap \/ exp - Owed(level, l) < Need[l + 1]})
    IN  [level |-> to, exp |-> exp - Owed(level, to)]

(* _refresh_avatar_hp_wire.                                                *)
RefreshAvatarHp(r, reset) ==
    /\ clientHp' = IF reset THEN None ELSE clientHp
    /\ hpWire' = resolve_synch_hp_wire(MaxHp(r.level, r.stats), clientHp')

(* A level-up refreshes the trailer and keeps what the client reported.    *)
Levelled(r) ==
    /\ row' = r
    /\ IF r.level # row.level
       THEN RefreshAvatarHp(r, FALSE) ELSE UNCHANGED <<hpWire, clientHp>>

(* _grant_kill_xp, on the row r.                                           *)
Granted(r, accrueOnly) ==
    LET to == apply_xp(r.level, r.exp + 1, IF accrueOnly THEN r.level ELSE TopLevel)
    IN  [r EXCEPT !.level = to.level, !.exp = to.exp]

(* sync_client_level: up to the level of the kill report, and to its       *)
(* experience where it has one.                                            *)
sync_client_level(r, kill) ==
    LET up2 == Max({r.level, kill.level})
        carried[l \in r.level..up2] ==
            IF l = r.level THEN r.exp ELSE Max({0, carried[l - 1] - Need[l]})
    IN  [r EXCEPT !.level = up2,
                  !.exp = IF ExactXp THEN kill.exp ELSE carried[up2]]

(* The client kills a monster and levels up on its own.                    *)
ClientKills ==
    /\ used.kills < MaxKills /\ cli.in /\ cli.hp > 0 /\ cli.level < TopLevel
    /\ LET to == apply_xp(cli.level, cli.exp + 1, TopLevel)
           k  == used.kills + 1
       IN  /\ cli' = [cli EXCEPT !.level = to.level, !.exp = to.exp,
                        !.hp = IF to.level > cli.level
                               THEN MaxHp(to.level, cli.stats) ELSE @]
           /\ unpaid' = unpaid \cup {k}
           /\ hook' = IF hooked
                      THEN Append(hook, [kill |-> k, level |-> to.level, exp |-> to.exp])
                      ELSE hook
    /\ Counted("kills")
    /\ UNCHANGED <<row, cooling, hpWire, clientHp, hooked, up, down>>

(* on_kill: the level is snapped first, then the kill is paid without one. *)
HookKill ==
    /\ hook # <<>> /\ hook' = Tail(hook)
    /\ LET kill == Head(hook)
           synced == sync_client_level(row, kill)
       IN  /\ Levelled(IF kill.kill \in unpaid THEN Granted(synced, TRUE) ELSE synced)
           /\ unpaid' = unpaid \ {kill.kill}
    /\ UNCHANGED <<cooling, hooked, up, down, cli, used>>

(* award_kill_xp: the replay finds the kill, in the absence of a hook.     *)
ReplayedKill ==
    /\ ~hooked
    /\ \E k \in unpaid :
        /\ Levelled(Granted(row, FALSE))
        /\ unpaid' = unpaid \ {k}
    /\ UNCHANGED <<cooling, hooked, netVars, cli, used>>

HookChanges ==
    /\ used.moves < MaxMoves /\ Counted("moves")
    /\ hooked' = ~hooked
    /\ hook' = IF hooked THEN <<>> ELSE hook
    /\ UNCHANGED <<row, cooling, hpWire, clientHp, unpaid, up, down, cli>>

-----------------------------------------------------------------------------
(* The client *)

ClientSends(m) == up' = Append(up, m) /\ down' = down

ClientHurt ==
    /\ used.hurts < MaxHurts /\ cli.in /\ cli.hp > 0 /\ Counted("hurts")
    /\ cli' = [cli EXCEPT !.hp = @ - 1]
    /\ UNCHANGED <<row, cooling, hpWire, clientHp, hooked, unpaid, netVars>>

ClientRegains ==
    /\ cli.in /\ cli.hp > 0
    /\ cli' = [cli EXCEPT !.hp = MaxHp(cli.level, cli.stats)] /\ cli' # cli
    /\ UNCHANGED <<row, cooling, hpWire, clientHp, hooked, unpaid, netVars, used>>

(* Every packet about the avatar ends with its health; one suffices while  *)
(* none is under way.                                                      *)
ClientReports ==
    /\ cli.in /\ up = <<>>
    /\ ClientSends([t |-> "hp", n |-> cli.hp])
    /\ UNCHANGED <<row, cooling, hpWire, clientHp, hooked, unpaid, hook, cli, used>>

ClientAsks ==
    /\ cli.in /\ used.spends < MaxSpends /\ Counted("spends")
    /\ \E s \in Stat, what \in {"spend", "return", "respec"} :
        ClientSends([t |-> what, n |-> s])
    /\ UNCHANGED <<row, cooling, hpWire, clientHp, hooked, unpaid, hook, cli>>

ClientMoves ==
    /\ cli.in /\ used.moves < MaxMoves /\ Counted("moves")
    /\ \E what \in {"travel", "respawn"} : ClientSends([t |-> what, n |-> 0])
    /\ UNCHANGED <<row, cooling, hpWire, clientHp, hooked, unpaid, hook, cli>>

(* The client takes a packet: a confirmation of points, a clear of the     *)
(* panel, the end of the zone, a fresh avatar, a revival in place.         *)
ClientTakes ==
    /\ down # <<>> /\ down' = Tail(down)
    /\ LET m == Head(down) IN
        /\ cli' = CASE m.t = "points" ->
                        [cli EXCEPT !.stats[m.s] = @ + m.n,
                                    !.hp = Min({@, MaxHp(cli.level,
                                                [cli.stats EXCEPT ![m.s] = @ + m.n])})]
                    [] m.t = "cleared" ->
                        [cli EXCEPT !.stats = NoPoints,
                                    !.hp = Min({@, MaxHp(cli.level, NoPoints)})]
                    [] m.t = "load" -> [cli EXCEPT !.in = FALSE]
                    [] m.t = "avatar" ->
                        [level |-> m.r.level, exp |-> m.r.exp, stats |-> m.r.stats,
                         hp |-> MaxHp(m.r.level, m.r.stats), in |-> TRUE]
                    [] m.t = "revive" ->
                        [cli EXCEPT !.hp = MaxHp(cli.level, cli.stats)]
        /\ up' = IF m.t = "load" THEN Append(up, [t |-> "join", n |-> 0]) ELSE up
    /\ UNCHANGED <<row, cooling, hpWire, clientHp, hooked, unpaid, hook, used>>

-----------------------------------------------------------------------------
(* The handlers *)

Takes(t) == up # <<>> /\ Head(up).t = t /\ up' = Tail(up)
Answers(m) == down' = Append(down, m)

(* adopt_client_avatar_hp: 0 is a death, which the respawn handles.        *)
AdoptHp_NotAboveWire ==
    /\ Takes("hp") /\ down' = down
    /\ LET hp == Head(up).n IN
        IF hp > 0 /\ hp <= hpWire THEN hpWire' = hp /\ clientHp' = hp
                                  ELSE UNCHANGED <<hpWire, clientHp>>
    /\ UNCHANGED <<row, cooling, hooked, unpaid, hook, cli, used>>

AdoptHp ==
    /\ Takes("hp") /\ down' = down
    /\ LET hp == Head(up).n IN
        IF hp > 0 THEN hpWire' = hp /\ clientHp' = hp
                  ELSE UNCHANGED <<hpWire, clientHp>>
    /\ UNCHANGED <<row, cooling, hooked, unpaid, hook, cli, used>>

(* One request spends or returns one point; what the row does not allow is *)
(* dropped without an answer.                                              *)
StatSpend ==
    /\ Takes("spend")
    /\ LET s == Head(up).n IN
        IF points_available(row) >= 1
        THEN /\ row' = [row EXCEPT !.stats[s] = @ + 1]
             /\ Answers([t |-> "points", s |-> s, n |-> 1])
        ELSE UNCHANGED <<row, down>>
    /\ UNCHANGED <<cooling, hpWire, clientHp, hooked, unpaid, hook, cli, used>>

StatReturn ==
    /\ Takes("return")
    /\ LET s == Head(up).n IN
        IF row.stats[s] >= 1
        THEN /\ row' = [row EXCEPT !.stats[s] = @ - 1]
             /\ Answers([t |-> "points", s |-> s, n |-> -1])
        ELSE UNCHANGED <<row, down>>
    /\ UNCHANGED <<cooling, hpWire, clientHp, hooked, unpaid, hook, cli, used>>

Respec_Untold ==
    /\ Takes("respec")
    /\ IF ~cooling /\ row.gold >= RespecCost
       THEN /\ row' = [row EXCEPT !.gold = @ - RespecCost, !.stats = NoPoints]
            /\ cooling' = TRUE /\ down' = down
       ELSE UNCHANGED <<row, cooling, down>>
    /\ UNCHANGED <<hpWire, clientHp, hooked, unpaid, hook, cli, used>>

Respec ==
    /\ Takes("respec")
    /\ IF ~cooling /\ row.gold >= RespecCost
       THEN /\ row' = [row EXCEPT !.gold = @ - RespecCost, !.stats = NoPoints]
            /\ cooling' = TRUE
            /\ Answers([t |-> "cleared"])
       ELSE UNCHANGED <<row, cooling, down>>
    /\ UNCHANGED <<hpWire, clientHp, hooked, unpaid, hook, cli, used>>

CooldownEnds ==
    /\ cooling /\ cooling' = FALSE
    /\ UNCHANGED <<row, hpWire, clientHp, hooked, unpaid, netVars, cli, used>>

Travel ==
    /\ Takes("travel") /\ Answers([t |-> "load"])
    /\ UNCHANGED <<row, cooling, hpWire, clientHp, hooked, unpaid, hook, cli, used>>

(* _send_zone_progression: full health, and an avatar made from the row.   *)
EnterZone ==
    /\ Takes("join") /\ Answers([t |-> "avatar", r |-> row])
    /\ RefreshAvatarHp(row, TRUE)
    /\ UNCHANGED <<row, cooling, hooked, unpaid, hook, cli, used>>

RespawnInPlace ==
    /\ Takes("respawn") /\ Answers([t |-> "revive"])
    /\ RefreshAvatarHp(row, TRUE)
    /\ UNCHANGED <<row, cooling, hooked, unpaid, hook, cli, used>>

Serve ==
    \/ AdoptHp \/ StatSpend \/ StatReturn \/ Respec
    \/ Travel \/ EnterZone \/ RespawnInPlace

Next ==
    \/ ClientKills \/ HookKill \/ ReplayedKill \/ HookChanges
    \/ ClientHurt \/ ClientRegains \/ ClientReports \/ ClientAsks \/ ClientMoves
    \/ ClientTakes \/ Serve \/ CooldownEnds

(* The loop handles what arrives, and a client in the world keeps sending: *)
(* its moves and actions all carry its health.                             *)
Fairness ==
    /\ WF_vars(Serve) /\ WF_vars(ClientTakes) /\ WF_vars(ClientReports)
    /\ WF_vars(HookKill)

Spec == Init /\ [][Next]_vars /\ Fairness

-----------------------------------------------------------------------------
(* Properties *)

TypeOK ==
    /\ row \in [level : Level, exp : Nat, gold : 0..Gold, stats : [Stat -> Nat]]
    /\ cooling \in BOOLEAN /\ hooked \in BOOLEAN
    /\ hpWire \in Nat \ {0} /\ clientHp \in {None} \cup (Nat \ {0})
    /\ unpaid \subseteq 1..MaxKills
    /\ cli.level \in Level /\ cli.hp \in Nat /\ cli.stats \in [Stat -> Nat]

(* Whatever is spent, returned, cleared and reported in whichever order,   *)
(* the row never holds more points than its level earns, nor negative ones *)
(* (net/attributes.py).                                                    *)
PointsEarned == TypeOK /\ allocated_total(row.stats) <= earned(row.level)

(* A client that has taken every answer shows the points of the row, also  *)
(* after a respec or a zone change that crossed its requests.              *)
PanelAgrees == PointsEarned /\ (down = <<>> /\ cli.in => cli.stats = row.stats)

(* A living client whose health no longer changes ends up with trailers    *)
(* that carry exactly that health, whatever levels, points, respawns and   *)
(* kill reports came before: the comparison the client makes is exact.     *)
SynchSettles ==
    \A hp \in 1..(1 + TopLevel + earned(TopLevel)) :
        <>[](cli.in /\ cli.hp = hp) => <>[](SynchHp = hp)
=============================================================================
