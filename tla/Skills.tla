------------------------------- MODULE Skills -------------------------------
(***************************************************************************)
(* The skills of one character: learning and ranking them at a trainer      *)
(* (managers/trainers.py), placing them on the hotbar and casting them      *)
(* (net/skills.py), the manipulators the server sends at a spawn            *)
(* (net/spawn.py, data/class_passives.py), and the buffs it puts back after *)
(* a zone change, because the client drops them (managers/player_modifiers). *)
(*                                                                          *)
(* There are two copies of the hotbar: the map of the session, from slots   *)
(* to skills, which casts are resolved with, and the slots saved with the   *)
(* row, which the map is rebuilt from at every spawn.  A skill outside the  *)
(* hotbar has a manipulator id above it.                                    *)
(*                                                                          *)
(* Abstractions.  A skill is a value with its own authored slot or NoSlot;  *)
(* Loadout is the order of the skills in the row, which the spawn follows.  *)
(* Handlers answer at once: the two copies are both the server's.  Time is  *)
(* counted in units of which Buffer are lost to a loading screen.           *)
(***************************************************************************)
EXTENDS Integers, Sequences, SequencesExt, FiniteSets, Functions, Sums

CONSTANTS
    Skill,      \* the skills
    Passive,    \* those that are passives
    Foreign,    \* the passives of another class (passive_owner_class)
    Loadout,    \* the skills a new character knows, in order
    Slot,       \* the hotbar
    Authored,   \* STARTING_HOTBAR_SLOTS: skill -> slot or NoSlot
    MaxRank,    \* max_skill_level
    Cost,       \* train_gold_cost of the next rank: rank -> gold
    Gold,       \* bound: gold of the character
    Lasts,      \* BUFF_MODIFIER_MAP: skill -> duration of its buff, 0 permanent,
                \* or NoBuff
    Buffer,     \* _ZONE_BUFFER_TICKS
    MaxTime     \* bound: time that passes

NoSlot == 0
NoBuff == -1
Gone == -1
OffBar == 200   \* the first manipulator id outside the hotbar

SlotAssumption ==
    /\ Slot \subseteq 1..(OffBar - 1) /\ Authored \in [Skill -> Slot \cup {NoSlot}]
SkillAssumption ==
    /\ Foreign \subseteq Passive /\ Passive \subseteq Skill
    /\ IsFiniteSet(Skill) /\ Lasts \in [Skill -> Nat \cup {NoBuff}]
    /\ Loadout \in Seq(Skill) /\ IsInjective(Loadout)
PriceAssumption ==
    /\ MaxRank \in Nat \ {0} /\ Cost \in [1..MaxRank -> Nat]
    /\ {Gold, Buffer, MaxTime} \subseteq Nat

VARIABLES
    known,     \* saved.skills, in order
    rank,      \* saved.skill_levels: 0 when not known
    gold,      \* saved.gold
    bar,       \* saved.hotbar_slots: skill -> slot or NoSlot
    spawned,   \* conn.is_spawned
    manips,    \* conn.skill_manip_map: id -> skill
    tracked,   \* conn.tracked_modifiers: skill -> when it was cast, or Gone
    shown,     \* the client: skill -> what remains of its buff, or Gone
    now

rowVars == <<known, rank, gold, bar>>
vars == <<known, rank, gold, bar, spawned, manips, tracked, shown, now>>

Manip(m, id, s) == [i \in DOMAIN m \cup {id} |-> IF i = id THEN s ELSE m[i]]

-----------------------------------------------------------------------------
(* The manipulators of a spawn *)

Actives == {i \in DOMAIN known : known[i] \notin Passive}

(* _starting_slot_map, overridden by the saved slots.                      *)
SlotOf(s) == IF bar[s] # NoSlot THEN bar[s] ELSE Authored[s]

(* A skill without a slot takes the next id above the bar, in order.       *)
IdOf(i) ==
    IF SlotOf(known[i]) # NoSlot THEN SlotOf(known[i])
    ELSE OffBar + Cardinality({j \in Actives : j < i /\ SlotOf(known[j]) = NoSlot})

(* collect_passive_manipulators: those on the bar, then known ones with an *)
(* authored slot.                                                          *)
Shipped == {s \in Range(known) \cap Passive : SlotOf(s) # NoSlot}

SpawnManips ==
    {<<IdOf(i), known[i]>> : i \in Actives} \cup {<<SlotOf(s), s>> : s \in Shipped}

(* The map of the session: where two claim an id, a passive wins over an   *)
(* active, and a later active over an earlier one.                         *)
Overrides(s, t) ==
    \/ s \in Passive /\ t \notin Passive
    \/ /\ {s, t} \cap Passive = {}
       /\ \E i, j \in DOMAIN known : i > j /\ known[i] = s /\ known[j] = t

SpawnMap ==
    [id \in {m[1] : m \in SpawnManips} |->
        CHOOSE s \in {m[2] : m \in {n \in SpawnManips : n[1] = id}} :
            \A m \in SpawnManips :
                m[1] = id /\ m[2] # s => ~Overrides(m[2], s)]

Init ==
    /\ known = Loadout
    /\ rank = [s \in Skill |-> IF s \in Range(Loadout) THEN 1 ELSE 0]
    /\ gold = Gold
    /\ bar = [s \in Skill |-> IF s \in Range(Loadout) THEN Authored[s] ELSE NoSlot]
    /\ spawned = FALSE /\ manips = <<>>
    /\ tracked = [s \in Skill |-> Gone] /\ shown = [s \in Skill |-> Gone]
    /\ now = 0

-----------------------------------------------------------------------------
(* Buffs *)

(* active_modifiers: permanent ones, and those the loading screen leaves   *)
(* something of.                                                           *)
Remaining(s) == Lasts[s] - (now - tracked[s]) - Buffer
Active(s) == tracked[s] # Gone /\ (Lasts[s] = 0 \/ Remaining(s) > 0)

(* track_skill_buff, and what the client does with the cast itself.        *)
TrackSkillBuff(s) ==
    IF Lasts[s] = NoBuff THEN UNCHANGED <<tracked, shown>>
    ELSE /\ tracked' = [tracked EXCEPT ![s] = now]
         /\ shown' = [shown EXCEPT ![s] = Lasts[s]]

(* resend_all, to a client that has just dropped them all.                 *)
ResendAll_Whole ==
    /\ tracked' = [s \in Skill |-> IF Active(s) THEN tracked[s] ELSE Gone]
    /\ shown' = [s \in Skill |-> IF Active(s) THEN Lasts[s] ELSE Gone]

ResendAll ==
    /\ tracked' = [s \in Skill |-> IF Active(s) THEN tracked[s] ELSE Gone]
    /\ shown' = [s \in Skill |->
        IF ~Active(s) THEN Gone ELSE IF Lasts[s] = 0 THEN 0 ELSE Remaining(s)]

(* Time passes and the client lets buffs run out.                          *)
Pass ==
    /\ now < MaxTime /\ now' = now + 1
    /\ shown' = [s \in Skill |->
        IF shown[s] > 1 THEN shown[s] - 1 ELSE IF shown[s] = 1 THEN Gone ELSE shown[s]]
    /\ UNCHANGED <<rowVars, spawned, manips, tracked>>

-----------------------------------------------------------------------------
(* The session *)

(* send_player_entity_spawn and the tail of the zone entry: the map is     *)
(* made from the row and the buffs are sent again.                         *)
Enter ==
    /\ ~spawned /\ spawned' = TRUE
    /\ manips' = SpawnMap
    /\ ResendAll
    /\ UNCHANGED <<rowVars, now>>

TransferZone ==
    /\ spawned /\ spawned' = FALSE
    /\ UNCHANGED <<rowVars, manips, tracked, shown, now>>

(* A new connection knows neither the map nor the buffs.                   *)
Relog ==
    /\ spawned' = FALSE /\ manips' = <<>>
    /\ tracked' = [s \in Skill |-> Gone] /\ shown' = [s \in Skill |-> Gone]
    /\ UNCHANGED <<rowVars, now>>

(* handle_train_request: the class gate of passives, the rank cap and the  *)
(* price come before anything changes.                                     *)
can_train(s) == s \notin Foreign

(* _add_active_to_manipulators: the first id above all those in use.       *)
NextId == Max({OffBar} \cup {id + 1 : id \in {i \in DOMAIN manips : i >= OffBar}})

Train(s) ==
    /\ spawned /\ can_train(s)
    /\ LET next == rank[s] + 1 IN
        /\ next <= MaxRank /\ gold >= Cost[next]
        /\ gold' = gold - Cost[next]
        /\ rank' = [rank EXCEPT ![s] = next]
        /\ known' = IF rank[s] = 0 THEN Append(known, s) ELSE known
    /\ manips' = IF rank[s] = 0 /\ s \notin Passive
                 THEN Manip(manips, NextId, s) ELSE manips
    /\ UNCHANGED <<bar, spawned, tracked, shown, now>>

Minus(ids) == Restrict(manips, DOMAIN manips \ ids)
IdsOf(s) == {id \in DOMAIN manips : manips[id] = s}

(* The saved slots once skill s has slot i to itself.                      *)
Placed(s, i) ==
    [t \in Skill |->
        IF t = s THEN i
        ELSE IF bar[t] = i \/ (i \in DOMAIN manips /\ manips[i] = t) THEN NoSlot
        ELSE bar[t]]

(* _handle_hotbar_place: the skill leaves the first other id it has, and   *)
(* what it displaces leaves the bar.                                       *)
HotbarPlace(s, i) ==
    /\ spawned /\ rank[s] > 0
    /\ LET old == IdsOf(s) \ {i} IN
        manips' = Manip(IF old = {} THEN manips ELSE Minus({CHOOSE id \in old : TRUE}), i, s)
    /\ bar' = Placed(s, i)
    /\ UNCHANGED <<known, rank, gold, spawned, tracked, shown, now>>

(* _handle_hotbar_remove: whatever the session or the row has in the slot. *)
HotbarRemove(i) ==
    /\ spawned
    /\ LET removed == IF i \in DOMAIN manips THEN {manips[i]}
                      ELSE {t \in Skill : bar[t] = i}
       IN  bar' = [t \in Skill |-> IF bar[t] = i \/ t \in removed THEN NoSlot ELSE bar[t]]
    /\ manips' = Minus({i})
    /\ UNCHANGED <<known, rank, gold, spawned, tracked, shown, now>>

(* handle_self_cast: the skill is the one of the session's map.            *)
SelfCast(i) ==
    /\ spawned /\ i \in DOMAIN manips
    /\ TrackSkillBuff(manips[i])
    /\ UNCHANGED <<rowVars, spawned, manips, now>>

Next ==
    \/ Enter \/ TransferZone \/ Relog \/ Pass
    \/ \E s \in Skill : Train(s) \/ \E i \in Slot : HotbarPlace(s, i)
    \/ \E i \in Slot : HotbarRemove(i)
    \/ \E i \in DOMAIN manips : SelfCast(i)

Spec == Init /\ [][Next]_vars

-----------------------------------------------------------------------------
(* Properties *)

TypeOK ==
    /\ Range(known) = {s \in Skill : rank[s] > 0}
    /\ rank \in [Skill -> 0..MaxRank] /\ gold \in 0..Gold
    /\ bar \in [Skill -> Slot \cup {NoSlot}]
    /\ \A id \in DOMAIN manips : manips[id] \in Skill
    /\ tracked \in [Skill -> {Gone} \cup 0..MaxTime]

(* Slots nobody authored for a skill.                                      *)
Free == Slot \ Range(Authored)

(* In the slots that no class fills by itself, the map that casts are      *)
(* resolved with and the saved slots agree, over any places, removals,     *)
(* purchases and spawns: what is cast is what the bar shows after the next *)
(* login too.                                                              *)
BarAgrees ==
    spawned => \A i \in Free, s \in Skill :
                    (i \in DOMAIN manips /\ manips[i] = s) <=> bar[s] = i

(* A buff never outlasts its cast: what remains of it on the client, after *)
(* any number of zone changes and recasts, and the time since the cast     *)
(* come to no more than its duration.                                      *)
BuffsNotProlonged ==
    \A s \in Skill :
        tracked[s] # Gone /\ Lasts[s] > 0 /\ shown[s] # Gone
            => shown[s] + (now - tracked[s]) <= Lasts[s]

(* The ranks of a character were paid for: the gold it lost is the price   *)
(* of the ranks beyond its loadout.                                        *)
Worth(s) == SumTo(Cost, rank[s]) - IF s \in Range(Loadout) THEN Cost[1] ELSE 0
RanksPaid == TypeOK /\ gold = Gold - SumOver([s \in Skill |-> Worth(s)], Skill)
=============================================================================
