------------------------------ MODULE Character ------------------------------
(***************************************************************************)
(* What a character has: its level and attribute points (Hero), its skills  *)
(* and buffs (Skills), the vendor it buys from (Shop) and the units that    *)
(* follow it (Pets).  The four keep their state apart, as their managers    *)
(* do: a behaviour is one of them at work, which part says, and the others  *)
(* at rest.                                                                 *)
(***************************************************************************)
EXTENDS Integers, Sequences, FiniteSets

CONSTANTS
    Stat, Endurance, PerLevel, RespecCost, Need, ExactXp,       \* Hero
    Funds, MaxKills, MaxHurts, MaxTrips, MaxSpends, \* its Gold and MaxMoves among them
    Skill, Passive, Foreign, Loadout, Slot, Authored, MaxRank, Cost,    \* Skills
    Savings,                    \* its Gold
    Lasts, Buffer, MaxTime,
    Player, Copy,               \* Shop and Pets
    FreePlayer, Kind, RareKind, Size, Price, Width, Height, Ceiling,    \* Shop
    Purse,                      \* its Gold
    MaxLevel, MaxId, MaxUp, MaxMoves, MaxAsks,
    Drop, GoldPile, Convertible,                                        \* Pets
    MaxUnits, MaxLeaves         \* its MaxId and MaxMoves

VARIABLES
    part,
    row, cooling, hpWire, clientHp, hooked, unpaid, hook, sent, down, cli, tally,   \* Hero
    known, rank, gold, bar, spawned, manips, tracked, shown, now,                \* Skills
    stock, nextId, genFor, at, level, wallet, armed, refill, shelf, up, used,    \* Shop
    home, present, gnome, sweep, summons, lies, purse, screen, queue, unitId, jumps  \* Pets

heroVars == <<row, cooling, hpWire, clientHp, hooked, unpaid, hook, sent, down, cli, tally>>
skillVars == <<known, rank, gold, bar, spawned, manips, tracked, shown, now>>
shopVars == <<stock, nextId, genFor, at, level, wallet, armed, refill, shelf, up, used>>
petVars == <<home, present, gnome, sweep, summons, lies, purse, screen, queue, unitId, jumps>>

Progress == INSTANCE Hero WITH
    Gold <- Funds, MaxMoves <- MaxTrips, up <- sent, used <- tally
Ability == INSTANCE Skills WITH Gold <- Savings
Vendor == INSTANCE Shop WITH Gold <- Purse, gold <- wallet, shown <- shelf
Follower == INSTANCE Pets WITH
    MaxId <- MaxUnits, MaxMoves <- MaxLeaves,
    zone <- home, spawned <- present, nextId <- unitId, moves <- jumps

ASSUME HeroAssumption == Progress!StatAssumption /\ Progress!NeedAssumption
ASSUME SkillsAssumption ==
    /\ Ability!SlotAssumption /\ Ability!SkillAssumption /\ Ability!PriceAssumption
ASSUME ShopAssumption ==
    /\ Vendor!PlayerAssumption /\ Vendor!GridAssumption
    /\ Vendor!PriceAssumption /\ Vendor!CopyAssumption
ASSUME PetsAssumption == Follower!DropAssumption /\ Follower!NameAssumption

Init == /\ part \in {"progress", "ability", "vendor", "follower"}
        /\ Progress!Init /\ Ability!Init /\ Vendor!Init /\ Follower!Init
        /\ hooked => part = "progress"

Next ==
    \/ part = "progress" /\ Progress!Next /\ UNCHANGED <<part, skillVars, shopVars, petVars>>
    \/ part = "ability" /\ Ability!Next /\ UNCHANGED <<part, heroVars, shopVars, petVars>>
    \/ part = "vendor" /\ Vendor!Next /\ UNCHANGED <<part, heroVars, skillVars, petVars>>
    \/ part = "follower" /\ Follower!Next /\ UNCHANGED <<part, heroVars, skillVars, shopVars>>

vars == <<part, heroVars, skillVars, shopVars, petVars>>
Spec == Init /\ [][Next]_vars

(* The row never holds more points than its level earns, and a client that  *)
(* has taken every answer shows them (net/attributes.py).                   *)
PanelAgrees == part = "progress" => Progress!PanelAgrees

(* What is cast is what the bar shows after the next login too, every rank *)
(* was paid for, and what is left of a buff after zone changes and recasts *)
(* never exceeds what its cast gave.                                       *)
SkillsSound ==
    part = "ability" =>
        Ability!BarAgrees /\ Ability!RanksPaid /\ Ability!BuffsNotProlonged

(* A purchase gets the item its client showed, from a stock whose items do *)
(* not overlap, and stock is pushed to clients that have the vendor.       *)
BoughtAsShown ==
    part = "vendor" => Vendor!TypeOK /\ Vendor!StockApart /\ Vendor!BoughtAsShown /\ Vendor!PushesAtHome

(* Every unit on a screen is alive, is its owner's one, and had its        *)
(* component announced before its updates.                                 *)
NoGhosts ==
    part = "follower" => Follower!TypeOK /\ Follower!NoGhosts /\ Follower!UpdatesKnown

(* Gold is paid once for what was claimed, and a sweep takes nothing from  *)
(* a place its owner has left.                                             *)
PaidForClaims ==
    [](part = "follower" => Follower!PaidForClaims) /\ Follower!ConvertsAtHome
=============================================================================
