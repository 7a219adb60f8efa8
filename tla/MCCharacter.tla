---------------------------- MODULE MCCharacter ----------------------------
(***************************************************************************)
(* Character for TLC: each of its four parts is explored in full.          *)
(***************************************************************************)
EXTENDS Character, TLC

CONSTANTS
    endurance,                    \* an attribute
    stomp, sprint, trait, other,  \* a skill of the bar, a buff, two passives
    ann, bob, c1, c2,             \* customers, one of them no member; two copies
    dagger, axe,                  \* kinds of a vendor, 1x1 and 1x2
    coins, sword                  \* drops

MCNeed == 2 :> 1 @@ 3 :> 2
MCLoadout == <<stomp, trait>>
MCSlot == 1..4
MCAuthored == stomp :> 1 @@ sprint :> 0 @@ trait :> 2 @@ other :> 0
MCCost == <<1, 2>>
MCLasts == stomp :> -1 @@ sprint :> 3 @@ trait :> -1 @@ other :> -1
MCSize == dagger :> <<1, 1>> @@ axe :> <<1, 2>>
MCPrice == dagger :> 1 @@ axe :> 1
=============================================================================
