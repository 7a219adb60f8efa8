------------------------------ MODULE MCQuests ------------------------------
(* Small instances of Quests: one quest that counts kills, one that counts *)
(* items, takes them away and can be repeated.                             *)
EXTENDS Quests

CONSTANTS Hunt, Trade

MCRequired ==
    [q \in Quest |-> [g \in Goal |->
        IF <<q, g>> \in {<<Hunt, "kill">>, <<Trade, "item">>} THEN 1 ELSE 0]]

MCCoins == [q \in Quest |-> IF q = Hunt THEN 1 ELSE 0]

=============================================================================
