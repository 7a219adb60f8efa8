------------------------------ MODULE MCCombat ------------------------------
(* Combat for TLC: the players are interchangeable.                        *)
EXTENDS Combat, TLC

Symmetry == Permutations(Player)
=============================================================================
