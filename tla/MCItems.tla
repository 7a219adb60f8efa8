------------------------------ MODULE MCItems -------------------------------
(* Small instances of Items: a bag of two cells of which a spawn loads one *)
(* or both, and one item of each sort.                                     *)
EXTENDS Items

Symmetry == Permutations(Player) \cup Permutations(Potion)

=============================================================================
