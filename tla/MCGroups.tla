------------------------------ MODULE MCGroups ------------------------------
(* Small instances of Groups for TLC.                                      *)
EXTENDS Groups, TLC

(* Nothing in the manager distinguishes one account from another.          *)
Symmetry == Permutations(Login)
=============================================================================
