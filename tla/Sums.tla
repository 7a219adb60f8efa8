-------------------------------- MODULE Sums --------------------------------
(***************************************************************************)
(* Sums along numbers and over finite sets: recursive functions, which can  *)
(* be reasoned about where the folds of the library cannot.                 *)
(***************************************************************************)
EXTENDS Integers, SequencesExt, FiniteSets

(* w[1] + ... + w[n]                                                       *)
SumTo(w, n) ==
    LET sum[k \in 0..n] == IF k = 0 THEN 0 ELSE sum[k - 1] + w[k]
    IN  sum[n]

(* The sum of the values of f on S.                                        *)
SumOver(f, S) ==
    LET order == SetToSeq(S)
    IN  SumTo([i \in 1..Cardinality(S) |-> f[order[i]]], Cardinality(S))
=============================================================================
