------------------------------ MODULE MCChase -------------------------------
(***************************************************************************)
(* Two players, one of them with the client hook, and a monster on a line   *)
(* of four points; the combinations of the flags the program documents.     *)
(***************************************************************************)
EXTENDS Chase, TLC
CONSTANTS ann, bob, rat

ASSUME RangeAssumption /\ PlaceAssumption /\ IntervalAssumption
ASSUME BoundAssumption /\ SeniorityAssumption

MCSeniority == (ann :> 1 @@ bob :> 2)
MCHome == (rat :> 0)
MCModels ==
    {[who |-> "native", inject |-> FALSE, clamp |-> FALSE, late |-> {rat}]}
    \cup [who : {"follow"}, inject : {TRUE}, clamp : BOOLEAN, late : {{}}]
    \cup [who : {"follow"}, inject : {FALSE}, clamp : {FALSE}, late : {{}}]
    \cup [who : {"enroll"}, inject : {FALSE}, clamp : BOOLEAN, late : {{}}]
=============================================================================
