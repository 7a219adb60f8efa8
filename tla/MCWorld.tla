------------------------------ MODULE MCWorld ------------------------------
(* World for TLC: a town and two levels of one dungeon, whose names the   *)
(* server maps to one world group.                                         *)
EXTENDS World, TLC

CONSTANTS Town, Level1, Level2

MCGcOf == Town :> "world.town" @@ Level1 :> "world.dungeon00" @@ Level2 :> "world.dungeon00"

MCPublic == {Town}

MCPrivate == {Level1, Level2}

MCOneLevel == {Level1}

Symmetry == Permutations(Party)
=============================================================================
