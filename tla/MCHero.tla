------------------------------- MODULE MCHero -------------------------------
EXTENDS Hero, TLC
CONSTANTS endurance
MCNeed == 2 :> 1 @@ 3 :> 2
ASSUME StatAssumption /\ NeedAssumption
=============================================================================
