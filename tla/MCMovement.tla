----------------------------- MODULE MCMovement -----------------------------
(* A player who walks, acts and travels, and one who watches.              *)
EXTENDS Movement
CONSTANTS walker, watcher, town, dungeon
MCVisits == (walker :> 2) @@ (watcher :> 1)
=============================================================================
