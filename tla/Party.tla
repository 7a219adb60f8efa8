------------------------------- MODULE Party -------------------------------
(***************************************************************************)
(* What the group manager promises, with no tables, ids, connections or    *)
(* invitations: players are partitioned into parties, each led by one of   *)
(* its members, none larger than MaxGroupSize, and none survives the       *)
(* departure that would leave it with a single member.                     *)
(***************************************************************************)
EXTENDS Integers, FiniteSets

CONSTANTS Login,         \* the players
          MaxGroupSize   \* the most a party may seat

VARIABLE party           \* party[k]: who sits in the party k leads, k included

Unseated(l) == \A k \in Login : l \notin party[k]

(* p after l gives up its seat, if it has one; heir leads what l led.      *)
Vacated(p, l, heir) ==
    [k \in Login |->
        IF l \in p[k] THEN IF k = l \/ Cardinality(p[k]) <= 2 THEN {}
                           ELSE p[k] \ {l}
        ELSE IF k = heir /\ Cardinality(p[l]) > 2 THEN p[l] \ {l}
        ELSE p[k]]

Init == party = [k \in Login |-> {}]

Form(l) ==
    /\ Unseated(l)
    /\ party' = [party EXCEPT ![l] = {l}]

(* l takes a seat in the party of k, giving up the one it had.             *)
Join(l, k) ==
    /\ k # l
    /\ party[k] # {}
    /\ l \notin party[k]
    /\ Cardinality(party[k]) < MaxGroupSize
    /\ \/ /\ Cardinality(party[l]) <= 2
          /\ party' = [Vacated(party, l, l) EXCEPT ![k] = @ \cup {l}]
       \/ \E heir \in party[l] \ {l} :
             party' = [Vacated(party, l, heir) EXCEPT ![k] = @ \cup {l}]

Depart(l) ==
    /\ ~Unseated(l)
    /\ \/ /\ Cardinality(party[l]) <= 2
          /\ party' = Vacated(party, l, l)
       \/ \E heir \in party[l] \ {l} : party' = Vacated(party, l, heir)

(* k hands its party to h.                                                 *)
PassLeadership(k, h) ==
    /\ k # h
    /\ h \in party[k]
    /\ party' = [party EXCEPT ![k] = {}, ![h] = party[k]]

Next == \E l, k \in Login :
           \/ Form(l)
           \/ Join(l, k)
           \/ Depart(l)
           \/ PassLeadership(l, k)

Spec == Init /\ [][Next]_party
=============================================================================
