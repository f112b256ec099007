------------------------------ MODULE MCReplan ------------------------------
(* Instances of Replan for TLC. *)
EXTENDS Replan

One == <<1, 1>>
Symmetry == Permutations(Instances) \cup Permutations(Requests)
AllOrders == SUBSET {"stop", "migrate"}
=============================================================================
