------------------------------ MODULE MCRouter ------------------------------
(* Instances of Router for TLC. *)
EXTENDS Router

UpToOne == <<0, 1>>
UpToTwo == <<0, 2>>
KeepOne == {<<UpToTwo, <<1, 2>>>>}
Symmetry == Permutations(Instances) \cup Permutations(Requests)
=============================================================================
