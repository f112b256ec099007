--------------------------- MODULE MCFcfsOptions ---------------------------
(***************************************************************************)
(* FcfsScheduler with all its options, at one node.                        *)
(***************************************************************************)
EXTENDS FcfsScheduler

CONSTANTS a, b, i1, i2, n1, r1

\* i1 needs one GPU, i2 two.
OfA == [i \in Instances |-> a]
OneAndTwo == [i \in Instances |-> IF i = i2 THEN 2 ELSE 1]
AnyNode == [i \in Instances |-> NoNode]
TwoGpus == [n \in Nodes |-> 2]

\* The node is added without a count, or with the count 0.
AddedWith == [n \in Nodes |-> {<<>>, [total_gpu |-> 0]}]

=============================================================================
