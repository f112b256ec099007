--------------------------- MODULE MCFcfsScheduler ---------------------------
(***************************************************************************)
(* Small instances of FcfsScheduler for TLC.                               *)
(***************************************************************************)
EXTENDS FcfsScheduler

CONSTANTS a, b, i1, i2, i3, n1, n2, r1

\* i1 and i2 serve model a, i3 serves model b.
MCModelOf == [i \in Instances |-> IF i = i3 THEN b ELSE a]

\* i1 fits on either node, i2 needs two GPUs, i3 is pinned to n1.
MCGpus == [i \in Instances |-> IF i = i2 THEN 2 ELSE 1]
MCTarget == [i \in Instances |-> IF i = i3 THEN n1 ELSE NoNode]

\* One node with two GPUs and one single-GPU worker container.
MCTotalGpu == [n \in Nodes |-> IF n = n1 THEN 2 ELSE 1]

\* A node is added with any of its counts, given as they are.
MCNodeInfo ==
  [n \in Nodes |-> UNION {[K -> {MCTotalGpu[n]}] : K \in SUBSET {"total_gpu", "free_gpu"}}]
==============================================================================
