------------------------- MODULE MCCheckpointStore -------------------------
(* Instances of CheckpointStore for TLC. *)
EXTENDS CheckpointStore, TLC

CONSTANTS a, b, a1, a2, b1, c1, c2, c3, c4, t1, t2, t3, r1, r2, d1, d2

ObjectPath == [m \in Models |-> IF m = b1 THEN b ELSE a]
\* a takes two chunks of the pool, b one.
TwoAndOne == [p \in Paths |-> IF p = a THEN 2 ELSE 1]
OneEach == [p \in Paths |-> 1]
\* t2 loads b, the others a.
LoadsOf == [t \in Loads |-> IF t = t2 /\ b \in Paths THEN b ELSE a]
ReplicasOfA == [r \in Replicas |-> a]

Buffers == Permutations(Chunks)
\* Loads of the same path are alike, and so are its objects.
LoadsAndObjects == Permutations(Loads) \cup Permutations(Models)
=============================================================================
