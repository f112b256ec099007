-------------------------- MODULE MCStoreContents --------------------------
(***************************************************************************)
(* What the memory of the checkpoint store holds: CheckpointStore with     *)
(* three host loads that may fail, and with a replica on two GPUs.  A      *)
(* behaviour is one of one of them, chosen at the start (which).  They     *)
(* share the variables whose types are the same.                           *)
(***************************************************************************)
EXTENDS CheckpointStore, TLC

CONSTANTS a, b, a1, b1, c1, c2, t1, t2, t3, r1, d1, d2

VARIABLES which, gpuLoad, gpuDead

allVars == <<vars, which, gpuLoad, gpuDead>>

\* A model of two chunks and one of one, on a pool of two; three loads.
ObjectPath == (a1 :> a) @@ (b1 :> b)
TwoAndOne == (a :> 2) @@ (b :> 1)
LoadsOf == (t1 :> a) @@ (t2 :> b) @@ (t3 :> a)
NoPaths == <<>>

\* Two loads, and a replica whose copies may fail.
Gpu == INSTANCE CheckpointStore WITH load <- gpuLoad, dead <- gpuDead,
    Loads <- {t1, t2}, LoadPath <- (t1 :> a) @@ (t2 :> b), Replicas <- {r1},
    ReplicaPath <- r1 :> a, Tries <- 2,
    ReadErrors <- FALSE, CopyErrors <- TRUE

NoHost == load = [t \in Loads |-> NoLoad] /\ dead = FALSE
NoGpu == gpuLoad = <<>> /\ gpuDead = FALSE

PartInit == \/ which = "host" /\ Init /\ NoGpu
            \/ which = "gpu" /\ Gpu!Init /\ NoHost

PartNext == \/ which = "host" /\ Next /\ UNCHANGED <<which, gpuLoad, gpuDead>>
            \/ which = "gpu" /\ Gpu!Next /\ UNCHANGED <<which, load, dead>>

PartSpec == PartInit /\ [][PartNext]_allVars

\* The chunks of the pool are alike, and so are the GPUs.
Alike == Permutations(Chunks) \cup Permutations(Devices)

-----------------------------------------------------------------------------
\* ReplicaHoldsModel and ConfirmMeansLoaded of CheckpointStore: a replica that
\* is LOADED, or that ConfirmModel answered for, has every chunk on every device,
\* copied after it was read from disk.
LoadedIsComplete ==
  which = "gpu" => Gpu!ReplicaHoldsModel /\ Gpu!ConfirmMeansLoaded

=============================================================================
