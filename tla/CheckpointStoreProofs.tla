----------------------- MODULE CheckpointStoreProofs ------------------------
(***************************************************************************)
(* The theorems about the checkpoint store.                                *)
(*                                                                         *)
(* For any models, requests and faults a buffer of the pinned memory pool  *)
(* is free or has one owner, and no memory is left with a model that nobody*)
(* can reach.  Without GPU replicas a LOADED model is complete and an      *)
(* eviction that stops early has freed enough, and without ClearMem no null*)
(* pointer is followed either.                                             *)
(***************************************************************************)
EXTENDS StoreStepProofs, StoreSafetyProofs, FiniteSetTheorems

-----------------------------------------------------------------------------
(* The pool *)

LEMMA FreeIsFinite ==
  ASSUME PoolInv
  PROVE  IsFiniteSet(free) /\ Cardinality(free) \in Nat
<1>1. IsFiniteSet(free)
  BY StoreAssumption, FS_Subset DEF PoolInv, PoolTypes
<1>2. QED
  BY <1>1, FS_CardinalityType

\* ReleasePinned gives as many buffers back as the model has chunks in memory.
LEMMA ReleaseCounts ==
  ASSUME PoolInv, NEW v \in Models, ReleasePinned(v)
  PROVE  Cardinality(free') = Cardinality(free) + Len(buf[v])
<1>1. buf[v] \in Seq(Chunks) /\ IsInjective(buf[v]) /\ Range(buf[v]) \cap free = {}
  BY DEF PoolInv, PoolTypes, PoolPartition
<1> DEFINE n == Len(buf[v])
<1>2. n \in Nat /\ DOMAIN buf[v] = 1..n
  BY <1>1
<1>3. IsFiniteSet(1..n) /\ Cardinality(1..n) = n
  BY <1>2, FS_Interval
<1>4. ExistsBijection(1..n, Range(buf[v]))
  <2>1. buf[v] \in [1..n -> Range(buf[v])]
    BY <1>1, <1>2 DEF Range
  <2>2. buf[v] \in Injection(1..n, Range(buf[v]))
    BY <1>1, <1>2, <2>1 DEF Injection, IsInjective
  <2>3. buf[v] \in Surjection(1..n, Range(buf[v]))
    BY <1>2, <2>1 DEF Surjection, Range
  <2>4. QED
    BY <2>2, <2>3 DEF ExistsBijection, Bijection
<1>5. IsFiniteSet(Range(buf[v])) /\ Cardinality(Range(buf[v])) = n
  BY <1>3, <1>4, FS_Bijection
<1>6. IsFiniteSet(free) /\ Cardinality(free) \in Nat
  BY FreeIsFinite
<1>7. free' = free \cup Range(buf[v]) /\ free \cap Range(buf[v]) = {}
  BY <1>1 DEF ReleasePinned
<1>8. Cardinality(free \cap Range(buf[v])) = 0
  BY <1>7, FS_EmptySet
<1>9. Cardinality(free \cup Range(buf[v])) =
        Cardinality(free) + Cardinality(Range(buf[v])) - Cardinality(free \cap Range(buf[v]))
  BY <1>5, <1>6, FS_Union
<1>10. QED
  BY <1>2, <1>5, <1>6, <1>7, <1>8, <1>9

LEMMA FreeIsCounted ==
  ASSUME PoolInv, PoolInv'
  PROVE  Counted
<1>1. IsFiniteSet(free') /\ Cardinality(free') \in Nat
  <2>1. IsFiniteSet(free')
    BY StoreAssumption, FS_Subset DEF PoolInv, PoolTypes
  <2>2. QED
    BY <2>1, FS_CardinalityType
<1>2. free \subseteq free' => Cardinality(free) <= Cardinality(free')
  BY <1>1, FS_Subset
<1>3. QED
  BY <1>1, <1>2, FreeIsFinite, ReleaseCounts, Zenon DEF Counted

\* StoreInv, the invariant below the three theorems, holds throughout.
THEOREM StoreInvariance == Spec => []StoreInv
<1>1. StoreInv <=> TypesInv /\ Reachable
  BY DEF StoreInv, TypesInv, Reachable
<1>2. StoreInv' <=> TypesInv' /\ Reachable'
  BY DEF StoreInv, TypesInv, Reachable
<1>3. StoreInv /\ [Next]_vars => StoreInv'
  BY <1>1, <1>2, FreeIsFinite, NextStore, StutterStore DEF Reachable
<1>4. QED
  BY <1>3, InitStore, PTL DEF Spec

\* The store's maps, the pool, the models and the threads stay well formed,
\* whatever requests come in and whatever fails.
THEOREM StoreTypes == Spec => []TypeOK
<1>1. StoreInv => TypeOK
  <2> SUFFICES ASSUME StoreInv PROVE TypeOK
    OBVIOUS
  <2>1. Range(access) \subseteq Paths
    BY DEF StoreInv, References, MapsInv, Range
  <2>2. \A r \in Replicas : rep[r].st \in ReplicaStates
    BY DEF StoreInv, References, ReplicasInv, IsReplica
  <2>3. QED
    BY <2>1, <2>2 DEF StoreInv, References, MapsInv, WaitersInv, ContentsInv, PoolInv,
       PoolTypes, Buffered, TypeOK
<1>2. QED
  BY <1>1, StoreInvariance, PTL

\* The pinned memory pool is partitioned: every buffer is in free_list_ or is one
\* chunk of one model's pinned_mem_, however loads, evictions, FreeHost calls and
\* ClearMem interleave.  No buffer leaks and none has two owners.
THEOREM PoolIsPartitioned == Spec => []PoolPartition
<1>1. StoreInv => PoolPartition
  BY DEF StoreInv, PoolInv
<1>2. QED
  BY <1>1, StoreInvariance, PTL

\* Memory never stays with a model that nothing can reach: ClearMem drops a model
\* from model_map_ only when its memory is gone or a thread still holds it, and
\* the last such thread destroys it.
THEOREM MemoryIsReachable == Spec => []NoOrphanMemory
<1>1. StoreInv => NoOrphanMemory
  BY DEF StoreInv
<1>2. QED
  BY <1>1, StoreInvariance, PTL

-----------------------------------------------------------------------------
(* A LOADED model is complete *)

\* Without GPU replicas HostInv, the invariant about the one load that reads a
\* model, holds throughout.
THEOREM HostInvariance ==
  ASSUME Replicas = {}
  PROVE  Spec => []HostInv
<1>1. StoreInv => TypesInv /\ Reachable
  BY DEF StoreInv, TypesInv, Reachable
<1>2. StoreInv /\ HostInv /\ [Next]_vars => HostInv'
  BY <1>1, HostNext, HostStutter
<1>3. QED
  BY <1>2, HostInit, StoreInvariance, PTL DEF Spec

\* A model that Model::ToHost left LOADED has every chunk in its own buffers, as
\* long as it is LOADED: two loads of a path never read into the same model, no
\* eviction, FreeHost or ClearMem takes the memory of a model being read, and no
\* other load writes into it.  For any models, loads, read errors, unloads and
\* clears, without GPU replicas.
THEOREM LoadedHostIsComplete ==
  ASSUME Replicas = {}
  PROVE  Spec => []HostHoldsModel
<1>1. HostInv => HostHoldsModel
  BY DEF HostInv
<1>2. QED
  BY <1>1, HostInvariance, PTL

-----------------------------------------------------------------------------
(* An eviction that stops early has freed enough *)

\* LoadModelFromDisk ignores that its second AllocatePinnedMemory may say "not
\* enough"; without GPU replicas it never does.  The eviction loop stops early
\* only when what it freed and what was free is enough, and model_info_mutex_
\* keeps every other load from taking any of it.
THEOREM EvictionIsEnough ==
  ASSUME Replicas = {}
  PROVE  Spec => []EvictionSuffices
<1>1. StoreInv => TypesInv /\ Reachable /\ LoadsInv /\ PoolInv
  BY Zenon DEF StoreInv, TypesInv, Reachable, References
<1>2. StoreInv' => PoolInv'
  BY Zenon DEF StoreInv
<1>3. StoreInv /\ StoreInv' /\ HostInv /\ Rationed /\ [Next]_vars => Rationed'
  BY <1>1, <1>2, FreeIsCounted, RationNext, Zenon
<1>4. StoreInv /\ Rationed => EvictionSuffices
  BY <1>1, FreeIsFinite, RationSuffices, Zenon
<1>5. QED
  BY <1>3, <1>4, RationInit, StoreInvariance, HostInvariance, PTL DEF Spec

-----------------------------------------------------------------------------
(* No null pointer is followed *)

\* Without GPU replicas and without ClearMem no thread dereferences a null
\* pointer: eviction only meets paths that are in model_map_, and a model that
\* TryFreeHost or FreeHost has to free still has its pinned_mem_, however loads,
\* evictions, failed reads and unloads interleave.
THEOREM NothingNullIsFollowed ==
  ASSUME Replicas = {}, ~Clears
  PROVE  Spec => []NoCrash
<1> DEFINE SafeInv == Initialized /\ Listed /\ ~dead
<1>1. StoreInv => TypesInv /\ Reachable
  BY Zenon DEF StoreInv, TypesInv, Reachable
<1>2. StoreInv' => TypesInv'
  BY Zenon DEF StoreInv, TypesInv
<1>3. Init => SafeInv
  BY SafeInit, Zenon
<1>4. StoreInv /\ StoreInv' /\ HostInv /\ SafeInv /\ [Next]_vars => SafeInv'
  BY <1>1, <1>2, SafeNext, Zenon
<1>5. SafeInv => NoCrash
  BY Zenon DEF NoCrash
<1>6. QED
  BY <1>3, <1>4, <1>5, StoreInvariance, HostInvariance, PTL DEF Spec

=============================================================================
