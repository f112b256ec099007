------------------------ MODULE FcfsSchedulerProofs ------------------------
(***************************************************************************)
(* Theorems about FcfsScheduler, for every cluster, every set of requests  *)
(* and every configuration.                                                *)
(***************************************************************************)
EXTENDS FcfsScheduler, FiniteSetTheorems, SequenceTheorems, TLAPS

-----------------------------------------------------------------------------
(* Counting GPUs *)

\* The unit set that stands for a sum over finitely many requests is finite.
LEMMA UnitsFinite ==
  ASSUME NEW S, IsFiniteSet(S), NEW K \in SUBSET S, NEW w,
         \A x \in K : w[x] \in Nat
  PROVE  IsFiniteSet(Units(K, w)) /\ Cardinality(Units(K, w)) \in Nat
<1> DEFINE Block(x) == {x} \X (1..w[x])
           f == [x \in K |-> Block(x)]
           T == {Block(x) : x \in K}
<1>1. IsFiniteSet(K)
  BY FS_Subset
<1>2. f \in Surjection(K, T)
  BY DEF Surjection
<1>3. IsFiniteSet(T)
  BY <1>1, <1>2, FS_Surjection
<1>4. ASSUME NEW x \in K PROVE IsFiniteSet(Block(x))
  <2>1. IsFiniteSet(1..w[x])
    BY FS_Interval
  <2>2. QED
    BY <2>1, FS_Singleton, FS_Product
<1>5. IsFiniteSet(UNION T)
  <2>1. \A t \in T : IsFiniteSet(t)
    BY <1>4
  <2>2. QED
    BY <1>3, <2>1, FS_UNION
<1>6. QED
  BY <1>5, FS_CardinalityType DEF Units

\* What a record counts for on a node is a number of GPUs.
LEMMA CountedNat ==
  ASSUME TypeOK, NEW i \in Instances, NEW n \in Nodes
  PROVE  Counted(entry[i], n) \in Nat
BY DEF TypeOK, RequestsOK, Entry, Counted

\* So is what any set of records counts for together.
LEMMA EntryGpusFinite ==
  ASSUME TypeOK, NEW n \in Nodes, NEW K \in SUBSET Instances
  PROVE  /\ IsFiniteSet(EntryGpus(K, n))
         /\ Cardinality(EntryGpus(K, n)) \in Nat
<1>1. \A i \in Instances : [j \in Instances |-> Counted(entry[j], n)][i] \in Nat
  BY CountedNat
<1>2. QED
  BY <1>1, UnitsFinite, FcfsAssumption DEF EntryGpus

LEMMA AllocatedNat ==
  ASSUME TypeOK, NEW n \in Nodes
  PROVE  Allocated(n) \in Nat
BY EntryGpusFinite DEF Allocated, RecordedGpus, Held

\* _apply_scheduler_capacity returns a count that, with the allocations it was
\* given, stays within any bound both of them respect.
LEMMA CapacityBounds ==
  ASSUME NEW total \in Int, NEW free \in Int, NEW used \in Int
  PROVE  /\ Capacity(total, free, used) \in Nat
         /\ \A T \in Int : total <= T /\ used <= T
                             => Capacity(total, free, used) + used <= T
BY DEF Capacity, Max2, Min2

LEMMA RefreshedType == TypeOK => Refreshed \in NodeTable
<1> SUFFICES ASSUME TypeOK, NEW n \in Nodes PROVE Refreshed[n] \in NodeRow
  BY DEF Refreshed, NodeTable
<1>1. nodes[n] \in NodeRow /\ TotalGpu[n] \in Nat
  BY FcfsAssumption DEF TypeOK, NodeTable
<1>2. Allocated(n) \in Int
  BY AllocatedNat
<1>3. Capacity(TotalGpu[n], TotalGpu[n], Allocated(n)) \in Int
  BY <1>1, <1>2 DEF Capacity, Max2, Min2
<1>4. Capacity(nodes[n].total, nodes[n].free, Allocated(n)) \in Int
  BY <1>1, <1>2 DEF NodeRow, Capacity, Max2, Min2
<1>5. QED
  BY <1>1, <1>3, <1>4 DEF Refreshed, ListedFree, KeptState, NodeRow

-----------------------------------------------------------------------------
(* Python lists *)

LEMMA IndexOfIn ==
  ASSUME NEW S, NEW s \in Seq(S), NEW x \in Range(s)
  PROVE  IndexOf(s, x) \in 1..Len(s) /\ s[IndexOf(s, x)] = x
<1>1. \E k \in DOMAIN s : s[k] = x
  BY DEF Range
<1>2. QED
  BY <1>1 DEF IndexOf

\* list.remove closes the gap the element leaves.
LEMMA TakeOutElements ==
  ASSUME NEW S, NEW s \in Seq(S), NEW x \in Range(s)
  PROVE  /\ TakeOut(s, x) \in Seq(S)
         /\ Len(TakeOut(s, x)) = Len(s) - 1
         /\ \A k \in 1..Len(s) - 1 :
              TakeOut(s, x)[k] = IF k < IndexOf(s, x) THEN s[k] ELSE s[k + 1]
<1> DEFINE p == IndexOf(s, x)
           l == SubSeq(s, 1, p - 1)
           r == SubSeq(s, p + 1, Len(s))
<1>1. p \in 1..Len(s) /\ Len(s) \in Nat
  BY IndexOfIn, LenProperties
<1> HIDE DEF p
<1>2. l \in Seq(S) /\ Len(l) = p - 1 /\ \A k \in 1..p - 1 : l[k] = s[k]
  BY <1>1
<1>3. /\ r \in Seq(S) /\ Len(r) = Len(s) - p
      /\ \A k \in 1..Len(s) - p : r[k] = s[p + k]
  BY <1>1
<1>4. TakeOut(s, x) = l \o r
  BY DEF TakeOut, p
<1> HIDE DEF l, r
<1>5. /\ l \o r \in Seq(S)
      /\ Len(l \o r) = Len(l) + Len(r)
      /\ \A k \in 1..Len(l) + Len(r) :
           (l \o r)[k] = IF k <= Len(l) THEN l[k] ELSE r[k - Len(l)]
  BY <1>2, <1>3, ConcatProperties
<1>6. ASSUME NEW k \in 1..Len(s) - 1
      PROVE  (l \o r)[k] = IF k < p THEN s[k] ELSE s[k + 1]
  <2>0. k \in 1..Len(l) + Len(r)
    BY <1>1, <1>2, <1>3
  <2>1. CASE k < p
    <3>1. k <= Len(l) /\ k \in 1..p - 1
      BY <1>1, <1>2, <2>1
    <3>2. QED
      BY <1>2, <1>5, <2>0, <2>1, <3>1
  <2>2. CASE ~(k < p)
    <3>1. /\ ~(k <= Len(l))
          /\ k - Len(l) \in 1..Len(s) - p
          /\ p + (k - Len(l)) = k + 1
      BY <1>1, <1>2, <2>2
    <3>2. (l \o r)[k] = r[k - Len(l)]
      BY <1>5, <2>0, <3>1
    <3>3. r[k - Len(l)] = s[p + (k - Len(l))]
      BY <1>3, <3>1
    <3>4. QED
      BY <2>2, <3>1, <3>2, <3>3
  <2>3. QED
    BY <2>1, <2>2
<1>7. Len(l \o r) = Len(s) - 1
  BY <1>1, <1>2, <1>3, <1>5
<1>8. QED
  BY <1>4, <1>5, <1>6, <1>7 DEF p

\* It keeps every other element and, when the list has no duplicates, removes
\* this one for good and creates none.
LEMMA TakeOutSet ==
  ASSUME NEW S, NEW s \in Seq(S), NEW x \in Range(s)
  PROVE  /\ Range(TakeOut(s, x)) \subseteq Range(s)
         /\ Range(s) \ {x} \subseteq Range(TakeOut(s, x))
         /\ IsInjective(s) => /\ IsInjective(TakeOut(s, x))
                              /\ x \notin Range(TakeOut(s, x))
<1> DEFINE t == TakeOut(s, x)
           p == IndexOf(s, x)
<1>1. p \in 1..Len(s) /\ s[p] = x /\ Len(s) \in Nat /\ DOMAIN s = 1..Len(s)
  BY IndexOfIn, LenProperties
<1>2. DOMAIN t = 1..Len(s) - 1
  BY TakeOutElements, <1>1
<1>3. \A k \in 1..Len(s) - 1 : t[k] = IF k < p THEN s[k] ELSE s[k + 1]
  BY TakeOutElements
<1> HIDE DEF t, p
<1>4. Range(t) \subseteq Range(s)
  BY <1>1, <1>2, <1>3 DEF Range
<1>5. ASSUME NEW y \in Range(s), y # x PROVE y \in Range(t)
  <2>1. PICK k \in 1..Len(s) : s[k] = y
    BY <1>1 DEF Range
  <2>2. CASE k < p
    <3>1. k \in 1..Len(s) - 1 /\ t[k] = y
      BY <1>1, <1>3, <2>1, <2>2
    <3>2. QED
      BY <1>2, <3>1 DEF Range
  <2>3. CASE k > p
    <3>1. k - 1 \in 1..Len(s) - 1 /\ t[k - 1] = y
      BY <1>1, <1>3, <2>1, <2>3
    <3>2. QED
      BY <1>2, <3>1 DEF Range
  <2>4. QED
    BY <1>1, <1>5, <2>1, <2>2, <2>3
<1>6. ASSUME IsInjective(s) PROVE IsInjective(t) /\ x \notin Range(t)
  <2>1. \A k, l \in 1..Len(s) : s[k] = s[l] => k = l
    BY <1>1, <1>6 DEF IsInjective
  <2>2. \A k, l \in 1..Len(s) - 1 : t[k] = t[l] => k = l
    BY <1>1, <1>3, <2>1
  <2>3. \A k \in 1..Len(s) - 1 : t[k] # x
    BY <1>1, <1>3, <2>1
  <2>4. QED
    BY <1>2, <2>2, <2>3 DEF IsInjective, Range
<1>7. QED
  BY <1>4, <1>5, <1>6 DEF t

LEMMA AppendSet ==
  ASSUME NEW S, NEW s \in Seq(S), NEW x \in S
  PROVE  /\ Range(Append(s, x)) = Range(s) \cup {x}
         /\ IsInjective(s) /\ x \notin Range(s) => IsInjective(Append(s, x))
<1>1. Len(s) \in Nat /\ DOMAIN s = 1..Len(s)
  BY LenProperties
<1>2. /\ DOMAIN Append(s, x) = 1..Len(s) + 1
      /\ \A k \in 1..Len(s) : Append(s, x)[k] = s[k]
      /\ Append(s, x)[Len(s) + 1] = x
  BY AppendProperties, <1>1
<1>3. Range(Append(s, x)) = Range(s) \cup {x}
  BY <1>1, <1>2 DEF Range
<1>4. ASSUME IsInjective(s), x \notin Range(s) PROVE IsInjective(Append(s, x))
  BY <1>1, <1>2, <1>4 DEF IsInjective, Range
<1>5. QED
  BY <1>3, <1>4

LEMMA QueuedType == TypeOK => QueuedInstances \subseteq Instances
<1>1. ASSUME NEW s \in Seq(Instances) PROVE Range(s) \subseteq Instances
  BY DEF Range
<1>2. QED
  BY <1>1 DEF TypeOK, QueuesOK, QueuedInstances

-----------------------------------------------------------------------------
(* Type correctness *)

LEMMA NoNodesType == NoNodes \in NodeTable
BY DEF NoNodes, NodeTable, NodeRow, Unknown, NodeState

LEMMA NoPassType == NoPass \in Pass
BY NoNodesType DEF NoPass, Pass, NoRank, NoSpread

LEMMA NoEntryType == NoEntry \in Entry
BY DEF NoEntry, Entry, NoSpread

LEMMA InitType == Init => TypeOK
<1> SUFFICES ASSUME Init PROVE TypeOK
  OBVIOUS
<1>1. QueuesOK
  BY DEF Init, QueuesOK
<1>2. RequestsOK
  BY NoEntryType DEF Init, RequestsOK, Status
<1>3. CallsOK
  BY DEF Init, CallsOK, NoCalls
<1>4. RayOK
  BY DEF Init, RayOK, NodeState
<1>5. QED
  BY <1>1, <1>2, <1>3, <1>4, NoNodesType, NoPassType DEF Init, TypeOK

\* Each step leaves most of the state alone; these lemmas carry the parts of
\* the type invariant over such a step.
LEMMA QueuesKept ==
  ASSUME QueuesOK, UNCHANGED <<queues, keys>> PROVE QueuesOK'
BY DEF QueuesOK

LEMMA RequestsKept ==
  ASSUME RequestsOK, UNCHANGED <<status, grant, entry, cancelled>>
  PROVE  RequestsOK'
BY DEF RequestsOK

LEMMA CallsKept == ASSUME CallsOK, UNCHANGED calls PROVE CallsOK'
BY DEF CallsOK

LEMMA RayKept == ASSUME RayOK, UNCHANGED <<listed, busy, marked>> PROVE RayOK'
BY DEF RayOK

LEMMA StartType == ASSUME TypeOK, Start PROVE TypeOK'
<1>1. loop' \in Pass
  BY NoPassType DEF Start, Pass
<1>2. QED
  BY <1>1, QueuesKept, RequestsKept, CallsKept, RayKept
     DEF TypeOK, Start, ray, history

LEMMA ShutdownType == ASSUME TypeOK, Shutdown PROVE TypeOK'
<1>1. QueuesOK'
  BY DEF TypeOK, Shutdown, QueuesOK
<1>2. RequestsOK'
  BY DEF TypeOK, Shutdown, RequestsOK, Status, history
<1>3. QED
  BY <1>1, <1>2, CallsKept, RayKept DEF TypeOK, Shutdown, ray, history

LEMMA AllocateResourceType ==
  ASSUME TypeOK, NEW i \in Instances, AllocateResource(i)
  PROVE  TypeOK'
<1>1. ModelOf[i] \in Models
  BY FcfsAssumption
<1>2. queues' \in [Models -> Seq(Instances)] /\ keys' \in Seq(Models)
  BY <1>1, AppendProperties DEF TypeOK, QueuesOK, AllocateResource
<1>3. RequestsOK'
  BY DEF TypeOK, AllocateResource, RequestsOK, Status, history
<1>4. QED
  BY <1>2, <1>3, CallsKept, RayKept
     DEF TypeOK, QueuesOK, AllocateResource, ray, history

LEMMA AllocationResumesType ==
  ASSUME TypeOK, NEW i \in Instances, AllocationResumes(i)
  PROVE  TypeOK'
<1>1. [node |-> grant[i], num |-> Gpus[i], spread |-> NoSpread] \in Entry
  BY FcfsAssumption DEF TypeOK, RequestsOK, Entry, NoSpread
<1>2. RequestsOK'
  BY <1>1 DEF TypeOK, AllocationResumes, RequestsOK, Status, history
<1>3. QED
  BY <1>2, QueuesKept, CallsKept, RayKept
     DEF TypeOK, AllocationResumes, ray, history

-----------------------------------------------------------------------------
(* The control loop *)

LEMMA LoopExitsType == ASSUME TypeOK, LoopExits PROVE TypeOK'
BY NoPassType, QueuesKept, RequestsKept, CallsKept, RayKept
   DEF TypeOK, LoopExits, ray, history

\* Merging the backends' reports into a table leaves a table.
LEMMA WithReportsType ==
  ASSUME NEW tab \in NodeTable, NEW told
  PROVE  WithReports(tab, told) \in NodeTable
BY FcfsAssumption DEF WithReports, NodeTable, NodeRow

LEMMA LoopCollectsType == ASSUME TypeOK, LoopCollects PROVE TypeOK'
<1>1. nodes' \in NodeTable /\ loop' \in Pass
  <2>1. loop.snap \in NodeTable
    BY DEF TypeOK, Pass
  <2>2. nodes' \in NodeTable
    BY <2>1, WithReportsType DEF LoopCollects
  <2>3. loop' \in Pass
    BY NoNodesType DEF TypeOK, Pass, LoopCollects
  <2>4. QED
    BY <2>2, <2>3
<1>2. QED
  BY <1>1, QueuesKept, RequestsKept, CallsKept, RayKept
     DEF TypeOK, LoopCollects, ray, history

LEMMA LoopGrantsType ==
  ASSUME TypeOK, NEW i \in Instances, NEW n \in Nodes, LoopGrants(i, n)
  PROVE  TypeOK'
<1>1. QueuesOK'
  <2>1. ModelOf[i] \in Models /\ queues[ModelOf[i]] \in Seq(Instances)
    BY FcfsAssumption DEF TypeOK, QueuesOK
  <2>2. TakeOut(queues[ModelOf[i]], i) \in Seq(Instances)
    BY <2>1, TakeOutElements DEF LoopGrants, StillListed
  <2>3. QED
    BY <2>1, <2>2 DEF TypeOK, QueuesOK, LoopGrants
<1>2. loop' \in Pass
  <2>1. [loop.free EXCEPT ![n] = @ - Gpus[i]] \in [Nodes -> Int]
    BY FcfsAssumption DEF TypeOK, Pass
  <2>2. loop' = [loop EXCEPT !.todo = @ \ {i},
                             !.free = [loop.free EXCEPT ![n] = @ - Gpus[i]]]
    BY DEF LoopGrants
  <2>3. QED
    BY <2>1, <2>2 DEF TypeOK, Pass
<1>3. RequestsOK'
  BY DEF TypeOK, LoopGrants, RequestsOK, Status, history
<1>4. QED
  BY <1>1, <1>2, <1>3, CallsKept, RayKept DEF TypeOK, LoopGrants, ray, history

LEMMA LoopSkipsType ==
  ASSUME TypeOK, NEW i \in Instances, LoopSkips(i)
  PROVE  TypeOK'
<1>1. loop' \in Pass
  BY DEF TypeOK, Pass, LoopSkips
<1>2. QED
  BY <1>1, QueuesKept, RequestsKept, CallsKept, RayKept
     DEF TypeOK, LoopSkips, ray, history

LEMMA LoopCrashesType ==
  ASSUME TypeOK, NEW i \in Instances, LoopCrashes(i)
  PROVE  TypeOK'
<1>1. loop' \in Pass
  BY NoPassType DEF LoopCrashes, Pass
<1>2. QED
  BY <1>1, QueuesKept, RequestsKept, CallsKept, RayKept
     DEF TypeOK, LoopCrashes, ray, history

LEMMA LoopUpdatesType == ASSUME TypeOK, LoopUpdates PROVE TypeOK'
<1>1. nodes' \in NodeTable
  BY DEF TypeOK, LoopUpdates, NodeTable, NodeRow, Pass
<1>2. loop' \in Pass
  BY NoPassType DEF LoopUpdates, Pass
<1>3. QED
  BY <1>1, <1>2, QueuesKept, RequestsKept, CallsKept, RayKept
     DEF TypeOK, LoopUpdates, ray, history

\* A model with a queued request has a key in model_loading_queues: with it the
\* sort key of every queued request is defined.
KeysPresent == \A m \in Models : Range(queues[m]) # {} => HasQueue(m)

QueueInv == TypeOK /\ QueuedExactlyOnce /\ KeysPresent

LEMMA RankType ==
  ASSUME QueueInv, NEW i \in QueuedInstances
  PROVE  RankOf(i) \in Nat \X Nat
<1>1. PICK m \in Models : i \in Range(queues[m])
  BY DEF QueuedInstances
<1>2. ModelOf[i] = m /\ m \in Range(keys)
  BY <1>1 DEF QueueInv, QueuedExactlyOnce, KeysPresent, HasQueue
<1>3. queues[m] \in Seq(Instances) /\ keys \in Seq(Models)
  BY DEF QueueInv, TypeOK, QueuesOK
<1>4. IndexOf(queues[m], i) \in Nat
  BY <1>1, <1>3, IndexOfIn, LenProperties
<1>5. IndexOf(keys, m) \in Nat
  BY <1>2, <1>3, IndexOfIn, LenProperties
<1>6. QED
  BY <1>2, <1>4, <1>5 DEF RankOf

LEMMA PassOverType ==
  ASSUME QueueInv PROVE PassOver(Refreshed) \in Pass
<1>1. [n \in Nodes |-> Refreshed[n].free] \in [Nodes -> Int]
  BY RefreshedType DEF QueueInv, NodeTable, NodeRow
<1>2. [i \in Instances |-> IF i \in QueuedInstances THEN RankOf(i) ELSE NoRank]
        \in [Instances -> Nat \X Nat]
  BY RankType DEF NoRank
<1>3. QED
  BY <1>1, <1>2, QueuedType, NoNodesType DEF PassOver, Pass, QueueInv

LEMMA LoopRefreshesType == ASSUME QueueInv, LoopRefreshes PROVE TypeOK'
BY PassOverType, RefreshedType, QueuesKept, RequestsKept, CallsKept, RayKept
   DEF QueueInv, TypeOK, LoopRefreshes, ray, history

LEMMA LoopSuspendsType == ASSUME QueueInv, LoopSuspends PROVE TypeOK'
<1>1. loop' \in Pass
  BY PassOverType, RefreshedType DEF LoopSuspends, QueueInv, Pass
<1>2. QED
  BY <1>1, QueuesKept, RequestsKept, CallsKept, RayKept
     DEF QueueInv, TypeOK, LoopSuspends, ray, history

-----------------------------------------------------------------------------
(* The other calls *)

LEMMA RefreshType == ASSUME TypeOK, Refresh PROVE TypeOK'
BY RefreshedType, QueuesKept, RequestsKept, CallsKept, RayKept
   DEF TypeOK, Refresh, ray, history

LEMMA SuspendedType ==
  ASSUME TypeOK, NEW c \in Routers \cup Instances, calls' = Suspended(c)
  PROVE  CallsOK'
BY RefreshedType DEF TypeOK, CallsOK, Suspended

LEMMA AnsweredType ==
  ASSUME CallsOK, NEW c, calls' = Answered(c)
  PROVE  CallsOK'
BY DEF CallsOK, Answered

LEMMA RefreshSuspendsType ==
  ASSUME TypeOK, NEW r \in Routers, RefreshSuspends(r)
  PROVE  TypeOK'
BY SuspendedType, QueuesKept, RequestsKept, RayKept
   DEF TypeOK, RefreshSuspends, ray, history

LEMMA RefreshCollectsType ==
  ASSUME TypeOK, NEW r \in Routers, RefreshCollects(r)
  PROVE  TypeOK'
<1>1. nodes' \in NodeTable
  BY WithReportsType DEF TypeOK, CallsOK, RefreshCollects
<1>2. QED
  BY <1>1, AnsweredType, QueuesKept, RequestsKept, RayKept
     DEF TypeOK, RefreshCollects, ray, history

\* Whatever table it plans on, a distributed reservation leaves well-typed
\* records and capacities.
LEMMA ReserveAcrossType ==
  ASSUME TypeOK, NEW i \in Instances, NEW tab \in NodeTable,
         ReserveAcross(i, tab), UNCHANGED <<grant, cancelled>>
  PROVE  RequestsOK' /\ nodes' \in NodeTable
<1>1. Gpus[i] \in Nat
  BY FcfsAssumption
<1>2. PICK T \in SUBSET Nodes \ {{}}, all \in BOOLEAN :
        \/ \E a \in [Nodes -> 0..Gpus[i]] : \E p \in T :
             /\ nodes' = [n \in Nodes |->
                            IF a[n] > 0
                              THEN [tab[n] EXCEPT !.free = Max2(0, @ - a[n])]
                              ELSE tab[n]]
             /\ entry' = [entry EXCEPT ![i] = [node |-> p, num |-> Gpus[i],
                                               spread |-> a]]
             /\ status' = [status EXCEPT ![i] = "held"]
        \/ /\ nodes' = tab
           /\ status' = [status EXCEPT ![i] = "failed"]
           /\ UNCHANGED entry
  BY DEF ReserveAcross
<1>3. ASSUME NEW a \in [Nodes -> 0..Gpus[i]], NEW p \in T,
             nodes' = [n \in Nodes |->
                            IF a[n] > 0
                              THEN [tab[n] EXCEPT !.free = Max2(0, @ - a[n])]
                              ELSE tab[n]],
             entry' = [entry EXCEPT ![i] = [node |-> p, num |-> Gpus[i],
                                            spread |-> a]],
             status' = [status EXCEPT ![i] = "held"]
      PROVE  RequestsOK' /\ nodes' \in NodeTable
  <2>1. [node |-> p, num |-> Gpus[i], spread |-> a] \in Entry
    BY <1>1 DEF Entry
  <2>2. RequestsOK'
    BY <1>3, <2>1 DEF TypeOK, RequestsOK, Status
  <2>3. ASSUME NEW n \in Nodes PROVE nodes'[n] \in NodeRow
    BY <1>1, <1>3 DEF NodeTable, NodeRow, Max2
  <2>4. QED
    BY <1>3, <2>2, <2>3 DEF NodeTable
<1>4. CASE /\ nodes' = tab
           /\ status' = [status EXCEPT ![i] = "failed"]
           /\ UNCHANGED entry
  BY <1>4 DEF TypeOK, RequestsOK, Status
<1>5. QED
  BY <1>2, <1>3, <1>4

LEMMA AllocateDistributedType ==
  ASSUME TypeOK, NEW i \in Instances, AllocateDistributed(i)
  PROVE  TypeOK'
<1>1. RequestsOK' /\ nodes' \in NodeTable
  BY RefreshedType, ReserveAcrossType DEF AllocateDistributed, history
<1>2. QED
  BY <1>1, QueuesKept, CallsKept, RayKept
     DEF TypeOK, AllocateDistributed, ray, history

LEMMA DistributedSuspendsType ==
  ASSUME TypeOK, NEW i \in Instances, DistributedSuspends(i)
  PROVE  TypeOK'
<1>1. RequestsOK'
  BY DEF TypeOK, RequestsOK, Status, DistributedSuspends, history
<1>2. QED
  BY <1>1, SuspendedType, QueuesKept, RayKept
     DEF TypeOK, DistributedSuspends, ray, history

LEMMA DistributedCollectsType ==
  ASSUME TypeOK, NEW i \in Instances, DistributedCollects(i)
  PROVE  TypeOK'
<1>1. calls[i] \in NodeTable
  BY DEF TypeOK, CallsOK, DistributedCollects
<1>2. RequestsOK' /\ nodes' \in NodeTable
  BY <1>1, WithReportsType, ReserveAcrossType DEF DistributedCollects, history
<1>3. QED
  BY <1>2, AnsweredType, QueuesKept, RayKept
     DEF TypeOK, DistributedCollects, ray, history

LEMMA DeallocateResourceType ==
  ASSUME TypeOK, NEW i \in Instances, DeallocateResource(i)
  PROVE  TypeOK'
<1>1. RequestsOK'
  BY NoEntryType DEF TypeOK, RequestsOK, Status, DeallocateResource, history
<1>2. ASSUME NEW n \in Nodes PROVE nodes'[n] \in NodeRow
  <2>1. nodes[n] \in NodeRow /\ entry[i] \in Entry
    BY DEF TypeOK, RequestsOK, NodeTable
  <2>2. /\ entry[i].spread[n] \in Int /\ entry[i].num \in Int
        /\ nodes[n].free \in Int /\ nodes[n].total \in Int
    BY <2>1 DEF Entry, NodeRow
  <2>3. \/ nodes'[n] = nodes[n]
        \/ nodes'[n] = [nodes[n] EXCEPT !.free = Min2(nodes[n].total,
                           nodes[n].free + entry[i].spread[n])]
        \/ nodes'[n] = [nodes[n] EXCEPT !.free = nodes[n].free + entry[i].num]
    BY <2>1 DEF DeallocateResource, NodeRow
  <2>4. QED
    BY <2>1, <2>2, <2>3 DEF NodeRow, Min2
<1>3. nodes' \in NodeTable
  BY <1>2 DEF DeallocateResource, NodeTable
<1>4. QED
  BY <1>1, <1>3, QueuesKept, CallsKept, RayKept
     DEF TypeOK, DeallocateResource, ray, history

LEMMA ResizeResourceType ==
  ASSUME TypeOK, NEW i \in Instances, NEW g \in ResizeTo, ResizeResource(i, g)
  PROVE  TypeOK'
<1>1. g \in Nat /\ entry[i] \in Entry
  BY FcfsAssumption DEF TypeOK, RequestsOK
<1>2. RequestsOK'
  BY <1>1 DEF TypeOK, RequestsOK, Entry, ResizeResource, history
<1>3. nodes' \in NodeTable
  <2> DEFINE n == entry[i].node
             delta == g - entry[i].num
             row == [nodes[n] EXCEPT !.free = @ - delta]
  <2>1. nodes' = [nodes EXCEPT ![n] = row]
    BY DEF ResizeResource
  <2>2. delta \in Int
    BY <1>1 DEF Entry
  <2> HIDE DEF n, delta
  <2>3. CASE n \in Nodes
    <3>1. row \in NodeRow
      BY <2>2, <2>3 DEF TypeOK, NodeTable, NodeRow
    <3>2. QED
      BY <2>1, <2>3, <3>1 DEF TypeOK, NodeTable
  <2>4. CASE n \notin Nodes
    BY <2>1, <2>4 DEF TypeOK, NodeTable
  <2>5. QED
    BY <2>3, <2>4
<1>4. QED
  BY <1>2, <1>3, QueuesKept, CallsKept, RayKept
     DEF TypeOK, ResizeResource, ray, history

LEMMA ClearModelType ==
  ASSUME TypeOK, NEW m \in Models, ClearModel(m)
  PROVE  TypeOK'
<1> DEFINE owned == {i \in Held : ModelOf[i] = m}
<1>1. QueuesOK'
  <2>1. keys' \in Seq(Models)
    BY TakeOutElements DEF TypeOK, QueuesOK, ClearModel, HasQueue
  <2>2. QED
    BY <2>1 DEF TypeOK, QueuesOK, ClearModel
<1>2. RequestsOK'
  BY NoEntryType DEF TypeOK, RequestsOK, Status, ClearModel
<1>3. ASSUME NEW n \in Nodes PROVE nodes'[n] \in NodeRow
  <2>1. nodes[n] \in NodeRow /\ Cardinality(EntryGpus(owned, n)) \in Nat
    BY EntryGpusFinite DEF TypeOK, NodeTable, Held
  <2>2. \/ nodes'[n] = nodes[n]
        \/ nodes'[n] = [nodes[n] EXCEPT !.free = Min2(nodes[n].total,
                         nodes[n].free + Cardinality(EntryGpus(owned, n)))]
    BY <2>1 DEF ClearModel
  <2> HIDE DEF owned
  <2>3. Min2(nodes[n].total, nodes[n].free + Cardinality(EntryGpus(owned, n)))
          \in Int
    BY <2>1 DEF NodeRow, Min2
  <2>4. QED
    BY <2>1, <2>2, <2>3 DEF NodeRow
<1>4. nodes' \in NodeTable
  BY <1>3 DEF ClearModel, NodeTable
<1>5. QED
  BY <1>1, <1>2, <1>4, CallsKept, RayKept DEF TypeOK, ClearModel, ray

LEMMA NodeStepType ==
  ASSUME TypeOK, NEW n \in Nodes, NodeStep(n)
  PROVE  TypeOK'
<1>1. ASSUME NEW s \in NodeState, MarkNodeState(n, s) PROVE TypeOK'
  <2>1. nodes' \in NodeTable /\ marked' \in [Nodes -> NodeState]
    BY <1>1 DEF TypeOK, RayOK, NodeTable, NodeRow, MarkNodeState
  <2>2. QED
    BY <1>1, <2>1, QueuesKept, RequestsKept, CallsKept
       DEF TypeOK, RayOK, MarkNodeState, ray
<1>2. ASSUME NEW info \in NodeInfo[n], AddWorkerNode(n, info)
      PROVE  TypeOK'
  <2>1. /\ TotalGpu[n] \in Nat /\ nodes[n] \in NodeRow
        /\ \A key \in DOMAIN info : info[key] \in 0..TotalGpu[n]
    BY FcfsAssumption DEF TypeOK, NodeTable
  <2>2. nodes' \in NodeTable /\ marked' \in [Nodes -> NodeState]
    BY <1>2, <2>1
       DEF TypeOK, RayOK, NodeTable, NodeRow, NodeState, AddWorkerNode, CountOf
  <2>3. QED
    BY <1>2, <2>2, QueuesKept, RequestsKept, CallsKept
       DEF TypeOK, RayOK, AddWorkerNode, ray
<1>3. ASSUME UpdateNodeRisk(n) PROVE TypeOK'
  <2>1. nodes' \in NodeTable
    BY <1>3 DEF TypeOK, NodeTable, NodeRow, UpdateNodeRisk
  <2>2. QED
    BY <1>3, <2>1, QueuesKept, RequestsKept, CallsKept, RayKept
       DEF TypeOK, UpdateNodeRisk, ray, history
<1>4. QED
  BY <1>1, <1>2, <1>3 DEF NodeStep

LEMMA RayChangesType == ASSUME TypeOK, RayChanges PROVE TypeOK'
<1>1. RayOK'
  BY DEF TypeOK, RayOK, RayChanges, history
<1>2. QED
  BY <1>1, QueuesKept, RequestsKept, CallsKept DEF TypeOK, RayChanges, history

-----------------------------------------------------------------------------
(* Loading queues *)

LEMMA InitQueues == Init => QueueInv
<1> SUFFICES ASSUME Init PROVE QueueInv
  OBVIOUS
<1>1. \A m \in Models : Range(queues[m]) = {} /\ IsInjective(queues[m])
  BY DEF Init, Range, IsInjective
<1>2. QED
  BY <1>1, InitType
     DEF QueueInv, QueuedExactlyOnce, KeysPresent, QueuedInstances, Init

\* A step that touches no queue and resolves no queued future.
LEMMA QueueStateKept ==
  ASSUME QueueInv, TypeOK', UNCHANGED <<queues, keys>>,
         \A i \in Instances : status'[i] = "queued" <=> status[i] = "queued"
  PROVE  QueueInv'
BY DEF QueueInv, QueuedExactlyOnce, KeysPresent, QueuedInstances, HasQueue

LEMMA ShutdownQueues == ASSUME QueueInv, Shutdown PROVE QueueInv'
<1>1. \A m \in Models : Range(queues'[m]) = {} /\ IsInjective(queues'[m])
  BY DEF Shutdown, Range, IsInjective
<1>2. \A i \in Instances : status'[i] # "queued"
  BY DEF Shutdown, QueueInv, TypeOK, RequestsOK
<1>3. QED
  BY <1>1, <1>2, ShutdownType
     DEF QueueInv, QueuedExactlyOnce, KeysPresent, QueuedInstances

LEMMA AllocateResourceQueues ==
  ASSUME QueueInv, NEW i \in Instances, AllocateResource(i)
  PROVE  QueueInv'
<1> DEFINE m == ModelOf[i]
<1>1. m \in Models /\ queues[m] \in Seq(Instances) /\ keys \in Seq(Models)
  BY FcfsAssumption DEF QueueInv, TypeOK, QueuesOK
<1>2. i \notin QueuedInstances /\ i \notin Range(queues[m])
  BY <1>1 DEF AllocateResource, QueueInv, QueuedExactlyOnce, QueuedInstances
<1>3. /\ queues'[m] = Append(queues[m], i)
      /\ \A k \in Models \ {m} : queues'[k] = queues[k]
  BY <1>1 DEF AllocateResource, QueueInv, TypeOK, QueuesOK
<1>4. Range(queues'[m]) = Range(queues[m]) \cup {i} /\ IsInjective(queues'[m])
  BY <1>1, <1>2, <1>3, AppendSet DEF QueueInv, QueuedExactlyOnce
<1>5. QueuedInstances' = QueuedInstances \cup {i}
  <2>1. \A k \in Models : Range(queues'[k]) =
          IF k = m THEN Range(queues[k]) \cup {i} ELSE Range(queues[k])
    BY <1>3, <1>4
  <2>2. QED
    BY <1>1, <2>1 DEF QueuedInstances
<1>6. Range(keys') = Range(keys) \cup {m}
  BY <1>1, AppendSet DEF AllocateResource, HasQueue
<1>7. \A j \in Instances : status'[j] = IF j = i THEN "queued" ELSE status[j]
  BY DEF AllocateResource, QueueInv, TypeOK, RequestsOK
<1>8. QueuedExactlyOnce'
  BY <1>1, <1>3, <1>4, <1>5, <1>7, ZenonT(30) DEF QueueInv, QueuedExactlyOnce
<1>9. KeysPresent'
  BY <1>3, <1>4, <1>6 DEF QueueInv, KeysPresent, HasQueue
<1>10. QED
  BY <1>8, <1>9, AllocateResourceType DEF QueueInv

LEMMA LoopGrantsQueues ==
  ASSUME QueueInv, NEW i \in Instances, NEW n \in Nodes, LoopGrants(i, n)
  PROVE  QueueInv'
<1> DEFINE m == ModelOf[i]
<1>1. m \in Models /\ queues[m] \in Seq(Instances) /\ i \in Range(queues[m])
  BY FcfsAssumption DEF QueueInv, TypeOK, QueuesOK, LoopGrants, StillListed
<1>2. /\ queues'[m] = TakeOut(queues[m], i)
      /\ \A k \in Models \ {m} : queues'[k] = queues[k]
  BY <1>1 DEF LoopGrants, QueueInv, TypeOK, QueuesOK
<1>3. IsInjective(queues'[m]) /\ Range(queues'[m]) = Range(queues[m]) \ {i}
  <2>1. IsInjective(queues[m])
    BY <1>1 DEF QueueInv, QueuedExactlyOnce
  <2>2. QED
    BY <1>1, <1>2, <2>1, TakeOutSet
<1>4. \A k \in Models \ {m} : i \notin Range(queues[k])
  BY DEF QueueInv, QueuedExactlyOnce
<1>5. QueuedInstances' = QueuedInstances \ {i}
  BY <1>1, <1>2, <1>3, <1>4 DEF QueuedInstances
<1>6. \A j \in Instances : status'[j] = IF j = i THEN "granted" ELSE status[j]
  BY DEF LoopGrants, QueueInv, TypeOK, RequestsOK
<1>7. QueuedExactlyOnce'
  BY <1>1, <1>2, <1>3, <1>5, <1>6 DEF QueueInv, QueuedExactlyOnce
<1>8. KeysPresent'
  BY <1>2, <1>3 DEF QueueInv, KeysPresent, HasQueue, LoopGrants
<1>9. QED
  BY <1>7, <1>8, LoopGrantsType DEF QueueInv

LEMMA ClearModelQueues ==
  ASSUME QueueInv, NEW m \in Models, ClearModel(m)
  PROVE  QueueInv'
<1>1. /\ queues'[m] = <<>>
      /\ \A k \in Models \ {m} : queues'[k] = queues[k]
  BY DEF ClearModel, CancelledBy, QueueInv, TypeOK, QueuesOK
<1>2. Range(queues'[m]) = {} /\ IsInjective(queues'[m])
  BY <1>1 DEF Range, IsInjective
<1>3. \A k \in Models \ {m} : Range(queues[k]) \cap Range(queues[m]) = {}
  BY DEF QueueInv, QueuedExactlyOnce
<1>4. QueuedInstances' = QueuedInstances \ Range(queues[m])
  BY <1>1, <1>2, <1>3 DEF QueuedInstances
<1>5. \A j \in Instances :
        /\ j \in Range(queues[m]) => status'[j] = "failed"
        /\ j \notin Range(queues[m]) =>
             (status'[j] = "queued" <=> status[j] = "queued")
  BY DEF ClearModel, CancelledBy, Held
<1>6. QueuedExactlyOnce'
  BY <1>1, <1>2, <1>4, <1>5 DEF QueueInv, QueuedExactlyOnce
<1>7. Range(keys) \ {m} \subseteq Range(keys')
  BY TakeOutSet DEF ClearModel, HasQueue, QueueInv, TypeOK, QueuesOK
<1>8. KeysPresent'
  BY <1>1, <1>2, <1>7 DEF QueueInv, KeysPresent, HasQueue
<1>9. QED
  BY <1>6, <1>8, ClearModelType DEF QueueInv

LEMMA NextQueues == ASSUME QueueInv, [Next]_vars PROVE QueueInv'
<1> USE DEF QueueInv, TypeOK, RequestsOK
<1>1. CASE Start
  BY <1>1, StartType, QueueStateKept DEF Start
<1>2. CASE Shutdown
  BY <1>2, ShutdownQueues
<1>3. CASE LoopStep
  <2>1. CASE LoopRefreshes
    BY <2>1, LoopRefreshesType, QueueStateKept DEF LoopRefreshes
  <2>2. CASE LoopSuspends
    BY <2>2, LoopSuspendsType, QueueStateKept DEF LoopSuspends
  <2>3. CASE LoopCollects
    BY <2>3, LoopCollectsType, QueueStateKept DEF LoopCollects
  <2>4. CASE \E i \in Instances, n \in Nodes : LoopGrants(i, n)
    BY <2>4, LoopGrantsQueues
  <2>5. CASE \E i \in Instances : LoopSkips(i)
    BY <2>5, LoopSkipsType, QueueStateKept DEF LoopSkips
  <2>6. CASE \E i \in Instances : LoopCrashes(i)
    BY <2>6, LoopCrashesType, QueueStateKept DEF LoopCrashes
  <2>7. CASE LoopUpdates
    BY <2>7, LoopUpdatesType, QueueStateKept DEF LoopUpdates
  <2>8. CASE LoopExits
    BY <2>8, LoopExitsType, QueueStateKept DEF LoopExits
  <2>9. QED
    BY <1>3, <2>1, <2>2, <2>3, <2>4, <2>5, <2>6, <2>7, <2>8 DEF LoopStep
<1>4. ASSUME NEW i \in Instances, InstanceStep(i) PROVE QueueInv'
  <2>1. CASE AllocateResource(i)
    BY <2>1, AllocateResourceQueues
  <2>2. CASE AllocationResumes(i)
    BY <2>2, AllocationResumesType, QueueStateKept DEF AllocationResumes
  <2>3. CASE AllocateDistributed(i)
    BY <2>3, AllocateDistributedType, QueueStateKept
       DEF AllocateDistributed, ReserveAcross
  <2>4. CASE DistributedSuspends(i)
    BY <2>4, DistributedSuspendsType, QueueStateKept DEF DistributedSuspends
  <2>5. CASE DistributedCollects(i)
    BY <2>5, DistributedCollectsType, QueueStateKept
       DEF DistributedCollects, ReserveAcross
  <2>6. CASE DeallocateResource(i)
    BY <2>6, DeallocateResourceType, QueueStateKept DEF DeallocateResource
  <2>7. CASE \E g \in ResizeTo : ResizeResource(i, g)
    BY <2>7, ResizeResourceType, QueueStateKept DEF ResizeResource
  <2>8. QED
    BY <1>4, <2>1, <2>2, <2>3, <2>4, <2>5, <2>6, <2>7 DEF InstanceStep
<1>5. CASE \E m \in Models : ClearModel(m)
  BY <1>5, ClearModelQueues
<1>6. CASE Refresh
  BY <1>6, RefreshType, QueueStateKept DEF Refresh
<1>7. CASE \E r \in Routers : RefreshSuspends(r) \/ RefreshCollects(r)
  BY <1>7, RefreshSuspendsType, RefreshCollectsType, QueueStateKept
     DEF RefreshSuspends, RefreshCollects
<1>8. CASE \E n \in Nodes : NodeStep(n)
  BY <1>8, NodeStepType, QueueStateKept
     DEF NodeStep, MarkNodeState, AddWorkerNode, UpdateNodeRisk
<1>9. CASE RayChanges
  BY <1>9, RayChangesType, QueueStateKept DEF RayChanges
<1>10. CASE UNCHANGED vars
  <2>1. TypeOK'
    BY <1>10, QueuesKept, RequestsKept, CallsKept, RayKept DEF vars
  <2>2. QED
    BY <1>10, <2>1, QueueStateKept DEF vars
<1>11. QED
  BY <1>1, <1>2, <1>3, <1>4, <1>5, <1>6, <1>7, <1>8, <1>9, <1>10 DEF Next

\* The two invariants need each other: the sort key of a queued request has its
\* type because the request is in its model's list and the model has a key.
THEOREM QueueInvariance == Spec => []QueueInv
BY InitQueues, NextQueues, PTL DEF Spec

\* Type correctness of the scheduler's state, in every configuration.
THEOREM TypeCorrectness == Spec => []TypeOK
BY QueueInvariance, PTL DEF QueueInv

\* In every configuration and after any calls, a request whose future is
\* unresolved is in exactly one loading queue, once, and no other request is:
\* no request is granted twice and none is lost short of shutdown.
THEOREM QueueingIsExact == Spec => []QueuedExactlyOnce
BY QueueInvariance, PTL DEF QueueInv

=============================================================================
