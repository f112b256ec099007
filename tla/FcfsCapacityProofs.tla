------------------------- MODULE FcfsCapacityProofs -------------------------
(***************************************************************************)
(* Why the FCFS scheduler never promises more GPUs than a node has, in the *)
(* configurations without distributed allocation and elastic resizing.     *)
(*                                                                         *)
(* A pass decides on a table it computed before suspending, records of     *)
(* other requests come and go meanwhile, and a promise is recorded only    *)
(* when its caller resumes.  The invariant that survives all of this is    *)
(* PassRoom: at every point of a pass, what is committed on a node plus    *)
(* what the pass may still hand out fits on the node.                      *)
(***************************************************************************)
EXTENDS FcfsSchedulerProofs

\* The requests that occupy GPUs of n, recorded or promised.
Bound(n) ==
  {i \in Instances : \/ status[i] = "granted" /\ grant[i] = n
                     \/ status[i] = "held" /\ entry[i].node = n}

Load(n) == Cardinality(Units(Bound(n), Gpus))

PlainEntries ==
  \A i \in Instances :
    /\ status[i] # "reserving"
    /\ status[i] = "held" =>
         entry[i].spread = NoSpread /\ entry[i].num = Gpus[i]

TotalsIn(tab) == \A n \in Nodes : tab[n].total <= TotalGpu[n]

KnownTotals ==
  /\ TotalsIn(nodes)
  /\ TotalsIn(loop.snap)
  /\ \A c \in DOMAIN calls : TotalsIn(calls[c])

InPass == loop.pc \in {"collecting", "granting"}

PassRoom ==
  InPass => \A n \in Nodes : /\ loop.free[n] >= 0
                             /\ Load(n) + loop.free[n] <= TotalGpu[n]

LoadFits == \A n \in Nodes : Load(n) <= TotalGpu[n]

CapacityInv == PlainEntries /\ KnownTotals /\ LoadFits /\ PassRoom

-----------------------------------------------------------------------------
LEMMA LoadNat ==
  ASSUME NEW K \in SUBSET Instances
  PROVE  IsFiniteSet(Units(K, Gpus)) /\ Cardinality(Units(K, Gpus)) \in Nat
BY UnitsFinite, FcfsAssumption

\* Fewer requests need no more GPUs.
LEMMA UnitsMonotone ==
  ASSUME NEW K \in SUBSET Instances, NEW L \in SUBSET K
  PROVE  Cardinality(Units(L, Gpus)) <= Cardinality(Units(K, Gpus))
<1>1. Units(L, Gpus) \in SUBSET Units(K, Gpus)
  BY DEF Units
<1>2. QED
  BY <1>1, LoadNat, FS_Subset

\* The interval a request's GPUs are counted by.
LEMMA IntervalSize ==
  ASSUME NEW k \in Nat
  PROVE  IsFiniteSet(1..k) /\ Cardinality(1..k) = k
<1>1. 1 \in Int /\ k \in Int
  OBVIOUS
<1>2. IsFiniteSet(1..k) /\ Cardinality(1..k) = IF 1 > k THEN 0 ELSE k - 1 + 1
  BY <1>1, FS_Interval, SMTT(60)
<1>3. (IF 1 > k THEN 0 ELSE k - 1 + 1) = k
  OBVIOUS
<1>4. QED
  BY <1>2, <1>3

\* One more request needs at most its own GPUs more.
LEMMA UnitsAdd ==
  ASSUME NEW K \in SUBSET Instances, NEW i \in Instances
  PROVE  Cardinality(Units(K \cup {i}, Gpus))
           <= Cardinality(Units(K, Gpus)) + Gpus[i]
<1> DEFINE B == {i} \X (1..Gpus[i])
<1>1. Gpus[i] \in Nat
  BY FcfsAssumption
<1>2. IsFiniteSet(1..Gpus[i]) /\ Cardinality(1..Gpus[i]) = Gpus[i]
  BY <1>1, IntervalSize
<1>3. IsFiniteSet({i}) /\ Cardinality({i}) = 1
  BY FS_Singleton
<1>4. IsFiniteSet(B) /\ Cardinality(B) = Gpus[i]
  <2>1. IsFiniteSet(B) /\ Cardinality(B) = Cardinality({i}) * Gpus[i]
    BY <1>2, <1>3, FS_Product
  <2>2. QED
    BY <1>1, <1>3, <2>1
<1>5. Units(K \cup {i}, Gpus) = Units(K, Gpus) \cup B
  BY DEF Units
<1> HIDE DEF B
<1>6. IsFiniteSet(Units(K, Gpus)) /\ Cardinality(Units(K, Gpus)) \in Nat
  BY LoadNat
<1>7. Cardinality(Units(K, Gpus) \cup B)
        = Cardinality(Units(K, Gpus)) + Cardinality(B)
            - Cardinality(Units(K, Gpus) \cap B)
  BY <1>4, <1>6, FS_Union
<1>8. Cardinality(Units(K, Gpus) \cap B) \in Nat
  <2>1. Units(K, Gpus) \cap B \in SUBSET B
    OBVIOUS
  <2>2. QED
    BY <1>4, <2>1, FS_Subset, FS_CardinalityType
<1> DEFINE c == Cardinality(Units(K, Gpus))
           d == Cardinality(Units(K, Gpus) \cap B)
<1>9. /\ Cardinality(Units(K \cup {i}, Gpus)) = c + Gpus[i] - d
      /\ c \in Nat /\ d \in Nat
  BY <1>4, <1>5, <1>6, <1>7, <1>8
<1> HIDE DEF c, d
<1>10. Cardinality(Units(K \cup {i}, Gpus)) <= c + Gpus[i]
  BY <1>1, <1>9
<1>11. QED
  BY <1>10 DEF c

\* Without node_allocations the commitments on a node are those of the requests
\* bound to it, each for the GPUs it asked for.
LEMMA CommittedIsLoad ==
  ASSUME TypeOK, PlainEntries, NEW n \in Nodes
  PROVE  CommittedGpus(n) = Units(Bound(n), Gpus)
<1> DEFINE w == [i \in Instances |-> Counted(entry[i], n)]
<1>1. \A i \in Held : w[i] = IF entry[i].node = n THEN Gpus[i] ELSE 0
  BY DEF PlainEntries, Counted, Held
<1> HIDE DEF w
<1>2. \A i \in Held : entry[i].node # n => {i} \X (1..w[i]) = {}
  BY <1>1
<1>3. Units(Held, w) = Units({i \in Held : entry[i].node = n}, Gpus)
  BY <1>1, <1>2 DEF Units
<1>4. RecordedGpus(n) = Units(Held, w)
  BY DEF RecordedGpus, EntryGpus, w
<1>5. Bound(n) = {i \in Held : entry[i].node = n} \cup
                 {i \in Instances : status[i] = "granted" /\ grant[i] = n}
  BY DEF Bound, Held
<1>6. \A K, L : Units(K \cup L, Gpus) = Units(K, Gpus) \cup Units(L, Gpus)
  BY DEF Units
<1>7. QED
  BY <1>3, <1>4, <1>5, <1>6 DEF CommittedGpus, PromisedGpus

LEMMA InitCapacity == Init => CapacityInv
<1> SUFFICES ASSUME Init PROVE CapacityInv
  OBVIOUS
<1>1. PlainEntries /\ ~InPass
  BY DEF Init, PlainEntries, InPass, NoPass
<1>2. TotalsIn(NoNodes)
  BY FcfsAssumption DEF TotalsIn, NoNodes, Unknown
<1>3. KnownTotals
  BY <1>2 DEF Init, KnownTotals, NoPass, NoCalls
<1>4. ASSUME NEW n \in Nodes PROVE Load(n) <= TotalGpu[n]
  <2>1. Bound(n) = {}
    BY DEF Init, Bound
  <2>2. Units(Bound(n), Gpus) = {}
    BY <2>1 DEF Units
  <2>3. QED
    BY <2>2, FS_EmptySet, FcfsAssumption DEF Load
<1>5. QED
  BY <1>1, <1>3, <1>4 DEF CapacityInv, LoadFits, PassRoom

\* A step after which every node carries no request it did not carry before,
\* and the pass, if there is one, has nothing more to hand out.
LEMMA CapacityKept ==
  ASSUME TypeOK, CapacityInv, PlainEntries', KnownTotals',
         \A n \in Nodes : Bound(n)' \subseteq Bound(n),
         \/ loop'.pc \notin {"collecting", "granting"}
         \/ InPass /\ loop'.free = loop.free
  PROVE  CapacityInv'
<1>1. ASSUME NEW n \in Nodes PROVE Load(n)' <= Load(n) /\ Load(n) \in Nat
                                  /\ Load(n)' \in Nat
  <2>1. Bound(n) \in SUBSET Instances /\ Bound(n)' \in SUBSET Bound(n)
    BY DEF Bound
  <2>2. QED
    BY <2>1, UnitsMonotone, LoadNat DEF Load
<1>2. \A n \in Nodes : TotalGpu[n] \in Nat
  BY FcfsAssumption
<1>3. LoadFits'
  <2> SUFFICES ASSUME NEW n \in Nodes PROVE Load(n)' <= TotalGpu[n]
    BY DEF LoadFits
  <2>1. QED
    BY <1>1, <1>2 DEF CapacityInv, LoadFits
<1>4. PassRoom'
  <2> SUFFICES ASSUME InPass', NEW n \in Nodes
               PROVE  /\ loop'.free[n] >= 0
                      /\ Load(n)' + loop'.free[n] <= TotalGpu[n]
    BY DEF PassRoom
  <2>1. /\ loop'.free[n] = loop.free[n]
        /\ loop.free[n] >= 0 /\ Load(n) + loop.free[n] <= TotalGpu[n]
    BY DEF InPass, CapacityInv, PassRoom
  <2>2. loop.free[n] \in Int
    BY DEF TypeOK, Pass
  <2>3. QED
    BY <1>1, <1>2, <2>1, <2>2
<1>5. QED
  BY <1>3, <1>4 DEF CapacityInv

\* Steps that concern no record and no promise.
LEMMA BoundKept ==
  ASSUME PlainEntries, UNCHANGED <<grant, entry>>,
         \A i \in Instances : status'[i] = status[i] \/
           {status[i], status'[i]} \cap {"granted", "held", "reserving"} = {}
  PROVE  PlainEntries' /\ \A n \in Nodes : Bound(n)' = Bound(n)
BY DEF PlainEntries, Bound

LEMMA RefreshedTotals ==
  ASSUME TotalsIn(nodes), TypeOK PROVE TotalsIn(Refreshed)
<1> SUFFICES ASSUME NEW n \in Nodes PROVE Refreshed[n].total <= TotalGpu[n]
  BY DEF TotalsIn
<1>1. nodes[n] \in NodeRow /\ TotalGpu[n] \in Nat
  BY FcfsAssumption DEF TypeOK, NodeTable
<1>2. nodes[n].total <= TotalGpu[n]
  BY DEF TotalsIn
<1>3. QED
  BY <1>1, <1>2 DEF Refreshed, NodeRow

\* The heart of the argument: a pass that starts with no promise outstanding
\* has, on every node, no more to hand out than the node has left.
LEMMA PassFits ==
  ASSUME TypeOK, CapacityInv, \A i \in Instances : status[i] # "granted",
         NEW n \in Nodes
  PROVE  /\ PassOver(Refreshed).free[n] >= 0
         /\ Load(n) + PassOver(Refreshed).free[n] <= TotalGpu[n]
<1> DEFINE T == TotalGpu[n]
           used == Allocated(n)
<1>1. PromisedGpus(n) = {}
  BY DEF PromisedGpus, Units
<1>2. Load(n) = used
  BY <1>1, CommittedIsLoad DEF CapacityInv, CommittedGpus, Load, Allocated
<1>3. used \in Nat /\ T \in Nat /\ used <= T
  BY <1>2, AllocatedNat, FcfsAssumption DEF CapacityInv, LoadFits
<1>4. nodes[n] \in NodeRow /\ nodes[n].total <= T
  BY DEF TypeOK, NodeTable, CapacityInv, KnownTotals, TotalsIn
<1> HIDE DEF used, T
<1>5. /\ Capacity(T, T, used) \in Nat
      /\ Capacity(T, T, used) + used <= T
  BY <1>3 DEF Capacity, Max2, Min2
<1>6. /\ Capacity(nodes[n].total, nodes[n].free, used) \in Nat
      /\ Capacity(nodes[n].total, nodes[n].free, used) + used <= T
  BY <1>3, <1>4 DEF NodeRow, Capacity, Max2, Min2
<1>7. \/ Refreshed[n].free = 0
      \/ Refreshed[n].free = Capacity(T, T, used)
      \/ Refreshed[n].free = Capacity(nodes[n].total, nodes[n].free, used)
  BY <1>4 DEF Refreshed, ListedFree, used, T, NodeRow
<1>8. PassOver(Refreshed).free[n] = Refreshed[n].free
  BY DEF PassOver
<1>9. QED
  BY <1>2, <1>3, <1>5, <1>6, <1>7, <1>8 DEF T

LEMMA PassBeginsCapacity ==
  ASSUME TypeOK, CapacityInv, LoopRefreshes \/ LoopSuspends
  PROVE  CapacityInv'
<1>1. PlainEntries' /\ \A n \in Nodes : Bound(n)' = Bound(n)
  BY BoundKept DEF CapacityInv, LoopRefreshes, LoopSuspends
<1>2. TotalsIn(Refreshed) /\ TotalsIn(NoNodes)
  BY RefreshedTotals, FcfsAssumption
     DEF CapacityInv, KnownTotals, TotalsIn, NoNodes, Unknown
<1>3. /\ loop'.snap \in {NoNodes, Refreshed}
      /\ nodes' \in {nodes, Refreshed}
      /\ loop'.free = PassOver(Refreshed).free
  <2> DEFINE pass == PassOver(Refreshed)
  <2>1. pass.snap = NoNodes
    BY DEF PassOver
  <2>2. CASE LoopRefreshes
    BY <2>1, <2>2 DEF LoopRefreshes
  <2>3. CASE LoopSuspends
    <3>1. /\ loop' = [pass EXCEPT !.pc = "collecting", !.snap = Refreshed]
          /\ nodes' = nodes
      BY <2>3 DEF LoopSuspends
    <3>2. [pass EXCEPT !.pc = "collecting", !.snap = Refreshed].snap = Refreshed
      BY DEF PassOver
    <3>3. [pass EXCEPT !.pc = "collecting", !.snap = Refreshed].free = pass.free
      BY DEF PassOver
    <3>4. QED
      BY <3>1, <3>2, <3>3
  <2>4. QED
    BY <2>2, <2>3
<1>4. KnownTotals'
  BY <1>2, <1>3
     DEF CapacityInv, KnownTotals, TotalsIn, LoopRefreshes, LoopSuspends
<1>5. \A n \in Nodes : Load(n)' = Load(n)
  BY <1>1 DEF Load
<1>6. PassRoom'
  BY <1>3, <1>5, PassFits
     DEF PassRoom, LoopRefreshes, LoopSuspends, PassBegins
<1>7. QED
  BY <1>1, <1>4, <1>5, <1>6 DEF CapacityInv, LoadFits

LEMMA LoopGrantsCapacity ==
  ASSUME TypeOK, CapacityInv,
         NEW i \in Instances, NEW n \in Nodes, LoopGrants(i, n)
  PROVE  CapacityInv'
<1>1. \A j \in Instances : status'[j] = IF j = i THEN "granted" ELSE status[j]
  BY DEF LoopGrants, TypeOK, RequestsOK
<1>2. \A j \in Instances : grant'[j] = IF j = i THEN n ELSE grant[j]
  BY DEF LoopGrants, TypeOK, RequestsOK
<1>3. PlainEntries' /\ KnownTotals'
  BY <1>1 DEF CapacityInv, PlainEntries, KnownTotals, LoopGrants
<1>4. /\ Bound(n)' = Bound(n) \cup {i}
      /\ \A k \in Nodes \ {n} : Bound(k)' = Bound(k)
  BY <1>1, <1>2 DEF Bound, LoopGrants
<1>5. \A k \in Nodes : /\ loop.free[k] \in Int /\ Load(k) \in Nat
                        /\ Load(k)' \in Nat /\ TotalGpu[k] \in Nat
  BY LoadNat, FcfsAssumption DEF TypeOK, Pass, Load, Bound
<1>6. Load(n)' <= Load(n) + Gpus[i] /\ Gpus[i] \in Nat
  <2>1. Bound(n) \in SUBSET Instances
    BY DEF Bound
  <2>2. QED
    BY <1>4, <2>1, UnitsAdd, FcfsAssumption DEF Load
<1>7. \A k \in Nodes \ {n} : Load(k)' = Load(k)
  BY <1>4 DEF Load
<1>8. \A k \in Nodes : loop'.free[k] =
        IF k = n THEN loop.free[n] - Gpus[i] ELSE loop.free[k]
  BY DEF LoopGrants, TypeOK, Pass
<1>9. loop.free[n] >= Gpus[i] /\ InPass
  BY DEF LoopGrants, Fits, NextInPass, InPass
<1>10. \A k \in Nodes : /\ loop'.free[k] >= 0
                         /\ Load(k)' + loop'.free[k] <= TotalGpu[k]
  BY <1>5, <1>6, <1>7, <1>8, <1>9 DEF CapacityInv, PassRoom
<1>11. \A k \in Nodes : loop'.free[k] \in Int
  BY <1>5, <1>6, <1>8
<1>12. LoadFits'
  BY <1>5, <1>10, <1>11 DEF LoadFits
<1>13. QED
  BY <1>3, <1>10, <1>12 DEF CapacityInv, PassRoom

-----------------------------------------------------------------------------
(* The steps that keep or free what is committed *)

LEMMA TotalsUnchanged ==
  ASSUME KnownTotals, UNCHANGED <<nodes, calls>>, loop'.snap = loop.snap
  PROVE  KnownTotals'
BY DEF KnownTotals, TotalsIn

LEMMA NoNodesTotals == TotalsIn(NoNodes) /\ NoPass.snap = NoNodes
BY FcfsAssumption DEF TotalsIn, NoNodes, Unknown, NoPass

LEMMA StartStopCapacity ==
  ASSUME TypeOK, CapacityInv, Start \/ Shutdown \/ LoopExits
  PROVE  CapacityInv'
<1>1. PlainEntries' /\ \A n \in Nodes : Bound(n)' = Bound(n)
  BY BoundKept
     DEF CapacityInv, Start, Shutdown, LoopExits, TypeOK, RequestsOK
<1>2. KnownTotals'
  <2>1. loop'.snap = loop.snap \/ loop'.snap = NoNodes
    BY DEF Start, Shutdown, LoopExits, NoPass
  <2>2. QED
    BY <2>1, NoNodesTotals
       DEF CapacityInv, KnownTotals, TotalsIn, Start, Shutdown, LoopExits
<1>3. \/ loop'.pc \notin {"collecting", "granting"}
      \/ InPass /\ loop'.free = loop.free
  BY DEF Start, Shutdown, LoopExits, NoPass, InPass
<1>4. QED
  BY <1>1, <1>2, <1>3, CapacityKept

\* The backends' reports bring no total above what its node has.
LEMMA WithReportsTotals ==
  ASSUME NEW tab \in NodeTable, NEW told, TotalsIn(tab)
  PROVE  TotalsIn(WithReports(tab, told))
BY FcfsAssumption DEF WithReports, TotalsIn, NodeTable, NodeRow

LEMMA LoopStepCapacity ==
  ASSUME TypeOK, CapacityInv, LoopStep
  PROVE  CapacityInv'
<1>1. CASE LoopRefreshes \/ LoopSuspends
  BY <1>1, PassBeginsCapacity
<1>2. CASE LoopCollects
  <2>1. PlainEntries' /\ \A n \in Nodes : Bound(n)' = Bound(n)
    BY <1>2, BoundKept DEF CapacityInv, LoopCollects
  <2>2. loop'.snap = NoNodes /\ loop'.free = loop.free /\ InPass
    BY <1>2 DEF LoopCollects, TypeOK, Pass, InPass
  <2>3. KnownTotals'
    <3>1. TotalsIn(nodes)'
      BY <1>2, WithReportsTotals DEF LoopCollects, TypeOK, Pass, CapacityInv, KnownTotals,
         TotalsIn
    <3>2. QED
      BY <1>2, <2>2, <3>1, NoNodesTotals
         DEF LoopCollects, CapacityInv, KnownTotals, TotalsIn
  <2>4. QED
    BY <2>1, <2>2, <2>3, CapacityKept
<1>3. CASE \E i \in Instances, n \in Nodes : LoopGrants(i, n)
  BY <1>3, LoopGrantsCapacity
<1>4. ASSUME NEW i \in Instances, LoopSkips(i) PROVE CapacityInv'
  <2>1. PlainEntries' /\ \A n \in Nodes : Bound(n)' = Bound(n)
    BY <1>4, BoundKept DEF CapacityInv, LoopSkips
  <2>2. loop'.snap = loop.snap /\ loop'.free = loop.free /\ InPass
    BY <1>4 DEF LoopSkips, NextInPass, TypeOK, Pass, InPass
  <2>3. KnownTotals'
    BY <1>4, <2>2, TotalsUnchanged DEF LoopSkips, CapacityInv
  <2>4. QED
    BY <2>1, <2>2, <2>3, CapacityKept
<1>5. ASSUME NEW i \in Instances, LoopCrashes(i) PROVE CapacityInv'
  <2>1. PlainEntries' /\ \A n \in Nodes : Bound(n)' = Bound(n)
    BY <1>5, BoundKept DEF CapacityInv, LoopCrashes
  <2>2. loop'.snap = NoNodes /\ loop'.pc = "crashed"
    BY <1>5 DEF LoopCrashes, NoPass
  <2>3. KnownTotals'
    BY <1>5, <2>2, NoNodesTotals
       DEF LoopCrashes, CapacityInv, KnownTotals, TotalsIn
  <2>4. QED
    BY <2>1, <2>2, <2>3, CapacityKept
<1>6. CASE LoopUpdates
  <2>1. PlainEntries' /\ \A n \in Nodes : Bound(n)' = Bound(n)
    BY <1>6, BoundKept DEF CapacityInv, LoopUpdates
  <2>2. loop'.snap = NoNodes /\ loop'.pc = "sleeping"
    BY <1>6 DEF LoopUpdates, NoPass
  <2>3. \A n \in Nodes : nodes'[n].total = nodes[n].total
    BY <1>6 DEF LoopUpdates, TypeOK, NodeTable, NodeRow
  <2>4. KnownTotals'
    BY <1>6, <2>2, <2>3, NoNodesTotals
       DEF LoopUpdates, CapacityInv, KnownTotals, TotalsIn
  <2>5. QED
    BY <2>1, <2>2, <2>4, CapacityKept
<1>7. CASE LoopExits
  BY <1>7, StartStopCapacity
<1>8. QED
  BY <1>1, <1>2, <1>3, <1>4, <1>5, <1>6, <1>7 DEF LoopStep

\* The caller of a promise resumes: the promise turns into a record of the same
\* size on the same node.
LEMMA ResumesCapacity ==
  ASSUME TypeOK, CapacityInv, NEW i \in Instances, AllocationResumes(i)
  PROVE  CapacityInv'
<1>1. \A j \in Instances : status'[j] = IF j = i THEN "held" ELSE status[j]
  BY DEF AllocationResumes, TypeOK, RequestsOK
<1>2. \A j \in Instances : j # i => entry'[j] = entry[j] /\ grant'[j] = grant[j]
  BY DEF AllocationResumes, TypeOK, RequestsOK
<1>3. /\ entry'[i].node = grant[i] /\ entry'[i].num = Gpus[i]
      /\ entry'[i].spread = NoSpread
  BY DEF AllocationResumes, TypeOK, RequestsOK
<1>4. PlainEntries'
  BY <1>1, <1>2, <1>3 DEF CapacityInv, PlainEntries
<1>5. \A n \in Nodes : Bound(n)' \subseteq Bound(n)
  BY <1>1, <1>2, <1>3 DEF Bound, AllocationResumes
<1>6. KnownTotals'
  BY TotalsUnchanged DEF CapacityInv, AllocationResumes
<1>7. \/ loop'.pc \notin {"collecting", "granting"}
      \/ InPass /\ loop'.free = loop.free
  BY DEF AllocationResumes, InPass
<1>8. QED
  BY <1>4, <1>5, <1>6, <1>7, CapacityKept

\* Releasing records, whatever it does to the table, frees GPUs.
LEMMA ReleaseCapacity ==
  ASSUME TypeOK, CapacityInv,
         (\E i \in Instances : DeallocateResource(i)) \/
         (\E m \in Models : ClearModel(m))
  PROVE  CapacityInv'
<1>1. \A j \in Instances :
        \/ status'[j] = status[j] /\ entry'[j] = entry[j]
        \/ status'[j] \in {"failed", "released"}
  <2>1. ASSUME NEW i \in Instances, DeallocateResource(i)
        PROVE  \A j \in Instances :
                 \/ status'[j] = status[j] /\ entry'[j] = entry[j]
                 \/ status'[j] \in {"failed", "released"}
    BY <2>1 DEF DeallocateResource, TypeOK, RequestsOK
  <2>2. ASSUME NEW m \in Models, ClearModel(m)
        PROVE  \A j \in Instances :
                 \/ status'[j] = status[j] /\ entry'[j] = entry[j]
                 \/ status'[j] \in {"failed", "released"}
    BY <2>2 DEF ClearModel, TypeOK, RequestsOK
  <2>3. QED
    BY <2>1, <2>2
<1>2. UNCHANGED <<grant, loop, calls>>
  BY DEF DeallocateResource, ClearModel
<1>3. PlainEntries' /\ \A n \in Nodes : Bound(n)' \subseteq Bound(n)
  BY <1>1, <1>2 DEF CapacityInv, PlainEntries, Bound
<1>4. \A n \in Nodes : nodes'[n].total = nodes[n].total
  <2>1. \A n \in Nodes : nodes[n] \in NodeRow
    BY DEF TypeOK, NodeTable
  <2>2. ASSUME NEW i \in Instances, DeallocateResource(i), NEW n \in Nodes
        PROVE  nodes'[n].total = nodes[n].total
    BY <2>1, <2>2 DEF DeallocateResource, NodeRow
  <2>3. ASSUME NEW m \in Models, ClearModel(m), NEW n \in Nodes
        PROVE  nodes'[n].total = nodes[n].total
    BY <2>1, <2>3 DEF ClearModel, NodeRow
  <2>4. QED
    BY <2>2, <2>3
<1>5. KnownTotals'
  BY <1>2, <1>4 DEF CapacityInv, KnownTotals, TotalsIn
<1>6. QED
  BY <1>2, <1>3, <1>5, CapacityKept DEF InPass

\* Table refreshes and node events: a row never claims more GPUs than the node
\* has.
LEMMA TableCapacity ==
  ASSUME TypeOK, CapacityInv,
         \/ Refresh
         \/ \E r \in Routers : RefreshSuspends(r) \/ RefreshCollects(r)
         \/ \E n \in Nodes : NodeStep(n)
         \/ RayChanges
  PROVE  CapacityInv'
<1>1. UNCHANGED <<status, grant, entry, loop>>
  BY DEF Refresh, RefreshSuspends, RefreshCollects, NodeStep, MarkNodeState,
         AddWorkerNode, UpdateNodeRisk, RayChanges
<1>2. PlainEntries' /\ \A n \in Nodes : Bound(n)' = Bound(n)
  BY <1>1, BoundKept DEF CapacityInv
<1>3. TotalsIn(Refreshed)
  BY RefreshedTotals DEF CapacityInv, KnownTotals
<1>4. KnownTotals'
  <2>1. CASE Refresh
    BY <2>1, <1>1, <1>3 DEF Refresh, CapacityInv, KnownTotals, TotalsIn
  <2>2. ASSUME NEW r \in Routers, RefreshSuspends(r) PROVE KnownTotals'
    BY <2>2, <1>1, <1>3
       DEF RefreshSuspends, Suspended, CapacityInv, KnownTotals, TotalsIn
  <2>3. ASSUME NEW r \in Routers, RefreshCollects(r) PROVE KnownTotals'
    <3>1. TotalsIn(nodes)'
      BY <2>3, WithReportsTotals
         DEF RefreshCollects, TypeOK, CallsOK, CapacityInv, KnownTotals, TotalsIn
    <3>2. QED
      BY <2>3, <1>1, <3>1
         DEF RefreshCollects, Answered, CapacityInv, KnownTotals, TotalsIn
  <2>4. ASSUME NEW n \in Nodes, NodeStep(n) PROVE KnownTotals'
    <3>1. nodes \in NodeTable /\ \A k \in Nodes : TotalGpu[k] \in Nat
      BY FcfsAssumption DEF TypeOK
    <3>2. \A k \in Nodes : nodes[k].total <= TotalGpu[k]
      BY DEF CapacityInv, KnownTotals, TotalsIn
    <3>3. \A k \in Nodes : nodes'[k].total \in {nodes[k].total} \cup 0..TotalGpu[k]
      <4>1. ASSUME NEW info \in NodeInfo[n], AddWorkerNode(n, info)
            PROVE  \A k \in Nodes : nodes'[k].total \in {nodes[k].total} \cup 0..TotalGpu[k]
        BY <4>1, <3>1, FcfsAssumption
           DEF AddWorkerNode, CountOf, NodeTable, NodeRow
      <4>2. QED
        BY <2>4, <3>1, <4>1
           DEF NodeStep, MarkNodeState, UpdateNodeRisk, NodeTable, NodeRow
    <3>4. calls' = calls
      BY <2>4 DEF NodeStep, MarkNodeState, AddWorkerNode, UpdateNodeRisk
    <3>5. TotalsIn(nodes)'
      BY <3>1, <3>2, <3>3, SMTT(30) DEF TotalsIn
    <3>6. QED
      BY <1>1, <3>4, <3>5 DEF CapacityInv, KnownTotals, TotalsIn
  <2>5. CASE RayChanges
    BY <2>5, TotalsUnchanged DEF RayChanges, CapacityInv
  <2>6. QED
    BY <2>1, <2>2, <2>3, <2>4, <2>5
<1>5. QED
  BY <1>1, <1>2, <1>4, CapacityKept DEF InPass

LEMMA NextCapacity ==
  ASSUME ~Distributed, ~ElasticResize, TypeOK, CapacityInv, [Next]_vars
  PROVE  CapacityInv'
<1>1. CASE Start \/ Shutdown
  BY <1>1, StartStopCapacity
<1>2. CASE LoopStep
  BY <1>2, LoopStepCapacity
<1>3. ASSUME NEW i \in Instances, InstanceStep(i) PROVE CapacityInv'
  <2>1. CASE AllocateResource(i)
    <3>1. PlainEntries' /\ \A n \in Nodes : Bound(n)' = Bound(n)
      BY <2>1, BoundKept DEF CapacityInv, AllocateResource, TypeOK, RequestsOK
    <3>2. KnownTotals'
      BY <2>1, TotalsUnchanged DEF CapacityInv, AllocateResource
    <3>3. QED
      BY <2>1, <3>1, <3>2, CapacityKept DEF AllocateResource, InPass
  <2>2. CASE AllocationResumes(i)
    BY <2>2, ResumesCapacity
  <2>3. CASE DeallocateResource(i)
    BY <2>3, ReleaseCapacity
  <2>4. ~DistributedCollects(i)
    BY DEF DistributedCollects, CapacityInv, PlainEntries
  <2>5. QED
    BY <1>3, <2>1, <2>2, <2>3, <2>4
       DEF InstanceStep, AllocateDistributed, DistributedSuspends,
           ResizeResource
<1>4. CASE \E m \in Models : ClearModel(m)
  BY <1>4, ReleaseCapacity
<1>5. CASE \/ Refresh
           \/ \E r \in Routers : RefreshSuspends(r) \/ RefreshCollects(r)
           \/ \E n \in Nodes : NodeStep(n)
           \/ RayChanges
  BY <1>5, TableCapacity
<1>6. CASE UNCHANGED vars
  <2>1. PlainEntries' /\ \A n \in Nodes : Bound(n)' = Bound(n)
    BY <1>6, BoundKept DEF CapacityInv, vars
  <2>2. KnownTotals'
    BY <1>6, TotalsUnchanged DEF CapacityInv, vars
  <2>3. QED
    BY <1>6, <2>1, <2>2, CapacityKept DEF InPass, vars
<1>7. QED
  BY <1>1, <1>2, <1>3, <1>4, <1>5, <1>6 DEF Next

\* Without distributed allocation and elastic resizing the scheduler never
\* commits, on record or by promise, more GPUs of a node than the node has:
\* for any number of requests, nodes, models and routers, with or without
\* runtime metadata and changes of the Ray cluster.
THEOREM GpusAreNeverOvercommitted ==
  ASSUME ~Distributed, ~ElasticResize
  PROVE  Spec => []NoOvercommit
<1>1. Init => CapacityInv
  BY InitCapacity
<1>2. TypeOK /\ CapacityInv /\ [Next]_vars => CapacityInv'
  BY NextCapacity
<1>3. TypeOK /\ CapacityInv => NoOvercommit
  BY CommittedIsLoad DEF CapacityInv, LoadFits, Load, NoOvercommit
<1>4. Spec => []TypeOK
  BY TypeCorrectness
<1>5. QED
  BY <1>1, <1>2, <1>3, <1>4, PTL DEF Spec

=============================================================================
