-------------------------- MODULE FcfsOrderProofs --------------------------
(***************************************************************************)
(* What a pass of the FCFS control loop keeps although it may suspend      *)
(* between its queue snapshot and its grants: the loop survives, requests  *)
(* of a model are served in order, and nodes are judged by the last report *)
(* about them.                                                             *)
(***************************************************************************)
EXTENDS FcfsSchedulerProofs

Passing == loop.pc \in {"collecting", "granting"}

\* A request of the snapshot still waits, unless clear_model failed it or
\* shutdown dropped it; after a shutdown the scheduler runs again only when
\* this pass is over.
TodoWaits ==
  Passing => \A j \in loop.todo :
    \/ status[j] \in {"queued", "failed"}
    \/ status[j] = "lost" /\ ~running

\* Ahead of a request the pass has still to look at there are only requests it
\* looks at sooner, and requests it found no room for.
Ahead(i, j) ==
  \/ i \in loop.todo /\ loop.rank[i][1] < loop.rank[j][1]
  \/ loop.pc = "granting" /\ \A n \in Nodes : ~Fits(i, n)

PassInOrder ==
  Passing => \A i \in Instances : \A j \in loop.todo :
    Precedes(i, j, queues[ModelOf[j]]) => Ahead(i, j)

OrderInv == QueueInv /\ LoopAlive /\ TodoWaits /\ PassInOrder

-----------------------------------------------------------------------------
(* Places in a loading queue *)

LEMMA PrecedesListed ==
  ASSUME NEW s \in Seq(Instances), NEW i, NEW j, Precedes(i, j, s)
  PROVE  i \in Range(s) /\ j \in Range(s)
BY DEF Precedes, Range

\* The sort key of a request is smaller than those of the requests behind it.
LEMMA PrecedesIndex ==
  ASSUME NEW s \in Seq(Instances), IsInjective(s), NEW i, NEW j,
         Precedes(i, j, s)
  PROVE  IndexOf(s, i) < IndexOf(s, j)
<1>1. PICK k \in DOMAIN s, l \in DOMAIN s : k < l /\ s[k] = i /\ s[l] = j
  BY DEF Precedes
<1>2. \A k1, l1 \in DOMAIN s : s[k1] = s[l1] => k1 = l1
  BY DEF IsInjective
<1>3. i \in Range(s) /\ j \in Range(s)
  BY PrecedesListed
<1>4. /\ IndexOf(s, i) \in DOMAIN s /\ s[IndexOf(s, i)] = i
      /\ IndexOf(s, j) \in DOMAIN s /\ s[IndexOf(s, j)] = j
  BY <1>3, IndexOfIn, LenProperties
<1>5. IndexOf(s, i) = k /\ IndexOf(s, j) = l
  BY <1>1, <1>2, <1>4
<1>6. QED
  BY <1>1, <1>5

\* A request that joins the queue gets ahead of nobody.
LEMMA PrecedesAppend ==
  ASSUME NEW s \in Seq(Instances), NEW x \in Instances, NEW i, NEW j,
         Precedes(i, j, Append(s, x)), j # x
  PROVE  Precedes(i, j, s)
<1> DEFINE t == Append(s, x)
<1>1. Len(s) \in Nat /\ DOMAIN s = 1..Len(s)
  BY LenProperties
<1>2. /\ DOMAIN t = 1..Len(s) + 1
      /\ \A k \in 1..Len(s) : t[k] = s[k]
      /\ t[Len(s) + 1] = x
  BY AppendProperties, <1>1
<1>3. PICK k \in DOMAIN t, l \in DOMAIN t : k < l /\ t[k] = i /\ t[l] = j
  BY DEF Precedes
<1> HIDE DEF t
<1>4. l # Len(s) + 1
  BY <1>2, <1>3
<1>5. k \in 1..Len(s) /\ l \in 1..Len(s)
  BY <1>1, <1>2, <1>3, <1>4
<1>6. QED
  BY <1>1, <1>2, <1>3, <1>5 DEF Precedes

\* Nor does anybody when another request leaves it.
LEMMA PrecedesTakeOut ==
  ASSUME NEW s \in Seq(Instances), NEW x \in Range(s), NEW i, NEW j,
         Precedes(i, j, TakeOut(s, x))
  PROVE  Precedes(i, j, s)
<1> DEFINE t == TakeOut(s, x)
           p == IndexOf(s, x)
           Old(k) == IF k < p THEN k ELSE k + 1
<1>1. p \in 1..Len(s) /\ Len(s) \in Nat /\ DOMAIN s = 1..Len(s)
  BY IndexOfIn, LenProperties
<1>2. DOMAIN t = 1..Len(s) - 1
  BY TakeOutElements, <1>1
<1>3. \A k \in 1..Len(s) - 1 : t[k] = IF k < p THEN s[k] ELSE s[k + 1]
  BY TakeOutElements
<1>4. PICK k \in DOMAIN t, l \in DOMAIN t : k < l /\ t[k] = i /\ t[l] = j
  BY DEF Precedes
<1> HIDE DEF t, p
<1>5. /\ Old(k) \in DOMAIN s /\ Old(l) \in DOMAIN s /\ Old(k) < Old(l)
  BY <1>1, <1>2, <1>4
<1>6. s[Old(k)] = i /\ s[Old(l)] = j
  BY <1>2, <1>3, <1>4
<1>7. QED
  BY <1>5, <1>6 DEF Precedes

-----------------------------------------------------------------------------
(* Waiting during a pass *)

LEMMA InitOrder == Init => OrderInv
<1> SUFFICES ASSUME Init PROVE OrderInv
  OBVIOUS
<1>1. ~running /\ loop.pc = "off"
  BY DEF Init, NoPass
<1>2. QED
  BY <1>1, InitQueues DEF OrderInv, LoopAlive, TodoWaits, PassInOrder, Passing

\* A step outside a pass, that ends with no pass.
LEMMA OrderBetween ==
  ASSUME QueueInv', LoopAlive', ~Passing'
  PROVE  OrderInv'
BY DEF OrderInv, TodoWaits, PassInOrder

\* A call served while the loop waits for runtime metadata or sleeps: it may
\* fail waiting requests, and nobody of the snapshot gets a new predecessor.
LEMMA OrderBeside ==
  ASSUME OrderInv, QueueInv', EventLoopFree, UNCHANGED <<running, loop>>,
         \A j \in Instances :
           \/ status'[j] = status[j] \/ status[j] \notin {"queued", "failed", "lost"}
           \/ status[j] = "queued" /\ status'[j] = "failed",
         \A i \in Instances : \A j \in loop.todo :
           Precedes(i, j, queues'[ModelOf[j]]) => Precedes(i, j, queues[ModelOf[j]])
  PROVE  OrderInv'
<1>1. LoopAlive'
  BY DEF OrderInv, LoopAlive
<1>2. loop.todo \subseteq Instances
  BY DEF OrderInv, QueueInv, TypeOK, Pass
<1>3. TodoWaits'
  BY <1>2 DEF OrderInv, TodoWaits, Passing
<1>4. ASSUME Passing, NEW i \in Instances, NEW j \in loop.todo,
             Precedes(i, j, queues'[ModelOf[j]])
      PROVE  Ahead(i, j)'
  <2>1. Precedes(i, j, queues[ModelOf[j]])
    BY <1>4
  <2>2. Ahead(i, j)
    BY <1>4, <2>1 DEF OrderInv, PassInOrder
  <2>3. i \in loop.todo /\ loop.rank[i][1] < loop.rank[j][1]
    BY <2>2 DEF Ahead, EventLoopFree
  <2>4. QED
    BY <2>3 DEF Ahead
<1>5. PassInOrder'
  BY <1>4 DEF PassInOrder, Passing, Precedes
<1>6. QED
  BY <1>1, <1>3, <1>5 DEF OrderInv

\* The same for a call that leaves the queues alone.
LEMMA OrderBesideQueues ==
  ASSUME OrderInv, QueueInv', EventLoopFree, UNCHANGED <<running, loop, queues>>,
         \A j \in Instances :
           \/ status'[j] = status[j] \/ status[j] \notin {"queued", "failed", "lost"}
  PROVE  OrderInv'
BY OrderBeside

LEMMA AllocateResourceOrder ==
  ASSUME OrderInv, QueueInv', NEW x \in Instances, AllocateResource(x)
  PROVE  OrderInv'
<1>1. /\ EventLoopFree /\ UNCHANGED <<running, loop>> /\ status[x] = "new"
      /\ queues' = [queues EXCEPT ![ModelOf[x]] = Append(@, x)]
      /\ status' = [status EXCEPT ![x] = "queued"]
  BY DEF AllocateResource
<1>2. \A j \in Instances : status'[j] = status[j] \/ status[j] = "new"
  BY <1>1 DEF OrderInv, QueueInv, TypeOK, RequestsOK
<1>3. ASSUME EventLoopFree, Passing, NEW i \in Instances, NEW j \in loop.todo,
             Precedes(i, j, queues'[ModelOf[j]])
      PROVE  Precedes(i, j, queues[ModelOf[j]])
  <2>1. j # x
    BY <1>1, <1>3 DEF OrderInv, TodoWaits
  <2>2. j \in Instances /\ ModelOf[j] \in Models /\ queues[ModelOf[j]] \in Seq(Instances)
    BY FcfsAssumption DEF OrderInv, QueueInv, TypeOK, QueuesOK, Pass
  <2>3. \/ queues'[ModelOf[j]] = queues[ModelOf[j]]
        \/ queues'[ModelOf[j]] = Append(queues[ModelOf[j]], x)
    BY <1>1, <2>2 DEF OrderInv, QueueInv, TypeOK, QueuesOK
  <2>4. QED
    BY <1>3, <2>1, <2>2, <2>3, PrecedesAppend
<1>4. CASE Passing
  BY <1>1, <1>2, <1>3, <1>4, OrderBeside
<1>5. CASE ~Passing
  BY <1>1, <1>5, OrderBetween DEF OrderInv, LoopAlive, Passing
<1>6. QED
  BY <1>4, <1>5

LEMMA ClearModelOrder ==
  ASSUME OrderInv, QueueInv', NEW m \in Models, ClearModel(m)
  PROVE  OrderInv'
<1>1. EventLoopFree /\ UNCHANGED <<running, loop>>
  BY DEF ClearModel
<1>2. ASSUME NEW j \in Instances
      PROVE  \/ status'[j] = status[j] \/ status[j] \notin {"queued", "failed", "lost"}
             \/ status[j] = "queued" /\ status'[j] = "failed"
  <2>1. j \in Range(queues[m]) => status[j] = "queued"
    BY DEF OrderInv, QueueInv, QueuedExactlyOnce, QueuedInstances
  <2>2. status'[j] = IF j \in Range(queues[m]) THEN "failed"
                     ELSE IF j \in Held /\ ModelOf[j] = m THEN "released" ELSE status[j]
    BY DEF ClearModel, CancelledBy
  <2>3. QED
    BY <2>1, <2>2 DEF Held
<1>3. ASSUME NEW i \in Instances, NEW j \in loop.todo,
             Precedes(i, j, queues'[ModelOf[j]])
      PROVE  Precedes(i, j, queues[ModelOf[j]])
  <2>1. ModelOf[j] \in Models
    BY FcfsAssumption DEF OrderInv, QueueInv, TypeOK, Pass
  <2>2. queues'[ModelOf[j]] = <<>> \/ queues'[ModelOf[j]] = queues[ModelOf[j]]
    BY <2>1 DEF ClearModel, OrderInv, QueueInv, TypeOK, QueuesOK
  <2>3. ~Precedes(i, j, <<>>)
    BY DEF Precedes
  <2>4. QED
    BY <1>3, <2>2, <2>3
<1>4. QED
  BY <1>1, <1>2, <1>3, OrderBeside

\* Shutdown drops the requests of the snapshot and the scheduler stops running.
LEMMA ShutdownOrder ==
  ASSUME OrderInv, QueueInv', Shutdown
  PROVE  OrderInv'
<1>1. ~running' /\ UNCHANGED loop
  BY DEF Shutdown
<1>2. \A j \in Instances :
        status'[j] = IF status[j] = "queued" THEN "lost" ELSE status[j]
  BY DEF Shutdown
<1>3. TodoWaits'
  <2>1. loop.todo \subseteq Instances
    BY DEF OrderInv, QueueInv, TypeOK, Pass
  <2>2. QED
    BY <1>1, <1>2, <2>1 DEF OrderInv, TodoWaits, Passing
<1>4. \A m \in Models : queues'[m] = <<>>
  BY DEF Shutdown
<1>5. \A i \in Instances : \A j \in loop.todo : ~Precedes(i, j, queues'[ModelOf[j]])
  <2>1. \A j \in loop.todo : ModelOf[j] \in Models
    BY FcfsAssumption DEF OrderInv, QueueInv, TypeOK, Pass
  <2>2. QED
    BY <1>4, <2>1 DEF Precedes
<1>6. QED
  BY <1>1, <1>3, <1>5 DEF OrderInv, LoopAlive, PassInOrder, Precedes

-----------------------------------------------------------------------------
(* The pass itself *)

\* The snapshot of the queues and its sort.
LEMMA SnapshotOrder ==
  ASSUME QueueInv, QueueInv', UNCHANGED <<queues, status>>,
         loop'.pc \in {"collecting", "granting"},
         loop'.todo = QueuedInstances, loop'.rank = PassOver(Refreshed).rank
  PROVE  OrderInv'
<1>1. LoopAlive'
  BY DEF LoopAlive
<1>2. QueuedInstances \subseteq Instances
  BY QueuedType DEF QueueInv
<1>3. \A j \in QueuedInstances : status[j] = "queued"
  BY <1>2 DEF QueueInv, QueuedExactlyOnce
<1>4. TodoWaits'
  BY <1>3 DEF TodoWaits
<1>5. ASSUME NEW i \in Instances, NEW j \in QueuedInstances,
             Precedes(i, j, queues[ModelOf[j]])
      PROVE  i \in QueuedInstances /\ loop'.rank[i][1] < loop'.rank[j][1]
  <2> DEFINE m == ModelOf[j]
  <2>1. m \in Models /\ queues[m] \in Seq(Instances) /\ IsInjective(queues[m])
    BY <1>2, FcfsAssumption DEF QueueInv, TypeOK, QueuesOK, QueuedExactlyOnce
  <2>2. i \in Range(queues[m])
    BY <1>5, <2>1, PrecedesListed
  <2>3. i \in QueuedInstances /\ ModelOf[i] = m
    BY <2>1, <2>2 DEF QueuedInstances, QueueInv, QueuedExactlyOnce
  <2>4. IndexOf(queues[m], i) < IndexOf(queues[m], j)
    BY <1>5, <2>1, PrecedesIndex
  <2>5. loop'.rank[i] = RankOf(i) /\ loop'.rank[j] = RankOf(j)
    BY <1>2, <2>3 DEF PassOver
  <2>6. QED
    BY <2>3, <2>4, <2>5 DEF RankOf
<1>6. PassInOrder'
  BY <1>5 DEF PassInOrder, Ahead, Precedes
<1>7. QED
  BY <1>1, <1>4, <1>6 DEF OrderInv

LEMMA LoopCollectsOrder ==
  ASSUME OrderInv, QueueInv', LoopCollects
  PROVE  OrderInv'
<1>1. /\ UNCHANGED <<running, queues, status>> /\ loop.pc = "collecting"
      /\ loop'.pc = "granting" /\ loop'.todo = loop.todo /\ loop'.rank = loop.rank
  BY DEF LoopCollects, OrderInv, QueueInv, TypeOK, Pass
<1>2. LoopAlive' /\ TodoWaits'
  BY <1>1 DEF OrderInv, LoopAlive, TodoWaits, Passing
<1>3. ASSUME NEW i \in Instances, NEW j \in loop.todo,
             Precedes(i, j, queues[ModelOf[j]])
      PROVE  i \in loop.todo /\ loop.rank[i][1] < loop.rank[j][1]
  BY <1>1, <1>3 DEF OrderInv, PassInOrder, Passing, Ahead
<1>4. PassInOrder'
  BY <1>1, <1>3 DEF PassInOrder, Ahead, Precedes
<1>5. QED
  BY <1>2, <1>4 DEF OrderInv

\* What the pass had no room for, it has no room for after a grant.
LEMMA RoomShrinks ==
  ASSUME TypeOK, NEW x \in Instances, NEW n \in Nodes, LoopGrants(x, n),
         NEW i \in Instances, NEW p \in Nodes, Fits(i, p)'
  PROVE  Fits(i, p)
<1>1. nodes' = nodes /\ Gpus[x] \in Nat /\ Gpus[i] \in Nat
  BY FcfsAssumption DEF LoopGrants
<1>2. loop'.free = [loop.free EXCEPT ![n] = @ - Gpus[x]]
  BY DEF LoopGrants, TypeOK, Pass
<1>3. loop.free \in [Nodes -> Int]
  BY DEF TypeOK, Pass
<1>4. loop'.free[p] <= loop.free[p] /\ loop'.free[p] \in Int /\ loop.free[p] \in Int
  BY <1>1, <1>2, <1>3
<1>5. loop'.free[p] >= Gpus[i]
  BY DEF Fits
<1>6. loop.free[p] >= Gpus[i]
  BY <1>1, <1>4, <1>5
<1>7. QED
  BY <1>1, <1>6 DEF Fits

LEMMA LoopGrantsOrder ==
  ASSUME OrderInv, QueueInv', NEW x \in Instances, NEW n \in Nodes, LoopGrants(x, n)
  PROVE  OrderInv'
<1> DEFINE m == ModelOf[x]
<1>1. /\ loop.pc = "granting" /\ x \in loop.todo /\ UNCHANGED running
      /\ loop'.pc = loop.pc /\ loop'.todo = loop.todo \ {x} /\ loop'.rank = loop.rank
  BY DEF LoopGrants, NextInPass, OrderInv, QueueInv, TypeOK, Pass
<1>2. LoopAlive'
  BY <1>1 DEF LoopAlive
<1>3. loop.todo \subseteq Instances
  BY DEF OrderInv, QueueInv, TypeOK, Pass
<1>4. \A j \in loop'.todo : status'[j] = status[j]
  BY <1>1, <1>3 DEF LoopGrants, OrderInv, QueueInv, TypeOK, RequestsOK
<1>5. TodoWaits'
  BY <1>1, <1>4 DEF OrderInv, TodoWaits, Passing
<1>6. /\ m \in Models /\ queues[m] \in Seq(Instances) /\ x \in Range(queues[m])
      /\ IsInjective(queues[m]) /\ queues'[m] = TakeOut(queues[m], x)
      /\ \A k \in Models \ {m} : queues'[k] = queues[k] /\ x \notin Range(queues[k])
  BY FcfsAssumption DEF LoopGrants, StillListed, OrderInv, QueueInv, TypeOK, QueuesOK,
     QueuedExactlyOnce
<1>7. ASSUME NEW i \in Instances, NEW j \in loop'.todo,
             Precedes(i, j, queues'[ModelOf[j]])
      PROVE  Ahead(i, j)'
  <2> DEFINE k == ModelOf[j]
  <2>1. k \in Models /\ queues[k] \in Seq(Instances) /\ queues'[k] \in Seq(Instances)
    BY <1>1, <1>3, FcfsAssumption DEF OrderInv, QueueInv, TypeOK, QueuesOK
  <2>2. Precedes(i, j, queues[k])
    BY <1>6, <1>7, <2>1, PrecedesTakeOut
  <2>3. i # x
    <3>1. i \in Range(queues'[k])
      BY <1>7, <2>1, PrecedesListed
    <3>2. x \notin Range(queues'[k])
      BY <1>6, <2>1, TakeOutSet
    <3>3. QED
      BY <3>1, <3>2
  <2>4. Ahead(i, j)
    BY <1>1, <2>2 DEF OrderInv, PassInOrder, Passing
  <2>5. CASE i \in loop.todo /\ loop.rank[i][1] < loop.rank[j][1]
    BY <1>1, <2>3, <2>5 DEF Ahead
  <2>6. CASE \A p \in Nodes : ~Fits(i, p)
    <3>1. \A p \in Nodes : ~Fits(i, p)'
      BY <2>6, RoomShrinks DEF OrderInv, QueueInv
    <3>2. QED
      BY <1>1, <3>1 DEF Ahead
  <2>7. QED
    BY <2>4, <2>5, <2>6 DEF Ahead
<1>8. PassInOrder'
  BY <1>7 DEF PassInOrder, Precedes
<1>9. QED
  BY <1>2, <1>5, <1>8 DEF OrderInv

LEMMA LoopSkipsOrder ==
  ASSUME OrderInv, QueueInv', NEW x \in Instances, LoopSkips(x)
  PROVE  OrderInv'
<1>1. /\ loop.pc = "granting" /\ UNCHANGED <<running, queues, status, nodes>>
      /\ loop'.pc = loop.pc /\ loop'.todo = loop.todo \ {x} /\ loop'.rank = loop.rank
      /\ loop'.free = loop.free
  BY DEF LoopSkips, NextInPass, OrderInv, QueueInv, TypeOK, Pass
<1>2. LoopAlive' /\ TodoWaits'
  BY <1>1 DEF OrderInv, LoopAlive, TodoWaits, Passing
<1>3. ASSUME NEW i \in Instances, NEW j \in loop'.todo,
             Precedes(i, j, queues[ModelOf[j]])
      PROVE  Ahead(i, j)'
  <2>1. Ahead(i, j)
    BY <1>1, <1>3 DEF OrderInv, PassInOrder, Passing
  <2>2. \A p \in Nodes : Fits(i, p)' <=> Fits(i, p)
    BY <1>1 DEF Fits
  <2>3. CASE i # x
    BY <1>1, <2>1, <2>2, <2>3 DEF Ahead
  <2>4. CASE i = x
    <3>1. ModelOf[j] \in Models /\ queues[ModelOf[j]] \in Seq(Instances)
      BY <1>1, FcfsAssumption DEF OrderInv, QueueInv, TypeOK, QueuesOK, Pass
    <3>2. x \in Range(queues[ModelOf[j]])
      BY <1>3, <2>4, <3>1, PrecedesListed
    <3>3. StillListed(x) /\ status[x] = "queued"
      BY <3>1, <3>2
         DEF StillListed, OrderInv, QueueInv, QueuedExactlyOnce, QueuedInstances
    <3>4. \A p \in Nodes : ~Fits(x, p)
      BY <3>3 DEF LoopSkips
    <3>5. QED
      BY <1>1, <2>2, <2>4, <3>4 DEF Ahead
  <2>5. QED
    BY <2>3, <2>4
<1>4. PassInOrder'
  BY <1>1, <1>3 DEF PassInOrder, Precedes
<1>5. QED
  BY <1>2, <1>4 DEF OrderInv

\* The KeyError that ends the loop needs a shutdown during the pass.
LEMMA LoopCrashesOrder ==
  ASSUME OrderInv, QueueInv', NEW x \in Instances, LoopCrashes(x)
  PROVE  OrderInv'
<1>1. /\ loop.pc = "granting" /\ x \in loop.todo /\ status[x] # "failed"
      /\ ~HasQueue(ModelOf[x]) /\ UNCHANGED running /\ loop'.pc = "crashed"
  BY DEF LoopCrashes, NextInPass, NoPass
<1>2. status[x] # "queued"
  <2>1. SUFFICES ASSUME status[x] = "queued" PROVE FALSE
    OBVIOUS
  <2>2. PICK m \in Models : x \in Range(queues[m])
    BY <2>1 DEF OrderInv, QueueInv, QueuedExactlyOnce, QueuedInstances
  <2>3. ModelOf[x] = m /\ HasQueue(m)
    BY <2>2 DEF OrderInv, QueueInv, QueuedExactlyOnce, KeysPresent
  <2>4. QED
    BY <1>1, <2>3
<1>3. ~running
  BY <1>1, <1>2 DEF OrderInv, TodoWaits, Passing
<1>4. QED
  BY <1>1, <1>3, OrderBetween DEF LoopAlive, Passing

LEMMA LoopStepOrder ==
  ASSUME OrderInv, QueueInv', LoopStep
  PROVE  OrderInv'
<1>1. CASE LoopRefreshes
  <2>1. loop'.pc = "granting" /\ loop'.todo = QueuedInstances
    BY <1>1 DEF LoopRefreshes, PassOver
  <2>2. QED
    BY <1>1, <2>1, SnapshotOrder DEF LoopRefreshes, OrderInv
<1>2. CASE LoopSuspends
  <2>1. /\ loop'.pc = "collecting" /\ loop'.todo = QueuedInstances
        /\ loop'.rank = PassOver(Refreshed).rank
    BY <1>2 DEF LoopSuspends, PassOver
  <2>2. QED
    BY <1>2, <2>1, SnapshotOrder DEF LoopSuspends, OrderInv
<1>3. CASE LoopUpdates
  <2>1. loop'.pc = "sleeping"
    BY <1>3 DEF LoopUpdates, NoPass
  <2>2. QED
    BY <2>1, OrderBetween DEF LoopAlive, Passing
<1>4. CASE LoopExits
  <2>1. loop'.pc = "off" /\ ~running'
    BY <1>4 DEF LoopExits, NoPass
  <2>2. QED
    BY <2>1, OrderBetween DEF LoopAlive, Passing
<1>5. QED
  BY <1>1, <1>2, <1>3, <1>4, LoopCollectsOrder, LoopGrantsOrder, LoopSkipsOrder,
     LoopCrashesOrder DEF LoopStep

\* A step of one allocate, deallocate or resize call.
LEMMA InstanceStepOrder ==
  ASSUME OrderInv, QueueInv', NEW x \in Instances, InstanceStep(x)
  PROVE  OrderInv'
<1> USE DEF OrderInv, QueueInv, TypeOK, RequestsOK
<1>1. CASE AllocateResource(x)
  BY <1>1, AllocateResourceOrder
<1>2. CASE AllocationResumes(x)
  BY <1>2, OrderBesideQueues, ZenonT(30) DEF AllocationResumes
<1>3. CASE AllocateDistributed(x)
  BY <1>3, OrderBesideQueues, ZenonT(30) DEF AllocateDistributed, ReserveAcross
<1>4. CASE DistributedSuspends(x)
  BY <1>4, OrderBesideQueues, ZenonT(30) DEF DistributedSuspends
<1>5. CASE DistributedCollects(x)
  BY <1>5, OrderBesideQueues, ZenonT(30) DEF DistributedCollects, ReserveAcross
<1>6. CASE DeallocateResource(x)
  BY <1>6, OrderBesideQueues, ZenonT(30) DEF DeallocateResource
<1>7. CASE \E g \in ResizeTo : ResizeResource(x, g)
  BY <1>7, OrderBesideQueues, ZenonT(30) DEF ResizeResource
<1>8. QED
  BY <1>1, <1>2, <1>3, <1>4, <1>5, <1>6, <1>7 DEF InstanceStep

LEMMA NextOrder == ASSUME OrderInv, [Next]_vars PROVE OrderInv'
<1>0. QueueInv'
  BY NextQueues DEF OrderInv
<1>1. CASE Start
  <2>1. loop'.pc = "sleeping"
    BY <1>1 DEF Start, NoPass
  <2>2. QED
    BY <1>0, <2>1, OrderBetween DEF LoopAlive, Passing
<1>2. CASE Shutdown
  BY <1>0, <1>2, ShutdownOrder
<1>3. CASE LoopStep
  BY <1>0, <1>3, LoopStepOrder
<1>4. CASE \E i \in Instances : InstanceStep(i)
  BY <1>0, <1>4, InstanceStepOrder
<1>5. CASE \E m \in Models : ClearModel(m)
  BY <1>0, <1>5, ClearModelOrder
<1>6. CASE Refresh
  BY <1>0, <1>6, OrderBesideQueues, ZenonT(30) DEF Refresh
<1>7. CASE \E r \in Routers : RefreshSuspends(r) \/ RefreshCollects(r)
  BY <1>0, <1>7, OrderBesideQueues, ZenonT(30) DEF RefreshSuspends, RefreshCollects
<1>8. CASE \E n \in Nodes : NodeStep(n)
  BY <1>0, <1>8, OrderBesideQueues, ZenonT(30)
     DEF NodeStep, MarkNodeState, AddWorkerNode, UpdateNodeRisk
<1>9. CASE RayChanges
  BY <1>0, <1>9, OrderBesideQueues, ZenonT(30) DEF RayChanges
<1>10. CASE UNCHANGED vars
  BY <1>0, <1>10
     DEF vars, OrderInv, LoopAlive, TodoWaits, PassInOrder, Passing, Ahead, Fits
<1>11. QED
  BY <1>1, <1>2, <1>3, <1>4, <1>5, <1>6, <1>7, <1>8, <1>9, <1>10 DEF Next

\* Only the control loop grants.
LEMMA GrantIsByLoop ==
  ASSUME QueueInv, [Next]_vars, NEW i \in Instances,
         status[i] = "queued", status'[i] = "granted"
  PROVE  \E n \in Nodes : LoopGrants(i, n) /\ grant'[i] = n
<1> USE DEF QueueInv, TypeOK, RequestsOK
<1>1. CASE \E x \in Instances, n \in Nodes : LoopGrants(x, n)
  <2>1. PICK x \in Instances, n \in Nodes : LoopGrants(x, n)
    BY <1>1
  <2>2. x = i /\ grant'[x] = n
    BY <2>1 DEF LoopGrants
  <2>3. QED
    BY <2>1, <2>2
<1>2. ASSUME LoopStep PROVE \E x \in Instances, n \in Nodes : LoopGrants(x, n)
  BY <1>2 DEF LoopStep, LoopRefreshes, LoopSuspends, LoopCollects, LoopSkips,
     LoopCrashes, LoopUpdates, LoopExits
<1>3. ASSUME NEW x \in Instances PROVE ~InstanceStep(x)
  BY DEF InstanceStep, AllocateResource, AllocationResumes, AllocateDistributed,
     ReserveAcross, DistributedSuspends, DistributedCollects, DeallocateResource,
     ResizeResource
<1>4. ~Start /\ ~Refresh /\ ~RayChanges /\ ~UNCHANGED vars
  BY DEF Start, Refresh, RayChanges, vars
<1>5. ~Shutdown
  BY DEF Shutdown
<1>6. \A m \in Models : ~ClearModel(m)
  BY DEF ClearModel, Held
<1>7. \A r \in Routers : ~RefreshSuspends(r) /\ ~RefreshCollects(r)
  BY DEF RefreshSuspends, RefreshCollects
<1>8. \A n \in Nodes : ~NodeStep(n)
  BY DEF NodeStep, MarkNodeState, AddWorkerNode, UpdateNodeRisk
<1>9. QED
  BY <1>1, <1>2, <1>3, <1>4, <1>5, <1>6, <1>7, <1>8 DEF Next

\* The invariant of a pass, in every configuration.
THEOREM OrderInvariance == Spec => []OrderInv
<1>1. Init => OrderInv
  BY InitOrder
<1>2. OrderInv /\ [Next]_vars => OrderInv'
  BY NextOrder
<1>3. QED
  BY <1>1, <1>2, PTL DEF Spec

\* A scheduler that says it is running has a live control loop: the KeyError
\* that kills the loop task happens only when shutdown replaced the queues
\* during the pass, never because of clear_model, in any configuration.
THEOREM LoopStaysAlive == Spec => []LoopAlive
BY OrderInvariance, PTL DEF OrderInv

\* First come first serve within a model, for any number of requests and nodes
\* and in every configuration: although the pass sorts a snapshot that is old
\* when it grants, no request overtakes an earlier one of its model that is no
\* harder to place.
THEOREM ServedInOrder == Spec => FcfsWithinModel
<1> DEFINE Overtakes(i, j) ==
             /\ ModelOf[i] = ModelOf[j] /\ Easier(i, j)
             /\ StillListed(i) /\ StillListed(j)
             /\ Precedes(i, j, queues[ModelOf[i]])
             /\ status[j] = "queued" /\ status'[j] = "granted"
<1>1. ASSUME OrderInv, [Next]_vars, NEW i \in Instances, NEW j \in Instances,
             Overtakes(i, j)
      PROVE  FALSE
  <2>1. PICK n \in Nodes : LoopGrants(j, n)
    BY <1>1, GrantIsByLoop DEF OrderInv
  <2>2. NextInPass(j) /\ Fits(j, n)
    BY <2>1 DEF LoopGrants
  <2>3. loop.pc = "granting" /\ j \in loop.todo
    BY <2>2 DEF NextInPass
  <2>4. Ahead(i, j)
    BY <1>1, <2>3 DEF OrderInv, PassInOrder, Passing
  <2>5. Fits(i, n)
    <3>1. Gpus[i] <= Gpus[j] /\ Target[i] \in {NoNode, Target[j]}
      BY <1>1 DEF Easier
    <3>2. loop.free[n] \in Int /\ Gpus[i] \in Int /\ Gpus[j] \in Int
      BY <1>1, FcfsAssumption DEF OrderInv, QueueInv, TypeOK, Pass
    <3>3. loop.free[n] >= Gpus[i]
      BY <2>2, <3>1, <3>2 DEF Fits
    <3>4. QED
      BY <2>2, <3>1, <3>3 DEF Fits
  <2>6. i \in loop.todo /\ loop.rank[i][1] < loop.rank[j][1]
    BY <2>4, <2>5 DEF Ahead
  <2>7. loop.rank[i][1] \in Int /\ loop.rank[j][1] \in Int
    BY <1>1, <2>3, <2>6 DEF OrderInv, QueueInv, TypeOK, Pass
  <2>8. loop.rank[j][1] < loop.rank[i][1] \/ loop.rank[j][1] = loop.rank[i][1]
    BY <2>2, <2>6 DEF NextInPass, RankLeq
  <2>9. QED
    BY <2>6, <2>7, <2>8
<1>2. OrderInv /\ [Next]_vars =>
        [\A i, j \in Instances :
           /\ ModelOf[i] = ModelOf[j] /\ Easier(i, j)
           /\ StillListed(i) /\ StillListed(j)
           /\ Precedes(i, j, queues[ModelOf[i]])
           => ~(status[j] = "queued" /\ status'[j] = "granted")]_vars
  BY <1>1
<1>3. QED
  BY <1>2, OrderInvariance, PTL DEF Spec, FcfsWithinModel

-----------------------------------------------------------------------------
(* The health of nodes, when no refresh suspends *)

\* Nobody holds a table computed earlier.
HealthInv ==
  /\ loop.pc # "collecting"
  /\ DOMAIN calls = {}
  /\ StateIsLastMark

\* A step that leaves the controller's reports alone and gives no node another
\* state.
LEMMA HealthKept ==
  ASSUME HealthInv, UNCHANGED <<marked, calls>>, loop'.pc # "collecting",
         \A n \in Nodes : nodes'[n].state = nodes[n].state
  PROVE  HealthInv'
BY DEF HealthInv, StateIsLastMark

LEMMA RefreshKeepsState ==
  ASSUME TypeOK, NEW n \in Nodes
  PROVE  Refreshed[n].state = nodes[n].state
BY DEF Refreshed, KeptState, TypeOK, NodeTable, NodeRow

LEMMA ReserveKeepsState ==
  ASSUME TypeOK, NEW i \in Instances, ReserveAcross(i, Refreshed)
  PROVE  \A n \in Nodes : nodes'[n].state = nodes[n].state
<1> SUFFICES ASSUME NEW n \in Nodes PROVE nodes'[n].state = nodes[n].state
  OBVIOUS
<1>1. Refreshed[n] \in NodeRow /\ Refreshed[n].state = nodes[n].state
  BY RefreshedType, RefreshKeepsState DEF NodeTable
<1>2. nodes'[n] = Refreshed[n] \/ \E f : nodes'[n] = [Refreshed[n] EXCEPT !.free = f]
  <2> DEFINE row == Refreshed[n]
  <2>1. \/ nodes' = Refreshed
        \/ \E a : nodes' = [k \in Nodes |->
                              IF a[k] > 0
                                THEN [Refreshed[k] EXCEPT !.free = Max2(0, @ - a[k])]
                                ELSE Refreshed[k]]
    BY Zenon DEF ReserveAcross
  <2>2. QED
    BY <2>1
<1>3. QED
  BY <1>1, <1>2 DEF NodeRow

LEMMA LoopStepHealth ==
  ASSUME TypeOK, HealthInv, ~RuntimeMetadata, LoopStep
  PROVE  HealthInv'
<1>1. UNCHANGED <<marked, calls>>
  BY DEF LoopStep, LoopRefreshes, LoopSuspends, LoopCollects, LoopGrants, LoopSkips,
     LoopCrashes, LoopUpdates, LoopExits, history
<1>2. CASE LoopRefreshes
  BY <1>1, <1>2, HealthKept, RefreshKeepsState DEF LoopRefreshes, PassOver
<1>3. ~LoopSuspends /\ ~LoopCollects
  BY DEF LoopSuspends, MaySuspend, LoopCollects, HealthInv
<1>4. CASE \E i \in Instances, n \in Nodes : LoopGrants(i, n)
  BY <1>1, <1>4, HealthKept DEF LoopGrants, HealthInv, TypeOK, Pass
<1>5. CASE \E i \in Instances : LoopSkips(i)
  BY <1>1, <1>5, HealthKept DEF LoopSkips, HealthInv, TypeOK, Pass
<1>6. CASE \E i \in Instances : LoopCrashes(i)
  BY <1>1, <1>6, HealthKept DEF LoopCrashes, NoPass
<1>7. CASE LoopUpdates
  <2>1. \A n \in Nodes : nodes'[n].state = nodes[n].state
    BY <1>7 DEF LoopUpdates, TypeOK, NodeTable, NodeRow
  <2>2. QED
    BY <1>1, <1>7, <2>1, HealthKept DEF LoopUpdates, NoPass
<1>8. CASE LoopExits
  BY <1>1, <1>8, HealthKept DEF LoopExits, NoPass
<1>9. QED
  BY <1>2, <1>3, <1>4, <1>5, <1>6, <1>7, <1>8 DEF LoopStep

LEMMA InstanceStepHealth ==
  ASSUME TypeOK, HealthInv, ~RuntimeMetadata, NEW i \in Instances, InstanceStep(i)
  PROVE  HealthInv'
<1>1. CASE AllocateResource(i)
  BY <1>1, HealthKept DEF AllocateResource, HealthInv, history
<1>2. CASE AllocationResumes(i)
  BY <1>2, HealthKept DEF AllocationResumes, HealthInv, history
<1>3. CASE AllocateDistributed(i)
  BY <1>3, HealthKept, ReserveKeepsState DEF AllocateDistributed, HealthInv, history
<1>4. ~DistributedSuspends(i) /\ ~DistributedCollects(i)
  BY DEF DistributedSuspends, MaySuspend, DistributedCollects, HealthInv
<1>5. CASE DeallocateResource(i)
  <2>1. \A n \in Nodes : nodes'[n].state = nodes[n].state
    BY <1>5 DEF DeallocateResource, TypeOK, NodeTable, NodeRow
  <2>2. QED
    BY <1>5, <2>1, HealthKept DEF DeallocateResource, HealthInv, history
<1>6. CASE \E g \in ResizeTo : ResizeResource(i, g)
  <2>1. \A n \in Nodes : nodes'[n].state = nodes[n].state
    BY <1>6 DEF ResizeResource, TypeOK, NodeTable, NodeRow
  <2>2. QED
    BY <1>6, <2>1, HealthKept DEF ResizeResource, HealthInv, history
<1>7. QED
  BY <1>1, <1>2, <1>3, <1>4, <1>5, <1>6 DEF InstanceStep

LEMMA NodeStepHealth ==
  ASSUME TypeOK, HealthInv, NEW n \in Nodes, NodeStep(n)
  PROVE  HealthInv'
<1> USE DEF TypeOK, RayOK, NodeTable, NodeRow, HealthInv, StateIsLastMark
<1>1. UNCHANGED <<loop, calls>>
  BY DEF NodeStep, MarkNodeState, AddWorkerNode, UpdateNodeRisk
<1>2. ASSUME NEW s \in NodeState, MarkNodeState(n, s) PROVE HealthInv'
  BY <1>1, <1>2 DEF MarkNodeState
<1>3. ASSUME NEW info, AddWorkerNode(n, info) PROVE HealthInv'
  BY <1>1, <1>3 DEF AddWorkerNode
<1>4. CASE UpdateNodeRisk(n)
  BY <1>1, <1>4 DEF UpdateNodeRisk, history
<1>5. QED
  BY <1>2, <1>3, <1>4 DEF NodeStep

LEMMA NextHealth ==
  ASSUME TypeOK, HealthInv, ~RuntimeMetadata, [Next]_vars
  PROVE  HealthInv'
<1>1. CASE Start
  BY <1>1, HealthKept DEF Start, NoPass, history
<1>2. CASE Shutdown
  BY <1>2, HealthKept DEF Shutdown, HealthInv, history
<1>3. CASE \E m \in Models : ClearModel(m)
  <2>1. \A n \in Nodes : nodes'[n].state = nodes[n].state
    BY <1>3 DEF ClearModel, TypeOK, NodeTable, NodeRow
  <2>2. QED
    BY <1>3, <2>1, HealthKept DEF ClearModel, HealthInv
<1>4. CASE Refresh
  BY <1>4, HealthKept, RefreshKeepsState DEF Refresh, HealthInv, history
<1>5. \A r \in Routers : ~RefreshSuspends(r) /\ ~RefreshCollects(r)
  BY DEF RefreshSuspends, MaySuspend, RefreshCollects, HealthInv
<1>6. CASE RayChanges
  BY <1>6, HealthKept DEF RayChanges, HealthInv, history
<1>7. CASE UNCHANGED vars
  BY <1>7, HealthKept DEF vars, HealthInv
<1>8. QED
  BY <1>1, <1>2, <1>3, <1>4, <1>5, <1>6, <1>7, LoopStepHealth, InstanceStepHealth,
     NodeStepHealth DEF Next

LEMMA HealthInvariance ==
  ASSUME ~RuntimeMetadata
  PROVE  Spec => []HealthInv
<1>1. Init => HealthInv
  BY DEF Init, HealthInv, StateIsLastMark, NoPass, NoCalls, NoNodes, Unknown
<1>2. TypeOK /\ HealthInv /\ [Next]_vars => HealthInv'
  BY NextHealth
<1>3. Spec => []TypeOK
  BY TypeCorrectness
<1>4. QED
  BY <1>1, <1>2, <1>3, PTL DEF Spec

\* Without runtime metadata the health in worker_nodes is the one the controller
\* reported last: no refresh, release, reservation or resize gives a node back
\* a state it was in before.
THEOREM HealthIsLastReport ==
  ASSUME ~RuntimeMetadata
  PROVE  Spec => []StateIsLastMark
BY HealthInvariance, PTL DEF HealthInv

\* Without runtime metadata a request is granted a node only while the last
\* report about the node says READY.
THEOREM OnlyReadyNodesAreGranted ==
  ASSUME ~RuntimeMetadata
  PROVE  Spec => GrantsOnReadyNodes
<1>1. ASSUME QueueInv, HealthInv, [Next]_vars, NEW i \in Instances,
             status[i] = "queued", status'[i] = "granted"
      PROVE  marked[grant'[i]] = "ready"
  <2>1. PICK n \in Nodes : LoopGrants(i, n) /\ grant'[i] = n
    BY <1>1, GrantIsByLoop
  <2>2. nodes[n].state = "ready"
    BY <2>1 DEF LoopGrants, Fits
  <2>3. QED
    BY <1>1, <2>1, <2>2 DEF HealthInv, StateIsLastMark
<1>2. QueueInv /\ HealthInv /\ [Next]_vars =>
        [\A i \in Instances :
           status[i] = "queued" /\ status'[i] = "granted"
             => marked[grant'[i]] = "ready"]_vars
  BY <1>1
<1>3. QED
  BY <1>2, QueueInvariance, HealthInvariance, PTL DEF Spec, GrantsOnReadyNodes

=============================================================================
