-------------------------- MODULE StoreStepProofs ---------------------------
(***************************************************************************)
(* Every step of the store keeps the invariant of StorePoolProofs: first   *)
(* those of LoadModelFromDisk with its eviction loop and of FreeHost, then *)
(* those of the GPU replicas and of the server.                            *)
(***************************************************************************)
EXTENDS StorePoolProofs

-----------------------------------------------------------------------------
(* The steps of a load *)

LEMMA StepLoadLooksUp ==
  ASSUME TypesInv, Reachable, NEW t \in Loads, LoadLooksUp(t)
  PROVE  TypesInv' /\ Quiet
<1> USE StoreAssumption DEF TypesInv, References
<1>1. /\ UNCHANGED <<reg, access, info, rep, freeing, serv, waiting, woken>>
      /\ UNCHANGED <<mem, free, buf, pinned, st>>
  BY DEF LoadLooksUp, store, pool, sync, server
<1>2. LoadsInv'
  BY DEF LoadLooksUp, LoadsInv, LoadRecords, LoadPcs, MapsInv, Unbound, Working
<1>3. TypesInv'
  BY <1>1, <1>2, MapsFrame, ReplicasFrame, FreesFrame, ServerFrame, WaitersFrame,
     ContentsFrame DEF RepsKept
<1>4. Keeps
  BY <1>1 DEF Keeps, Reachable, PoolInv, PoolTypes
<1>5. HoldsKept
  BY <1>1 DEF HoldsKept, Holds, HoldsReplica, LoadLooksUp, LoadsInv, LoadRecords, Unbound
<1>6. \A u \in Loads : load'[u].pc \in Evicting => load[u].pc \in Evicting
  BY DEF LoadLooksUp, LoadsInv, LoadRecords, Evicting
<1>7. QED
  BY <1>1, <1>3, <1>4, <1>5, <1>6 DEF Quiet

\* The step of a load that leaves the maps, the replicas and the server alone is
\* quiet if it keeps the pool or gives memory back.
LEMMA LoadStepQuiet ==
  ASSUME TypesInv, Reachable, NEW t \in Loads, LoadMoves(t),
         RepsKept, ContentsInv', MapsInv',
         UNCHANGED <<reg, info, serv, waiting, woken>>,
         load'[t].pc \in Evicting => load[t].pc \in Evicting,
         UNCHANGED freeing \/ FreeMoves(t),
         Keeps \/ \E m \in Models : ReleasePinned(m)
  PROVE  TypesInv' /\ Quiet
<1> USE StoreAssumption DEF TypesInv, References
<1>1. FreesInv' /\ freeing'[Server] = freeing[Server]
  BY FreesFrame, FreeMovesKeeps
<1>2. /\ LoadsInv'
      /\ \A u \in Loads, m \in Models : Holds(u, m) => Holds(u, m)'
  BY LoadMovesKeeps
<1>3. TypesInv'
  BY <1>1, <1>2, ServerFrame, WaitersFrame DEF RepsKept
<1>4. HoldsKept
  BY <1>2 DEF HoldsKept, RepsKept
<1>5. \A u \in Loads : load'[u].pc \in Evicting => load[u].pc \in Evicting
  BY DEF LoadMoves, LoadsInv
<1>6. QED
  BY <1>1, <1>3, <1>4, <1>5 DEF Quiet

LEMMA StepLoadEvicts ==
  ASSUME TypesInv, Reachable, NEW t \in Loads, LoadEvicts(t)
  PROVE  TypesInv' /\ Quiet
<1> USE StoreAssumption DEF TypesInv, References
<1> DEFINE v == reg[Head(load[t].todo)]
           left == load[t].need - FreedBy(v)
<1>1. /\ UNCHANGED <<reg, access, info, rep, serv, waiting, woken, mem, freeing>>
      /\ load[t].pc = "evict" /\ load[t].todo # <<>> /\ v # None
  BY DEF LoadEvicts, store, sync, server
<1>2. load[t] \in LoadRecords /\ Head(load[t].todo) \in Paths /\ v \in Models
  BY <1>1, SMTT(30) DEF LoadsInv, LoadRecords, MapsInv
<1>3. Keeps \/ ReleasePinned(v)
  BY <1>2 DEF LoadEvicts, Keeps, Reachable, PoolInv, PoolTypes
<1>4. left \in Int
  BY <1>2, SMTT(30) DEF LoadRecords, FreedBy, Reachable, PoolInv, PoolTypes
<1>5. LoadMoves(t) /\ load'[t].pc \in Evicting
  <2>1. load' = [load EXCEPT ![t].todo = Tail(@), ![t].need = left,
                   ![t].pc = IF left <= 0 THEN "realloc" ELSE "evict"]
    BY DEF LoadEvicts
  <2> HIDE DEF v, left
  <2>2. Tail(load[t].todo) \in Seq(Paths)
    BY <1>1, <1>2 DEF LoadRecords
  <2> DEFINE q == IF left <= 0 THEN "realloc" ELSE "evict"
             s == Tail(load[t].todo)
             rec == [load[t] EXCEPT !.todo = s, !.need = left, !.pc = q]
  <2>3. q \in Evicting
    BY DEF Evicting
  <2>4. load' = [load EXCEPT ![t] = rec]
    BY <2>1, Zenon DEF LoadsInv
  <2> HIDE DEF q, s
  <2>5. rec \in LoadRecords /\ rec.pc = q /\ rec.obj = load[t].obj
    <3>1. s \in Seq(Paths)
      BY <2>2 DEF s
    <3>2. QED
      BY <1>2, <1>4, <2>3, <3>1, Zenon DEF LoadRecords, LoadPcs, Evicting, Working
  <2> HIDE DEF rec
  <2>6. QED
    BY <1>1, <2>3, <2>4, <2>5
    DEF LoadMoves, LoadsInv, LoadRecords, Unbound, Working, Evicting
<1> HIDE DEF v, left
<1>6. QED
  BY <1>1, <1>2, <1>3, <1>5, ContentsFrame, MapsFrame, ReplicasFrame, LoadStepQuiet, SMTT(30)
  DEF Evicting

\* The process that is gone changes nothing any more.
LEMMA StepCrash ==
  ASSUME TypesInv, Reachable, Crash
  PROVE  TypesInv' /\ Quiet
<1> USE StoreAssumption DEF TypesInv, References
<1>1. /\ UNCHANGED <<reg, access, info, rep, load, freeing, serv, waiting, woken>>
      /\ UNCHANGED <<mem, free, buf, pinned, st>>
  BY DEF Crash, store, pool, sync, server
<1>2. TypesInv'
  BY <1>1, MapsFrame, LoadsFrame, ReplicasFrame, FreesFrame, ServerFrame,
     WaitersFrame, ContentsFrame DEF RepsKept
<1>3. Keeps /\ HoldsKept
  BY <1>1 DEF Keeps, HoldsKept, Holds, HoldsReplica, Reachable, PoolInv, PoolTypes
<1>4. QED
  BY <1>1, <1>2, <1>3 DEF Quiet

LEMMA StepToHost ==
  ASSUME TypesInv, Reachable, NEW t \in Loads, ToHost(t)
  PROVE  TypesInv' /\ Quiet
<1> USE StoreAssumption DEF TypesInv, References
<1> DEFINE m == load[t].obj
<1>1. /\ UNCHANGED <<reg, access, info, rep, serv, waiting, woken>>
      /\ UNCHANGED <<mem, free, buf, pinned>>
      /\ load[t].pc = "tohost" /\ load[t].pc \in Working
  BY DEF ToHost, store, pool, sync, server, Working
<1>2. m \in Models /\ m # None /\ load[t] \in LoadRecords
  BY <1>1 DEF LoadsInv, LoadRecords
<1>3. Keeps
  BY <1>1, <1>2, Zenon DEF ToHost, Keeps, Reachable, PoolInv, PoolTypes, MemoryStates, Without
<1>4. LoadMoves(t) /\ load'[t].pc \notin Evicting
  <2>1. CASE load' = [load EXCEPT ![t].pc = "reading", ![t].to = buf[m]]
    <3> DEFINE b == buf[m]
               rec == [load[t] EXCEPT !.pc = "reading", !.to = b]
    <3>1. b \in Seq(Chunks)
      BY <1>2 DEF Reachable, PoolInv, PoolTypes
    <3>2. load' = [load EXCEPT ![t] = rec]
      BY <2>1, Zenon DEF LoadsInv
    <3> HIDE DEF b
    <3>3. rec \in LoadRecords /\ rec.pc = "reading" /\ rec.obj = load[t].obj
      BY <1>2, <3>1, Zenon DEF LoadRecords, LoadPcs, Working
    <3> HIDE DEF rec
    <3>4. QED
      BY <1>1, <3>2, <3>3, RecordMoves, Zenon DEF Unbound, Evicting
  <2>2. CASE Goto(t, "done") \/ Goto(t, "freehost")
    BY <1>1, <2>2, GotoMoves DEF LoadPcs, Working, Unbound, Evicting
  <2>3. QED
    BY <2>1, <2>2, Zenon DEF ToHost
<1>5. UNCHANGED freeing \/ FreeMoves(t)
  BY <1>2, FreeBegins, Zenon DEF ToHost
<1>6. QED
  BY <1>1, <1>3, <1>4, <1>5, ContentsFrame, MapsFrame, ReplicasFrame, LoadStepQuiet

LEMMA StepToHostReads ==
  ASSUME TypesInv, Reachable, NEW t \in Loads, NEW k \in 1..Size[LoadPath[t]],
         ToHostReads(t, k) \/ ToHostReadFails(t, k)
  PROVE  TypesInv' /\ Quiet
<1> USE StoreAssumption DEF TypesInv, References
<1>1. /\ UNCHANGED <<reg, access, info, rep, serv, waiting, woken, freeing>>
      /\ UNCHANGED <<free, buf, pinned, st>>
      /\ load[t].pc = "reading" /\ load[t].pc \in Working
  BY DEF ToHostReads, ToHostReadFails, store, pool, sync, server, Working
<1>2. Keeps
  BY <1>1 DEF Keeps, Reachable, PoolInv, PoolTypes
<1>3. k \in Nat /\ load[t] \in LoadRecords
  BY DEF LoadsInv
<1>4. LoadMoves(t) /\ load'[t].pc \notin Evicting
  <2> DEFINE r1 == [load[t] EXCEPT !.read = @ \cup {k}]
             r2 == [load[t] EXCEPT !.failed = @ \cup {k}]
  <2>1. /\ r1 \in LoadRecords /\ r1.pc = load[t].pc /\ r1.obj = load[t].obj
        /\ r2 \in LoadRecords /\ r2.pc = load[t].pc /\ r2.obj = load[t].obj
    BY <1>3, Zenon DEF LoadRecords
  <2>2. load' = [load EXCEPT ![t] = r1] \/ load' = [load EXCEPT ![t] = r2]
    BY DEF ToHostReads, ToHostReadFails, LoadsInv
  <2> HIDE DEF r1, r2
  <2>3. QED
    BY <1>1, <2>1, <2>2, RecordMoves DEF Unbound, Evicting
<1>5. ContentsInv'
  <2>1. CASE ToHostReads(t, k)
    BY <2>1 DEF ToHostReads, ContentsInv
  <2>2. CASE ToHostReadFails(t, k)
    BY <2>2, ContentsFrame DEF ToHostReadFails, pool
  <2>3. QED
    BY <2>1, <2>2
<1>6. QED
  BY <1>1, <1>2, <1>4, <1>5, MapsFrame, ReplicasFrame, LoadStepQuiet

LEMMA StepToHostLoaded ==
  ASSUME TypesInv, Reachable, NEW t \in Loads, ToHostLoaded(t)
  PROVE  TypesInv' /\ Quiet
<1> USE StoreAssumption DEF TypesInv, References
<1>1. /\ UNCHANGED <<reg, access, info, rep, serv, waiting, woken, freeing>>
      /\ UNCHANGED <<mem, free, buf, pinned>>
      /\ load[t].pc \in Working
      /\ st' = [st EXCEPT ![load[t].obj] = "LOADED"]
      /\ Goto(t, "done")
  BY SMTT(30) DEF ToHostLoaded, store, pool, sync, server, Working
<1>2. Keeps
  BY <1>1, Zenon DEF Keeps, Reachable, PoolInv, PoolTypes, MemoryStates, Without
<1>3. LoadMoves(t) /\ load'[t].pc \notin Evicting
  BY <1>1, GotoMoves, SMTT(30) DEF LoadPcs, Unbound, Evicting
<1>4. QED
  BY <1>1, <1>2, <1>3, ContentsFrame, MapsFrame, ReplicasFrame, LoadStepQuiet, SMTT(30)

LEMMA StepLoadEnds ==
  ASSUME TypesInv, Reachable, NEW t \in Loads, LoadEnds(t)
  PROVE  TypesInv' /\ Quiet
<1> USE StoreAssumption DEF TypesInv, References
<1>1. /\ UNCHANGED <<reg, access, info, rep, serv, waiting, woken>>
      /\ UNCHANGED <<mem, free, buf, pinned, st>>
      /\ load[t].pc \in Working
      /\ Goto(t, "failed") /\ freeing' = [freeing EXCEPT ![t] = NoFree]
  BY SMTT(30) DEF LoadEnds, store, pool, sync, server, Working
<1>2. Keeps
  BY <1>1 DEF Keeps, Reachable, PoolInv, PoolTypes
<1>3. LoadMoves(t) /\ load'[t].pc \notin Evicting
  BY <1>1, GotoMoves DEF LoadPcs, Unbound, Evicting
<1>4. FreeMoves(t)
  BY <1>1, FreeForgotten, Zenon
<1>5. QED
  BY <1>1, <1>2, <1>3, <1>4, ContentsFrame, MapsFrame, ReplicasFrame, LoadStepQuiet, Zenon

\* What a replica becomes: it keeps its Model, or finds one.
LEMMA ReplicaMoves ==
  ASSUME ReplicasInv, NEW r \in Replicas, NEW x, IsReplica(x),
         rep' = [rep EXCEPT ![r] = x],
         x.obj = rep[r].obj \/ rep[r].obj = None,
         x.pc \notin Unbound \/ x.obj = None,
         x.pc = "togpu" => x.obj # None, x.pc # "left"
  PROVE  RepsKept
<1> USE StoreAssumption
<1>1. rep' = [q \in Replicas |-> rep'[q]] /\ rep'[r] = x
      /\ \A q \in Replicas \ {r} : rep'[q] = rep[q]
  BY DEF ReplicasInv
<1>2. QED
  BY <1>1 DEF ReplicasInv, RepsKept, HoldsReplica

\* A replica that is cancelled.
LEMMA ReplicaCancelled ==
  ASSUME ReplicasInv, NEW r \in Replicas, rep' = [rep EXCEPT ![r].st = "CANCELLED"]
  PROVE  RepsKept
<1> USE StoreAssumption
<1> DEFINE x == [rep[r] EXCEPT !.st = "CANCELLED"]
<1>1. IsReplica(x) /\ x.obj = rep[r].obj /\ x.pc = rep[r].pc
  BY DEF ReplicasInv, IsReplica, ReplicaStates
<1>2. rep' = [rep EXCEPT ![r] = x]
  BY DEF ReplicasInv
<1> HIDE DEF x
<1>3. /\ rep' = [q \in Replicas |-> rep'[q]] /\ rep'[r] = x
      /\ \A q \in Replicas \ {r} : rep'[q] = rep[q]
  BY <1>2 DEF ReplicasInv
<1>4. QED
  BY <1>1, <1>3 DEF ReplicasInv, RepsKept, HoldsReplica

LEMMA AbandonsQuietly ==
  ASSUME TypesInv, Reachable, NEW t \in Loads, load[t].pc \in {"reading", "abandon"},
         NEW replicas \in SUBSET Replicas, ToHostAbandons(t, replicas),
         UNCHANGED <<store, mem, host, sync, server, dead>>
  PROVE  TypesInv' /\ Quiet
<1> USE StoreAssumption DEF TypesInv, References
<1> DEFINE m == load[t].obj
<1>1. /\ UNCHANGED <<reg, access, info, serv, waiting, woken, mem>>
      /\ load[t].pc \in Working
  BY DEF store, sync, server, Working
<1>2. m \in Models /\ m # None /\ load[t] \in LoadRecords
  BY <1>1 DEF LoadsInv, LoadRecords
<1>3. CASE \E r \in replicas :
             /\ rep' = [rep EXCEPT ![r].st = "CANCELLED"]
             /\ load' = [load EXCEPT ![t].pc = "abandon", ![t].on = r,
                                     ![t].rest = replicas \ {r}]
             /\ st' = IF load[t].pc = "reading"
                        THEN [st EXCEPT ![m] = "INTERRUPTED"] ELSE st
             /\ UNCHANGED <<free, pinned, buf, freeing>>
  <2>1. PICK r \in replicas :
             /\ rep' = [rep EXCEPT ![r].st = "CANCELLED"]
             /\ load' = [load EXCEPT ![t].pc = "abandon", ![t].on = r,
                                     ![t].rest = replicas \ {r}]
             /\ st' = IF load[t].pc = "reading"
                        THEN [st EXCEPT ![m] = "INTERRUPTED"] ELSE st
             /\ UNCHANGED <<free, pinned, buf, freeing>>
    BY <1>3, Zenon
  <2>2. RepsKept
    BY <2>1, ReplicaCancelled, Zenon
  <2>3. Keeps
    BY <1>2, <2>1 DEF Keeps, Reachable, PoolInv, PoolTypes, MemoryStates, Without
  <2> DEFINE others == replicas \ {r}
             rec == [load[t] EXCEPT !.pc = "abandon", !.on = r, !.rest = others]
  <2>4. load' = [load EXCEPT ![t] = rec]
    BY <2>1, Zenon DEF LoadsInv
  <2>5. others \in SUBSET Replicas /\ r \in Replicas
    OBVIOUS
  <2> HIDE DEF others
  <2>6. rec \in LoadRecords /\ rec.pc = "abandon" /\ rec.obj = load[t].obj
    BY <1>2, <2>5, Zenon DEF LoadRecords, LoadPcs, Working
  <2> HIDE DEF rec
  <2>7. LoadMoves(t) /\ load'[t].pc \notin Evicting
    BY <1>1, <2>4, <2>6, RecordMoves, Zenon DEF Unbound, Evicting
  <2>8. QED
    BY <1>1, <2>1, <2>2, <2>3, <2>7, MapsFrame, ContentsFrame, LoadStepQuiet, Zenon
<1>4. CASE /\ ReleasePinned(m) /\ Goto(t, "freehost") /\ UNCHANGED rep
           /\ freeing' = [freeing EXCEPT ![t].pc = "enter", ![t].obj = m]
  <2>1. LoadMoves(t) /\ load'[t].pc \notin Evicting
    BY <1>1, <1>4, GotoMoves DEF LoadPcs, Unbound, Working, Evicting
  <2>2. FreeMoves(t)
    BY <1>2, <1>4, FreeBegins, Zenon
  <2>3. QED
    BY <1>1, <1>2, <1>4, <2>1, <2>2, MapsFrame, ReplicasFrame, ContentsFrame,
       LoadStepQuiet
<1>5. QED
  BY <1>3, <1>4, Zenon DEF ToHostAbandons

LEMMA StepToHostFails ==
  ASSUME TypesInv, Reachable, NEW t \in Loads, ToHostFails(t) \/ ToHostAbandonsNext(t)
  PROVE  TypesInv' /\ Quiet
<1>1. \A m : ReplicasOf(m) \in SUBSET Replicas
  BY DEF ReplicasOf
<1>2. CASE ToHostFails(t)
  BY <1>1, <1>2, AbandonsQuietly, SMTT(30) DEF ToHostFails
<1>3. CASE ToHostAbandonsNext(t)
  <2>1. PICK more \in SUBSET ReplicasOf(load[t].obj) :
          ToHostAbandons(t, (load[t].rest \cap ReplicasOf(load[t].obj)) \cup more)
    BY <1>3, Zenon DEF ToHostAbandonsNext
  <2>2. (load[t].rest \cap ReplicasOf(load[t].obj)) \cup more \in SUBSET Replicas
    BY <1>1
  <2>3. QED
    BY <1>3, <2>1, <2>2, AbandonsQuietly DEF ToHostAbandonsNext
<1>4. QED
  BY <1>2, <1>3

\* A load that keeps its Model, whatever it does to the pool.
LEMMA LoadStepTypes ==
  ASSUME TypesInv, NEW t \in Loads, LoadMoves(t), RepsKept, ContentsInv', MapsInv',
         UNCHANGED <<serv, waiting, woken, freeing>>
  PROVE  TypesInv' /\ HoldsKept
<1> USE DEF TypesInv, References
<1>1. /\ LoadsInv'
      /\ \A u \in Loads, m \in Models : Holds(u, m) => Holds(u, m)'
  BY LoadMovesKeeps
<1>2. QED
  BY <1>1, FreesFrame, ServerFrame, WaitersFrame DEF HoldsKept, RepsKept

LEMMA HeldMemory ==
  ASSUME NoOrphanMemory, HoldsKept, UNCHANGED reg,
         \A m \in Models : buf'[m] # <<>> =>
           buf[m] # <<>> \/ \E t \in Loads : Holds(t, m)'
  PROVE  NoOrphanMemory'
<1>1. \A m \in Models : Registered(m) => Registered(m)'
  BY DEF Registered
<1>2. QED
  BY <1>1 DEF NoOrphanMemory, HoldsKept

LEMMA StepLoadAllocates ==
  ASSUME TypesInv, Reachable, Cardinality(free) \in Nat, NEW t \in Loads,
         LoadAllocates(t)
  PROVE  TypesInv' /\ Reachable'
<1> USE StoreAssumption DEF TypesInv, References
<1> DEFINE m == load[t].obj
           n == Size[LoadPath[t]]
<1>1. /\ UNCHANGED <<reg, rep, freeing, serv, waiting, woken, mem>>
      /\ load[t].pc = "alloc" /\ load[t].pc \in Working /\ info = None
  BY DEF LoadAllocates, store, pool, sync, server, Working
<1>2. m \in Models /\ m # None /\ load[t] \in LoadRecords
  BY <1>1 DEF LoadsInv, LoadRecords
<1>3. serv.at # "clear" /\ \A u \in Loads : load[u].pc \notin Evicting
  BY <1>1, LockFree DEF Reachable
<1>4. CASE /\ Keeps \/ Takes(m)
           /\ Goto(t, "tohost") /\ access' = Touched(LoadPath[t]) /\ UNCHANGED info
  <2>1. LoadMoves(t) /\ load'[t].pc = "tohost"
    BY <1>1, <1>4, GotoMoves DEF LoadPcs, Unbound, Working
  <2>2. MapsInv'
    BY <1>1, <1>4, TouchedKeeps, SMTT(30) DEF MapsInv
  <2>3. TypesInv' /\ HoldsKept
    BY <1>1, <2>1, <2>2, ReplicasFrame, ContentsFrame, LoadStepTypes, Zenon
  <2>4. PoolInv'
    BY <1>2, <1>4, PoolMoveKeepsPool, Zenon DEF PoolMove, Reachable
  <2>5. LockHeld' /\ ClearPending'
    BY <1>1, <1>3, <2>1, Zenon DEF LockHeld, ClearPending, LoadMoves, Evicting
  <2>6. NoOrphanMemory'
    <3>1. \A x \in Models \ {m} : buf'[x] = buf[x]
      BY <1>2, <1>4 DEF Keeps, Takes, AllocatePinned, Reachable, PoolInv, PoolTypes
    <3>2. load'[t].obj = m /\ load'[t].pc # "left"
      BY <2>1 DEF LoadMoves
    <3>3. \A x \in Models : buf'[x] # <<>> =>
            buf[x] # <<>> \/ \E u \in Loads : Holds(u, x)'
      BY <3>1, <3>2 DEF Holds
    <3>4. QED
      BY <1>1, <2>3, <3>3, HeldMemory, Zenon DEF Reachable
  <2>7. QED
    BY <2>3, <2>4, <2>5, <2>6 DEF Reachable
<1>5. CASE /\ load' = [load EXCEPT ![t].pc = "evict", ![t].todo = access,
                                   ![t].need = n - Cardinality(free)]
           /\ info' = t
           /\ pinned' = [pinned EXCEPT ![m] = TRUE]
           /\ UNCHANGED <<free, buf, st, access>>
  <2> DEFINE need == n - Cardinality(free)
             rec == [load[t] EXCEPT !.pc = "evict", !.todo = access, !.need = need]
  <2>1. need \in Int
    <3>1. n \in Nat
      OBVIOUS
    <3>2. QED
      BY <3>1
  <2>2. load' = [load EXCEPT ![t] = rec]
    BY <1>5, Zenon DEF LoadsInv
  <2> HIDE DEF need
  <2>3. rec \in LoadRecords /\ rec.pc = "evict" /\ rec.obj = load[t].obj
    BY <1>2, <2>1, Zenon DEF LoadRecords, LoadPcs, Working, MapsInv
  <2> HIDE DEF rec
  <2>4. LoadMoves(t) /\ load'[t].pc = "evict"
    BY <1>1, <2>2, <2>3, RecordMoves, Zenon DEF Unbound
  <2>5. MapsInv'
    BY <1>1, <1>5 DEF MapsInv
  <2>6. TypesInv' /\ HoldsKept
    BY <1>1, <2>4, <2>5, ReplicasFrame, ContentsFrame, LoadStepTypes
  <2>7. Keeps
    BY <1>2, <1>5 DEF Keeps, Reachable, PoolInv, PoolTypes
  <2>8. LockHeld' /\ ClearPending'
    BY <1>1, <1>3, <1>5, <2>4 DEF LockHeld, ClearPending, LoadMoves, Evicting
  <2>9. QED
    BY <1>1, <1>5, <2>6, <2>7, <2>8, KeepsPool, HeldMemory DEF Reachable
<1>6. QED
  <2>1. pinned \in [Models -> BOOLEAN] /\ st \in [Models -> MemoryStates]
    BY DEF Reachable, PoolInv, PoolTypes
  <2>2. UNCHANGED <<free, pinned, buf, st>> => Keeps
    BY <2>1 DEF Keeps
  <2>3. QED
    BY <1>4, <1>5, <2>2 DEF LoadAllocates, Takes, pool

LEMMA StepLoadGivesUp ==
  ASSUME TypesInv, Reachable, NEW t \in Loads, LoadGivesUp(t)
  PROVE  TypesInv' /\ Reachable'
<1> USE StoreAssumption DEF TypesInv, References
<1>1. /\ UNCHANGED <<reg, access, rep, freeing, serv, waiting, woken, mem>>
      /\ UNCHANGED <<free, buf, pinned, st>> /\ info' = None
      /\ load[t].pc = "evict" /\ load[t].pc \in Working
  BY DEF LoadGivesUp, pool, sync, server, Working
<1>2. LoadMoves(t) /\ load'[t].pc = "failed"
  BY <1>1, GotoMoves, Zenon DEF LoadGivesUp, LoadPcs, Unbound, Working
<1>3. MapsInv'
  BY <1>1 DEF MapsInv
<1>4. TypesInv' /\ HoldsKept
  BY <1>1, <1>2, <1>3, ReplicasFrame, ContentsFrame, LoadStepTypes, Zenon
<1>5. Keeps
  BY <1>1, Zenon DEF Keeps, Reachable, PoolInv, PoolTypes
<1>6. LockHeld' /\ ClearPending'
  BY <1>1, <1>2, Zenon DEF LockHeld, ClearPending, LoadMoves, Reachable
<1>7. QED
  BY <1>1, <1>4, <1>5, <1>6, KeepsPool, HeldMemory, SMTT(30) DEF Reachable

LEMMA StepLoadReallocates ==
  ASSUME TypesInv, Reachable, NEW t \in Loads, LoadReallocates(t)
  PROVE  TypesInv' /\ Reachable'
<1> USE StoreAssumption DEF TypesInv, References
<1> DEFINE m == load[t].obj
<1>1. /\ UNCHANGED <<reg, rep, freeing, serv, waiting, woken, mem>>
      /\ info' = None /\ access' = Touched(LoadPath[t])
      /\ load[t].pc = "realloc" /\ load[t].pc \in Working
  <2>1. /\ load[t].pc = "realloc" /\ access' = Touched(LoadPath[t]) /\ info' = None
        /\ UNCHANGED <<reg, rep, freeing, mem>> /\ UNCHANGED <<sync, server>>
    BY Zenon DEF LoadReallocates
  <2>2. QED
    BY <2>1, Zenon DEF sync, server, Working
<1>2. m \in Models /\ m # None
  <2>1. load[t] \in LoadRecords /\ m # None
    BY <1>1, Zenon DEF LoadsInv
  <2>2. QED
    BY <2>1, Zenon DEF LoadRecords
<1>3. Keeps \/ Takes(m)
  BY Zenon DEF LoadReallocates, Keeps, Takes, Reachable, PoolInv, PoolTypes
<1>4. LoadMoves(t) /\ load'[t].pc = "tohost"
  BY <1>1, GotoMoves, Zenon DEF LoadReallocates, LoadPcs, Unbound, Working
<1>5. MapsInv'
  BY <1>1, TouchedKeeps, Zenon DEF MapsInv
<1>6. TypesInv' /\ HoldsKept
  BY <1>1, <1>4, <1>5, ReplicasFrame, ContentsFrame, LoadStepTypes, Zenon
<1>7. PoolInv'
  BY <1>2, <1>3, PoolMoveKeepsPool, SMTT(30) DEF PoolMove, Reachable
<1>8. LockHeld' /\ ClearPending'
  BY <1>1, <1>4, Zenon DEF LockHeld, ClearPending, LoadMoves, Reachable
<1>9. NoOrphanMemory'
  <2>1. \A x \in Models \ {m} : buf'[x] = buf[x]
    BY <1>2, <1>3, Zenon DEF Keeps, Takes, AllocatePinned, Reachable, PoolInv, PoolTypes
  <2>2. load'[t].obj = m /\ load'[t].pc # "left"
    BY <1>4 DEF LoadMoves
  <2>3. \A x \in Models : buf'[x] # <<>> =>
          buf[x] # <<>> \/ \E u \in Loads : Holds(u, x)'
    BY <2>1, <2>2 DEF Holds
  <2>4. QED
    BY <1>1, <1>6, <2>3, HeldMemory, Zenon DEF Reachable
<1>10. QED
  BY <1>6, <1>7, <1>8, <1>9, Zenon DEF Reachable

\* The last reference to a Model gives its memory back, and only that.
LEMMA DropsMoves ==
  ASSUME PoolInv, NEW m \in Models \cup {None}, NEW last, Drops(m, last)
  PROVE  /\ PoolInv'
         /\ \A x \in Models : buf'[x] # <<>> => buf[x] # <<>>
         /\ \/ ~last \/ m = None \/ Registered(m)
            \/ buf'[m] = <<>>
<1> USE StoreAssumption
<1>1. CASE m # None /\ ~Registered(m) /\ last
  <2>1. m \in Models /\ ReleasePinned(m)
    BY <1>1 DEF Drops
  <2>2. QED
    BY <2>1, NoneTaken, GivesPool, Zenon DEF ReleasePinned, PoolInv, PoolTypes
<1>2. CASE ~(m # None /\ ~Registered(m) /\ last)
  <2>1. Keeps
    BY <1>2 DEF Drops, Keeps, PoolInv, PoolTypes
  <2>2. QED
    BY <1>2, <2>1, KeepsPool DEF Keeps
<1>3. QED
  BY <1>1, <1>2, SMTT(30)

LEMMA StepLoadReturns ==
  ASSUME TypesInv, Reachable, NEW t \in Loads, LoadReturns(t)
  PROVE  TypesInv' /\ Reachable'
<1> USE StoreAssumption DEF TypesInv, References
<1> DEFINE m == load[t].obj
           last == /\ \A u \in Loads \ {t} : ~Holds(u, m)
                   /\ \A r \in Replicas : ~HoldsReplica(r, m)
<1>1. /\ UNCHANGED <<reg, access, info, rep, freeing, serv, waiting, woken, mem>>
      /\ load[t].pc \in {"done", "failed"} /\ Drops(m, last)
  BY Zenon DEF LoadReturns, store, sync, server
<1>2. /\ load' \in [Loads -> LoadRecords]
      /\ load'[t].pc = "left" /\ load'[t].obj = m
      /\ \A u \in Loads \ {t} : load'[u] = load[u]
  <2> DEFINE rec == [load[t] EXCEPT !.pc = "left"]
  <2>1. load[t] \in LoadRecords /\ load' = [load EXCEPT ![t] = rec]
    BY DEF LoadReturns, Goto, LoadsInv
  <2>2. rec \in LoadRecords /\ rec.pc = "left" /\ rec.obj = m
    BY <2>1, Zenon DEF LoadRecords, LoadPcs
  <2> HIDE DEF rec
  <2>3. QED
    BY <2>1, <2>2 DEF LoadsInv
<1>3. LoadsInv'
  BY <1>2 DEF LoadsInv, Unbound, Working
<1>4. TypesInv'
  BY Zenon, <1>1, <1>3, MapsFrame, ReplicasFrame, FreesFrame, ServerFrame, WaitersFrame,
     ContentsFrame DEF RepsKept
<1>5. m \in Models \cup {None}
  BY Zenon DEF LoadsInv, LoadRecords
<1> HIDE DEF last
<1>6. /\ PoolInv'
      /\ \A x \in Models : buf'[x] # <<>> => buf[x] # <<>>
      /\ ~last \/ m = None \/ Registered(m) \/ buf'[m] = <<>>
  BY <1>1, <1>5, DropsMoves, Zenon DEF Reachable
<1>7. LockHeld'
  BY <1>1, <1>2, Zenon DEF LockHeld, Reachable
<1>8. ClearPending'
  BY <1>1, <1>6, Zenon DEF ClearPending, MapsInv, Reachable
<1>9. NoOrphanMemory'
  <2> SUFFICES ASSUME NEW x \in Models, buf'[x] # <<>>
               PROVE  \/ Registered(x)'
                      \/ \E u \in Loads : Holds(u, x)'
                      \/ \E r \in Replicas : HoldsReplica(r, x)'
    BY SMTT(30) DEF NoOrphanMemory
  <2>1. \/ Registered(x)
        \/ \E u \in Loads : Holds(u, x)
        \/ \E r \in Replicas : HoldsReplica(r, x)
    BY <1>6, Zenon DEF NoOrphanMemory, Reachable
  <2>2. /\ Registered(x) => Registered(x)'
        /\ \A r \in Replicas : HoldsReplica(r, x) => HoldsReplica(r, x)'
        /\ \A u \in Loads \ {t} : Holds(u, x) => Holds(u, x)'
    BY <1>1, <1>2, Zenon DEF Registered, HoldsReplica, Holds
  <2>3. CASE x = m
    BY <1>6, <2>2, <2>3, Zenon DEF last
  <2>4. CASE x # m
    <3>1. ~Holds(t, x)
      BY <2>4, Zenon DEF Holds
    <3>2. QED
      BY <2>1, <2>2, <3>1, Zenon
  <2>5. QED
    BY <2>3, <2>4
<1>10. QED
  BY <1>4, <1>6, <1>7, <1>8, <1>9, SMTT(30) DEF Reachable

-----------------------------------------------------------------------------
(* FreeHost *)

LEMMA FreeStepKeeps ==
  ASSUME TypesInv, Reachable, NEW c \in Loads \cup {Server}, WaitersInv',
         UNCHANGED <<reg, access, info, load, rep, serv, mem>>,
         FreeGoesOn(c) \/ UNCHANGED freeing,
         Keeps \/ \E m \in Models : ReleasePinned(m)
  PROVE  TypesInv' /\ Reachable'
<1> USE StoreAssumption DEF TypesInv, References
<1>1. FreesInv' /\ \A d \in (Loads \cup {Server}) \ {c} : freeing'[d] = freeing[d]
  <2>1. CASE FreeGoesOn(c)
    BY <2>1, FreeMovesKeeps, Zenon DEF FreeGoesOn
  <2>2. CASE UNCHANGED freeing
    BY <2>2, FreesFrame, Zenon
  <2>3. QED
    BY <2>1, <2>2, Zenon
<1>2. TypesInv'
  BY <1>1, MapsFrame, LoadsFrame, ReplicasFrame, ServerFrame, ContentsFrame, Zenon
  DEF RepsKept
<1>3. PoolInv' /\ \A m \in Models : buf'[m] # <<>> => buf[m] # <<>>
  <2>1. PoolInv /\ PoolMove
    BY Zenon DEF PoolMove, Reachable
  <2>2. PoolInv'
    BY <2>1, PoolMoveKeepsPool, Zenon
  <2>3. QED
    BY <2>1, <2>2, NoneTaken, Zenon
<1>4. LockHeld'
  BY DEF LockHeld, Reachable
<1>5. NoOrphanMemory'
  <2>1. HoldsKept
    BY Zenon DEF HoldsKept, Holds, HoldsReplica
  <2>2. QED
    BY <1>3, <2>1, HeldMemory, Zenon DEF Reachable
<1>6. ClearPending'
  <2>1. freeing'[Server] = freeing[Server] \/ FreeGoesOn(Server)
    BY <1>1, Zenon
  <2>2. QED
    BY <1>3, <2>1, Zenon DEF ClearPending, FreeGoesOn, MapsInv, Reachable
<1>7. QED
  BY <1>2, <1>3, <1>4, <1>5, <1>6, SMTT(30) DEF Reachable

LEMMA StepFreeHost ==
  ASSUME TypesInv, Reachable, NEW c \in Loads \cup {Server}, FreeStep(c)
  PROVE  TypesInv' /\ Reachable'
<1> USE StoreAssumption DEF TypesInv, References
<1> DEFINE m == freeing[c].obj
<1>1. /\ UNCHANGED <<reg, access, info, load, rep, serv, mem>>
      /\ freeing[c].pc \in Freeing
  BY DEF FreeStep, FreeHostEnters, FreeHostWakes, FreeHostWaitsAgain, FreeHostGoesOn,
     store, pool, server, Freeing
<1>2. m \in Models /\ ReplicasOf(m) \in SUBSET Replicas
  BY <1>1, Zenon DEF FreesInv, FreeRecords, ReplicasOf
<1>3. UNCHANGED <<free, pinned, buf, st>> => Keeps
  BY Zenon DEF Keeps, Reachable, PoolInv, PoolTypes
<1>4. WaitersInv'
  BY <1>2, SMTT(30) DEF FreeStep, FreeHostEnters, FreeHostWakes, FreeHostWaitsAgain,
     FreeHostGoesOn, StopsWaiting, WaitersInv, sync
<1>5. /\ FreeGoesOn(c) \/ UNCHANGED freeing
      /\ Keeps \/ \E x \in Models : ReleasePinned(x)
  <2>1. CASE FreeHostEnters(c)
    <3>1. CASE /\ st[m] = "UNALLOCATED" /\ UNCHANGED <<free, pinned, buf, st>>
               /\ freeing' = [freeing EXCEPT ![c].pc = "refused"]
      <4>1. buf'[m] = <<>>
        BY <1>2, <3>1 DEF Reachable, PoolInv, Buffered, Without
      <4>2. QED
        BY <1>1, <1>3, <3>1, <4>1, FreeGoto, Zenon DEF FreePcs, FreeGoesOn
    <3>2. CASE /\ UNCHANGED <<free, pinned, buf, st>>
               /\ freeing' = [freeing EXCEPT ![c].pc = "host"]
      BY <1>1, <1>3, <3>2, FreeGoto, Zenon DEF FreePcs, Freeing, FreeGoesOn
    <3>3. CASE FreeHostScans(c, ReplicasOf(m))
      BY <1>1, <1>2, <3>3, ScansGoOn DEF Reachable
    <3>4. QED
      BY <2>1, <3>1, <3>2, <3>3 DEF FreeHostEnters
  <2>2. CASE FreeHostWakes(c)
    BY <1>1, <1>2, <2>2, ScansGoOn, Zenon DEF FreeHostWakes, Reachable
  <2>3. CASE FreeHostWaitsAgain(c)
    BY <1>3, <2>3 DEF FreeHostWaitsAgain, pool
  <2>4. CASE FreeHostGoesOn(c)
    <3>1. PICK more \in SUBSET ReplicasOf(m) :
            FreeHostScans(c, (freeing[c].todo \cap ReplicasOf(m)) \cup more)
      BY <2>4, Zenon DEF FreeHostGoesOn
    <3>2. (freeing[c].todo \cap ReplicasOf(m)) \cup more \in SUBSET Replicas
      BY <1>2
    <3>3. QED
      BY <1>1, <3>1, <3>2, ScansGoOn, Zenon DEF Reachable
  <2>5. QED
    BY <2>1, <2>2, <2>3, <2>4 DEF FreeStep
<1>6. QED
  BY <1>1, <1>4, <1>5, FreeStepKeeps, Zenon

-----------------------------------------------------------------------------
(* The steps of a replica *)

LEMMA ReplicaStepQuiet ==
  ASSUME TypesInv, Reachable, RepsKept, MapsInv', WaitersInv',
         UNCHANGED <<reg, info, load, freeing, serv, mem, free, buf, pinned, st>>
  PROVE  TypesInv' /\ Quiet
<1> USE StoreAssumption DEF TypesInv, References
<1>1. TypesInv'
  BY LoadsFrame, FreesFrame, ServerFrame, ContentsFrame DEF RepsKept
<1>2. Keeps /\ HoldsKept
  BY DEF Keeps, HoldsKept, Holds, RepsKept, Reachable, PoolInv, PoolTypes
<1>3. QED
  BY <1>1, <1>2 DEF Quiet

\* A field of a replica's record takes another value.
LEMMA ReplicaPc ==
  ASSUME NEW x, IsReplica(x), NEW v
  PROVE  LET y == [x EXCEPT !.pc = v]
         IN  IsReplica(y) /\ y.pc = v /\ y.obj = x.obj
  BY DEF IsReplica
LEMMA ReplicaObj ==
  ASSUME NEW x, IsReplica(x), NEW v \in Models \cup {None}
  PROVE  LET y == [x EXCEPT !.obj = v]
         IN  IsReplica(y) /\ y.pc = x.pc /\ y.obj = v
  BY DEF IsReplica
LEMMA ReplicaSt ==
  ASSUME NEW x, IsReplica(x), NEW v \in ReplicaStates
  PROVE  LET y == [x EXCEPT !.st = v]
         IN  IsReplica(y) /\ y.pc = x.pc /\ y.obj = x.obj
  BY DEF IsReplica
LEMMA ReplicaCopies ==
  ASSUME NEW x, IsReplica(x), NEW v
  PROVE  \A y \in {[x EXCEPT !.disp = v], [x EXCEPT !.out = v],
                   [x EXCEPT !.dev = v], [x EXCEPT !.good = v]} :
           IsReplica(y) /\ y.pc = x.pc /\ y.obj = x.obj
<1>1. LET y == [x EXCEPT !.disp = v]
      IN  IsReplica(y) /\ y.pc = x.pc /\ y.obj = x.obj
  BY DEF IsReplica
<1>2. LET y == [x EXCEPT !.out = v]
      IN  IsReplica(y) /\ y.pc = x.pc /\ y.obj = x.obj
  BY DEF IsReplica
<1>3. LET y == [x EXCEPT !.dev = v]
      IN  IsReplica(y) /\ y.pc = x.pc /\ y.obj = x.obj
  BY DEF IsReplica
<1>4. LET y == [x EXCEPT !.good = v]
      IN  IsReplica(y) /\ y.pc = x.pc /\ y.obj = x.obj
  BY DEF IsReplica
<1>5. QED
  BY <1>1, <1>2, <1>3, <1>4, Zenon

\* A replica's record with other values in fields that hold no reference.
LEMMA ReplicaRuns ==
  ASSUME ReplicasInv, NEW r \in Replicas, NEW x,
         rep' = [rep EXCEPT ![r] = x], IsReplica(x),
         x.obj = rep[r].obj, x.pc = rep[r].pc
  PROVE  RepsKept
<1>1. /\ rep' = [q \in Replicas |-> rep'[q]] /\ rep'[r] = x
      /\ \A q \in Replicas \ {r} : rep'[q] = rep[q]
  BY DEF ReplicasInv
<1>2. QED
  BY <1>1 DEF ReplicasInv, RepsKept, HoldsReplica

LEMMA StepReplicaLooksUp ==
  ASSUME TypesInv, Reachable, NEW r \in Replicas, ReplicaLooksUp(r)
  PROVE  TypesInv' /\ Quiet
<1> USE StoreAssumption DEF TypesInv, References
<1> DEFINE p == ReplicaPath[r]
           m == reg[p]
           q == IF m = None THEN "failed" ELSE "togpu"
           y == [rep[r] EXCEPT !.obj = m]
           x == [y EXCEPT !.pc = q]
<1>1. /\ UNCHANGED <<reg, info, load, freeing, serv, mem, free, buf, pinned, st>>
      /\ UNCHANGED <<waiting, woken>>
      /\ rep[r].pc = "lookup" /\ access' = IF m = None THEN access ELSE Touched(p)
  BY DEF ReplicaLooksUp, pool, sync, server
<1>2. rep' = [rep EXCEPT ![r] = x]
  BY Zenon DEF ReplicaLooksUp, ReplicasInv
<1>3. m \in Models \cup {None} /\ q \notin Unbound \cup {"left"}
      /\ (q = "togpu" => m # None)
  BY DEF MapsInv, Unbound
<1>4. rep[r].obj = None /\ IsReplica(rep[r])
  BY <1>1 DEF ReplicasInv, Unbound
<1>5. MapsInv'
  BY <1>1, TouchedKeeps DEF MapsInv
<1> HIDE DEF m, q
<1>6. IsReplica(y) /\ y.obj = m
  BY <1>3, <1>4, ReplicaObj
<1> HIDE DEF y
<1>7. IsReplica(x) /\ x.obj = m /\ x.pc = q
  BY <1>6, ReplicaPc, Zenon
<1> HIDE DEF x
<1>8. RepsKept
  BY <1>2, <1>3, <1>4, <1>7, ReplicaMoves, Zenon
<1>9. QED
  BY <1>1, <1>5, <1>8, WaitersFrame, ReplicaStepQuiet

\* ToGpu, FreeGpu and the end of the copies.
LEMMA ReplicaGoto ==
  ASSUME ReplicasInv, NEW r \in Replicas, NEW s \in ReplicaStates, NEW q,
         rep' = [rep EXCEPT ![r].st = s, ![r].pc = q],
         q \notin Unbound \cup {"togpu", "left"}
  PROVE  RepsKept
<1> DEFINE y == [rep[r] EXCEPT !.st = s]
           x == [y EXCEPT !.pc = q]
<1>1. rep' = [rep EXCEPT ![r] = x]
  BY Zenon DEF ReplicasInv
<1>2. IsReplica(y) /\ y.obj = rep[r].obj
  BY ReplicaSt DEF ReplicasInv
<1> HIDE DEF y
<1>3. IsReplica(x) /\ x.obj = rep[r].obj /\ x.pc = q
  BY <1>2, ReplicaPc
<1> HIDE DEF x
<1>4. QED
  BY <1>1, <1>3, ReplicaMoves, Zenon

LEMMA StepToGpu ==
  ASSUME TypesInv, Reachable, NEW r \in Replicas, ToGpu(r) \/ ToGpuEnds(r) \/ FreeGpu(r)
  PROVE  TypesInv' /\ Quiet
<1> USE DEF TypesInv, References
<1>1. /\ UNCHANGED <<reg, access, info, load, freeing, serv, mem>>
      /\ UNCHANGED <<free, buf, pinned, st>>
  BY DEF ToGpu, ToGpuEnds, FreeGpu, store, pool, server
<1>2. RepsKept
  <2>1. \E s \in ReplicaStates, q \in {"running", "freegpu", "done", "failed"} :
          rep' = [rep EXCEPT ![r].st = s, ![r].pc = q]
    BY DEF ToGpu, ToGpuEnds, FreeGpu, ReplicaStates
  <2>2. QED
    BY <2>1, ReplicaGoto, Zenon DEF Unbound
<1>3. WaitersInv'
  <2>1. ToGpu(r) => rep[r].obj \in Models
    BY DEF ToGpu, ReplicasInv, IsReplica
  <2>2. QED
    BY <2>1 DEF ToGpu, ToGpuEnds, FreeGpu, WaitersInv, sync
<1>4. QED
  BY <1>1, <1>2, <1>3, MapsFrame, ReplicaStepQuiet

LEMMA DeviceSet ==
  ASSUME ReplicasInv, NEW r \in Replicas, NEW d, NEW v, SetDevice(r, d, v)
  PROVE  RepsKept
<1> DEFINE w == [rep[r].dev EXCEPT ![d] = v]
           x == [rep[r] EXCEPT !.dev = w]
<1>1. rep' = [rep EXCEPT ![r] = x]
  BY DEF SetDevice, ReplicasInv
<1> HIDE DEF w
<1>2. IsReplica(x) /\ x.pc = rep[r].pc /\ x.obj = rep[r].obj
  BY ReplicaCopies, Zenon DEF ReplicasInv
<1> HIDE DEF x
<1>3. QED
  BY <1>1, <1>2, ReplicaRuns, Zenon

LEMMA CopiesRuns ==
  ASSUME ReplicasInv, NEW r \in Replicas, NEW d, Copies(r, d)
  PROVE  RepsKept
<1> DEFINE v == rep[r].dev[d]
           k == rep[r].out[v.pos + 1]
           g == IF mem[v.from[k]] = <<ReplicaPath[r], k>>
                  THEN rep[r].good \cup {<<d, k>>} ELSE rep[r].good
           n == v.pos + 1
           w == [rep[r].dev EXCEPT ![d].pos = n]
           y == [rep[r] EXCEPT !.dev = w]
           x == [y EXCEPT !.good = g]
<1>1. CASE rep' = [rep EXCEPT ![r].dev[d].pos = n, ![r].good = g]
  <2>1. rep' = [rep EXCEPT ![r] = x]
    BY <1>1, Zenon DEF ReplicasInv
  <2> HIDE DEF w, g
  <2>2. IsReplica(y) /\ y.pc = rep[r].pc /\ y.obj = rep[r].obj
    BY ReplicaCopies, Zenon DEF ReplicasInv
  <2> HIDE DEF y
  <2>3. IsReplica(x) /\ x.pc = rep[r].pc /\ x.obj = rep[r].obj
    BY <2>2, ReplicaCopies, Zenon
  <2> HIDE DEF x
  <2>4. QED
    BY <2>1, <2>3, ReplicaRuns, Zenon
<1>2. CASE SetDevice(r, d, [v EXCEPT !.pc = "ok"])
  BY <1>2, DeviceSet
<1>3. QED
  BY <1>1, <1>2, Zenon DEF Copies

LEMMA StepCopy ==
  ASSUME TypesInv, Reachable, NEW r \in Replicas, NEW d,
         CopyStep(r, d) \/ CopyFails(r, d)
  PROVE  TypesInv' /\ Quiet
<1> USE DEF TypesInv, References
<1>1. CASE Crash
  BY <1>1, StepCrash
<1>2. CASE /\ Copies(r, d) \/ \E v : SetDevice(r, d, v)
           /\ UNCHANGED <<store, pool, st, host, sync, load, freeing, server, dead>>
  <2>1. /\ UNCHANGED <<reg, access, info, load, freeing, serv, mem>>
        /\ UNCHANGED <<free, buf, pinned, st, waiting, woken>>
    BY <1>2 DEF store, pool, sync, server
  <2>2. RepsKept
    BY <1>2, CopiesRuns, DeviceSet
  <2>3. QED
    BY <2>1, <2>2, MapsFrame, WaitersFrame, ReplicaStepQuiet
<1>3. QED
  BY <1>1, <1>2, Zenon
  DEF CopyStep, CopyStarts, CopyTakesBuffers, Copies, CopyEnds, CopyFails

LEMMA StepDispatch ==
  ASSUME TypesInv, Reachable, NEW r \in Replicas, DispatchStep(r) \/ DanglingVector(r)
  PROVE  TypesInv' /\ Quiet
<1> USE DEF TypesInv, References
<1>1. CASE Crash
  BY <1>1, StepCrash
<1>2. CASE /\ \E v : \/ rep' = [rep EXCEPT ![r].disp = v]
                     \/ rep' = [rep EXCEPT ![r].out = v]
           /\ UNCHANGED <<store, pool, st, host, sync, load, freeing, server, dead>>
  <2>1. /\ UNCHANGED <<reg, access, info, load, freeing, serv, mem>>
        /\ UNCHANGED <<free, buf, pinned, st, waiting, woken>>
    BY <1>2 DEF store, pool, sync, server
  <2>2. PICK v : \/ rep' = [rep EXCEPT ![r].disp = v]
                 \/ rep' = [rep EXCEPT ![r].out = v]
    BY <1>2
  <2>3. CASE rep' = [rep EXCEPT ![r].disp = v]
    <3> DEFINE x == [rep[r] EXCEPT !.disp = v]
    <3>1. rep' = [rep EXCEPT ![r] = x]
      BY <2>3 DEF ReplicasInv
    <3>2. IsReplica(x) /\ x.pc = rep[r].pc /\ x.obj = rep[r].obj
      BY ReplicaCopies, Zenon DEF ReplicasInv
    <3> HIDE DEF x
    <3>3. QED
      BY <2>1, <3>1, <3>2, ReplicaRuns, MapsFrame, WaitersFrame, ReplicaStepQuiet, Zenon
  <2>4. CASE rep' = [rep EXCEPT ![r].out = v]
    <3> DEFINE x == [rep[r] EXCEPT !.out = v]
    <3>1. rep' = [rep EXCEPT ![r] = x]
      BY <2>4 DEF ReplicasInv
    <3>2. IsReplica(x) /\ x.pc = rep[r].pc /\ x.obj = rep[r].obj
      BY ReplicaCopies, Zenon DEF ReplicasInv
    <3> HIDE DEF x
    <3>3. QED
      BY <2>1, <3>1, <3>2, ReplicaRuns, MapsFrame, WaitersFrame, ReplicaStepQuiet, Zenon
  <2>5. QED
    BY <2>2, <2>3, <2>4
<1>3. QED
  BY <1>1, <1>2, Zenon
  DEF DispatchStep, DispatchStarts, DispatchMaps, DispatchSends, DanglingVector

LEMMA StepReplicaReturns ==
  ASSUME TypesInv, Reachable, NEW r \in Replicas, ReplicaReturns(r)
  PROVE  TypesInv' /\ Reachable'
<1> USE StoreAssumption DEF TypesInv, References
<1> DEFINE m == rep[r].obj
           last == /\ \A t \in Loads : ~Holds(t, m)
                   /\ \A q \in Replicas \ {r} : ~HoldsReplica(q, m)
           x == [rep[r] EXCEPT !.pc = "left"]
<1>1. /\ UNCHANGED <<reg, access, info, load, freeing, serv, waiting, woken, mem>>
      /\ Drops(m, last)
  BY Zenon DEF ReplicaReturns, store, sync, server
<1>2. rep' = [rep EXCEPT ![r] = x]
  BY DEF ReplicaReturns, ReplicasInv
<1>3. IsReplica(x) /\ x.pc = "left" /\ x.obj = m
  BY ReplicaPc, Zenon DEF ReplicasInv
<1> HIDE DEF x
<1>4. /\ rep' = [q \in Replicas |-> rep'[q]] /\ rep'[r] = x
      /\ \A q \in Replicas \ {r} : rep'[q] = rep[q]
  BY <1>2 DEF ReplicasInv
<1>5. ReplicasInv' /\ m \in Models \cup {None}
  BY <1>3, <1>4, ZenonT(30) DEF ReplicasInv, Unbound, IsReplica
<1>6. TypesInv'
  BY <1>1, <1>5, MapsFrame, LoadsFrame, FreesFrame, ServerFrame, WaitersFrame,
     ContentsFrame
<1> HIDE DEF last
<1>7. /\ PoolInv'
      /\ \A y \in Models : buf'[y] # <<>> => buf[y] # <<>>
      /\ ~last \/ m = None \/ Registered(m) \/ buf'[m] = <<>>
  BY <1>1, <1>5, DropsMoves DEF Reachable
<1>8. LockHeld' /\ ClearPending'
  BY <1>1, <1>7 DEF LockHeld, ClearPending, MapsInv, Reachable
<1>9. NoOrphanMemory'
  <2> SUFFICES ASSUME NEW y \in Models, buf'[y] # <<>>
               PROVE  \/ Registered(y)'
                      \/ \E t \in Loads : Holds(t, y)'
                      \/ \E q \in Replicas : HoldsReplica(q, y)'
    BY DEF NoOrphanMemory
  <2>1. \/ Registered(y)
        \/ \E t \in Loads : Holds(t, y)
        \/ \E q \in Replicas : HoldsReplica(q, y)
    BY <1>7, Zenon DEF NoOrphanMemory, Reachable
  <2>2. /\ Registered(y) => Registered(y)'
        /\ \A t \in Loads : Holds(t, y) => Holds(t, y)'
        /\ \A q \in Replicas \ {r} : HoldsReplica(q, y) => HoldsReplica(q, y)'
    BY <1>1, <1>4 DEF Registered, HoldsReplica, Holds
  <2>3. CASE y = m
    BY <1>7, <2>2, <2>3 DEF last
  <2>4. CASE y # m
    BY <2>1, <2>2, <2>4 DEF HoldsReplica
  <2>5. QED
    BY <2>3, <2>4
<1>10. QED
  BY <1>6, <1>7, <1>8, <1>9 DEF Reachable

-----------------------------------------------------------------------------
(* The steps of the server *)

\* The server goes on, and neither the pool nor the other threads change.
LEMMA ServerGoesOn ==
  ASSUME TypesInv, Reachable, ServerInv', FreesInv', ClearPending',
         UNCHANGED <<reg, access, load, rep, waiting, woken, mem>>,
         UNCHANGED <<free, buf, pinned, st>>,
         info' \in {info, Server}, info' = info \/ info = None,
         serv'.at = "clear" => info' = Server
  PROVE  TypesInv' /\ Reachable'
<1> USE StoreAssumption DEF TypesInv, References
<1>1. TypesInv'
  BY LoadsFrame, ReplicasFrame, WaitersFrame, ContentsFrame DEF RepsKept, MapsInv
<1>2. Keeps /\ HoldsKept
  BY DEF Keeps, HoldsKept, Holds, HoldsReplica, Reachable, PoolInv, PoolTypes
<1>3. LockHeld'
  BY LockFree DEF LockHeld, Evicting, Reachable
<1>4. QED
  BY <1>1, <1>2, <1>3, KeepsPool, HeldMemory DEF Reachable

\* The server is idle, waits for a replica, or for FreeHost in UnloadModel.
LEMMA IdleServer ==
  ASSUME \/ serv' = Idle
         \/ \E r, m : serv' = [Idle EXCEPT !.at = "confirm", !.arg = r, !.obj = m]
         \/ \E p : serv' = [Idle EXCEPT !.at = "unload", !.arg = p]
  PROVE  serv'.at # "clear" /\ ServerInv'
<1>1. CASE serv' = Idle
  BY <1>1 DEF Idle, ServerInv
<1>2. CASE \E r, m : serv' = [Idle EXCEPT !.at = "confirm", !.arg = r, !.obj = m]
  <2>1. PICK r, m : serv' = [at |-> "confirm", arg |-> r, obj |-> m, todo |-> {}]
    BY <1>2, Zenon DEF Idle
  <2>2. QED
    BY <2>1, Zenon DEF ServerInv
<1>3. CASE \E p : serv' = [Idle EXCEPT !.at = "unload", !.arg = p]
  <2>1. PICK p : serv' = [at |-> "unload", arg |-> p, obj |-> None, todo |-> {}]
    BY <1>3, Zenon DEF Idle
  <2>2. QED
    BY <2>1, Zenon DEF ServerInv
<1>4. QED
  BY <1>1, <1>2, <1>3, Zenon

\* ConfirmModel with its waits, and the requests of clients.
LEMMA StepConfirm ==
  ASSUME TypesInv, Reachable,
         \/ \E r \in Replicas : ConfirmModel(r)
         \/ WaitInGpuFinds \/ WaitInGpuEnds
         \/ \E x \in Replicas \cup Unloads : Ask(x)
  PROVE  TypesInv' /\ Reachable'
<1> USE DEF TypesInv, References
<1>1. /\ UNCHANGED <<reg, access, info, load, rep, freeing, waiting, woken, mem>>
      /\ UNCHANGED <<free, buf, pinned, st>>
  BY Zenon DEF ConfirmModel, WaitInGpuFinds, WaitInGpuEnds, Ask, store, pool, sync
<1>2. \/ UNCHANGED serv
      \/ serv'.at # "clear" /\ ServerInv'
  <2>1. CASE serv' = Idle
    BY <2>1, IdleServer
  <2>2. CASE \E r, m : serv' = [Idle EXCEPT !.at = "confirm", !.arg = r, !.obj = m]
    BY <2>2, IdleServer, Zenon
  <2>3. CASE serv' = [serv EXCEPT !.at = "loading"]
    BY <2>3 DEF ServerInv
  <2>4. QED
    BY <2>1, <2>2, <2>3, Zenon DEF ConfirmModel, WaitInGpuFinds, WaitInGpuEnds, Ask
<1>3. ServerInv' /\ ClearPending' /\ (serv'.at = "clear" => info' = Server)
  BY <1>1, <1>2, ServerFrame DEF ClearPending, LockHeld, Reachable
<1>4. QED
  BY <1>1, <1>3, FreesFrame, ServerGoesOn

LEMMA StepUnload ==
  ASSUME TypesInv, Reachable, UnloadReturns \/ \E p \in Unloads : UnloadModel(p)
  PROVE  TypesInv' /\ Reachable'
<1> USE StoreAssumption DEF TypesInv, References
<1>1. /\ UNCHANGED <<reg, access, info, load, rep, waiting, woken, mem>>
      /\ UNCHANGED <<free, buf, pinned, st>>
  BY Zenon DEF UnloadModel, UnloadReturns, store, pool, sync
<1>2. \/ UNCHANGED <<serv, freeing>>
      \/ serv'.at # "clear" /\ ServerInv'
  <2>1. CASE serv' = Idle
    BY <2>1, IdleServer
  <2>2. CASE \E p : serv' = [Idle EXCEPT !.at = "unload", !.arg = p]
    BY <2>2, IdleServer, Zenon
  <2>3. QED
    BY <2>1, <2>2, Zenon DEF UnloadModel, UnloadReturns
<1>3. FreesInv'
  <2>1. CASE UNCHANGED freeing
    BY <2>1, FreesFrame
  <2>2. CASE freeing' = [freeing EXCEPT ![Server] = NoFree]
    BY <2>2, FreeForgotten, FreeMovesKeeps, Zenon
  <2>3. CASE \E m \in Models : freeing' = [freeing EXCEPT ![Server].pc = "enter",
                                                          ![Server].obj = m]
    BY <2>3, FreeBegins, FreeMovesKeeps, Zenon
  <2>4. QED
    BY <2>1, <2>2, <2>3, Zenon DEF UnloadModel, UnloadReturns, MapsInv
<1>4. ServerInv' /\ ClearPending' /\ (serv'.at = "clear" => info' = Server)
  BY <1>1, <1>2, ServerFrame DEF ClearPending, LockHeld, Reachable
<1>5. QED
  BY <1>1, <1>3, <1>4, ServerGoesOn

LEMMA StepClearMem ==
  ASSUME TypesInv, Reachable, ClearMem
  PROVE  TypesInv' /\ Reachable'
<1> USE StoreAssumption DEF TypesInv, References
<1>1. /\ UNCHANGED <<reg, access, load, rep, freeing, waiting, woken, mem>>
      /\ UNCHANGED <<free, buf, pinned, st>>
      /\ info = None /\ info' = Server
  BY DEF ClearMem, Ready, pool, sync
<1>2. /\ serv' = [at |-> "clear", arg |-> None, obj |-> None,
                  todo |-> {reg[p] : p \in Paths} \ {None}]
  BY Zenon DEF ClearMem, Idle
<1>3. ServerInv'
  BY <1>2 DEF ServerInv, MapsInv
<1>4. ClearPending'
  BY <1>1, <1>2 DEF ClearPending
<1>5. QED
  BY <1>1, <1>3, <1>4, FreesFrame, ServerGoesOn

LEMMA StepClearMemFrees ==
  ASSUME TypesInv, Reachable, ClearMemFrees
  PROVE  TypesInv' /\ Reachable'
<1> USE StoreAssumption DEF TypesInv, References
<1>1. PICK m \in serv.todo :
        /\ serv' = [serv EXCEPT !.todo = @ \ {m}]
        /\ freeing' = [freeing EXCEPT ![Server] =
                         [NoFree EXCEPT !.pc = "enter", !.obj = m]]
  BY Zenon DEF ClearMemFrees
<1>2. /\ UNCHANGED <<reg, access, info, load, rep, waiting, woken, mem>>
      /\ UNCHANGED <<free, buf, pinned, st>>
      /\ serv.at = "clear" /\ freeing[Server].pc \in {"no", "freed", "refused"}
  BY DEF ClearMemFrees, store, pool, sync
<1>3. m \in Models /\ serv'.at = "clear" /\ serv'.todo = serv.todo \ {m} /\ ServerInv'
  BY <1>1, <1>2, Zenon DEF ServerInv
<1>4. FreesInv' /\ freeing'[Server].pc = "enter" /\ freeing'[Server].obj = m
  <2> DEFINE rec == [NoFree EXCEPT !.pc = "enter", !.obj = m]
  <2>1. rec \in FreeRecords /\ rec.pc = "enter" /\ rec.obj = m
    BY <1>3, Zenon DEF NoFree, FreeRecords, FreePcs, Freeing
  <2>2. freeing' = [freeing EXCEPT ![Server] = rec]
    BY <1>1
  <2> HIDE DEF rec
  <2>3. FreeMoves(Server) /\ freeing'[Server] = rec
    <3>1. rec.obj # None
      BY <1>3, <2>1, Zenon
    <3>2. QED
      BY <2>1, <2>2, <3>1, FreeRecordMoves, ZenonT(30)
  <2>4. QED
    BY <2>1, <2>3, FreeMovesKeeps, Zenon
<1>5. ClearPending'
  BY <1>2, <1>3, <1>4, Zenon DEF ClearPending, Freeing, Reachable
<1>6. QED
  BY <1>2, <1>3, <1>4, <1>5, ServerGoesOn DEF LockHeld, Reachable

\* ClearMem ends when every registered model has given its memory back: what
\* still has memory is held by a thread.
LEMMA StepClearMemEnds ==
  ASSUME TypesInv, Reachable, ClearMemEnds
  PROVE  TypesInv' /\ Reachable'
<1> USE StoreAssumption DEF TypesInv, References
<1>1. /\ UNCHANGED <<access, load, rep, waiting, woken, mem>>
      /\ UNCHANGED <<free, buf, pinned, st>>
      /\ serv.at = "clear" /\ freeing[Server].pc \in {"no", "freed", "refused"}
      /\ serv.todo = {} /\ serv' = Idle
      /\ reg' = [p \in Paths |-> None] /\ info' = None
      /\ freeing' = [freeing EXCEPT ![Server] = NoFree]
  BY DEF ClearMemEnds, pool, sync
<1>2. ServerInv' /\ serv'.at # "clear"
  BY <1>1, IdleServer
<1>3. FreesInv'
  BY <1>1, FreeForgotten, FreeMovesKeeps, Zenon
<1>4. MapsInv'
  BY <1>1 DEF MapsInv
<1>5. TypesInv'
  BY <1>1, <1>2, <1>3, <1>4, LoadsFrame, ReplicasFrame, WaitersFrame, ContentsFrame
  DEF RepsKept
<1>6. PoolInv'
  <2>1. Keeps
    BY <1>1 DEF Keeps, Reachable, PoolInv, PoolTypes
  <2>2. QED
    BY <2>1, KeepsPool DEF Reachable
<1>7. LockHeld' /\ ClearPending'
  <2>1. \A t \in Loads : load[t].pc \notin Evicting
    BY <1>1 DEF LockHeld, Evicting, Reachable
  <2>2. QED
    BY <1>1, <1>2, <2>1 DEF LockHeld, ClearPending, Evicting
<1>8. NoOrphanMemory'
  <2>1. \A p \in Paths : reg[p] # None => buf[reg[p]] = <<>>
    BY <1>1, Zenon DEF ClearPending, Freeing, Reachable
  <2>2. \A m \in Models : buf[m] # <<>> => ~Registered(m)
    BY <2>1 DEF Registered
  <2>3. \A m \in Models : buf[m] # <<>> =>
          (\E t \in Loads : Holds(t, m)) \/ (\E r \in Replicas : HoldsReplica(r, m))
    BY <2>2 DEF NoOrphanMemory, Reachable
  <2>4. HoldsKept
    BY <1>1 DEF HoldsKept, Holds, HoldsReplica
  <2>5. QED
    BY <1>1, <2>3, <2>4, Zenon DEF NoOrphanMemory, HoldsKept
<1>9. QED
  BY <1>5, <1>6, <1>7, <1>8 DEF Reachable

\* RegisterModelInfo gives a path without a Model a new one, without memory.
LEMMA RegisterKeeps ==
  ASSUME MapsInv, PoolInv, NEW p \in Paths, Register(p) \/ UNCHANGED <<reg, st>>,
         UNCHANGED <<access, info, free, buf, pinned>>
  PROVE  /\ MapsInv' /\ Keeps
         /\ \A q \in Paths : reg[q] # None => reg'[q] = reg[q]
<1> USE StoreAssumption
<1>1. CASE UNCHANGED <<reg, st>>
  BY <1>1 DEF MapsInv, Keeps, PoolInv, PoolTypes
<1>2. CASE \E m \in Models : /\ PathOf[m] = p /\ st[m] = "UNINITIALIZED"
                             /\ reg[p] = None /\ reg' = [reg EXCEPT ![p] = m]
                             /\ st' = [st EXCEPT ![m] = "UNALLOCATED"]
  <2>1. PICK m \in Models : /\ PathOf[m] = p /\ st[m] = "UNINITIALIZED"
                            /\ reg[p] = None /\ reg' = [reg EXCEPT ![p] = m]
                            /\ st' = [st EXCEPT ![m] = "UNALLOCATED"]
    BY <1>2, Zenon
  <2>2. Keeps
    BY <2>1 DEF Keeps, PoolInv, PoolTypes, MemoryStates, Without
  <2>3. QED
    BY <2>1, <2>2 DEF MapsInv
<1>3. QED
  BY <1>1, <1>2 DEF Register

\* The requests that may register a model; a thread they start has no Model yet.
LEMMA StepRegister ==
  ASSUME TypesInv, Reachable,
         \/ \E p \in Paths : RegisterModel(p)
         \/ \E t \in Loads : LoadModelAsyncToHost(t)
         \/ \E r \in Replicas : LoadModelAsyncToGpu(r)
  PROVE  TypesInv' /\ Reachable'
<1> USE StoreAssumption DEF TypesInv, References
<1>1. /\ UNCHANGED <<access, info, freeing, serv, waiting, woken, mem>>
      /\ UNCHANGED <<free, buf, pinned>> /\ info = None
  BY DEF RegisterModel, LoadModelAsyncToHost, LoadModelAsyncToGpu, Ready, pool, sync,
     server
<1>2. \E p \in Paths : Register(p) \/ UNCHANGED <<reg, st>>
  BY DEF RegisterModel, LoadModelAsyncToHost, LoadModelAsyncToGpu, MayRegister
<1>3. /\ MapsInv' /\ Keeps
      /\ \A q \in Paths : reg[q] # None => reg'[q] = reg[q]
  BY <1>1, <1>2, RegisterKeeps DEF Reachable
<1>4. /\ LoadsInv'
      /\ \A u \in Loads, m \in Models : Holds(u, m) => Holds(u, m)'
      /\ \A u \in Loads : load'[u].pc \in Evicting => load[u].pc \in Evicting
  <2>1. CASE UNCHANGED load
    BY <2>1, LoadsFrame DEF Holds
  <2>2. CASE \E t \in Loads : load[t].pc = "new" /\ Goto(t, "lookup")
    <3>1. PICK t \in Loads : load[t].pc = "new" /\ Goto(t, "lookup")
      BY <2>2
    <3> DEFINE rec == [load[t] EXCEPT !.pc = "lookup"]
    <3>2. /\ load[t] \in LoadRecords /\ load[t].obj = None
          /\ load' = [load EXCEPT ![t] = rec]
      BY <3>1 DEF Goto, LoadsInv, Unbound
    <3>3. rec \in LoadRecords /\ rec.pc = "lookup" /\ rec.obj = None
      BY <3>2, Zenon DEF LoadRecords, LoadPcs, Unbound
    <3> HIDE DEF rec
    <3>4. /\ load' \in [Loads -> LoadRecords] /\ load'[t] = rec
          /\ \A u \in Loads \ {t} : load'[u] = load[u]
      BY <3>2, <3>3 DEF LoadsInv
    <3>5. LoadsInv'
      BY <3>3, <3>4 DEF LoadsInv, Working
    <3>6. QED
      BY <3>2, <3>3, <3>4, <3>5 DEF Holds, Evicting
  <2>3. QED
    BY <2>1, <2>2 DEF RegisterModel, LoadModelAsyncToHost, LoadModelAsyncToGpu
<1>5. RepsKept
  <2>1. CASE UNCHANGED rep
    BY <2>1, ReplicasFrame
  <2>2. CASE \E r \in Replicas : /\ rep[r].pc = "new"
                                 /\ rep' = [rep EXCEPT ![r].pc = "lookup"]
    <3>1. PICK r \in Replicas : /\ rep[r].pc = "new"
                                /\ rep' = [rep EXCEPT ![r].pc = "lookup"]
      BY <2>2, Zenon
    <3> DEFINE x == [rep[r] EXCEPT !.pc = "lookup"]
    <3>2. rep' = [rep EXCEPT ![r] = x] /\ rep[r].obj = None
      BY <3>1 DEF ReplicasInv, Unbound
    <3>3. IsReplica(x) /\ x.pc = "lookup" /\ x.obj = rep[r].obj
      BY ReplicaPc, Zenon DEF ReplicasInv
    <3> HIDE DEF x
    <3>4. QED
      BY <3>2, <3>3, ReplicaMoves, Zenon
  <2>3. QED
    BY <2>1, <2>2 DEF RegisterModel, LoadModelAsyncToHost, LoadModelAsyncToGpu
<1>6. TypesInv'
  BY <1>1, <1>3, <1>4, <1>5, FreesFrame, ServerFrame, WaitersFrame, ContentsFrame, Zenon
  DEF RepsKept
<1>7. PoolInv'
  BY <1>3, KeepsPool DEF Reachable
<1>8. LockHeld' /\ ClearPending'
  <2>1. serv.at # "clear" /\ \A u \in Loads : load[u].pc \notin Evicting
    BY <1>1, LockFree DEF Reachable
  <2>2. QED
    BY <1>1, <1>4, <2>1, Zenon DEF LockHeld, ClearPending, Evicting
<1>9. NoOrphanMemory'
  <2>1. \A m \in Models : Registered(m) => Registered(m)'
    BY <1>3 DEF Registered
  <2>2. QED
    BY <1>1, <1>4, <1>5, <2>1 DEF NoOrphanMemory, RepsKept, Reachable
<1>10. QED
  BY <1>6, <1>7, <1>8, <1>9 DEF Reachable

-----------------------------------------------------------------------------
(* Every step *)

LEMMA InitStore == Init => StoreInv
<1> USE StoreAssumption
<1> SUFFICES ASSUME Init PROVE StoreInv
  OBVIOUS
<1>1. MapsInv
  <2>1. access = <<>>
    BY Zenon DEF Init
  <2>2. access \in Seq(Paths) /\ DOMAIN access = {}
    BY <2>1
  <2>3. IsInjective(access)
    BY <2>2, Zenon DEF IsInjective
  <2>4. QED
    BY <2>2, <2>3 DEF Init, MapsInv
<1>2. LoadsInv
  <2>1. NoLoad \in LoadRecords
    <3>1. /\ "new" \in LoadPcs /\ None \in Models \cup {None} /\ 0 \in Int
          /\ <<>> \in Seq(Paths) /\ <<>> \in Seq(Chunks)
          /\ {} \in SUBSET Nat /\ {} \in SUBSET Replicas /\ None \in Replicas \cup {None}
      BY DEF LoadPcs, Unbound
    <3>2. QED
      BY <3>1, Zenon DEF NoLoad, LoadRecords
  <2>2. NoLoad.pc = "new" /\ NoLoad.obj = None
    BY DEF NoLoad
  <2> HIDE DEF NoLoad
  <2>3. QED
    BY <2>1, <2>2, Zenon DEF Init, LoadsInv, Working
<1>3. ReplicasInv
  <2>1. IsReplica(NoReplica) /\ NoReplica.pc = "new" /\ NoReplica.obj = None
    BY Zenon DEF NoReplica, IsReplica, ReplicaStates
  <2> HIDE DEF NoReplica
  <2>2. QED
    BY <2>1 DEF Init, ReplicasInv
<1>4. FreesInv
  <2>1. NoFree \in FreeRecords /\ NoFree.pc \notin Freeing
    BY DEF NoFree, FreeRecords, FreePcs, Freeing
  <2> HIDE DEF NoFree
  <2>2. QED
    BY <2>1, Zenon DEF Init, FreesInv
<1>5. ServerInv /\ WaitersInv /\ ContentsInv
  BY DEF Init, ServerInv, Idle, WaitersInv, ContentsInv
<1>6. PoolInv
  <2>1. PoolTypes
    BY NoBuffers, Zenon DEF Init, PoolTypes, MemoryStates
  <2>2. Buffered
    BY DEF Init, Buffered, IsBuffers
  <2>3. PoolPartition
    BY NoBuffers DEF Init, PoolPartition
  <2>4. QED
    BY <2>1, <2>2, <2>3, SMTT(30) DEF PoolInv
<1>7. LockHeld /\ ClearPending /\ NoOrphanMemory
  BY Zenon DEF Init, LockHeld, ClearPending, NoOrphanMemory, NoLoad, Idle
<1>8. QED
  BY <1>1, <1>2, <1>3, <1>4, <1>5, <1>6, <1>7 DEF StoreInv, References

LEMMA NextStore ==
  ASSUME TypesInv, Reachable, Cardinality(free) \in Nat, Next
  PROVE  TypesInv' /\ Reachable'
<1>0. TypesInv' /\ Quiet => TypesInv' /\ Reachable'
  BY QuietKeeps, SMTT(30) DEF TypesInv, References
<1>1. ASSUME NEW t \in Loads, LoadStep(t) PROVE TypesInv' /\ Reachable'
  <2>1. CASE LoadLooksUp(t) \/ LoadEvicts(t) \/ LoadEvictsNull(t) \/ ToHost(t)
    BY <1>0, <2>1, StepLoadLooksUp, StepLoadEvicts, StepCrash, StepToHost
    DEF LoadEvictsNull
  <2>2. CASE LoadAllocates(t) \/ LoadGivesUp(t) \/ LoadReallocates(t) \/ LoadReturns(t)
    BY <2>2, StepLoadAllocates, StepLoadGivesUp, StepLoadReallocates, StepLoadReturns, SMTT(30)
  <2>3. CASE \E k \in 1..Size[LoadPath[t]] : ToHostReads(t, k)
    BY <1>0, <2>3, StepToHostReads
  <2>4. CASE ToHostLoaded(t) \/ ToHostFails(t) \/ ToHostAbandonsNext(t) \/ LoadEnds(t)
    BY <1>0, <2>4, StepToHostLoaded, StepToHostFails, StepLoadEnds
  <2>5. QED
    BY <1>1, <2>1, <2>2, <2>3, <2>4, Zenon DEF LoadStep
<1>2. ASSUME NEW r \in Replicas, ReplicaStep(r) \/ DispatchStep(r)
      PROVE  TypesInv' /\ Reachable'
  BY <1>0, <1>2, StepReplicaLooksUp, StepToGpu, StepReplicaReturns, StepDispatch
  DEF ReplicaStep
<1>3. ASSUME ServerStep PROVE TypesInv' /\ Reachable'
  BY <1>3, StepConfirm, StepUnload, StepClearMemFrees, StepClearMemEnds DEF ServerStep
<1>4. ASSUME Fault PROVE TypesInv' /\ Reachable'
  <2>1. CASE Crash
    BY <1>0, <2>1, StepCrash
  <2>2. CASE \E r \in Replicas, d \in Devices : CopyFails(r, d)
    BY <1>0, <2>2, StepCopy
  <2>3. CASE \E r \in Replicas : DanglingVector(r)
    BY <1>0, <2>3, StepDispatch
  <2>4. QED
    BY <1>0, <1>4, <2>1, <2>2, <2>3, StepToHostReads, Zenon
    DEF Fault, DanglingReplica, DanglingBuffers, OpenHandleFails
<1>5. ASSUME Request PROVE TypesInv' /\ Reachable'
  BY <1>5, StepRegister, StepConfirm, StepClearMem DEF Request
<1>6. ASSUME NEW r \in Replicas, NEW d \in Devices, CopyStep(r, d)
      PROVE  TypesInv' /\ Reachable'
  BY <1>0, <1>6, StepCopy
<1>7. QED
  BY <1>1, <1>2, <1>3, <1>4, <1>5, <1>6, StepFreeHost DEF Next

LEMMA StutterStore ==
  ASSUME TypesInv, Reachable, UNCHANGED vars
  PROVE  TypesInv' /\ Reachable'
<1>1. /\ UNCHANGED <<reg, access, info, rep, load, freeing, serv, waiting, woken>>
      /\ UNCHANGED <<mem, free, buf, pinned, st>>
  BY SMTT(30) DEF vars, store, pool, sync, server
<1>2. Keeps /\ HoldsKept
  BY <1>1 DEF Keeps, HoldsKept, Holds, HoldsReplica, Reachable, PoolInv, PoolTypes
<1>3. TypesInv'
  BY <1>1, MapsFrame, LoadsFrame, ReplicasFrame, FreesFrame, ServerFrame,
     WaitersFrame, ContentsFrame DEF RepsKept, TypesInv, References
<1>4. Quiet
  BY <1>1, <1>2 DEF Quiet
<1>5. QED
  BY <1>3, <1>4, QuietKeeps DEF TypesInv, References
=============================================================================
