-------------------------- MODULE StoreHostProofs ---------------------------
(***************************************************************************)
(* The host side of the checkpoint store: without GPU replicas every step  *)
(* keeps a LOADED model complete.                                          *)
(*                                                                         *)
(* The argument is about the one load that reads a model: between the step *)
(* that makes the model LOADING and the one that makes it LOADED or gives  *)
(* its memory up, nobody else changes its state or its buffers.  A replica *)
(* breaks this: FreeHost and a failed ToHost wait for it with the mutex    *)
(* released, and then give back whatever memory the model has by then.     *)
(***************************************************************************)
EXTENDS StorePoolProofs

\* The I/O threads of a load write into the buffers the model still has.
Reader(t) ==
  LET m == load[t].obj
  IN  /\ st[m] = "LOADING"
      /\ load[t].to = buf[m]
      /\ load[t].read \subseteq 1..Size[PathOf[m]]
      /\ \A k \in load[t].read : mem[buf[m][k]] = <<PathOf[m], k>>
Preparing == {"new", "lookup", "alloc", "evict", "realloc", "tohost"}
ReadersInv ==
  \A t \in Loads :
    /\ load[t].pc \in Preparing => load[t].read = {}
    /\ load[t].pc = "reading" =>
         /\ Reader(t)
         /\ \A u \in Loads \ {t} :
              load[u].pc = "reading" => load[u].obj # load[t].obj

\* Nobody waits for a replica, and who has memory has buffers.
HostOnly ==
  /\ \A t \in Loads : load[t].pc # "abandon"
  /\ \A c \in Loads \cup {Server} : freeing[c].pc # "replica"
  /\ \A m \in Models : /\ st[m] # "INTERRUPTED"
                       /\ st[m] \notin Without => buf[m] # <<>>

HostInv == HostOnly /\ ReadersInv /\ HostHoldsModel

-----------------------------------------------------------------------------
(* The steps that are not part of reading a model *)

Reads(m) == \E t \in Loads : load[t].pc = "reading" /\ load[t].obj = m

\* What they do to the pool: nothing, register a model, allocate, or give the
\* memory of a model back that is not being read.
Opens(m) == /\ st[m] = "UNINITIALIZED" /\ st' = [st EXCEPT ![m] = "UNALLOCATED"]
            /\ UNCHANGED <<free, buf>>
Gives(m) == ~Reads(m) /\ ReleasePinned(m)
HostMove ==
  \/ UNCHANGED <<free, buf, st>>
  \/ \E m \in Models : Opens(m) \/ Takes(m) \/ Gives(m)

\* No load starts to read, and no thread to wait for a replica.
LoadsQuiet ==
  \A u \in Loads :
    /\ load'[u].pc # "abandon"
    /\ load'[u].pc \in Preparing => load[u].pc \in Preparing /\ load'[u].read = load[u].read
    /\ load'[u].pc = "reading" =>
         /\ load[u].pc = "reading"
         /\ load'[u].obj = load[u].obj /\ load'[u].to = load[u].to
         /\ load'[u].read = load[u].read
FreesQuiet == \A c \in Loads \cup {Server} : freeing'[c].pc # "replica"

LEMMA HostMoveKeeps ==
  ASSUME PoolInv, ReadersInv, HostMove, NEW m \in Models
  PROVE  /\ Reads(m) \/ st'[m] = "LOADED" => st'[m] = st[m] /\ buf'[m] = buf[m]
         /\ st'[m] = "INTERRUPTED" => st[m] = "INTERRUPTED"
         /\ st'[m] \notin Without =>
              buf'[m] # <<>> \/ (st[m] \notin Without /\ buf'[m] = buf[m])
<1>1. CASE UNCHANGED <<free, buf, st>>
  BY <1>1
<1>2. CASE \E x \in Models : Opens(x)
  BY <1>2 DEF Opens, PoolInv, PoolTypes, Without, Reads, ReadersInv, Reader
<1>3. CASE \E x \in Models : Gives(x)
  BY <1>3 DEF Gives, ReleasePinned, PoolInv, PoolTypes, Without
<1>4. CASE \E x \in Models : Takes(x)
  <2>1. PICK x \in Models : Takes(x)
    BY <1>4
  <2>2. PICK s \in [1..Size[PathOf[x]] -> free] :
          /\ buf' = [buf EXCEPT ![x] = s]
          /\ st' = [st EXCEPT ![x] = "ALLOCATED"]
    BY <2>1, Zenon DEF Takes, AllocatePinned
  <2>3. s # <<>>
    <3>1. Size[PathOf[x]] \in Nat \ {0} /\ DOMAIN s = 1..Size[PathOf[x]]
      BY StoreAssumption
    <3>2. 1 \in DOMAIN s /\ DOMAIN <<>> = {}
      BY <3>1, SMTT(30)
    <3>3. QED
      BY <3>2, Zenon
  <2>4. CASE m = x
    BY <2>1, <2>2, <2>3, <2>4 DEF Takes, PoolInv, PoolTypes, Reads, ReadersInv, Reader
  <2>5. CASE m # x
    BY <2>2, <2>5 DEF PoolInv, PoolTypes
  <2>6. QED
    BY <2>4, <2>5
<1>5. QED
  BY <1>1, <1>2, <1>3, <1>4 DEF HostMove

LEMMA HostFrame ==
  ASSUME TypesInv, PoolInv, HostInv, HostMove, LoadsQuiet, FreesQuiet, UNCHANGED mem
  PROVE  HostInv'
<1> USE StoreAssumption DEF HostInv
<1>1. HostOnly'
  BY HostMoveKeeps DEF HostOnly, LoadsQuiet, FreesQuiet
<1>2. HostHoldsModel'
  <2>1. \A m \in Models : st'[m] = "LOADED" => st[m] = "LOADED" /\ buf'[m] = buf[m]
    BY HostMoveKeeps
  <2> SUFFICES ASSUME NEW m \in Models, st'[m] = "LOADED"
               PROVE  /\ buf'[m] # <<>>
                      /\ \A k \in 1..Size[PathOf[m]] :
                           mem'[buf'[m][k]] = <<PathOf[m], k>>
    BY DEF HostHoldsModel
  <2>2. /\ buf[m] # <<>>
        /\ \A k \in 1..Size[PathOf[m]] : mem[buf[m][k]] = <<PathOf[m], k>>
    BY <2>1 DEF HostHoldsModel
  <2>3. QED
    BY <2>1, <2>2, Zenon
<1>3. ReadersInv'
  <2> SUFFICES ASSUME NEW t \in Loads
               PROVE  /\ load'[t].pc \in Preparing => load'[t].read = {}
                      /\ load'[t].pc = "reading" =>
                           /\ Reader(t)'
                           /\ \A u \in Loads \ {t} :
                                load'[u].pc = "reading" => load'[u].obj # load'[t].obj
    BY DEF ReadersInv
  <2>1. load'[t].pc \in Preparing => load'[t].read = {}
    BY DEF LoadsQuiet, ReadersInv
  <2>2. ASSUME load'[t].pc = "reading" PROVE Reader(t)'
    <3>1. /\ load[t].pc = "reading" /\ Reader(t)
          /\ load'[t].obj = load[t].obj /\ load'[t].to = load[t].to
          /\ load'[t].read = load[t].read
      BY <2>2 DEF LoadsQuiet, ReadersInv
    <3>2. load[t].obj \in Models
      BY <3>1, SMTT(30) DEF TypesInv, References, LoadsInv, LoadRecords, Working
    <3>3. st'[load[t].obj] = "LOADING" /\ buf'[load[t].obj] = buf[load[t].obj]
      BY <3>1, <3>2, HostMoveKeeps, Zenon DEF Reader, Reads
    <3>4. QED
      BY <3>1, <3>3, Zenon DEF Reader
  <2>3. load'[t].pc = "reading" => \A u \in Loads \ {t} :
          load'[u].pc = "reading" => load'[u].obj # load'[t].obj
    BY DEF LoadsQuiet, ReadersInv
  <2>4. QED
    BY <2>1, <2>2, <2>3
<1>4. QED
  BY <1>1, <1>2, <1>3

HostQuiet == HostMove /\ LoadsQuiet /\ FreesQuiet /\ UNCHANGED mem

\* A load that is not reading gets there only by ToHost.
LEMMA LoadQuiet ==
  ASSUME LoadsInv, HostOnly, NEW t \in Loads,
         \A u \in Loads \ {t} : load'[u] = load[u],
         load'[t].pc \notin {"abandon", "reading"},
         load'[t].pc \in Preparing => load[t].pc \in Preparing /\ load'[t].read = load[t].read
  PROVE  LoadsQuiet
  BY DEF LoadsQuiet, HostOnly

LEMMA HostLoadSteps ==
  ASSUME TypesInv, Reachable, HostInv, NEW t \in Loads,
         LoadLooksUp(t) \/ LoadAllocates(t) \/ LoadEvicts(t) \/ LoadGivesUp(t)
         \/ LoadReallocates(t)
  PROVE  HostQuiet
<1> USE StoreAssumption DEF TypesInv, References, HostInv
<1>1. UNCHANGED <<mem, freeing>> /\ load[t].pc \in Preparing
  BY Zenon DEF LoadLooksUp, LoadAllocates, LoadEvicts, LoadGivesUp, LoadReallocates, pool,
     Preparing
<1>2. FreesQuiet
  BY <1>1 DEF FreesQuiet, HostOnly
<1>3. LoadsQuiet
  <2>1. load[t] \in LoadRecords
    BY SMTT(30) DEF LoadsInv
  <2>2. /\ \A u \in Loads \ {t} : load'[u] = load[u]
        /\ load'[t].read = load[t].read /\ load'[t].pc \notin {"abandon", "reading"}
    <3>1. CASE \E q \in {"tohost", "failed"} : Goto(t, q)
      BY <3>1, GotoFields
    <3>2. CASE LoadLooksUp(t)
      BY <2>1, <3>2 DEF LoadLooksUp, LoadsInv, LoadRecords
    <3>3. CASE LoadEvicts(t)
      BY <2>1, <3>3, Zenon DEF LoadEvicts, LoadsInv, LoadRecords
    <3>4. CASE \E n : load' = [load EXCEPT ![t].pc = "evict", ![t].todo = access,
                                           ![t].need = n]
      BY <2>1, <3>4 DEF LoadsInv, LoadRecords
    <3>5. QED
      BY <3>1, <3>2, <3>3, <3>4, Zenon DEF LoadAllocates, LoadGivesUp, LoadReallocates
  <2>3. QED
    BY <1>1, <2>2, LoadQuiet
<1>4. HostMove
  <2>1. CASE LoadLooksUp(t) \/ LoadGivesUp(t)
    <3>1. UNCHANGED <<free, buf, st>>
      BY <2>1, Zenon DEF LoadLooksUp, LoadGivesUp, pool
    <3>2. QED
      BY <3>1, Zenon DEF HostMove
  <2>2. CASE LoadAllocates(t) \/ LoadReallocates(t)
    <3>1. load[t].obj \in Models
      BY <2>2 DEF LoadAllocates, LoadReallocates, LoadsInv, LoadRecords, Working
    <3>2. QED
      BY <2>2, <3>1, Zenon DEF LoadAllocates, LoadReallocates, HostMove, Takes, pool
  <2>3. CASE LoadEvicts(t)
    <3> DEFINE v == reg[Head(load[t].todo)]
    <3>1. v \in Models
      <4>1. load[t].todo # <<>> /\ v # None
        BY <2>3, Zenon DEF LoadEvicts
      <4>2. load[t] \in LoadRecords
        BY DEF LoadsInv
      <4>3. Head(load[t].todo) \in Paths
        BY <4>1, <4>2, SMTT(30) DEF LoadRecords
      <4>4. QED
        BY <4>1, <4>3 DEF MapsInv
    <3>2. Evictable(v) => ~Reads(v)
      BY DEF Evictable, Reads, ReadersInv, Reader
    <3>3. QED
      BY <2>3, <3>1, <3>2, Zenon DEF LoadEvicts, HostMove, Gives
  <2>4. QED
    BY <2>1, <2>2, <2>3
<1>5. QED
  BY <1>1, <1>2, <1>3, <1>4 DEF HostQuiet

LEMMA HostCrash ==
  ASSUME HostInv, Crash
  PROVE  HostQuiet
<1>1. UNCHANGED <<load, freeing, mem, free, buf, st>>
  BY DEF Crash, pool
<1>2. QED
  BY <1>1 DEF HostQuiet, HostMove, LoadsQuiet, FreesQuiet, HostInv, HostOnly

\* FreeHost begins for c, or is forgotten.
LEMMA FreeQuiet ==
  ASSUME FreesInv, HostOnly, NEW c \in Loads \cup {Server},
         \A d \in (Loads \cup {Server}) \ {c} : freeing'[d] = freeing[d],
         freeing'[c].pc # "replica"
  PROVE  FreesQuiet
  BY DEF FreesQuiet, HostOnly

\* The end of a load.  The last reference is dropped by a thread that reads no
\* longer, so nobody does.
LEMMA HostLoadEnds ==
  ASSUME TypesInv, Reachable, HostInv, NEW t \in Loads, LoadEnds(t) \/ LoadReturns(t)
  PROVE  HostQuiet
<1> USE StoreAssumption DEF TypesInv, References, HostInv
<1>1. UNCHANGED mem /\ LoadsQuiet
  <2>1. \E q \in {"failed", "left"} : Goto(t, q)
    BY Zenon DEF LoadEnds, LoadReturns
  <2>2. QED
    BY <2>1, GotoFields, LoadQuiet, Zenon DEF Preparing, LoadEnds, LoadReturns, pool
<1>2. CASE LoadEnds(t)
  <2>1. FreesQuiet
    <3>1. FreeMoves(t) /\ freeing'[t] = NoFree
      BY <1>2, FreeForgotten, Zenon DEF LoadEnds
    <3>2. QED
      BY <3>1, FreeQuiet DEF FreeMoves, NoFree
  <2>2. QED
    BY <1>1, <1>2, <2>1 DEF LoadEnds, HostQuiet, HostMove, pool
<1>3. CASE LoadReturns(t)
  <2> DEFINE m == load[t].obj
  <2>1. FreesQuiet
    BY <1>3 DEF LoadReturns, FreesQuiet, HostOnly
  <2>2. m \in Models \cup {None} /\ load[t].pc # "reading"
    BY <1>3 DEF LoadReturns, LoadsInv, LoadRecords
  <2>3. (\A u \in Loads \ {t} : ~Holds(u, m)) => ~Reads(m)
    BY <2>2 DEF Holds, Reads
  <2>4. HostMove
    BY <1>3, <2>2, <2>3, Zenon DEF LoadReturns, Drops, HostMove, Gives
  <2>5. QED
    BY <1>1, <2>1, <2>4 DEF HostQuiet
<1>4. QED
  BY <1>2, <1>3, SMTT(30)

LEMMA HostFreeSteps ==
  ASSUME Replicas = {}, TypesInv, Reachable, HostInv, NEW c \in Loads \cup {Server},
         FreeStep(c)
  PROVE  HostQuiet
<1> USE StoreAssumption DEF TypesInv, References, HostInv
<1> DEFINE m == freeing[c].obj
<1>1. UNCHANGED <<mem, load>> /\ freeing[c].pc \in Freeing
  BY DEF FreeStep, FreeHostEnters, FreeHostWakes, FreeHostWaitsAgain, FreeHostGoesOn,
     pool, Freeing
<1>2. m \in Models
  BY <1>1 DEF FreesInv, FreeRecords
<1>3. LoadsQuiet
  BY <1>1, SMTT(30) DEF LoadsQuiet, HostOnly
<1>4. st[m] # "LOADING" => ~Reads(m)
  BY DEF Reads, ReadersInv, Reader
<1>5. ASSUME NEW replicas \in SUBSET Replicas, FreeHostScans(c, replicas),
             st[m] # "LOADING"
      PROVE  HostMove /\ FreesQuiet
  <2>1. replicas = {}
    OBVIOUS
  <2>2. CASE ReleasePinned(m) /\ freeing' = [freeing EXCEPT ![c].pc = "freed"]
    <3>1. FreeMoves(c) /\ freeing'[c].pc = "freed"
      BY <1>1, <2>2, FreeGoto, Zenon DEF FreePcs
    <3>2. FreesQuiet
      BY <3>1, FreeQuiet DEF FreeMoves
    <3>3. QED
      BY <1>2, <1>4, <1>5, <2>2, <3>2 DEF HostMove, Gives
  <2>3. CASE UNCHANGED <<free, buf, st, freeing>>
    BY <2>3 DEF HostMove, FreesQuiet, HostOnly
  <2>4. QED
    BY <1>5, <2>1, <2>2, <2>3 DEF FreeHostScans
<1>6. ReplicasOf(m) \in SUBSET Replicas
  BY DEF ReplicasOf
<1>7. CASE FreeHostEnters(c)
  <2>1. CASE /\ UNCHANGED <<free, buf, st>>
             /\ \E q \in {"refused", "host"} : freeing' = [freeing EXCEPT ![c].pc = q]
    <3>1. FreesQuiet
      BY <1>1, <2>1, FreeGoto, FreeQuiet, Zenon DEF FreeMoves, FreePcs, Freeing
    <3>2. QED
      BY <1>1, <1>3, <2>1, <3>1, SMTT(30) DEF HostQuiet, HostMove
  <2>2. CASE st[m] # "LOADING" /\ FreeHostScans(c, ReplicasOf(m))
    BY <1>1, <1>3, <1>5, <1>6, <2>2 DEF HostQuiet
  <2>3. QED
    BY <1>7, <2>1, <2>2 DEF FreeHostEnters, AwaitsHost
<1>8. CASE FreeHostWakes(c)
  BY <1>1, <1>3, <1>5, <1>6, <1>8 DEF FreeHostWakes, HostSettled, HostQuiet
<1>9. CASE FreeHostWaitsAgain(c)
  <2>1. FreesQuiet
    BY <1>9, Zenon DEF FreeHostWaitsAgain, FreesQuiet, HostOnly
  <2>2. QED
    BY <1>1, <1>3, <1>9, <2>1, SMTT(30) DEF FreeHostWaitsAgain, HostQuiet, HostMove, pool
<1>10. CASE FreeHostGoesOn(c)
  BY <1>10 DEF FreeHostGoesOn, HostOnly
<1>11. QED
  BY <1>7, <1>8, <1>9, <1>10 DEF FreeStep

\* The server thread and the requests; Replicas = {} leaves these.
HostServerStep ==
  \/ \E p \in Unloads : UnloadModel(p)
  \/ UnloadReturns \/ ClearMem \/ ClearMemFrees \/ ClearMemEnds
  \/ \E p \in Paths : RegisterModel(p)
  \/ \E t \in Loads : LoadModelAsyncToHost(t)
  \/ \E x \in Unloads : Ask(x)

LEMMA HostServerSteps ==
  ASSUME Replicas = {}, TypesInv, Reachable, HostInv, HostServerStep
  PROVE  HostQuiet
<1> USE StoreAssumption DEF TypesInv, References, HostInv
<1>1. UNCHANGED <<mem, free, buf>>
  BY Zenon DEF HostServerStep, UnloadModel, UnloadReturns, ClearMem, ClearMemFrees,
     ClearMemEnds, RegisterModel, LoadModelAsyncToHost, Ask, pool
<1>2. LoadsQuiet
  <2>1. CASE UNCHANGED load
    BY <2>1 DEF LoadsQuiet, HostOnly
  <2>2. CASE \E t \in Loads : LoadModelAsyncToHost(t)
    <3>1. PICK t \in Loads : load[t].pc = "new" /\ Goto(t, "lookup")
      BY <2>2 DEF LoadModelAsyncToHost
    <3>2. QED
      BY <3>1, GotoFields, LoadQuiet, SMTT(30) DEF Preparing
  <2>3. QED
    BY <2>1, <2>2, Zenon DEF HostServerStep, UnloadModel, UnloadReturns, ClearMem,
       ClearMemFrees, ClearMemEnds, RegisterModel, Ask
<1>3. HostMove
  <2>1. CASE UNCHANGED st
    BY <1>1, <2>1 DEF HostMove
  <2>2. CASE \E p \in Paths : Register(p)
    <3>1. UNCHANGED st \/ \E m \in Models : Opens(m)
      BY <1>1, <2>2 DEF Register, Opens
    <3>2. QED
      BY <1>1, <3>1 DEF HostMove
  <2>3. QED
    BY <2>1, <2>2, Zenon DEF HostServerStep, UnloadModel, UnloadReturns, ClearMem,
       ClearMemFrees, ClearMemEnds, RegisterModel, LoadModelAsyncToHost, MayRegister, Ask
<1>4. FreesQuiet
  <2>1. CASE UNCHANGED freeing
    BY <2>1 DEF FreesQuiet, HostOnly
  <2>2. CASE freeing' = [freeing EXCEPT ![Server] = NoFree]
    BY <2>2, FreeForgotten, FreeQuiet, Zenon DEF FreeMoves, NoFree
  <2>3. CASE \E p \in Unloads : UnloadModel(p)
    <3>1. UNCHANGED freeing \/ \E m \in Models :
            freeing' = [freeing EXCEPT ![Server].pc = "enter", ![Server].obj = m]
      BY <2>3, Zenon DEF UnloadModel, MapsInv
    <3>2. QED
      BY <2>1, <3>1, FreeBegins, FreeQuiet, Zenon DEF FreeMoves
  <2>4. CASE ClearMemFrees
    <3>1. PICK m \in serv.todo :
            freeing' = [freeing EXCEPT ![Server] =
                          [NoFree EXCEPT !.pc = "enter", !.obj = m]]
      BY <2>4, Zenon DEF ClearMemFrees
    <3>2. /\ freeing'[Server].pc = "enter"
          /\ \A d \in (Loads \cup {Server}) \ {Server} : freeing'[d] = freeing[d]
      BY <3>1 DEF FreesInv, NoFree
    <3>3. QED
      BY <3>2, FreeQuiet
  <2>5. QED
    BY <2>1, <2>2, <2>3, <2>4 DEF HostServerStep, UnloadReturns, ClearMem,
       ClearMemEnds, RegisterModel, LoadModelAsyncToHost, Ask
<1>5. QED
  BY <1>1, <1>2, <1>3, <1>4 DEF HostQuiet

-----------------------------------------------------------------------------
(* ToHost *)

\* The buffers of two models are apart, and so are those of one.
LEMMA BuffersApart ==
  ASSUME PoolInv, NEW m \in Models, buf[m] # <<>>
  PROVE  /\ buf[m] \in [1..Size[PathOf[m]] -> Chunks]
         /\ \A j, k \in 1..Size[PathOf[m]] : buf[m][j] = buf[m][k] => j = k
         /\ \A x \in Models \ {m} : buf[x] # <<>> =>
              \A k \in 1..Size[PathOf[m]], j \in 1..Size[PathOf[x]] :
                buf[m][k] # buf[x][j]
<1>1. \A x \in Models : buf[x] # <<>> => buf[x] \in [1..Size[PathOf[x]] -> Chunks]
  BY DEF PoolInv, Buffered, IsBuffers
<1>2. \A j, k \in 1..Size[PathOf[m]] : buf[m][j] = buf[m][k] => j = k
  BY <1>1, Zenon DEF PoolInv, PoolPartition, IsInjective
<1>3. ASSUME NEW x \in Models \ {m}, buf[x] # <<>>,
             NEW k \in 1..Size[PathOf[m]], NEW j \in 1..Size[PathOf[x]]
      PROVE  buf[m][k] # buf[x][j]
  <2>1. buf[m][k] \in Range(buf[m]) /\ buf[x][j] \in Range(buf[x])
    BY <1>1, <1>3, Zenon DEF Range
  <2>2. Range(buf[m]) \cap Range(buf[x]) = {}
    BY DEF PoolInv, PoolPartition
  <2>3. QED
    BY <2>1, <2>2
<1>4. QED
  BY <1>1, <1>2, <1>3

LEMMA ReaderKept ==
  ASSUME NEW u \in Loads, Reader(u), load'[u] = load[u], UNCHANGED mem,
         st'[load[u].obj] = st[load[u].obj], buf'[load[u].obj] = buf[load[u].obj]
  PROVE  Reader(u)'
<1> DEFINE m == load[u].obj
<1>1. load'[u].obj = m
  OBVIOUS
<1> HIDE DEF m
<1>2. QED
  BY <1>1 DEF Reader, m

\* ToHost: one load makes an ALLOCATED model LOADING, or the load ends.
LEMMA HostToHost ==
  ASSUME TypesInv, Reachable, HostInv, NEW t \in Loads, ToHost(t)
  PROVE  HostInv'
<1> USE StoreAssumption DEF TypesInv, References, HostInv
<1> DEFINE m == load[t].obj
<1>1. UNCHANGED <<mem, free, buf>> /\ load[t].pc = "tohost"
  BY DEF ToHost, pool
<1>2. m \in Models /\ load[t] \in LoadRecords
  BY <1>1 DEF LoadsInv, LoadRecords, Working
<1>3. CASE /\ UNCHANGED st
           /\ \/ Goto(t, "done") /\ UNCHANGED freeing
              \/ /\ Goto(t, "freehost")
                 /\ freeing' = [freeing EXCEPT ![t].pc = "enter", ![t].obj = m]
  <2>1. LoadsQuiet
    BY <1>3, GotoFields, LoadQuiet DEF Preparing
  <2>2. FreesQuiet
    <3>1. CASE UNCHANGED freeing
      BY <3>1 DEF FreesQuiet, HostOnly
    <3>2. CASE freeing' = [freeing EXCEPT ![t].pc = "enter", ![t].obj = m]
      BY <1>2, <3>2, FreeBegins, FreeQuiet, Zenon DEF FreeMoves
    <3>3. QED
      BY <1>3, <3>1, <3>2
  <2>3. QED
    BY <1>1, <1>3, <2>1, <2>2, HostFrame DEF HostMove, Reachable
<1>4. CASE /\ st[m] = "ALLOCATED"
           /\ st' = [st EXCEPT ![m] = "LOADING"]
           /\ load' = [load EXCEPT ![t].pc = "reading", ![t].to = buf[m]]
           /\ UNCHANGED freeing
  <2>1. /\ load'[t].pc = "reading" /\ load'[t].to = buf[m]
        /\ load'[t].obj = m /\ load'[t].read = {}
        /\ \A u \in Loads \ {t} : load'[u] = load[u]
    <3>1. load[t].read = {}
      BY <1>1 DEF ReadersInv, Preparing
    <3>2. QED
      BY <1>2, <1>4, <3>1 DEF LoadsInv, LoadRecords
  <2>2. /\ st'[m] = "LOADING"
        /\ \A x \in Models \ {m} : st'[x] = st[x]
    BY <1>2, <1>4 DEF Reachable, PoolInv, PoolTypes
  <2>3. \A u \in Loads : load[u].pc = "reading" =>
          load[u].obj \in Models \ {m}
    <3>1. \A u \in Loads : load[u].pc = "reading" => load[u].obj \in Models
      BY DEF LoadsInv, LoadRecords, Working
    <3>2. QED
      BY <1>4, <3>1 DEF ReadersInv, Reader
  <2>4. HostOnly'
    BY <1>1, <1>2, <1>4, <2>1, <2>2, ZenonT(30) DEF HostOnly, Without
  <2>5. HostHoldsModel'
    <3> SUFFICES ASSUME NEW x \in Models, st'[x] = "LOADED"
                 PROVE  /\ buf'[x] # <<>>
                        /\ \A k \in 1..Size[PathOf[x]] :
                             mem'[buf'[x][k]] = <<PathOf[x], k>>
      BY DEF HostHoldsModel
    <3>1. st[x] = "LOADED"
      BY <2>2
    <3>2. QED
      BY <1>1, <3>1 DEF HostHoldsModel
  <2>6. ReadersInv'
    <3>1. Reader(t)'
      BY <1>1, <2>1, <2>2, Zenon DEF Reader
    <3>2. \A u \in Loads \ {t} : load[u].pc = "reading" => Reader(u)'
      BY <1>1, <2>1, <2>2, <2>3, ReaderKept DEF ReadersInv
    <3>3. QED
      BY <2>1, <2>3, <3>1, <3>2 DEF ReadersInv, Preparing
  <2>7. QED
    BY <2>4, <2>5, <2>6
<1>5. QED
  BY <1>3, <1>4, Zenon DEF ToHost

\* An I/O thread reads a chunk into a buffer of its model, and of no other.
LEMMA HostToHostReads ==
  ASSUME TypesInv, Reachable, HostInv, NEW t \in Loads,
         NEW k \in 1..Size[LoadPath[t]], ToHostReads(t, k)
  PROVE  HostInv'
<1> USE StoreAssumption DEF TypesInv, References, HostInv
<1> DEFINE m == load[t].obj
<1>1. /\ UNCHANGED <<free, buf, st, freeing>> /\ load[t].pc = "reading"
      /\ mem' = [mem EXCEPT ![load[t].to[k]] = <<LoadPath[t], k>>]
      /\ load' = [load EXCEPT ![t].read = @ \cup {k}]
  BY DEF ToHostReads
<1>2. /\ m \in Models /\ load[t] \in LoadRecords /\ PathOf[m] = LoadPath[t]
      /\ Reader(t)
  BY <1>1, SMTT(30) DEF LoadsInv, LoadRecords, Working, ReadersInv
<1>3. buf[m] # <<>> /\ st[m] = "LOADING" /\ load[t].to = buf[m]
  BY <1>2, Zenon DEF Reader, HostOnly, Without
<1>4. /\ buf[m] \in [1..Size[PathOf[m]] -> Chunks]
      /\ \A j \in 1..Size[PathOf[m]] : buf[m][j] = buf[m][k] => j = k
      /\ \A x \in Models \ {m} : buf[x] # <<>> =>
           \A j \in 1..Size[PathOf[x]] : buf[m][k] # buf[x][j]
  BY <1>2, <1>3, BuffersApart DEF Reachable
<1>5. /\ mem'[buf[m][k]] = <<LoadPath[t], k>>
      /\ \A c \in Chunks : c # buf[m][k] => mem'[c] = mem[c]
  BY <1>1, <1>2, <1>3, <1>4 DEF ContentsInv
<1>6. /\ load'[t].pc = "reading" /\ load'[t].to = load[t].to /\ load'[t].obj = m
      /\ load'[t].read = load[t].read \cup {k}
      /\ \A u \in Loads \ {t} : load'[u] = load[u]
  BY <1>1, <1>2 DEF LoadsInv, LoadRecords
<1>7. \A x \in Models \ {m} : buf[x] # <<>> =>
        \A j \in 1..Size[PathOf[x]] : mem'[buf[x][j]] = mem[buf[x][j]]
  <2>1. \A x \in Models : buf[x] # <<>> =>
          \A j \in 1..Size[PathOf[x]] : buf[x][j] \in Chunks
    BY BuffersApart, ZenonT(30) DEF Reachable
  <2>2. QED
    BY <1>4, <1>5, <2>1, Zenon
<1>8. HostOnly'
  BY <1>1, <1>6 DEF HostOnly
<1>9. HostHoldsModel'
  <2> SUFFICES ASSUME NEW x \in Models, st'[x] = "LOADED"
               PROVE  /\ buf'[x] # <<>>
                      /\ \A j \in 1..Size[PathOf[x]] :
                           mem'[buf'[x][j]] = <<PathOf[x], j>>
    BY DEF HostHoldsModel
  <2>1. st[x] = "LOADED" /\ x # m
    BY <1>1, <1>3, SMTT(30)
  <2>2. /\ buf[x] # <<>>
        /\ \A j \in 1..Size[PathOf[x]] : mem[buf[x][j]] = <<PathOf[x], j>>
    BY <2>1, Zenon DEF HostHoldsModel
  <2>3. \A j \in 1..Size[PathOf[x]] : mem'[buf[x][j]] = mem[buf[x][j]]
    BY <1>7, <2>1, <2>2
  <2>4. buf'[x] = buf[x]
    BY <1>1
  <2>5. QED
    BY <2>2, <2>3, <2>4, Zenon
<1>10. Reader(t)'
  <2>1. \A j \in load[t].read \cup {k} : mem'[buf[m][j]] = <<PathOf[m], j>>
    <3> SUFFICES ASSUME NEW j \in load[t].read \cup {k}
                 PROVE  mem'[buf[m][j]] = <<PathOf[m], j>>
      OBVIOUS
    <3>1. CASE j = k
      BY <1>2, <1>5, <3>1, Zenon
    <3>2. CASE j # k
      <4>1. /\ j \in 1..Size[PathOf[m]]
            /\ mem[buf[m][j]] = <<PathOf[m], j>>
        BY <1>2, <3>2, Zenon DEF Reader
      <4>2. buf[m][j] \in Chunks /\ buf[m][j] # buf[m][k]
        BY <1>2, <1>4, <3>2, <4>1, Zenon
      <4>3. QED
        BY <1>5, <4>1, <4>2, Zenon
    <3>3. QED
      BY <3>1, <3>2, Zenon
  <2>2. load[t].read \cup {k} \subseteq 1..Size[PathOf[m]]
    BY <1>2 DEF Reader
  <2> HIDE DEF m
  <2>3. QED
    BY <1>1, <1>3, <1>6, <2>1, <2>2, Zenon DEF Reader
<1>11. ASSUME NEW u \in Loads \ {t}, load[u].pc = "reading" PROVE Reader(u)'
  <2> DEFINE x == load[u].obj
  <2>1. x \in Models \ {m} /\ Reader(u) /\ load'[u] = load[u]
    BY <1>1, <1>6, <1>11, SMTT(30) DEF ReadersInv, LoadsInv, LoadRecords, Working
  <2>2. buf[x] # <<>> /\ load[u].read \subseteq 1..Size[PathOf[x]]
    BY <2>1, Zenon DEF Reader, HostOnly, Without
  <2>3. \A j \in load[u].read : mem'[buf[x][j]] = <<PathOf[x], j>>
    BY <1>7, <2>1, <2>2, Zenon DEF Reader
  <2> HIDE DEF m
  <2>4. QED
    BY <1>1, <2>1, <2>2, <2>3, Zenon DEF Reader
<1>12. ReadersInv'
  BY <1>1, <1>6, <1>10, <1>11 DEF ReadersInv, Preparing
<1>13. QED
  BY <1>8, <1>9, <1>12

\* An I/O thread fails: its load goes on and keeps what was read.
LEMMA HostToHostReadFails ==
  ASSUME TypesInv, Reachable, HostInv, NEW t \in Loads, NEW k, ToHostReadFails(t, k)
  PROVE  HostQuiet
<1> USE DEF TypesInv, References, HostInv
<1>1. /\ UNCHANGED <<mem, free, buf, st, freeing>>
      /\ load[t].pc = "reading" /\ load' = [load EXCEPT ![t].failed = @ \cup {k}]
  BY DEF ToHostReadFails, pool
<1>2. load[t] \in LoadRecords
  BY DEF LoadsInv
<1>3. /\ load'[t].pc = load[t].pc /\ load'[t].obj = load[t].obj
      /\ load'[t].to = load[t].to /\ load'[t].read = load[t].read
      /\ \A u \in Loads \ {t} : load'[u] = load[u]
  BY <1>1, <1>2 DEF LoadsInv, LoadRecords
<1>4. LoadsQuiet
  BY <1>3 DEF LoadsQuiet, HostOnly
<1>5. QED
  BY <1>1, <1>4 DEF HostQuiet, HostMove, FreesQuiet, HostOnly

\* All I/O threads returned without error, so every chunk was read.
LEMMA HostToHostLoaded ==
  ASSUME TypesInv, Reachable, HostInv, NEW t \in Loads, ToHostLoaded(t)
  PROVE  HostInv'
<1> USE StoreAssumption DEF TypesInv, References, HostInv
<1> DEFINE m == load[t].obj
<1>1. /\ UNCHANGED <<mem, free, buf, freeing>> /\ load[t].pc = "reading"
      /\ st' = [st EXCEPT ![m] = "LOADED"] /\ Goto(t, "done")
      /\ Unread(t) = {} /\ load[t].failed = {}
  BY Zenon DEF ToHostLoaded, pool
<1>2. m \in Models /\ PathOf[m] = LoadPath[t] /\ Reader(t)
  BY <1>1, Zenon DEF LoadsInv, LoadRecords, Working, ReadersInv
<1>3. buf[m] # <<>>
  BY <1>2, Zenon DEF Reader, HostOnly, Without
<1>4. \A k \in 1..Size[PathOf[m]] : mem[buf[m][k]] = <<PathOf[m], k>>
  <2>1. \A k \in 1..Size[PathOf[m]] : k \in load[t].read
    BY <1>1, <1>2 DEF Unread
  <2>2. QED
    BY <1>2, <2>1, Zenon DEF Reader
<1>5. st'[m] = "LOADED" /\ \A x \in Models \ {m} : st'[x] = st[x]
  BY <1>1, <1>2 DEF Reachable, PoolInv, PoolTypes
<1>6. /\ load'[t].pc = "done"
      /\ \A u \in Loads \ {t} : load'[u] = load[u]
  BY <1>1, GotoFields
<1>7. HostOnly'
  <2>1. \A x \in Models : /\ st'[x] # "INTERRUPTED"
                         /\ st'[x] \notin Without => buf'[x] # <<>>
    <3> SUFFICES ASSUME NEW x \in Models
                 PROVE  /\ st'[x] # "INTERRUPTED"
                        /\ st'[x] \notin Without => buf'[x] # <<>>
      BY SMTT(30)
    <3>1. CASE x = m
      BY <1>1, <1>3, <1>5, <3>1, SMTT(30)
    <3>2. CASE x # m
      BY <1>1, <1>5, <3>2 DEF HostOnly
    <3>3. QED
      BY <3>1, <3>2
  <2>2. \A u \in Loads : load'[u].pc # "abandon"
    BY <1>6, SMTT(30) DEF HostOnly
  <2>3. QED
    BY <1>1, <2>1, <2>2 DEF HostOnly
<1>8. HostHoldsModel'
  <2> SUFFICES ASSUME NEW x \in Models, st'[x] = "LOADED"
               PROVE  /\ buf'[x] # <<>>
                      /\ \A k \in 1..Size[PathOf[x]] :
                           mem'[buf'[x][k]] = <<PathOf[x], k>>
    BY DEF HostHoldsModel
  <2>1. CASE x = m
    BY <1>1, <1>3, <1>4, <2>1
  <2>2. CASE x # m
    <3>1. st[x] = "LOADED"
      BY <1>5, <2>2
    <3>2. QED
      BY <1>1, <3>1 DEF HostHoldsModel
  <2>3. QED
    BY <2>1, <2>2, Zenon
<1>9. ReadersInv'
  <2>1. ASSUME NEW u \in Loads \ {t}, load[u].pc = "reading" PROVE Reader(u)'
    <3>1. load[u].obj \in Models \ {m} /\ Reader(u)
      BY <1>1, <2>1, Zenon DEF ReadersInv, LoadsInv, LoadRecords, Working
    <3>2. QED
      BY <1>1, <1>5, <1>6, <3>1, ReaderKept, Zenon
  <2>2. QED
    BY <1>6, <2>1, SMTT(30) DEF ReadersInv, Preparing
<1>10. QED
  BY <1>7, <1>8, <1>9

\* An I/O thread failed: the load gives up the memory it alone was reading into.
LEMMA HostToHostFails ==
  ASSUME Replicas = {}, TypesInv, Reachable, HostInv, NEW t \in Loads, ToHostFails(t)
  PROVE  HostInv'
<1> USE StoreAssumption DEF TypesInv, References, HostInv
<1> DEFINE m == load[t].obj
<1>1. /\ UNCHANGED mem /\ load[t].pc = "reading"
      /\ ReleasePinned(m) /\ Goto(t, "freehost")
      /\ freeing' = [freeing EXCEPT ![t].pc = "enter", ![t].obj = m]
  BY DEF ToHostFails, ToHostAbandons, ReplicasOf
<1>2. m \in Models
  BY <1>1 DEF LoadsInv, LoadRecords, Working
<1>3. /\ buf'[m] = <<>> /\ st'[m] = "UNALLOCATED"
      /\ \A x \in Models \ {m} : buf'[x] = buf[x] /\ st'[x] = st[x]
  BY <1>1, <1>2 DEF ReleasePinned, Reachable, PoolInv, PoolTypes
<1>4. /\ load'[t].pc = "freehost"
      /\ \A u \in Loads \ {t} : load'[u] = load[u]
  BY <1>1, GotoFields
<1>5. \A c \in Loads \cup {Server} : freeing'[c].pc # "replica"
  BY <1>1, <1>2, FreeBegins, Zenon DEF FreeMoves, HostOnly
<1>6. HostOnly'
  BY <1>3, <1>4, <1>5, Zenon DEF HostOnly, Without
<1>7. HostHoldsModel'
  <2> SUFFICES ASSUME NEW x \in Models, st'[x] = "LOADED"
               PROVE  /\ buf'[x] # <<>>
                      /\ \A k \in 1..Size[PathOf[x]] :
                           mem'[buf'[x][k]] = <<PathOf[x], k>>
    BY DEF HostHoldsModel
  <2>1. st[x] = "LOADED" /\ buf'[x] = buf[x]
    BY <1>3
  <2>2. QED
    BY <1>1, <2>1 DEF HostHoldsModel
<1>8. ReadersInv'
  <2>1. ASSUME NEW u \in Loads \ {t}, load[u].pc = "reading" PROVE Reader(u)'
    <3>1. load[u].obj \in Models \ {m} /\ Reader(u)
      BY <1>1, <2>1 DEF ReadersInv, LoadsInv, LoadRecords, Working
    <3>2. QED
      BY <1>1, <1>3, <1>4, <3>1, ReaderKept, Zenon
  <2>2. QED
    BY <1>4, <2>1 DEF ReadersInv, Preparing
<1>9. QED
  BY <1>6, <1>7, <1>8

-----------------------------------------------------------------------------
(* A LOADED model is complete *)

LEMMA HostInit == Init => HostInv
<1> USE StoreAssumption
<1> SUFFICES ASSUME Init PROVE HostInv
  BY SMTT(30)
<1>1. \A t \in Loads : load[t].pc = "new" /\ load[t].read = {}
  BY DEF Init, NoLoad
<1>2. \A c \in Loads \cup {Server} : freeing[c].pc = "no"
  BY DEF Init, NoFree
<1>3. \A m \in Models : st[m] = "UNINITIALIZED"
  BY Zenon DEF Init
<1>4. QED
  BY <1>1, <1>2, <1>3 DEF HostInv, HostOnly, ReadersInv, HostHoldsModel, Without

\* Without replicas these are the steps of the store.
LEMMA HostNextCases ==
  ASSUME Replicas = {}, Next
  PROVE  \/ \E t \in Loads : LoadStep(t)
         \/ \E c \in Loads \cup {Server} : FreeStep(c)
         \/ \E t \in Loads : \E k \in 1..Size[LoadPath[t]] : ToHostReadFails(t, k)
         \/ HostServerStep
         \/ WaitInGpuEnds
<1>1. ~WaitInGpuFinds
  BY DEF WaitInGpuFinds, ReplicasOf
<1>2. ServerStep => HostServerStep \/ WaitInGpuEnds
  BY <1>1 DEF ServerStep, HostServerStep
<1>3. Request => HostServerStep
  BY DEF Request, HostServerStep
<1>4. Fault => \E t \in Loads : \E k \in 1..Size[LoadPath[t]] : ToHostReadFails(t, k)
  BY DEF Fault, DanglingReplica
<1>5. QED
  BY <1>2, <1>3, <1>4 DEF Next

LEMMA HostNext ==
  ASSUME Replicas = {}, TypesInv, Reachable, HostInv, Next
  PROVE  HostInv'
<1>0. HostQuiet => HostInv'
  BY HostFrame DEF HostQuiet, Reachable
<1>1. ASSUME NEW t \in Loads, LoadStep(t) PROVE HostInv'
  <2>1. CASE LoadLooksUp(t) \/ LoadAllocates(t) \/ LoadEvicts(t) \/ LoadGivesUp(t)
             \/ LoadReallocates(t)
    BY <1>0, <2>1, HostLoadSteps
  <2>2. CASE LoadEvictsNull(t)
    BY <1>0, <2>2, HostCrash, Zenon DEF LoadEvictsNull
  <2>3. CASE ToHost(t) \/ \E k \in 1..Size[LoadPath[t]] : ToHostReads(t, k)
    BY <2>3, HostToHost, HostToHostReads
  <2>4. CASE ToHostLoaded(t) \/ ToHostFails(t)
    BY <2>4, HostToHostLoaded, HostToHostFails
  <2>5. CASE LoadEnds(t) \/ LoadReturns(t)
    BY <1>0, <2>5, HostLoadEnds
  <2>6. ~ToHostAbandonsNext(t)
    BY DEF ToHostAbandonsNext, HostInv, HostOnly
  <2>7. QED
    BY <1>1, <2>1, <2>2, <2>3, <2>4, <2>5, <2>6, Zenon DEF LoadStep
<1>2. ASSUME NEW c \in Loads \cup {Server}, FreeStep(c) PROVE HostInv'
  BY <1>0, <1>2, HostFreeSteps
<1>3. ASSUME NEW t \in Loads, NEW k \in 1..Size[LoadPath[t]], ToHostReadFails(t, k)
      PROVE  HostInv'
  BY <1>0, <1>3, HostToHostReadFails
<1>4. CASE HostServerStep
  BY <1>0, <1>4, HostServerSteps
<1>5. CASE WaitInGpuEnds
  <2>1. UNCHANGED <<load, freeing, mem, free, buf, st>>
    BY <1>5, SMTT(30) DEF WaitInGpuEnds, pool
  <2>2. HostQuiet
    BY <2>1 DEF HostQuiet, HostMove, LoadsQuiet, FreesQuiet, HostInv, HostOnly
  <2>3. QED
    BY <1>0, <2>2
<1>6. QED
  BY <1>1, <1>2, <1>3, <1>4, <1>5, HostNextCases

LEMMA HostStutter ==
  ASSUME TypesInv, Reachable, HostInv, UNCHANGED vars
  PROVE  HostInv'
<1>1. UNCHANGED <<load, freeing, mem, free, buf, st>>
  BY DEF vars, pool
<1>2. HostQuiet
  BY <1>1 DEF HostQuiet, HostMove, LoadsQuiet, FreesQuiet, HostInv, HostOnly
<1>3. QED
  BY <1>2, HostFrame DEF HostQuiet, Reachable

=============================================================================
