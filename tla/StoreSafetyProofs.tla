------------------------- MODULE StoreSafetyProofs --------------------------
(***************************************************************************)
(* Without GPU replicas every step keeps what is free and what is still to *)
(* be evicted enough for the model being loaded, and without ClearMem every*)
(* step keeps the references to models good.                               *)
(***************************************************************************)
EXTENDS StoreHostProofs

\* What is free and what is still to be freed is enough for the model.
Rationed ==
  \A t \in Loads :
    /\ load[t].pc \in {"evict", "realloc"} =>
         /\ st[load[t].obj] = "UNALLOCATED"
         /\ Cardinality(free) + load[t].need >= Size[LoadPath[t]]
    /\ load[t].pc = "realloc" => load[t].need <= 0

\* A model that something refers to was registered, and without ClearMem the
\* paths that eviction goes through still are.
Known(m) ==
  \/ Registered(m)
  \/ \E t \in Loads : load[t].obj = m
  \/ \E c \in Loads \cup {Server} : freeing[c].pc \in Freeing /\ freeing[c].obj = m
Initialized == \A m \in Models : Known(m) => st[m] # "UNINITIALIZED"
Listed ==
  /\ \A p \in Range(access) : reg[p] # None
  /\ \A t \in Loads :
       /\ \A p \in Range(load[t].todo) : reg[p] # None
       /\ load[t].obj # None => reg[LoadPath[t]] # None
  /\ serv.at # "clear"

-----------------------------------------------------------------------------
(* An eviction that stops early has freed enough *)

\* The pool only grows and no model gets memory, except for a load that evicts
\* nothing (any more).
Grows ==
  /\ free \subseteq free'
  /\ \A m \in Models : st[m] = "UNALLOCATED" => st'[m] = "UNALLOCATED"
EvictorsKept ==
  \A u \in Loads : load'[u].pc \in Evicting => load'[u] = load[u]

\* What counting the free buffers before and after a step gives; that every step
\* has it is FreeIsCounted of CheckpointStoreProofs.
Counted ==
  /\ Cardinality(free) \in Nat /\ Cardinality(free') \in Nat
  /\ free \subseteq free' => Cardinality(free) <= Cardinality(free')
  /\ \A v \in Models : ReleasePinned(v) =>
       Cardinality(free') = Cardinality(free) + Len(buf[v])

LEMMA RationFrame ==
  ASSUME LoadsInv, Counted, Rationed, Grows, EvictorsKept
  PROVE  Rationed'
<1>1. Cardinality(free) \in Nat /\ Cardinality(free') \in Nat
      /\ Cardinality(free) <= Cardinality(free')
  BY Zenon DEF Counted, Grows
<1> SUFFICES ASSUME NEW t \in Loads, load'[t].pc \in Evicting
             PROVE  /\ st'[load'[t].obj] = "UNALLOCATED"
                    /\ Cardinality(free') + load'[t].need >= Size[LoadPath[t]]
                    /\ load'[t].pc = "realloc" => load'[t].need <= 0
  BY DEF Rationed, Evicting
<1>2. /\ load'[t] = load[t] /\ load[t].obj \in Models /\ load[t].need \in Int
      /\ Size[LoadPath[t]] \in Int
  BY StoreAssumption DEF EvictorsKept, LoadsInv, LoadRecords, Evicting, Working
<1>3. /\ st[load[t].obj] = "UNALLOCATED"
      /\ Cardinality(free) + load[t].need >= Size[LoadPath[t]]
      /\ load[t].pc = "realloc" => load[t].need <= 0
  BY <1>2 DEF Rationed, Evicting
<1>4. QED
  BY <1>1, <1>2, <1>3 DEF Grows

\* When no load evicts after a step there is nothing to ration.
LEMMA NobodyEvicts ==
  ASSUME \A u \in Loads : load'[u].pc \notin Evicting
  PROVE  Rationed'
  BY DEF Rationed, Evicting

LEMMA GrowsBy ==
  ASSUME PoolInv,
         \/ UNCHANGED <<free, st>>
         \/ \E m \in Models : Opens(m) \/ ReleasePinned(m)
  PROVE  Grows
  BY DEF Grows, Opens, ReleasePinned, PoolInv, PoolTypes

LEMMA GotoKeepsEvictors ==
  ASSUME LoadsInv, NEW t \in Loads, NEW q, q \notin Evicting, Goto(t, q)
  PROVE  EvictorsKept
  BY GotoFields DEF EvictorsKept

\* What a read and the start of the reads leave of a load's record.
LEMMA ReadKeepsPc ==
  ASSUME LoadsInv, NEW t \in Loads, NEW x,
         \/ load' = [load EXCEPT ![t].read = x]
         \/ load' = [load EXCEPT ![t].failed = x]
  PROVE  load'[t].pc = load[t].pc
<1>1. load[t] \in LoadRecords /\ t \in DOMAIN load
  BY DEF LoadsInv
<1>2. \/ load'[t] = [load[t] EXCEPT !.read = x]
      \/ load'[t] = [load[t] EXCEPT !.failed = x]
  BY <1>1
<1>3. QED
  BY <1>1, <1>2 DEF LoadRecords

LEMMA ReadingStarts ==
  ASSUME LoadsInv, NEW t \in Loads, NEW b,
         load' = [load EXCEPT ![t].pc = "reading", ![t].to = b]
  PROVE  load'[t].pc = "reading"
<1>1. load[t] \in LoadRecords /\ t \in DOMAIN load
  BY DEF LoadsInv
<1>2. load'[t] = [load[t] EXCEPT !.pc = "reading", !.to = b]
  BY <1>1
<1>3. QED
  BY <1>1, <1>2 DEF LoadRecords

\* The steps of a load that neither allocate nor evict.
LEMMA RationLoadSteps ==
  ASSUME Replicas = {}, TypesInv, Reachable, HostInv, NEW t \in Loads,
         \/ LoadLooksUp(t) \/ LoadEvictsNull(t) \/ LoadGivesUp(t) \/ ToHost(t)
         \/ \E k \in 1..Size[LoadPath[t]] : ToHostReads(t, k) \/ ToHostReadFails(t, k)
         \/ ToHostLoaded(t) \/ ToHostFails(t) \/ LoadEnds(t) \/ LoadReturns(t)
  PROVE  Grows /\ EvictorsKept
<1> USE StoreAssumption DEF TypesInv, References, Reachable
<1> DEFINE m == load[t].obj
<1>1. CASE LoadLooksUp(t)
  <2>1. load[t].pc = "lookup" /\ UNCHANGED <<free, st>>
    BY <1>1 DEF LoadLooksUp, pool
  <2>2. \A u \in Loads \ {t} : load'[u] = load[u]
    BY <1>1 DEF LoadLooksUp, LoadsInv
  <2>3. load'[t].pc \in {"failed", "alloc"}
    BY <1>1, SMTT(30) DEF LoadLooksUp, LoadsInv, LoadRecords
  <2>4. QED
    BY <2>1, <2>2, <2>3, GrowsBy DEF EvictorsKept, Evicting
<1>2. CASE LoadEvictsNull(t)
  BY <1>2, GrowsBy DEF LoadEvictsNull, Crash, EvictorsKept, pool
<1>3. CASE LoadGivesUp(t)
  BY <1>3, GrowsBy, GotoKeepsEvictors DEF LoadGivesUp, Evicting, pool
<1>4. CASE ToHost(t)
  <2>1. load[t].pc = "tohost" /\ m \in Models /\ UNCHANGED free
    BY <1>4, Zenon DEF ToHost, pool, LoadsInv, LoadRecords, Working
  <2>2. Grows
    BY <1>4, <2>1 DEF ToHost, Grows, PoolInv, PoolTypes
  <2>3. \A u \in Loads \ {t} : load'[u] = load[u]
    BY <1>4, Zenon DEF ToHost, Goto, LoadsInv
  <2>4. load'[t].pc \in {"reading", "done", "freehost"}
    <3>1. \/ load' = [load EXCEPT ![t].pc = "reading", ![t].to = buf[m]]
          \/ Goto(t, "done") \/ Goto(t, "freehost")
      BY <1>4, Zenon DEF ToHost
    <3>2. QED
      BY <3>1, ReadingStarts, GotoFields, Zenon
  <2>5. QED
    BY <2>2, <2>3, <2>4 DEF EvictorsKept, Evicting
<1>5. CASE \E k \in 1..Size[LoadPath[t]] : ToHostReads(t, k) \/ ToHostReadFails(t, k)
  <2>1. load[t].pc = "reading" /\ UNCHANGED <<free, st>>
    BY <1>5, Zenon DEF ToHostReads, ToHostReadFails, pool
  <2>2. \A u \in Loads \ {t} : load'[u] = load[u]
    BY <1>5, Zenon DEF ToHostReads, ToHostReadFails, LoadsInv
  <2>3. load'[t].pc = load[t].pc
    BY <1>5, ReadKeepsPc, Zenon DEF ToHostReads, ToHostReadFails
  <2>4. QED
    BY <2>1, <2>2, <2>3, GrowsBy, SMTT(30) DEF EvictorsKept, Evicting
<1>6. CASE ToHostLoaded(t)
  <2>1. /\ load[t].pc = "reading" /\ st[m] = "LOADING" /\ m \in Models /\ UNCHANGED free
        /\ st' = [st EXCEPT ![m] = "LOADED"] /\ Goto(t, "done")
    BY <1>6 DEF ToHostLoaded, pool, HostInv, ReadersInv, Reader, LoadsInv, LoadRecords,
       Working
  <2>2. Grows
    BY <2>1, SMTT(30) DEF Grows, PoolInv, PoolTypes
  <2>3. QED
    BY <2>1, <2>2, GotoKeepsEvictors, SMTT(30) DEF Evicting
<1>7. CASE ToHostFails(t)
  <2>1. load[t].pc = "reading" /\ m \in Models /\ ReplicasOf(m) = {}
    BY <1>7 DEF ToHostFails, LoadsInv, LoadRecords, Working, ReplicasOf
  <2>2. ReleasePinned(m) /\ Goto(t, "freehost")
    BY <1>7, <2>1 DEF ToHostFails, ToHostAbandons
  <2>3. QED
    BY <2>1, <2>2, GrowsBy, GotoKeepsEvictors, SMTT(30) DEF Evicting
<1>8. CASE LoadEnds(t)
  BY <1>8, GrowsBy, GotoKeepsEvictors, Zenon DEF LoadEnds, Evicting, pool
<1>9. CASE LoadReturns(t)
  <2>1. Goto(t, "left") /\ ((m # None /\ ReleasePinned(m)) \/ UNCHANGED <<free, st>>)
    BY <1>9, Zenon DEF LoadReturns, Drops
  <2>2. m # None => m \in Models
    BY DEF LoadsInv, LoadRecords
  <2>3. QED
    BY <2>1, <2>2, GrowsBy, GotoKeepsEvictors DEF Evicting
<1>10. QED
  BY <1>1, <1>2, <1>3, <1>4, <1>5, <1>6, <1>7, <1>8, <1>9

LEMMA RationAllocates ==
  ASSUME TypesInv, Reachable, Counted, Rationed, NEW t \in Loads, LoadAllocates(t)
  PROVE  Rationed'
<1> USE StoreAssumption DEF TypesInv, References, Reachable
<1> DEFINE m == load[t].obj
           n == Size[LoadPath[t]]
<1>1. \A u \in Loads : load[u].pc \notin Evicting
  BY LockFree DEF LoadAllocates
<1>2. CASE Goto(t, "tohost")
  BY <1>1, <1>2, GotoFields, NobodyEvicts DEF Evicting
<1>3. CASE /\ st[m] = "UNALLOCATED" /\ UNCHANGED <<free, st>>
           /\ load' = [load EXCEPT ![t].pc = "evict", ![t].todo = access,
                                   ![t].need = n - Cardinality(free)]
  <2>1. \A u \in Loads \ {t} : load'[u] = load[u]
    BY <1>3 DEF LoadsInv
  <2>2. /\ load'[t].pc = "evict" /\ load'[t].obj = m
        /\ load'[t].need = n - Cardinality(free)
    BY <1>3 DEF LoadsInv, LoadRecords
  <2>3. n \in Int /\ Cardinality(free) \in Int
    BY DEF Counted
  <2>4. Cardinality(free) + (n - Cardinality(free)) >= n
    BY <2>3
  <2>5. QED
    BY <1>1, <1>3, <2>1, <2>2, <2>4, Zenon DEF Rationed, Evicting
<1>4. QED
  BY <1>2, <1>3 DEF LoadAllocates

LEMMA RationReallocates ==
  ASSUME TypesInv, Reachable, Rationed, NEW t \in Loads, LoadReallocates(t)
  PROVE  Rationed'
<1> USE StoreAssumption DEF TypesInv, References, Reachable
<1>1. load[t].pc = "realloc" /\ Goto(t, "tohost")
  BY DEF LoadReallocates
<1>2. \A u \in Loads \ {t} : load[u].pc \notin Evicting
  BY <1>1 DEF LockHeld, Evicting
<1>3. QED
  BY <1>1, <1>2, GotoFields, NobodyEvicts DEF Evicting

\* One round of the eviction loop lowers what is missing by what it frees.
LEMMA RationEvicts ==
  ASSUME TypesInv, Reachable, Counted, Rationed, NEW t \in Loads, LoadEvicts(t)
  PROVE  Rationed'
<1> USE StoreAssumption DEF TypesInv, References, Reachable
<1> DEFINE m == load[t].obj
           v == reg[Head(load[t].todo)]
           left == load[t].need - FreedBy(v)
<1>1. load[t].pc = "evict" /\ load[t].todo # <<>> /\ v # None
  BY DEF LoadEvicts
<1>2. /\ load[t] \in LoadRecords /\ Head(load[t].todo) \in Paths /\ v \in Models
      /\ m \in Models
  BY <1>1, SMTT(30) DEF LoadsInv, LoadRecords, MapsInv, Working
<1>3. \A u \in Loads \ {t} : load[u].pc \notin Evicting
  BY <1>1 DEF LockHeld, Evicting
<1>4. /\ load[t].need \in Int /\ Cardinality(free) \in Int /\ Size[LoadPath[t]] \in Int
      /\ Len(buf[v]) \in Int /\ st[m] = "UNALLOCATED"
      /\ Cardinality(free) + load[t].need >= Size[LoadPath[t]]
  BY <1>1, <1>2, SMTT(30)
  DEF Counted, Rationed, LoadRecords, Evicting, PoolInv, PoolTypes
<1>5. /\ st'[m] = "UNALLOCATED"
      /\ left \in Int /\ Cardinality(free') + left >= Size[LoadPath[t]]
  <2>1. CASE Evictable(v) /\ ReleasePinned(v)
    <3>1. st'[m] = "UNALLOCATED"
      BY <1>2, <1>4, <2>1, Zenon DEF ReleasePinned, PoolInv, PoolTypes
    <3>2. Cardinality(free') = Cardinality(free) + Len(buf[v])
      BY <1>2, <2>1, Zenon DEF Counted
    <3>3. FreedBy(v) = Len(buf[v])
      BY <2>1 DEF FreedBy
    <3> HIDE DEF v
    <3>4. QED
      BY <1>4, <3>1, <3>2, <3>3, SMTT(30)
  <2>2. CASE ~Evictable(v) /\ UNCHANGED <<free, st>>
    <3>1. FreedBy(v) = 0
      BY <2>2, SMTT(30) DEF FreedBy
    <3> HIDE DEF v
    <3>2. QED
      BY <1>4, <2>2, <3>1
  <2>3. QED
    BY <2>1, <2>2, Zenon DEF LoadEvicts
<1>6. load' = [load EXCEPT ![t].todo = Tail(@), ![t].need = left,
                 ![t].pc = IF left <= 0 THEN "realloc" ELSE "evict"]
  BY DEF LoadEvicts
<1> HIDE DEF v, left
<1>7. \A u \in Loads \ {t} : load'[u] = load[u]
  BY <1>6 DEF LoadsInv
<1>8. /\ load'[t].obj = m /\ load'[t].need = left
      /\ load'[t].pc = "realloc" => left <= 0
  BY <1>6 DEF LoadsInv, LoadRecords
<1>9. QED
  BY <1>3, <1>5, <1>7, <1>8, SMTT(30) DEF Rationed, Evicting

LEMMA RationOthers ==
  ASSUME TypesInv, Reachable,
         \/ \E c \in Loads \cup {Server} : FreeStep(c)
         \/ HostServerStep
         \/ WaitInGpuEnds
         \/ UNCHANGED vars
  PROVE  Grows /\ EvictorsKept
<1> USE StoreAssumption DEF TypesInv, References, Reachable
<1>1. ASSUME NEW c \in Loads \cup {Server}, FreeStep(c) PROVE Grows /\ EvictorsKept
  <2> DEFINE m == freeing[c].obj
  <2>1. UNCHANGED load /\ freeing[c].pc \in Freeing
    BY <1>1, Zenon DEF FreeStep, FreeHostEnters, FreeHostWakes, FreeHostWaitsAgain,
       FreeHostGoesOn, Freeing
  <2>2. m \in Models
    BY <2>1 DEF FreesInv, FreeRecords
  <2>3. UNCHANGED <<free, st>> \/ ReleasePinned(m)
    BY <1>1, Zenon DEF FreeStep, FreeHostEnters, FreeHostWakes, FreeHostWaitsAgain,
       FreeHostGoesOn, FreeHostScans, pool
  <2>4. QED
    BY <2>1, <2>2, <2>3, GrowsBy DEF EvictorsKept
<1>2. CASE HostServerStep
  <2>1. Grows
    <3>1. UNCHANGED <<free, buf, st>> \/ \E p \in Paths : Register(p) /\ UNCHANGED <<free, buf>>
      BY <1>2, Zenon DEF HostServerStep, UnloadModel, UnloadReturns, ClearMem, ClearMemFrees,
         ClearMemEnds, RegisterModel, LoadModelAsyncToHost, MayRegister, Ask, pool
    <3>2. UNCHANGED <<free, st>> \/ \E m \in Models : Opens(m)
      BY <3>1 DEF Register, Opens
    <3>3. QED
      BY <3>2, GrowsBy
  <2>2. CASE UNCHANGED load
    BY <2>1, <2>2 DEF EvictorsKept
  <2>3. CASE \E t \in Loads : LoadModelAsyncToHost(t)
    BY <2>1, <2>3, GotoKeepsEvictors, SMTT(30) DEF LoadModelAsyncToHost, Evicting
  <2>4. QED
    BY <1>2, <2>2, <2>3, Zenon DEF HostServerStep, UnloadModel, UnloadReturns, ClearMem,
       ClearMemFrees, ClearMemEnds, RegisterModel, Ask
<1>3. CASE WaitInGpuEnds \/ UNCHANGED vars
  BY <1>3, GrowsBy, Zenon DEF WaitInGpuEnds, vars, pool, EvictorsKept
<1>4. QED
  BY <1>1, <1>2, <1>3

LEMMA RationNext ==
  ASSUME Replicas = {}, TypesInv, Reachable, HostInv, Counted, Rationed, [Next]_vars
  PROVE  Rationed'
<1>0. Grows /\ EvictorsKept => Rationed'
  BY RationFrame, Zenon DEF TypesInv, References
<1>1. ASSUME NEW t \in Loads, LoadStep(t) PROVE Rationed'
  <2>1. CASE LoadAllocates(t) \/ LoadEvicts(t) \/ LoadReallocates(t)
    BY <2>1, RationAllocates, RationEvicts, RationReallocates
  <2>2. ~ToHostAbandonsNext(t)
    BY DEF ToHostAbandonsNext, HostInv, HostOnly
  <2>3. QED
    BY <1>0, <1>1, <2>1, <2>2, RationLoadSteps, Zenon DEF LoadStep
<1>2. ASSUME NEW t \in Loads, NEW k \in 1..Size[LoadPath[t]], ToHostReadFails(t, k)
      PROVE  Rationed'
  BY <1>0, <1>2, RationLoadSteps
<1>3. QED
  BY <1>0, <1>1, <1>2, HostNextCases, RationOthers

LEMMA RationInit == Init => Rationed
  BY DEF Init, NoLoad, Rationed

LEMMA RationSuffices ==
  ASSUME LoadsInv, Cardinality(free) \in Nat, Rationed
  PROVE  EvictionSuffices
<1> SUFFICES ASSUME NEW t \in Loads, load[t].pc = "realloc"
             PROVE  /\ st[load[t].obj] = "UNALLOCATED"
                    /\ Cardinality(free) >= Size[LoadPath[t]]
  BY DEF EvictionSuffices
<1>1. load[t].need \in Int /\ Size[LoadPath[t]] \in Int
  BY StoreAssumption DEF LoadsInv, LoadRecords
<1>2. QED
  BY <1>1 DEF Rationed

-----------------------------------------------------------------------------
(* No null pointer is followed *)

\* A step hands on references that were there, and registers a model before the
\* first one.
RefsFollow ==
  /\ \A m \in Models : st[m] # "UNINITIALIZED" => st'[m] # "UNINITIALIZED"
  /\ \A p \in Paths : reg'[p] # None =>
       reg'[p] = reg[p] \/ st'[reg'[p]] # "UNINITIALIZED"
  /\ \A u \in Loads : load'[u].obj # None =>
       load'[u].obj = load[u].obj \/ load'[u].obj = reg[LoadPath[u]]
  /\ \A c \in Loads \cup {Server} : freeing'[c].pc \in Freeing =>
       \/ freeing[c].pc \in Freeing /\ freeing'[c].obj = freeing[c].obj
       \/ \E u \in Loads : freeing'[c].obj = load[u].obj
       \/ \E p \in Paths : freeing'[c].obj = reg[p]

\* A path that eviction may come to is one that a load has found.
ListsFollow ==
  /\ \A p \in Paths : reg[p] # None => reg'[p] # None
  /\ \A p \in Range(access') :
       p \in Range(access) \/ \E u \in Loads : p = LoadPath[u] /\ load[u].obj # None
  /\ \A u \in Loads :
       /\ Range(load'[u].todo) \subseteq Range(load[u].todo) \cup Range(access)
       /\ load'[u].obj # None => load[u].obj # None \/ reg[LoadPath[u]] # None
  /\ serv'.at # "clear"

LEMMA SafeFrame ==
  ASSUME TypesInv, TypesInv', Initialized, Listed, RefsFollow, ListsFollow
  PROVE  Initialized' /\ Listed'
<1> USE StoreAssumption DEF TypesInv, References
<1>1. Initialized'
  <2> SUFFICES ASSUME NEW m \in Models, Known(m)' PROVE st'[m] # "UNINITIALIZED"
    BY DEF Initialized
  <2>1. m # None
    BY Zenon
  <2>2. Known(m) => st'[m] # "UNINITIALIZED"
    BY Zenon DEF Initialized, RefsFollow
  <2>3. CASE Registered(m)'
    BY <2>1, <2>2, <2>3, Zenon DEF Registered, Known, RefsFollow
  <2>4. CASE \E t \in Loads : load'[t].obj = m
    <3>1. PICK t \in Loads : load'[t].obj = m
      BY <2>4, Zenon
    <3>2. load[t].obj = m \/ reg[LoadPath[t]] = m
      BY <2>1, <3>1, Zenon DEF RefsFollow
    <3>3. LoadPath[t] \in Paths
      OBVIOUS
    <3>4. Known(m)
      BY <3>2, <3>3, Zenon DEF Known, Registered
    <3>5. QED
      BY <2>2, <3>4, Zenon
  <2>5. CASE \E c \in Loads \cup {Server} :
               freeing'[c].pc \in Freeing /\ freeing'[c].obj = m
    BY <2>2, <2>5, SMTT(30) DEF Registered, Known, RefsFollow
  <2>6. QED
    BY <2>3, <2>4, <2>5 DEF Known
<1>2. Listed'
  <2>1. Range(access) \subseteq Paths /\ \A t \in Loads : Range(load[t].todo) \subseteq Paths
    <3>1. access \in Seq(Paths) /\ \A t \in Loads : load[t].todo \in Seq(Paths)
      BY DEF MapsInv, LoadsInv, LoadRecords
    <3>2. ASSUME NEW s \in Seq(Paths) PROVE Range(s) \subseteq Paths
      BY <3>2 DEF Range
    <3>3. QED
      BY <3>1, <3>2, Zenon
  <2>2. \A p \in Range(access') : reg'[p] # None
    BY <2>1 DEF Listed, ListsFollow
  <2>3. \A t \in Loads : \A p \in Range(load'[t].todo) : reg'[p] # None
    BY <2>1, SMTT(30) DEF Listed, ListsFollow
  <2>4. \A t \in Loads : load'[t].obj # None => reg'[LoadPath[t]] # None
    BY DEF Listed, ListsFollow
  <2>5. QED
    BY <2>2, <2>3, <2>4, SMTT(30) DEF Listed, ListsFollow
<1>3. QED
  BY <1>1, <1>2

\* What a load does to its own references.
LoadFollows(t) ==
  /\ \A u \in Loads \ {t} : load'[u] = load[u]
  /\ load'[t].obj \in {load[t].obj, reg[LoadPath[t]]}
  /\ Range(load'[t].todo) \subseteq Range(load[t].todo) \cup Range(access)

LEMMA TailRange ==
  ASSUME NEW S, NEW s \in Seq(S), s # <<>>
  PROVE  Range(Tail(s)) \subseteq Range(s) /\ Head(s) \in Range(s)
<1>1. /\ DOMAIN s = 1..Len(s) /\ Len(s) \in Nat \ {0} /\ Head(s) = s[1]
      /\ DOMAIN Tail(s) = 1..Len(s) - 1
      /\ \A k \in 1..Len(s) - 1 : Tail(s)[k] = s[k + 1]
  OBVIOUS
<1>2. QED
  BY <1>1 DEF Range

LEMMA LoadStepFollows ==
  ASSUME Replicas = {}, TypesInv, HostInv, NEW t \in Loads,
         LoadStep(t) \/ \E k \in 1..Size[LoadPath[t]] : ToHostReadFails(t, k)
  PROVE  LoadFollows(t)
<1> USE StoreAssumption DEF TypesInv, References
<1>1. CASE \E q : Goto(t, q)
  BY <1>1, GotoFields, Zenon DEF LoadFollows
<1>2. CASE UNCHANGED load
  BY <1>2 DEF LoadFollows
<1>3. CASE LoadLooksUp(t)
  BY <1>3 DEF LoadLooksUp, LoadFollows, LoadsInv, LoadRecords
<1>4. CASE LoadAllocates(t)
  <2>1. CASE load' = [load EXCEPT ![t].pc = "evict", ![t].todo = access,
                                  ![t].need = Size[LoadPath[t]] - Cardinality(free)]
    BY <2>1 DEF LoadFollows, LoadsInv, LoadRecords
  <2>2. QED
    BY <1>1, <1>4, <2>1, Zenon DEF LoadAllocates
<1>5. CASE LoadEvicts(t)
  <2> DEFINE left == load[t].need - FreedBy(reg[Head(load[t].todo)])
  <2>1. /\ load[t].todo # <<>> /\ load[t] \in LoadRecords
        /\ load' = [load EXCEPT ![t].todo = Tail(@), ![t].need = left,
                      ![t].pc = IF left <= 0 THEN "realloc" ELSE "evict"]
    BY <1>5 DEF LoadEvicts, LoadsInv
  <2> HIDE DEF left
  <2>2. /\ load'[t].obj = load[t].obj /\ load'[t].todo = Tail(load[t].todo)
        /\ \A u \in Loads \ {t} : load'[u] = load[u]
    BY <2>1 DEF LoadsInv, LoadRecords
  <2>3. Range(Tail(load[t].todo)) \subseteq Range(load[t].todo)
    BY <2>1, TailRange DEF LoadRecords
  <2>4. QED
    BY <2>2, <2>3 DEF LoadFollows
<1>6. CASE ToHost(t)
  <2>1. CASE load' = [load EXCEPT ![t].pc = "reading", ![t].to = buf[load[t].obj]]
    BY <2>1 DEF LoadFollows, LoadsInv, LoadRecords
  <2>2. QED
    BY <1>1, <1>6, <2>1, Zenon DEF ToHost
<1>7. CASE \E k \in 1..Size[LoadPath[t]] : ToHostReads(t, k) \/ ToHostReadFails(t, k)
  <2>1. PICK k : \/ load' = [load EXCEPT ![t].read = @ \cup {k}]
                 \/ load' = [load EXCEPT ![t].failed = @ \cup {k}]
    BY <1>7, Zenon DEF ToHostReads, ToHostReadFails
  <2>2. /\ load'[t].obj = load[t].obj /\ load'[t].todo = load[t].todo
        /\ \A u \in Loads \ {t} : load'[u] = load[u]
    BY <2>1 DEF LoadsInv, LoadRecords
  <2>3. QED
    BY <2>2 DEF LoadFollows
<1>8. CASE ToHostFails(t) \/ ToHostAbandonsNext(t)
  <2>1. ToHostFails(t)
    BY <1>8, Zenon DEF ToHostAbandonsNext, HostInv, HostOnly
  <2>2. Goto(t, "freehost")
    BY <2>1 DEF ToHostFails, ToHostAbandons, ReplicasOf
  <2>3. QED
    BY <1>1, <2>2
<1>9. QED
  BY <1>1, <1>2, <1>3, <1>4, <1>5, <1>6, <1>7, <1>8, Zenon
  DEF LoadStep, LoadEvictsNull, Crash, LoadGivesUp, LoadReallocates, ToHostLoaded,
      LoadEnds, LoadReturns

LEMMA SafeLoadSteps ==
  ASSUME Replicas = {}, TypesInv, Reachable, HostInv, Listed, NEW t \in Loads,
         LoadStep(t) \/ \E k \in 1..Size[LoadPath[t]] : ToHostReadFails(t, k)
  PROVE  RefsFollow /\ ListsFollow
<1> USE StoreAssumption DEF TypesInv, References, Reachable
<1> DEFINE m == load[t].obj
<1>1. UNCHANGED <<reg, serv>> /\ LoadFollows(t)
  BY LoadStepFollows, Zenon
  DEF LoadStep, LoadLooksUp, LoadAllocates, LoadEvicts, LoadEvictsNull, LoadGivesUp,
      LoadReallocates, ToHost, ToHostReads, ToHostReadFails, ToHostLoaded, ToHostFails,
      ToHostAbandonsNext, LoadEnds, LoadReturns, Crash, store, server
<1>2. \A x \in Models : st[x] # "UNINITIALIZED" => st'[x] # "UNINITIALIZED"
  <2> USE DEF PoolInv, PoolTypes
  <2>1. CASE LoadAllocates(t) \/ LoadReallocates(t)
    <3>1. UNCHANGED st \/ st' = [st EXCEPT ![m] = "ALLOCATED"]
      BY <2>1, Zenon DEF LoadAllocates, LoadReallocates, AllocatePinned
    <3>2. QED
      BY <3>1, Zenon
  <2>2. CASE LoadEvicts(t)
    <3> DEFINE v == reg[Head(load[t].todo)]
    <3>1. UNCHANGED st \/ st' = [st EXCEPT ![v] = "UNALLOCATED"]
      BY <2>2, Zenon DEF LoadEvicts, ReleasePinned
    <3> HIDE DEF v
    <3>2. QED
      BY <3>1
  <2>3. CASE ToHost(t) \/ ToHostLoaded(t)
    BY <2>3, SMTT(30) DEF ToHost, ToHostLoaded
  <2>4. CASE ToHostFails(t) \/ ToHostAbandonsNext(t)
    <3>1. \/ UNCHANGED st \/ st' = [st EXCEPT ![m] = "INTERRUPTED"]
          \/ st' = [st EXCEPT ![m] = "UNALLOCATED"]
      BY <2>4, Zenon DEF ToHostFails, ToHostAbandonsNext, ToHostAbandons, ReleasePinned
    <3>2. QED
      BY <3>1
  <2>5. CASE LoadReturns(t)
    BY <2>5, Zenon DEF LoadReturns, Drops, ReleasePinned
  <2>6. QED
    BY <2>1, <2>2, <2>3, <2>4, <2>5, Zenon DEF LoadStep, LoadLooksUp, LoadEvictsNull, Crash,
       LoadGivesUp, ToHostReads, ToHostReadFails, LoadEnds
<1>3. \A c \in Loads \cup {Server} : freeing'[c].pc \in Freeing =>
        \/ freeing[c].pc \in Freeing /\ freeing'[c].obj = freeing[c].obj
        \/ \E u \in Loads : freeing'[c].obj = load[u].obj
  <2>1. CASE UNCHANGED freeing
    BY <2>1
  <2>2. CASE freeing' = [freeing EXCEPT ![t].pc = "enter", ![t].obj = m]
    BY <2>2, SMTT(30) DEF FreesInv, FreeRecords
  <2>3. CASE freeing' = [freeing EXCEPT ![t] = NoFree]
    BY <2>3, FreeForgotten DEF FreeMoves, NoFree, Freeing
  <2>4. CASE ToHostFails(t) \/ ToHostAbandonsNext(t)
    BY <2>1, <2>2, <2>4, Zenon DEF ToHostFails, ToHostAbandonsNext, ToHostAbandons
  <2>5. QED
    BY <2>1, <2>2, <2>3, <2>4, Zenon
    DEF LoadStep, LoadLooksUp, LoadAllocates, LoadEvicts, LoadEvictsNull, LoadGivesUp,
        LoadReallocates, ToHost, ToHostReads, ToHostReadFails, ToHostLoaded, LoadEnds,
        LoadReturns, Crash
<1>4. \A p \in Range(access') :
        p \in Range(access) \/ \E u \in Loads : p = LoadPath[u] /\ load[u].obj # None
  <2>1. CASE UNCHANGED access
    BY <2>1, SMTT(30)
  <2>2. CASE load[t].pc \in Working /\ access' = Touched(LoadPath[t])
    <3>1. Range(access') \subseteq Range(access) \cup {LoadPath[t]}
      BY <2>2, TouchedKeeps, SMTT(30) DEF MapsInv
    <3>2. m # None
      BY <2>2 DEF LoadsInv
    <3>3. QED
      BY <3>1, <3>2, SMTT(30)
  <2>3. QED
    BY <2>1, <2>2, Zenon
    DEF LoadStep, LoadLooksUp, LoadAllocates, LoadEvicts, LoadEvictsNull, LoadGivesUp,
        LoadReallocates, ToHost, ToHostReads, ToHostReadFails, ToHostLoaded, ToHostFails,
        ToHostAbandonsNext, LoadEnds, LoadReturns, Crash, store, Working
<1>5. QED
  BY <1>1, <1>2, <1>3, <1>4, Zenon DEF RefsFollow, ListsFollow, LoadFollows, Listed

LEMMA SafeFreeSteps ==
  ASSUME TypesInv, Reachable, Listed, NEW c \in Loads \cup {Server}, FreeStep(c)
  PROVE  RefsFollow /\ ListsFollow
<1> USE StoreAssumption DEF TypesInv, References, Reachable
<1>1. UNCHANGED <<reg, access, serv, load>> /\ freeing[c].pc \in Freeing
  BY DEF FreeStep, FreeHostEnters, FreeHostWakes, FreeHostWaitsAgain, FreeHostGoesOn,
     store, server, Freeing
<1>2. UNCHANGED st \/ \E m \in Models : ReleasePinned(m)
  <2>1. freeing[c].obj \in Models
    BY <1>1, Zenon DEF FreesInv, FreeRecords
  <2>2. QED
    BY <2>1, Zenon DEF FreeStep, FreeHostEnters, FreeHostWakes, FreeHostWaitsAgain,
       FreeHostGoesOn, FreeHostScans
<1> DEFINE Stays == /\ \A d \in (Loads \cup {Server}) \ {c} : freeing'[d] = freeing[d]
                    /\ freeing'[c].obj = freeing[c].obj
<1>3. Stays
  <2>1. ASSUME NEW replicas \in SUBSET Replicas, FreeHostScans(c, replicas)
        PROVE  Stays
    <3>1. FreeGoesOn(c) \/ UNCHANGED freeing
      BY <1>1, <2>1, ScansGoOn, Zenon
    <3>2. QED
      BY <3>1, Zenon DEF FreeGoesOn, FreeMoves
  <2>2. ASSUME NEW q \in {"refused", "host"}, freeing' = [freeing EXCEPT ![c].pc = q]
        PROVE  Stays
    <3>1. q \in FreePcs
      BY <2>2, Zenon DEF FreePcs, Freeing
    <3>2. FreeMoves(c) /\ freeing'[c].obj = freeing[c].obj
      BY <1>1, <2>2, <3>1, FreeGoto, Zenon
    <3>3. QED
      BY <3>2, Zenon DEF FreeMoves
  <2>3. \A s : ReplicasOf(freeing[c].obj) \in SUBSET Replicas
               /\ (s \cap ReplicasOf(freeing[c].obj)) \in SUBSET Replicas
    BY DEF ReplicasOf
  <2>4. CASE FreeHostEnters(c)
    BY <2>1, <2>2, <2>3, <2>4 DEF FreeHostEnters
  <2>5. CASE FreeHostWakes(c)
    BY <2>1, <2>3, <2>5, Zenon DEF FreeHostWakes
  <2>6. CASE FreeHostGoesOn(c)
    <3>1. PICK more \in SUBSET ReplicasOf(freeing[c].obj) :
            FreeHostScans(c, (freeing[c].todo \cap ReplicasOf(freeing[c].obj)) \cup more)
      BY <2>6, Zenon DEF FreeHostGoesOn
    <3>2. ((freeing[c].todo \cap ReplicasOf(freeing[c].obj)) \cup more) \in SUBSET Replicas
      BY <2>3
    <3>3. QED
      BY <2>1, <3>1, <3>2, SMTT(30)
  <2>7. CASE FreeHostWaitsAgain(c)
    BY <2>7, Zenon DEF FreeHostWaitsAgain
  <2>8. QED
    BY <2>4, <2>5, <2>6, <2>7, Zenon DEF FreeStep
<1>4. QED
  BY <1>1, <1>2, <1>3, Zenon DEF RefsFollow, ListsFollow, Listed, ReleasePinned, PoolInv,
     PoolTypes

LEMMA SafeServerSteps ==
  ASSUME ~Clears, TypesInv, Reachable, Listed, HostServerStep \/ WaitInGpuEnds \/ UNCHANGED vars
  PROVE  RefsFollow /\ ListsFollow
<1> USE StoreAssumption DEF TypesInv, References, Reachable
<1>0. HostServerStep => ~ClearMem /\ ~ClearMemFrees /\ ~ClearMemEnds
  BY Zenon DEF ClearMem, ClearMemFrees, ClearMemEnds, Listed
<1>1. UNCHANGED access
  BY Zenon DEF HostServerStep, UnloadModel, UnloadReturns, ClearMem, ClearMemFrees,
     ClearMemEnds, RegisterModel, LoadModelAsyncToHost, Ask, WaitInGpuEnds, vars, store
<1>2. serv'.at # "clear"
  <2>1. \/ UNCHANGED serv \/ serv' = Idle
        \/ \E p : serv' = [Idle EXCEPT !.at = "unload", !.arg = p]
    BY <1>0, Zenon DEF HostServerStep, UnloadModel, UnloadReturns, RegisterModel,
       LoadModelAsyncToHost, Ask, WaitInGpuEnds, vars, server
  <2>2. Idle.at # "clear" /\ \A p : [Idle EXCEPT !.at = "unload", !.arg = p].at = "unload"
    BY DEF Idle
  <2> HIDE DEF Idle
  <2>3. QED
    BY <2>1, <2>2, Zenon DEF Listed
<1>3. \A u \in Loads : load'[u].obj = load[u].obj /\ load'[u].todo = load[u].todo
  <2>1. CASE UNCHANGED load
    BY <2>1, SMTT(30)
  <2>2. CASE \E t \in Loads : Goto(t, "lookup")
    BY <2>2, GotoFields
  <2>3. QED
    BY <1>0, <2>1, <2>2, Zenon DEF HostServerStep, UnloadModel, UnloadReturns, RegisterModel,
       LoadModelAsyncToHost, Ask, WaitInGpuEnds, vars
<1>4. /\ \A p \in Paths : reg[p] # None => reg'[p] = reg[p]
      /\ \A p \in Paths : reg'[p] # None =>
           reg'[p] = reg[p] \/ st'[reg'[p]] # "UNINITIALIZED"
      /\ \A m \in Models : st[m] # "UNINITIALIZED" => st'[m] # "UNINITIALIZED"
  <2>1. CASE UNCHANGED <<reg, st>>
    BY <2>1, SMTT(30)
  <2>2. CASE \E p \in Paths : Register(p)
    <3>1. PICK p \in Paths : Register(p)
      BY <2>2
    <3>2. CASE \E m \in Models : /\ reg[p] = None /\ reg' = [reg EXCEPT ![p] = m]
                                 /\ st' = [st EXCEPT ![m] = "UNALLOCATED"]
      <4>1. PICK m \in Models : /\ reg[p] = None /\ reg' = [reg EXCEPT ![p] = m]
                                /\ st' = [st EXCEPT ![m] = "UNALLOCATED"]
        BY <3>2, Zenon
      <4>2. st'[m] = "UNALLOCATED" /\ \A x \in Models \ {m} : st'[x] = st[x]
        BY <4>1 DEF PoolInv, PoolTypes
      <4>3. reg'[p] = m /\ \A x \in Paths \ {p} : reg'[x] = reg[x]
        BY <4>1 DEF MapsInv
      <4>4. QED
        BY <4>1, <4>2, <4>3
    <3>3. QED
      BY <2>1, <3>1, <3>2, SMTT(30) DEF Register
  <2>3. QED
    BY <1>0, <2>1, <2>2, Zenon DEF HostServerStep, UnloadModel, UnloadReturns, RegisterModel,
       LoadModelAsyncToHost, MayRegister, Ask, WaitInGpuEnds, vars, store
<1>5. \A c \in Loads \cup {Server} : freeing'[c].pc \in Freeing =>
        \/ freeing[c].pc \in Freeing /\ freeing'[c].obj = freeing[c].obj
        \/ \E p \in Paths : freeing'[c].obj = reg[p]
  <2>1. CASE UNCHANGED freeing
    BY <2>1
  <2>2. CASE \E p \in Unloads : UnloadModel(p)
    <3>1. PICK p \in Paths :
            \/ UNCHANGED freeing
            \/ /\ reg[p] # None
               /\ freeing' = [freeing EXCEPT ![Server].pc = "enter",
                                             ![Server].obj = reg[p]]
      BY <2>2, SMTT(30) DEF UnloadModel
    <3>2. CASE /\ reg[p] # None
               /\ freeing' = [freeing EXCEPT ![Server].pc = "enter",
                                             ![Server].obj = reg[p]]
      <4>1. reg[p] \in Models
        BY <3>2 DEF MapsInv
      <4>2. FreeMoves(Server) /\ freeing'[Server].obj = reg[p]
        BY <3>2, <4>1, FreeBegins, Zenon
      <4>3. QED
        BY <4>2 DEF FreeMoves
    <3>3. QED
      BY <2>1, <3>1, <3>2
  <2>3. CASE UnloadReturns
    BY <2>3, FreeForgotten DEF UnloadReturns, FreeMoves, NoFree, Freeing
  <2>4. QED
    BY <1>0, <2>1, <2>2, <2>3, Zenon DEF HostServerStep, RegisterModel,
       LoadModelAsyncToHost, Ask, WaitInGpuEnds, vars
<1>6. QED
  BY <1>1, <1>2, <1>3, <1>4, <1>5 DEF RefsFollow, ListsFollow

\* A model that has to be freed has its pinned_mem_.
LEMMA KnownIsPinned ==
  ASSUME PoolInv, HostOnly, Initialized, NEW m \in Models, Known(m),
         st[m] # "UNALLOCATED"
  PROVE  pinned[m]
<1>1. st[m] \notin Without
  BY SMTT(30) DEF Initialized, Without
<1>2. QED
  BY <1>1 DEF HostOnly, PoolInv, Buffered

LEMMA StaysAlive ==
  ASSUME Replicas = {}, TypesInv, Reachable, HostInv, Initialized, Listed, ~dead,
         [Next]_vars
  PROVE  ~dead'
<1> USE StoreAssumption DEF TypesInv, References, Reachable
<1>1. ASSUME NEW t \in Loads, LoadStep(t) PROVE ~dead'
  <2>1. ~LoadEvictsNull(t)
    <3> SUFFICES ASSUME LoadEvictsNull(t) PROVE FALSE
      BY SMTT(30)
    <3> DEFINE v == reg[Head(load[t].todo)]
    <3>1. load[t].todo # <<>> /\ (v # None => Evictable(v) /\ ~pinned[v])
      BY DEF LoadEvictsNull
    <3>2. Head(load[t].todo) \in Range(load[t].todo) /\ Head(load[t].todo) \in Paths
      <4>1. load[t].todo \in Seq(Paths)
        BY DEF LoadsInv, LoadRecords
      <4>2. Head(load[t].todo) \in Paths
        BY <3>1, <4>1, SMTT(30)
      <4>3. QED
        BY <3>1, <4>1, <4>2, TailRange, Zenon
    <3>3. v # None /\ v \in Models /\ Known(v)
      BY <3>2, Zenon DEF Listed, MapsInv, Known, Registered
    <3>4. QED
      BY <3>1, <3>3, KnownIsPinned DEF Evictable, HostInv
  <2>2. QED
    BY <1>1, <2>1, Zenon
    DEF LoadStep, LoadLooksUp, LoadAllocates, LoadEvicts, LoadGivesUp, LoadReallocates,
        ToHost, ToHostReads, ToHostLoaded, ToHostFails, ToHostAbandonsNext, LoadEnds,
        LoadReturns
<1>2. ASSUME NEW c \in Loads \cup {Server}, FreeStep(c) PROVE ~dead'
  <2> DEFINE m == freeing[c].obj
  <2>1. freeing[c].pc \in Freeing /\ m \in Models /\ Known(m)
    BY <1>2, Zenon DEF FreeStep, FreeHostEnters, FreeHostWakes, FreeHostWaitsAgain,
       FreeHostGoesOn, Freeing, FreesInv, FreeRecords, Known
  <2>2. st[m] # "UNALLOCATED" => pinned[m]
    BY <2>1, KnownIsPinned, Zenon DEF HostInv
  <2>3. freeing[c].pc # "replica"
    BY DEF HostInv, HostOnly
  <2>4. QED
    BY <1>2, <2>2, <2>3, Zenon DEF FreeStep, FreeHostEnters, FreeHostWakes, HostSettled,
       FreeHostWaitsAgain, FreeHostGoesOn, FreeHostScans
<1>3. CASE \E t \in Loads : \E k \in 1..Size[LoadPath[t]] : ToHostReadFails(t, k)
  BY <1>3 DEF ToHostReadFails
<1>4. CASE HostServerStep \/ WaitInGpuEnds \/ UNCHANGED vars
  BY <1>4, Zenon DEF HostServerStep, UnloadModel, UnloadReturns, ClearMem, ClearMemFrees,
     ClearMemEnds, RegisterModel, LoadModelAsyncToHost, Ask, WaitInGpuEnds, vars
<1>5. QED
  BY <1>1, <1>2, <1>3, <1>4, HostNextCases

LEMMA SafeInit ==
  ASSUME Init
  PROVE  Initialized /\ Listed /\ ~dead
<1> USE StoreAssumption DEF Init
<1>1. \A t \in Loads : load[t].obj = None /\ load[t].todo = <<>>
  BY Zenon DEF NoLoad
<1>2. Range(<<>>) = {}
  BY NoBuffers
<1>3. Listed
  BY <1>1, <1>2, Zenon DEF Listed, Idle
<1>4. \A m \in Models : ~Known(m)
  BY <1>1, Zenon DEF Known, Registered, NoFree, Freeing
<1>5. QED
  BY <1>3, <1>4, Zenon DEF Initialized

LEMMA SafeNext ==
  ASSUME Replicas = {}, ~Clears, TypesInv, TypesInv', Reachable, HostInv, Initialized,
         Listed, ~dead, [Next]_vars
  PROVE  Initialized' /\ Listed' /\ ~dead'
<1>1. RefsFollow /\ ListsFollow
  <2>1. CASE \E t \in Loads : LoadStep(t)
             \/ \E k \in 1..Size[LoadPath[t]] : ToHostReadFails(t, k)
    BY <2>1, SafeLoadSteps, Zenon
  <2>2. CASE \E c \in Loads \cup {Server} : FreeStep(c)
    BY <2>2, SafeFreeSteps, Zenon
  <2>3. CASE HostServerStep \/ WaitInGpuEnds \/ UNCHANGED vars
    BY <2>3, SafeServerSteps, Zenon
  <2>4. QED
    BY <2>1, <2>2, <2>3, HostNextCases, Zenon
<1>2. QED
  BY <1>1, SafeFrame, StaysAlive, Zenon
=============================================================================
