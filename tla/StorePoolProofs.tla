-------------------------- MODULE StorePoolProofs ---------------------------
(***************************************************************************)
(* The invariant below the theorems about the checkpoint store, and what a *)
(* step has to do to keep it.                                              *)
(*                                                                         *)
(* Only pinned_mem_->Allocate and pinned_mem_.reset() move buffers.  Every *)
(* step of every thread keeps the buffers, takes some for one model that   *)
(* has none, or gives back those of one model (PoolMove), and the threads  *)
(* only follow references to models.  StoreStepProofs shows this for every *)
(* step.                                                                   *)
(***************************************************************************)
EXTENDS CheckpointStore, TLAPS

\* A thread has its Model from the lookup on.
Unbound == {"new", "lookup"}
Working == {"alloc", "evict", "realloc", "tohost", "reading", "abandon",
            "freehost"}
Freeing == {"enter", "host", "replica"}

LoadPcs == Unbound \cup Working \cup {"done", "failed", "left"}
LoadRecords ==
  [pc: LoadPcs, obj: Models \cup {None}, need: Int, todo: Seq(Paths),
   to: Seq(Chunks), read: SUBSET Nat, failed: SUBSET Nat,
   rest: SUBSET Replicas, on: Replicas \cup {None}]

FreePcs == Freeing \cup {"no", "freed", "refused"}
FreeRecords ==
  [pc: FreePcs, obj: Models \cup {None},
   todo: SUBSET Replicas, on: Replicas \cup {None}]

\* The fields of a GpuReplica and its threads; out, dev and good play no part.
IsReplica(x) ==
  /\ x = [pc |-> x.pc, obj |-> x.obj, st |-> x.st, disp |-> x.disp,
          out |-> x.out, dev |-> x.dev, good |-> x.good]
  /\ x.obj \in Models \cup {None}
  /\ x.st \in ReplicaStates

\* The maps of the store: a path maps to an object of its own.
MapsInv ==
  /\ reg \in [Paths -> Models \cup {None}]
  /\ \A p \in Paths : reg[p] # None => PathOf[reg[p]] = p
  /\ access \in Seq(Paths) /\ IsInjective(access)
  /\ info \in Loads \cup {Server, None}

\* The threads refer to objects of the path they were asked for.
LoadsInv ==
  /\ load \in [Loads -> LoadRecords]
  /\ \A t \in Loads :
       /\ load[t].pc \in Unbound => load[t].obj = None
       /\ load[t].pc \in Working => load[t].obj # None
       /\ load[t].obj # None => PathOf[load[t].obj] = LoadPath[t]

ReplicasInv ==
  /\ rep = [r \in Replicas |-> rep[r]]
  /\ \A r \in Replicas :
       /\ IsReplica(rep[r])
       /\ rep[r].pc \in Unbound => rep[r].obj = None
       /\ rep[r].pc = "togpu" => rep[r].obj # None

FreesInv ==
  /\ freeing \in [Loads \cup {Server} -> FreeRecords]
  /\ \A c \in Loads \cup {Server} :
       freeing[c].pc \in Freeing => freeing[c].obj # None

ServerInv ==
  /\ serv = [at |-> serv.at, arg |-> serv.arg, obj |-> serv.obj,
             todo |-> serv.todo]
  /\ serv.todo \subseteq Models

\* The waiters of a Model's cv_.
WaitersInv ==
  /\ waiting \in [Models -> SUBSET (Loads \cup {Server})]
  /\ woken \in [Models -> SUBSET (Loads \cup {Server})]
  /\ \A m \in Models : woken[m] \subseteq waiting[m]

ContentsInv ==
  /\ mem = [c \in Chunks |-> mem[c]]
  /\ \A c \in Chunks : mem[c] = <<None, 0>> \/ mem[c][1] \in Paths

\* The pool, and that a model without memory has no buffers.
Without == {"UNINITIALIZED", "UNALLOCATED"}
PoolTypes ==
  /\ free \subseteq Chunks
  /\ st \in [Models -> MemoryStates]
  /\ pinned \in [Models -> BOOLEAN]
  /\ buf \in [Models -> Seq(Chunks)]
Buffered ==
  \A m \in Models :
    /\ IsBuffers(buf[m], Size[PathOf[m]])
    /\ buf[m] # <<>> => pinned[m]
    /\ st[m] \in Without => buf[m] = <<>>
PoolInv == PoolTypes /\ Buffered /\ PoolPartition

\* model_info_mutex_ is held by the load that evicts, or by ClearMem.
LockHeld ==
  /\ \A t \in Loads : load[t].pc \in {"evict", "realloc"} => info = t
  /\ serv.at = "clear" => info = Server

\* ClearMem: a registered model that still has memory is yet to be freed.
ClearPending ==
  serv.at = "clear" =>
    \A p \in Paths : reg[p] # None /\ buf[reg[p]] # <<>> =>
      \/ reg[p] \in serv.todo
      \/ freeing[Server].obj = reg[p] /\ freeing[Server].pc \in Freeing

References == MapsInv /\ LoadsInv /\ ReplicasInv /\ FreesInv /\ ServerInv
StoreInv ==
  /\ References /\ WaitersInv /\ ContentsInv /\ PoolInv
  /\ LockHeld /\ ClearPending /\ NoOrphanMemory

-----------------------------------------------------------------------------
(* Sequences *)

LEMMA FunctionIsSeq ==
  ASSUME NEW S, NEW n \in Nat, NEW f \in [1..n -> S]
  PROVE  f \in Seq(S)
  OBVIOUS

\* Removed takes one place out and keeps the order of the others.
LEMMA RemovedElements ==
  ASSUME NEW S, NEW s \in Seq(S), NEW p \in 1..Len(s)
  PROVE  /\ Removed(s, p) \in Seq(S)
         /\ Len(Removed(s, p)) = Len(s) - 1
         /\ \A k \in 1..Len(s) - 1 :
              Removed(s, p)[k] = IF k < p THEN s[k] ELSE s[k + 1]
<1> DEFINE l == SubSeq(s, 1, p - 1)
           r == SubSeq(s, p + 1, Len(s))
<1>1. /\ l \in Seq(S) /\ Len(l) = p - 1
      /\ \A k \in 1..p - 1 : l[k] = s[k]
  OBVIOUS
<1>2. /\ r \in Seq(S) /\ Len(r) = Len(s) - p
      /\ \A k \in 1..Len(s) - p : r[k] = s[p + k]
  OBVIOUS
<1>3. Removed(s, p) = l \o r
  BY DEF Removed
<1> HIDE DEF l, r
<1>4. /\ l \o r \in Seq(S)
      /\ Len(l \o r) = Len(l) + Len(r)
      /\ \A k \in 1..Len(l) + Len(r) :
           (l \o r)[k] = IF k <= Len(l) THEN l[k] ELSE r[k - Len(l)]
  <2>1. l \in Seq(S) /\ r \in Seq(S)
    BY <1>1, <1>2
  <2>2. l \o r \in Seq(S) /\ Len(l \o r) = Len(l) + Len(r)
    BY <2>1
  <2>3. ASSUME NEW k \in 1..Len(l) + Len(r)
        PROVE  (l \o r)[k] = IF k <= Len(l) THEN l[k] ELSE r[k - Len(l)]
    BY <2>1
  <2>4. QED
    BY <2>2, <2>3
<1>5. ASSUME NEW k \in 1..Len(s) - 1
      PROVE  (l \o r)[k] = IF k < p THEN s[k] ELSE s[k + 1]
  <2>0. k \in 1..Len(l) + Len(r)
    BY <1>1, <1>2
  <2>1. CASE k < p
    <3>1. k <= Len(l) /\ k \in 1..p - 1
      BY <1>1, <2>1
    <3>2. QED
      BY <1>1, <1>4, <2>0, <2>1, <3>1
  <2>2. CASE ~(k < p)
    <3>1. /\ ~(k <= Len(l))
          /\ k - Len(l) \in 1..Len(s) - p
          /\ p + (k - Len(l)) = k + 1
      BY <1>1, <2>2
    <3>2. (l \o r)[k] = r[k - Len(l)]
      BY <1>4, <2>0, <3>1
    <3>3. r[k - Len(l)] = s[p + (k - Len(l))]
      BY <1>2, <3>1
    <3>4. QED
      BY <2>2, <3>1, <3>2, <3>3
  <2>3. QED
    BY <2>1, <2>2, Zenon
<1>6. Len(l \o r) = Len(s) - 1
  BY <1>1, <1>2, <1>4
<1>7. QED
  BY <1>3, <1>4, <1>5, <1>6

\* Taking a place out of a list without duplicates removes its element for good.
LEMMA RemovedRange ==
  ASSUME NEW S, NEW s \in Seq(S), NEW p \in 1..Len(s), IsInjective(s)
  PROVE  /\ IsInjective(Removed(s, p))
         /\ Range(Removed(s, p)) \subseteq Range(s)
         /\ s[p] \notin Range(Removed(s, p))
<1> DEFINE r == Removed(s, p)
           at(k) == IF k < p THEN k ELSE k + 1
<1>1. /\ r \in Seq(S) /\ Len(r) = Len(s) - 1
      /\ \A k \in 1..Len(s) - 1 : r[k] = IF k < p THEN s[k] ELSE s[k + 1]
  BY RemovedElements
<1> HIDE DEF r
<1>2. DOMAIN r = 1..Len(s) - 1 /\ DOMAIN s = 1..Len(s)
  BY <1>1
<1>3. \A k \in DOMAIN r : at(k) \in DOMAIN s /\ at(k) # p /\ r[k] = s[at(k)]
  BY <1>1, <1>2
<1>4. \A k, j \in DOMAIN r : at(k) = at(j) => k = j
  BY <1>2
<1> HIDE DEF at
<1>5. IsInjective(r)
  BY <1>3, <1>4 DEF IsInjective
<1>6. Range(r) \subseteq Range(s) /\ s[p] \notin Range(r)
  BY <1>2, <1>3 DEF IsInjective, Range
<1>7. QED
  BY <1>5, <1>6 DEF r

LEMMA AppendNew ==
  ASSUME NEW S, NEW s \in Seq(S), NEW x \in S, IsInjective(s), x \notin Range(s)
  PROVE  /\ Append(s, x) \in Seq(S)
         /\ IsInjective(Append(s, x))
         /\ Range(Append(s, x)) \subseteq Range(s) \cup {x}
<1>1. /\ Append(s, x) \in Seq(S)
      /\ DOMAIN Append(s, x) = 1..Len(s) + 1 /\ DOMAIN s = 1..Len(s)
      /\ \A k \in 1..Len(s) : Append(s, x)[k] = s[k]
      /\ Append(s, x)[Len(s) + 1] = x
  OBVIOUS
<1>2. \A k \in 1..Len(s) + 1 : k \in 1..Len(s) \/ k = Len(s) + 1
  OBVIOUS
<1>3. \A k \in 1..Len(s) : s[k] # x
  BY <1>1 DEF Range
<1>4. IsInjective(Append(s, x))
  BY <1>1, <1>2, <1>3 DEF IsInjective
<1>5. Range(Append(s, x)) \subseteq Range(s) \cup {x}
  BY <1>1, <1>2 DEF Range
<1>6. QED
  BY <1>1, <1>4, <1>5

\* A path that is used again moves to the end of model_last_access_time_.
LEMMA TouchedKeeps ==
  ASSUME access \in Seq(Paths), IsInjective(access), NEW p \in Paths
  PROVE  /\ Touched(p) \in Seq(Paths) /\ IsInjective(Touched(p))
         /\ Range(Touched(p)) \subseteq Range(access) \cup {p}
<1>1. CASE p \in Range(access)
  <2> DEFINE k == IndexOf(access, p)
  <2>1. k \in 1..Len(access) /\ access[k] = p
    BY <1>1 DEF Range, IndexOf
  <2> HIDE DEF k
  <2> DEFINE r == Removed(access, k)
  <2>2. /\ r \in Seq(Paths) /\ IsInjective(r)
        /\ Range(r) \subseteq Range(access) /\ p \notin Range(r)
    BY <2>1, RemovedElements, RemovedRange
  <2>3. Touched(p) = Append(r, p)
    BY <1>1 DEF Touched, k
  <2> HIDE DEF r
  <2>4. QED
    BY <2>2, <2>3, AppendNew
<1>2. CASE p \notin Range(access)
  BY <1>2, AppendNew DEF Touched
<1>3. QED
  BY <1>1, <1>2

-----------------------------------------------------------------------------
(* What a step can do to the pool *)

Keeps ==
  /\ UNCHANGED <<free, buf>>
  /\ pinned' \in [Models -> BOOLEAN] /\ st' \in [Models -> MemoryStates]
  /\ \A m \in Models : /\ pinned[m] => pinned'[m]
                       /\ st'[m] \in Without => st[m] \in Without
Takes(m) == st[m] = "UNALLOCATED" /\ AllocatePinned(m)
PoolMove == Keeps \/ \E m \in Models : Takes(m) \/ ReleasePinned(m)

LEMMA NoBuffers == Range(<<>>) = {} /\ IsInjective(<<>>) /\ <<>> \in Seq(Chunks)
<1>1. <<>> \in Seq(Chunks) /\ DOMAIN <<>> = {}
  OBVIOUS
<1>2. QED
  BY <1>1 DEF Range, IsInjective

LEMMA KeepsPool ==
  ASSUME PoolInv, Keeps
  PROVE  PoolInv'
  BY DEF PoolInv, PoolTypes, Buffered, PoolPartition, Keeps

LEMMA TakesPool ==
  ASSUME PoolInv, NEW m \in Models, Takes(m)
  PROVE  PoolInv'
<1> USE StoreAssumption
<1> DEFINE n == Size[PathOf[m]]
<1>0. n \in Nat \ {0}
  OBVIOUS
<1>1. PICK s \in [1..n -> free] :
        /\ IsInjective(s)
        /\ buf' = [buf EXCEPT ![m] = s]
        /\ free' = free \ Range(s)
        /\ pinned' = [pinned EXCEPT ![m] = TRUE]
        /\ st' = [st EXCEPT ![m] = "ALLOCATED"]
  BY Zenon DEF Takes, AllocatePinned
<1>2. buf[m] = <<>>
  BY DEF PoolInv, Buffered, Takes, Without
<1> HIDE DEF n
<1>3. s \in [1..n -> Chunks] /\ s \in Seq(Chunks) /\ Range(s) \subseteq free
  <2>1. s \in [1..n -> Chunks]
    BY <1>1 DEF PoolInv, PoolTypes
  <2>2. Range(s) \subseteq free
    BY <1>1 DEF Range
  <2>3. s \in Seq(Chunks)
    BY <1>0, <2>1, FunctionIsSeq
  <2>4. QED
    BY <2>1, <2>2, <2>3
<1>4. PoolTypes'
  BY <1>1, <1>3 DEF PoolInv, PoolTypes, MemoryStates
<1>5. /\ buf'[m] = s /\ pinned'[m] /\ st'[m] = "ALLOCATED"
      /\ \A x \in Models \ {m} : /\ buf'[x] = buf[x]
                                 /\ pinned'[x] = pinned[x] /\ st'[x] = st[x]
  BY <1>1 DEF PoolInv, PoolTypes
<1>6. Buffered'
  <2> SUFFICES ASSUME NEW x \in Models
               PROVE  /\ IsBuffers(buf'[x], Size[PathOf[x]])
                      /\ buf'[x] # <<>> => pinned'[x]
                      /\ st'[x] \in Without => buf'[x] = <<>>
    BY DEF Buffered
  <2>1. CASE x = m
    BY <1>3, <1>5, <2>1 DEF IsBuffers, Without, n
  <2>2. CASE x # m
    BY <1>5, <2>2, Zenon DEF PoolInv, Buffered
  <2>3. QED
    BY <2>1, <2>2
<1>7. PoolPartition'
  <2>1. \A x \in Models : IsInjective(buf'[x])
    BY <1>1, <1>5 DEF PoolInv, PoolPartition
  <2>2. \A x \in Models : Range(buf'[x]) \cap free' = {}
    BY <1>1, <1>5 DEF PoolInv, PoolPartition
  <2>3. \A x \in Models : \A y \in Models \ {x} :
          Range(buf'[x]) \cap Range(buf'[y]) = {}
    BY <1>3, <1>5, Zenon DEF PoolInv, PoolPartition
  <2>4. Chunks = free' \cup UNION {Range(buf'[x]) : x \in Models}
    <3>1. Chunks = free \cup UNION {Range(buf[x]) : x \in Models \ {m}}
      BY <1>2, NoBuffers DEF PoolInv, PoolPartition
    <3>2. UNION {Range(buf'[x]) : x \in Models}
            = Range(s) \cup UNION {Range(buf[x]) : x \in Models \ {m}}
      BY <1>5
    <3>3. QED
      BY <1>1, <1>3, <3>1, <3>2, Zenon
  <2>5. QED
    BY <2>1, <2>2, <2>3, <2>4, Zenon DEF PoolPartition
<1>8. QED
  BY <1>4, <1>6, <1>7 DEF PoolInv

LEMMA GivesPool ==
  ASSUME PoolInv, NEW m \in Models, ReleasePinned(m)
  PROVE  PoolInv'
<1>1. /\ free' = free \cup Range(buf[m])
      /\ buf'[m] = <<>> /\ st'[m] = "UNALLOCATED"
      /\ \A x \in Models \ {m} : /\ buf'[x] = buf[x]
                                 /\ pinned'[x] = pinned[x] /\ st'[x] = st[x]
  BY DEF ReleasePinned, PoolInv, PoolTypes
<1>2. PoolTypes'
  <2>1. Range(buf[m]) \subseteq Chunks
    BY DEF PoolInv, PoolPartition
  <2>2. QED
    BY <2>1, NoBuffers DEF ReleasePinned, PoolInv, PoolTypes, MemoryStates
<1>3. Buffered'
  BY <1>1 DEF PoolInv, Buffered, IsBuffers
<1>4. PoolPartition'
  <2>1. \A x \in Models : IsInjective(buf'[x])
    BY <1>1, NoBuffers DEF PoolInv, PoolPartition
  <2>2. \A x \in Models : Range(buf'[x]) \cap free' = {}
    BY <1>1, NoBuffers DEF PoolInv, PoolPartition
  <2>3. \A x \in Models : \A y \in Models \ {x} :
          Range(buf'[x]) \cap Range(buf'[y]) = {}
    BY <1>1, NoBuffers DEF PoolInv, PoolPartition
  <2>4. Chunks = free' \cup UNION {Range(buf'[x]) : x \in Models}
    <3>1. UNION {Range(buf[x]) : x \in Models}
            = Range(buf[m]) \cup UNION {Range(buf'[x]) : x \in Models}
      BY <1>1, NoBuffers
    <3>2. QED
      BY <1>1, <3>1 DEF PoolInv, PoolPartition
  <2>5. QED
    BY <2>1, <2>2, <2>3, <2>4 DEF PoolPartition
<1>5. QED
  BY <1>2, <1>3, <1>4 DEF PoolInv

LEMMA PoolMoveKeepsPool ==
  ASSUME PoolInv, PoolMove
  PROVE  PoolInv'
  BY KeepsPool, TakesPool, GivesPool DEF PoolMove

-----------------------------------------------------------------------------
(* What most steps do: nothing that matters to the lock, to ClearMem or to   *)
(* who can reach a model                                                     *)

Evicting == {"evict", "realloc"}
HoldsKept ==
  /\ \A t \in Loads, m \in Models : Holds(t, m) => Holds(t, m)'
  /\ \A r \in Replicas, m \in Models : HoldsReplica(r, m) => HoldsReplica(r, m)'
Quiet ==
  /\ UNCHANGED <<reg, info, serv>> /\ freeing'[Server] = freeing[Server]
  /\ \A t \in Loads : load'[t].pc \in Evicting => load[t].pc \in Evicting
  /\ HoldsKept
  /\ Keeps \/ \E m \in Models : ReleasePinned(m)

Reachable == PoolInv /\ LockHeld /\ ClearPending /\ NoOrphanMemory

LEMMA NoneTaken ==
  ASSUME PoolInv, Keeps \/ \E m \in Models : ReleasePinned(m)
  PROVE  \A m \in Models : buf'[m] # <<>> => buf'[m] = buf[m]
  BY DEF PoolInv, PoolTypes, Keeps, ReleasePinned

LEMMA QuietKeeps ==
  ASSUME MapsInv, Reachable, Quiet
  PROVE  Reachable'
<1> USE StoreAssumption DEF Reachable
<1>1. PoolInv'
  BY PoolMoveKeepsPool DEF Quiet, PoolMove
<1>2. LockHeld'
  BY DEF Quiet, LockHeld, Evicting
<1>3. \A m \in Models : buf'[m] # <<>> => buf[m] # <<>>
  BY NoneTaken DEF Quiet
<1>4. ClearPending'
  <2>1. \A p \in Paths : reg[p] # None => reg[p] \in Models
    BY DEF MapsInv
  <2>2. QED
    BY <1>3, <2>1 DEF Quiet, ClearPending
<1>5. NoOrphanMemory'
  <2>1. \A m \in Models : Registered(m) => Registered(m)'
    BY DEF Registered, Quiet
  <2>2. QED
    BY <1>3, <2>1 DEF NoOrphanMemory, Quiet, HoldsKept
<1>6. QED
  BY <1>1, <1>2, <1>4, <1>5

-----------------------------------------------------------------------------
(* What a step leaves of the threads' references *)

TypesInv == References /\ WaitersInv /\ ContentsInv

LEMMA MapsFrame == ASSUME MapsInv, UNCHANGED <<reg, access, info>> PROVE MapsInv'
  BY DEF MapsInv
LEMMA LoadsFrame == ASSUME LoadsInv, UNCHANGED load PROVE LoadsInv'
  BY DEF LoadsInv
RepsKept ==
  /\ ReplicasInv'
  /\ \A r \in Replicas, m \in Models : HoldsReplica(r, m) => HoldsReplica(r, m)'
LEMMA ReplicasFrame == ASSUME ReplicasInv, UNCHANGED rep PROVE RepsKept
  BY DEF ReplicasInv, RepsKept, HoldsReplica
LEMMA FreesFrame == ASSUME FreesInv, UNCHANGED freeing PROVE FreesInv'
  BY DEF FreesInv
LEMMA ServerFrame == ASSUME ServerInv, UNCHANGED serv PROVE ServerInv'
  BY DEF ServerInv
LEMMA WaitersFrame == ASSUME WaitersInv, UNCHANGED <<waiting, woken>> PROVE WaitersInv'
  BY DEF WaitersInv
LEMMA ContentsFrame == ASSUME ContentsInv, UNCHANGED mem PROVE ContentsInv'
  BY DEF ContentsInv

\* A load that has its Model goes on and keeps it.
LoadMoves(t) ==
  /\ load' \in [Loads -> LoadRecords]
  /\ \A u \in Loads \ {t} : load'[u] = load[u]
  /\ load'[t].obj = load[t].obj
  /\ {load[t].pc, load'[t].pc} \cap Unbound = {} /\ load'[t].pc # "left"
  /\ load'[t].pc \in Working => load[t].pc \in Working
LEMMA LoadMovesKeeps ==
  ASSUME LoadsInv, NEW t \in Loads, LoadMoves(t)
  PROVE  /\ LoadsInv'
         /\ \A u \in Loads, m \in Models : Holds(u, m) => Holds(u, m)'
<1>1. LoadsInv'
  BY DEF LoadsInv, LoadMoves
<1>2. QED
  BY <1>1 DEF LoadMoves, Holds

LEMMA RecordMoves ==
  ASSUME LoadsInv, NEW t \in Loads, load[t].pc \in Working,
         NEW rec \in LoadRecords, load' = [load EXCEPT ![t] = rec],
         rec.obj = load[t].obj, rec.pc \notin Unbound, rec.pc # "left"
  PROVE  LoadMoves(t) /\ load'[t] = rec
  BY DEF LoadsInv, LoadMoves, Unbound, Working
LEMMA GotoMoves ==
  ASSUME LoadsInv, NEW t \in Loads, load[t].pc \in Working, NEW q \in LoadPcs,
         Goto(t, q), q \notin Unbound, q # "left"
  PROVE  LoadMoves(t) /\ load'[t].pc = q
<1> DEFINE rec == [load[t] EXCEPT !.pc = q]
<1>1. load[t] \in LoadRecords
  BY DEF LoadsInv
<1>2. rec \in LoadRecords /\ rec.pc = q /\ rec.obj = load[t].obj
  BY <1>1 DEF LoadRecords
<1>3. load' = [load EXCEPT ![t] = rec]
  BY DEF LoadsInv, Goto
<1> HIDE DEF rec
<1>4. QED
  BY <1>2, <1>3, RecordMoves, Zenon

\* FreeHost of c goes on.
FreeMoves(c) ==
  /\ freeing' \in [Loads \cup {Server} -> FreeRecords]
  /\ \A d \in (Loads \cup {Server}) \ {c} : freeing'[d] = freeing[d]
  /\ freeing'[c].pc \in Freeing => freeing'[c].obj # None
LEMMA FreeMovesKeeps ==
  ASSUME FreesInv, NEW c \in Loads \cup {Server}, FreeMoves(c)
  PROVE  FreesInv' /\ \A d \in (Loads \cup {Server}) \ {c} : freeing'[d] = freeing[d]
  BY DEF FreesInv, FreeMoves
LEMMA FreeRecordMoves ==
  ASSUME FreesInv, NEW c \in Loads \cup {Server}, NEW rec \in FreeRecords,
         freeing' = [freeing EXCEPT ![c] = rec], rec.pc \in Freeing => rec.obj # None
  PROVE  FreeMoves(c) /\ freeing'[c] = rec
  BY DEF FreesInv, FreeMoves

\* FreeHost of the model m begins, and is over.
LEMMA FreeBegins ==
  ASSUME FreesInv, NEW c \in Loads \cup {Server}, NEW m \in Models,
         freeing' = [freeing EXCEPT ![c].pc = "enter", ![c].obj = m]
  PROVE  FreeMoves(c) /\ freeing'[c].pc = "enter" /\ freeing'[c].obj = m
<1> USE StoreAssumption
<1> DEFINE rec == [freeing[c] EXCEPT !.pc = "enter", !.obj = m]
<1>1. freeing[c] \in FreeRecords
  BY DEF FreesInv
<1>2. rec \in FreeRecords /\ rec.pc = "enter" /\ rec.obj = m
  BY <1>1, Zenon DEF FreeRecords, FreePcs, Freeing
<1>3. freeing' = [freeing EXCEPT ![c] = rec]
  BY Zenon DEF FreesInv
<1> HIDE DEF rec
<1>4. QED
  BY <1>2, <1>3, FreeRecordMoves, Zenon
LEMMA FreeForgotten ==
  ASSUME FreesInv, NEW c \in Loads \cup {Server},
         freeing' = [freeing EXCEPT ![c] = NoFree]
  PROVE  FreeMoves(c) /\ freeing'[c] = NoFree
<1>1. NoFree \in FreeRecords /\ NoFree.pc \notin Freeing
  BY DEF NoFree, FreeRecords, FreePcs, Freeing
<1>2. QED
  BY <1>1, FreeRecordMoves, Zenon

\* FreeHost stays with its model, and ends only when that has no memory.
FreeGoesOn(c) ==
  /\ FreeMoves(c)
  /\ freeing'[c].obj = freeing[c].obj
  /\ freeing'[c].pc \in Freeing \/ buf'[freeing[c].obj] = <<>>

LEMMA FreeGoto ==
  ASSUME FreesInv, NEW c \in Loads \cup {Server}, freeing[c].pc \in Freeing,
         NEW q \in FreePcs, freeing' = [freeing EXCEPT ![c].pc = q]
  PROVE  FreeMoves(c) /\ freeing'[c].pc = q /\ freeing'[c].obj = freeing[c].obj
<1> DEFINE rec == [freeing[c] EXCEPT !.pc = q]
<1>1. freeing[c] \in FreeRecords /\ freeing[c].obj # None
  BY DEF FreesInv
<1>2. rec \in FreeRecords /\ rec.pc = q /\ rec.obj = freeing[c].obj
  BY <1>1 DEF FreeRecords
<1>3. freeing' = [freeing EXCEPT ![c] = rec]
  BY DEF FreesInv
<1> HIDE DEF rec
<1>4. QED
  BY <1>1, <1>2, <1>3, FreeRecordMoves, Zenon

LEMMA ScansGoOn ==
  ASSUME FreesInv, PoolInv, NEW c \in Loads \cup {Server}, freeing[c].pc \in Freeing,
         NEW replicas \in SUBSET Replicas, FreeHostScans(c, replicas)
  PROVE  /\ FreeGoesOn(c) \/ UNCHANGED freeing
         /\ Keeps \/ \E m \in Models : ReleasePinned(m)
<1> USE StoreAssumption
<1> DEFINE m == freeing[c].obj
<1>1. m \in Models /\ freeing[c] \in FreeRecords
  BY DEF FreesInv, FreeRecords
<1>2. UNCHANGED <<free, pinned, buf, st>> => Keeps
  BY DEF Keeps, PoolInv, PoolTypes
<1>3. CASE \E r \in replicas :
             /\ freeing' = [freeing EXCEPT ![c].pc = "replica", ![c].on = r,
                                           ![c].todo = replicas \ {r}]
             /\ UNCHANGED <<free, pinned, buf, st>>
  <2>1. PICK r \in replicas :
          freeing' = [freeing EXCEPT ![c].pc = "replica", ![c].on = r,
                                     ![c].todo = replicas \ {r}]
    BY <1>3, Zenon
  <2> DEFINE others == replicas \ {r}
             rec == [freeing[c] EXCEPT !.pc = "replica", !.on = r, !.todo = others]
  <2>2. freeing' = [freeing EXCEPT ![c] = rec]
    BY <2>1, Zenon DEF FreesInv
  <2>3. others \in SUBSET Replicas /\ r \in Replicas
    OBVIOUS
  <2> HIDE DEF others
  <2>4. rec \in FreeRecords /\ rec.pc = "replica" /\ rec.obj = m
    BY <1>1, <2>3, Zenon DEF FreeRecords, FreePcs, Freeing
  <2> HIDE DEF rec
  <2>5. FreeMoves(c) /\ freeing'[c] = rec
    <3>1. rec.obj # None
      BY <1>1, <2>4
    <3>2. QED
      BY <2>2, <2>4, <3>1, FreeRecordMoves, Zenon
  <2>6. QED
    BY <1>2, <1>3, <2>4, <2>5 DEF FreeGoesOn, Freeing
<1>4. CASE ReleasePinned(m) /\ freeing' = [freeing EXCEPT ![c].pc = "freed"]
  <2>1. FreeMoves(c) /\ freeing'[c].obj = m
    BY <1>4, FreeGoto, Zenon DEF FreePcs
  <2>2. buf'[m] = <<>>
    BY <1>1, <1>4 DEF ReleasePinned, PoolInv, PoolTypes
  <2>3. QED
    BY <1>1, <1>4, <2>1, <2>2 DEF FreeGoesOn
<1>5. QED
  BY <1>2, <1>3, <1>4, Zenon DEF FreeHostScans

LEMMA GotoFields ==
  ASSUME LoadsInv, NEW t \in Loads, NEW q, Goto(t, q)
  PROVE  /\ \A u \in Loads \ {t} : load'[u] = load[u]
         /\ load'[t].pc = q
         /\ load'[t].obj = load[t].obj /\ load'[t].read = load[t].read
         /\ load'[t].need = load[t].need /\ load'[t].todo = load[t].todo
         /\ load'[t].to = load[t].to
<1>1. load[t] \in LoadRecords
  BY DEF LoadsInv
<1>2. QED
  BY <1>1 DEF Goto, LoadsInv, LoadRecords

\* While model_info_mutex_ is free, no load evicts and ClearMem does not run.
LEMMA LockFree ==
  ASSUME LockHeld, info = None
  PROVE  serv.at # "clear" /\ \A t \in Loads : load[t].pc \notin Evicting
  BY StoreAssumption DEF LockHeld, Evicting
=============================================================================
