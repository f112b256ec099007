-------------------------- MODULE CheckpointStore --------------------------
(***************************************************************************)
(* The checkpoint store of sllm_store: checkpoint_store.cpp, model.cpp,    *)
(* pinned_memory.cpp, pinned_memory_pool.cpp, concurrent_vector.h and      *)
(* concurrent_queue.h of csrc/sllm_store, and the gRPC servicer server.py. *)
(*                                                                         *)
(* The servicer runs on one asyncio thread and its calls into the store do *)
(* not release the interpreter: a call that blocks holds up every RPC.  The*)
(* loads it starts are std::async threads; they interleave with the server *)
(* thread and with each other between critical sections.  A section under  *)
(* Model::mutex_ is one step.  model_info_mutex_ is held across steps: it  *)
(* is the variable info.  A thread waiting on Model::cv_ goes on when it   *)
(* was notified, or spuriously, and its condition holds; every change that *)
(* ends a wait on a replica's cv_ is followed by a notify_all under the    *)
(* same lock, so those waits are guards.                                   *)
(*                                                                         *)
(* Sizes count chunks of the pinned memory pool.                           *)
(***************************************************************************)
EXTENDS Integers, Sequences, FiniteSets, Functions

CONSTANTS
  Paths,         \* model paths
  Models,        \* Model objects: a path registered again gets a new object
  PathOf,        \* the path of an object
  Size,          \* chunks of the model at a path
  Chunks,        \* the buffers of the pinned memory pool
  Loads,         \* LoadModelAsync requests for the host
  LoadPath,
  Replicas,      \* LoadModelAsync requests for GPUs, one replica_uuid each
  ReplicaPath,
  Devices,       \* the GPUs a replica is spread over
  ChunksPerThread, \* chunk_per_thread: the stretch one I/O thread reads
  Tries,         \* attempts of ConfirmModel and UnloadModel, 5 in the code
  Unloads,       \* paths the clients may unload
  Clears,        \* clients may call ClearMem
  ReadErrors,    \* opening or reading a tensor file may fail
  CopyErrors,    \* selecting a GPU or copying to it may fail
  HostFirst,     \* clients ask for a GPU load once the host load has started
  RegistrationRequired,
  Server, None

ASSUME StoreAssumption ==
  /\ PathOf \in [Models -> Paths]
  /\ Size \in [Paths -> Nat \ {0}]
  /\ IsFiniteSet(Chunks)
  /\ LoadPath \in [Loads -> Paths]
  /\ ReplicaPath \in [Replicas -> Paths]
  /\ ChunksPerThread \in Nat \ {0}
  /\ Tries \in Nat \ {0}
  /\ Unloads \subseteq Paths
  /\ {Clears, ReadErrors, CopyErrors, HostFirst, RegistrationRequired}
       \subseteq BOOLEAN
  /\ None \notin Models \cup Loads \cup Replicas \cup Paths \cup {Server}
  /\ Server \notin Loads

VARIABLES
  reg,      \* model_map_
  access,   \* keys of model_last_access_time_, least recent first
  info,     \* holder of model_info_mutex_, or None
  free,     \* free_list_ of the pool
  mem,      \* what each buffer holds: chunk k of a path
  st,       \* state_ of a Model
  pinned,   \* its pinned_mem_ is set
  buf,      \* the buffers of its pinned_mem_
  host,     \* its host_ptr_vector_: the chunks enqueued so far, or None
  waiting,  \* who waits on its cv_
  woken,    \* those of them that were notified
  load,     \* the LoadModelFromDisk threads
  rep,      \* the LoadModelFromMem threads and their GpuReplica
  freeing,  \* FreeHost calls in progress, by caller
  rpc,      \* ConfirmModel and UnloadModel requests
  serv,     \* what the server thread is blocked in
  dead      \* the process is gone

store == <<reg, access, info>>
pool == <<free, mem, pinned, buf>>
sync == <<waiting, woken>>
server == <<rpc, serv>>
vars == <<store, pool, st, host, sync, load, rep, freeing, server, dead>>

NoLoad == [pc |-> "new", obj |-> None, need |-> 0, todo |-> <<>>, to |-> <<>>,
           read |-> {}, failed |-> {}, rest |-> {}, on |-> None]
NoDevice == [pc |-> "start", from |-> <<>>, pos |-> 0]
NoReplica == [pc |-> "new", obj |-> None, st |-> "ABSENT", disp |-> "start",
              out |-> <<>>, dev |-> [d \in Devices |-> NoDevice], good |-> {}]
NoFree == [pc |-> "no", obj |-> None, todo |-> {}, on |-> None]
NoRpc == [pc |-> "none", left |-> 0]
Idle == [at |-> "idle", arg |-> None, obj |-> None, todo |-> {}]

Init ==
  /\ reg = [p \in Paths |-> None]
  /\ access = <<>>
  /\ info = None
  /\ free = Chunks
  /\ mem = [c \in Chunks |-> <<None, 0>>]
  /\ st = [m \in Models |-> "UNINITIALIZED"]
  /\ pinned = [m \in Models |-> FALSE]
  /\ buf = [m \in Models |-> <<>>]
  /\ host = [m \in Models |-> None]
  /\ waiting = [m \in Models |-> {}]
  /\ woken = [m \in Models |-> {}]
  /\ load = [t \in Loads |-> NoLoad]
  /\ rep = [r \in Replicas |-> NoReplica]
  /\ freeing = [c \in Loads \cup {Server} |-> NoFree]
  /\ rpc = [x \in Replicas \cup Unloads |-> NoRpc]
  /\ serv = Idle
  /\ dead = FALSE

-----------------------------------------------------------------------------
(* Helpers *)

IndexOf(s, x) == CHOOSE k \in DOMAIN s : s[k] = x
Removed(s, k) == SubSeq(s, 1, k - 1) \o SubSeq(s, k + 1, Len(s))

\* Faulty variant: a path that is touched again keeps its old place too.
TouchedTwice(p) == Append(access, p)
Touched(p) ==
  Append(IF p \in Range(access) THEN Removed(access, IndexOf(access, p))
                                ELSE access, p)

\* gpu_replicas_ of an object.
ReplicasOf(m) == {r \in Replicas : rep[r].obj = m /\ rep[r].st # "ABSENT"}

LoadingReplicas(m) == {r \in ReplicasOf(m) : rep[r].st = "LOADING"}

\* A wait on a replica's cv_ is over; on one that FreeGpu erased meanwhile, the
\* waiter holds a dangling reference and may go on or crash.
Settled(r) == rep[r].st \in {"LOADED", "INTERRUPTED", "ABSENT"}

\* PinnedMemoryPool::Allocate when the pool has enough buffers.
AllocatePinned(m) ==
  LET n == Size[PathOf[m]]
  IN  \E s \in [1..n -> free] :
        /\ IsInjective(s)
        /\ buf' = [buf EXCEPT ![m] = s]
        /\ free' = free \ Range(s)
        /\ pinned' = [pinned EXCEPT ![m] = TRUE]
        /\ st' = [st EXCEPT ![m] = "ALLOCATED"]

\* Faulty variant: the buffers go back, and the model still has them.
KeepsBuffers(m) ==
  /\ free' = free \cup Range(buf[m])
  /\ st' = [st EXCEPT ![m] = "UNALLOCATED"]
  /\ UNCHANGED <<buf, pinned>>

\* pinned_mem_.reset(): ~PinnedMemory gives the buffers back.
ReleasePinned(m) ==
  /\ free' = free \cup Range(buf[m])
  /\ buf' = [buf EXCEPT ![m] = <<>>]
  /\ pinned' = [pinned EXCEPT ![m] = FALSE]
  /\ st' = [st EXCEPT ![m] = "UNALLOCATED"]

\* Dereferencing a null pointer ends the process.
Crash ==
  /\ dead' = TRUE
  /\ UNCHANGED <<store, pool, st, host, sync, load, rep, freeing, server>>

Goto(t, pc) == load' = [load EXCEPT ![t].pc = pc]

-----------------------------------------------------------------------------
(* LoadModelFromDisk, one thread per request *)

LoadLooksUp(t) ==
  /\ load[t].pc = "lookup" /\ info = None
  /\ LET m == reg[LoadPath[t]]
     IN  load' = [load EXCEPT ![t].obj = m,
                              ![t].pc = IF m = None THEN "failed" ELSE "alloc"]
  /\ UNCHANGED <<store, pool, st, host, sync, rep, freeing, server, dead>>

\* AllocatePinnedMemory under model_info_mutex_: the memory is there already,
\* or the pool has it, or least recently used models must go first.
LoadAllocates(t) ==
  /\ load[t].pc = "alloc" /\ info = None
  /\ LET m == load[t].obj
         n == Size[LoadPath[t]]
     IN  \/ /\ st[m] # "UNALLOCATED"
            /\ Goto(t, "tohost")
            /\ access' = Touched(LoadPath[t])
            /\ UNCHANGED <<pool, st, info>>
         \/ /\ st[m] = "UNALLOCATED" /\ Cardinality(free) >= n
            /\ AllocatePinned(m)
            /\ Goto(t, "tohost")
            /\ access' = Touched(LoadPath[t])
            /\ UNCHANGED <<mem, info>>
         \/ /\ st[m] = "UNALLOCATED" /\ Cardinality(free) < n
            /\ load' = [load EXCEPT ![t].pc = "evict", ![t].todo = access,
                                    ![t].need = n - Cardinality(free)]
            /\ info' = t
            /\ pinned' = [pinned EXCEPT ![m] = TRUE]
            /\ UNCHANGED <<free, mem, buf, st, access>>
  /\ UNCHANGED <<reg, host, sync, rep, freeing, server, dead>>

\* TryFreeHost gives the memory of v back, without waiting.
\* Faulty variant: also of a model that has none.
EvictsUnallocated(v) == st[v] # "LOADING" /\ LoadingReplicas(v) = {}
Evictable(v) ==
  st[v] \notin {"UNALLOCATED", "LOADING"} /\ LoadingReplicas(v) = {}

\* Faulty variant: a model that could not be freed counts.
CountsRefused(v) == Len(buf[v])
FreedBy(v) == IF Evictable(v) THEN Len(buf[v]) ELSE 0

\* One round of the eviction loop: TryFreeHost of the next model.
LoadEvicts(t) ==
  /\ load[t].pc = "evict" /\ load[t].todo # <<>>
  /\ LET v == reg[Head(load[t].todo)]
         left == load[t].need - FreedBy(v)
     IN  /\ v # None
         /\ \/ Evictable(v) /\ pinned[v] /\ ReleasePinned(v)
            \/ ~Evictable(v) /\ UNCHANGED <<free, pinned, buf, st>>
         /\ load' = [load EXCEPT ![t].todo = Tail(@), ![t].need = left,
                       ![t].pc = IF left <= 0 THEN "realloc" ELSE "evict"]
  /\ UNCHANGED <<store, mem, host, sync, rep, freeing, server, dead>>

\* model_map_[path] of a path ClearMem dropped is a null pointer, and so may be
\* the pinned_mem_ of a model that is not UNALLOCATED.
LoadEvictsNull(t) ==
  /\ load[t].pc = "evict" /\ load[t].todo # <<>>
  /\ LET v == reg[Head(load[t].todo)]
     IN  v # None => Evictable(v) /\ ~pinned[v]
  /\ Crash

LoadGivesUp(t) ==
  /\ load[t].pc = "evict" /\ load[t].todo = <<>>
  /\ Goto(t, "failed")
  /\ info' = None
  /\ UNCHANGED <<reg, access, pool, st, host, sync, rep, freeing, server, dead>>

\* The second AllocatePinnedMemory: its "not enough" result is not looked at.
LoadReallocates(t) ==
  /\ load[t].pc = "realloc"
  /\ LET m == load[t].obj
     IN  \/ /\ st[m] = "UNALLOCATED"
            /\ Cardinality(free) >= Size[LoadPath[t]]
            /\ AllocatePinned(m)
         \/ /\ \/ st[m] # "UNALLOCATED"
               \/ Cardinality(free) < Size[LoadPath[t]]
            /\ UNCHANGED <<free, pinned, buf, st>>
  /\ Goto(t, "tohost")
  /\ access' = Touched(LoadPath[t])
  /\ info' = None
  /\ UNCHANGED <<reg, mem, host, sync, rep, freeing, server, dead>>

-----------------------------------------------------------------------------
(* Model::ToHost *)

ToHost(t) ==
  /\ load[t].pc = "tohost"
  /\ LET m == load[t].obj
     IN  \/ /\ st[m] = "ALLOCATED"
            /\ st' = [st EXCEPT ![m] = "LOADING"]
            /\ host' = [host EXCEPT ![m] = <<>>]
            /\ load' = [load EXCEPT ![t].pc = "reading", ![t].to = buf[m]]
            /\ UNCHANGED freeing
         \/ /\ st[m] \in {"LOADING", "LOADED"}
            /\ Goto(t, "done")
            /\ UNCHANGED <<st, host, freeing>>
         \/ /\ st[m] \notin {"LOADING", "LOADED"}
            /\ st[m] = "ALLOCATED" => ReadErrors
            /\ Goto(t, "freehost")
            /\ freeing' = [freeing EXCEPT ![t].pc = "enter", ![t].obj = m]
            /\ UNCHANGED <<st, host>>
  /\ UNCHANGED <<store, pool, sync, rep, server, dead>>

\* The chunks before k that the same I/O thread reads.
Before(k) == {j \in 1..k-1 : (j-1) \div ChunksPerThread
                                = (k-1) \div ChunksPerThread}

\* Faulty variant: the last chunk is forgotten.
UnreadButLast(t) == (1..Size[LoadPath[t]]-1) \ (load[t].read \cup load[t].failed)
Unread(t) ==
  {k \in 1..Size[LoadPath[t]] :
     /\ k \notin load[t].read \cup load[t].failed
     /\ Before(k) \cap load[t].failed = {}}

ToHostReads(t, k) ==
  /\ load[t].pc = "reading"
  /\ k \in Unread(t) /\ Before(k) \subseteq load[t].read
  /\ mem' = [mem EXCEPT ![load[t].to[k]] = <<LoadPath[t], k>>]
  /\ host' = [host EXCEPT ![load[t].obj] =
                 IF k \in Range(@) THEN @ ELSE Append(@, k)]
  /\ load' = [load EXCEPT ![t].read = @ \cup {k}]
  /\ UNCHANGED <<store, free, pinned, buf, st, sync, rep, freeing, server, dead>>

ToHostReadFails(t, k) ==
  /\ ReadErrors /\ load[t].pc = "reading"
  /\ k \in Unread(t) /\ Before(k) \subseteq load[t].read
  /\ load' = [load EXCEPT ![t].failed = @ \cup {k}]
  /\ UNCHANGED <<store, pool, st, host, sync, rep, freeing, server, dead>>

\* All I/O threads have returned without error: nobody is notified.
ToHostLoaded(t) ==
  /\ load[t].pc = "reading" /\ Unread(t) = {} /\ load[t].failed = {}
  /\ st' = [st EXCEPT ![load[t].obj] = "LOADED"]
  /\ Goto(t, "done")
  /\ UNCHANGED <<store, pool, host, sync, rep, freeing, server, dead>>

\* An I/O thread failed: cancel and wait for one GPU replica after the other.
\* replicas is what is left of the iteration over gpu_replicas_.
ToHostAbandons(t, replicas) ==
  LET m == load[t].obj
      waits == {r \in replicas : rep[r].st \in {"LOADING", "CANCELLED"}}
  IN  \/ \E r \in waits :
            /\ rep' = [rep EXCEPT ![r].st = "CANCELLED"]
            /\ load' = [load EXCEPT ![t].pc = "abandon", ![t].on = r,
                                    ![t].rest = replicas \ {r}]
            /\ st' = IF load[t].pc = "reading"
                       THEN [st EXCEPT ![m] = "INTERRUPTED"] ELSE st
            /\ UNCHANGED <<free, pinned, buf, freeing>>
      \/ /\ waits = {}
         /\ ReleasePinned(m)
         /\ Goto(t, "freehost")
         /\ freeing' = [freeing EXCEPT ![t].pc = "enter", ![t].obj = m]
         /\ UNCHANGED rep

ToHostFails(t) ==
  /\ load[t].pc = "reading" /\ Unread(t) = {} /\ load[t].failed # {}
  /\ ToHostAbandons(t, ReplicasOf(load[t].obj))
  /\ UNCHANGED <<store, mem, host, sync, server, dead>>

ToHostAbandonsNext(t) ==
  /\ load[t].pc = "abandon" /\ Settled(load[t].on)
  /\ \E more \in SUBSET ReplicasOf(load[t].obj) :
       ToHostAbandons(t, (load[t].rest \cap ReplicasOf(load[t].obj)) \cup more)
  /\ UNCHANGED <<store, mem, host, sync, server, dead>>

LoadEnds(t) ==
  /\ load[t].pc = "freehost" /\ freeing[t].pc \in {"freed", "refused"}
  /\ freeing' = [freeing EXCEPT ![t] = NoFree]
  /\ Goto(t, "failed")
  /\ UNCHANGED <<store, pool, st, host, sync, rep, server, dead>>

-----------------------------------------------------------------------------
(* Model::FreeHost, called by a failed load, UnloadModel or ClearMem *)

\* The end of FreeHost, with the lock held: wait for the next replica that is
\* loading, or give the memory back; pinned_mem_ may be gone by then.
FreeHostScans(c, replicas) ==
  LET m == freeing[c].obj
      loading == {r \in replicas : rep[r].st = "LOADING"}
  IN  \/ \E r \in loading :
            /\ freeing' = [freeing EXCEPT ![c].pc = "replica", ![c].on = r,
                                          ![c].todo = replicas \ {r}]
            /\ UNCHANGED <<free, pinned, buf, st, dead>>
      \/ /\ loading = {} /\ pinned[m]
         /\ ReleasePinned(m)
         /\ freeing' = [freeing EXCEPT ![c].pc = "freed"]
         /\ UNCHANGED dead
      \/ /\ loading = {} /\ ~pinned[m]
         /\ dead' = TRUE
         /\ UNCHANGED <<free, pinned, buf, st, freeing>>

\* FreeHost waits for a load in progress.
\* Faulty variant: also for a model that is not being loaded at all.
AwaitsUnallocated(m) == st[m] \in {"UNALLOCATED", "LOADING"}
AwaitsHost(m) == st[m] = "LOADING"

FreeHostEnters(c) ==
  /\ freeing[c].pc = "enter"
  /\ LET m == freeing[c].obj
     IN  \/ /\ st[m] = "UNALLOCATED"
            /\ freeing' = [freeing EXCEPT ![c].pc = "refused"]
            /\ UNCHANGED <<free, pinned, buf, st, waiting, dead>>
         \/ /\ AwaitsHost(m)
            /\ freeing' = [freeing EXCEPT ![c].pc = "host"]
            /\ waiting' = [waiting EXCEPT ![m] = @ \cup {c}]
            /\ UNCHANGED <<free, pinned, buf, st, dead>>
         \/ /\ st[m] # "UNALLOCATED" /\ ~AwaitsHost(m)
            /\ FreeHostScans(c, ReplicasOf(m))
            /\ UNCHANGED waiting
  /\ UNCHANGED <<store, mem, host, woken, load, rep, server>>

HostSettled(m) == st[m] \in {"LOADED", "INTERRUPTED"}
StopsWaiting(c, m) ==
  /\ waiting' = [waiting EXCEPT ![m] = @ \ {c}]
  /\ woken' = [woken EXCEPT ![m] = @ \ {c}]

\* The waiter was notified, or woke up spuriously.
FreeHostWakes(c) ==
  /\ freeing[c].pc = "host" /\ HostSettled(freeing[c].obj)
  /\ FreeHostScans(c, ReplicasOf(freeing[c].obj))
  /\ StopsWaiting(c, freeing[c].obj)
  /\ UNCHANGED <<store, mem, host, load, rep, server>>

FreeHostWaitsAgain(c) ==
  /\ freeing[c].pc = "host" /\ ~HostSettled(freeing[c].obj)
  /\ c \in woken[freeing[c].obj]
  /\ woken' = [woken EXCEPT ![freeing[c].obj] = @ \ {c}]
  /\ UNCHANGED <<store, pool, st, host, waiting, load, rep, freeing, server,
                 dead>>

\* The iteration may or may not meet replicas added during the wait.
FreeHostGoesOn(c) ==
  /\ freeing[c].pc = "replica" /\ Settled(freeing[c].on)
  /\ \E more \in SUBSET ReplicasOf(freeing[c].obj) :
       FreeHostScans(c, (freeing[c].todo \cap ReplicasOf(freeing[c].obj)) \cup more)
  /\ UNCHANGED <<store, mem, host, sync, load, rep, server>>

-----------------------------------------------------------------------------
(* LoadModelFromMem and Model::ToGpu, one thread per request, with a         *)
(* dispatcher and one copy thread per device                                *)

ReplicaLooksUp(r) ==
  /\ rep[r].pc = "lookup" /\ info = None
  /\ LET p == ReplicaPath[r]
     IN  /\ rep' = [rep EXCEPT ![r].obj = reg[p],
                       ![r].pc = IF reg[p] = None THEN "failed" ELSE "togpu"]
         /\ access' = IF reg[p] = None THEN access ELSE Touched(p)
  /\ UNCHANGED <<reg, info, pool, st, host, sync, load, freeing, server, dead>>

\* The replica enters gpu_replicas_ whatever the state of the host memory is,
\* and the waiters of cv_ are notified.  A replica_uuid is requested once.
ToGpu(r) ==
  /\ rep[r].pc = "togpu"
  /\ rep' = [rep EXCEPT ![r].st = "LOADING", ![r].pc = "running"]
  /\ woken' = [woken EXCEPT ![rep[r].obj] = waiting[rep[r].obj]]
  /\ UNCHANGED <<store, pool, st, host, waiting, load, freeing, server, dead>>

\* DispatchToGpu reads pinned_mem_ without the lock, and reads it again to map the
\* data to chunks, before it turns to host_ptr_vector_.
DispatchStarts(r) ==
  /\ rep[r].pc = "running" /\ rep[r].disp = "start"
  /\ LET m == rep[r].obj
     IN  \/ /\ buf[m] # <<>>
            /\ rep' = [rep EXCEPT ![r].disp = "mapping"]
            /\ UNCHANGED <<store, pool, st, host, sync, load, freeing, server,
                           dead>>
         \/ buf[m] = <<>> /\ Crash

DispatchMaps(r) ==
  /\ rep[r].disp = "mapping"
  /\ LET m == rep[r].obj
     IN  \/ /\ host[m] # None
            /\ rep' = [rep EXCEPT ![r].disp = "going"]
            /\ UNCHANGED <<store, pool, st, host, sync, load, freeing, server,
                           dead>>
         \/ (buf[m] = <<>> \/ host[m] = None) /\ Crash

\* dequeue(i) blocks until the vector has more than i entries.  Every chunk goes
\* to the queue of every device: out stands for all of them.
DispatchSends(r) ==
  /\ rep[r].disp = "going"
  /\ LET i == Len(rep[r].out) + 1
         m == rep[r].obj
     IN  \/ /\ i \in DOMAIN host[m]
            /\ rep' = [rep EXCEPT ![r].out = Append(@, host[m][i])]
         \/ /\ i > Size[ReplicaPath[r]]
            /\ rep' = [rep EXCEPT ![r].disp = "ended"]
  /\ UNCHANGED <<store, pool, st, host, sync, load, freeing, server, dead>>

SetDevice(r, d, v) == rep' = [rep EXCEPT ![r].dev[d] = v]

\* A copy thread looks at pinned_mem_, again without the lock, selects its GPU and
\* then takes a reference to the buffers.
CopyStarts(r, d) ==
  /\ rep[r].pc = "running" /\ rep[r].dev[d].pc = "start"
  /\ SetDevice(r, d, [NoDevice EXCEPT
       !.pc = IF buf[rep[r].obj] = <<>> THEN "failed" ELSE "checked"])
  /\ UNCHANGED <<store, pool, st, host, sync, load, freeing, server, dead>>

CopyTakesBuffers(r, d) ==
  /\ rep[r].dev[d].pc = "checked"
  /\ LET bs == buf[rep[r].obj]
     IN  \/ /\ bs # <<>>
            /\ SetDevice(r, d, [NoDevice EXCEPT !.pc = "copying", !.from = bs])
            /\ UNCHANGED <<store, pool, st, host, sync, load, freeing, server,
                           dead>>
         \/ bs = <<>> /\ Crash

\* Dequeue the next chunk and copy it, unless the replica was cancelled.  Buffers
\* that were given back meanwhile are read all the same, or see DanglingBuffers.
Copies(r, d) ==
  /\ rep[r].dev[d].pc = "copying" /\ rep[r].dev[d].pos < Len(rep[r].out)
  /\ LET v == rep[r].dev[d]
         k == rep[r].out[v.pos + 1]
     IN  IF rep[r].st = "CANCELLED"
           THEN SetDevice(r, d, [v EXCEPT !.pc = "ok"])
           ELSE rep' = [rep EXCEPT
                  ![r].dev[d].pos = v.pos + 1,
                  ![r].good = IF mem[v.from[k]] = <<ReplicaPath[r], k>>
                                THEN @ \cup {<<d, k>>} ELSE @]
  /\ UNCHANGED <<store, pool, st, host, sync, load, freeing, server, dead>>

CopyFails(r, d) ==
  /\ CopyErrors
  /\ \/ rep[r].dev[d].pc = "checked"
     \/ rep[r].dev[d].pc = "copying" /\ rep[r].dev[d].pos < Len(rep[r].out)
  /\ SetDevice(r, d, [rep[r].dev[d] EXCEPT !.pc = "failed"])
  /\ UNCHANGED <<store, pool, st, host, sync, load, freeing, server, dead>>

\* The empty batch that ends the queue.
CopyEnds(r, d) ==
  /\ rep[r].dev[d].pc = "copying" /\ rep[r].disp = "ended"
  /\ rep[r].dev[d].pos = Len(rep[r].out)
  /\ SetDevice(r, d, [rep[r].dev[d] EXCEPT !.pc = "ok"])
  /\ UNCHANGED <<store, pool, st, host, sync, load, freeing, server, dead>>

\* Faulty variant: the results of the copy threads are dropped.
IgnoresErrors(r) == FALSE
CopyFailed(r) == \E d \in Devices : rep[r].dev[d].pc = "failed"

\* The dispatcher and the copy threads have returned.
ToGpuEnds(r) ==
  /\ rep[r].pc = "running" /\ rep[r].disp = "ended"
  /\ \A d \in Devices : rep[r].dev[d].pc \in {"ok", "failed"}
  /\ rep' = IF CopyFailed(r)
               THEN [rep EXCEPT ![r].st = "INTERRUPTED", ![r].pc = "freegpu"]
               ELSE [rep EXCEPT ![r].st = "LOADED", ![r].pc = "done"]
  /\ UNCHANGED <<store, pool, st, host, sync, load, freeing, server, dead>>

FreeGpu(r) ==
  /\ rep[r].pc = "freegpu"
  /\ rep' = [rep EXCEPT ![r].st = "ABSENT", ![r].pc = "failed"]
  /\ UNCHANGED <<store, pool, st, host, sync, load, freeing, server, dead>>

-----------------------------------------------------------------------------
(* The threads return and drop their shared_ptr<Model> *)

Holds(t, m) == load[t].obj = m /\ load[t].pc # "left"
HoldsReplica(r, m) == rep[r].obj = m /\ rep[r].pc # "left"
Registered(m) == \E p \in Paths : reg[p] = m

\* Faulty variant: a reference cycle keeps the Model.
NeverDestroyed(m, last) == UNCHANGED <<free, buf, pinned, st>>

\* The last reference to a Model destroys it, and its pinned_mem_ with it.
Drops(m, last) ==
  IF m # None /\ ~Registered(m) /\ last THEN ReleasePinned(m)
                                        ELSE UNCHANGED <<free, buf, pinned, st>>

LoadReturns(t) ==
  /\ load[t].pc \in {"done", "failed"}
  /\ Goto(t, "left")
  /\ LET m == load[t].obj
     IN  Drops(m, /\ \A u \in Loads \ {t} : ~Holds(u, m)
                  /\ \A r \in Replicas : ~HoldsReplica(r, m))
  /\ UNCHANGED <<store, mem, host, sync, rep, freeing, server, dead>>

ReplicaReturns(r) ==
  /\ rep[r].pc \in {"done", "failed"}
  /\ rep' = [rep EXCEPT ![r].pc = "left"]
  /\ LET m == rep[r].obj
     IN  Drops(m, /\ \A t \in Loads : ~Holds(t, m)
                  /\ \A q \in Replicas \ {r} : ~HoldsReplica(q, m))
  /\ UNCHANGED <<store, mem, host, sync, load, freeing, server, dead>>

-----------------------------------------------------------------------------
(* The servicer: one thread, and the requests of its clients *)

Ready == serv = Idle /\ info = None

\* RegisterModelInfo.  A path that is registered stays as it is; one that is not,
\* or that ClearMem dropped, gets a new object, and those that are left bound how
\* often.  If Initialize fails the call is refused and nothing changes.
Register(p) ==
  IF reg[p] # None THEN UNCHANGED <<reg, st>>
  ELSE \E m \in Models : /\ PathOf[m] = p /\ st[m] = "UNINITIALIZED"
                         /\ reg' = [reg EXCEPT ![p] = m]
                         /\ st' = [st EXCEPT ![m] = "UNALLOCATED"]
MayRegister(p) ==
  IF RegistrationRequired THEN UNCHANGED <<reg, st>> ELSE Register(p)

RegisterModel(p) ==
  /\ Ready
  /\ Register(p)
  /\ UNCHANGED <<access, info, pool, host, sync, load, rep, freeing, server, dead>>

LoadModelAsyncToHost(t) ==
  /\ Ready /\ load[t].pc = "new"
  /\ MayRegister(LoadPath[t])
  /\ Goto(t, "lookup")
  /\ UNCHANGED <<access, info, pool, host, sync, rep, freeing, server, dead>>

HostStarted(p) == reg[p] # None /\ st[reg[p]] \in {"LOADING", "LOADED"}

LoadModelAsyncToGpu(r) ==
  /\ Ready /\ rep[r].pc = "new"
  /\ HostFirst => HostStarted(ReplicaPath[r])
  /\ MayRegister(ReplicaPath[r])
  /\ rep' = [rep EXCEPT ![r].pc = "lookup"]
  /\ UNCHANGED <<access, info, pool, host, sync, load, freeing, server, dead>>

\* A client sends ConfirmModel after its LoadModelAsync, or UnloadModel.
Asked(x) == x \in Replicas => rep[x].pc # "new"
Ask(x) ==
  /\ rpc[x].pc = "none" /\ Asked(x)
  /\ rpc' = [rpc EXCEPT ![x] = [pc |-> "trying", left |-> Tries]]
  /\ UNCHANGED <<store, pool, st, host, sync, load, rep, freeing, serv, dead>>

\* An attempt failed: sleep and try again, or give up.
TryAgain(x) ==
  rpc' = [rpc EXCEPT ![x] = [pc |-> IF @.left = 1 THEN "failed" ELSE "trying",
                             left |-> @.left - 1]]
Answer(x) == rpc' = [rpc EXCEPT ![x].pc = "ok"]

\* WaitModelInGpu up to the wait for the replica to be there.
ConfirmModel(r) ==
  /\ Ready /\ rpc[r].pc = "trying"
  /\ LET m == reg[ReplicaPath[r]]
     IN  IF m = None
           THEN TryAgain(r) /\ UNCHANGED serv
           ELSE /\ serv' = [Idle EXCEPT !.at = "confirm", !.arg = r, !.obj = m]
                /\ UNCHANGED rpc
  /\ UNCHANGED <<store, pool, st, host, sync, load, rep, freeing, dead>>

\* CANCELLED is between LOADED and INTERRUPTED in the order of the states.
WaitInGpuFinds ==
  /\ serv.at = "confirm" /\ serv.arg \in ReplicasOf(serv.obj)
  /\ LET r == serv.arg
     IN  \/ /\ rep[r].st = "LOADING"
            /\ serv' = [serv EXCEPT !.at = "loading"]
            /\ UNCHANGED rpc
         \/ /\ rep[r].st \in {"LOADED", "CANCELLED"}
            /\ Answer(r) /\ serv' = Idle
         \/ /\ rep[r].st = "INTERRUPTED"
            /\ TryAgain(r) /\ serv' = Idle
  /\ UNCHANGED <<store, pool, st, host, sync, load, rep, freeing, dead>>

WaitInGpuEnds ==
  /\ serv.at = "loading" /\ Settled(serv.arg)
  /\ serv' = Idle
  /\ IF rep[serv.arg].st = "LOADED" THEN Answer(serv.arg) ELSE TryAgain(serv.arg)
  /\ UNCHANGED <<store, pool, st, host, sync, load, rep, freeing, dead>>

UnloadModel(p) ==
  /\ Ready /\ rpc[p].pc = "trying"
  /\ IF reg[p] = None
       THEN TryAgain(p) /\ UNCHANGED <<serv, freeing>>
       ELSE /\ serv' = [Idle EXCEPT !.at = "unload", !.arg = p]
            /\ freeing' = [freeing EXCEPT ![Server].pc = "enter",
                                          ![Server].obj = reg[p]]
            /\ UNCHANGED rpc
  /\ UNCHANGED <<store, pool, st, host, sync, load, rep, dead>>

UnloadReturns ==
  /\ serv.at = "unload" /\ freeing[Server].pc \in {"freed", "refused"}
  /\ IF freeing[Server].pc = "freed" THEN Answer(serv.arg) ELSE TryAgain(serv.arg)
  /\ serv' = Idle
  /\ freeing' = [freeing EXCEPT ![Server] = NoFree]
  /\ UNCHANGED <<store, pool, st, host, sync, load, rep, dead>>

\* ClearMem frees one model after the other and holds model_info_mutex_ all along.
ClearMem ==
  /\ Ready /\ Clears
  /\ info' = Server
  /\ serv' = [Idle EXCEPT !.at = "clear",
                          !.todo = {reg[p] : p \in Paths} \ {None}]
  /\ UNCHANGED <<reg, access, pool, st, host, sync, load, rep, freeing, rpc, dead>>

ClearMemFrees ==
  /\ serv.at = "clear" /\ freeing[Server].pc \in {"no", "freed", "refused"}
  /\ \E m \in serv.todo :
       /\ serv' = [serv EXCEPT !.todo = @ \ {m}]
       /\ freeing' = [freeing EXCEPT ![Server] =
                        [NoFree EXCEPT !.pc = "enter", !.obj = m]]
  /\ UNCHANGED <<store, pool, st, host, sync, load, rep, rpc, dead>>

\* model_map_.clear(); model_last_access_time_ keeps its entries.
ClearMemEnds ==
  /\ serv.at = "clear" /\ freeing[Server].pc \in {"no", "freed", "refused"}
  /\ serv.todo = {}
  /\ reg' = [p \in Paths |-> None]
  /\ info' = None
  /\ serv' = Idle
  /\ freeing' = [freeing EXCEPT ![Server] = NoFree]
  /\ UNCHANGED <<access, pool, st, host, sync, load, rep, rpc, dead>>

-----------------------------------------------------------------------------
(* Undefined behaviour: the process may end, or go on as elsewhere *)

\* Somebody waits on a replica that FreeGpu erased.
WaitsOn(r) ==
  \/ \E t \in Loads : load[t].pc = "abandon" /\ load[t].on = r
  \/ \E c \in DOMAIN freeing : freeing[c].pc = "replica" /\ freeing[c].on = r
  \/ serv.at = "loading" /\ serv.arg = r

DanglingReplica ==
  /\ \E r \in Replicas : rep[r].st = "ABSENT" /\ WaitsOn(r)
  /\ Crash

\* The buffers a copy thread refers to went with their PinnedMemory.
DanglingBuffers(r, d) ==
  /\ rep[r].dev[d].pc = "copying" /\ rep[r].dev[d].from # buf[rep[r].obj]
  /\ Crash

\* A cancelled replica does not keep its model from being loaded anew.  That
\* replaces host_ptr_vector_, and a dispatcher blocked in the old one stays there.
DanglingVector(r) ==
  /\ rep[r].disp = "going" /\ rep[r].st = "CANCELLED"
  /\ st[rep[r].obj] = "LOADING"
  /\ \/ /\ rep' = [rep EXCEPT ![r].disp = "stuck"]
        /\ UNCHANGED <<store, pool, st, host, sync, load, freeing, server, dead>>
     \/ Crash

\* exit(1), if the memory handle of a GPU cannot be opened.
OpenHandleFails(r) == CopyErrors /\ rep[r].pc = "togpu" /\ Crash

-----------------------------------------------------------------------------
(* The system *)

LoadStep(t) ==
  \/ LoadLooksUp(t) \/ LoadAllocates(t) \/ LoadEvicts(t) \/ LoadEvictsNull(t)
  \/ LoadGivesUp(t) \/ LoadReallocates(t) \/ ToHost(t)
  \/ \E k \in 1..Size[LoadPath[t]] : ToHostReads(t, k)
  \/ ToHostLoaded(t) \/ ToHostFails(t) \/ ToHostAbandonsNext(t) \/ LoadEnds(t)
  \/ LoadReturns(t)

FreeStep(c) ==
  \/ FreeHostEnters(c) \/ FreeHostWakes(c) \/ FreeHostWaitsAgain(c)
  \/ FreeHostGoesOn(c)
NotifiedFreeStep(c) ==
  /\ freeing[c].pc = "host" => c \in woken[freeing[c].obj]
  /\ FreeStep(c)

ReplicaStep(r) == ReplicaLooksUp(r) \/ ToGpu(r) \/ ToGpuEnds(r) \/ FreeGpu(r)
                  \/ ReplicaReturns(r)
DispatchStep(r) == DispatchStarts(r) \/ DispatchMaps(r) \/ DispatchSends(r)
CopyStep(r, d) == CopyStarts(r, d) \/ CopyTakesBuffers(r, d) \/ Copies(r, d)
                  \/ CopyEnds(r, d)

ServerStep ==
  \/ \E r \in Replicas : ConfirmModel(r)
  \/ \E p \in Unloads : UnloadModel(p)
  \/ WaitInGpuFinds \/ WaitInGpuEnds \/ UnloadReturns
  \/ ClearMemFrees \/ ClearMemEnds

Fault ==
  \/ \E t \in Loads : \E k \in 1..Size[LoadPath[t]] : ToHostReadFails(t, k)
  \/ \E r \in Replicas, d \in Devices : CopyFails(r, d) \/ DanglingBuffers(r, d)
  \/ \E r \in Replicas : OpenHandleFails(r) \/ DanglingVector(r)
  \/ DanglingReplica

Request ==
  \/ \E p \in Paths : RegisterModel(p)
  \/ \E t \in Loads : LoadModelAsyncToHost(t)
  \/ \E r \in Replicas : LoadModelAsyncToGpu(r)
  \/ \E x \in Replicas \cup Unloads : Ask(x)
  \/ ClearMem

Next ==
  /\ ~dead
  /\ \/ \E t \in Loads : LoadStep(t)
     \/ \E c \in Loads \cup {Server} : FreeStep(c)
     \/ \E r \in Replicas : ReplicaStep(r) \/ DispatchStep(r)
     \/ \E r \in Replicas, d \in Devices : CopyStep(r, d)
     \/ ServerStep \/ Fault \/ Request

Spec == Init /\ [][Next]_vars

\* Every thread runs, and a thread that was notified wakes up.  Nothing forces
\* a client to send a request, a fault to happen, or a spurious wake-up.
Fairness ==
  /\ \A t \in Loads : WF_vars(~dead /\ LoadStep(t))
  /\ \A c \in Loads \cup {Server} : WF_vars(~dead /\ NotifiedFreeStep(c))
  /\ \A r \in Replicas : /\ WF_vars(~dead /\ ReplicaStep(r))
                         /\ WF_vars(~dead /\ DispatchStep(r))
                         /\ \A d \in Devices : WF_vars(~dead /\ CopyStep(r, d))
  /\ WF_vars(~dead /\ ServerStep)

FairSpec == Spec /\ Fairness

-----------------------------------------------------------------------------
(* Properties *)

MemoryStates == {"UNINITIALIZED", "UNALLOCATED", "ALLOCATED", "LOADING",
                 "LOADED", "INTERRUPTED"}
ReplicaStates == {"ABSENT", "LOADING", "LOADED", "CANCELLED", "INTERRUPTED"}
IsBuffers(b, n) == b = <<>> \/ b \in [1..n -> Chunks]

\* The store's maps, the pool, the models and the threads stay well formed: a
\* path maps to an object of its own, pinned_mem_ has no buffers or as many as
\* the model has chunks, and only notified waiters count as woken.
TypeOK ==
  /\ reg \in [Paths -> Models \cup {None}]
  /\ \A p \in Paths : reg[p] # None => PathOf[reg[p]] = p
  /\ Range(access) \subseteq Paths /\ IsInjective(access)
  /\ info \in Loads \cup {Server, None}
  /\ free \subseteq Chunks
  /\ \A c \in Chunks : mem[c] = <<None, 0>> \/ mem[c][1] \in Paths
  /\ st \in [Models -> MemoryStates]
  /\ \A m \in Models :
       /\ IsBuffers(buf[m], Size[PathOf[m]])
       /\ buf[m] # <<>> => pinned[m]
       /\ woken[m] \subseteq waiting[m]
       /\ waiting[m] \subseteq Loads \cup {Server}
  /\ \A r \in Replicas : rep[r].st \in ReplicaStates

\* PinnedMemoryPool: a buffer is in free_list_ or belongs to the pinned_mem_ of
\* one model, once; no buffer is lost and none has two owners, through
\* allocation, eviction, failed loads, UnloadModel and ClearMem.
PoolPartition ==
  /\ \A m \in Models : /\ IsInjective(buf[m])
                        /\ Range(buf[m]) \cap free = {}
                        /\ \A n \in Models \ {m} :
                             Range(buf[m]) \cap Range(buf[n]) = {}
  /\ Chunks = free \cup UNION {Range(buf[m]) : m \in Models}

\* A model whose state_ is LOADED has all its chunks, in its own buffers: no
\* other load wrote into them and no I/O thread is behind (Model::ToHost).
HostHoldsModel ==
  \A m \in Models : st[m] = "LOADED" =>
     /\ buf[m] # <<>>
     /\ \A k \in 1..Size[PathOf[m]] : mem[buf[m][k]] = <<PathOf[m], k>>

\* When the eviction loop of LoadModelFromDisk stops early, the second
\* AllocatePinnedMemory, whose "not enough" result is ignored, has enough.
EvictionSuffices ==
  \A t \in Loads : load[t].pc = "realloc" =>
     /\ st[load[t].obj] = "UNALLOCATED"
     /\ Cardinality(free) >= Size[LoadPath[t]]

\* A replica of m still has a copy thread that may read m's buffers.
Copying(r, m) ==
  rep[r].obj = m /\ \E d \in Devices : rep[r].dev[d].pc = "copying"

\* "make sure no gpu replicas are loading" (FreeHost and TryFreeHost): the memory
\* of a model is not given back under a running copy to a GPU.  FreeHost releases
\* the mutex while it waits for a replica, and may pass over one added meanwhile;
\* one that was cancelled is not LOADING, though its copy threads may still run.
NoFreeUnderReplica ==
  [][\A m \in Models : buf[m] # <<>> /\ buf'[m] = <<>> =>
       \A r \in Replicas : ~Copying(r, m)]_vars

Complete(r) == rep[r].good = Devices \X (1..Size[ReplicaPath[r]])

\* A replica that ToGpu leaves LOADED has every chunk on every device, copied
\* after it was read from disk, although copies overlap the reading.
ReplicaHoldsModel == \A r \in Replicas : rep[r].st = "LOADED" => Complete(r)

\* "Wait for a model to be available in GPU memory." (wait_model_in_gpu): when
\* ConfirmModel answers, all of the model is there.
ConfirmMeansLoaded == \A r \in Replicas : rpc[r].pc = "ok" => Complete(r)

\* As long as models are only loaded to the host, evicted and unloaded, no thread
\* dereferences a pinned_mem_ that is gone: the eviction loop skips UNALLOCATED
\* models, and FreeHost of a failed load or of UnloadModel returns at them.
\* With replicas or ClearMem the code does not give this.
NoCrash == ~dead

\* Memory that is taken can be given back: it belongs to a model that eviction,
\* UnloadModel and ClearMem find in model_map_, or to one that a thread will
\* destroy on its return, although ClearMem drops models that are being loaded.
NoOrphanMemory ==
  \A m \in Models : buf[m] # <<>> =>
     \/ Registered(m)
     \/ \E t \in Loads : Holds(t, m)
     \/ \E r \in Replicas : HoldsReplica(r, m)

\* A load that was started ends, although read errors, evictions and UnloadModel
\* take its memory at any point: the eviction loop ends and gives model_info_mutex_
\* back, and the FreeHost after a failed ToHost returns at a model without memory.
\* The code gives this to one load of each model at a time, without replicas: a
\* FreeHost that meets a second load waits for it, and a load that ends notifies
\* nobody; and a failed ToHost waits for replicas that may never settle.
LoadsEnd == \A t \in Loads : load[t].pc # "new" ~> load[t].pc = "left" \/ dead

Answered(x) == rpc[x].pc \in {"ok", "failed"} \/ dead

\* UnloadModel, "Waiting for model ... to be loaded" included, is answered or,
\* after its retries, refused.
UnloadAnswered == \A p \in Unloads : rpc[p].pc = "trying" ~> Answered(p)
=============================================================================
