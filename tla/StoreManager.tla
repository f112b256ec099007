---------------------------- MODULE StoreManager ----------------------------
(***************************************************************************)
(* The store manager and its local stores (sllm/store_manager.py): which   *)
(* node holds which model on disk, and the loading loop of each node that  *)
(* keeps models in the node's pinned memory, evicting the oldest ones.     *)
(*                                                                         *)
(* All of it runs on one asyncio loop.  A local store's lock is held over  *)
(* the one-second sleep of an idle loading loop, and otherwise only over   *)
(* code without awaits.  The checkpoint store of a node is external: it    *)
(* answers the calls, and `held` is what it was told to load.  Sizes are   *)
(* bytes, and a model of several ranks is one path per rank.               *)
(***************************************************************************)
EXTENDS Integers, FiniteSets, SequencesExt

CONSTANTS Nodes,       \* 1..n, in the order Ray lists them
          Models, Calls,
          Size,        \* bytes of one rank of each model
          Ranks,       \* ranks of each model
          Chunk,       \* chunk_size
          PoolSize,    \* mem_pool_size that each node's server reports
          Direct,      \* models that are served without the store
          Placement,   \* placement_config: disk and memory, sets of nodes or None
          Preload,     \* model named by pretrained_model_name_or_path, or None
          Overlap,     \* may two registrations of one model overlap?
          MaxLoads,    \* bound: loads queued by load_to_host, per node and model
          Faults,      \* hardware, config, register, load
          None

VARIABLES boot,      \* initialize_cluster: wait, up or skip for each node
          pool,      \* pinned_memory_pool_chunks of each local server, or None
          disk,      \* disk_models: recorded size of each model, or None
          queue,     \* io_queue, whose entries are also queued_models
          pinned,    \* pinned_memory_pool, in the order of its times
          usage,     \* pinned_memory_pool_usage
          loop,      \* where the loading loop is
          held,      \* paths that the node's store was told to load
          info,      \* model_info: what is recorded as the size, or None
          storage,   \* model_storage_info
          index,     \* round_robin_index
          call,      \* register calls
          asked      \* bound: loads queued so far

vars == <<boot, pool, disk, queue, pinned, usage, loop, held, info, storage,
          index, call, asked>>
nodeVars == <<disk, queue, pinned, usage, held>>
managerVars == <<info, storage, index, call>>

NoCall == [at |-> "no", model |-> None, todo |-> <<>>, size |-> None]

Init ==
    /\ boot = [n \in Nodes |-> "wait"]
    /\ pool = [n \in Nodes |-> None]
    /\ disk = [n \in Nodes |-> [m \in Models |-> None]]
    /\ queue = [n \in Nodes |-> <<>>]
    /\ pinned = [n \in Nodes |-> <<>>]
    /\ usage = [n \in Nodes |-> 0]
    /\ loop = [n \in Nodes |-> "none"]
    /\ held = [n \in Nodes |-> {}]
    /\ info = [m \in Models |-> None]
    /\ storage = [m \in Models |-> {}]
    /\ index = 0
    /\ call = [c \in Calls |-> NoCall]
    /\ asked = [n \in Nodes |-> [m \in Models |-> 0]]

Servers == {n \in Nodes : pool[n] # None}
Booted == \A n \in Nodes : boot[n] # "wait"

\* An idle loading loop sleeps with the lock.
LockFree(n) == loop[n] # "sleeping"

Chunks(size) == (size + Chunk - 1) \div Chunk

-----------------------------------------------------------------------------
(* initialize_cluster waits for the server of every node whose hardware    *)
(* could be read, and asks each for its configuration.                     *)

NodeAnswers(n) ==
    /\ boot[n] = "wait"
    /\ boot' = [boot EXCEPT ![n] = "up"]
    /\ pool' = [pool EXCEPT ![n] = PoolSize \div Chunk]
    /\ loop' = [loop EXCEPT ![n] = "top"]
    /\ UNCHANGED <<nodeVars, managerVars, asked>>

NodeSkipped(n) ==
    /\ boot[n] = "wait" /\ "hardware" \in Faults
    /\ boot' = [boot EXCEPT ![n] = "skip"]
    /\ UNCHANGED <<pool, loop, nodeVars, managerVars, asked>>

-----------------------------------------------------------------------------
(* register                                                                *)

\* Where a model is downloaded to: the nodes of its placement, or the next one.
Target(m) ==
    IF Placement[m].disk # None THEN SetToSortSeq(Placement[m].disk, <)
    ELSE <<(index % Cardinality(Nodes)) + 1>>

ValidPlacement(m) ==
    (IF Placement[m].disk = None THEN {} ELSE Placement[m].disk)
        \cup Placement[m].memory \subseteq Nodes

\* Faulty variant of Discovered: the loading loop of the new store is not started.
NoLoop ==
    /\ pool' = [n \in Nodes |-> IF pool[n] = None THEN 1 \div Chunk ELSE pool[n]]
    /\ UNCHANGED loop

\* A node without a local server gets one whose pool has one byte.
Discovered ==
    /\ pool' = [n \in Nodes |-> IF pool[n] = None THEN 1 \div Chunk ELSE pool[n]]
    /\ loop' = [n \in Nodes |-> IF pool[n] = None THEN "top" ELSE loop[n]]

\* A known model is left alone; a model without the store is recorded at once;
\* any other is downloaded if there are servers and the placement is valid.
Register(c, m) ==
    /\ Booted /\ call[c].at = "no"
    /\ Overlap \/ \A d \in Calls : call[d].model = m => call[d].at = "end"
    /\ LET Goes(at, todo) == call' = [call EXCEPT ![c] =
               [at |-> at, model |-> m, todo |-> todo, size |-> None]]
       IN IF info[m] # None
          THEN Goes("end", <<>>) /\ UNCHANGED <<pool, loop, info, storage, index>>
          ELSE /\ storage' = [storage EXCEPT ![m] = {}]
               /\ \/ /\ m \in Direct /\ Goes("end", <<>>)
                     /\ info' = [info EXCEPT ![m] = [size |-> 0]]
                     /\ UNCHANGED <<pool, loop, index>>
                  \/ /\ m \notin Direct /\ Servers = {} /\ Goes("end", <<>>)
                     /\ UNCHANGED <<pool, loop, info, index>>
                  \/ /\ m \notin Direct /\ Servers # {} /\ Discovered
                     /\ index' = IF Placement[m].disk = None THEN index + 1 ELSE index
                     /\ IF ValidPlacement(m) THEN Goes("download", Target(m))
                                             ELSE Goes("end", <<>>)
                     /\ UNCHANGED info
    /\ UNCHANGED <<boot, nodeVars, asked>>

\* Faulty variant of Answer: the size of the last rank only.
LastRank(n, m) == IF disk[n][m] # None THEN {None} ELSE {Size[m]}

\* register_model of the local store: a model it has is not registered again and
\* has no size; a store that fails answers -1 for a rank.
Answer(n, m) ==
    IF disk[n][m] # None THEN {None}
    ELSE {Size[m] * Ranks[m]} \cup (IF "register" \in Faults THEN {-Ranks[m]} ELSE {})

\* A download ends, its node registers the model, and the storage is recorded.
Downloaded(c) ==
    /\ call[c].at = "download" /\ call[c].todo # <<>>
    /\ LET m == call[c].model
           n == Head(call[c].todo)
       IN /\ LockFree(n)
          /\ \E size \in Answer(n, m) :
                /\ disk' = IF disk[n][m] = None
                           THEN [disk EXCEPT ![n][m] = size] ELSE disk
                /\ call' = [call EXCEPT ![c].size = size, ![c].at =
                               IF n \in Placement[m].memory THEN "preload" ELSE @,
                               ![c].todo = IF n \in Placement[m].memory THEN @ ELSE Tail(@)]
          /\ storage' = [storage EXCEPT ![m] = @ \cup {n}]
    /\ UNCHANGED <<boot, pool, loop, queue, pinned, usage, held, info, index, asked>>

\* The backend of the model is not supported, or its class is missing: the loop
\* ends, and so does the call if no node has registered the model.
DownloadBreaks(c) ==
    /\ call[c].at = "download" /\ call[c].todo # <<>> /\ "config" \in Faults
    /\ call' = [call EXCEPT ![c].todo = <<>>,
                            ![c].at = IF storage[call[c].model] = {} THEN "end" ELSE @]
    /\ UNCHANGED <<boot, pool, loop, nodeVars, info, storage, index, asked>>


RegisterEnds(c) ==
    /\ call[c].at = "download" /\ call[c].todo = <<>>
    /\ info' = [info EXCEPT ![call[c].model] = [size |-> call[c].size]]
    /\ call' = [call EXCEPT ![c].at = "end"]
    /\ UNCHANGED <<boot, pool, loop, nodeVars, storage, index, asked>>

-----------------------------------------------------------------------------
(* load_to_host                                                            *)

\* Faulty variant of Queues: a model that is loaded is queued again.
QueuesLoaded(n, m) ==
    /\ LockFree(n)
    /\ queue' = IF disk[n][m] = None \/ m \in ToSet(queue[n])
                THEN queue
                ELSE [queue EXCEPT ![n] = Append(@, m)]

\* A model that is on disk, and neither loaded nor queued, is queued.
Queues(n, m) ==
    /\ LockFree(n)
    /\ queue' = IF \/ disk[n][m] = None
                   \/ m \in ToSet(pinned[n]) \cup ToSet(queue[n])
                THEN queue
                ELSE [queue EXCEPT ![n] = Append(@, m)]

LoadToHost(n, m) ==
    /\ n \in Servers /\ asked[n][m] < MaxLoads
    /\ Queues(n, m)
    /\ asked' = IF queue' = queue THEN asked ELSE [asked EXCEPT ![n][m] = @ + 1]
    /\ UNCHANGED <<boot, pool, disk, pinned, usage, loop, held, managerVars>>

\* A registration asks for the model that the pretrained name names.
Preloads(c) ==
    /\ call[c].at = "preload"
    /\ LET n == Head(call[c].todo)
           m == Preload[call[c].model]
       IN IF m = None THEN LockFree(n) /\ UNCHANGED queue ELSE Queues(n, m)
    /\ call' = [call EXCEPT ![c].at = "download", ![c].todo = Tail(@)]
    /\ UNCHANGED <<boot, pool, disk, pinned, usage, loop, held, info, storage,
                   index, asked>>

-----------------------------------------------------------------------------
(* loading_loop                                                            *)

LoopSleeps(n) ==
    /\ loop[n] = "top" /\ queue[n] = <<>>
    /\ loop' = [loop EXCEPT ![n] = "sleeping"]
    /\ UNCHANGED <<boot, pool, nodeVars, managerVars, asked>>

LoopWakes(n) ==
    /\ loop[n] \in {"sleeping", "waiting"}
    /\ loop' = [loop EXCEPT ![n] = "top"]
    /\ UNCHANGED <<boot, pool, nodeVars, managerVars, asked>>

LoopPicks(n) ==
    /\ loop[n] = "top" /\ queue[n] # <<>>
    /\ loop' = [loop EXCEPT ![n] = "picked"]
    /\ UNCHANGED <<boot, pool, nodeVars, managerVars, asked>>

Freed(n, k) ==
    FoldSet(LAMBDA i, sum : sum + Chunks(disk[n][pinned[n][i]]), 0, 1..k)

\* _lru_eviction drops the oldest models until the new one fits, or all of them.
Fits(n, k) == usage[n] - Freed(n, k) + Chunks(disk[n][Head(queue[n])]) <= pool[n]

\* Faulty variant of Evicted: nothing is evicted.
EvictsNothing(n) == 0

Evicted(n) ==
    LET enough == {k \in 0..Len(pinned[n]) : Fits(n, k)}
    IN IF enough = {} THEN Len(pinned[n])
       ELSE CHOOSE k \in enough : \A l \in enough : k <= l

Paths(m) == {m} \X (1..Ranks[m])

\* The head of the queue is loaded, rank by rank, if it fits then; the load of a
\* rank may fail, and the model leaves the queue all the same.
LoopLoads(n) ==
    /\ loop[n] = "picked"
    /\ LET m == Head(queue[n])
           k == Evicted(n)
           gone == ToSet(SubSeq(pinned[n], 1, k))
           kept == SubSeq(pinned[n], k + 1, Len(pinned[n]))
           rest == held[n] \ UNION {Paths(e) : e \in gone}
       IN IF ~Fits(n, k)
          THEN /\ loop' = [loop EXCEPT ![n] = "waiting"]
               /\ pinned' = [pinned EXCEPT ![n] = kept]
               /\ usage' = [usage EXCEPT ![n] = @ - Freed(n, k)]
               /\ held' = [held EXCEPT ![n] = rest]
               /\ UNCHANGED queue
          ELSE /\ loop' = [loop EXCEPT ![n] = "top"]
               /\ queue' = [queue EXCEPT ![n] = Tail(@)]
               /\ \/ /\ pinned' = [pinned EXCEPT ![n] = Append(kept, m)]
                     /\ usage' = [usage EXCEPT ![n] =
                                     @ - Freed(n, k) + Chunks(disk[n][m])]
                     /\ held' = [held EXCEPT ![n] = rest \cup Paths(m)]
                  \/ \E r \in 1..Ranks[m] :
                        /\ "load" \in Faults
                        /\ pinned' = [pinned EXCEPT ![n] = kept]
                        /\ usage' = [usage EXCEPT ![n] = @ - Freed(n, k)]
                        /\ held' = [held EXCEPT ![n] = rest \cup ({m} \X (1..(r - 1)))]
    /\ UNCHANGED <<boot, pool, disk, managerVars, asked>>

-----------------------------------------------------------------------------
LoopNext(n) == LoopSleeps(n) \/ LoopWakes(n) \/ LoopPicks(n) \/ LoopLoads(n)

Next ==
    \/ \E n \in Nodes : NodeAnswers(n) \/ NodeSkipped(n) \/ LoopNext(n)
    \/ \E n \in Nodes, m \in Models : LoadToHost(n, m)
    \/ \E c \in Calls : \/ \E m \in Models : Register(c, m)
                        \/ Downloaded(c) \/ DownloadBreaks(c)
                        \/ RegisterEnds(c) \/ Preloads(c)

Spec == Init /\ [][Next]_vars

-----------------------------------------------------------------------------
(* Properties.                                                             *)

TypeOK ==
    /\ \A n \in Nodes :
          /\ boot[n] \in {"wait", "up", "skip"}
          /\ loop[n] \in {"none", "top", "sleeping", "picked", "waiting"}
          /\ (loop[n] = "none") = (n \notin Servers)
          /\ ToSet(queue[n]) \cup ToSet(pinned[n]) \subseteq {m \in Models : disk[n][m] # None}
          /\ held[n] \subseteq UNION {Paths(m) : m \in Models}
    /\ \A m \in Models : storage[m] \subseteq Nodes
    /\ \A c \in Calls : call[c].at \in {"no", "download", "preload", "end"}

Sum(f, S) == FoldSet(LAMBDA x, n : n + f[x], 0, S)

\* The loading loop's count of used chunks is that of the models it keeps, stays
\* within the pool, and no model is kept or queued twice.
UsageExact ==
    \A n \in Servers :
        /\ usage[n] = Freed(n, Len(pinned[n])) /\ usage[n] \in 0..pool[n]
        /\ IsInjective(pinned[n] \o queue[n])

\* What the node's store holds for this manager fits into its pool, counting the
\* chunks that the store itself uses for each path.
StoreFits ==
    \A n \in Servers :
        Sum([p \in held[n] |-> Chunks(Size[p[1]])], held[n]) <= pool[n]

\* A registered model is on the disk of every node recorded for it, with the
\* size that the scheduler is told.
RegisteredIsOnDisk ==
    \A m \in Models \ Direct :
        info[m] # None => /\ storage[m] # {}
                          /\ \E n \in storage[m] : disk[n][m] = info[m].size
                          /\ \A n \in storage[m] : disk[n][m] # None

Queued(n) == ToSet(queue[n])

\* A model that waits for a place in memory gets its turn: the loading loop does
\* not stop at a model that waits before it.
QueuedIsLoaded ==
    \A n \in Nodes, m \in Models :
        m \in Queued(n) ~> m \notin Queued(n)

=============================================================================
