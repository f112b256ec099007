----------------------------- MODULE MCProgress -----------------------------
(***************************************************************************)
(* What must come to an end: the loads of the store manager and of the      *)
(* checkpoint store, stop and shutdown of a backend, fine-tuning jobs, the  *)
(* collectives of an expert-parallel group, and the handling of a notice.   *)
(* A behaviour is one of one part, chosen at the start (which); the         *)
(* variables of the others stay as they are.                                *)
(***************************************************************************)
EXTENDS Integers, Sequences, FiniteSets, TLC

CONSTANTS m1, m2, a, b, a1, b1, c1, c2, t1, t2, r1, r2, Server, None

VARIABLES which,
          boot, pool, disk, queue, kept, usage, loop, held, sizes, storage,
          index, managerCall, asked,
          reg, access, info, free, mem, st, pinned, buf, host, waiting,
          woken, load, rep, freeing, rpc, serv, dead,
          tfStatus, streamStatus, intermediate, call, warm, model, waits,
          jobs, jobLoop, left, tuned, gpus,
          map, weights, plan, worker, before, last, failed, version, cache,
          batch, received, output, count,
          on, ready, known, epoch, saved, handler, todo, sources, targets,
          rows, seen, checked, report, warmed, changes

manager == <<boot, pool, disk, queue, kept, usage, loop, held, sizes,
             storage, index, managerCall, asked>>
node == <<reg, access, info, free, mem, st, pinned, buf, host, waiting,
          woken, load, rep, freeing, rpc, serv, dead>>
backend == <<tfStatus, streamStatus, intermediate, call, warm, model, waits>>
tuning == <<jobs, jobLoop, left, tuned, gpus>>
experts == <<map, weights, plan, worker, before, last, failed, version,
             cache, batch, received, output, count>>
context == <<on, ready, known, epoch, saved, handler, todo, sources,
             targets, rows, seen, checked, report, warmed, changes>>
vars == <<which, manager, node, backend, tuning, experts, context>>

Place(nodes, memory) == [disk |-> nodes, memory |-> memory]

\* Models of two and of twice one chunk, and a pool of three.
Manager == INSTANCE StoreManager WITH
    pinned <- kept, info <- sizes, call <- managerCall,
    Nodes <- {1}, Models <- {m1, m2}, Calls <- 1..3,
    Size <- (m1 :> 3) @@ (m2 :> 2), Ranks <- (m1 :> 1) @@ (m2 :> 2),
    Chunk <- 2, PoolSize <- 7, Direct <- {},
    Placement <- (m1 :> Place(None, {})) @@ (m2 :> Place({1}, {1})),
    Preload <- (m1 :> m1) @@ (m2 :> m2), Overlap <- FALSE, MaxLoads <- 2,
    Faults <- {}

\* Two models that do not fit together, read errors, and a client that unloads one.
Node == INSTANCE CheckpointStore WITH
    Paths <- {a, b}, Models <- {a1, b1}, PathOf <- (a1 :> a) @@ (b1 :> b),
    Size <- (a :> 2) @@ (b :> 1), Chunks <- {c1, c2}, Loads <- {t1, t2},
    LoadPath <- (t1 :> a) @@ (t2 :> b), Replicas <- {}, ReplicaPath <- <<>>,
    Devices <- {}, ChunksPerThread <- 1, Tries <- 2, Unloads <- {a},
    Clears <- FALSE, ReadErrors <- TRUE, CopyErrors <- FALSE,
    HostFirst <- TRUE, RegistrationRequired <- FALSE

\* A transformers backend with one request at a time.
Backend == INSTANCE TransformersBackend WITH status <- tfStatus,
    Requests <- {r1, r2}, Length <- 3, Slots <- 1, MaxCalls <- 2,
    Forced <- {r1}, Resumes <- FALSE, Faults <- {}

\* Three jobs, of which the first to be tried never fits.
Tuning == INSTANCE FineTuning WITH run <- tuned, held <- gpus, loop <- jobLoop,
    Jobs <- 1..3, Priority <- <<1, 1, 0>>, Gpus <- <<1, 1, 3>>, Total <- 2,
    Downloaded <- {2}, Faults <- {"download", "train"}

\* Three workers with an expert each.
Workers == INSTANCE ExpertParallel WITH at <- worker, rows <- received,
    Size <- 3, Local <- 1, Layers <- {1}, Host <- <<1, 2, 3>>,
    Plans <- [{1} -> [1..3 -> 1..3]],
    Batches <- [1..3 -> {<<>>, <<{1, 2}, {2, 3}>>}], Supported <- 1..3,
    MaxRemaps <- 1, Faults <- {"transfer", "device"}

\* A notice for two of three instances, with calls that fail.
Notice == INSTANCE ContextMigration WITH at <- handler, left <- todo, pool <- known,
    known <- seen, Instances <- 1..3, Requests <- {5, 6}, Lost <- <<1, 2>>,
    Capacity <- 1, MaxChanges <- 1, Faults <- TRUE

NoManager ==
    /\ boot = 0 /\ pool = 0 /\ disk = 0 /\ queue = 0 /\ kept = 0 /\ usage = 0
    /\ loop = 0 /\ held = 0 /\ sizes = 0 /\ storage = 0 /\ index = 0
    /\ managerCall = 0 /\ asked = 0
NoNode ==
    /\ reg = 0 /\ access = 0 /\ info = 0 /\ free = 0 /\ mem = 0 /\ st = 0
    /\ pinned = 0 /\ buf = 0 /\ host = 0 /\ waiting = 0 /\ woken = 0
    /\ load = 0 /\ rep = 0 /\ freeing = 0 /\ rpc = 0 /\ serv = 0
    /\ dead = FALSE
NoStop ==
    /\ tfStatus = 0 /\ streamStatus = 0 /\ intermediate = 0 /\ call = 0
    /\ warm = 0 /\ model = 0 /\ waits = {}
NoJobs ==
    /\ jobs = 0 /\ jobLoop = 0 /\ left = 0 /\ tuned = 0 /\ gpus = 0
NoWorkers ==
    /\ map = 0 /\ weights = 0 /\ plan = 0 /\ worker = 0 /\ before = 0
    /\ last = 0 /\ failed = 0 /\ version = 0 /\ cache = 0 /\ batch = 0
    /\ received = 0 /\ output = 0 /\ count = 0
NoNotice ==
    /\ on = 0 /\ ready = 0 /\ known = 0 /\ epoch = 0 /\ saved = 0
    /\ handler = "none" /\ todo = 0 /\ sources = 0 /\ targets = 0 /\ rows = 0
    /\ seen = 0 /\ checked = 0 /\ report = 0 /\ warmed = 0 /\ changes = 0

Init ==
    \/ /\ which = "loads" /\ Manager!Init
       /\ NoNode /\ NoStop /\ NoJobs /\ NoWorkers /\ NoNotice
    \/ /\ which = "node" /\ Node!Init
       /\ NoManager /\ NoStop /\ NoJobs /\ NoWorkers /\ NoNotice
    \/ /\ which = "backend" /\ Backend!Init
       /\ NoManager /\ NoNode /\ NoJobs /\ NoWorkers /\ NoNotice
    \/ /\ which = "jobs" /\ Tuning!Init
       /\ NoManager /\ NoNode /\ NoStop /\ NoWorkers /\ NoNotice
    \/ /\ which = "workers" /\ Workers!Init
       /\ NoManager /\ NoNode /\ NoStop /\ NoJobs /\ NoNotice
    \/ /\ which = "notice" /\ Notice!Init
       /\ NoManager /\ NoNode /\ NoStop /\ NoJobs /\ NoWorkers

OnlyManager == UNCHANGED <<which, node, backend, tuning, experts, context>>
OnlyNode == UNCHANGED <<which, manager, backend, tuning, experts, context>>
OnlyStop == UNCHANGED <<which, manager, node, tuning, experts, context>>
OnlyJobs == UNCHANGED <<which, manager, node, backend, experts, context>>
OnlyWorkers == UNCHANGED <<which, manager, node, backend, tuning, context>>
OnlyNotice == UNCHANGED <<which, manager, node, backend, tuning, experts>>

Next ==
    \/ which = "loads" /\ Manager!Next /\ OnlyManager
    \/ which = "node" /\ Node!Next /\ OnlyNode
    \/ which = "backend" /\ Backend!Next /\ OnlyStop
    \/ which = "jobs" /\ Tuning!Next /\ OnlyJobs
    \/ which = "workers" /\ Workers!Next /\ OnlyWorkers
    \/ which = "notice" /\ Notice!Next /\ OnlyNotice

NodeProcess(k) ==
    CASE k = 1 -> Node!LoadStep(t1)
      [] k = 2 -> Node!LoadStep(t2)
      [] k = 3 -> Node!NotifiedFreeStep(t1)
      [] k = 4 -> Node!NotifiedFreeStep(t2)
      [] k = 5 -> Node!NotifiedFreeStep(Server)
      [] k = 6 -> Node!ServerStep

Runs(j) == Tuning!Granted(j) \/ Tuning!InstanceReady(j) \/ Tuning!Trained(j) \/ Tuning!Closed(j)

\* The k-th process of the part that was chosen.
Process(k) ==
    \/ which = "loads" /\ k = 1 /\ Manager!LoopNext(1) /\ OnlyManager
    \/ which = "node" /\ ~dead /\ NodeProcess(k) /\ OnlyNode
    \/ which = "backend" /\ k = 1 /\ Backend!Progress /\ OnlyStop
    \/ which = "jobs" /\ k = 1 /\ Tuning!LoopNext /\ OnlyJobs
    \/ which = "jobs" /\ k \in 2..4 /\ Runs(k - 1) /\ OnlyJobs
    \/ which = "workers" /\ k = 1 /\ Workers!GroupStep /\ OnlyWorkers
    \/ which = "workers" /\ k \in 2..4 /\ Workers!RankStep(k - 1) /\ OnlyWorkers
    \/ which = "notice" /\ k = 1 /\ Notice!HandlerStep /\ OnlyNotice

\* asyncio resumes every task whose wait is over: the loading loop, generations,
\* the loops of stop and shutdown, the job loop and the routers of jobs, the
\* handler of a notice.  Ray answers calls.  The system runs every thread of the
\* store that can run, and a waiter that was notified gets the mutex.  A worker
\* runs until its next collective, which ends when all workers have entered it.
FairSpec == Init /\ [][Next]_vars /\ \A k \in 1..6 : WF_vars(Process(k))

-----------------------------------------------------------------------------
\* QueuedIsLoaded of StoreManager: queued models leave the queue.
QueuedIsLoaded ==
    (which = "loads" /\ Manager!Queued(1) # {}) ~> (which = "loads" /\ Manager!Queued(1) = {})

\* LoadsEnd of CheckpointStore: loads that were started end.
LoadsEnd ==
    \A t \in {t1, t2} : (which = "node" /\ load[t].pc # "new")
                            ~> (which = "node" /\ load[t].pc = "left")

\* StopEnds of TransformersBackend: stop and shutdown return.
StopEnds == (which = "backend" /\ waits # {}) ~> (waits = {})

\* JobsAreStarted of FineTuning: jobs whose GPUs exist end.
JobsAreStarted ==
    (which = "jobs" /\ \E j \in {1, 2} : jobs[j] = "pending")
        ~> (which = "jobs" /\ \A j \in {1, 2} : jobs[j] \in Tuning!Ended \cup {None})

\* GroupComesBack of ExpertParallel: no worker waits in a collective that another
\* one never enters.
GroupComesBack ==
    (which = "workers" /\ ~Workers!AllAt("idle")) ~> (which = "workers" /\ Workers!AllAt("idle"))

\* NoticeHandled of ContextMigration: the handler of a notice comes to its end.
NoticeHandled == (which = "notice") ~> (handler = "done")

\* Whatever was begun ends: queued loads leave the queue of the local store, loads
\* of checkpoints end; stop and shutdown of a backend, jobs whose GPUs exist,
\* collectives of the expert workers and the handler of a preemption notice come
\* to their end.
BegunEnds ==
    /\ QueuedIsLoaded /\ LoadsEnd
    /\ StopEnds /\ JobsAreStarted /\ GroupComesBack /\ NoticeHandled

=============================================================================
