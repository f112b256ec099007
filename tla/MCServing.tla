------------------------------ MODULE MCServing ------------------------------
(***************************************************************************)
(* The parts that serve, from the controller to the backends, each in the  *)
(* configurations named below: the controller and its fine-tuning jobs,    *)
(* the store manager, the vLLM and the transformers backend, the workers   *)
(* of an expert-parallel group, the migration of contexts after a notice,  *)
(* the tokens of a request across attempts, the replay of a trace, and the *)
(* scheduler's reservations over several nodes.  A behaviour is one of one *)
(* configuration, chosen at the start (which); the variables of the others *)
(* stay as they are.                                                       *)
(***************************************************************************)
EXTENDS Integers, Sequences, FiniteSets, TLC

CONSTANTS m1, m2, m3, i1, i2, n1, n2, r1, r2, None

VARIABLES which,
          status, starting, engine, run, trace, abort_reasons, aborting,
          pending, exported, stopping, ending, dp, engineDp, resize, resizes,
          probes,
          tfStatus, streamStatus, intermediate, call, warm, model, waits,
          attempts, failures, phase, recovery, replay, completed, migration,
          attempt, answer,
          registry, router, instances, submitted, registering, deleting, dirty,
          calls, node, told, events,
          jobs, jobLoop, left, tuned, gpus,
          map, weights, plan, worker, before, last, failed, version, cache,
          batch, received, output, count,
          on, ready, pool, epoch, saved, handler, todo, sources, targets, rows,
          known, checked, report, warmed, changes,
          boot, spare, disk, queue, kept, usage, loop, held, sizes, storage,
          index, request, asked,
          script, upcoming, replayer, resolved, clock, deadlines, keys, sent,
          fleet, cancelled,
          running, queues, listing, ticket, grant, entry, nodes, pass, refreshes,
          listed, busy, marked, cleared

vllm == <<status, starting, engine, run, trace, abort_reasons, aborting,
          pending, exported, stopping, ending, dp, engineDp, resize, resizes,
          probes>>
transformers == <<tfStatus, streamStatus, intermediate, call, warm, model, waits>>
token == <<attempts, failures, phase, recovery, replay, completed, migration,
           attempt, answer>>
controller == <<registry, router, instances, submitted, registering, deleting,
                dirty, calls, node, told, events>>
tuning == <<jobs, jobLoop, left, tuned, gpus>>
experts == <<map, weights, plan, worker, before, last, failed, version, cache,
             batch, received, output, count>>
context == <<on, ready, pool, epoch, saved, handler, todo, sources, targets, rows,
             known, checked, report, warmed, changes>>
manager == <<boot, spare, disk, queue, kept, usage, loop, held, sizes, storage,
             index, request, asked>>
simulator == <<script, upcoming, replayer, resolved, clock, deadlines, keys, sent, fleet, cancelled>>
scheduler == <<running, queues, listing, ticket, grant, entry, nodes, pass,
               refreshes, listed, busy, marked, cleared>>
vars == <<which, scheduler, vllm, transformers, token, controller, tuning, experts, context, manager, simulator>>

\* Two requests, one of them preempted by force, and no resize.
Streams == INSTANCE VllmBackend WITH
    Requests <- {r1, r2}, Length <- 2, MaxCalls <- 2, Blocks <- 1, Sizes <- {2},
    InitialSize <- 1, MaxResizes <- 0, MaxProbes <- 1, HasHook <- TRUE,
    Forced <- r1 :> "preempt",
    Faults <- {"plan", "params", "stream", "abort"}

\* One request with a forced exception, and a resize.
Resizes == INSTANCE VllmBackend WITH
    Requests <- {r1}, Length <- 2, MaxCalls <- 2, Blocks <- 1, Sizes <- {2, 3},
    InitialSize <- 1, MaxResizes <- 2, MaxProbes <- 2, HasHook <- FALSE,
    Forced <- r1 :> "fail",
    Faults <- {"plan", "params", "stream", "scale", "verify"}

\* One request at a time, as the router sends them by default.
OneSlot == INSTANCE TransformersBackend WITH status <- tfStatus,
    Requests <- {r1, r2}, Length <- 3, Slots <- 1, MaxCalls <- 2,
    Forced <- {r1}, Resumes <- FALSE, Faults <- {}

\* Two at a time, with resumed generations and a model that raises.
TwoSlots == INSTANCE TransformersBackend WITH status <- tfStatus,
    Requests <- {r1, r2}, Length <- 2, Slots <- 2, MaxCalls <- 1,
    Forced <- {r1}, Resumes <- TRUE, Faults <- {"raise"}

\* Recovery policies: native restore or nothing, restore with replay as the
\* fallback and one failure, plain retries.
Required == INSTANCE TokenRecovery WITH run <- attempt,
    Policy <- "stateful_recovery", Prompt <- 2, MaxTokens <- 3, MaxRetries <- 2,
    RequireNative <- TRUE, Native <- TRUE, HookCounts <- TRUE, FailAfter <- 2,
    MaxFailures <- 1,
    Faults <- {"preempt", "move", "raise", "timeout", "refuse", "attach"}
Stateful == INSTANCE TokenRecovery WITH run <- attempt,
    Policy <- "stateful_recovery", Prompt <- 2, MaxTokens <- 3, MaxRetries <- 2,
    RequireNative <- FALSE, Native <- TRUE, HookCounts <- TRUE, FailAfter <- 2,
    MaxFailures <- 1, Faults <- {"preempt", "move", "raise"}
Retry == INSTANCE TokenRecovery WITH run <- attempt,
    Policy <- "naive_retry", Prompt <- 2, MaxTokens <- 3, MaxRetries <- 2,
    RequireNative <- FALSE, Native <- FALSE, HookCounts <- FALSE, FailAfter <- 2,
    MaxFailures <- 3, Faults <- {"preempt", "move", "raise", "timeout"}

\* Two models, one of whose names is the beginning of the other.
Clients == INSTANCE Controller WITH
    Models <- {m1, m2}, Name <- (m1 :> <<"a">>) @@ (m2 :> <<"a", "1">>),
    Instances <- {i1}, MaxCalls <- 2, Overlap <- FALSE, MaxEvents <- 2,
    Concurrent <- 1

\* Calls about one model that overlap.
BusyClients == INSTANCE Controller WITH
    Models <- {m1}, Name <- m1 :> <<"a">>, Instances <- {i1}, MaxCalls <- 3,
    Overlap <- TRUE, MaxEvents <- 1, Concurrent <- 1

\* Three jobs, of which the first to be tried never fits.
Tuning == INSTANCE FineTuning WITH run <- tuned, held <- gpus, loop <- jobLoop,
    Jobs <- 1..3, Priority <- <<1, 1, 0>>, Gpus <- <<1, 1, 3>>, Total <- 2,
    Downloaded <- {2}, Faults <- {"download", "train"}
FaultyJobs == INSTANCE FineTuning WITH run <- tuned, held <- gpus, loop <- jobLoop,
    Jobs <- 1..3, Priority <- <<1, 0, 1>>, Gpus <- <<1, 1, 3>>, Total <- 2,
    Downloaded <- {2}, Faults <- {"download", "router", "start", "train", "timeout"}

\* Three workers with an expert each, of which one may be refused.
Plan3 == [{1} -> [1..3 -> 1..3]]
Batches3 == [1..3 -> {<<>>, <<{1, 2}, {2, 3}>>, <<{1, 3}>>, <<{2, 3}, {1, 2}>>}]
ThreeWorkers == INSTANCE ExpertParallel WITH at <- worker, rows <- received,
    Size <- 3, Local <- 1, Layers <- {1}, Host <- <<1, 2, 3>>, Plans <- Plan3,
    Batches <- Batches3, Supported <- 1..3, MaxRemaps <- 2,
    Faults <- {"transfer", "device"}

\* Two workers with two experts each.
Plan2 == [{1} -> [1..4 -> 1..2]]
Batches2 == [1..2 -> {<<>>, <<{1, 4}, {2, 3}>>}]
TwoWorkers == INSTANCE ExpertParallel WITH at <- worker, rows <- received,
    Size <- 2, Local <- 2, Layers <- {1}, Host <- <<1, 1>>, Plans <- Plan2,
    Batches <- Batches2, Supported <- 1..2, MaxRemaps <- 2, Faults <- {"transfer"}

\* A notice for two of four instances, with what happens beside it, or with
\* calls that fail.
Context == INSTANCE ContextMigration WITH at <- handler, left <- todo,
    Instances <- 1..4, Requests <- {5, 6}, Lost <- <<1, 2>>, Capacity <- 1,
    MaxChanges <- 2, Faults <- FALSE
FaultyContext == INSTANCE ContextMigration WITH at <- handler, left <- todo,
    Instances <- 1..4, Requests <- {5, 6}, Lost <- <<1, 2>>, Capacity <- 1,
    MaxChanges <- 1, Faults <- TRUE

Place(disks, memory) == [disk |-> disks, memory |-> memory]

\* Models of two and of twice one chunk, and a pool of three.
Manager == INSTANCE StoreManager WITH
    pinned <- kept, info <- sizes, pool <- spare, call <- request,
    Nodes <- {1}, Models <- {m1, m2}, Calls <- 1..3,
    Size <- (m1 :> 3) @@ (m2 :> 2), Ranks <- (m1 :> 1) @@ (m2 :> 2),
    Chunk <- 2, PoolSize <- 7, Direct <- {},
    Placement <- (m1 :> Place(None, {})) @@ (m2 :> Place({1}, {1})),
    Preload <- (m1 :> m1) @@ (m2 :> m2), Overlap <- FALSE, MaxLoads <- 2,
    Faults <- {}

\* Two nodes, a model without the store, an invalid placement, and failures.
FaultyManager == INSTANCE StoreManager WITH
    pinned <- kept, info <- sizes, pool <- spare, call <- request,
    Nodes <- {1, 2}, Models <- {m1, m2, m3}, Calls <- 1..2,
    Size <- (m1 :> 4) @@ (m2 :> 1) @@ (m3 :> 1),
    Ranks <- (m1 :> 2) @@ (m2 :> 1) @@ (m3 :> 1),
    Chunk <- 4, PoolSize <- 13, Direct <- {m2},
    Placement <- (m1 :> Place({1, 2}, {1})) @@ (m2 :> Place(None, {}))
                   @@ (m3 :> Place({3}, {})),
    Preload <- (m1 :> None) @@ (m2 :> None) @@ (m3 :> None), Overlap <- TRUE,
    MaxLoads <- 1, Faults <- {"hardware", "config", "register", "load"}

\* Three different events of these, in any order in the file: notices with and
\* without a node or an instance, one selected; recoveries, one not valid; a
\* death, a removal, an addition.
Notice(time, n, i, selector, grace) ==
    [time |-> time, kind |-> "preempt", node |-> n, instance |-> i, selector |-> selector, grace |-> grace]
Later(time, kind, n, i, selector) ==
    [time |-> time, kind |-> kind, node |-> n, instance |-> i, selector |-> selector, grace |-> None]
TraceEvents ==
    {Notice(0, None, 1, None, 2), Notice(1, None, None, "active", 1), Notice(1, "n", None, None, 1),
     Notice(0, "n", 2, None, 0), [Notice(2, None, 2, None, 1) EXCEPT !.kind = "recover"],
     Later(2, "recover", None, 1, None), Later(1, "recover", None, None, "preempting"),
     Later(2, "dead", "n", 2, None), Later(1, "remove", "n", None, None), Later(0, "add", "m", None, None)}
Replay == INSTANCE TraceReplay WITH next <- upcoming, main <- replayer, target <- resolved,
    pending <- keys, Instances <- {1, 2}, NodeOf <- <<"m", "n">>, MaxTime <- 3, Faults <- {1},
    Traces <- {<<a, b, c>> \in TraceEvents \X TraceEvents \X TraceEvents : Cardinality({a, b, c}) = 3}

\* Requests for one and for two GPUs, reserved over two nodes and resized.
Spread == INSTANCE FcfsScheduler WITH keys <- listing, status <- ticket, loop <- pass,
    calls <- refreshes, cancelled <- cleared, NoNode <- None,
    Models <- {m1, m2}, Instances <- {i1, i2}, Nodes <- {n1, n2}, Routers <- {r1},
    ModelOf <- (i1 :> m1) @@ (i2 :> m1), Gpus <- (i1 :> 1) @@ (i2 :> 2),
    Target <- (i1 :> None) @@ (i2 :> None), TotalGpu <- (n1 :> 2) @@ (n2 :> 1),
    NodeInfo <- (n1 :> {<<>>}) @@ (n2 :> {[total_gpu |-> 1]}),
    ResizeTo <- {1, 2}, RuntimeMetadata <- FALSE, Distributed <- TRUE,
    ElasticResize <- TRUE, RayChurn <- FALSE

NoVllm ==
    /\ status = 0 /\ starting = 0 /\ engine = 0 /\ run = 0 /\ trace = 0
    /\ abort_reasons = 0 /\ aborting = 0 /\ pending = 0 /\ exported = 0
    /\ stopping = 0 /\ ending = 0 /\ dp = 0 /\ engineDp = 0 /\ resize = 0
    /\ resizes = 0 /\ probes = 0
NoTransformers ==
    /\ tfStatus = 0 /\ streamStatus = 0 /\ intermediate = 0 /\ call = 0
    /\ warm = 0 /\ model = 0 /\ waits = {}
NoToken ==
    /\ attempts = 0 /\ failures = 0 /\ phase = 0 /\ recovery = 0 /\ replay = 0
    /\ completed = 0 /\ migration = 0 /\ attempt = 0 /\ answer = 0

NoController ==
    /\ registry = 0 /\ router = 0 /\ instances = 0 /\ submitted = 0
    /\ registering = 0 /\ deleting = 0 /\ dirty = 0 /\ calls = 0 /\ node = 0
    /\ told = 0 /\ events = 0
NoTuning ==
    jobs = <<None, None, None>> /\ jobLoop = 0 /\ left = 0 /\ tuned = 0 /\ gpus = 0
NoExperts ==
    /\ map = 0 /\ weights = 0 /\ plan = 0 /\ worker = 0 /\ before = 0 /\ last = 0
    /\ failed = 0 /\ version = 0 /\ cache = 0 /\ batch = 0 /\ received = 0
    /\ output = 0 /\ count = 0
NoContext ==
    /\ on = 0 /\ ready = 0 /\ pool = 0 /\ epoch = 0 /\ saved = 0 /\ handler = "none"
    /\ todo = 0 /\ sources = 0 /\ targets = 0 /\ rows = 0 /\ known = 0
    /\ checked = 0 /\ report = 0 /\ warmed = 0 /\ changes = 0
NoManager ==
    /\ boot = 0 /\ spare = 0 /\ disk = 0 /\ queue = 0 /\ kept = 0 /\ usage = 0
    /\ loop = 0 /\ held = 0 /\ sizes = 0 /\ storage = 0 /\ index = 0
    /\ request = 0 /\ asked = 0
NoReplay ==
    /\ script = 0 /\ upcoming = 0 /\ replayer = 0 /\ resolved = 0 /\ clock = 0
    /\ deadlines = 0 /\ keys = 0 /\ sent = 0 /\ fleet = 0 /\ cancelled = 0
NoScheduler ==
    /\ running = FALSE /\ queues = 0 /\ listing = 0 /\ ticket = 0 /\ grant = 0
    /\ entry = 0 /\ nodes = 0 /\ pass = 0 /\ refreshes = 0 /\ listed = 0
    /\ busy = 0 /\ marked = 0 /\ cleared = 0

ServingInit ==
    \/ /\ NoTransformers /\ NoToken /\ NoController /\ NoTuning /\ NoExperts /\ NoContext /\ NoManager
       /\ \/ which = "streams" /\ Streams!Init
          \/ which = "resizes" /\ Resizes!Init
    \/ /\ NoVllm /\ NoToken /\ NoController /\ NoTuning /\ NoExperts /\ NoContext /\ NoManager
       /\ \/ which = "one slot" /\ OneSlot!Init
          \/ which = "two slots" /\ TwoSlots!Init
    \/ /\ NoVllm /\ NoTransformers /\ NoController /\ NoTuning /\ NoExperts /\ NoContext /\ NoManager
       /\ \/ which = "required" /\ Required!Init
          \/ which = "stateful" /\ Stateful!Init
          \/ which = "retry" /\ Retry!Init
    \/ /\ NoVllm /\ NoTransformers /\ NoToken /\ NoTuning /\ NoExperts /\ NoContext /\ NoManager
       /\ \/ which = "clients" /\ Clients!Init
          \/ which = "busy clients" /\ BusyClients!Init
    \/ /\ NoVllm /\ NoTransformers /\ NoToken /\ NoController /\ NoExperts /\ NoContext /\ NoManager
       /\ \/ which = "jobs" /\ Tuning!Init
          \/ which = "faulty jobs" /\ FaultyJobs!Init
    \/ /\ NoVllm /\ NoTransformers /\ NoToken /\ NoController /\ NoTuning /\ NoContext /\ NoManager
       /\ \/ which = "three workers" /\ ThreeWorkers!Init
          \/ which = "two workers" /\ TwoWorkers!Init
    \/ /\ NoVllm /\ NoTransformers /\ NoToken /\ NoController /\ NoTuning /\ NoExperts /\ NoManager
       /\ \/ which = "context" /\ Context!Init
          \/ which = "faulty context" /\ FaultyContext!Init
    \/ /\ NoVllm /\ NoTransformers /\ NoToken /\ NoController /\ NoTuning /\ NoExperts /\ NoContext
       /\ \/ which = "loads" /\ Manager!Init
          \/ which = "faulty loads" /\ FaultyManager!Init

NoServing ==
    /\ NoVllm /\ NoTransformers /\ NoToken /\ NoController /\ NoTuning /\ NoExperts
    /\ NoContext /\ NoManager

Init ==
    \/ NoReplay /\ NoScheduler /\ ServingInit
    \/ NoServing /\ NoScheduler /\ which = "trace" /\ Replay!Init
    \/ NoServing /\ NoReplay /\ which = "spread" /\ Spread!Init

VllmNext ==
    \/ which = "streams" /\ Streams!Next
    \/ which = "resizes" /\ Resizes!Next
TransformersNext ==
    \/ which = "one slot" /\ OneSlot!Next
    \/ which = "two slots" /\ TwoSlots!Next
TokenNext ==
    \/ which = "required" /\ Required!Next
    \/ which = "stateful" /\ Stateful!Next
    \/ which = "retry" /\ Retry!Next
ControllerNext ==
    \/ which = "clients" /\ Clients!Next
    \/ which = "busy clients" /\ BusyClients!Next
TuningNext ==
    \/ which = "jobs" /\ Tuning!Next
    \/ which = "faulty jobs" /\ FaultyJobs!Next
ExpertsNext ==
    \/ which = "three workers" /\ ThreeWorkers!Next
    \/ which = "two workers" /\ TwoWorkers!Next
ContextNext ==
    \/ which = "context" /\ Context!Next
    \/ which = "faulty context" /\ FaultyContext!Next
ManagerNext ==
    \/ which = "loads" /\ Manager!Next
    \/ which = "faulty loads" /\ FaultyManager!Next
ReplayNext == which = "trace" /\ Replay!Next
SpreadNext == which = "spread" /\ Spread!Next

Next ==
    /\ UNCHANGED which
    /\ \/ VllmNext /\ UNCHANGED <<transformers, token, controller, tuning, experts, context, manager, simulator, scheduler>>
       \/ TransformersNext /\ UNCHANGED <<vllm, token, controller, tuning, experts, context, manager, simulator, scheduler>>
       \/ TokenNext /\ UNCHANGED <<vllm, transformers, controller, tuning, experts, context, manager, simulator, scheduler>>
       \/ ControllerNext /\ UNCHANGED <<vllm, transformers, token, tuning, experts, context, manager, simulator, scheduler>>
       \/ TuningNext /\ UNCHANGED <<vllm, transformers, token, controller, experts, context, manager, simulator, scheduler>>
       \/ ExpertsNext /\ UNCHANGED <<vllm, transformers, token, controller, tuning, context, manager, simulator, scheduler>>
       \/ ContextNext /\ UNCHANGED <<vllm, transformers, token, controller, tuning, experts, manager, simulator, scheduler>>
       \/ ManagerNext /\ UNCHANGED <<vllm, transformers, token, controller, tuning, experts, context, simulator, scheduler>>
       \/ ReplayNext /\ UNCHANGED <<vllm, transformers, token, controller, tuning, experts, context, manager, scheduler>>
       \/ SpreadNext /\ UNCHANGED <<vllm, transformers, token, controller, tuning, experts, context, manager, simulator>>

Spec == Init /\ [][Next]_vars

-----------------------------------------------------------------------------
\* Every component's variables keep their types.
TypeOK ==
    /\ which = "streams" => Streams!TypeOK
    /\ which = "resizes" => Resizes!TypeOK
    /\ which = "one slot" => OneSlot!TypeOK
    /\ which = "two slots" => TwoSlots!TypeOK
    /\ which = "clients" => Clients!TypeOK
    /\ which = "busy clients" => BusyClients!TypeOK
    /\ which = "jobs" => Tuning!TypeOK
    /\ which = "faulty jobs" => FaultyJobs!TypeOK
    /\ which = "three workers" => ThreeWorkers!TypeOK
    /\ which = "two workers" => TwoWorkers!TypeOK
    /\ which = "context" => Context!TypeOK
    /\ which = "faulty context" => FaultyContext!TypeOK
    /\ which = "loads" => Manager!TypeOK
    /\ which = "faulty loads" => FaultyManager!TypeOK
    /\ which = "trace" => Replay!TypeOK

\* DoneIsComplete of VllmBackend: an answer that generate returns as complete
\* has every token, unless the backend is shut down.
DoneIsComplete ==
    /\ which = "streams" => Streams!DoneIsComplete
    /\ which = "resizes" => Resizes!DoneIsComplete

\* SizesAgree of VllmBackend: between resizes a serving backend's configuration
\* has the size of its engine.
SizesAgree == which = "resizes" => Resizes!SizesAgree

\* OutputIsOwn of TransformersBackend: a preempted request returns its own
\* tokens.
OutputIsOwn == which = "one slot" => OneSlot!OutputIsOwn

\* AnswerIsWhole of TokenRecovery: the answer has every token after the prompt
\* once.
AnswerIsWhole ==
    /\ which = "required" => Required!AnswerIsWhole
    /\ which = "stateful" => Stateful!AnswerIsWhole
    /\ which = "retry" => Retry!AnswerIsWhole

\* NoSilentReplay of TokenRecovery: a required native restore is never replaced
\* by a replay.
NoSilentReplay == which = "required" => Required!NoSilentReplay

\* RegisteredIsServed of Controller: a registered model has its router, whatever
\* other model is being deleted.
RegisteredIsServed == which = "clients" => Clients!RegisteredIsServed

\* DeletedLeavesNothing of Controller: after a deletion no actor of the model is
\* left or under way.
DeletedLeavesNothing == which = "clients" => Clients!DeletedLeavesNothing

\* EventsAgree of Controller: between events scheduler and routers agree on the
\* node's state.
EventsAgree == which = "clients" => Clients!EventsAgree

\* EndedIsReleased of FineTuning: a job that ended holds no GPUs.
EndedIsReleased == which = "jobs" => Tuning!EndedIsReleased

\* StatusGoesForward of FineTuning: the status of a job only goes forward.
StatusGoesForward ==
    [][\A j \in 1..3 : jobs'[j] # jobs[j] => Tuning!Forward(jobs[j], jobs'[j])]_vars

\* MapsFindWeights of ExpertParallel: while the engine serves, every expert is on
\* one worker, in the slot that this worker's map names.
MapsFindWeights ==
    /\ which = "three workers" => ThreeWorkers!MapsFindWeights
    /\ which = "two workers" => TwoWorkers!MapsFindWeights

\* AppliedIsInstalled of ExpertParallel: a plan that all workers call the last one
\* is the one in their maps.
AppliedIsInstalled ==
    /\ which = "three workers" => ThreeWorkers!AppliedIsInstalled
    /\ which = "two workers" => TwoWorkers!AppliedIsInstalled

\* EachExpertOnce of ExpertParallel: a token gets each of its experts once, also
\* after the experts moved.
EachExpertOnce ==
    /\ which = "three workers" => ThreeWorkers!EachExpertOnce
    /\ which = "two workers" => TwoWorkers!EachExpertOnce

\* PlannedOnce of ContextMigration: a request is planned for one instance only.
PlannedOnce ==
    /\ which = "context" => Context!PlannedOnce
    /\ which = "faulty context" => FaultyContext!PlannedOnce

\* WarmedAsPlanned of ContextMigration: a target is warmed with the placement it
\* was planned with.
WarmedAsPlanned ==
    /\ which = "context" => Context!WarmedAsPlanned
    /\ which = "faulty context" => FaultyContext!WarmedAsPlanned

\* RowsAccounted of ContextMigration: every row of the plan is accounted for.
RowsAccounted ==
    /\ which = "context" => Context!RowsAccounted
    /\ which = "faulty context" => FaultyContext!RowsAccounted

\* UsageExact of StoreManager: the loading loop's count of used chunks is exact
\* and in bounds, also after failures.
UsageExact == /\ which = "loads" => Manager!UsageExact
              /\ which = "faulty loads" => FaultyManager!UsageExact

\* StoreFits of StoreManager: what a node is told to load fits its pool.
StoreFits == which = "loads" => Manager!StoreFits

\* RegisteredIsOnDisk of StoreManager: a registered model is on the disks
\* recorded for it, with the recorded size.
RegisteredIsOnDisk == which = "loads" => Manager!RegisteredIsOnDisk

\* DeathIsDue of TraceReplay: no death is sent before its notice, or after a call
\* that took its place.
DeathIsDue == which = "trace" => Replay!DeathIsDue

\* NoticesSettled of TraceReplay: at the end every notice was followed by the
\* death of its target, or by a call that took its place.
NoticesSettled == which = "trace" => Replay!NoticesSettled

\* ReservationFits of FcfsScheduler: a distributed reservation records the GPUs it
\* asks for and takes free ones, if no promise is outstanding.
SpreadFits == [][which = "spread" => Spread!Reserves]_vars


\* An engine is what its configuration, its maps and its workers say, through
\* resizes and moves of experts that fail at any step (VllmBackend,
\* ExpertParallel), so that a token gets each of its experts once.
EngineAsConfigured ==
    SizesAgree /\ MapsFindWeights /\ AppliedIsInstalled /\ EachExpertOnce



\* What a preemption notice sets off is what it announced: each request is
\* planned once and warmed up as planned, every row is accounted for
\* (ContextMigration), and the death comes after the notice unless a call took
\* its place (TraceReplay).
NoticesAreFollowed ==
    PlannedOnce /\ WarmedAsPlanned /\ RowsAccounted /\ DeathIsDue /\ NoticesSettled


=============================================================================
