# ServerlessLLM-Spotserve in TLA+

This directory holds TLA+ models of ServerlessLLM-Spotserve, the TLC runs that
check them on small instances, and TLAPS proofs about two of them for instances
of any size. `PROJECT.json` is the index: which definition models which source
lines, what each run checks, the faulty variants that show that each property
can fail (definitions marked "Faulty variant", each before the definition it
spoils), the hazards of the code, and the theorems.

## The system and its modules

A request enters through the HTTP API and the **controller**, which keeps one
**router** actor per model. The router owns the model's instances, balances and
retries requests, scales, and reacts to spot events (preemption, recovery, nodes
added or removed), if configured by changing the parallel layout of the running
deployment through the **reparallelization executor**. For each new instance it
asks a **scheduler** actor for GPUs on a node. The instance's **backend** loads
its checkpoint through the **checkpoint store**, a C++ library with a gRPC
server on each node that caches models in pinned host memory and copies them to
GPUs. The **store manager** decides which node holds which model.

State machines:

| module | models | source |
|---|---|---|
| `FcfsScheduler` | loading queues, control loop, node table, reservations, resizes, health marks | `sllm/schedulers/fcfs_scheduler.py` |
| `CheckpointStore` | host loads with eviction, GPU loads, unload, ClearMem, the servicer | `sllm_store/csrc/sllm_store/`, `sllm_store/server.py` |
| `InstanceLifecycle` | what `InstanceHandle` promises (abstract) | `sllm/utils.py` |
| `Router` | pools, load balancer, auto-scaler, instance start and stop, `inference()` with retries, spot events, shutdown | `sllm/routers/roundrobin_router.py` |
| `Replan` | executor and vLLM adapter over the router's pools; extends `Router` | `sllm/spot/reparallelization_executor.py`, `vllm_deployment_adapter.py` |
| `TokenRecovery` | the tokens of one request over failed attempts | router, `vllm_backend.py`, `vllm_response_state.py` |
| `ContextMigration` | the handler of a preemption notice: list, plan, warm up | router, `sllm/spot/context_migration.py` |
| `VllmBackend`, `TransformersBackend` | the status machines of the backend actors | `sllm/backends/` |
| `ExpertParallel` | the collective exchange of expert weights and the sparse all-to-all | `sllm_store/vllm_patch`, `sllm/vllm_expert_remap.py` |
| `Controller`, `FineTuning` | registration, deletion, spot-event fan-out; the job loop | `sllm/controller.py`, `fine_tuning_job_store.py` |
| `StoreManager` | placement, downloads, each node's loading loop | `sllm/store_manager.py` |
| `TraceReplay` | replay of a spot trace with grace periods | `sllm/spot/preemption_simulator.py`, `trace_reader.py` |

Pure algorithms, as operators with a reference definition each: `ParallelPlanner`,
`ExpertPlacement`, `MigrationPlan`, `StateTarget`, `RiskScheduling`,
`StorageAware`, `RouteHistogram`, `PlacementHooks`, `RuntimeEvidence` and
`TensorLayout`; `Ordering` holds Python's sort order. `Question` turns an
operator into a state machine of one step, which asks it a question.

A step of a model is the code between two points where something else can run:
an await that suspends, in the asyncio actors; a mutex section, in the C++
store; a collective, in the expert workers. Calls to other actors may fail or
die where the code handles that, as the `Faults` constants say. Messages, names,
token values and file contents are model values, and times are ticks or are left
out. Undefined behaviour is a choice: an unlocked read of `pinned_mem_` or of
`host_ptr_vector_` after another thread replaced it ends the store's process or
leaves the reader waiting (the `Dangling` actions of `CheckpointStore`), and
`exit(1)` at a CUDA handle that cannot be opened is an action too. History
variables (`marked`, `cancelled`, `told`, `sent`, ...) are
introduced in their modules.

## Runs

| run | module | what it shows |
|---|---|---|
| FcfsDefault | `MCFcfsScheduler` | no GPU is promised twice, health marks survive refreshes, queues are exact, grants go to READY nodes and in order; under fairness no request starves beside room |
| FcfsOptions | `MCFcfsOptions` | with runtime metadata, reservations, resizes, Ray churn and nodes added by hand the control loop survives |
| StoreSafety | `MCCheckpointStore` | two loads and a replica of a path that ClearMem drops and a client registers again, with read and copy errors: types, one owner per buffer, no memory out of reach |
| StoreContents | `MCStoreContents` | host loads with read errors, and a replica on two GPUs: LOADED is complete, evictions suffice, host loads follow no null pointer |
| Router | `MCRouter` | slots and waiting requests are accounted for, every handle follows `InstanceLifecycle` |
| RouterLive | `MCRouter` | under fairness requests are answered and the model scales down; the instance limit is kept |
| Replan | `MCReplan` | replans of every kind end, with a failure at every stage; no GPUs stay with an instance in no pool; the source of a migrated request outlives the migration |
| Serving | `MCServing` | the safety of the backends, token recovery, controller, jobs, experts, notices, store manager and trace replay; a reservation over several nodes records what it asked for and fits, if no promise is outstanding and no refresh is suspended |
| Progress | `MCProgress` | under fairness what was begun ends: loads with read errors beside an unload, stops, jobs, collectives, notices |
| Algorithms | `MCAlgorithms` | the pure operators agree with their reference definitions |
| StoreReload | `MCCheckpointStore` | **violated**: `ConfirmMeansLoaded` |
| StoreFreed | `MCCheckpointStore` | **violated**: `NoFreeUnderReplica` |

`MCServing`, `MCProgress` and `MCStoreContents` hold several configurations of
one or more modules. The variable `which` picks one at the start,
and the properties of the run are the modules' own properties, each for the
configurations in which the code is meant to provide it.

### Bounds

- Scheduler: up to three requests of two models on one or two nodes with one or
  two GPUs: two compete while a third waits, one precedes another in a queue,
  and a reservation spans nodes. A request is made once, as instance ids are
  fresh. `NodeInfo` lists what `add_worker_node` may be told of a node; a backend
  may or may not report the GPUs of its node at every refresh.
- Checkpoint store: models of two chunks and of one on a pool of one or two, so
  that loading both forces an eviction; `Tries`, five in the code, is one or two
  since the attempts are alike. `Tries` and the sets of requests bound the
  runs. StoreSafety has two objects for one path of one chunk, so that a dropped
  model and its successor compete for the pool while threads hold the old one;
  it leaves unloads to the other runs.
- Router and Replan: two or three instances, two requests, one node with two or
  three GPUs, one spot event; each request is sent once and retried once. Two
  instances are one to lose and one to fail over to, a third is the target of a
  replan.
- Serving and Progress: `MaxCalls`, `MaxEvents`, `MaxResizes`, `MaxProbes`,
  `MaxRemaps`, `MaxChanges`, `MaxLoads`, `MaxFailures` and `MaxTime` cap what
  the environment does, at one to three. Remapping twice exposes what a failed
  remap leaves; two resizes cross a resize with a stop; three trace events are a
  notice, its deadline and what overtakes it.
- Algorithms: all questions over the small sets in `MCAlgorithms`. Shares and
  costs are integers whose denominators (`Whole`) divide the totals, so that
  nothing is rounded. `kBufferSize` and the other sizes of the checkpoint writer
  are scaled down and keep their order.

Deadlock is checked in the scheduler runs. In the others clients and the
environment send finitely much and the system may rest; hangs are questions for
the liveness properties.

### Fairness

Weak fairness of each process. asyncio resumes every task whose wait is over;
Ray answers a call or fails it; sleeps end; the operating system runs every
thread that can run, and a notified waiter gets the mutex (a spurious wake-up is
possible and never counted on); a collective ends when all workers have entered
it. Nothing is assumed of clients, nor that a fault stays away, nor that GPUs
are released.

### Refinement

`Router` implements `InstanceLifecycle` (`HandlesFollowLifecycle`, with the
mapping at the end of `Router`): through every pool move, retry and spot event a
handle changes state only as its methods allow, and takes a slot only when it is
READY and below its limit.

### What the two violated runs show

- `StoreReload`: `host_ptr_vector_` keeps its ready marks over an unload, so a
  replica made between the second allocation and the second read copies what
  the buffers held before (the same chunks in another order, as the free list is
  unordered, or another model's), and ConfirmModel succeeds.
- `StoreFreed`: FreeHost says "make sure no gpu replicas are loading"
  (`model.cpp:478`) and waits for each one with the mutex released. One that is
  added meanwhile may be passed over by the iteration; its copy threads then
  read memory that was freed. No fault is needed.

## Proofs

| theorem | module | under |
|---|---|---|
| `TypeCorrectness`, `QueueingIsExact` | `FcfsSchedulerProofs` | any configuration |
| `LoopStaysAlive`, `ServedInOrder` | `FcfsOrderProofs` | any configuration |
| `HealthIsLastReport`, `OnlyReadyNodesAreGranted` | `FcfsOrderProofs` | no runtime metadata |
| `GpusAreNeverOvercommitted` | `FcfsCapacityProofs` | no reservations, no resizes |
| `StoreTypes`, `PoolIsPartitioned`, `MemoryIsReachable` | `CheckpointStoreProofs` | any configuration |
| `LoadedHostIsComplete`, `EvictionIsEnough` | `CheckpointStoreProofs` | no GPU replicas |
| `NothingNullIsFollowed` | `CheckpointStoreProofs` | no GPU replicas, no ClearMem |

All of them hold for any sets of models, requests, nodes, chunks and threads.
The assumptions on the constants are `FcfsAssumption` (finitely many requests,
natural GPU counts, typed maps) and `StoreAssumption` (finitely many chunks,
positive sizes, a null that is no identity); TLC evaluates both in the runs. The
restrictions in the last column are not conveniences: outside them TLC finds
counterexamples (see "Where a property ends").

### The scheduler

*Queues* (`QueueInv`). That a request is queued exactly once while its future is
unresolved needs the types, and the types need it: the sort key of a request is
a pair of numbers only because the request is in its model's list and the model
has a key in the dictionary (`KeysPresent`).

*A pass* (`OrderInv`). With runtime metadata a pass sorts a snapshot of the
queues, suspends, and grants later from what is by then an old list.
`TodoWaits` says that a request of the snapshot is still queued, or was failed
by `clear_model`, or was dropped by a shutdown after which nothing was started
again; hence the KeyError that kills the loop needs a shutdown (`LoopAlive`).
`PassInOrder` says that ahead of a request of the snapshot, in the queue as it
is now, there are only requests with a smaller sort key that are still to be
looked at, and requests that fit no node; grants only shrink the room, so an
easier request that was skipped cannot have been skipped wrongly
(`FcfsWithinModel`).

*Health* (`HealthInv`). Without runtime metadata nobody holds a table across a
suspension, and each step keeps every state or follows a report.

*Capacity* (`CapacityInv`). `PassRoom`: at every point of a pass, what is
committed on a node plus what the pass may still hand out is within the node's
GPUs. Only the pass promises, everyone else only gives back. The totals in every
suspended table stay within Ray's (`KnownTotals`) and records are plain
(`PlainEntries`).

### The checkpoint store

*Memory* (`StoreInv`). Only two operations move buffers, so every
step of every thread keeps them, takes free ones for a model that has none, or
returns those of one model (`PoolMove` in `StorePoolProofs`). `Reachable` adds
that a model with memory is registered or held by a thread, that
`model_info_mutex_` has at most one holder (`LockHeld`), and what ClearMem has
yet to free (`ClearPending`). `StoreStepProofs` shows that the steps of loads, of
FreeHost, of replicas and of the servicer keep this.

*Contents* (`HostInv` in `StoreHostProofs`). Between the step that makes a model
LOADING and the one that makes it LOADED, one thread reads it and nobody else
touches its state or its buffers (`ReadersInv`); nobody waits for a replica
(`HostOnly`). A replica breaks this: FreeHost waits for it with the mutex
released, and then returns whatever memory the model has by then.

*Eviction and null pointers* (in `StoreSafetyProofs`). The count that the
eviction loop keeps is a lower bound of the free buffers, as the loop holds
`model_info_mutex_` and nobody else allocates; without ClearMem every path in
the access order is registered, and a load reads only a model it allocated.

`StoreHostProofs` and `StoreSafetyProofs` build on `StorePoolProofs` alone; only
`CheckpointStoreProofs`, which combines the steps into the theorems, extends them
all and the library's theorems about cardinality.

### What is only model-checked

- Liveness, which is out of the prover's reach: `NoStarvationBesideRoom`,
  `RequestsAnswered`, `ScalesDown`, `ReplanEnds`,
  `BegunEnds`.
- Properties that rest on what a greedy choice or a recursive definition
  computes, which would need induction over data: all of Algorithms, and
  `SpreadFits`.
- `LoadedIsComplete` of the store, which holds for one replica per model only;
  `RequestsAccounted`, `HandlesFollowLifecycle` and `WithinMaxInstances` of the
  router, the properties of `Replan`, and those of Serving. They are invariants
  without induction over data; their strengthenings span most of the router's
  state and were not attempted.

## Where a property ends

TLC finds a counterexample to each of these when the constants allow what is
named. The passing runs leave it out of the property, not out of the model
wherever the model has it.

- Scheduler. `GrantsOnReadyNodes` and `StateIsLastMark` with runtime metadata: a
  node marked during the refresh is granted, against
  `docs/spotserve-version2.md:74`. A grant in flight, which the loop has removed
  from the queue, so that `clear_model` does not find it, is recorded after the
  clear (`ClearedStaysClear`, against
  `tests/spotserve_test/test_scheduler_node_health.py:434`). `NoOvercommit` with
  reservations or resizes: GPUs that are promised and not recorded are taken
  again. `ReservationFits` with runtime metadata: two reservations suspended at
  `fcfs_scheduler.py:1190` each write back their copy of the table and take the
  same GPUs, with no promise outstanding. The sort by the index in a model's own
  queue does not serve different models in order of arrival.
- Store. `NoCrash` with replicas: FreeHost reads `pinned_mem_` after its wait for
  a replica (`model.cpp:490`), when an UnloadModel may have freed
  it; a dispatcher and the copy threads read it without the lock. With ClearMem:
  the eviction loop finds an access-time entry without a model.
  `EvictionSuffices` and `HostHoldsModel` with replicas (`model.cpp:490`,
  `:521`). `ConfirmMeansLoaded` after a read error: a cancelled replica is
  confirmed. `UnloadAnswered`: LOADED is set without notifying a waiting
  UnloadModel (`model.cpp:249`, `:471`); a second load of a model makes the
  FreeHost of a failed one wait in the same way, so `LoadsEnd` is about one load
  of each model. With a replica and a read error a load and a dispatcher wait
  for each other (`model.cpp:236`), and after a copy error ConfirmModel waits
  for a replica that was erased (`server.py:134`): the code gives no liveness
  there, and none is claimed.
- Router. After a recovery the instance limit can be exceeded; with backends that
  raise or die, scaling down can stop; a dead actor's GPUs are not returned by
  `FinishEnds`; shutdown raises on queued requests; a model that is deleted can
  still start an instance.
- Replan. An instance that the auto-scaler started late lands in a pool that is
  being deleted; a migration that runs into its timeout leaves its source
  running; a replan that fails before the switch, after it told the old
  instances to drain, leaves them draining, though the executor's docstring says
  that "a failed replan leaves serving traffic untouched"
  (`FailedReplanKeepsServing`); a failed resize leaves its handle draining;
  without free GPUs a create waits with the lock held.
- Backends and tokens. Without the recovery hook an exported state may be another
  request's; a failed resize leaves the vLLM backend stopping; two failures of a
  request, or a hook that does not count, can lose or repeat tokens; with two
  slots the Transformers backend's requests share their output.
- Controller and jobs. Names "a" and "a_b" are confused by the clean-up;
  overlapping calls about one model; `shutdown` calls a method that does not
  exist; a job that times out keeps training and holds its GPUs.
- Store manager. Overlapping registrations, and models larger than the pool. Its
  order of eviction, called LRU, is the order of arrival.
- Evidence. After a resize or remap in place the reported snapshot is that of the
  old plan. The router adds up `expert_placement_runtime_all_to_all_*`, which
  the profile never emits. `runtime_verified_placement` is true when any
  instance says so.

## Not modelled

The HTTP API, the CLI and the store's command line translate requests and have no
state. The model downloader, the hardware collector, logging, spot metrics and
audits are I/O and records that no decision reads back. The migration router is
deprecated and never created. The control loop of the storage-aware scheduler
raises at the first queue entry, so only its choices are modelled. CUDA, Ray,
vLLM's engine and tensor kernels are external: they succeed or fail. Deployment
and benchmark scripts are left out. `components` in `PROJECT.json` has a note
for every part.
