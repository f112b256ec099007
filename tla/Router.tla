------------------------------- MODULE Router -------------------------------
(***************************************************************************)
(* The request router of one model, src/sllm/routers/roundrobin_router.py, *)
(* with InstanceHandle of src/sllm/utils.py.                               *)
(*                                                                         *)
(* RoundRobinRouter is a Ray asyncio actor.  None of its locks is held     *)
(* across an await that suspends, so the code between two such awaits is   *)
(* one step: waits for the scheduler, for a Ray actor, for the request     *)
(* queue, and sleeps.  The load balancer, the auto-scaler, the start and   *)
(* stop task of each instance, each request and each spot event are        *)
(* processes.  Handles are made with fresh ids; Instances bounds them.     *)
(* Backends other than "dummy" are modelled.                               *)
(***************************************************************************)
EXTENDS Integers, SequencesExt

CONSTANTS
  Instances, Requests, Nodes, Events,
  None,
  NodeGpus,        \* instances the scheduler can place on a node
  MaxQueueLength,  \* max_queue_length of an instance
  Target,          \* "target" of the auto-scaling configuration
  KeepAlive,       \* "keep_alive" of it, in rounds of the auto-scaler
  Limits,          \* <<min_instances, max_instances>> at registration
  Updates,         \* the changes of these, as pairs, that update() makes
  CountPreempting, \* count_preempting_toward_capacity
  Policy,          \* recovery_policy
  MaxRetries,      \* max_retries
  RequireNative,   \* require_native_kv_restore
  Faults,          \* what goes wrong outside the router
  SpotKinds,       \* the spot events that occur
  Reparallelize,   \* enable_reparallelization
  MayShutdown      \* the controller deletes the model

ASSUME RouterAssumption ==
  /\ None \notin Instances \cup Requests \cup Nodes
  /\ {NodeGpus, MaxQueueLength, KeepAlive, MaxRetries} \subseteq Nat
  /\ Target \in Nat \ {0}
  /\ Limits \in Nat \X Nat
  /\ Updates \subseteq (Nat \X Nat) \X (Nat \X Nat)
  /\ Policy \in {"none", "restart", "generated_token_replay",
                 "stateful_recovery"}
  /\ Faults \subseteq {"start", "actor", "raise", "error", "preempted",
                       "invalid"}
  /\ SpotKinds \subseteq {"preempt", "recover", "add", "remove", "dead",
                          "deadline", "drain"}
  /\ {CountPreempting, RequireNative, Reparallelize, MayShutdown}
       \subseteq BOOLEAN

VARIABLES
  inst,       \* the handles: state, load (concurrency), pool, the GPUs the
              \* scheduler holds for it, node_id, its actor, whether
              \* backend_instance is set, and its start or stop task
  order,      \* ready_inference_instances, in insertion order
  queue, lb,  \* request_queue and the request the load balancer carries
  rr,         \* round_robin_index
  req,        \* the inference calls
  scaler, idle, limits,  \* _auto_scaler_loop, idle_time, auto_scaling_config
  spot,       \* the spot events being handled
  life,       \* shutdown()
  executing   \* _reparallelization_execution_active

balancing == <<queue, lb, rr>>
scaling == <<scaler, idle, limits>>
vars == <<inst, order, balancing, req, scaling, spot, life, executing>>

State == {"absent", "starting", "ready", "draining", "preempting", "dead"}
Pool == {"none", "starting", "ready", "deleting", "failed"}
Task == {"none", "begin", "alloc", "actor", "init", "finish", "finishing",
         "cleaning", "orphan", "creating"}

Absent ==
  [state |-> "absent", load |-> 0, pool |-> "none", gpu |-> "none",
   node |-> None, actor |-> "none", backend |-> FALSE, task |-> "none"]

Idle ==
  [pc |-> "idle", inst |-> None, att |-> 0, forced |-> 0, src |-> None,
   snap |-> FALSE, cand |-> {}, trk |-> None, mig |-> FALSE, out |-> None]

NoEvent == [kind |-> None, todo |-> {}, matches |-> {}, pc |-> "idle"]

Init ==
  /\ inst = [i \in Instances |-> Absent]
  /\ order = <<>>
  /\ queue = <<>>
  /\ lb = None
  /\ rr = 0
  /\ req = [r \in Requests |-> Idle]
  /\ scaler = "loop"
  /\ idle = 0
  /\ limits = Limits
  /\ spot = [e \in Events |-> NoEvent]
  /\ life = "running"
  /\ executing = FALSE

---------------------------------------------------------------------------
(* InstanceHandle.  Its ready flag is TRUE exactly in state READY. *)

Closed == {"draining", "preempting", "dead"}

\* Faulty variant: one request too many.
AcceptsOneMore(i) ==
  /\ inst[i].state = "ready"
  /\ inst[i].load <= MaxQueueLength

\* _can_accept_request_locked, for one more request
CanAccept(i) == inst[i].state = "ready" /\ inst[i].load < MaxQueueLength

\* Faulty variant: mark_ready forgets that the instance was closed meanwhile.
AlwaysReady(h) == [h EXCEPT !.state = "ready"]

\* mark_ready
MarkReady(h) == IF h.state \in Closed THEN h ELSE [h EXCEPT !.state = "ready"]

\* mark_draining, mark_preempting, mark_dead
Mark(h, s) == [h EXCEPT !.state = s]

\* mark_recovered
MarkRecovered(h) ==
  IF h.state = "preempting" THEN [h EXCEPT !.state = "ready"] ELSE h

\* add_requests(-1)
Release(h) == IF h.load > 0 THEN [h EXCEPT !.load = @ - 1] ELSE h

---------------------------------------------------------------------------
(* Resources: the scheduler's answer, and Ray actors. *)

Held == {i \in Instances : inst[i].gpu \in Nodes}
Room(n) == Cardinality({i \in Held : inst[i].gpu = n}) < NodeGpus

\* deallocate_resource; a request still queued in the scheduler stays there.
Deallocated(h) == IF h.gpu \in Nodes THEN [h EXCEPT !.gpu = "none"] ELSE h

\* A ray.kill, or the end of a backend's stop or shutdown.
Killed(h) == IF h.actor = "up" THEN [h EXCEPT !.actor = "gone"] ELSE h

\* External: the scheduler places the instance on a node.
SchedulerGrants(i, n) ==
  /\ inst[i].gpu = "asked" /\ Room(n)
  /\ inst' = [inst EXCEPT ![i].gpu = n]
  /\ UNCHANGED <<order, balancing, req, scaling, spot, life, executing>>

\* External: a backend actor dies with its worker.
ActorDies(i) ==
  /\ "actor" \in Faults /\ inst[i].actor = "up"
  /\ inst' = [inst EXCEPT ![i] = Killed(@)]
  /\ UNCHANGED <<order, balancing, req, scaling, spot, life, executing>>

---------------------------------------------------------------------------
(* Starting and stopping instances. *)

Alive == life # "gone"

TaskStep == Alive /\ UNCHANGED <<balancing, req, scaling, spot, life, executing>>

\* _start_instance, up to the wait for allocate_resource.  A handle that is
\* no longer in the starting pool is left alone.
StartBegins(i) ==
  /\ inst[i].task = "begin"
  /\ inst' = [inst EXCEPT ![i] =
                IF @.pool = "starting"
                  THEN [@ EXCEPT !.task = "alloc", !.gpu = "asked"]
                  ELSE [@ EXCEPT !.task = "none"]]
  /\ UNCHANGED order /\ TaskStep

\* The allocation is there: node_id is set and the actor is requested.
StartAllocated(i) ==
  /\ inst[i].task = "alloc" /\ inst[i].gpu \in Nodes
  /\ inst' = [inst EXCEPT ![i].node = inst[i].gpu, ![i].task = "actor"]
  /\ UNCHANGED order /\ TaskStep

\* start_instance has made the actor; init_backend is called.
ActorStarts(i) ==
  /\ inst[i].task = "actor"
  /\ inst' = [inst EXCEPT ![i].actor = "up", ![i].backend = TRUE,
                          ![i].task = "init"]
  /\ UNCHANGED order /\ TaskStep

\* init_backend returned: mark_ready, and the move to the ready pool, or the
\* cleanup of an instance that was untracked in the meantime.
InitEnds(i) ==
  /\ inst[i].task = "init" /\ inst[i].actor = "up"
  /\ IF inst[i].pool = "starting"
       THEN /\ inst' = [inst EXCEPT ![i] =
                          [MarkReady(@) EXCEPT !.pool = "ready",
                                               !.task = "none"]]
            /\ order' = Append(order, i)
       ELSE /\ inst' = [inst EXCEPT ![i] =
                          [Mark(@, "dead") EXCEPT !.task = "cleaning"]]
            /\ UNCHANGED order
  /\ TaskStep

\* The except branch of _start_instance.  The scheduler refuses, the actor
\* cannot be made, or init_backend fails, which it does when its actor is
\* killed.  GPUs are released once the allocation has been returned.
StartFails(i) ==
  /\ inst[i].task \in {"alloc", "actor", "init"}
  /\ \/ "start" \in Faults \/ inst[i].actor = "gone"
     \/ inst[i].task = "alloc" /\ inst[i].gpu = "none"
  /\ inst[i].task = "alloc" => inst[i].gpu \notin Nodes
  /\ inst' = [inst EXCEPT ![i] =
                [Mark(@, "dead") EXCEPT
                   !.pool = "failed", !.task = "cleaning",
                   !.gpu = IF inst[i].task = "alloc" THEN "none" ELSE @]]
  /\ UNCHANGED order /\ TaskStep

\* _stop_backend, whose errors are caught here, and deallocate_resource.
CleaningEnds(i) ==
  /\ inst[i].task = "cleaning"
  /\ inst' = [inst EXCEPT ![i] =
                [Deallocated(Killed(@)) EXCEPT !.task = "none"]]
  /\ UNCHANGED order /\ TaskStep

\* An actor whose start was cancelled comes up with nobody to use it.
OrphanStarts(i) ==
  /\ inst[i].task = "orphan"
  /\ inst' = [inst EXCEPT ![i].actor = "up", ![i].task = "none"]
  /\ UNCHANGED order /\ TaskStep

\* _create_instance
CreateInstance(i) ==
  /\ inst[i] = Absent
  /\ inst' = [inst EXCEPT ![i] =
                [Absent EXCEPT !.state = "starting", !.pool = "starting",
                               !.task = "begin"]]

\* _stop_instance without an id: the youngest entry of the ready pool.
StopInstance ==
  /\ order # <<>>
  /\ order' = Front(order)
  /\ inst' = [inst EXCEPT ![Last(order)] =
                [Mark(@, "draining") EXCEPT !.pool = "deleting",
                                            !.task = "finish"]]

\* _finish_instance, up to the wait for the backend to stop.
FinishInstance(i) ==
  /\ inst[i].task = "finish"
  /\ inst' = [inst EXCEPT ![i] =
                [Mark(@, "dead") EXCEPT
                   !.pool = IF @ = "deleting" THEN "none" ELSE @,
                   !.task = "finishing"]]
  /\ UNCHANGED order /\ TaskStep

\* Faulty variant: a stopped instance keeps its GPUs.
KeepsGpus(i) ==
  /\ inst[i].task = "finishing"
  /\ inst' = [inst EXCEPT ![i] = [Killed(@) EXCEPT !.task = "none"]]
  /\ UNCHANGED order /\ TaskStep

\* The end of _finish_instance.  A stop call that raises, on a missing
\* backend_instance or on a dead actor, ends the task before
\* deallocate_resource.
FinishEnds(i) ==
  /\ inst[i].task = "finishing"
  /\ inst' = [inst EXCEPT ![i] =
                IF @.backend /\ @.actor = "up"
                  THEN [Deallocated(Killed(@)) EXCEPT !.task = "none"]
                  ELSE [@ EXCEPT !.task = "none"]]
  /\ UNCHANGED order /\ TaskStep

---------------------------------------------------------------------------
(* _auto_scaler_loop *)

Active == {r \in Requests : req[r].pc \notin {"idle", "done"}}

Clamp(x, lo, hi) == LET y == IF x < lo THEN lo ELSE x
                    IN  IF y > hi THEN hi ELSE y

\* auto_scaler: min(max_instances, max(min_instances, ceil(count / target)))
Desired ==
  Clamp((Cardinality(Active) + Target - 1) \div Target, limits[1], limits[2])

CapacityStates ==
  {"starting", "ready"} \cup IF CountPreempting THEN {"preempting"} ELSE {}

\* _counts_toward_capacity, over the starting and the ready pool
Capacity ==
  {i \in Instances : /\ inst[i].pool \in {"starting", "ready"}
                     /\ inst[i].state \in CapacityStates}

ScalerStep == Alive /\ UNCHANGED <<balancing, req, limits, spot, life, executing>>

\* Faulty variant: starting instances are not counted.
ScalesUpTwice(i) ==
  /\ scaler = "loop" /\ ~executing
  /\ Desired > Cardinality({j \in Capacity : inst[j].state = "ready"})
  /\ CreateInstance(i)
  /\ UNCHANGED <<order, scaler, idle>> /\ ScalerStep

\* A round that finds too few instances creates one.
ScalerCreates(i) ==
  /\ scaler = "loop" /\ ~executing
  /\ Desired > Cardinality(Capacity)
  /\ CreateInstance(i)
  /\ UNCHANGED <<order, scaler, idle>> /\ ScalerStep

\* A round that finds too many waits for keep_alive rounds ...
ScalerIdles ==
  /\ scaler = "loop" /\ ~executing
  /\ Desired < Cardinality(Capacity)
  /\ idle < KeepAlive
  /\ idle' = idle + 1
  /\ UNCHANGED <<inst, order, scaler>> /\ ScalerStep

\* ... and then stops one.  The loop of _stop_instance that waits for a
\* ready instance holds up the auto-scaler.
ScalerStops ==
  /\ \/ /\ scaler = "loop" /\ ~executing
        /\ Desired < Cardinality(Capacity)
        /\ idle >= KeepAlive
     \/ scaler = "stop"
  /\ StopInstance
  /\ scaler' = "loop"
  /\ idle' = 0
  /\ ScalerStep

ScalerBlocks ==
  /\ scaler = "loop" /\ ~executing
  /\ Desired < Cardinality(Capacity)
  /\ idle >= KeepAlive
  /\ order = <<>>
  /\ scaler' = "stop"
  /\ UNCHANGED <<inst, order, idle>> /\ ScalerStep

\* update() with a new auto_scaling_config
Update(u) ==
  /\ Alive /\ limits = u[1]
  /\ limits' = u[2]
  /\ UNCHANGED <<inst, order, balancing, req, scaler, idle, spot, life,
                 executing>>

---------------------------------------------------------------------------
(* _load_balancer_loop.  From the end of its sleep to set_result it does   *)
(* not suspend, so the instance it picks still accepts.                    *)

BalancerStep ==
  /\ Alive /\ UNCHANGED <<order, scaling, spot, life, executing>>

\* Faulty variant: the request is read but stays in the queue.
LbPeeks ==
  /\ lb = None /\ queue # <<>>
  /\ lb' = Head(queue)
  /\ UNCHANGED <<inst, queue, rr, req>> /\ BalancerStep

LbTakes ==
  /\ lb = None /\ queue # <<>>
  /\ lb' = Head(queue)
  /\ queue' = Tail(queue)
  /\ UNCHANGED <<inst, rr, req>> /\ BalancerStep

\* round_robin_index is only used modulo the number of options, so it is
\* kept modulo a common multiple of all of them.
Factorial[n \in Nat] == IF n = 0 THEN 1 ELSE n * Factorial[n - 1]
RrPeriod == Factorial[Cardinality(Instances)]

Options == SelectSeq(order, CanAccept)

LbAssigns ==
  /\ lb # None /\ Options # <<>>
  /\ LET i == Options[(rr % Len(Options)) + 1]
     IN  /\ inst' = [inst EXCEPT ![i].load = @ + 1]
         /\ req' = [req EXCEPT ![lb].pc = "assigned", ![lb].inst = i]
  /\ rr' = (rr + 1) % RrPeriod
  /\ lb' = None
  /\ UNCHANGED queue /\ BalancerStep

---------------------------------------------------------------------------
(* inference().  A request record holds the locals: the instance of this   *)
(* attempt, attempts, force_retry_budget, the instance recovery_state came *)
(* from, whether this attempt uses it (state_snapshot), the candidates of  *)
(* the target planner, the instance in its in-flight entry (which outlives *)
(* the attempt), whether that attempt was aborted for migration, and the   *)
(* answer.                                                                 *)

RequestStep ==
  Alive /\ UNCHANGED <<order, lb, rr, scaling, spot, life, executing>>

Stateful == Policy = "stateful_recovery"

\* The top of the loop: attempts += 1, then the target planner of stateful
\* recovery or the queue of the load balancer.
Begin(r, q) ==
  IF Stateful /\ q.src # None
    THEN /\ req' = [req EXCEPT ![r] =
                      [q EXCEPT !.pc = "planning", !.att = @ + 1,
                                !.inst = None, !.cand = {}]]
         /\ UNCHANGED queue
    ELSE /\ req' = [req EXCEPT ![r] =
                      [q EXCEPT !.pc = "queued", !.att = @ + 1,
                                !.inst = None]]
         /\ queue' = Append(queue, r)

\* Return from inference(): the in-flight entry and request_count end too.
Answer(r, out) ==
  /\ req' = [req EXCEPT ![r] = [Idle EXCEPT !.pc = "done", !.out = out,
                                            !.att = req[r].att]]
  /\ UNCHANGED queue

\* Faulty variant: the first attempt is not counted against max_retries.
RetriesOnceMore(q) == Policy # "none" /\ q.att - 2 < MaxRetries

\* _should_retry(attempts - 1)
ShouldRetry(q) == Policy # "none" /\ q.att - 1 < MaxRetries

\* The end of a failed attempt that returned a result.  A native restore
\* that is required and has no snapshot ends the request instead.
RetryOrReturn(r, q, out) ==
  IF RequireNative /\ q.src = None THEN Answer(r, "error")
  ELSE IF ShouldRetry(q) \/ q.forced > 0
    THEN Begin(r, [q EXCEPT !.forced = IF @ > 0 THEN @ - 1 ELSE 0])
    ELSE Answer(r, out)

\* The end of an attempt that raised; force_retry_budget is not used here.
RetryOrRaise(r, q) == IF ShouldRetry(q) THEN Begin(r, q) ELSE Answer(r, "error")

\* A client calls inference().
Submit(r) ==
  /\ Alive /\ req[r].pc = "idle"
  /\ IF life = "running"
       THEN Begin(r, req[r]) /\ idle' = 0
       ELSE Answer(r, "stopped") /\ UNCHANGED idle
  /\ UNCHANGED <<inst, order, lb, rr, scaler, limits, spot, life, executing>>

\* _allocate_instance_for_request after its future was set.  If the instance
\* has left the ready pool the attempt fails without an instance, and the
\* slot the load balancer took is not given back.
AllocationResumes(r) ==
  /\ req[r].pc = "assigned"
  /\ IF Contains(order, req[r].inst)
       THEN /\ req' = [req EXCEPT ![r].pc = IF Stateful /\ req[r].src # None
                                              THEN "restoring" ELSE "calling",
                                  ![r].trk = req[r].inst]
            /\ UNCHANGED queue
       ELSE RetryOrRaise(r, [req[r] EXCEPT !.inst = None])
  /\ UNCHANGED inst /\ RequestStep

\* _plan_stateful_recovery_target: the ready instances other than the source
\* are probed one by one; what a probe finds decides who is a candidate.
PlanProbes(r) ==
  /\ req[r].pc = "planning"
  /\ \E c \in SUBSET {i \in ToSet(order) : /\ i # req[r].src
                                           /\ CanAccept(i)
                                           /\ inst[i].backend} :
       req' = [req EXCEPT ![r].pc = "reserving", ![r].cand = c]
  /\ UNCHANGED <<inst, queue>> /\ RequestStep

\* Faulty variant: no load balancer is asked when the target is busy.
ReservesOrGivesUp(r) ==
  /\ req[r].pc = "reserving"
  /\ \E t \in req[r].cand \cup {None} :
       IF t # None /\ CanAccept(t)
         THEN /\ inst' = [inst EXCEPT ![t].load = @ + 1]
              /\ req' = [req EXCEPT ![r].pc = "restoring", ![r].inst = t,
                                    ![r].trk = t, ![r].cand = {}]
         ELSE /\ req' = [req EXCEPT ![r].pc = "queued", ![r].cand = {}]
              /\ UNCHANGED inst
  /\ UNCHANGED queue /\ RequestStep

\* plan_compatible_state_target picks at most one of them; add_requests may
\* find it busy or closed by now, and then the load balancer is asked.
PlanReserves(r) ==
  /\ req[r].pc = "reserving"
  /\ \E t \in req[r].cand \cup {None} :
       IF t # None /\ CanAccept(t)
         THEN /\ inst' = [inst EXCEPT ![t].load = @ + 1]
              /\ req' = [req EXCEPT ![r].pc = "restoring", ![r].inst = t,
                                    ![r].trk = t, ![r].cand = {}]
              /\ UNCHANGED queue
         ELSE /\ req' = [req EXCEPT ![r].pc = "queued", ![r].cand = {}]
              /\ queue' = Append(queue, r)
              /\ UNCHANGED inst
  /\ RequestStep

\* _prepare_stateful_recovery: the state is restored on the target, or its
\* tokens are replayed; a required native restore that fails ends the
\* request through the ValueError branch.
Restores(r) ==
  /\ req[r].pc = "restoring"
  /\ \/ /\ req' = [req EXCEPT ![r].pc = "calling", ![r].snap = TRUE]
        /\ UNCHANGED <<inst, queue>>
     \/ /\ ~RequireNative
        /\ req' = [req EXCEPT ![r].pc = "calling", ![r].snap = FALSE]
        /\ UNCHANGED <<inst, queue>>
     \/ /\ RequireNative
        /\ Answer(r, "error")
        /\ inst' = [inst EXCEPT ![req[r].inst] = Release(@)]
  /\ RequestStep

\* What an attempt does with its slot and its instance when it ends.
Ends(r, h) == inst' = [inst EXCEPT ![req[r].inst] = Release(h)]

\* An aborted call returns the migration marker and nothing else.
Calling(r) == req[r].pc = "calling" /\ ~req[r].mig
Reachable(i) == inst[i].backend /\ inst[i].actor = "up"

BackendReturns(r) ==
  /\ Calling(r) /\ Reachable(req[r].inst)
  /\ Answer(r, "ok") /\ Ends(r, inst[req[r].inst])
  /\ RequestStep

\* The except branch for ValueError: a request the backend rejects, and a
\* required native restore without a receipt.
BackendRejects(r) ==
  /\ Calling(r) /\ Reachable(req[r].inst)
  /\ "invalid" \in Faults \/ (RequireNative /\ req[r].snap)
  /\ Answer(r, "error") /\ Ends(r, inst[req[r].inst])
  /\ RequestStep

\* An error or "preempted" result.  Stateful recovery waits for a snapshot.
FailedResult(r, h) ==
  IF Stateful
    THEN /\ req' = [req EXCEPT ![r].pc = "capturing"]
         /\ inst' = [inst EXCEPT ![req[r].inst] = h]
         /\ UNCHANGED queue
    ELSE RetryOrReturn(r, req[r], "error") /\ Ends(r, h)

BackendErrors(r) ==
  /\ Calling(r) /\ Reachable(req[r].inst) /\ "error" \in Faults
  /\ FailedResult(r, inst[req[r].inst])
  /\ RequestStep

BackendPreempted(r) ==
  /\ Calling(r) /\ Reachable(req[r].inst) /\ "preempted" \in Faults
  /\ FailedResult(r, Mark(inst[req[r].inst], "preempting"))
  /\ RequestStep

\* _capture_inference_state, with or without a state to restore
CaptureEnds(r) ==
  /\ req[r].pc = "capturing"
  /\ \E s \in {req[r].inst, None} :
       RetryOrReturn(r, [req[r] EXCEPT !.src = s], "error")
  /\ Ends(r, inst[req[r].inst])
  /\ RequestStep

\* The call raises: the actor is gone, backend_instance was taken away, or
\* Ray fails.  The tokens are captured before the instance is given up.
BackendRaises(r) ==
  /\ req[r].pc = "calling"
  /\ "raise" \in Faults \/ ~Reachable(req[r].inst)
  /\ req' = [req EXCEPT ![r].pc = "failed", ![r].mig = FALSE]
  /\ UNCHANGED <<inst, queue>> /\ RequestStep

\* Faulty variant: the exception path forgets the slot.
FailureKeepsSlot(r) ==
  /\ req[r].pc = "failed"
  /\ RetryOrRaise(r, req[r])
  /\ inst' = [inst EXCEPT ![req[r].inst] = Mark(@, "dead")]
  /\ RequestStep

FailureEnds(r) ==
  /\ req[r].pc = "failed"
  /\ \E s \in IF Stateful THEN {req[r].inst, None} ELSE {req[r].src} :
       RetryOrRaise(r, [req[r] EXCEPT !.src = s])
  /\ Ends(r, Mark(inst[req[r].inst], "dead"))
  /\ RequestStep

---------------------------------------------------------------------------
(* Spot events: handle_preemption, handle_recover, handle_add,             *)
(* handle_remove, handle_dead, drain_instance.                             *)

SpotStep == Alive /\ UNCHANGED <<order, balancing, req, scaling, life, executing>>

\* _matching_inference_instances
Matching(t) ==
  {i \in Instances : /\ inst[i].pool \in {"starting", "ready", "deleting"}
                     /\ i = t \/ inst[i].node = t}

\* What a handler does to one matching instance.  A deadline also kills the
\* actor and gives the GPUs back.
Marked(k, h) ==
  CASE k = "preempt"  -> Mark(h, "preempting")
    [] k = "recover"  -> MarkRecovered(h)
    [] k = "drain"    -> Mark(h, "draining")
    [] k = "deadline" -> [Deallocated(Killed(Mark(h, "dead")))
                            EXCEPT !.backend = FALSE]
    [] OTHER          -> Mark(h, "dead")

\* After the last instance the layout is planned anew, if that is enabled.
\* (Context migration after an event only computes and reports.)
Handled(k, m, left) ==
  [kind |-> k, todo |-> left, matches |-> m,
   pc |-> IF left # {} THEN "marking"
          ELSE IF Reparallelize /\ k # "drain" THEN "replan" ELSE "done"]

\* Recovery and draining go over all instances without a wait; preemption
\* and a deadline mark an instance and wait; the others wait first.
SpotBegins(e, k, t) ==
  /\ spot[e].pc = "idle"
  /\ LET m == IF k = "add" THEN {} ELSE Matching(t)
     IN  \E now \in IF k \in {"recover", "drain"} THEN {m}
                    ELSE IF k \in {"preempt", "deadline"} /\ m # {}
                      THEN {{i} : i \in m} ELSE {{}} :
           /\ inst' = [i \in Instances |-> IF i \in now THEN Marked(k, inst[i])
                                          ELSE inst[i]]
           /\ spot' = [spot EXCEPT ![e] = Handled(k, m, m \ now)]
  /\ SpotStep

SpotMarks(e, i) ==
  /\ spot[e].pc = "marking" /\ i \in spot[e].todo
  /\ inst' = [inst EXCEPT ![i] = Marked(spot[e].kind, @)]
  /\ spot' = [spot EXCEPT ![e] =
                 Handled(spot[e].kind, spot[e].matches, spot[e].todo \ {i})]
  /\ SpotStep

\* Nodes and instances an event can name, by the callers in the controller.
Targets(k) == CASE k \in {"add", "remove"} -> Nodes
                [] k = "drain" -> Instances
                [] OTHER -> Nodes \cup Instances

---------------------------------------------------------------------------
(* shutdown(), called by the controller's delete().  The load balancer and *)
(* the auto-scaler do not look at running and go on until the actor is     *)
(* gone.                                                                   *)

ShutdownStep == UNCHANGED <<req, balancing, scaling, spot, executing>>

\* A start task that is cancelled.  Before its first step it leaves the
\* handle as it is; while it waits for the scheduler it does not know its
\* GPUs; a cleanup that is cancelled is not finished.
Cancelled(h) ==
  CASE h.task = "begin"    -> [h EXCEPT !.task = "none"]
    [] h.task = "alloc"    -> [h EXCEPT !.task = "none", !.pool = "none"]
    [] h.task = "actor"    -> [Deallocated(h) EXCEPT !.task = "orphan",
                                                     !.pool = "none"]
    [] h.task = "init"     -> [h EXCEPT !.task = "cleaning", !.pool = "none"]
    [] h.task = "cleaning" -> [h EXCEPT !.task = "none"]
    [] OTHER               -> h

ShutdownBegins ==
  /\ MayShutdown /\ life = "running"
  /\ life' = "cancelling"
  /\ inst' = [i \in Instances |-> Cancelled(inst[i])]
  /\ UNCHANGED order /\ ShutdownStep

\* A queued request makes shutdown() raise: the loop takes the queue's
\* entries for pairs, and they are futures.  The controller does not get to
\* its own cleanup then.
ShutdownFails ==
  /\ life = "cancelling" /\ queue # <<>>
  /\ life' = "failed"
  /\ queue' = Tail(queue)
  /\ UNCHANGED <<inst, order, lb, rr, req, scaling, spot, executing>>

\* _shutdown_instance_handle.  A start that began after the cancellations goes
\* on; what it has so far is given up at once.
ShutDown(h) ==
  LET dead == [Mark(h, "dead") EXCEPT !.pool = "none"]
  IN  CASE h.task \in {"begin", "alloc"} -> dead
        [] h.task \in {"actor", "init"}  -> Deallocated(Killed(dead))
        [] OTHER                         -> [dead EXCEPT !.task = "cleaning"]

\* All pools are cleared and every handle in them is shut down.
ShutdownStops ==
  /\ life = "cancelling" /\ queue = <<>>
  /\ life' = "stopping"
  /\ order' = <<>>
  /\ inst' = [i \in Instances |->
                IF inst[i].pool = "none" THEN inst[i] ELSE ShutDown(inst[i])]
  /\ ShutdownStep

\* clear_model of the scheduler: it fails what is queued and drops what is
\* recorded; a grant whose caller has not resumed is recorded later.
Cleared(h) ==
  IF h.gpu = "asked" \/ h.task # "alloc" THEN [h EXCEPT !.gpu = "none"] ELSE h

ShutdownClears ==
  /\ life = "stopping" /\ \A i \in Instances : inst[i].task # "cleaning"
  /\ life' = "cleared"
  /\ inst' = [i \in Instances |-> Cleared(inst[i])]
  /\ UNCHANGED order /\ ShutdownStep

\* The controller clears the scheduler once more, kills the detached actors
\* of the model and drops the router; after a failure it only drops it.
RouterGone ==
  /\ \/ /\ life = "cleared"
        /\ inst' = [i \in Instances |-> Cleared(Killed(inst[i]))]
     \/ /\ life = "failed"
        /\ UNCHANGED inst
  /\ life' = "gone"
  /\ UNCHANGED order /\ ShutdownStep

---------------------------------------------------------------------------

InstanceNext ==
  \E i \in Instances :
    \/ \E n \in Nodes : SchedulerGrants(i, n)
    \/ ActorDies(i)
    \/ StartBegins(i) \/ StartAllocated(i) \/ ActorStarts(i) \/ InitEnds(i)
    \/ StartFails(i) \/ CleaningEnds(i) \/ OrphanStarts(i)
    \/ FinishInstance(i) \/ FinishEnds(i)

ScalerNext ==
  \/ \E i \in Instances : ScalerCreates(i)
  \/ ScalerIdles \/ ScalerStops \/ ScalerBlocks
  \/ \E u \in Updates : Update(u)

RequestNext ==
  \/ LbTakes \/ LbAssigns
  \/ \E r \in Requests :
       \/ Submit(r) \/ AllocationResumes(r)
       \/ PlanProbes(r) \/ PlanReserves(r) \/ Restores(r)
       \/ BackendReturns(r) \/ BackendRejects(r) \/ BackendErrors(r)
       \/ BackendPreempted(r) \/ CaptureEnds(r)
       \/ BackendRaises(r) \/ FailureEnds(r)

SpotNext ==
  \E e \in Events :
    \/ \E k \in SpotKinds : \E t \in Targets(k) : SpotBegins(e, k, t)
    \/ \E i \in Instances : SpotMarks(e, i)

ShutdownNext ==
  \/ ShutdownBegins \/ ShutdownFails \/ ShutdownStops
  \/ ShutdownClears \/ RouterGone

Next == InstanceNext \/ ScalerNext \/ RequestNext \/ SpotNext \/ ShutdownNext

Spec == Init /\ [][Next]_vars

---------------------------------------------------------------------------
(* Fairness: asyncio resumes every task whose wait is over, Ray answers    *)
(* every call, the scheduler serves a request it has room for.  Clients,   *)
(* spot events, updates and faults need not happen.                        *)

ScalerRound ==
  \/ \E i \in Instances : ScalerCreates(i)
  \/ ScalerIdles \/ ScalerStops \/ ScalerBlocks

BackendAnswers(r) ==
  \/ BackendReturns(r) \/ BackendRejects(r) \/ BackendErrors(r)
  \/ BackendPreempted(r) \/ BackendRaises(r)

Fairness ==
  /\ WF_vars(ScalerRound) /\ WF_vars(LbTakes) /\ WF_vars(LbAssigns)
  /\ \A i \in Instances :
       /\ WF_vars(\E n \in Nodes : SchedulerGrants(i, n))
       /\ WF_vars(StartBegins(i)) /\ WF_vars(StartAllocated(i))
       /\ WF_vars(ActorStarts(i)) /\ WF_vars(InitEnds(i) \/ StartFails(i))
       /\ WF_vars(CleaningEnds(i)) /\ WF_vars(OrphanStarts(i))
       /\ WF_vars(FinishInstance(i)) /\ WF_vars(FinishEnds(i))
  /\ \A r \in Requests :
       /\ WF_vars(AllocationResumes(r)) /\ WF_vars(PlanProbes(r))
       /\ WF_vars(PlanReserves(r)) /\ WF_vars(Restores(r))
       /\ WF_vars(BackendAnswers(r))
       /\ WF_vars(CaptureEnds(r)) /\ WF_vars(FailureEnds(r))
  /\ \A e \in Events : WF_vars(\E i \in Instances : SpotMarks(e, i))

FairSpec == Spec /\ Fairness

---------------------------------------------------------------------------
(* Properties *)

\* Every variable keeps its type, loads stay within the queue length, and
\* the ready pool lists exactly the handles filed there, once each.
TypeOK ==
  /\ inst \in [Instances ->
       [state : State, load : 0..MaxQueueLength, pool : Pool,
        gpu : {"none", "asked"} \cup Nodes, node : Nodes \cup {None},
        actor : {"none", "up", "gone"}, backend : BOOLEAN, task : Task]]
  /\ IsInjective(order) /\ ToSet(order) \subseteq Instances
  /\ IsInjective(queue) /\ ToSet(queue) \subseteq Requests
  /\ lb \in Requests \cup {None} /\ rr \in Nat
  /\ \A r \in Requests :
       /\ req[r].pc \in {"idle", "queued", "planning", "reserving",
                         "assigned", "restoring", "calling", "capturing",
                         "failed", "done"}
       /\ req[r].inst \in Instances \cup {None}
       /\ {req[r].src, req[r].trk} \subseteq Instances \cup {None}
       /\ req[r].cand \subseteq Instances
       /\ req[r].att \in Nat /\ req[r].forced \in Nat
       /\ req[r].out \in {None, "ok", "error", "stopped"}
  /\ scaler \in {"loop", "stop"} /\ idle \in 0..KeepAlive
  /\ limits \in Nat \X Nat /\ executing \in BOOLEAN
  /\ life \in {"running", "cancelling", "failed", "stopping", "cleared",
               "gone"}
  /\ \A e \in Events : /\ spot[e].kind \in SpotKinds \cup {None}
                        /\ spot[e].todo \subseteq spot[e].matches
                        /\ spot[e].matches \subseteq Instances

Holders(i) ==
  {r \in Requests : /\ req[r].inst = i
                    /\ req[r].pc \in {"assigned", "restoring", "calling",
                                      "capturing", "failed"}}

\* On an instance that can still be chosen the concurrency counter equals the
\* number of requests that hold a slot there, whatever way earlier attempts
\* ended: a slot is neither lost nor given back twice.  Elsewhere the counter
\* is never below it (InstanceHandle.add_requests, inference()).
SlotsExact ==
  \A i \in Instances :
    /\ inst[i].load >= Cardinality(Holders(i))
    /\ Contains(order, i) => inst[i].load = Cardinality(Holders(i))

\* A waiting request is known to exactly one place: once in request_queue, or
\* in the hands of the load balancer, and nowhere when it is not waiting
\* (_allocate_instance_for_request, _load_balancer_loop).
QueuedOnce ==
  life = "running" =>
    \A r \in Requests :
      (req[r].pc = "queued") = (Contains(queue, r) # (lb = r))

\* What InstanceHandle promises holds of all handles of the router, through
\* any interleaving of its tasks.
Lifecycle == INSTANCE InstanceLifecycle WITH
               state <- [i \in Instances |-> inst[i].state],
               concurrency <- [i \in Instances |-> inst[i].load]
HandlesFollowLifecycle == Lifecycle!Spec

\* A request is tried at most max_retries + 1 times, and once without a
\* recovery policy, plus the retry that a replan forces (_should_retry).
AttemptsBounded ==
  \A r \in Requests :
    req[r].att <= 1 + IF Policy = "none" THEN 0 ELSE MaxRetries

\* Every request is accounted for while calls, faults and scaling interleave: its
\* slot, its place while it waits, and its attempts.
RequestsAccounted == SlotsExact /\ QueuedOnce /\ AttemptsBounded

\* An instance that takes requests holds GPUs on its node and has a backend
\* (_start_instance, handle_dead with a deadline, mark_recovered).
ReadyIsBacked ==
  \A i \in Instances :
    Contains(order, i) /\ inst[i].state = "ready" =>
      inst[i].backend /\ inst[i].gpu = inst[i].node /\ inst[i].node \in Nodes

\* The instances counted as capacity never exceed max_instances, although
\* an instance is counted in the starting and then in the ready pool
\* (_auto_scaler_loop, _counts_toward_capacity).
WithinMaxInstances == Cardinality(Capacity) <= limits[2]

\* Scale-down does not stop an instance that a request is using.
BusyNotStopped ==
  [][\A i \in Instances :
       inst[i].task # "finish" /\ inst' [i].task = "finish"
         => Holders(i) = {}]_vars

\* Once the controller has deleted the model, no actor of it runs and no GPU
\* is held for it (controller.delete, shutdown).
NothingAfterDelete ==
  life = "gone" =>
    \A i \in Instances : inst[i].actor # "up" /\ inst[i].gpu \notin Nodes

\* Every request that was accepted is answered.
RequestsAnswered ==
  \A r \in Requests : (req[r].pc = "queued") ~> (req[r].pc = "done")

\* When the last request is answered and none is made, the model scales down
\* to min_instances, and the GPUs beyond it are returned.
ScalesDown ==
  (Active = {}) ~> (Active # {} \/ Cardinality(Held) <= limits[1])

=============================================================================
