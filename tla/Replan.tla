------------------------------- MODULE Replan -------------------------------
(***************************************************************************)
(* Changing the parallel layout of a running vLLM deployment: the replan   *)
(* that follows a spot event (_replan_after_spot_event of the router),     *)
(* ReparallelizationExecutor.apply, and the VllmDeploymentAdapter steps it *)
(* is built from, over the router's pools, requests and GPUs.              *)
(*                                                                         *)
(* What the planner selects is left open: no change, an expert remap or an *)
(* elastic resize of the running deployment, or a new deployment of some   *)
(* number of replicas.  A step of a drain that has nothing to wait for is  *)
(* a step of its own here, although the code does not suspend there.       *)
(***************************************************************************)
EXTENDS Router

CONSTANTS
  Modes,         \* executions the planner may select
  ReplicaCounts, \* replica_count of the plans it selects
  Orders,        \* the executor's options: "stop" (allow_stop_before_recreate,
                 \* break before make) and "migrate" (migrate_before_create)
  ExecFaults     \* what fails during an execution

ASSUME ReplanAssumption ==
  /\ Modes \subseteq {"create", "remap", "resize"}
  /\ ReplicaCounts \subseteq Nat \ {0}
  /\ Orders \subseteq SUBSET {"stop", "migrate"}
  /\ ExecFaults \subseteq {"create", "probe", "export", "switch", "drain",
                           "release", "runtime", "resize"}

VARIABLE job   \* the holder of _reparallelization_lock

NoJob == [pc |-> "idle", ev |-> None, old |-> <<>>, target |-> <<>>, todo |-> {},
          stage |-> None, mig |-> {}, count |-> 0, new |-> None,
          first |-> {}]

ReplanInit == Init /\ job = NoJob

planVars == <<vars, job>>

InJob(pc) == Alive /\ job.pc = pc

\* The instances of the old and of the new deployment.
Old == ToSet(job.old)
New == ToSet(job.target)

---------------------------------------------------------------------------
(* The lock is released with the event, by success or failure.  In both    *)
(* cases _reparallelization_execution_active is reset.                     *)

\* Faulty variant: the auto-scaler stays switched off.
KeepsExecuting ==
  /\ job' = NoJob
  /\ spot' = [spot EXCEPT ![job.ev].pc = "done"]
  /\ UNCHANGED executing

EndsJob ==
  /\ job' = NoJob
  /\ spot' = [spot EXCEPT ![job.ev].pc = "done"]
  /\ executing' = FALSE

Elsewhere == UNCHANGED <<balancing, scaler, idle, life>>

\* An event takes the lock and asks the scheduler for its nodes.
ReplanStarts(e) ==
  /\ Alive /\ spot[e].pc = "replan" /\ job.pc = "idle"
  /\ job' = [NoJob EXCEPT !.pc = "planning", !.ev = e]
  /\ UNCHANGED <<inst, order, req, limits, spot, executing>> /\ Elsewhere

\* The plan changes nothing, or cannot be executed.
ReplanKeeps ==
  /\ InJob("planning")
  /\ EndsJob
  /\ UNCHANGED <<inst, order, req, limits>> /\ Elsewhere

\* drain_workers, first part: no new requests for the old instances; the
\* requests last seen on them are the ones to migrate.
DrainMarks(old) ==
  inst' = [i \in Instances |-> IF i \in old THEN Mark(inst[i], "draining")
                               ELSE inst[i]]

Draining(j, stage) ==
  LET entries == {r \in Active : req[r].trk \in ToSet(j.old)}
  IN  [j EXCEPT !.pc = "draining", !.stage = stage, !.todo = entries,
                !.mig = entries]

\* The ready pool is the old deployment.  apply() begins with the drain that
\* its options call for, or with the first target.
ReplanCreates ==
  /\ InJob("planning") /\ "create" \in Modes
  /\ \E c \in ReplicaCounts, first \in Orders :
       LET j == [job EXCEPT !.old = order, !.count = c, !.first = first]
       IN  IF first # {}
             THEN /\ job' = Draining(j, IF "migrate" \in first THEN "pre"
                                       ELSE "stop")
                  /\ DrainMarks(ToSet(order))
             ELSE job' = [j EXCEPT !.pc = "creating"] /\ UNCHANGED inst
  /\ executing' = TRUE
  /\ UNCHANGED <<order, req, limits, spot>> /\ Elsewhere

\* Both in-place executions need every instance READY.
AllReady(s) == s # {} /\ \A i \in s : inst[i].state = "ready"

ReplanRemaps ==
  /\ InJob("planning") /\ "remap" \in Modes /\ AllReady(ToSet(order))
  /\ job' = [job EXCEPT !.pc = "remapping", !.old = order,
                        !.todo = ToSet(order), !.count = Len(order)]
  /\ executing' = TRUE
  /\ UNCHANGED <<inst, order, req, limits, spot>> /\ Elsewhere

ReplanResizes ==
  /\ InJob("planning") /\ "resize" \in Modes /\ AllReady(ToSet(order))
  /\ Len(order) = 1
  /\ job' = [job EXCEPT !.pc = "resizing", !.old = order, !.count = 1]
  /\ DrainMarks(ToSet(order))
  /\ executing' = TRUE
  /\ UNCHANGED <<order, req, limits, spot>> /\ Elsewhere

---------------------------------------------------------------------------
(* Draining, _prepare_reparallelization_requests. *)

JobStep == UNCHANGED <<order, limits, spot, executing>> /\ Elsewhere

\* What follows an exception in a drain: before the target exists apply()
\* fails as it is; afterwards the target is stopped first.
DrainFails ==
  /\ InJob("draining") /\ job.todo # {}
  /\ RequireNative /\ "export" \in ExecFaults
  /\ IF job.stage = "post"
       THEN /\ job' = [job EXCEPT !.pc = "undoing", !.todo = New]
            /\ UNCHANGED <<spot, executing>>
       ELSE EndsJob
  /\ UNCHANGED <<inst, order, req, limits>> /\ Elsewhere

\* State is exported and the engine asked to abort.  The abort finds the
\* request if its call is still running on the instance of the entry;
\* otherwise, or without the hook, the request goes on by itself.
MigrateRequest(r) ==
  /\ InJob("draining") /\ r \in job.todo
  /\ job' = [job EXCEPT !.todo = @ \ {r}]
  /\ \/ UNCHANGED req
     \/ /\ Calling(r) /\ req[r].inst = req[r].trk /\ Reachable(req[r].inst)
        /\ req' = [req EXCEPT ![r].mig = TRUE]
  /\ UNCHANGED inst /\ JobStep

\* inference() gets the marker: it takes over the exported state, if there
\* is one, and may retry once beyond its budget.
AbortReturns(r) ==
  /\ req[r].pc = "calling" /\ req[r].mig
  /\ \E s \in {req[r].inst, None} :
       RetryOrReturn(r, [req[r] EXCEPT !.src = s, !.mig = FALSE,
                                       !.forced = IF @ = 0 THEN 1 ELSE @],
                     "error")
  /\ Ends(r, inst[req[r].inst])
  /\ UNCHANGED job /\ RequestStep

Empty(s) == \A i \in s : inst[i].load = 0

\* The drain ends when the old instances are empty, or at its timeout, and
\* apply() goes on.  A drain for stop_current_before_create may be the
\* second one.
DrainEnds ==
  /\ InJob("draining") /\ job.todo = {}
  /\ Empty(Old) \/ "drain" \in ExecFaults
  /\ CASE job.stage = "pre" /\ "stop" \in job.first ->
            job' = Draining(job, "stop") /\ DrainMarks(Old)
       [] job.stage = "pre" /\ "stop" \notin job.first ->
            job' = [job EXCEPT !.pc = "creating"] /\ UNCHANGED inst
       [] job.stage = "stop" ->
            job' = [job EXCEPT !.pc = "stopping", !.todo = Old]
              /\ UNCHANGED inst
       [] OTHER ->
            job' = [job EXCEPT !.pc = "switching"] /\ UNCHANGED inst
  /\ UNCHANGED req /\ JobStep

---------------------------------------------------------------------------
(* stop_workers: of the old deployment, or of a target that is given up.   *)

Stopped(h) == Deallocated(Killed(Mark(h, "dead")))

StopWorker(i) ==
  /\ Alive /\ job.pc \in {"stopping", "undoing"} /\ i \in job.todo
  /\ inst' = [inst EXCEPT ![i] = Stopped(@)]
  /\ job' = [job EXCEPT !.todo = @ \ {i}]
  /\ UNCHANGED req /\ JobStep

\* The old deployment is gone.  Before the switch, the target comes next.
StopEnds ==
  /\ InJob("stopping") /\ job.todo = {}
  /\ IF job.stage = "stop"
       THEN /\ job' = [job EXCEPT !.pc = "creating"]
            /\ UNCHANGED <<spot, executing>>
       ELSE EndsJob
  /\ UNCHANGED <<inst, order, req, limits>> /\ Elsewhere

\* Faulty variant: a failure before the first handle exists is overlooked.
UndoneOnlyWithTarget ==
  /\ InJob("undoing") /\ job.todo = {} /\ job.target # <<>>
  /\ EndsJob
  /\ UNCHANGED <<inst, order, req, limits>> /\ Elsewhere

\* The target is gone and the exception reaches the router.
UndoEnds ==
  /\ InJob("undoing") /\ job.todo = {}
  /\ EndsJob
  /\ UNCHANGED <<inst, order, req, limits>> /\ Elsewhere

---------------------------------------------------------------------------
(* create_workers, one replica after the other *)

CreateAsks(i) ==
  /\ InJob("creating") /\ job.new = None
  /\ Len(job.target) < job.count
  /\ inst[i] = Absent
  /\ inst' = [inst EXCEPT ![i].gpu = "asked", ![i].task = "creating"]
  /\ job' = [job EXCEPT !.new = i]
  /\ UNCHANGED req /\ JobStep

\* The handle exists from here on, and so a failure releases its GPUs.
CreateAllocated ==
  /\ InJob("creating") /\ job.new # None
  /\ inst[job.new].state = "absent" /\ inst[job.new].gpu \in Nodes
  /\ inst' = [inst EXCEPT ![job.new].state = "starting",
                          ![job.new].node = inst[job.new].gpu]
  /\ job' = [job EXCEPT !.target = Append(@, job.new)]
  /\ UNCHANGED req /\ JobStep

\* The actor is there and init_backend returns: mark_ready.
CreateReady ==
  /\ InJob("creating") /\ job.new \in New
  /\ inst' = [inst EXCEPT ![job.new] =
                [MarkReady(@) EXCEPT !.actor = "up", !.backend = TRUE,
                                     !.task = "none"]]
  /\ job' = [job EXCEPT !.new = None]
  /\ UNCHANGED req /\ JobStep

\* Faulty variant: a failed creation only gives up the replica it was at.
UndoesOne ==
  /\ InJob("creating") /\ job.new # None /\ "create" \in ExecFaults
  /\ inst[job.new].gpu # "none"
  /\ inst' = [inst EXCEPT ![job.new] =
                IF @.state = "absent" THEN Absent ELSE [@ EXCEPT !.task = "none"]]
  /\ job' = [job EXCEPT !.pc = "undoing", !.todo = {job.new} \cap New]
  /\ UNCHANGED req /\ JobStep

\* The allocation, the actor or its initialisation fails.
CreateFails ==
  /\ InJob("creating") /\ job.new # None /\ "create" \in ExecFaults
  /\ inst[job.new].state = "absent" => inst[job.new].gpu = "asked"
  /\ inst' = [inst EXCEPT ![job.new] =
                IF @.state = "absent" THEN Absent ELSE [@ EXCEPT !.task = "none"]]
  /\ job' = [job EXCEPT !.pc = "undoing", !.todo = New]
  /\ UNCHANGED req /\ JobStep

\* ready_workers, and the drain of the old deployment unless apply() drained
\* or stopped it before.
TargetReady ==
  /\ InJob("creating") /\ job.new = None
  /\ Len(job.target) = job.count
  /\ AllReady(New)
  /\ IF job.first # {}
       THEN job' = [job EXCEPT !.pc = "switching"] /\ UNCHANGED inst
       ELSE job' = Draining(job, "post") /\ DrainMarks(Old)
  /\ UNCHANGED req /\ JobStep

TargetNotReady ==
  /\ InJob("creating") /\ job.new = None
  /\ Len(job.target) = job.count
  /\ "probe" \in ExecFaults \/ ~AllReady(New)
  /\ job' = [job EXCEPT !.pc = "undoing", !.todo = New]
  /\ UNCHANGED <<inst, req>> /\ JobStep

---------------------------------------------------------------------------
(* _switch_vllm_deployment: the deployment d becomes the ready pool.       *)
(* Other handles of the pool are kept in the deleting pool, without a task *)
(* that would finish them.                                                 *)

Switched(d) ==
  /\ order' = d
  /\ inst' = [i \in Instances |->
                IF Contains(d, i) THEN [inst[i] EXCEPT !.pool = "ready"]
                ELSE IF Contains(order, i)
                  THEN [inst[i] EXCEPT !.pool = "deleting"] ELSE inst[i]]
  /\ limits' = <<job.count, job.count>>

\* A new deployment takes over.  With an old one left, the migrated requests
\* are waited for before it is stopped.
SwitchTraffic ==
  /\ InJob("switching")
  /\ Switched(job.target)
  /\ IF "stop" \in job.first
       THEN EndsJob
       ELSE /\ job' = [job EXCEPT !.pc = "waiting"]
            /\ UNCHANGED <<spot, executing>>
  /\ UNCHANGED req /\ Elsewhere

\* A target node is not READY any more.
SwitchFails ==
  /\ InJob("switching") /\ "switch" \in ExecFaults
  /\ job' = [job EXCEPT !.pc = "undoing", !.todo = New]
  /\ UNCHANGED <<inst, req>> /\ JobStep

\* Faulty variant: the source is stopped right after the switch.
StopsAtOnce ==
  /\ InJob("waiting")
  /\ job' = [job EXCEPT !.pc = "stopping", !.stage = "post", !.todo = Old]
  /\ UNCHANGED <<inst, req>> /\ JobStep

\* _wait_for_reparallelization_requests
MigrationDone ==
  /\ InJob("waiting") /\ job.mig \cap Active = {}
  /\ job' = [job EXCEPT !.pc = "stopping", !.stage = "post", !.todo = Old]
  /\ UNCHANGED <<inst, req>> /\ JobStep

\* Its timeout ends apply(), and the source is not stopped.
MigrationTimesOut ==
  /\ InJob("waiting") /\ "release" \in ExecFaults
  /\ job.mig \cap Active # {}
  /\ EndsJob
  /\ UNCHANGED <<inst, order, req, limits>> /\ Elsewhere

---------------------------------------------------------------------------
(* In-place executions *)

RemapWorker(i) ==
  /\ InJob("remapping") /\ i \in job.todo
  /\ job' = [job EXCEPT !.todo = @ \ {i}]
  /\ UNCHANGED <<inst, req>> /\ JobStep

InPlaceEnds ==
  /\ InJob("remapping") /\ job.todo = {}
  /\ Switched(job.old)
  /\ EndsJob
  /\ UNCHANGED req /\ Elsewhere

\* The remap fails in an engine, or the switch finds a node not READY.
RemapFails ==
  /\ InJob("remapping") /\ "runtime" \in ExecFaults
  /\ EndsJob
  /\ UNCHANGED <<inst, order, req, limits>> /\ Elsewhere

Reopened(h) == IF h.state = "draining" THEN [h EXCEPT !.state = "ready"] ELSE h

Reopens == inst' = [i \in Instances |-> IF i \in Old THEN Reopened(inst[i])
                                         ELSE inst[i]]

\* resize_workers_elastic_ep: admission is closed, the requests run out, and
\* then the engine is resized.
ResizeDrained ==
  /\ InJob("resizing") /\ Empty(Old)
  /\ job' = [job EXCEPT !.pc = "resized"]
  /\ UNCHANGED <<inst, req>> /\ JobStep

\* The requests take too long, or the scheduler has no GPUs to add.
ResizeGivesUp ==
  /\ \/ InJob("resizing") /\ "drain" \in ExecFaults
     \/ InJob("resized") /\ "resize" \in ExecFaults
  /\ Reopens /\ EndsJob
  /\ UNCHANGED <<order, req, limits>> /\ Elsewhere

\* The engine fails: admission stays closed.
ResizeFails ==
  /\ InJob("resized") /\ "runtime" \in ExecFaults
  /\ EndsJob
  /\ UNCHANGED <<inst, order, req, limits>> /\ Elsewhere

\* mark_ready_after_drain; an instance that was closed by an event meanwhile
\* stays closed, and then there is no switch.
ResizeEnds ==
  /\ InJob("resized")
  /\ IF \A i \in Old : inst[i].state = "draining"
       THEN /\ order' = job.old
            /\ inst' = [i \in Instances |->
                          IF i \in Old
                            THEN [Reopened(inst[i]) EXCEPT !.pool = "ready"]
                          ELSE IF Contains(order, i)
                            THEN [inst[i] EXCEPT !.pool = "deleting"]
                          ELSE inst[i]]
            /\ limits' = <<1, 1>>
       ELSE UNCHANGED <<inst, order, limits>>
  /\ EndsJob
  /\ UNCHANGED req /\ Elsewhere

---------------------------------------------------------------------------

RequestReplan == \E r \in Requests : MigrateRequest(r) \/ AbortReturns(r)

JobNext ==
  \/ \E e \in Events : ReplanStarts(e)
  \/ ReplanKeeps \/ ReplanCreates \/ ReplanRemaps \/ ReplanResizes
  \/ DrainFails \/ DrainEnds \/ RequestReplan
  \/ \E i \in Instances : StopWorker(i) \/ CreateAsks(i) \/ RemapWorker(i)
  \/ StopEnds \/ UndoEnds
  \/ CreateAllocated \/ CreateReady \/ CreateFails
  \/ TargetReady \/ TargetNotReady
  \/ SwitchTraffic \/ SwitchFails \/ MigrationDone \/ MigrationTimesOut
  \/ InPlaceEnds \/ RemapFails
  \/ ResizeDrained \/ ResizeGivesUp \/ ResizeFails \/ ResizeEnds

ReplanNext == (Next /\ UNCHANGED job) \/ JobNext

ReplanSpec == ReplanInit /\ [][ReplanNext]_planVars

\* As in Router: whatever was awaited is resumed.  The scheduler and the
\* engines answer, with success or with an exception.
JobFairness ==
  /\ \A e \in Events : WF_planVars(ReplanStarts(e))
  /\ WF_planVars(ReplanKeeps \/ ReplanCreates \/ ReplanRemaps \/ ReplanResizes)
  /\ \A r \in Requests : /\ WF_planVars(DrainFails \/ MigrateRequest(r))
                         /\ WF_planVars(AbortReturns(r))
  /\ WF_planVars(DrainEnds) /\ WF_planVars(StopEnds) /\ WF_planVars(UndoEnds)
  /\ \A i \in Instances : WF_planVars(StopWorker(i))
                          /\ WF_planVars(RemapWorker(i))
  /\ WF_planVars(\E i \in Instances : CreateAsks(i))
  /\ WF_planVars(CreateAllocated) /\ WF_planVars(CreateReady \/ CreateFails)
  /\ WF_planVars(TargetReady \/ TargetNotReady)
  /\ WF_planVars(SwitchTraffic \/ SwitchFails)
  /\ WF_planVars(MigrationDone \/ MigrationTimesOut)
  /\ WF_planVars(InPlaceEnds \/ RemapFails)
  /\ WF_planVars(ResizeDrained \/ ResizeGivesUp)
  /\ WF_planVars(ResizeFails \/ ResizeEnds)

ReplanFairSpec == ReplanSpec /\ Fairness /\ JobFairness

---------------------------------------------------------------------------
(* Properties *)

\* The executor's record is well formed: a target never belongs to the old
\* deployment, and old and target instances exist.
ReplanTypeOK ==
  /\ TypeOK
  /\ job.pc \in {"idle", "planning", "draining", "stopping", "undoing",
                 "creating", "switching", "waiting", "remapping", "resizing",
                 "resized"}
  /\ IsInjective(job.old \o job.target)
  /\ Old \cup New \subseteq Instances
  /\ job.mig \subseteq Requests
  /\ executing = (job.pc \notin {"idle", "planning"})
  /\ \A i \in Old \cup New : inst[i].state # "absent"

\* A request that was migrated with state exported from an old instance finds
\* that instance's actor alive until it is answered: in make-before-break
\* the source is not stopped under a lease, whatever times out
\* (migration_requires_live_source, _wait_for_reparallelization_requests).
SourceOutlivesMigration ==
  "stop" \notin job.first => \A r \in job.mig \cap Active :
    req[r].src \in Old => inst[req[r].src].actor = "up"

\* A replan that ends, in success or failure, leaves no GPUs with an instance
\* that is in no pool: a target is either serving or released, down to a
\* failure at its second replica (create_workers, apply).
TargetsReleased ==
  \A i \in Instances \ New :
    inst[i].pool \in {"none", "failed"} /\ inst[i].task = "none" =>
      inst[i].gpu \notin Nodes

\* A replan that makes the target before it breaks the source and fails
\* before the switch leaves the instances that served as they were.
FailedReplanKeepsServing ==
  [][job.pc = "undoing" /\ job' = NoJob =>
       \A i \in Old : inst' [i].state = "ready"]_planVars

\* Every replan that takes the lock releases it, so that the auto-scaler
\* works again and the next event is served.
ReplanEnds == (job.pc # "idle") ~> (job.pc = "idle")

=============================================================================
