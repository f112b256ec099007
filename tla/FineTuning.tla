----------------------------- MODULE FineTuning -----------------------------
(***************************************************************************)
(* Fine-tuning jobs: the job store, the controller's job loop and its      *)
(* _start_ft_job (sllm/controller.py, fine_tuning_job_store.py), the       *)
(* fine_tuning call of the job's own router with its instance              *)
(* (roundrobin_router.py), and the backend that trains                     *)
(* (ft_backends/peft_lora_backend.py).                                     *)
(*                                                                         *)
(* The loop awaits one job at a time.  The router's call runs in another   *)
(* actor: the loop's timeout gives up waiting for it and does not end it.  *)
(* Jobs are numbered in the order they were created.                       *)
(***************************************************************************)
EXTENDS Integers, FiniteSets, SequencesExt

CONSTANTS Jobs,        \* 1..n
          Priority,    \* priority of each job, the smaller first
          Gpus,        \* GPUs each job asks for
          Total,       \* GPUs Ray has
          Downloaded,  \* models that the store manager knows already
          Faults,      \* download, router, start, train, timeout
          None

VARIABLES jobs,     \* the store: status of each job, or None
          loop,     \* _process_ft_jobs: where it is, and what is left of a pass
          left,     \* available_resources["GPU"] of the pass
          run,      \* the router's fine_tuning call of each job
          held      \* jobs whose instance has GPUs in the scheduler's books

vars == <<jobs, loop, left, run, held>>

Sum(S) == FoldSet(LAMBDA j, n : n + Gpus[j], 0, S)

Init ==
    /\ jobs = [j \in Jobs |-> None]
    /\ loop = [at |-> "idle", todo |-> <<>>]
    /\ left = 0
    /\ run = [j \in Jobs |-> "none"]
    /\ held = {}

\* register_ft_job
RegisterJob(j) ==
    /\ jobs[j] = None /\ (j > 1 => jobs[j - 1] # None)
    /\ jobs' = [jobs EXCEPT ![j] = "pending"]
    /\ UNCHANGED <<loop, left, run, held>>

-----------------------------------------------------------------------------
(* The loop.                                                               *)

Before(i, j) == Priority[i] < Priority[j] \/ (Priority[i] = Priority[j] /\ i < j)

\* What Ray has left: the job's router reserves the job's GPUs for itself, and
\* its instance reserves them once more.
Up == {j \in Jobs : run[j] \notin {"none", "done", "error", "gone"}}
Training == {j \in Jobs : run[j] \in {"training", "closing", "closing failed"}}
Free == Total - Sum(Up) - Sum(Training)

Pending == {j \in Jobs : jobs[j] = "pending"}

\* A pass takes the pending jobs and reads the free GPUs from Ray.
PassBegins ==
    /\ loop.at = "idle" /\ Pending # {}
    /\ loop' = [at |-> "pass", todo |-> SetToSortSeq(Pending, Before)]
    /\ left' = Free
    /\ UNCHANGED <<jobs, run, held>>

Goes(job, status) == jobs' = [jobs EXCEPT ![job] = status]

\* Faulty variant of NextJob: the pass ends at a job that does not fit.
EndsPass ==
    /\ loop.at = "pass"
    /\ IF loop.todo = <<>> \/ left < Gpus[Head(loop.todo)]
       THEN loop' = [at |-> "idle", todo |-> <<>>] /\ UNCHANGED jobs
       ELSE /\ Goes(Head(loop.todo), "running")
            /\ loop' = [loop EXCEPT !.at = "starting"]
    /\ UNCHANGED <<left, run, held>>

\* The next job of the pass is started if it fits, and skipped otherwise.
NextJob ==
    /\ loop.at = "pass"
    /\ IF loop.todo = <<>>
       THEN loop' = [loop EXCEPT !.at = "idle"] /\ UNCHANGED jobs
       ELSE IF left < Gpus[Head(loop.todo)]
       THEN loop' = [loop EXCEPT !.todo = Tail(@)] /\ UNCHANGED jobs
       ELSE /\ Goes(Head(loop.todo), "running")
            /\ loop' = [loop EXCEPT !.at = "starting"]
    /\ UNCHANGED <<left, run, held>>

\* _start_ft_job returned, and the pass goes on with fewer GPUs.
Continues ==
    /\ left' = left - Gpus[Head(loop.todo)]
    /\ loop' = [at |-> "pass", todo |-> Tail(loop.todo)]


\* The model is downloaded if need be, the job's router is made, and its
\* fine_tuning is called.
StartJob ==
    /\ loop.at = "starting"
    /\ LET j == Head(loop.todo)
       IN \/ /\ run' = [run EXCEPT ![j] = "queued"]
             /\ loop' = [loop EXCEPT !.at = "waiting"]
             /\ UNCHANGED <<jobs, left>>
          \/ /\ "download" \in Faults /\ j \notin Downloaded
             /\ Goes(j, "failed") /\ Continues
             /\ UNCHANGED run
          \/ /\ "router" \in Faults
             /\ loop' = [loop EXCEPT !.at = "dead"]
             /\ UNCHANGED <<jobs, left, run>>
    /\ UNCHANGED held

\* The call returned; an error in the result fails the job.
JobReturns ==
    /\ loop.at = "waiting"
    /\ LET j == Head(loop.todo)
       IN /\ run[j] \in {"done", "error"}
          /\ Goes(j, IF run[j] = "done" THEN "completed" ELSE "failed")
    /\ Continues
    /\ UNCHANGED <<run, held>>

JobTimesOut ==
    /\ loop.at = "waiting" /\ "timeout" \in Faults
    /\ run[Head(loop.todo)] \notin {"done", "error"}
    /\ Goes(Head(loop.todo), "failed")
    /\ Continues
    /\ UNCHANGED <<run, held>>

-----------------------------------------------------------------------------
(* fine_tuning of the router.                                              *)

RunStep(j, from, to) ==
    /\ run[j] = from
    /\ run' = [run EXCEPT ![j] = to]
    /\ UNCHANGED <<jobs, loop, left>>

\* The scheduler grants the GPUs that the start task waits for.
Granted(j) ==
    /\ RunStep(j, "queued", "starting")
    /\ Sum(held) + Gpus[j] <= Total
    /\ held' = held \cup {j}

InstanceReady(j) ==
    /\ RunStep(j, "starting", "training")
    /\ Gpus[j] <= Free
    /\ UNCHANGED held

\* The start failed, takes more than the 300 s that fine_tuning waits, or can
\* never succeed because Ray has no GPUs for it.  Nothing is released.
StartFails(j) ==
    /\ "start" \in Faults \/ (run[j] = "starting" /\ Gpus[j] > Free)
    /\ RunStep(j, "queued", "error") \/ RunStep(j, "starting", "error")
    /\ UNCHANGED held

\* fine_tuning of the backend returns a result or an error, or raises; in all
\* cases the instance is shut down next.
Trained(j) ==
    /\ RunStep(j, "training", "closing")
       \/ ("train" \in Faults /\ RunStep(j, "training", "closing failed"))
    /\ UNCHANGED held

\* Faulty variant of Closed: a failed training keeps its GPUs.
KeepsFailed(j) ==
    \/ RunStep(j, "closing", "done") /\ held' = held \ {j}
    \/ RunStep(j, "closing failed", "error") /\ UNCHANGED held

\* _shutdown_instance and the end of the call
Closed(j) ==
    /\ RunStep(j, "closing", "done") \/ RunStep(j, "closing failed", "error")
    /\ held' = held \ {j}

\* When the loop has given up on a job, its router is collected.
RouterCollected(j) ==
    /\ jobs[j] = "failed" /\ run[j] \in {"queued", "starting", "training"}
    /\ run' = [run EXCEPT ![j] = "gone"]
    /\ UNCHANGED <<jobs, loop, left, held>>

-----------------------------------------------------------------------------
RunNext(j) ==
    \/ Granted(j) \/ InstanceReady(j) \/ StartFails(j)
    \/ Trained(j) \/ Closed(j) \/ RouterCollected(j)

LoopNext == PassBegins \/ NextJob \/ StartJob \/ JobReturns \/ JobTimesOut

Next ==
    \/ \E j \in Jobs : RegisterJob(j) \/ RunNext(j)
    \/ LoopNext

Spec == Init /\ [][Next]_vars

\* The loop runs, and what the router and the backend do ends.
Progress ==
    \/ LoopNext
    \/ \E j \in Jobs : Granted(j) \/ InstanceReady(j) \/ Trained(j) \/ Closed(j)

-----------------------------------------------------------------------------
(* Properties.                                                             *)

Ended == {"completed", "failed"}

TypeOK ==
    /\ \A j \in Jobs : jobs[j] \in Ended \cup {None, "pending", "running"}
    /\ loop.at \in {"idle", "pass", "starting", "waiting", "dead"}
    /\ held \subseteq Jobs

\* A job that ended has given its GPUs back to the scheduler, and no more are
\* granted to it, whether it succeeded or failed.
EndedIsReleased ==
    \A j \in Jobs : jobs[j] \in Ended => j \notin held /\ run[j] # "queued"

Forward(from, to) ==
    <<from, to>> \in {<<None, "pending">>, <<"pending", "running">>}
                       \cup ({"running"} \X Ended)

\* A job's status only goes forward: an end is final, also for a run that goes
\* on after the loop has given up on it.
StatusGoesForward ==
    [][\A j \in Jobs : jobs'[j] # jobs[j] => Forward(jobs[j], jobs'[j])]_vars

\* Every job whose GPUs exist is started in the end, also behind jobs with a
\* smaller priority number and jobs that never fit.
JobsAreStarted ==
    \A j \in Jobs : Gpus[j] <= Total => (jobs[j] = "pending" ~> jobs[j] \in Ended)

=============================================================================
