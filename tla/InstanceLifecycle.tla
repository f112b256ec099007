-------------------------- MODULE InstanceLifecycle --------------------------
(***************************************************************************)
(* What InstanceHandle (src/sllm/utils.py) promises to the routers: which  *)
(* state changes its methods make, and that a request slot is taken only   *)
(* on a READY instance below max_queue_length.  One step may move several  *)
(* instances, and may call several methods of one instance, as a router    *)
(* does between two awaits.                                                *)
(***************************************************************************)
EXTENDS Integers

CONSTANTS Instances, MaxQueueLength

VARIABLES
  state,        \* InstanceState, "absent" before the handle exists
  concurrency   \* request slots taken

Closed == {"draining", "preempting", "dead"}
States == {"absent", "starting", "ready"} \cup Closed

\* mark_ready keeps a closed state; mark_draining, mark_preempting and
\* mark_dead take any state; mark_recovered reopens only a preempting
\* instance and mark_ready_after_drain only a draining one.
StateMoves ==
  ({"starting"} \X {"ready"})
    \cup ((States \ {"absent"}) \X Closed)
    \cup ({"preempting", "draining"} \X {"ready"})

\* add_requests(1), through _can_accept_request_locked.
Admits(i) ==
  /\ state[i] = "ready"
  /\ concurrency[i] < MaxQueueLength
  /\ concurrency' [i] = concurrency[i] + 1
  /\ state' [i] = "ready"

\* add_requests(-1), together with any change of state.
Releases(i) ==
  /\ concurrency[i] > 0
  /\ concurrency' [i] = concurrency[i] - 1
  /\ state' [i] = state[i] \/ <<state[i], state' [i]>> \in StateMoves

Changes(i) ==
  /\ <<state[i], state' [i]>> \in StateMoves \cup {<<"absent", "starting">>}
  /\ concurrency' [i] = concurrency[i]

Stays(i) == state' [i] = state[i] /\ concurrency' [i] = concurrency[i]

Init ==
  /\ state = [i \in Instances |-> "absent"]
  /\ concurrency = [i \in Instances |-> 0]

Next ==
  /\ state' \in [Instances -> States]
  /\ concurrency' \in [Instances -> 0..MaxQueueLength]
  /\ \A i \in Instances : Admits(i) \/ Releases(i) \/ Changes(i) \/ Stays(i)

Spec == Init /\ [][Next]_<<state, concurrency>>

=============================================================================
