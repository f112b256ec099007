---------------------------- MODULE TraceReplay ----------------------------
(***************************************************************************)
(* The replay of a spot trace (src/sllm/spot/preemption_simulator.py and    *)
(* trace_reader.py): one coroutine reads the events in the order of their   *)
(* times, a preemption notice with a grace period starts a task that sends  *)
(* the death of its target when the period ends, and later events of the    *)
(* target cancel that task.  Calls to the controller are not awaited.       *)
(*                                                                         *)
(* One model, so its name is left out of the keys.  Timers fire in the      *)
(* order of their times, at any time after them; an event whose time has    *)
(* passed already waits for no timer.                                       *)
(***************************************************************************)
EXTENDS Ordering, TLC

CONSTANTS
    Traces,     \* sequences of events, in the order of the file
    Instances,  \* the instances of the model, numbers
    NodeOf,     \* their nodes
    MaxTime,    \* the clock stops here
    Faults,     \* calls, by number, whose handler may raise
    None

VARIABLES
    script,     \* the events, sorted
    next,       \* the event that comes next
    main,       \* the coroutine: sleeping, awake, resolving, cancelling, gathering, or its end
    target,     \* the instance that an event in work was resolved to
    clock,
    deadlines,  \* the tasks of grace periods
    pending,    \* the task of a key, 0 if there is none
    sent,       \* the calls to the controller, in order
    fleet,      \* the router's view of instances: state and requests
    cancelled   \* auto_dead_cancelled

vars == <<script, next, main, target, clock, deadlines, pending, sent, fleet, cancelled>>

Event(time, kind, node, instance, selector, grace) ==
    [time |-> time, kind |-> kind, node |-> node, instance |-> instance,
     selector |-> selector, grace |-> grace]

Kinds == {"add", "remove", "preempt", "recover", "dead"}

\* SpotEvent.__post_init__
Valid(e) ==
    /\ e.time >= 0
    /\ e.grace # None => e.grace >= 0 /\ e.kind = "preempt"
    /\ e.kind \in Kinds
    /\ ~(e.node = None /\ e.instance = None /\ e.selector = None)

\* load_spot_trace: all events, or none if one is not valid.
LoadSpotTrace(raw) == SortedBy(raw, LAMBDA e : <<e.time>>)

TypeOK ==
    /\ next \in 1..(Len(script) + 1)
    /\ main \in {"sleeping", "awake", "resolving", "cancelling", "gathering", "done", "failed", "raised"}
    /\ target \in Instances \cup {None}
    /\ clock \in 0..MaxTime
    /\ \A t \in DOMAIN deadlines :
           deadlines[t].state \in {"sleeping", "dispatching", "cancelling", "cancelled", "done"}
    /\ \A k \in DOMAIN pending : pending[k] \in 0..Len(deadlines)
    /\ \A c \in DOMAIN sent : sent[c].state \in {"called", "done", "failed"}
    /\ cancelled \in 0..Len(deadlines)

Keys == ({"instance"} \X Instances)
    \cup ({"node"} \X {script[i].node : i \in DOMAIN script})
    \cup ({"selector"} \X {script[i].selector : i \in DOMAIN script})

Init ==
    \E raw \in Traces :
        /\ script = IF \A i \in DOMAIN raw : Valid(raw[i]) THEN LoadSpotTrace(raw) ELSE <<>>
        /\ main = IF script = <<>> THEN "raised" ELSE IF script[1].time > 0 THEN "sleeping" ELSE "awake"
        /\ next = 1 /\ target = None /\ clock = 0
        /\ deadlines = <<>> /\ sent = <<>> /\ cancelled = 0
        /\ pending = [k \in Keys |-> 0]
        /\ fleet = [i \in Instances |-> [state |-> "ready", concurrency |-> IF i = 2 THEN 1 ELSE 0]]

-----------------------------------------------------------------------------
Current == script[next]

\* _resolve_instance_id: the instances a selector means, in its order.  The index
\* is the first.
Selected(selector) ==
    LET ready == {i \in Instances : fleet[i].state = "ready"}
        busy == {i \in ready : fleet[i].concurrency > 0}
        active == IF busy = {} THEN ready ELSE busy
        BusiestFirst(i, j) == LexLess(<<0 - fleet[i].concurrency, i>>, <<0 - fleet[j].concurrency, j>>)
    IN IF selector = "active" THEN SetToSortSeq(active, BusiestFirst)
       ELSE IF selector = "preempting" THEN SetToSortSeq({i \in Instances : fleet[i].state = "preempting"}, <)
       ELSE SetToSortSeq(ready, <)

\* Faulty variant of DeadlineKeys: a selected instance is not looked up.
KeysAsWritten(e, instance) ==
    (IF e.instance # None THEN {<<"instance", e.instance>>} ELSE {})
    \cup (IF e.node # None THEN {<<"node", e.node>>} ELSE {})
    \cup (IF e.selector # None THEN {<<"selector", e.selector>>} ELSE {})

\* _deadline_keys_for_event
DeadlineKeys(e, instance) ==
    (IF instance # None THEN {<<"instance", instance>>} ELSE {})
    \cup (IF e.node # None THEN {<<"node", e.node>>} ELSE {})
    \cup (IF e.selector # None THEN {<<"selector", e.selector>>} ELSE {})

Running(t) == deadlines[t].state \in {"sleeping", "dispatching"}

\* Faulty variant of CancelTasks: every task is.
CancelAll(tasks, state) ==
    [t \in DOMAIN deadlines |->
        IF Running(t) THEN [deadlines[t] EXCEPT !.state = state] ELSE deadlines[t]]

\* A task that is cancelled in its sleep ends; one that has called does too, but
\* the call was made.
CancelTasks(tasks, state) ==
    [t \in DOMAIN deadlines |->
        IF t \in tasks /\ Running(t) THEN [deadlines[t] EXCEPT !.state = state] ELSE deadlines[t]]

\* Nothing that waits for a timer is due before.
FirstDue(when) ==
    /\ when <= clock
    /\ \A t \in DOMAIN deadlines : deadlines[t].state = "sleeping" => when <= deadlines[t].due
    /\ main = "sleeping" => when <= Current.time

Call(e, instance, auto) ==
    [kind |-> IF auto THEN "dead" ELSE e.kind, node |-> e.node, instance |-> instance,
     event |-> next, auto |-> auto, grace |-> e.grace, state |-> "called"]

-----------------------------------------------------------------------------
\* The rest of the loop's body: the task of the grace period, then the call; the
\* loop yields once, so that both have run up to their first wait.
Continue(instance, tasks, keys) ==
    LET e == Current
        notice == e.kind = "preempt" /\ e.grace # None
        mine == DeadlineKeys(e, instance)
        previous == {keys[k] : k \in mine} \ {0}
        new == [event |-> next, instance |-> instance, node |-> e.node,
                due |-> clock + e.grace, state |-> "sleeping"]
    IN /\ deadlines' = IF notice
                       THEN Append([t \in DOMAIN tasks |->
                                IF t \in previous /\ tasks[t].state \in {"sleeping", "dispatching"}
                                THEN [tasks[t] EXCEPT !.state = "cancelled"] ELSE tasks[t]], new)
                       ELSE tasks
       /\ pending' = IF notice THEN [k \in DOMAIN keys |-> IF k \in mine THEN Len(tasks) + 1 ELSE keys[k]]
                     ELSE keys
       /\ sent' = Append(sent, Call(e, instance, FALSE))
       /\ next' = next + 1 /\ target' = None
       /\ main' = IF next = Len(script) THEN "gathering"
                  ELSE IF script[next + 1].time > clock THEN "sleeping" ELSE "awake"

\* After the event is resolved: recover, dead and remove first cancel the tasks of
\* their keys (_cancel_pending_deadlines) and wait for them.
Handle(instance) ==
    LET keys == DeadlineKeys(Current, instance)
        tasks == {t \in {pending[k] : k \in keys} \ {0} : Running(t)}
        kept == [k \in DOMAIN pending |-> IF k \in keys \/ pending[k] \in tasks THEN 0 ELSE pending[k]]
    IN IF Current.kind \notin {"recover", "dead", "remove"}
       THEN Continue(instance, deadlines, pending) /\ UNCHANGED cancelled
       ELSE IF tasks = {} THEN Continue(instance, deadlines, kept) /\ UNCHANGED cancelled
       ELSE /\ main' = "cancelling" /\ target' = instance
            /\ deadlines' = CancelTasks(tasks, "cancelling") /\ pending' = kept
            /\ cancelled' = cancelled + Cardinality(tasks)
            /\ UNCHANGED <<next, sent>>

\* The time of the next event is there.
Wakes ==
    /\ main = "awake" \/ (main = "sleeping" /\ FirstDue(Current.time))
    /\ IF Current.instance = None /\ Current.selector # None
       THEN main' = "resolving" /\ UNCHANGED <<next, target, deadlines, pending, sent, cancelled>>
       ELSE Handle(Current.instance)
    /\ UNCHANGED <<script, clock, fleet>>

\* The router has answered.  No such instance: the replay ends, and its tasks too.
Resolves ==
    /\ main = "resolving"
    /\ LET ids == Selected(Current.selector)
       IN IF ids = <<>>
          THEN /\ main' = "raised" /\ deadlines' = CancelTasks(DOMAIN deadlines, "cancelled")
               /\ UNCHANGED <<next, target, pending, sent, cancelled>>
          ELSE Handle(ids[1])
    /\ UNCHANGED <<script, clock, fleet>>

\* A cancelled task has run to its end, then the loop goes on.
TaskEnds(t) ==
    /\ deadlines[t].state = "cancelling"
    /\ deadlines' = [deadlines EXCEPT ![t].state = "cancelled"]
    /\ UNCHANGED <<script, next, main, target, clock, pending, sent, fleet, cancelled>>

CancelReturns ==
    /\ main = "cancelling" /\ \A t \in DOMAIN deadlines : deadlines[t].state # "cancelling"
    /\ Continue(target, deadlines, pending)
    /\ UNCHANGED <<script, clock, fleet, cancelled>>

\* _dispatch_auto_dead_after: the grace period is over.
GraceEnds(t) ==
    /\ deadlines[t].state = "sleeping" /\ FirstDue(deadlines[t].due)
    /\ deadlines' = [deadlines EXCEPT ![t].state = "dispatching"]
    /\ sent' = Append(sent, [Call(script[deadlines[t].event], deadlines[t].instance, TRUE)
                                EXCEPT !.event = deadlines[t].event])
    /\ UNCHANGED <<script, next, main, target, clock, pending, fleet, cancelled>>

Concerns(call, i) ==
    IF call.instance # None THEN call.instance = i ELSE call.node = NodeOf[i]

\* The controller ends a call, and the instances it is about change.
Answers(c, outcome) ==
    /\ sent[c].state = "called"
    /\ outcome = "failed" => c \in Faults
    /\ sent' = [sent EXCEPT ![c].state = outcome]
    /\ deadlines' = [t \in DOMAIN deadlines |->
           IF sent[c].auto /\ deadlines[t].event = sent[c].event /\ deadlines[t].state = "dispatching"
           THEN [deadlines[t] EXCEPT !.state = "done"] ELSE deadlines[t]]
    /\ fleet' = [i \in Instances |->
           IF outcome = "failed" \/ ~Concerns(sent[c], i) THEN fleet[i]
           ELSE [fleet[i] EXCEPT !.state =
                    CASE sent[c].kind = "preempt" /\ @ = "ready" -> "preempting"
                      [] sent[c].kind \in {"dead", "remove"} -> "dead"
                      [] sent[c].kind = "recover" /\ @ = "preempting" -> "ready"
                      [] OTHER -> @]]
    /\ UNCHANGED <<script, next, main, target, clock, pending, cancelled>>

\* All calls and tasks are through; the call of a task that was cancelled is not
\* waited for.
Gathers ==
    /\ main = "gathering"
    /\ \A t \in DOMAIN deadlines : deadlines[t].state \in {"cancelled", "done"}
    /\ \A c \in DOMAIN sent : sent[c].state = "called" => sent[c].auto
    /\ LET Ended(c) == sent[c].auto => \E t \in DOMAIN deadlines :
                           deadlines[t].event = sent[c].event /\ deadlines[t].state = "done"
       IN main' = IF \E c \in DOMAIN sent : sent[c].state = "failed" /\ Ended(c) THEN "failed" ELSE "done"
    /\ UNCHANGED <<script, next, target, clock, deadlines, pending, sent, fleet, cancelled>>

Tick ==
    /\ clock < MaxTime /\ main \notin {"done", "failed", "raised"}
    /\ clock' = clock + 1
    /\ UNCHANGED <<script, next, main, target, deadlines, pending, sent, fleet, cancelled>>

Next ==
    \/ Wakes
    \/ Resolves
    \/ \E t \in DOMAIN deadlines : TaskEnds(t)
    \/ CancelReturns
    \/ \E t \in DOMAIN deadlines : GraceEnds(t)
    \/ \E c \in DOMAIN sent, outcome \in {"done", "failed"} : Answers(c, outcome)
    \/ Gathers
    \/ Tick

Spec == Init /\ [][Next]_vars

-----------------------------------------------------------------------------
(* Properties                                                              *)

SameTarget(a, b) ==
    \/ a.instance # None /\ a.instance = b.instance
    \/ a.node # None /\ a.node = b.node

\* Calls after which the death that an earlier notice announced is off.
Supersedes(c) == c.kind \in {"recover", "dead", "remove"} \/ (c.kind = "preempt" /\ c.grace # None)

\* A death at the end of a grace period is sent after the notice, and not once a
\* recovery, removal, death or new notice of the same target was sent, whether
\* that named the instance or selected it (replay_trace, _cancel_pending_deadlines).
DeathIsDue ==
    \A k \in DOMAIN sent : sent[k].auto =>
        \E n \in 1..(k - 1) :
            /\ sent[n].event = sent[k].event /\ ~sent[n].auto
            /\ \A j \in (n + 1)..(k - 1) :
                   ~(SameTarget(sent[j], sent[k]) /\ Supersedes(sent[j]))

\* When the replay has ended, every notice with a grace period was followed by
\* the death of its target, or by a call that took its place
\* (replay_trace waits for the tasks with gather).
NoticesSettled ==
    main \in {"done", "failed"} =>
        \A n \in DOMAIN sent :
            sent[n].kind = "preempt" /\ sent[n].grace # None =>
                \E k \in (n + 1)..Len(sent) :
                    SameTarget(sent[n], sent[k]) /\ (Supersedes(sent[k]) \/ sent[k].event = sent[n].event)
=============================================================================
