----------------------------- MODULE Controller -----------------------------
(***************************************************************************)
(* The controller actor (sllm/controller.py): registration and deletion of *)
(* models, the clean-up of Ray actors a deletion leaves behind, and the    *)
(* fan-out of spot events to the scheduler and to every router.            *)
(*                                                                         *)
(* The controller is one asyncio loop.  Calls of different clients         *)
(* interleave at their awaits: the store manager's download, the router's  *)
(* shutdown, and the pauses of the clean-up loop.  Ray is external: actor  *)
(* names are unique, an actor whose handles are gone is collected,         *)
(* instances are detached, and an instance whose start was submitted       *)
(* appears later, even if its router is gone by then.                      *)
(***************************************************************************)
EXTENDS Integers, FiniteSets, SequencesExt

CONSTANTS Models,
          Name,         \* the name of each model, as a sequence of parts
          Instances,    \* ids of instance actors
          MaxCalls,     \* bound: registrations and deletions per model
          Overlap,      \* may calls about one model overlap?
          MaxEvents,    \* bound: spot events
          Concurrent,   \* events handled at a time
          None

VARIABLES registry,     \* registered_models and request_routers: their keys
          router,       \* the live router actor of each name, as its number
          instances,    \* live instance actors and their model
          submitted,    \* starts that a router submitted and that are under way
          registering,  \* register calls that wait for the store manager
          deleting,     \* the delete call about each model
          dirty,        \* did the last deletion fail half way?
          calls,        \* bound: calls so far, and the number of the next router
          node,         \* the scheduler's mark of the node
          told,         \* the mark each router was last told of
          events        \* the event calls

vars == <<registry, router, instances, submitted, registering, deleting, dirty,
          calls, node, told, events>>
eventVars == <<node, told, events>>
registryVars == <<registry, router, instances, submitted, registering,
                  deleting, dirty>>

NoDelete == [at |-> "no", killed |-> {}]
NoEvent == [at |-> "no", mark |-> None, todo |-> {}]

Init ==
    /\ registry = {}
    /\ router = [m \in Models |-> 0]
    /\ instances = [i \in Instances |-> None]
    /\ submitted = [i \in Instances |-> None]
    /\ registering = {}
    /\ deleting = [m \in Models |-> NoDelete]
    /\ dirty = {}
    /\ calls = [m \in Models |-> 0]
    /\ node = "ready" /\ told = [m \in Models |-> None]
    /\ events = [e \in 1..MaxEvents |-> NoEvent]

InUse(m) == m \in registering \/ deleting[m].at # "no"
MayCall(m) ==
    /\ calls[m] < MaxCalls /\ (Overlap \/ ~InUse(m))
    /\ calls' = [calls EXCEPT ![m] = @ + 1]

-----------------------------------------------------------------------------
(* register                                                                *)

\* A model that is not registered yet is first given to the store manager.
RegisterBegins(m) ==
    /\ m \notin registry /\ m \notin registering
    /\ MayCall(m)
    /\ registering' = registering \cup {m}
    /\ UNCHANGED <<registry, router, instances, submitted, deleting, dirty,
                   eventVars>>

\* The router is created, which fails while an actor has its name, started and
\* recorded.
RegisterStored(m) ==
    /\ m \in registering
    /\ registering' = registering \ {m}
    /\ IF router[m] = 0 /\ m \notin registry
       THEN /\ router' = [router EXCEPT ![m] = calls[m]]
            /\ registry' = registry \cup {m}
            /\ told' = [told EXCEPT ![m] = None]
            /\ dirty' = dirty \ {m}
       ELSE UNCHANGED <<router, registry, told, dirty>>
    /\ UNCHANGED <<instances, submitted, deleting, calls, node, events>>

\* The store manager cannot register the model.
RegisterFails(m) ==
    /\ m \in registering
    /\ registering' = registering \ {m}
    /\ UNCHANGED <<registry, router, instances, submitted, deleting, dirty, calls,
                   eventVars>>

-----------------------------------------------------------------------------
(* Instances, as far as the controller meets them.                         *)

SubmitStart(m, i) ==
    /\ router[m] # 0 /\ m \in registry /\ deleting[m].at # "stopping"
    /\ instances[i] = None /\ submitted[i] = None
    /\ submitted' = [submitted EXCEPT ![i] = m]
    /\ UNCHANGED <<registry, router, instances, registering, deleting, dirty,
                   calls, eventVars>>

Appears(i) ==
    /\ submitted[i] # None
    /\ instances' = [instances EXCEPT ![i] = submitted[i]]
    /\ submitted' = [submitted EXCEPT ![i] = None]
    /\ UNCHANGED <<registry, router, registering, deleting, dirty, calls, eventVars>>

-----------------------------------------------------------------------------
(* delete                                                                  *)

\* A model without a router is only cleaned up after; any other is taken out of
\* the registry before its router is asked to shut down.
DeleteBegins(m) ==
    /\ deleting[m].at = "no"
    /\ MayCall(m)
    /\ deleting' = [deleting EXCEPT ![m].at =
                        IF m \in registry THEN "stopping" ELSE "cleaning"]
    /\ registry' = registry \ {m}
    /\ UNCHANGED <<router, instances, submitted, registering, dirty, eventVars>>

\* Faulty variant of RouterStops: the deletion ends without the clean-up.
StopsOnly(m) ==
    /\ deleting[m].at = "stopping"
    /\ instances' = [i \in Instances |->
                       IF instances[i] = m THEN None ELSE instances[i]]
    /\ router' = [router EXCEPT ![m] = 0]
    /\ deleting' = [deleting EXCEPT ![m] = NoDelete]
    /\ UNCHANGED <<registry, submitted, registering, dirty, calls, eventVars>>

\* router.shutdown stops the instances the router has.
RouterStops(m) ==
    /\ deleting[m].at = "stopping"
    /\ instances' = [i \in Instances |->
                       IF instances[i] = m THEN None ELSE instances[i]]
    /\ deleting' = [deleting EXCEPT ![m].at = "cleaning"]
    /\ UNCHANGED <<registry, router, submitted, registering, dirty, calls, eventVars>>

\* router.shutdown raises: delete ends, the router's handle is dropped, and its
\* instances stay until the model is deleted again.
RouterStopFails(m) ==
    /\ deleting[m].at = "stopping"
    /\ deleting' = [deleting EXCEPT ![m] = NoDelete]
    /\ router' = [router EXCEPT ![m] = 0]
    /\ dirty' = dirty \cup {m}
    /\ UNCHANGED <<registry, instances, submitted, registering, calls, eventVars>>

\* _alive_actor_names_for_model: the router has the model's name, and an
\* instance has one that begins with it and an underscore.
Prefix(m) == Append(Name[m], "_")
Owns(m, n) == IsPrefix(Prefix(m), Append(Name[n], "_"))

\* Faulty variant of OwnsRouter: no underscore after the model's name.
BeginsWith(m, n) == IsPrefix(Name[m], Name[n])

OwnsRouter(m, n) == Name[n] = Name[m] \/ IsPrefix(Prefix(m), Name[n])

\* The actors that a round of the clean-up loop finds alive and new to it.
Stale(m) ==
    {i \in Instances : /\ instances[i] # None /\ Owns(m, instances[i])
                       /\ i \notin deleting[m].killed}
StaleRouters(m) ==
    {n \in Models : /\ router[n] # 0 /\ OwnsRouter(m, n)
                    /\ n \notin deleting[m].killed}

\* A round of the loop kills them all.
CleanUp(m) ==
    /\ deleting[m].at = "cleaning"
    /\ Stale(m) \cup StaleRouters(m) # {}
    /\ instances' = [i \in Instances |->
                       IF i \in Stale(m) THEN None ELSE instances[i]]
    /\ router' = [n \in Models |-> IF n \in StaleRouters(m) THEN 0 ELSE router[n]]
    /\ deleting' = [deleting EXCEPT ![m].killed = @ \cup Stale(m) \cup StaleRouters(m)]
    /\ UNCHANGED <<registry, submitted, registering, dirty, calls, eventVars>>

\* The loop saw nothing for its quiet period.  A start that was submitted
\* before takes less than that.
CleanUpEnds(m) ==
    /\ deleting[m].at = "cleaning"
    /\ Stale(m) \cup StaleRouters(m) = {}
    /\ \A i \in Instances : submitted[i] # m
    /\ deleting' = [deleting EXCEPT ![m] = NoDelete]
    /\ dirty' = dirty \ {m}
    /\ UNCHANGED <<registry, router, instances, submitted, registering, calls,
                   eventVars>>

-----------------------------------------------------------------------------
(* handle_preemption, handle_recover and handle_instance_dead.             *)

EventBegins(e, mark) ==
    /\ events[e].at = "no" /\ (e > 1 => events[e - 1].at # "no")
    /\ Cardinality({d \in 1..MaxEvents : events[d].at \in {"marking", "telling"}})
         < Concurrent
    /\ events' = [events EXCEPT ![e] = [NoEvent EXCEPT !.at = "marking", !.mark = mark]]
    /\ UNCHANGED <<registryVars, calls, node, told>>

\* The scheduler marks the node, then the routers of that moment are taken.
EventMarks(e) ==
    /\ events[e].at = "marking"
    /\ node' = events[e].mark
    /\ events' = [events EXCEPT ![e].at = "telling", ![e].todo = registry]
    /\ UNCHANGED <<registryVars, calls, told>>


\* One router after the other; a router that is gone or raises is skipped.
EventTells(e, m) ==
    /\ events[e].at = "telling" /\ m \in events[e].todo
    /\ told' = IF router[m] = 0 THEN told ELSE [told EXCEPT ![m] = events[e].mark]
    /\ events' = [events EXCEPT ![e].todo = @ \ {m}]
    /\ UNCHANGED <<registryVars, calls, node>>

EventEnds(e) ==
    /\ events[e].at = "telling" /\ events[e].todo = {}
    /\ events' = [events EXCEPT ![e].at = "done"]
    /\ UNCHANGED <<registryVars, calls, node, told>>

-----------------------------------------------------------------------------
ModelNext(m) ==
    \/ RegisterBegins(m) \/ RegisterStored(m) \/ RegisterFails(m)
    \/ DeleteBegins(m) \/ RouterStops(m) \/ RouterStopFails(m)
    \/ CleanUp(m) \/ CleanUpEnds(m)
    \/ \E i \in Instances : SubmitStart(m, i)

EventNext(e) ==
    \/ \E mark \in {"preempting", "ready", "dead"} : EventBegins(e, mark)
    \/ EventMarks(e) \/ EventEnds(e)
    \/ \E m \in Models : EventTells(e, m)

Next ==
    \/ \E m \in Models : ModelNext(m)
    \/ \E i \in Instances : Appears(i)
    \/ \E e \in 1..MaxEvents : EventNext(e)

Spec == Init /\ [][Next]_vars

-----------------------------------------------------------------------------
(* Properties.                                                             *)

TypeOK ==
    /\ registry \subseteq Models /\ registering \subseteq Models
    /\ dirty \subseteq Models
    /\ router \in [Models -> 0..MaxCalls]
    /\ instances \in [Instances -> Models \cup {None}]
    /\ submitted \in [Instances -> Models \cup {None}]
    /\ \A m \in Models : deleting[m].at \in {"no", "stopping", "cleaning"}
    /\ told \in [Models -> {None, "ready", "preempting", "dead"}]

\* A registered model has its router, whatever deletion is cleaning up: the
\* clean-up by name never hits a model that is in use.
RegisteredIsServed ==
    \A m \in registry : router[m] # 0

\* After a deletion that returned no actor of the model is left and none will
\* appear: not one that the router had lost track of, not one whose start was
\* under way when the router shut down.
DeletedLeavesNothing ==
    \A m \in Models \ (registry \cup dirty) :
        deleting[m].at = "no"
            => /\ router[m] = 0
               /\ \A i \in Instances : m \notin {instances[i], submitted[i]}

\* When no event is being handled, a router believes of the node what the
\* scheduler believes, or was never told of it.
EventsAgree ==
    (\A e \in 1..MaxEvents : events[e].at \in {"no", "done"})
        => \A m \in registry : told[m] \in {None, node}

=============================================================================
