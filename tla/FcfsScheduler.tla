--------------------------- MODULE FcfsScheduler ---------------------------
(***************************************************************************)
(* The FCFS loading scheduler, src/sllm/schedulers/fcfs_scheduler.py.      *)
(*                                                                         *)
(* FcfsScheduler is one Ray asyncio actor.  Coroutines interleave only at  *)
(* awaits that really suspend.  queue_lock and metadata_lock are never     *)
(* held across such an await, so every lock section is one atomic step.    *)
(* The suspension points are: the wait on an allocation's future, the      *)
(* sleep of the control loop and, when enable_backend_runtime_metadata is  *)
(* set, the actor calls inside _get_worker_nodes.  A pass of the control   *)
(* loop has no suspension point after its refresh; it is modelled as one   *)
(* step per request, during which no other coroutine is enabled.           *)
(*                                                                         *)
(* update_scheduler_config changes two switches.  With the first on a      *)
(* refresh may suspend, and even then only if an actor is found: if        *)
(* RuntimeMetadata holds, every refresh may suspend or not, so that the    *)
(* switch may change at any time.  The second, risk-aware scheduling, only *)
(* orders the candidates, and they are tried in any order here.            *)
(*                                                                         *)
(* Instances stand for allocation requests: instance ids are fresh UUIDs,  *)
(* so each one is requested at most once.                                  *)
(***************************************************************************)
EXTENDS Integers, Sequences, FiniteSets, Functions

CONSTANTS
  Models, Instances, Nodes,
  ModelOf,          \* the model an instance serves
  Gpus,             \* num_gpus an instance asks for
  Target,           \* target_node_id, or NoNode
  NoNode,
  Routers,          \* callers of _get_worker_nodes outside the scheduler
  TotalGpu,         \* static GPU count Ray reports for a node
  NodeInfo,         \* node_info a caller of add_worker_node may give for a
                    \* node: one of its GPU counts, both or none
  ResizeTo,         \* num_gpus values an elastic resize may ask for
  RuntimeMetadata,  \* enable_backend_runtime_metadata is or may be switched
                    \* on: see update_scheduler_config below
  Distributed,      \* spotserve_distributed_gpu_allocation is in use
  ElasticResize,    \* spotserve_elastic_ep_enabled is in use
  RayChurn          \* the Ray cluster membership changes while serving

ASSUME FcfsAssumption ==
  /\ IsFiniteSet(Instances)
  /\ ModelOf \in [Instances -> Models]
  /\ Gpus \in [Instances -> Nat]
  /\ NoNode \notin Nodes
  /\ Target \in [Instances -> Nodes \cup {NoNode}]
  /\ TotalGpu \in [Nodes -> Nat]
  /\ \A n \in Nodes : \A info \in NodeInfo[n] :
       /\ DOMAIN info \subseteq {"total_gpu", "free_gpu"}
       /\ \A key \in DOMAIN info : info[key] \in 0..TotalGpu[n]
  /\ ResizeTo \subseteq Nat
  /\ {RuntimeMetadata, Distributed, ElasticResize, RayChurn} \subseteq BOOLEAN

VARIABLES
  running,    \* self.running
  queues,     \* self.model_loading_queues: the list of each model
  keys,       \* the models that have a list, in the dict's insertion order
  status,     \* where the allocate call of an instance stands
  grant,      \* the result its future was set to
  entry,      \* model_instance / model_instance_resources of a held instance
  nodes,      \* self.worker_nodes
  loop,       \* program counter and locals of _control_loop
  calls,      \* _get_worker_nodes calls suspended on runtime metadata: the
              \* table each caller's call has computed
  listed,     \* nodes ray.nodes() reports alive
  busy,       \* nodes whose worker_id resource Ray reports as consumed
  marked,     \* history: the state the controller last gave each node
  cancelled   \* history: calls in flight when their model was cleared

vars == <<running, queues, keys, status, grant, entry, nodes, loop, calls,
          listed, busy, marked, cancelled>>

NodeState == {"ready", "preempting", "dead"}
Status == {"new", "queued", "granted", "held", "failed", "released", "lost",
           "reserving"}

NoSpread == [n \in Nodes |-> 0]
NoEntry == [node |-> NoNode, num |-> 0, spread |-> NoSpread]

\* Faulty variant: a node first seen is given no state.
StatelessUnknown ==
  [known |-> FALSE, total |-> 0, free |-> 0, state |-> "unset"]

\* _ensure_node_metadata: what a node not seen before starts from.
Unknown == [known |-> FALSE, total |-> 0, free |-> 0, state |-> "ready"]

NoNodes == [n \in Nodes |-> Unknown]
NoRank == <<0, 0>>
NoCalls == [c \in {} |-> NoNodes]
NoPass == [pc |-> "off", todo |-> {}, rank |-> [i \in Instances |-> NoRank],
           free |-> NoSpread, snap |-> NoNodes]

Max2(a, b) == IF a >= b THEN a ELSE b
Min2(a, b) == IF a <= b THEN a ELSE b

Held == {i \in Instances : status[i] = "held"}

IndexOf(s, x) == CHOOSE k \in DOMAIN s : s[k] = x

\* Faulty variant: the served request stays in the list.
LeaveIn(s, x) == s

\* Python's list.remove and dict.pop of an entry that is there.
TakeOut(s, x) ==
  LET k == IndexOf(s, x)
  IN  SubSeq(s, 1, k - 1) \o SubSeq(s, k + 1, Len(s))

HasQueue(m) == m \in Range(keys)
QueuedInstances == UNION {Range(queues[m]) : m \in Models}

\* GPUs a recorded entry counts for on node n: its node_allocations when it has
\* any, otherwise num_gpus on its node.
Counted(e, n) ==
  IF e.spread # NoSpread THEN e.spread[n] ELSE IF n = e.node THEN e.num ELSE 0

\* An amount w[x] for each x in K, as a set with one pair per unit: its
\* cardinality is the sum.
Units(K, w) == UNION {{x} \X (1..w[x]) : x \in K}

\* The GPUs the recorded entries of K count for on n.
EntryGpus(K, n) == Units(K, [i \in Instances |-> Counted(entry[i], n)])
RecordedGpus(n) == EntryGpus(Held, n)

\* The GPUs already promised to a caller whose coroutine has not resumed yet.
PromisedGpus(n) ==
  Units({i \in Instances : status[i] = "granted" /\ grant[i] = n}, Gpus)

\* Faulty variant: the recorded allocations are not counted.
NothingAllocated(n) == 0

\* _allocated_gpu_by_node_unlocked
Allocated(n) == Cardinality(RecordedGpus(n))

\* _apply_scheduler_capacity
Capacity(total, free, allocated) ==
  Max2(0, Min2(Min2(total, free), total - allocated))

\* Faulty variant: the free count of the old row caps the new one.
RatchetedFree(n) == Capacity(TotalGpu[n], nodes[n].free, Allocated(n))

\* Free GPUs of a node Ray lists: its static total less the recorded
\* allocations, but none when it has a single one and Ray says that its worker
\* resource is consumed (_apply_ray_available_capacity).
ListedFree(n) ==
  IF n \in busy /\ TotalGpu[n] <= 1
    THEN 0 ELSE Capacity(TotalGpu[n], TotalGpu[n], Allocated(n))

\* Faulty variant: a refreshed node is taken to be healthy.
HealthyState(n) == "ready"

\* current_state in _get_worker_nodes: a refresh keeps the health of a node.
KeptState(n) == nodes[n].state

\* The table _get_worker_nodes builds.  A node Ray no longer lists keeps its
\* row, reconciled with the recorded allocations.
Refreshed ==
  [n \in Nodes |->
     IF n \in listed
       THEN [known |-> TRUE, total |-> TotalGpu[n], free |-> ListedFree(n),
             state |-> KeptState(n)]
       ELSE [nodes[n] EXCEPT
               !.free = Capacity(nodes[n].total, nodes[n].free, Allocated(n))]]

\* No coroutine runs between the two ends of a pass of the control loop.
EventLoopFree == loop.pc # "granting"

-----------------------------------------------------------------------------
Init ==
  /\ running = FALSE
  /\ queues = [m \in Models |-> <<>>]
  /\ keys = <<>>
  /\ status = [i \in Instances |-> "new"]
  /\ grant = [i \in Instances |-> NoNode]
  /\ entry = [i \in Instances |-> NoEntry]
  /\ nodes = NoNodes
  /\ loop = NoPass
  /\ calls = NoCalls
  /\ listed = Nodes
  /\ busy = {}
  /\ marked = [n \in Nodes |-> "ready"]
  /\ cancelled = {}

history == <<marked, cancelled>>
ray == <<listed, busy>>

\* start, before the scheduler runs or after shutdown has returned.  start itself
\* only tests running: during shutdown's wait for the old loop it would create a
\* second one, but the controller starts its scheduler once.
Start ==
  /\ ~running /\ loop.pc \in {"off", "crashed"}
  /\ running' = TRUE
  /\ loop' = [NoPass EXCEPT !.pc = "sleeping"]
  /\ UNCHANGED <<queues, keys, status, grant, entry, nodes, calls,
                 ray, history>>

\* shutdown: the queues are dropped; the futures in them are never resolved.
Shutdown ==
  /\ EventLoopFree /\ running
  /\ running' = FALSE
  /\ queues' = [m \in Models |-> <<>>]
  /\ keys' = <<>>
  /\ status' = [i \in Instances |->
                  IF status[i] = "queued" THEN "lost" ELSE status[i]]
  /\ UNCHANGED <<grant, entry, nodes, loop, calls, ray, history>>

-----------------------------------------------------------------------------
(* allocate_resource *)

\* Up to the await: the request joins its model's loading queue.
AllocateResource(i) ==
  /\ EventLoopFree
  /\ status[i] = "new"
  /\ queues' = [queues EXCEPT ![ModelOf[i]] = Append(@, i)]
  /\ keys' = IF HasQueue(ModelOf[i]) THEN keys ELSE Append(keys, ModelOf[i])
  /\ status' = [status EXCEPT ![i] = "queued"]
  /\ UNCHANGED <<running, grant, entry, nodes, loop, calls, ray, history>>

\* After the await: the coroutine resumes and only now records the allocation.
AllocationResumes(i) ==
  /\ EventLoopFree
  /\ status[i] = "granted"
  /\ status' = [status EXCEPT ![i] = "held"]
  /\ grant' = [grant EXCEPT ![i] = NoNode]
  /\ entry' = [entry EXCEPT ![i] = [node |-> grant[i], num |-> Gpus[i],
                                    spread |-> NoSpread]]
  /\ UNCHANGED <<running, queues, keys, nodes, loop, calls, ray,
                 history>>

-----------------------------------------------------------------------------
(* _control_loop *)

LoopExits ==
  /\ loop.pc = "sleeping" /\ ~running
  /\ loop' = NoPass
  /\ UNCHANGED <<running, queues, keys, status, grant, entry, nodes,
                 calls, ray, history>>

\* Faulty variant: the sort is reversed.
ReversedRank(i) ==
  <<Len(queues[ModelOf[i]]) - IndexOf(queues[ModelOf[i]], i),
    IndexOf(keys, ModelOf[i])>>

\* The sort key of a request, its index in its model's queue, and, since the
\* sort is stable, the place of the model in the dict.
RankOf(i) == <<IndexOf(queues[ModelOf[i]], i), IndexOf(keys, ModelOf[i])>>
RankLeq(r, t) == r[1] < t[1] \/ (r[1] = t[1] /\ r[2] <= t[2])

PassOver(snapshot) ==
  [pc |-> "granting",
   todo |-> QueuedInstances,
   rank |-> [i \in Instances |->
              IF i \in QueuedInstances THEN RankOf(i) ELSE NoRank],
   free |-> [n \in Nodes |-> snapshot[n].free],
   snap |-> NoNodes]

\* _collect_backend_runtime_metadata suspends only when it is enabled and there
\* is a recorded instance whose actor to ask; an actor that is not found is
\* skipped without suspending.
MaySuspend == RuntimeMetadata /\ Held # {}

\* _merge_backend_runtime_metadata: a row without a GPU count takes the one that
\* the backends on the node report.  What else they report is kept beside it.
WithReports(tab, told) ==
  [n \in Nodes |->
     IF n \in told /\ tab[n].known /\ tab[n].total = 0
       THEN [tab[n] EXCEPT !.total = TotalGpu[n]] ELSE tab[n]]

\* A pass begins with the queue snapshot and _get_worker_nodes.  The waiters of
\* the previous pass were woken by set_result a sleep earlier, so they have all
\* resumed.
PassBegins ==
  /\ loop.pc = "sleeping" /\ running
  /\ QueuedInstances # {}
  /\ \A i \in Instances : status[i] # "granted"

LoopRefreshes ==
  /\ PassBegins
  /\ loop' = PassOver(Refreshed)
  /\ nodes' = Refreshed
  /\ UNCHANGED <<running, queues, keys, status, grant, entry, calls,
                 ray, history>>

LoopSuspends ==
  /\ PassBegins /\ MaySuspend
  /\ loop' = [PassOver(Refreshed) EXCEPT !.pc = "collecting",
                                         !.snap = Refreshed]
  /\ UNCHANGED <<running, queues, keys, status, grant, entry, nodes,
                 calls, ray, history>>

\* The runtime metadata has arrived: self.worker_nodes is overwritten with the
\* table computed before the await.
LoopCollects ==
  /\ loop.pc = "collecting"
  /\ \E told \in SUBSET Nodes : nodes' = WithReports(loop.snap, told)
  /\ loop' = [loop EXCEPT !.pc = "granting", !.snap = NoNodes]
  /\ UNCHANGED <<running, queues, keys, status, grant, entry, calls,
                 ray, history>>

NextInPass(i) ==
  /\ loop.pc = "granting"
  /\ i \in loop.todo
  /\ \A j \in loop.todo : RankLeq(loop.rank[i], loop.rank[j])

\* Faulty variant: no health test.
FitsUnhealthy(i, n) ==
  /\ nodes[n].known
  /\ Target[i] \in {NoNode, n}
  /\ loop.free[n] >= Gpus[i]

\* _ordered_candidate_nodes, the target filter, _node_is_ready and the capacity
\* test.  The health-only and the risk-aware orders both pick one of these.
Fits(i, n) ==
  /\ nodes[n].known
  /\ Target[i] \in {NoNode, n}
  /\ nodes[n].state = "ready"
  /\ loop.free[n] >= Gpus[i]

StillListed(i) == i \in Range(queues[ModelOf[i]])

LoopGrants(i, n) ==
  /\ NextInPass(i) /\ Fits(i, n)
  /\ status[i] = "queued" /\ StillListed(i)
  /\ queues' = [queues EXCEPT ![ModelOf[i]] = TakeOut(@, i)]
  /\ status' = [status EXCEPT ![i] = "granted"]
  /\ grant' = [grant EXCEPT ![i] = n]
  /\ loop' = [loop EXCEPT !.todo = @ \ {i}, !.free[n] = @ - Gpus[i]]
  /\ UNCHANGED <<running, keys, entry, nodes, calls, ray, history>>

\* No node fits, or the future was failed by clear_model, or the request is no
\* longer in the list its model has now.
LoopSkips(i) ==
  /\ NextInPass(i)
  /\ \/ \A n \in Nodes : ~Fits(i, n)
     \/ status[i] = "failed"
     \/ HasQueue(ModelOf[i]) /\ ~StillListed(i)
  /\ loop' = [loop EXCEPT !.todo = @ \ {i}]
  /\ UNCHANGED <<running, queues, keys, status, grant, entry, nodes,
                 calls, ray, history>>

\* Faulty variant: the queue is looked up before the future is tested.
CrashesOnCleared(i) ==
  /\ NextInPass(i) /\ \E n \in Nodes : Fits(i, n)
  /\ ~HasQueue(ModelOf[i])
  /\ loop' = [NoPass EXCEPT !.pc = "crashed"]
  /\ UNCHANGED <<running, queues, keys, status, grant, entry, nodes,
                 calls, ray, history>>

\* shutdown replaced the queues during the refresh: the lookup of the model's
\* queue raises KeyError and ends the loop task.
LoopCrashes(i) ==
  /\ NextInPass(i) /\ \E n \in Nodes : Fits(i, n)
  /\ status[i] # "failed"
  /\ ~HasQueue(ModelOf[i])
  /\ loop' = [NoPass EXCEPT !.pc = "crashed"]
  /\ UNCHANGED <<running, queues, keys, status, grant, entry, nodes,
                 calls, ray, history>>

\* _update_worker_nodes, then the sleep.
LoopUpdates ==
  /\ loop.pc = "granting" /\ loop.todo = {}
  /\ nodes' = [n \in Nodes |->
                 IF nodes[n].known THEN [nodes[n] EXCEPT !.free = loop.free[n]]
                                   ELSE nodes[n]]
  /\ loop' = [NoPass EXCEPT !.pc = "sleeping"]
  /\ UNCHANGED <<running, queues, keys, status, grant, entry, calls,
                 ray, history>>

-----------------------------------------------------------------------------
(* _get_worker_nodes called by a router to plan a deployment *)

Refresh ==
  /\ EventLoopFree
  /\ nodes' = Refreshed
  /\ UNCHANGED <<running, queues, keys, status, grant, entry, loop,
                 calls, ray, history>>

Suspended(c) == [d \in DOMAIN calls \cup {c} |->
                   IF d = c THEN Refreshed ELSE calls[d]]
Answered(c) == [d \in DOMAIN calls \ {c} |-> calls[d]]

RefreshSuspends(r) ==
  /\ EventLoopFree /\ MaySuspend
  /\ r \notin DOMAIN calls
  /\ calls' = Suspended(r)
  /\ UNCHANGED <<running, queues, keys, status, grant, entry, nodes,
                 loop, ray, history>>

RefreshCollects(r) ==
  /\ EventLoopFree
  /\ r \in DOMAIN calls
  /\ \E told \in SUBSET Nodes : nodes' = WithReports(calls[r], told)
  /\ calls' = Answered(r)
  /\ UNCHANGED <<running, queues, keys, status, grant, entry, loop,
                 ray, history>>

-----------------------------------------------------------------------------
(* allocate_distributed_resource *)

\* Faulty variant: the whole node counts as available.
WholeNode(tab, n) == tab[n].total

\* What a distributed reservation may take from a node.
SpreadCap(tab, n) ==
  IF tab[n].state = "ready" THEN Max2(0, tab[n].free) ELSE 0

\* _distributed_gpu_allocation: a is what the greedy assignment returns over
\* the target nodes T of table tab, largest capacity first (the order between
\* nodes of equal capacity is left open).
IsDistributedAllocation(tab, T, g, all, a) ==
  LET base == IF all THEN 1 ELSE 0
      cap == [n \in T |-> SpreadCap(tab, n)]
  IN  /\ g > 0 /\ T # {}
      /\ \A n \in T : tab[n].known /\ (all => cap[n] >= 1)
      /\ \A n \in Nodes \ T : a[n] = 0
      /\ \A n \in T : a[n] \in base..cap[n]
      /\ Cardinality(Units(T, a)) = g
      /\ \A p, q \in T : cap[q] > cap[p] /\ a[p] > base => a[q] = cap[q]
      /\ \A p, q \in T : a[p] \in base+1..cap[p]-1 /\ a[q] \in base+1..cap[q]-1
                           => p = q

\* The part after _get_worker_nodes: reserve and record in one step, or raise.
ReserveAcross(i, tab) ==
  \E T \in SUBSET Nodes \ {{}}, all \in BOOLEAN :
    LET spreads == {a \in [Nodes -> 0..Gpus[i]] :
                      IsDistributedAllocation(tab, T, Gpus[i], all, a)}
    IN  \/ \E a \in spreads : \E p \in {n \in T : a[n] > 0} :
             /\ nodes' = [n \in Nodes |->
                            IF a[n] > 0
                              THEN [tab[n] EXCEPT !.free = Max2(0, @ - a[n])]
                              ELSE tab[n]]
             /\ entry' = [entry EXCEPT ![i] = [node |-> p, num |-> Gpus[i],
                                               spread |-> a]]
             /\ status' = [status EXCEPT ![i] = "held"]
        \/ /\ spreads = {}
           /\ nodes' = tab
           /\ status' = [status EXCEPT ![i] = "failed"]
           /\ UNCHANGED entry

AllocateDistributed(i) ==
  /\ Distributed /\ EventLoopFree
  /\ status[i] = "new"
  /\ ReserveAcross(i, Refreshed)
  /\ UNCHANGED <<running, queues, keys, grant, loop, calls, ray,
                 history>>

DistributedSuspends(i) ==
  /\ Distributed /\ EventLoopFree /\ MaySuspend
  /\ status[i] = "new"
  /\ status' = [status EXCEPT ![i] = "reserving"]
  /\ calls' = Suspended(i)
  /\ UNCHANGED <<running, queues, keys, grant, entry, nodes, loop,
                 ray, history>>

DistributedCollects(i) ==
  /\ EventLoopFree
  /\ status[i] = "reserving" /\ i \in DOMAIN calls
  /\ \E told \in SUBSET Nodes : ReserveAcross(i, WithReports(calls[i], told))
  /\ calls' = Answered(i)
  /\ UNCHANGED <<running, queues, keys, grant, loop, ray, history>>

-----------------------------------------------------------------------------
(* deallocate_resource, resize_resource, clear_model *)

DeallocateResource(i) ==
  /\ EventLoopFree
  /\ status[i] = "held"
  /\ status' = [status EXCEPT ![i] = "released"]
  /\ entry' = [entry EXCEPT ![i] = NoEntry]
  /\ LET e == entry[i]
     IN  nodes' =
           [n \in Nodes |->
              IF ~nodes[n].known \/ Counted(e, n) = 0 THEN nodes[n]
              ELSE IF e.spread # NoSpread
                THEN [nodes[n] EXCEPT
                        !.free = Min2(nodes[n].total, @ + e.spread[n])]
                ELSE [nodes[n] EXCEPT !.free = @ + e.num]]
  /\ UNCHANGED <<running, queues, keys, grant, loop, calls, ray,
                 history>>

\* An unknown node or too large a delta raises and changes nothing.
ResizeResource(i, g) ==
  /\ ElasticResize /\ EventLoopFree
  /\ status[i] = "held"
  /\ LET n == entry[i].node
         delta == g - entry[i].num
     IN  /\ nodes[n].known
         /\ delta <= nodes[n].free
         /\ nodes' = [nodes EXCEPT ![n].free = @ - delta]
  /\ entry' = [entry EXCEPT ![i].num = g]
  /\ UNCHANGED <<running, queues, keys, status, grant, loop, calls,
                 ray, history>>

\* The futures clear_model fails.
CancelledBy(m) == Range(queues[m])

\* Pending futures of the model fail and its recorded allocations are released.
ClearModel(m) ==
  /\ EventLoopFree
  /\ LET pending == CancelledBy(m)
         owned == {i \in Held : ModelOf[i] = m}
     IN  /\ HasQueue(m) \/ owned # {}
         /\ queues' = [queues EXCEPT ![m] = <<>>]
         /\ keys' = IF HasQueue(m) THEN TakeOut(keys, m) ELSE keys
         /\ status' = [i \in Instances |->
                         IF i \in pending THEN "failed"
                         ELSE IF i \in owned THEN "released" ELSE status[i]]
         /\ entry' = [i \in Instances |->
                        IF i \in owned THEN NoEntry ELSE entry[i]]
         /\ nodes' = [n \in Nodes |->
                        IF nodes[n].known /\ EntryGpus(owned, n) # {}
                          THEN [nodes[n] EXCEPT !.free =
                                  Min2(nodes[n].total,
                                       @ + Cardinality(EntryGpus(owned, n)))]
                          ELSE nodes[n]]
  /\ cancelled' = cancelled \cup
       {i \in Instances : /\ ModelOf[i] = m
                          /\ status[i] \in {"granted", "reserving"}}
  /\ UNCHANGED <<running, grant, loop, calls, ray, marked>>

-----------------------------------------------------------------------------
(* Node events relayed by the controller, and changes of the Ray cluster *)

\* mark_node_preempting, mark_node_recovered, mark_node_dead,
\* remove_worker_node: a node not seen before enters with no capacity.
MarkNodeState(n, s) ==
  /\ EventLoopFree
  /\ nodes' = [nodes EXCEPT ![n].known = TRUE, ![n].state = s]
  /\ marked' = [marked EXCEPT ![n] = s]
  /\ UNCHANGED <<running, queues, keys, status, grant, entry, loop,
                 calls, ray, cancelled>>

\* The count that add_worker_node leaves under a key of a row: what info says, the
\* old count of a known node, or, for a new one, what info says under the other key.
CountOf(info, key, other, row, old) ==
  IF key \in DOMAIN info THEN info[key]
  ELSE IF row.known THEN old
  ELSE IF other \in DOMAIN info THEN info[other] ELSE 0

AddWorkerNode(n, info) ==
  /\ EventLoopFree
  /\ LET row == nodes[n]
     IN  nodes' = [nodes EXCEPT ![n] =
           [known |-> TRUE,
            total |-> CountOf(info, "total_gpu", "free_gpu", row, row.total),
            free |-> CountOf(info, "free_gpu", "total_gpu", row, row.free),
            state |-> "ready"]]
  /\ marked' = [marked EXCEPT ![n] = "ready"]
  /\ UNCHANGED <<running, queues, keys, status, grant, entry, loop,
                 calls, ray, cancelled>>

\* update_node_risk enters an unknown node; risk scores are abstracted away.
UpdateNodeRisk(n) ==
  /\ EventLoopFree
  /\ ~nodes[n].known
  /\ nodes' = [nodes EXCEPT ![n].known = TRUE]
  /\ UNCHANGED <<running, queues, keys, status, grant, entry, loop,
                 calls, ray, history>>

RayChanges ==
  /\ RayChurn /\ EventLoopFree
  /\ \E L \in SUBSET Nodes : \E B \in SUBSET L : listed' = L /\ busy' = B
  /\ UNCHANGED <<running, queues, keys, status, grant, entry, nodes,
                 loop, calls, history>>

-----------------------------------------------------------------------------
LoopStep ==
  \/ LoopRefreshes
  \/ LoopSuspends
  \/ LoopCollects
  \/ \E i \in Instances, n \in Nodes : LoopGrants(i, n)
  \/ \E i \in Instances : LoopSkips(i)
  \/ \E i \in Instances : LoopCrashes(i)
  \/ LoopUpdates
  \/ LoopExits

InstanceStep(i) ==
  \/ AllocateResource(i)
  \/ AllocationResumes(i)
  \/ AllocateDistributed(i)
  \/ DistributedSuspends(i)
  \/ DistributedCollects(i)
  \/ DeallocateResource(i)
  \/ \E g \in ResizeTo : ResizeResource(i, g)

NodeStep(n) ==
  \/ \E s \in NodeState : MarkNodeState(n, s)
  \/ \E info \in NodeInfo[n] : AddWorkerNode(n, info)
  \/ UpdateNodeRisk(n)

Next ==
  \/ Start
  \/ Shutdown
  \/ LoopStep
  \/ \E i \in Instances : InstanceStep(i)
  \/ \E m \in Models : ClearModel(m)
  \/ Refresh
  \/ \E r \in Routers : RefreshSuspends(r) \/ RefreshCollects(r)
  \/ \E n \in Nodes : NodeStep(n)
  \/ RayChanges

Spec == Init /\ [][Next]_vars

\* asyncio runs every ready task, the loop's timer fires, and a suspended
\* collection ends at the latest when runtime_metadata_timeout_s expires.
Fairness ==
  /\ WF_vars(LoopStep)
  /\ \A i \in Instances : WF_vars(AllocationResumes(i))
  /\ \A i \in Instances : WF_vars(DistributedCollects(i))
  /\ \A r \in Routers : WF_vars(RefreshCollects(r))

FairSpec == Spec /\ Fairness

-----------------------------------------------------------------------------
(* Properties *)

NodeRow == [known : BOOLEAN, total : Nat, free : Int, state : NodeState]
NodeTable == [Nodes -> NodeRow]
Entry == [node : Nodes \cup {NoNode}, num : Nat, spread : [Nodes -> Nat]]
Pass == [pc : {"off", "sleeping", "collecting", "granting", "crashed"},
         todo : SUBSET Instances,
         rank : [Instances -> Nat \X Nat],
         free : [Nodes -> Int],
         snap : NodeTable]

QueuesOK ==
  /\ queues \in [Models -> Seq(Instances)]
  /\ keys \in Seq(Models)

RequestsOK ==
  /\ status \in [Instances -> Status]
  /\ grant \in [Instances -> Nodes \cup {NoNode}]
  /\ entry \in [Instances -> Entry]
  /\ cancelled \subseteq Instances

CallsOK ==
  /\ DOMAIN calls \subseteq Routers \cup Instances
  /\ \A c \in DOMAIN calls : calls[c] \in NodeTable

RayOK ==
  /\ listed \subseteq Nodes
  /\ busy \subseteq Nodes
  /\ marked \in [Nodes -> NodeState]

\* Type invariant: every variable holds what the scheduler's dictionaries,
\* futures and loop locals may hold.
TypeOK ==
  /\ running \in BOOLEAN
  /\ nodes \in NodeTable
  /\ loop \in Pass
  /\ QueuesOK
  /\ RequestsOK
  /\ CallsOK
  /\ RayOK

CommittedGpus(n) == RecordedGpus(n) \cup PromisedGpus(n)

\* The GPUs of a node that are recorded for an instance or already promised to
\* an allocate_resource call never outnumber the node's GPUs, although the
\* grant is decided on a table computed earlier and recorded only when the
\* caller resumes.
NoOvercommit == \A n \in Nodes : Cardinality(CommittedGpus(n)) <= TotalGpu[n]

\* Waiting, being served and having been dropped are exclusive: a request is in
\* its model's loading queue, exactly once, if and only if its future is
\* unresolved and shutdown has not dropped it; it is in no other queue.
QueuedExactlyOnce ==
  /\ \A i \in Instances : status[i] = "queued" <=> i \in QueuedInstances
  /\ \A m \in Models :
       /\ IsInjective(queues[m])
       /\ \A i \in Range(queues[m]) : ModelOf[i] = m

\* A scheduler that says it is running has a control loop that will come back:
\* no sequence of calls, clear_model during a pass included, kills the task.
LoopAlive == running => loop.pc \notin {"off", "crashed"}

\* The health the scheduler acts on is the one the controller reported last.
StateIsLastMark == \A n \in Nodes : nodes[n].state = marked[n]

\* Both schedulers skip nodes that are not READY: a request is granted a node
\* only while the last report about that node says READY.
GrantsOnReadyNodes ==
  [][\A i \in Instances :
       status[i] = "queued" /\ status'[i] = "granted"
         => marked[grant'[i]] = "ready"]_vars

Easier(i, j) == Gpus[i] <= Gpus[j] /\ Target[i] \in {NoNode, Target[j]}

Precedes(i, j, s) ==
  \E k, l \in DOMAIN s : k < l /\ s[k] = i /\ s[l] = j

\* First come first serve within a model: no request is granted while an
\* earlier request of the same model that is no harder to place still waits.
FcfsWithinModel ==
  [][\A i, j \in Instances :
       /\ ModelOf[i] = ModelOf[j] /\ Easier(i, j)
       /\ StillListed(i) /\ StillListed(j)
       /\ Precedes(i, j, queues[ModelOf[i]])
       => ~(status[j] = "queued" /\ status'[j] = "granted")]_vars

Reserves ==
  \A i \in Instances :
     /\ status[i] \in {"new", "reserving"} /\ status'[i] = "held"
     /\ \A j \in Instances : status[j] # "granted"
     => /\ Cardinality(Units(Nodes, entry'[i].spread)) = Gpus[i]
        /\ \A n \in Nodes : entry'[i].spread[n] > 0
             => Cardinality(CommittedGpus(n)') <= TotalGpu[n]

\* A distributed reservation made while no promise is outstanding is whole and
\* fits: it records the GPUs asked for, no more and no fewer, and on every node
\* it takes some from the commitments stay within the node's GPUs.  This is what
\* allocate_distributed_resource gives while a refresh does not suspend; two
\* reservations that suspend together each reserve from the table they had before.
ReservationFits == [][Reserves]_vars

\* After clear_model no allocation requested before it is on record: its
\* waiters were cancelled and its allocations released.
ClearedStaysClear == Held \cap cancelled = {}

RoomOn(i, n) ==
  /\ n \in listed
  /\ n \notin busy \/ TotalGpu[n] > 1
  /\ nodes[n].state = "ready"
  /\ Target[i] \in {NoNode, n}
  /\ Cardinality(CommittedGpus(n)) + Gpus[i] <= TotalGpu[n]

\* No request starves beside room: a request cannot wait forever while one
\* READY node it may use keeps enough uncommitted GPUs.
NoStarvationBesideRoom ==
  \A i \in Instances, n \in Nodes :
    ~<>[](running /\ status[i] = "queued" /\ RoomOn(i, n))
=============================================================================
