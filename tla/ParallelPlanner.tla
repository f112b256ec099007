--------------------------- MODULE ParallelPlanner ---------------------------
(***************************************************************************)
(* plan_dynamic_reparallelization: from the worker nodes, the shapes that   *)
(* the backend supports, and costs, to a parallel plan and its nodes.       *)
(*                                                                         *)
(* Pure operators.  Nodes are numbered in the order of their names.  Costs  *)
(* and scores are integers; a cost that is not known is Unknown.  A shape   *)
(* is a record of the sizes that a supported configuration names.           *)
(***************************************************************************)
EXTENDS Question, Ordering

-----------------------------------------------------------------------------
(* Nodes: [state, total, free] by number.                                  *)

NewNode == [state |-> "ready", total |-> 0, free |-> 0]

\* apply_spot_event_to_worker_nodes; info is the number of GPUs that came with
\* the event.
ApplySpotEvent(nodes, event, n, info) ==
    LET known == IF n \in DOMAIN nodes THEN nodes ELSE nodes @@ (n :> NewNode)
        node == IF info = Unknown THEN known[n]
                ELSE [known[n] EXCEPT !.total = info, !.free = info]
        state == CASE event \in {"add", "recover"} -> "ready"
                   [] event = "preempt" -> "preempting"
                   [] event \in {"remove", "dead"} -> "dead"
    IN [known EXCEPT ![n] = [node EXCEPT
           !.state = state, !.free = IF event = "remove" THEN 0 ELSE @]]

ReadyNodes(nodes) == {n \in DOMAIN nodes : nodes[n].state = "ready"}

Gpus(nodes, n, freeOnly) == IF freeOnly THEN nodes[n].free ELSE nodes[n].total

GpuSum(nodes, S, freeOnly) == MapThenSumSet(LAMBDA n : Gpus(nodes, n, freeOnly), S)

\* summarize_gpu_availability, and the free GPUs if old and new engine overlap.
AvailableGpus(nodes, overlap) ==
    LET total == GpuSum(nodes, ReadyNodes(nodes), FALSE)
        free == GpuSum(nodes, ReadyNodes(nodes), TRUE)
    IN IF overlap /\ free < total THEN free ELSE total

\* Faulty variant of SelectTargetNodes: the nodes are taken by name.
NodesByName(nodes, required, freeOnly) ==
    LET order == SetToSortSeq({n \in ReadyNodes(nodes) : Gpus(nodes, n, freeOnly) > 0}, <)
        enough == {k \in 1..Len(order) :
            GpuSum(nodes, {order[i] : i \in 1..k}, freeOnly) >= required}
    IN IF required <= 0 \/ enough = {} THEN <<>> ELSE SubSeq(order, 1, Min(enough))

\* select_target_nodes: the largest nodes first, until they have enough.
SelectTargetNodes(nodes, required, freeOnly) ==
    LET order == SortedBy(
            SetToSortSeq({n \in ReadyNodes(nodes) : Gpus(nodes, n, freeOnly) > 0}, <),
            LAMBDA n : <<0 - Gpus(nodes, n, freeOnly), n>>)
        enough == {k \in 1..Len(order) :
            GpuSum(nodes, {order[i] : i \in 1..k}, freeOnly) >= required}
    IN IF required <= 0 \/ enough = {} THEN <<>> ELSE SubSeq(order, 1, Min(enough))

-----------------------------------------------------------------------------
(* Candidates.  A limit that is not configured is Unknown.                 *)

Limit(value, default) == IF value = Unknown THEN default ELSE value

ReplicaGpus(c) == c.tp * c.pp * c.dp

\* effective_expert_parallel_size
EpSize(c) == IF c.ep THEN c.tp * c.dp ELSE 1

\* Faulty variant of CandidateScore: the weights of GPUs and distance are swapped.
DistanceFirst(total, replicas, replicaGpus, target, unused) ==
    total * 1000 + replicas * 100 - Distance(replicaGpus, target) * 10000 - unused

\* _candidate_score
CandidateScore(total, replicas, replicaGpus, target, unused) ==
    total * 10000 + replicas * 100 - Distance(replicaGpus, target) * 1000 - unused

CandidateKey(c) ==
    Negated(<<c.score, c.replicas, c.tp, EpSize(c), 0 - c.pp, 0 - c.unused>>)

\* The costs a candidate starts with, which its profile may give.
NoCosts == [latency |-> 0, throughput |-> 0, load |-> 0, migration |-> 0,
            movement |-> 0, placement |-> Unknown, profiled |-> FALSE, batch |-> 0]

\* generate_parallel_candidates: all shapes that fit, with as many replicas as fit.
GenerateCandidates(available, limits) ==
    LET maxTp == Smaller(Limit(limits.maxTp, available), available)
        minTp == Smaller(Limit(limits.minTp, 1), maxTp)
        maxPp == Smaller(Limit(limits.maxPp, available), available)
        all == FlattenSeq([i \in 1..(maxTp - minTp + 1) |->
                   [pp \in 1..maxPp |-> <<minTp + i - 1, pp>>]])
        shapes == SelectSeq(all, LAMBDA x :
                      /\ x[1] * x[2] <= available
                      /\ available \div (x[1] * x[2]) >= Limit(limits.minReplicas, 1))
        Candidate(x) ==
            LET size == x[1] * x[2]
                replicas == available \div size
                unused == available - size * replicas
            IN NoCosts @@ [tp |-> x[1], pp |-> x[2], dp |-> 1, replicas |-> replicas,
                ep |-> FALSE, gpus |-> size * replicas, unused |-> unused,
                score |-> CandidateScore(size * replicas, replicas, size,
                                         limits.target, unused)]
    IN IF available <= 0 THEN <<>>
       ELSE SortedBy([i \in 1..Len(shapes) |-> Candidate(shapes[i])],
                LAMBDA c : Negated(<<c.score, c.replicas, c.tp, 0 - c.pp, 0 - c.unused>>))

InLimits(value, low, high, available) ==
    Limit(low, 1) <= value /\ value <= Limit(high, available)

\* _supported_config_candidates: the supported shapes within the limits that fit
\* on nodes, free ones if old and new engine overlap.
SupportedCandidates(shapes, nodes, available, limits, overlap) ==
    LET fits == SelectSeq(shapes, LAMBDA c :
            /\ InLimits(c.tp, limits.minTp, limits.maxTp, available)
            /\ InLimits(c.dp, limits.minDp, limits.maxDp, available)
            /\ InLimits(c.replicas, limits.minReplicas, limits.maxReplicas, available)
            /\ InLimits(c.pp, limits.minPp, limits.maxPp, available)
            /\ c.gpus <= available
            /\ SelectTargetNodes(nodes, c.gpus, overlap) # <<>>)
    IN SortedBy([i \in 1..Len(fits) |-> fits[i] @@
            [unused |-> available - fits[i].gpus,
             score |-> CandidateScore(fits[i].gpus, fits[i].replicas,
                 ReplicaGpus(fits[i]), limits.target, available - fits[i].gpus)]],
         CandidateKey)

-----------------------------------------------------------------------------
(* What is known of the candidates' costs.                                 *)

\* build_logical_expert_placement_plan, by the number of ranks and the strategy.
PlacementOf(c, strategy, placements) ==
    IF <<EpSize(c), strategy>> \in DOMAIN placements
    THEN placements[EpSize(c), strategy] ELSE Unknown

\* Faulty variant of AttachPlacements: a placement is kept for one shape only.
OncePerPlacement(candidates, strategies, placements) ==
    LET Add(done, x) ==
            LET c == x[1]
                p == PlacementOf(c, x[2], placements)
            IN CASE p = Unknown -> Append(done, c)
                 [] \E i \in 1..Len(done) : /\ done[i].placement # Unknown
                                            /\ done[i].placement = p.fingerprint -> done
                 [] OTHER -> Append(done, [c EXCEPT !.placement = p.fingerprint,
                                                    !.movement = p.movement])
    IN FoldLeft(Add, <<>>, FlattenSeq([i \in 1..Len(candidates) |->
            [j \in 1..Len(strategies) |-> <<candidates[i], strategies[j]>>]]))

\* _attach_expert_placement_movement_estimates: each candidate with the expert
\* placement of each strategy; the same placement of the same shape only once.
AttachPlacements(candidates, strategies, placements) ==
    LET Shape(c) == <<c.tp, c.pp, c.dp, c.replicas>>
        Add(done, x) ==
            LET c == x[1]
                p == PlacementOf(c, x[2], placements)
            IN CASE p = Unknown -> Append(done, c)
                 [] \E i \in 1..Len(done) : /\ done[i].placement # Unknown
                                            /\ done[i].placement = p.fingerprint
                                            /\ Shape(done[i]) = Shape(c) -> done
                 [] OTHER -> Append(done, [c EXCEPT !.placement = p.fingerprint,
                                                    !.movement = p.movement])
    IN FoldLeft(Add, <<>>, FlattenSeq([i \in 1..Len(candidates) |->
            [j \in 1..Len(strategies) |-> <<candidates[i], strategies[j]>>]]))

\* A row of the measured profiles is for this candidate and can be used.
ProfileMatches(row, c) ==
    /\ row.placement = c.placement
    /\ row.shape = <<c.tp, c.pp, c.dp, EpSize(c), c.replicas>>
    /\ row.validated
    /\ row.latency > 0 /\ row.throughput > 0

\* _attach_exact_placement_profiles: the first row that matches, and no estimate
\* of latency and throughput where none does.
AttachProfiles(candidates, profiles) ==
    LET Rows(c) == {i \in 1..Len(profiles) : ProfileMatches(profiles[i], c)}
        Attach(c) ==
            IF Rows(c) = {}
            THEN [c EXCEPT !.latency = 0, !.throughput = 0, !.profiled = FALSE]
            ELSE [c EXCEPT !.latency = profiles[Min(Rows(c))].latency,
                           !.throughput = profiles[Min(Rows(c))].throughput,
                           !.profiled = TRUE]
    IN IF profiles = Unknown THEN candidates
       ELSE [i \in 1..Len(candidates) |-> Attach(candidates[i])]

-----------------------------------------------------------------------------
(* Choosing among the candidates.                                          *)

\* Latencies are fractions <<n, d>>, with d = 0 for an unstable queue.
FractionLess(a, b) == a[1] * b[2] < b[1] * a[2]

\* The latency with the queue in front of the engine: latency + 1000 rho /
\* (2 throughput (1 - rho)), for the model md1_aggregate.
QueueLatency(c, arrival, queue) ==
    LET mu == c.throughput
    IN CASE ~queue -> <<c.latency, 1>>
         [] arrival >= mu -> <<1, 0>>
         [] OTHER -> <<2 * c.latency * mu * (mu - arrival) + 1000 * arrival,
                       2 * mu * (mu - arrival)>>

StableShape(c) == <<c.gpus, c.replicas, c.pp, c.tp, c.dp, c.batch>>

\* Faulty variant of SelectProfiled: only throughput above the rate is enough,
\* and the others are not told apart from it.
FastestFirst(candidates, arrival, queue) ==
    LET profiled == SelectSeq(candidates, LAMBDA c : c.throughput > 0 /\ c.latency > 0)
    IN StableSort(profiled, LAMBDA a, b :
           FractionLess(QueueLatency(a, arrival, queue), QueueLatency(b, arrival, queue)))

\* _select_profiled_candidates: the lowest latency of those that keep up with
\* the arrivals; if none does, the highest throughput.
SelectProfiled(candidates, arrival, queue) ==
    LET profiled == SelectSeq(candidates, LAMBDA c : c.throughput > 0 /\ c.latency > 0)
        feasible == SelectSeq(profiled, LAMBDA c : c.throughput >= arrival)
        others == SelectSeq(profiled, LAMBDA c : c.throughput < arrival)
        Latency(c) == QueueLatency(c, arrival, queue)
        ByLatency(a, b) ==
            \/ FractionLess(Latency(a), Latency(b))
            \/ /\ ~FractionLess(Latency(b), Latency(a))
               /\ LexLess(StableShape(a), StableShape(b))
    IN IF feasible # <<>>
       THEN StableSort(feasible, ByLatency)
            \o SortedBy(others, LAMBDA c : <<0 - c.throughput>> \o StableShape(c))
       ELSE SortedBy(profiled, LAMBDA c : <<0 - c.throughput, c.latency>> \o StableShape(c))

\* Costs that a candidate does not bring come from the configuration w, the
\* snapshot of the workload cost model.
LoadTime(c, w) == IF c.load > 0 THEN c.load ELSE w.load + c.gpus * w.loadPerGpu
Migration(c, w) ==
    IF c.migration > 0 THEN c.migration
    ELSE w.migration + c.gpus * w.migrationPerGpu + c.replicas * w.migrationPerReplica
Latency(c, w, comparable) ==
    CASE ~comparable -> 0
      [] comparable /\ c.latency > 0 -> c.latency
      [] OTHER -> w.latency
Throughput(c, w, comparable) ==
    LET given == IF comparable THEN c.throughput ELSE 0
        latency == Latency(c, w, comparable)
    IN IF given <= 0 /\ latency > 0 THEN (c.replicas * w.batch * 1000) \div latency ELSE given
QueuePenalty(c, w, comparable) ==
    IF comparable THEN Larger(0, w.arrival - Throughput(c, w, comparable)) * w.queueMs ELSE 0

\* Faulty variant of WindowPenalty: it takes all the costs of the window.
WholeWindow(c, w, comparable) ==
    LoadTime(c, w) + Migration(c, w) + QueuePenalty(c, w, comparable)

\* The window penalty takes the costs that have no penalty of their own.
WindowPenalty(c, w, comparable) ==
    (IF w.loadW = 0 THEN LoadTime(c, w) ELSE 0)
    + (IF w.migrationW = 0 THEN Migration(c, w) ELSE 0)
    + (IF w.queueW = 0 THEN QueuePenalty(c, w, comparable) ELSE 0)

\* Faulty variant of MovementPenalty: a cost that is not known is none.
UnknownIsFree(c, movementsKnown) == IF c.movement = Unknown THEN 0 ELSE c.movement

\* The costs of moving experts count only if they are known for all candidates.
MovementPenalty(c, movementsKnown) ==
    IF movementsKnown THEN c.movement ELSE 0

WorkloadScore(c, w, comparable, movementsKnown) ==
    c.score * w.baseW
    + Throughput(c, w, comparable) * w.throughputW
    - Latency(c, w, comparable) * w.latencyW
    - LoadTime(c, w) * w.loadW
    - Migration(c, w) * w.migrationW
    - MovementPenalty(c, movementsKnown) * w.movementW
    - QueuePenalty(c, w, comparable) * w.queueW
    - WindowPenalty(c, w, comparable) * w.windowW

\* Faulty variant of Comparable: a candidate with a profile is compared by it.
AnyProfiled(candidates, profiles) == TRUE

\* Measured profiles count only if all candidates have one.
Comparable(candidates, profiles) ==
    profiles = Unknown \/ \A i \in 1..Len(candidates) : candidates[i].profiled

\* _score_parallel_candidates_for_workload
ScoreForWorkload(candidates, w, profiles) ==
    LET known == \A i \in 1..Len(candidates) : candidates[i].movement # Unknown
        comparable == Comparable(candidates, profiles)
        scored == [i \in 1..Len(candidates) |-> [candidates[i] EXCEPT
                      !.score = WorkloadScore(candidates[i], w, comparable, known)]]
    IN CASE w.policy = "algorithm1" -> SelectProfiled(candidates, w.arrival, w.queue)
         [] w.policy = "weighted" /\ (~w.enabled \/ candidates = <<>>) -> candidates
         [] OTHER -> SortedBy(scored, CandidateKey)

-----------------------------------------------------------------------------
(* plan_dynamic_reparallelization with the options o.                      *)

LiveLimits(limits, live) ==
    IF ~live THEN limits
    ELSE [limits EXCEPT !.maxReplicas = Smaller(Limit(@, 1), 1),
                        !.maxPp = Smaller(Limit(@, 1), 1)]

Candidates(nodes, shapes, o) ==
    LET limits == LiveLimits(o.limits, o.live)
        available == AvailableGpus(nodes, o.overlap)
        shaped == IF shapes # <<>>
                  THEN SupportedCandidates(shapes, nodes, available, limits, o.overlap)
                  ELSE GenerateCandidates(available, limits)
    IN ScoreForWorkload(
           AttachProfiles(AttachPlacements(shaped, o.strategies, o.placements), o.profiles),
           o.workload, o.profiles)

\* What the decision says of the selected shape, and if there is none.
Decision(selected, targets) ==
    [action |-> "reparallelize", selected |-> selected, targets |-> targets]

NoCapacity == [action |-> "no_capacity", selected |-> Unknown, targets |-> <<>>]

\* Faulty variant of Plan: the nodes are chosen among all of their GPUs.
PlansOnUsedGpus(nodes, shapes, o) ==
    LET candidates == Candidates(nodes, shapes, o)
    IN IF candidates = <<>> THEN NoCapacity
       ELSE Decision(Head(candidates), SelectTargetNodes(nodes, Head(candidates).gpus, FALSE))

\* The decision: the first candidate, on the nodes that build_parallel_plan picks.
Plan(nodes, shapes, o) ==
    LET candidates == Candidates(nodes, shapes, o)
    IN IF candidates = <<>> THEN NoCapacity
       ELSE Decision(Head(candidates), SelectTargetNodes(nodes, Head(candidates).gpus, o.overlap))

-----------------------------------------------------------------------------
(* Properties.  A question is a spot event, with the nodes before it.       *)

\* The answer holds what the plan would be if moving experts cost nothing
\* anywhere (unmoved) and if nothing had been measured (unmeasured).
PlanAnswer(x) ==
    LET nodes == ApplySpotEvent(x.nodes, x.event, x.node, x.info)
        free == [k \in DOMAIN x.o.placements |-> [x.o.placements[k] EXCEPT !.movement = 0]]
    IN [nodes |-> nodes, candidates |-> Candidates(nodes, x.shapes, x.o),
        plan |-> Plan(nodes, x.shapes, x.o),
        unmoved |-> Plan(nodes, x.shapes, [x.o EXCEPT !.placements = free]).selected,
        unmeasured |-> Plan(nodes, x.shapes, [x.o EXCEPT !.profiles = <<>>]).selected]

PlanNodes == answer.nodes
Chosen == answer.plan
Planned == topic = "plan" /\ Chosen.action = "reparallelize"

\* A plan is for nodes that are ready after the event, never the node that is
\* going away, and these have the GPUs that the plan's shape takes, free ones if
\* the old engine goes on meanwhile (build_parallel_plan).
PlanHasItsGpus ==
    Planned =>
        LET targets == ToSet(Chosen.targets)
            c == Chosen.selected
        IN /\ targets # {} /\ targets \subseteq ReadyNodes(PlanNodes)
           /\ q.event \in {"preempt", "remove", "dead"} => q.node \notin targets
           /\ c.gpus = ReplicaGpus(c) * c.replicas
           /\ GpuSum(PlanNodes, targets, q.o.overlap) >= c.gpus

\* No plan spreads over more nodes than it must (select_target_nodes).
FewestNodes ==
    Planned =>
        \A S \in SUBSET ReadyNodes(PlanNodes) :
            Cardinality(S) < Len(Chosen.targets) =>
                GpuSum(PlanNodes, S, q.o.overlap) < Chosen.selected.gpus

\* Without supported shapes and costs, no layout within the limits would use more
\* GPUs than the one chosen (the weights of generate_parallel_candidates, whose
\* reason names the use of GPUs first).
MostGpus ==
    Planned /\ q.shapes = <<>> /\ ~q.o.workload.enabled =>
        LET available == AvailableGpus(PlanNodes, q.o.overlap)
            l == q.o.limits
        IN \A tp, pp \in 1..available :
              /\ tp * pp <= available
              /\ Smaller(Limit(l.minTp, 1), Limit(l.maxTp, available)) <= tp
              /\ tp <= Limit(l.maxTp, available) /\ pp <= Limit(l.maxPp, available)
              /\ available \div (tp * pp) >= Limit(l.minReplicas, 1)
              => tp * pp * (available \div (tp * pp)) <= Chosen.selected.gpus

\* With the paper's policy the engine keeps up with the arrivals if a candidate
\* can, at the lowest latency of those; if none can, none is faster
\* (_select_profiled_candidates).
KeepsUp ==
    Planned /\ q.o.workload.policy = "algorithm1" =>
        LET w == q.o.workload
            c == Chosen.selected
            all == ToSet(answer.candidates)
            enough == {d \in all : d.throughput >= w.arrival}
        IN IF enough = {} THEN \A d \in all : d.throughput <= c.throughput
           ELSE /\ c \in enough
                /\ \A d \in enough : ~FractionLess(QueueLatency(d, w.arrival, w.queue),
                                                   QueueLatency(c, w.arrival, w.queue))

\* A candidate is not chosen because nobody knows what moving its experts costs:
\* it would be chosen as well if moving cost nothing anywhere.
UnknownNotPreferred ==
    Planned /\ q.o.workload.policy = "weighted" /\ Chosen.selected.movement = Unknown =>
        /\ answer.unmoved.placement = Chosen.selected.placement
        /\ StableShape(answer.unmoved) = StableShape(Chosen.selected)

\* The time to load is in the score once: as a penalty of its own, or else as
\* part of the window's (the comment in _score_parallel_candidates_for_workload).
LoadCountedOnce ==
    topic = "plan" /\ q.o.workload.enabled =>
        LET w == q.o.workload
        IN \A i \in 1..Len(q.shapes) :
              LET c == q.shapes[i] @@ [unused |-> 0, score |-> 0]
                  d == [c EXCEPT !.load = LoadTime(c, w) + 7]
              IN WorkloadScore(c, w, TRUE, FALSE) - WorkloadScore(d, w, TRUE, FALSE)
                    = 7 * (IF w.loadW # 0 THEN w.loadW ELSE w.windowW)

\* No shape is lost when its expert placements are added: each supported shape
\* that fits is still among the candidates.
ShapesKept ==
    topic = "plan" /\ q.shapes # <<>> /\ q.o.workload.policy = "weighted" =>
        LET limits == LiveLimits(q.o.limits, q.o.live)
            Shape(c) == <<c.tp, c.pp, c.dp, c.replicas>>
            fitting == SupportedCandidates(q.shapes, PlanNodes,
                AvailableGpus(PlanNodes, q.o.overlap), limits, q.o.overlap)
        IN {Shape(c) : c \in ToSet(fitting)}
              = {Shape(c) : c \in ToSet(answer.candidates)}

\* A measured candidate has no advantage over one that was not measured: unless
\* all have a profile, the choice is that without any profile.
ProfilesAllOrNone ==
    /\ Planned /\ q.o.workload.policy = "weighted" /\ q.o.profiles # Unknown
    /\ \E c \in ToSet(answer.candidates) : ~c.profiled
    => /\ Chosen.selected.placement = answer.unmeasured.placement
       /\ StableShape(Chosen.selected) = StableShape(answer.unmeasured)
=============================================================================
