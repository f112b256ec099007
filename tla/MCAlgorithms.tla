---------------------------- MODULE MCAlgorithms ----------------------------
(***************************************************************************)
(* Bounded questions to the pure operators.                                 *)
(***************************************************************************)
EXTENDS ParallelPlanner, ExpertPlacement, MigrationPlan, StateTarget, RouteHistogram, TensorLayout,
    RuntimeEvidence, RiskScheduling, StorageAware

NoLimits == [minTp |-> Unknown, maxTp |-> Unknown, minPp |-> Unknown, maxPp |-> Unknown,
    minDp |-> Unknown, maxDp |-> Unknown, minReplicas |-> Unknown,
    maxReplicas |-> Unknown, target |-> 1]

NoWorkload == [policy |-> "weighted", enabled |-> FALSE, arrival |-> 0, queue |-> FALSE,
    batch |-> 1, latency |-> 0, load |-> 0, loadPerGpu |-> 0, migration |-> 0,
    migrationPerGpu |-> 0, migrationPerReplica |-> 0, queueMs |-> 1000, baseW |-> 1,
    throughputW |-> 100, latencyW |-> 0, loadW |-> 1, migrationW |-> 1,
    movementW |-> 1, queueW |-> 1, windowW |-> 0]

NoOptions == [overlap |-> FALSE, live |-> FALSE, limits |-> NoLimits,
    strategies |-> <<"linear">>, placements |-> <<>>, profiles |-> Unknown,
    workload |-> NoWorkload]

\* Nodes with some of their GPUs free, or dead.
NodeInfos == {[state |-> s, total |-> t, free |-> f] :
    s \in {"ready", "dead"}, t \in {1, 3}, f \in {0, 1, 3}}
SomeNodes == [1..2 -> {n \in NodeInfos : n.free <= n.total /\ (n.state = "dead" => n.free = n.total)}]

\* Layouts are made from the GPUs at hand.
GeneratedPlans ==
    [nodes : SomeNodes, event : {"add", "remove", "preempt"}, node : {1, 3}, info : {Unknown},
     shapes : {<<>>},
     o : {[NoOptions EXCEPT !.overlap = overlap, !.limits.target = t, !.limits.maxTp = m] :
             overlap \in BOOLEAN, t \in {1, 3}, m \in {Unknown, 2}}]

Shape(tp, dp, ep, replicas) ==
    NoCosts @@ [tp |-> tp, pp |-> 1, dp |-> dp, ep |-> ep, replicas |-> replicas,
                gpus |-> tp * dp * replicas]

ThreeNodes == [n \in 1..3 |-> [state |-> "ready", total |-> 2, free |-> IF n = 3 THEN 2 ELSE 1]]

\* The backend supports three shapes with measured costs.
ProfiledPlans ==
    {[nodes |-> ThreeNodes, event |-> e, node |-> 3, info |-> Unknown,
      shapes |-> <<[Shape(1, 1, FALSE, 2) EXCEPT !.latency = a[1], !.throughput = a[2]],
                   [Shape(2, 1, FALSE, 1) EXCEPT !.latency = b[1], !.throughput = b[2]],
                   [Shape(2, 2, TRUE, 1) EXCEPT !.latency = 20, !.throughput = 4]>>,
      o |-> [NoOptions EXCEPT !.workload.policy = "algorithm1",
                !.workload.arrival = r, !.workload.queue = queue]] :
        e \in {"recover", "dead"}, a \in {0, 10, 30} \X {0, 3, 5},
        b \in {10, 400} \X {2, 6}, r \in {0, 3, 7}, queue \in BOOLEAN}

\* Weighted scores with costs of expert placements, and profiles for some.
WeightedPlans ==
    {[nodes |-> ThreeNodes, event |-> "recover", node |-> 3, info |-> Unknown,
      shapes |-> <<Shape(2, 1, TRUE, 1), [Shape(1, 2, TRUE, 1) EXCEPT !.load = 5], Shape(2, 2, TRUE, 1)>>,
      o |-> [NoOptions EXCEPT
                !.overlap = overlap,
                !.strategies = <<"linear", "hotness">>,
                !.placements = (<<2, "linear">> :> [fingerprint |-> 1, movement |-> x])
                    @@ (<<2, "hotness">> :> [fingerprint |-> f, movement |-> y])
                    @@ (<<4, "linear">> :> [fingerprint |-> 3, movement |-> z])
                    @@ (<<4, "hotness">> :> [fingerprint |-> 3, movement |-> z]),
                !.profiles = p,
                !.workload.enabled = TRUE, !.workload.loadW = l, !.workload.windowW = 1]] :
        overlap \in BOOLEAN, f \in {1, 2},
        x \in {Unknown, 0, 30000}, y \in {Unknown, 10}, z \in {Unknown, 0, 20000}, l \in {0, 1},
        p \in {Unknown, <<>>} \cup
            {<<[placement |-> 1, shape |-> <<2, 1, 1, 2, 1>>, validated |-> v,
                latency |-> 10, throughput |-> 500]>> : v \in BOOLEAN}}

-----------------------------------------------------------------------------
(* Expert placements: one layer with four experts, on two ranks.           *)

Topology(l, e) == <<[layers |-> 0, experts |-> e, seen |-> {}],
                    [layers |-> 0, experts |-> 0, seen |-> {<<l - 1, 0>>, <<0, e - 1>>}]>>

Row(r) == [rank |-> r, resident |-> TRUE, size |-> 2]
RowsOf(a, missing) == [kind |-> "rows", rows |->
    [k \in DOMAIN a |-> IF k \in missing THEN <<Row(a[k]), Row(1 - a[k])>> ELSE <<Row(a[k])>>]]
Recorded(a, derived, size) == [kind |-> "place", derived |-> derived,
    place |-> [k \in DOMAIN a |-> [rank |-> a[k], node |-> Unknown, size |-> size]]]

\* All placements with the first expert on rank 0 that leave neither rank empty,
\* and one that is known in other ways.
Complete == {a \in [Keys(1, 4) -> 0..1] : a[0, 0] = 0 /\ \E k \in DOMAIN a : a[k] = 1}
Halves == [k \in Keys(1, 4) |-> k[2] \div 2]
Places ==
    {<<RowsOf(a, {}), Recorded(a, TRUE, Unknown)>> : a \in Complete}
    \cup {<<RowsOf(Halves, {<<0, 0>>})>>,
          <<[kind |-> "flag", flagged |-> FALSE], Recorded(Halves, FALSE, Unknown)>>,
          <<Recorded(Halves, TRUE, 2)>>}

Uses(experts, c) == [k \in Keys(1, experts) |-> c[k[2] + 1]]
NoHotness == [given |-> TRUE, unsupported |-> FALSE, global |-> <<>>, recent |-> <<>>,
    alpha |-> 4, sparse |-> FALSE, minSamples |-> 1, age |-> Unknown, maxAge |-> 0,
    marker |-> TRUE, requireMarker |-> Unknown]
Hots ==
    {[NoHotness EXCEPT !.global = Uses(4, g), !.recent = r] :
        g \in {<<5, 1, 1, 1>>, <<4, 4, 2, 2>>}, r \in {<<>>, Uses(4, <<1, 0, 4, 1>>)}}
    \cup {[NoHotness EXCEPT !.recent = (<<0, 1>> :> 2), !.sparse = TRUE],
          [NoHotness EXCEPT !.recent = Uses(4, <<2, 1, 2, 1>>), !.maxAge = 5, !.age = 9],
          [NoHotness EXCEPT !.recent = Uses(5, <<2, 1, 2, 1, 1>>)],
          [NoHotness EXCEPT !.recent = Uses(4, <<2, 1, 2, 1>>), !.marker = FALSE]}

NoMovementLimits == [strategy |-> "linear", weight |-> 1, minImprovement |-> 0, maxMoved |-> 0,
    maxBytes |-> 0, requireKnown |-> TRUE, maxCost |-> 0, movementWeight |-> 0, reference |-> 0,
    cooldown |-> FALSE, cost |-> 0, costPerByte |-> 0, costPerExpert |-> 0, size |-> Unknown]
PlacementOptions ==
    {[NoMovementLimits EXCEPT !.strategy = s, !.costPerExpert = 1] :
        s \in {"linear", "round_robin", "hotness", "hotness_balanced", "hotness_locality"}}
    \cup {[NoMovementLimits EXCEPT !.strategy = "hotness_balanced", !.minImprovement = m,
              !.maxMoved = n, !.maxBytes = 4 - n] : m \in {0, 50}, n \in {0, 2}}
    \cup {[NoMovementLimits EXCEPT !.strategy = "hotness_locality", !.movementWeight = 1,
              !.reference = 10, !.costPerByte = 1, !.maxCost = m] : m \in {0, 7}}

Sourced == {<<>>, (<<0, 0, 1>> :> 3) @@ (<<1, 0, 0>> :> 5), (<<2, 0, 1>> :> 3)}

Placements(placed, options, hots, sourced) ==
    {[sources |-> Topology(1, 4), ranks |-> 2, replicas |-> 2, nodes |-> <<1, 2, 3, 4>>,
      places |-> p, hot |-> h, o |-> o,
      src |-> [supported |-> TRUE, recent |-> s, global |-> (<<1, 0, 1>> :> 1)]] :
        p \in placed, h \in hots, o \in options, s \in sourced}

-----------------------------------------------------------------------------
(* Migrations: up to three requests, two targets; blocks of two tokens.     *)

Context(tokens) == [tokens |-> tokens, num |-> Len(tokens), blocks |-> (Len(tokens) + 1) \div 2,
    blockSize |-> 2, traits |-> [dtype |-> 1, revision |-> Unknown]]
Running(request, tokens, node) == Context(tokens) @@
    [request |-> request, node |-> node, routes |-> <<>>, declares |-> TRUE,
     told |-> <<Unknown, Unknown>>]
Room(node, capacity, warmup) == [node |-> node, capacity |-> capacity, warmup |-> warmup,
    queued |-> 0, maxQueue |-> 4, penalty |-> 0, workers |-> Unknown, snapshot |-> {},
    declares |-> TRUE, epoch |-> 1, fingerprint |-> 1]
NoMigrationOptions == [requireReuse |-> TRUE, sameRatio |-> Unknown, crossRatio |-> Unknown,
    base |-> 0, tokenCost |-> 1, blockCost |-> 4, crossCost |-> 10, locality |-> FALSE,
    dispatchW |-> 0, depthW |-> 0, pressureW |-> 0, unmatched |-> 1000]

\* Requests that compete for targets with little room, warm-up and queues.
Crowds ==
    {[sources |-> SubSeq(<<Running(1, <<1, 2, 3>>, 1), Running(2, <<1, 2, 4, 5>>, 1),
                          Running(3, <<7>>, 2)>>, 1, n),
      targets |-> <<[Room(1, a, w) EXCEPT !.queued = u], Room(2, b, 2)>>,
      contexts |-> <<c, <<>>>>,
      o |-> [NoMigrationOptions EXCEPT !.crossCost = d, !.depthW = 2, !.pressureW = 8,
                                       !.unmatched = m]] :
        n \in 0..3, a \in 0..2, b \in {1, 2}, w \in {0, 9}, u \in {0, 2}, d \in {0, 10},
        m \in {12, 1000}, c \in {<<>>, <<Context(<<1, 2, 4, 6>>)>>}}

\* One request, and what a target on its node or another has cached.
Caches ==
    {[sources |-> <<[Running(1, <<1, 2, 3, 4, 5>>, 1) EXCEPT !.blockSize = z,
                       !.told = <<k, Unknown>>]>>,
      targets |-> <<Room(n, 1, w), Room(2, 1, 0)>>,
      contexts |-> <<<<[Context(a) EXCEPT !.traits.dtype = d], Context(<<1, 2>>)>>,
                     <<Context(<<1, 2, 3, 4>>)>>>>,
      o |-> [NoMigrationOptions EXCEPT !.requireReuse = r, !.sameRatio = f, !.crossRatio = g]] :
        z \in {0, 2, 3}, n \in {1, 2}, w \in {0, 20}, r \in BOOLEAN,
        a \in {<<>>, <<9>>, <<1, 2, 3>>, <<1, 2, 3, 4, 5, 6>>}, d \in {Unknown, 1, 2},
        f \in {Unknown, 120}, g \in {Unknown, 120}, k \in {Unknown, <<9, 1>>}}

\* One request whose experts the targets have in part.
Uses2(a, b) == (<<0, 0>> :> a) @@ (<<0, 1>> :> b)
Routes == {<<>>, 1 :> Uses2(3, 1), (2 :> Uses2(1, 2)) @@ (3 :> Uses2(5, 0)),
           (1 :> Uses2(1, 3)) @@ (2 :> Uses2(8, 0))}
Routings ==
    {[sources |-> <<[Running(1, <<1, 2, 3>>, 1) EXCEPT !.routes = r, !.declares = d]>>,
      targets |-> <<[Room(2, 1, 0) EXCEPT !.snapshot = a, !.workers = w],
                    [Room(2, 1, 0) EXCEPT !.snapshot = b, !.declares = e]>>,
      contexts |-> <<<<>>, <<>>>>,
      o |-> [NoMigrationOptions EXCEPT !.locality = l, !.dispatchW = 3]] :
        r \in Routes, d \in BOOLEAN, e \in BOOLEAN, l \in BOOLEAN,
        a \in {{}, {<<0, 0>>}, {<<0, 1>>}}, b \in {{<<0, 0>>}, {<<0, 1>>}},
        w \in {Unknown, {}, {<<0, 1>>}}}

Init == NoQuestion

\* The answers are constants, so each is worked out once.
\* A state, and two instances that tell part of their runtime in some layer.
StateFields == [f \in Fields |-> IF f = "revision" THEN Unknown ELSE 1]
Layers3 == {<<a, b, c>> \in {<<>>, "tp" :> 1, "tp" :> 2, "placement" :> 2, "model" :> 2}
                              \X {<<>>, "block" :> 2, "tp" :> 1, "sampling" :> 1}
                              \X {<<>>, "ep" :> 2, "revision" :> 2} :
               ~("tp" \in DOMAIN a /\ "tp" \in DOMAIN b)}
Instance(id, node, l, ep, load) ==
    [id |-> id, node |-> node, ready |-> TRUE, restores |-> TRUE, kinds |-> Unknown,
     top |-> l[1], profile |-> l[2], metadata |-> l[3], epRequired |-> ep, warmup |-> 1,
     dispatch |-> load, load |-> load]
Plain == <<<<>>, <<>>, <<>>>>
State(node, cross, ep) ==
    [node |-> node, crossNode |-> cross, epRequired |-> ep, kind |-> "kv", restores |-> TRUE,
     tokens |-> 2, completed |-> 3, fields |-> StateFields]

Recoveries ==
    {[state |-> State("n1", cross, ep), source |-> 1,
      candidates |-> <<Instance(3, n, l, FALSE, load), Instance(2, "n1", Plain, ep, 1)>>,
      weights |-> [crossNode |-> 1, concurrency |-> 0]] :
        n \in {"", "n1", "n2"}, l \in Layers3, cross \in BOOLEAN, ep \in BOOLEAN, load \in {0, 1}}
    \cup
    {[state |-> [State("", FALSE, FALSE) EXCEPT !.tokens = t, !.kind = k, !.restores = r],
      source |-> 1,
      candidates |-> <<[Instance(1, "n1", Plain, FALSE, 0) EXCEPT !.warmup = 0],
                       [Instance(4, "n2", Plain, FALSE, 1) EXCEPT !.ready = a, !.kinds = {"kv"}],
                       [Instance(3, "", Plain, FALSE, 1) EXCEPT !.restores = b, !.kinds = kinds]>>,
      weights |-> [crossNode |-> 1, concurrency |-> 1]] :
        t \in {0, 2}, k \in {"kv", "tokens"}, r \in BOOLEAN, a \in BOOLEAN, b \in BOOLEAN,
        kinds \in {Unknown, {"kv"}, {}}}

\* Two layers with two experts; batches of two requests, called in chunks.
Batches == {[counts |-> c, chunks |-> s, rows |-> <<r, [i \in 1..4 |-> {1}]>>] :
    c \in {<<2, 1>>, <<0, 3>>, <<1, 3>>}, s \in {<<4>>, <<1, 3>>, <<2, 2>>},
    r \in {<<{1}, {2}, {1, 2}, {2}>>, <<{2}, {2}, {1}, {1}>>, <<{}, {1}, {2}, {1}>>}}
OneBatch == [counts |-> <<1, 1>>, chunks |-> <<2>>, rows |-> <<<<{1}, {2}>>, <<{2}, {2}>>>>]
RouteQuestions == {[layers |-> 2, experts |-> 2, engines |-> es, stages |-> st, tp |-> tp, window |-> w] :
    es \in {<<b>> : b \in Batches} \cup {<<b, OneBatch>> : b \in Batches},
    st \in {<<<<1, 2>>>>, <<<<1>>, <<2>>>>}, tp \in 1..2, w \in {1, 4}}

\* Three experts on two ranks, one or two engines.
Ranks(a, bare) == [e \in 1..3 |-> [n |-> a[e], bare |-> bare]]
Worker(rank, ep, experts, last) == [rank |-> rank, ep |-> ep, experts |-> experts, last |-> last,
    ready |-> TRUE, fails |-> FALSE, moved |-> 1]
Engine(ws) == [busy |-> FALSE, workers |-> ws]
PlacementPlanOf(a, live, bare) == [ranks |-> Ranks(a, bare), print |-> "p", live |-> live,
    allowActive |-> FALSE, required |-> FALSE]
Fleets ==
    {<<Engine(<<Worker(0, 0, s, l), Worker(1, 1, t, k)>>)>> :
        s \in SUBSET (1..3), t \in SUBSET (1..3), l \in {"", "p"}, k \in {"o", "p"}}
    \cup {<<Engine(<<Worker(0, 0, s, l)>>), Engine(<<Worker(0, 1, t, k)>>)>> :
        s \in SUBSET (1..3), t \in {{}, {2, 3}, {2}}, l \in {"", "p"}, k \in {"o", "p"}}
Troubled ==
    {<<[Engine(<<[Worker(0, 0, {1}, l) EXCEPT !.ready = r, !.moved = m]>>) EXCEPT !.busy = b],
       Engine(<<[Worker(0, 1, {2, 3}, k) EXCEPT !.fails = f]>>)>> :
        l \in {"", "p"}, k \in {"o", "p"}, r \in BOOLEAN, b \in BOOLEAN, f \in BOOLEAN, m \in 0..1}
HookQuestions ==
    {[plan |-> PlacementPlanOf(<<0, 1, 1>>, live, bare), engines |-> f, applyHook |-> a,
      verifyHook |-> TRUE, verifyRaises |-> FALSE] :
        live \in BOOLEAN, bare \in {FALSE}, a \in BOOLEAN, f \in Fleets}
    \cup
    {[plan |-> [PlacementPlanOf(<<0, 1, 1>>, live, FALSE) EXCEPT !.required = r, !.allowActive = c],
      engines |-> f, applyHook |-> TRUE, verifyHook |-> v[1], verifyRaises |-> v[2]] :
        live \in BOOLEAN, r \in BOOLEAN, c \in BOOLEAN,
        v \in {<<FALSE, FALSE>>, <<TRUE, FALSE>>, <<TRUE, TRUE>>},
        f \in Troubled \cup {SubSeq(g, 1, 1) : g \in Troubled}}
    \cup
    {[plan |-> PlacementPlanOf(<<0, 1, 0>>, TRUE, TRUE), engines |-> f, applyHook |-> TRUE,
      verifyHook |-> TRUE, verifyRaises |-> FALSE] : f \in {g \in Fleets : Len(g) = 1}}

\* Two instances of a deployment with two ranks, on one engine or two; three
\* experts.  Later the plan changes, or a third rank joins.
EvidencePlan(a, print, live, required, snapshot) ==
    [ranks |-> [e \in 0..2 |-> [n |-> a[e + 1], bare |-> FALSE]], print |-> print, live |-> live,
     allowActive |-> FALSE, required |-> required, snapshot |-> snapshot]
FirstPlan(live, required) == EvidencePlan(<<0, 1, 1>>, "p", live, required,
    [source |-> "plan", ranks |-> [e \in 0..2 |-> IF e = 0 THEN 0 ELSE 1]])
SecondPlan == EvidencePlan(<<0, 0, 1>>, "r", TRUE, Unknown, Unknown)
RankWorker(rank, ep, size, experts) == Worker(rank, ep, experts, "") @@ [size |-> size]
HooksOf(es, a, v, raises) ==
    [plan |-> Unknown, engines |-> es, applyHook |-> a, verifyHook |-> v, verifyRaises |-> raises]
OneEngine(s, t, size) == <<Engine(<<RankWorker(0, 0, 2, s), RankWorker(1, 1, size, t)>>)>>
TwoEngines(s, t, ep) == <<Engine(<<RankWorker(0, 0, 2, s)>>), Engine(<<RankWorker(0, ep, 2, t)>>)>>
ThreeEngines(t, size) == [i \in 1..3 |-> Engine(<<RankWorker(0, i - 1, size, IF i = 3 THEN t ELSE {i - 1})>>)]
NoLater == [kind |-> "none"]
Later == {NoLater}
    \cup {[kind |-> "remap", plan |-> SecondPlan, hooks |-> HooksOf(TwoEngines(s, {2}, 1), a, TRUE, FALSE)] :
            s \in {{0}, {0, 1}}, a \in BOOLEAN}
    \cup {[kind |-> "resize", dp |-> dp, plan |-> e, hooks |-> HooksOf(ThreeEngines(t, z), TRUE, TRUE, FALSE)] :
            dp \in {2, 3}, e \in {Unknown, SecondPlan}, t \in {{}, {0}, {2}}, z \in {2, 3}}
Serves(id, reach, hooks, moe, later) ==
    [id |-> id, reach |-> reach, hooks |-> hooks, moeHook |-> moe, later |-> later]
Deployment(tp, dp, ep, experts, is, expected) ==
    [base |-> [max_num_seqs |-> 4], plan |-> [tp |-> tp, dp |-> dp, ep |-> ep, experts |-> experts],
     byInstance |-> [k \in {} |-> Unknown], infer |-> TRUE, experts |-> 3, strategy |-> "linear",
     hot |-> [e \in 0..2 |-> 0], instances |-> is, expected |-> expected]
Held == {{}, {0}, {1, 2}, {0, 1}}
Second == {<<>>, <<Serves("b", "none", HooksOf(OneEngine({0}, {1, 2}, 2), TRUE, TRUE, FALSE), TRUE, NoLater)>>,
    <<Serves("b", "answers", HooksOf(OneEngine({0}, {1, 2}, 2), TRUE, TRUE, FALSE), TRUE, NoLater)>>}
ExpertPlans == {Unknown} \cup {FirstPlan(live, r) : live \in BOOLEAN, r \in {Unknown, TRUE}}
EvidenceQuestions ==
    {Deployment(2, 1, TRUE, e, <<Serves("a", "answers", HooksOf(OneEngine(s, t, z), a, v, raises), m, NoLater)>> \o o, n) :
        e \in ExpertPlans, s \in Held, t \in Held \ {{0, 1}}, z \in 1..2, a \in BOOLEAN, v \in BOOLEAN,
        raises \in {FALSE}, m \in BOOLEAN, o \in Second, n \in {2}}
    \cup
    {Deployment(1, 2, TRUE, e, <<Serves("a", "answers", HooksOf(TwoEngines({0}, {1, 2}, p), TRUE, TRUE, raises), TRUE, l)>>, n) :
        e \in ExpertPlans, p \in 0..1, raises \in BOOLEAN, l \in Later, n \in {2, 3}}
    \cup
    {[Deployment(tp, dp, ep, Unknown, <<Serves("a", "answers", HooksOf(<<>>, FALSE, FALSE, FALSE), FALSE, NoLater)>>, 1) EXCEPT
        !.byInstance = y, !.infer = f, !.experts = n, !.strategy = g, !.hot = h] :
        tp \in 1..2, dp \in 1..3, ep \in BOOLEAN, f \in BOOLEAN, n \in {0, 4, 5},
        g \in {"linear", "round_robin", "hotness", "other"}, h \in {[e \in 0..4 |-> (3 * e) % 5]},
        y \in {[k \in {} |-> Unknown], "plan" :> ("a" :> FirstPlan(FALSE, TRUE)),
               "snapshot" :> ("a" :> FirstPlan(FALSE, TRUE).snapshot)}}

\* Four modules, two with names that are prefixes; the last one tied to the first
\* or not.  Records go directly to the file or not, and fill a partition or not.
Modules == <<<<"e">>, <<"h", "1">>, <<"h", "1", "0">>, <<"l">>>>
Tensors(tied) == [i \in 1..4 |-> [name |-> Append(Modules[i], "w"), module |-> i,
                                  storage |-> IF i = 4 /\ tied THEN 1 ELSE i]]
Layout(tied, sizes, kind, memory, chunk, threads) ==
    [tensors |-> IF tied /\ chunk = 3 THEN Append(Tensors(tied), [name |-> <<"l", "b">>, module |-> 4, storage |-> 4])
                 ELSE Tensors(tied),
     sizes |-> sizes, modules |-> Modules, kind |-> kind, device |-> Len(memory), memory |-> memory,
     chunk_size |-> chunk, threads |-> threads]
Sizes == {<<a, b, c, d>> : a \in {1, 2, 5}, b \in {1, 4, 6}, c \in {2, 9}, d \in {1, 3}}
LayoutQuestions ==
    {Layout(tied, z, kind, m, c, t) : tied \in BOOLEAN, z \in Sizes, kind \in {"auto"},
        m \in {<<20>>, <<7, 12>>, <<6, 6, 9>>}, c \in {3, 4}, t \in {2}}
    \cup {Layout(tied, z, kind, m, 4, t) : tied \in BOOLEAN, z \in {<<5, 6, 9, 3>>, <<2, 1, 2, 1>>, <<5, 4, 2, 1>>},
        kind \in {"device", "sequential"}, m \in {<<20>>, <<7, 12>>}, t \in {1, 3}}

\* Two nodes with two GPUs.  One or two refreshes, in which the callable is away,
\* silent or speaks and the file knows a node, all nodes or nothing.
RiskOptions(life, load, gpu) ==
    [default_spot_risk |-> 0, default_remaining_lifetime_s |-> 4, default_loading_cost |-> 0,
     max_remaining_lifetime_s |-> 4, max_loading_cost |-> 2, risk_weight |-> 20,
     lifetime_weight |-> life, loading_cost_weight |-> load, free_gpu_weight |-> gpu]
RiskEntry(risk, life) == ("spot_risk" :> risk) @@ ("remaining_lifetime_s" :> life)
RiskCalls == {Raises, Nothing, "risk_score" :> 2 * Whole, ("preemption_risk" :> Malformed) @@ ("load_cost" :> 1)}
RiskFiles == {Nothing, 0 :> RiskEntry(120, 2), 1 :> ("expected_remaining_lifetime_s" :> 6)}
RiskRays == {1 :> g : g \in {("free_gpu" :> 2) @@ ("total_gpu" :> 2)}}
    \cup {[n \in 1..2 |-> ("free_gpu" :> 2) @@ ("total_gpu" :> 2)]}
RiskRows == {<<>>, <<RiskEntry(60, 8), RiskEntry(180, Malformed)>>}
RiskRound(ray, first, second, file, env, rows, used) ==
    [ray |-> ray, call |-> <<first, second>>, file |-> file, env |-> env,
     rows |-> <<rows, <<>>>>, allocated |-> <<used, 0>>]
TwoNodes == [n \in 1..2 |-> ("free_gpu" :> 2) @@ ("total_gpu" :> 2)]
FirstRounds ==
    {RiskRound(ray, a, b, f, e, r, u) : ray \in RiskRays, a \in RiskCalls, b \in RiskCalls,
        f \in RiskFiles, e \in {Nothing, "loading_cost" :> 1}, r \in RiskRows, u \in {1}}
LaterRounds == {RiskRound(TwoNodes, a, Raises, f, Nothing, r, u) : a \in RiskCalls, f \in RiskFiles,
    r \in RiskRows, u \in 0..1}
RiskQuestions ==
    {[config |-> k, reports |-> <<>>, rounds |-> <<r>>, marked |-> {}, requested |-> g,
      options |-> RiskOptions(20, 20, 1)] :
        k \in {Nothing, 1 :> ("spot_risk" :> 30)}, r \in FirstRounds, g \in 1..2}
    \cup
    {[config |-> 1 :> ("spot_risk" :> 30), reports |-> p, rounds |-> <<r, s>>, marked |-> m, requested |-> 1,
      options |-> o] :
        p \in {<<>>, <<<<2, "risk_score" :> 60>>>>, <<<<1, RiskEntry(240, 9)>>>>},
        r \in {f \in FirstRounds : f.call[2] = Nothing /\ f.call[1] # Nothing /\ f.env = Nothing
                                   /\ f.file = Nothing /\ f.rows[1] = <<>>},
        s \in {l \in LaterRounds : l.call[1] # Nothing}, m \in {{}, {1}},
        o \in {RiskOptions(20, 20, 1), RiskOptions(0, 0, 0)}}

\* Two nodes that may take the model "a", a third one to move to; up to three
\* instances with one or two GPUs.
StoreNode(ready, free, stored, pinned, waiting, disk) ==
    [ready |-> ready, free |-> free, stored |-> stored, pinned |-> pinned, waiting |-> waiting,
     disk |-> disk, pcie |-> 4]
FirstNodes == {StoreNode(r, f, s, p, w, 1) : r \in BOOLEAN, f \in {0, 1}, s \in {{"a"}, {"b"}, Unknown},
    p \in {{}}, w \in {0, 5}}
SecondNodes == {StoreNode(TRUE, f, {"a", "b"}, p, 2, 2) : f \in 0..2, p \in {{}, {"a"}}}
ThirdNodes == {StoreNode(FALSE, f, s, p, 1, 3) : f \in {0, 2}, s \in {{}, Unknown}, p \in {{"b"}}}
InstanceOf(id, model, n, gpus, resuming) ==
    [id |-> id, model |-> model, node |-> n, num_gpu |-> gpus, resuming |-> resuming, ready |-> id # 4]
Crowd == {<<>>, <<InstanceOf(1, "b", 1, 1, 3)>>, <<InstanceOf(1, "b", 1, 2, 3), InstanceOf(2, "c", 1, 1, 1)>>,
    <<InstanceOf(1, "a", 1, 1, 1), InstanceOf(2, "b", 1, 1, 9), InstanceOf(3, "c", 1, 1, 2)>>,
    <<InstanceOf(4, "b", 1, 1, 1), InstanceOf(2, "c", 1, 2, 4), InstanceOf(3, "b", 2, 1, 2)>>}
StorageQuestions ==
    {[model |-> "a", num_gpus |-> g, nodes |-> <<a, b, c>>, instances |-> i,
      size |-> [a |-> 12, b |-> 24, c |-> 12], enable_migration |-> m, target |-> t] :
        g \in 1..2, a \in {n \in FirstNodes : n.waiting = 5 /\ (n.ready \/ n.stored = {"a"})}, b \in SecondNodes, c \in ThirdNodes, i \in Crowd,
        m \in {TRUE}, t \in {Unknown}}
    \cup
    {[model |-> "a", num_gpus |-> g, nodes |-> <<a, b, StoreNode(TRUE, 2, {}, {}, 1, 3)>>, instances |-> i,
      size |-> [a |-> 12, b |-> 24, c |-> 12], enable_migration |-> m, target |-> t] :
        g \in 1..3, a \in {n \in FirstNodes : n.ready /\ n.stored = {"a"}}, b \in SecondNodes, i \in Crowd,
        m \in BOOLEAN, t \in {1, 2}}

StorageAnswers == {<<x, AllocationPlan(x)>> : x \in StorageQuestions}
RiskAnswers == {<<x, PlanRiskAwareScheduling(x)>> : x \in RiskQuestions}
LayoutAnswers == {<<x, LoadModel(x)>> : x \in LayoutQuestions}
RouteAnswers == {<<x, RouteMetadata(x)>> : x \in RouteQuestions}
EvidenceAnswers == {<<x, EvidenceAnswer(x)>> : x \in EvidenceQuestions}
HookAnswers == {<<x, PlanApplied(x)>> : x \in HookQuestions}
RecoveryAnswers == {<<x, RecoveryPlan(x)>> : x \in Recoveries}
PlanAnswers == {<<x, PlanAnswer(x)>> : x \in GeneratedPlans \cup ProfiledPlans \cup WeightedPlans}
PlacementAnswers == {<<x, PlacementPlan(x)>> : x \in
    Placements(Places, PlacementOptions, Hots, {<<>>})
    \cup Placements(Places, {o \in PlacementOptions : o.strategy = "hotness_locality"},
                    Hots, Sourced)}
MigrationAnswers == {<<x, MigrationDecision(x)>> : x \in Crowds \cup Caches \cup Routings}

Next ==
    \/ \E a \in PlanAnswers : Asks("plan", a[1], a[2])
    \/ \E a \in PlacementAnswers : Asks("placement", a[1], a[2])
    \/ \E a \in MigrationAnswers : Asks("migration", a[1], a[2])
    \/ \E a \in RecoveryAnswers : Asks("recovery", a[1], a[2])
    \/ \E a \in RouteAnswers : Asks("routes", a[1], a[2])
    \/ \E a \in HookAnswers : Asks("hooks", a[1], a[2])
    \/ \E a \in EvidenceAnswers : Asks("evidence", a[1], a[2])
    \/ \E a \in RiskAnswers : Asks("risk", a[1], a[2])
    \/ \E a \in StorageAnswers : Asks("storage", a[1], a[2])
    \/ \E a \in LayoutAnswers : Asks("layout", a[1], a[2])

Spec == Init /\ [][Next]_question

-----------------------------------------------------------------------------
\* The planner (ParallelPlanner): a plan has its GPUs on the fewest nodes after
\* the event, no layout within the limits uses more or keeps up better, and a
\* candidate gains nothing by what is unknown, measured or counted twice.
PlanIsSound ==
    /\ PlanHasItsGpus /\ FewestNodes /\ MostGpus /\ KeepsUp /\ ShapesKept
    /\ UnknownNotPreferred /\ LoadCountedOnce /\ ProfilesAllOrNone

\* Expert placement (ExpertPlacement): experts fit in the slots, shares of use add
\* up, nothing moves on doubtful hotness or beyond the budgets, and a reported
\* cost is the cost of the whole movement.
PlacementIsSound ==
    /\ RanksKeepSlots /\ RanksApart /\ SharesAddUp /\ NoLocalityIsBalanced
    /\ KeepsWhenUnsure /\ AcceptedPays /\ MovementComplete

\* Migration (MigrationPlan, StateTarget): no assignment of the requests costs
\* less, reuse is really cached, and state is restored only where it fits,
\* whatever the order of the pool.
MigrationIsSound ==
    LowestCost /\ ReuseIsCached /\ NearExperts /\ TargetFits /\ OrderIrrelevant

\* What workers report adds up to the truth (RouteHistogram, PlacementHooks,
\* RuntimeEvidence): routes are counted once, a plan that is called applied,
\* verified or seen is so on every worker, and the router hears of it, of the
\* ranks and of the sizes what the engines run, whatever is configured.
ReportsAreTrue ==
    /\ RoutesAreOwn /\ HotnessExact /\ SuccessIsPlaced /\ SeenByAllIsSeen
    /\ VerifiedIsInPlace /\ AuditIsEvidence /\ SizesAreRunning /\ DerivedIsBalanced



=============================================================================
