---------------------------- MODULE MigrationPlan ----------------------------
(***************************************************************************)
(* plan_low_cost_migration: which running request goes to which instance,   *)
(* with the router's measure of what the instance has cached already.       *)
(*                                                                         *)
(* Pure operators.  A source is a running request with its context, a       *)
(* target an instance with room.  Costs are integers, Whole to the unit;    *)
(* ratios are parts of Whole.  An expert is a pair of layer and number.     *)
(***************************************************************************)
EXTENDS Question, Ordering

-----------------------------------------------------------------------------
(* What a target has cached.  A context is a record of its tokens, their    *)
(* number, its blocks and their size, and traits that have to agree.        *)

\* A trait that one side does not tell is taken to agree.
CacheCompatible(s, t) ==
    /\ s.blockSize > 0 /\ t.blockSize = s.blockSize
    /\ s.blocks > 0 /\ t.blocks > 0
    /\ \A k \in DOMAIN s.traits : Unknown \in {s.traits[k], t.traits[k]} \/ s.traits[k] = t.traits[k]

CommonPrefix(a, b) ==
    Max({n \in 0..Smaller(Len(a), Len(b)) : \A i \in 1..n : a[i] = b[i]})

TokenCount(c) == IF c.num # 0 THEN c.num ELSE Len(c.tokens)

\* _target_specific_reuse: tokens and blocks of s that t has.
TargetReuse(s, t) ==
    LET common == CommonPrefix(s.tokens, t.tokens)
        blocks == Smaller(Smaller(s.blocks, t.blocks), common \div s.blockSize)
    IN IF s.tokens = <<>> \/ t.tokens = <<>> \/ ~CacheCompatible(s, t) \/ blocks <= 0
       THEN <<0, 0>>
       ELSE <<Smaller(Smaller(TokenCount(s), TokenCount(t)), blocks * s.blockSize), blocks>>

\* Faulty variant of ReuseMap: a cache on another node counts.
AnyNodesCache(s, targets, contexts) ==
    [t \in 1..Len(targets) |->
        LET hits == SelectSeq(contexts[t], LAMBDA c : TargetReuse(s, c)[2] > 0)
        IN IF hits # <<>> THEN TargetReuse(s, Head(hits)) ELSE s.told[t]]

\* _populate_target_reuse_maps, for one source: the first context of a target
\* on the same node that shares a block, else what the source's engine told.
ReuseMap(s, targets, contexts) ==
    [t \in 1..Len(targets) |->
        LET hits == SelectSeq(contexts[t], LAMBDA c : TargetReuse(s, c)[2] > 0)
        IN IF targets[t].node = s.node /\ hits # <<>> THEN TargetReuse(s, Head(hits))
           ELSE s.told[t]]

\* _context_migration_planner_config: without a measured reuse there is none,
\* unless the configuration gives a ratio.
ReuseRatio(o, sameNode) ==
    LET given == IF sameNode THEN o.sameRatio ELSE o.crossRatio
    IN IF given # Unknown THEN given
       ELSE IF o.requireReuse \/ ~sameNode THEN 0 ELSE Whole

\* round of Python: halves go to the even neighbour.
Rounded(n) ==
    LET down == n \div Whole
        rest == 2 * (n % Whole)
    IN IF rest > Whole \/ (rest = Whole /\ down % 2 = 1) THEN down + 1 ELSE down

ReuseValue(s, target, measured, total, o) ==
    IF measured # Unknown THEN Smaller(total, measured)
    ELSE Smaller(total, Rounded(total * ReuseRatio(o, s.node = target.node)))

\* reusable_context: tokens and blocks.
ReusableContext(s, targets, t, reuse, o) ==
    LET m == reuse[t]
    IN <<ReuseValue(s, targets[t], IF m = Unknown THEN m ELSE m[1], s.num, o),
         ReuseValue(s, targets[t], IF m = Unknown THEN m ELSE m[2], s.blocks, o)>>

-----------------------------------------------------------------------------
(* Costs                                                                   *)

KvCost(s, targets, t, reuse, o, warm) ==
    LET reusable == ReusableContext(s, targets, t, reuse, o)
    IN Whole * (o.base
                + (s.num - reusable[1]) * o.tokenCost
                + (s.blocks - reusable[2]) * o.blockCost
                + (IF warm THEN targets[t].warmup ELSE 0)
                + (IF s.node # targets[t].node THEN o.crossCost ELSE 0))

\* The experts that a source uses: its own, or if they are not told apart all
\* that are reported.
RouteHistogram(s) ==
    LET all == UNION {DOMAIN s.routes[r] : r \in DOMAIN s.routes}
    IN IF s.request \in DOMAIN s.routes THEN s.routes[s.request]
       ELSE [e \in all |-> MapThenSumSet(LAMBDA r : IF e \in DOMAIN s.routes[r]
                                                    THEN s.routes[r][e] ELSE 0,
                                         DOMAIN s.routes)]

\* The experts of a target: what its workers report, else its snapshot.
PlacementKeys(target) ==
    IF target.workers # Unknown THEN target.workers ELSE target.snapshot

\* Faulty variant of RemoteRoutes: the experts that the target has.
LocalRoutes(s, target) ==
    MapThenSumSet(LAMBDA e : RouteHistogram(s)[e], DOMAIN RouteHistogram(s) \cap PlacementKeys(target))

RemoteRoutes(s, target) ==
    MapThenSumSet(LAMBDA e : RouteHistogram(s)[e], DOMAIN RouteHistogram(s) \ PlacementKeys(target))

Routed(s) == MapThenSumSet(LAMBDA e : RouteHistogram(s)[e], DOMAIN RouteHistogram(s))

\* estimate_expert_dispatch_cost; no observation costs nothing.
DispatchObserved(s, target, o) ==
    /\ o.locality
    /\ DOMAIN RouteHistogram(s) # {} /\ PlacementKeys(target) # {}
    /\ s.declares /\ target.declares

DispatchCost(s, target, o) ==
    IF ~DispatchObserved(s, target, o) THEN 0
    ELSE (RemoteRoutes(s, target) * Whole * o.dispatchW) \div Routed(s)

\* estimate_queue_penalty_cost with some requests planned ahead.
QueueDepth(target, ahead) == target.queued + ahead

QueuePressure(target, ahead) ==
    LET depth == QueueDepth(target, ahead)
        capacity == IF target.maxQueue <= 0 /\ target.capacity > 0
                    THEN depth + target.capacity ELSE target.maxQueue
    IN IF capacity > 0 THEN Smaller(Whole, (depth * Whole) \div capacity) ELSE 0

QueueCost(target, ahead, o) ==
    Whole * (target.penalty + QueueDepth(target, ahead) * o.depthW)
    + QueuePressure(target, ahead) * o.pressureW

\* estimate_migration_cost
MoveCost(s, targets, t, reuse, o, warm, ahead) ==
    KvCost(s, targets, t, reuse, o, warm) + DispatchCost(s, targets[t], o)
    + QueueCost(targets[t], ahead, o)

-----------------------------------------------------------------------------
(* The assignment                                                          *)

Assigned(choices, t) == Cardinality({i \in 1..Len(choices) : choices[i] = t})

\* The cost of sending the next source to t, or of leaving it (0), after the
\* choices for the sources before it.  The first at a target pays its warm-up.
ChoiceCost(x, reuse, choices, t) ==
    LET i == Len(choices) + 1
        ahead == Assigned(choices, t)
    IN IF t = 0 THEN Whole * x.o.unmatched
       ELSE MoveCost(x.sources[i], x.targets, t, reuse[i], x.o, FALSE, ahead)
            + (IF ahead = 0 THEN Whole * x.targets[t].warmup ELSE 0)

\* Faulty variant of Solve: each source takes what is cheapest for it.
CheapestEach(x, reuse) ==
    LET next[choices \in Seq(0..Len(x.targets))] ==
            IF Len(choices) = Len(x.sources) THEN choices
            ELSE LET open == {0} \cup {t \in 1..Len(x.targets) :
                                          Assigned(choices, t) < x.targets[t].capacity}
                     best == CHOOSE t \in open : \A u \in open :
                         LexLess(<<ChoiceCost(x, reuse, choices, t), t>>,
                                 <<ChoiceCost(x, reuse, choices, u), u + 1>>)
                 IN next[Append(choices, best)]
    IN next[<<>>]

\* _fixed_warmup_assignment: the choices that the recursion finds, which takes
\* an alternative only if it costs less.
Solve(x, reuse) ==
    LET n == Len(x.sources)
        best[choices \in Seq(0..Len(x.targets))] ==
            IF Len(choices) = n THEN [cost |-> 0, rest |-> <<>>]
            ELSE LET With(t) ==
                         LET rest == best[Append(choices, t)]
                         IN [cost |-> ChoiceCost(x, reuse, choices, t) + rest.cost,
                             rest |-> <<t>> \o rest.rest]
                     Try(a, t) ==
                         IF Assigned(choices, t) >= x.targets[t].capacity THEN a
                         ELSE LET b == With(t) IN IF b.cost < a.cost THEN b ELSE a
                 IN FoldLeft(Try, With(0), [t \in 1..Len(x.targets) |-> t])
    IN best[<<>>].rest

\* target_placement_marker: what the router compares before it warms a target.
PlacementMarker(target) == [epoch |-> target.epoch, fingerprint |-> target.fingerprint]

\* The row of one source; its costs are worked out again.
MigrationRow(x, reuse, choices, i) ==
    LET t == choices[i]
        ahead == Assigned(SubSeq(choices, 1, i - 1), t)
        reusable == ReusableContext(x.sources[i], x.targets, t, reuse[i], x.o)
    IN [source |-> i, target |-> t,
        cost |-> MoveCost(x.sources[i], x.targets, t, reuse[i], x.o, ahead = 0, ahead),
        tokens |-> reusable[1], blocks |-> reusable[2],
        observed |-> DispatchObserved(x.sources[i], x.targets[t], x.o),
        routed |-> Routed(x.sources[i]), remote |-> RemoteRoutes(x.sources[i], x.targets[t]),
        marker |-> PlacementMarker(x.targets[t])]

\* reuse_ratio, by blocks if there are any.
ReuseShare(sources, rows) ==
    LET blocks == MapThenSumSet(LAMBDA i : sources[i].blocks, 1..Len(sources))
        tokens == MapThenSumSet(LAMBDA i : sources[i].num, 1..Len(sources))
    IN IF blocks # 0
       THEN (Whole * MapThenSumSet(LAMBDA i : rows[i].blocks, 1..Len(rows))) \div blocks
       ELSE IF tokens # 0
       THEN (Whole * MapThenSumSet(LAMBDA i : rows[i].tokens, 1..Len(rows))) \div tokens
       ELSE 0

MigrationAction(sources, rows) ==
    IF sources = <<>> THEN "no_context" ELSE IF rows # <<>> THEN "migrate"
    ELSE "no_target_capacity"

\* plan_low_cost_migration, after the router measured the reuse.
MigrationDecision(x) ==
    LET reuse == [i \in 1..Len(x.sources) |-> ReuseMap(x.sources[i], x.targets, x.contexts)]
        choices == Solve(x, reuse)
        placed == SelectSeq([i \in 1..Len(choices) |-> i], LAMBDA i : choices[i] # 0)
        rows == [j \in 1..Len(placed) |-> MigrationRow(x, reuse, choices, placed[j])]
    IN [action |-> MigrationAction(x.sources, rows), rows |-> rows, choices |-> choices,
        reuse |-> reuse, share |-> ReuseShare(x.sources, rows),
        total |-> MapThenSumSet(LAMBDA j : rows[j].cost, 1..Len(rows))]

-----------------------------------------------------------------------------
(* Properties                                                              *)

Migrated == topic = "migration"

\* The cost of any assignment, from what it sends where and not in which order
\* the recursion went: warm-up once per target, and the queue grows by one each.
AssignmentCost(choices) ==
    MapThenSumSet(LAMBDA i : ChoiceCost(q, answer.reuse, SubSeq(choices, 1, i - 1), choices[i]),
                  1..Len(choices))

Assignments == {c \in [1..Len(q.sources) -> 0..Len(q.targets)] :
    \A t \in 1..Len(q.targets) : Assigned(c, t) <= q.targets[t].capacity}

\* No assignment that the targets have room for costs less than the chosen one,
\* shared warm-up and queues that the plan itself makes longer included; and the
\* costs in the plan add up to that (plan_low_cost_migration).
LowestCost ==
    Migrated =>
        /\ answer.choices \in Assignments
        /\ \A c \in Assignments : AssignmentCost(answer.choices) <= AssignmentCost(c)
        /\ answer.total + Whole * q.o.unmatched * Assigned(answer.choices, 0)
               = AssignmentCost(answer.choices)

\* What a plan counts as reused, unless a ratio or the engine says so, is cached by the
\* target, on the source's node, as whole blocks of the same tokens
\* (_populate_target_reuse_maps).
ReuseIsCached ==
    Migrated /\ q.o.requireReuse /\ q.o.sameRatio = Unknown /\ q.o.crossRatio = Unknown =>
        \A j \in DOMAIN answer.rows :
            LET row == answer.rows[j]
                s == q.sources[row.source]
                n == row.blocks * s.blockSize
            IN (row.blocks > 0 \/ row.tokens > 0) /\ s.told[row.target] = Unknown =>
                /\ s.node = q.targets[row.target].node
                /\ row.tokens <= n
                /\ \E c \in ToSet(q.contexts[row.target]) :
                       Len(c.tokens) >= n /\ SubSeq(c.tokens, 1, n) = SubSeq(s.tokens, 1, n)

\* Of two targets that differ only in the experts they have, a request alone
\* goes to one that misses fewer of its tokens' experts, if both are known
\* (estimate_expert_dispatch_cost).
NearExperts ==
    Migrated /\ Len(q.sources) = 1 /\ Len(answer.rows) = 1 =>
        LET s == q.sources[1]
            t == answer.rows[1].target
            Missing(u) == MapThenSumSet(LAMBDA e : IF e \in PlacementKeys(q.targets[u]) THEN 0
                                                   ELSE RouteHistogram(s)[e],
                                        DOMAIN RouteHistogram(s))
            Same(u) == answer.reuse[1][u] = answer.reuse[1][t]
                       /\ \A f \in {"node", "warmup", "queued", "maxQueue", "capacity", "penalty"} :
                              q.targets[u][f] = q.targets[t][f]
        IN \A u \in 1..Len(q.targets) :
               Same(u) /\ DispatchObserved(s, q.targets[u], q.o)
               /\ DispatchObserved(s, q.targets[t], q.o) /\ q.o.dispatchW > 0
               => Missing(t) <= Missing(u)
=============================================================================
