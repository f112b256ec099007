--------------------------- MODULE ExpertPlacement ---------------------------
(***************************************************************************)
(* build_logical_expert_placement_plan: on which rank of an engine each     *)
(* expert of each layer should be, from how often the experts are used and  *)
(* where they are.                                                          *)
(*                                                                         *)
(* Pure operators.  Layers, experts, ranks and nodes count from zero; an    *)
(* expert is a pair <<layer, expert>>, and an assignment a function from    *)
(* the experts to ranks.  Shares are integers out of Whole, which the       *)
(* totals of the questions divide, so nothing is rounded.                   *)
(***************************************************************************)
EXTENDS Question, Ordering

CONSTANT AlphaWhole    \* hotness_alpha counts AlphaWhole-ths

Empty(f) == DOMAIN f = {}

\* infer_moe_topology: the first source that names layers and experts, else the
\* first whose placements show some.
InferTopology(sources) ==
    LET named == {i \in 1..Len(sources) : sources[i].layers > 0 /\ sources[i].experts > 0}
        shown == {i \in 1..Len(sources) : sources[i].seen # {}}
        seen == sources[Min(shown)].seen
    IN CASE named # {} -> <<sources[Min(named)].layers, sources[Min(named)].experts>>
         [] named = {} /\ shown # {} ->
               <<Max({k[1] : k \in seen}) + 1, Max({k[2] : k \in seen}) + 1>>
         [] OTHER -> <<0, 0>>

Keys(layers, experts) == (0..(layers - 1)) \X (0..(experts - 1))

-----------------------------------------------------------------------------
(* Where the experts are: entries [rank, node, size] by expert.             *)

\* _observed_runtime_expert_placement: experts with one copy, which is resident.
Observed(rows) ==
    [k \in {k \in DOMAIN rows : Len(rows[k]) = 1 /\ rows[k][1].resident} |->
        [rank |-> rows[k][1].rank, node |-> Unknown, size |-> rows[k][1].size]]

\* One source of _current_expert_placement_snapshot: rows that the runtime
\* reports, the mark that it would report them, or a placement that was written
\* down, possibly only derived from the model's configuration.
Decides(s) ==
    CASE s.kind = "rows" -> ~Empty(Observed(s.rows))
      [] s.kind = "flag" -> s.flagged
      [] s.kind = "place" -> s.derived \/ ~Empty(s.place)

\* _current_expert_placement_snapshot: the first source that decides.  A
\* derived placement decides that nothing is known.
CurrentSnapshot(sources) ==
    LET deciding == {i \in 1..Len(sources) : Decides(sources[i])}
        s == sources[Min(deciding)]
    IN CASE deciding = {} -> <<>>
         [] deciding # {} /\ s.kind = "rows" -> Observed(s.rows)
         [] deciding # {} /\ s.kind = "place" /\ ~s.derived -> s.place
         [] OTHER -> <<>>

\* _current_layer_assignment: known only if all experts of the layer are on
\* ranks of the target.
CurrentKnown(current, layer, experts, ranks) ==
    \A e \in 0..(experts - 1) :
        <<layer, e>> \in DOMAIN current /\ current[layer, e].rank \in 0..(ranks - 1)

-----------------------------------------------------------------------------
(* Hotness.                                                                *)

Count(counts, k) == IF k \in DOMAIN counts THEN counts[k] ELSE 0

\* _canonical_histogram
InvalidHistogram(counts, layers, experts) ==
    \E k \in DOMAIN counts : k \notin Keys(layers, experts) \/ counts[k] < 0

LayerTotal(counts, layer, experts) ==
    MapThenSumSet(LAMBDA e : Count(counts, <<layer, e>>), 0..(experts - 1))

\* A histogram tells a layer's hotness if it names every expert, or is known to
\* leave out only zeros.
LayerValid(counts, sparse, layer, experts) ==
    /\ sparse \/ \A e \in 0..(experts - 1) : <<layer, e>> \in DOMAIN counts
    /\ LayerTotal(counts, layer, experts) > 0

Share(counts, k, experts) ==
    (Count(counts, k) * Whole) \div LayerTotal(counts, k[1], experts)

\* Faulty variant of Blend: a layer without recent counts keeps only its part.
BlendAlways(h, k, experts) ==
    LET recent == LayerValid(h.recent, h.sparse, k[1], experts)
        global == LayerValid(h.global, h.sparse, k[1], experts)
    IN (h.alpha * (IF recent THEN Share(h.recent, k, experts) ELSE 0)
        + (AlphaWhole - h.alpha) * (IF global THEN Share(h.global, k, experts) ELSE 0))
       \div AlphaWhole

\* The hotness of one expert: recent and global shares of its layer.
Blend(h, k, experts) ==
    LET recent == LayerValid(h.recent, h.sparse, k[1], experts)
        global == LayerValid(h.global, h.sparse, k[1], experts)
    IN CASE recent /\ global ->
               (h.alpha * Share(h.recent, k, experts)
                + (AlphaWhole - h.alpha) * Share(h.global, k, experts)) \div AlphaWhole
         [] recent /\ ~global -> Share(h.recent, k, experts)
         [] OTHER -> Share(h.global, k, experts)

\* Faulty variant of Fresh: the age is not looked at.
AnyAge(h) == TRUE

\* With hotness_max_age_s the age must be known and small enough.
Fresh(h) == h.maxAge > 0 => h.age # Unknown /\ h.age <= h.maxAge

\* There is no histogram, or it is not one of this model's experts that counts
\* routed tokens of the whole deployment.
InvalidHotness(h, layers, experts) ==
    \/ ~h.given \/ h.unsupported
    \/ InvalidHistogram(h.global, layers, experts)
    \/ InvalidHistogram(h.recent, layers, experts)

\* build_hotness_snapshot
HotnessSnapshot(h, layers, experts, requireMarker) ==
    LET covered == {l \in 0..(layers - 1) :
            \/ LayerValid(h.global, h.sparse, l, experts)
            \/ LayerValid(h.recent, h.sparse, l, experts)}
        invalid == InvalidHotness(h, layers, experts)
        hotness == IF invalid THEN <<>>
                   ELSE [k \in covered \X (0..(experts - 1)) |-> Blend(h, k, experts)]
        samples == MapThenSumSet(LAMBDA l :
            LayerTotal(IF LayerValid(h.global, h.sparse, l, experts) THEN h.global ELSE h.recent,
                       l, experts), covered)
    IN [hotness |-> hotness,
        available |-> /\ ~invalid /\ covered # {}
                      /\ samples >= h.minSamples
                      /\ Fresh(h)
                      /\ requireMarker => h.marker]

-----------------------------------------------------------------------------
(* Assignments of one layer.                                               *)

SlotShare(rank, experts, ranks) ==
    (experts \div ranks) + (IF rank < experts % ranks THEN 1 ELSE 0)

\* Faulty variant of SlotCapacities: always an even share.
EvenCapacities(current, layer, experts, ranks) ==
    [r \in 0..(ranks - 1) |-> SlotShare(r, experts, ranks)]

\* _default_slot_capacities: the ranks keep their number of experts.
SlotCapacities(current, layer, experts, ranks) ==
    IF CurrentKnown(current, layer, experts, ranks)
    THEN [r \in 0..(ranks - 1) |-> Cardinality({e \in 0..(experts - 1) :
              current[layer, e].rank = r})]
    ELSE [r \in 0..(ranks - 1) |-> SlotShare(r, experts, ranks)]

\* Ranks get consecutive experts.
Linear(experts, ranks) ==
    [e \in 0..(experts - 1) |->
        CHOOSE r \in 0..(ranks - 1) :
            LET First(i) == MapThenSumSet(LAMBDA j : SlotShare(j, experts, ranks), 0..(i - 1))
            IN First(r) <= e /\ e < First(r + 1)]

RoundRobin(experts, ranks) == [e \in 0..(experts - 1) |-> e % ranks]

ExpertsByHeat(layer, experts, Heat(_)) ==
    SortedBy([i \in 1..experts |-> i - 1], LAMBDA e : <<0 - Heat(<<layer, e>>), e>>)

\* The hotness strategy of old: runs of the experts in the order of raw counts.
HottestTogether(h, layer, experts, ranks) ==
    LET order == ExpertsByHeat(layer, experts,
                     LAMBDA k : Count(h.global, k) + Count(h.recent, k))
        At(e) == CHOOSE i \in 1..experts : order[i] = e
    IN [e \in 0..(experts - 1) |-> ((At(e) - 1) * ranks) \div experts]

\* The hottest expert first, each on the rank with a free slot that has the
\* least key.
Greedy(hotness, current, layer, experts, ranks, Key(_, _, _)) ==
    LET capacity == SlotCapacities(current, layer, experts, ranks)
        Put(a, e) ==
            LET free == {r \in 0..(ranks - 1) : a.count[r] < capacity[r]}
                best == CHOOSE r \in free :
                            \A s \in free \ {r} : LexLess(Key(a.load, e, r), Key(a.load, e, s))
            IN [rank |-> [a.rank EXCEPT ![e] = best],
                load |-> [a.load EXCEPT ![best] = @ + Count(hotness, <<layer, e>>)],
                count |-> [a.count EXCEPT ![best] = @ + 1]]
        none == [r \in 0..(ranks - 1) |-> 0]
    IN FoldLeft(Put, [rank |-> [e \in 0..(experts - 1) |-> 0], load |-> none, count |-> none],
                ExpertsByHeat(layer, experts, LAMBDA k : Count(hotness, k))).rank

\* Ties go to the rank that has the expert.
Elsewhere(current, layer, experts, ranks, e, r) ==
    IF CurrentKnown(current, layer, experts, ranks) /\ current[layer, e].rank = r THEN 0 ELSE 1

\* _hotness_balanced_assignment
Balanced(hotness, current, layer, experts, ranks) ==
    Greedy(hotness, current, layer, experts, ranks, LAMBDA load, e, r :
        <<load[r], Elsewhere(current, layer, experts, ranks, e, r), r>>)

\* The part of the layer's uses of e that rank r would get from other ranks.
RemoteShare(sourced, layer, e, r) ==
    LET total == MapThenSumSet(LAMBDA s : IF s[2] = layer THEN sourced[s] ELSE 0, DOMAIN sourced)
        remote == MapThenSumSet(LAMBDA s :
            IF s[1] # r /\ s[2] = layer /\ s[3] = e THEN sourced[s] ELSE 0, DOMAIN sourced)
    IN IF total = 0 THEN 0 ELSE (remote * Whole) \div total

\* Faulty variant of Local: ties go to the lowest rank.
OwnerForgotten(hotness, sourced, weight, current, layer, experts, ranks) ==
    Greedy(hotness, current, layer, experts, ranks, LAMBDA load, e, r :
        <<load[r] + Count(hotness, <<layer, e>>)
          + weight * RemoteShare(sourced, layer, e, r), r>>)

\* _hotness_locality_assignment
Local(hotness, sourced, weight, current, layer, experts, ranks) ==
    Greedy(hotness, current, layer, experts, ranks, LAMBDA load, e, r :
        <<load[r] + Count(hotness, <<layer, e>>)
          + weight * RemoteShare(sourced, layer, e, r),
          Elsewhere(current, layer, experts, ranks, e, r), r>>)

-----------------------------------------------------------------------------
(* The candidate against the current placement.                            *)

\* _load_diagnostics: the mean over the covered layers of how much the fullest
\* rank has above an even share.
LoadPenalty(assignment, hotness, ranks) ==
    LET layers == {k[1] : k \in DOMAIN hotness}
        Load(l, r) == MapThenSumSet(LAMBDA k :
            IF k[1] = l /\ assignment[k] = r THEN hotness[k] ELSE 0, DOMAIN hotness)
        Imbalance(l) == ranks * Max({Load(l, r) : r \in 0..(ranks - 1)}) - Whole
    IN IF layers = {} THEN 0 ELSE MapThenSumSet(Imbalance, layers) \div Cardinality(layers)

\* _remote_dispatch_diagnostics
RemoteRatio(assignment, sourced) ==
    LET known == {s \in DOMAIN sourced : <<s[2], s[3]>> \in DOMAIN assignment}
        total == MapThenSumSet(LAMBDA s : sourced[s], known)
        remote == MapThenSumSet(LAMBDA s :
            IF assignment[s[2], s[3]] # s[1] THEN sourced[s] ELSE 0, known)
    IN IF total = 0 THEN 0 ELSE (remote * Whole) \div total

Objective(assignment, hotness, sourced, o, ranks) ==
    LoadPenalty(assignment, hotness, ranks)
    + (IF o.strategy = "hotness_locality" THEN o.weight * RemoteRatio(assignment, sourced) ELSE 0)

\* _entry_weight_size_bytes: the first size that is known.
FirstSize(a, b) == IF a # Unknown THEN a ELSE b

\* The bytes of a set of experts, if all sizes are known.
BytesOf(moved, Size(_)) ==
    IF \E k \in moved : Size(k) = Unknown THEN Unknown
    ELSE MapThenSumSet(Size, moved)

\* _estimate_expert_weight_movement_cost_ms
MovementCost(bytes, count, o) ==
    CASE count = 0 -> 0
      [] count > 0 /\ o.cost = 0 /\ o.costPerByte = 0 /\ o.costPerExpert = 0 -> Unknown
      [] count > 0 /\ bytes = Unknown /\ o.costPerByte > 0 -> Unknown
      [] OTHER -> o.cost + count * o.costPerExpert
                  + (IF bytes = Unknown THEN 0 ELSE bytes * o.costPerByte)

\* Faulty variant of Retains: a movement of unknown size is within the budget.
RetainsIfKnown(moved, bytes, before, after, o) ==
    \/ moved = {} \/ before <= 0
    \/ 100 * Larger(0, before - after) < o.minImprovement * before
    \/ o.maxMoved > 0 /\ Cardinality(moved) > o.maxMoved
    \/ o.maxBytes > 0 /\ bytes # Unknown /\ bytes > o.maxBytes
    \/ o.cooldown

\* The reasons to retain the current placement.  Improvements are percentages.
Retains(moved, bytes, before, after, o) ==
    LET cost == MovementCost(bytes, Cardinality(moved), o)
    IN \/ moved = {} \/ before <= 0
       \/ 100 * Larger(0, before - after) < o.minImprovement * before
       \/ o.maxMoved > 0 /\ Cardinality(moved) > o.maxMoved
       \/ o.maxBytes > 0 /\ bytes # Unknown /\ bytes > o.maxBytes
       \/ o.requireKnown /\ bytes = Unknown
       \/ o.maxCost > 0 /\ cost # Unknown /\ cost > o.maxCost
       \/ o.movementWeight > 0 /\ (o.reference <= 0 \/ cost = Unknown)
       \/ /\ o.movementWeight > 0 /\ o.reference > 0 /\ cost # Unknown
          /\ after * o.reference + o.movementWeight * cost * Whole >= before * o.reference
       \/ o.cooldown

-----------------------------------------------------------------------------
(* The plan.                                                               *)

\* _source_rank_expert_snapshot: uses by <<source rank, layer, expert>>, of the
\* recent window if it has some; none if any row is invalid.
SourceCounts(src, ranks) ==
    LET counts == IF ~Empty(src.recent) THEN src.recent ELSE src.global
        valid == \A s \in DOMAIN counts : s[1] < ranks /\ counts[s] >= 0
    IN IF ~src.supported \/ ~valid THEN <<>>
       ELSE [s \in {s \in DOMAIN counts : counts[s] > 0} |-> counts[s]]

\* The strategies that compare the current placement with a better one.
Measured(o) == o.strategy \in {"hotness_balanced", "hotness_locality"}

LayerAssignment(x, hot, sourced, current, layer, experts) ==
    CASE x.o.strategy = "linear" -> Linear(experts, x.ranks)
      [] x.o.strategy = "round_robin" -> RoundRobin(experts, x.ranks)
      [] x.o.strategy = "hotness" -> HottestTogether(x.hot, layer, experts, x.ranks)
      [] x.o.strategy = "hotness_balanced" /\ hot.available ->
            Balanced(hot.hotness, current, layer, experts, x.ranks)
      [] x.o.strategy = "hotness_locality" /\ hot.available /\ ~Empty(sourced) ->
            Local(hot.hotness, sourced, x.o.weight, current, layer, experts, x.ranks)
      [] OTHER -> IF CurrentKnown(current, layer, experts, x.ranks)
                  THEN [e \in 0..(experts - 1) |-> current[layer, e].rank]
                  ELSE Linear(experts, x.ranks)

\* The candidate, or the current placement if it is retained.
Selected(x, hot, sourced, current, layers, experts) ==
    LET layer == [l \in 0..(layers - 1) |->
            LayerAssignment(x, hot, sourced, current, l, experts)]
        candidate == [k \in Keys(layers, experts) |-> layer[k[1]][k[2]]]
        known == \A l \in 0..(layers - 1) : CurrentKnown(current, l, experts, x.ranks)
        now == [k \in Keys(layers, experts) |-> current[k].rank]
        moved == {k \in Keys(layers, experts) : candidate[k] # now[k]}
        bytes == BytesOf(moved, LAMBDA k : FirstSize(current[k].size, x.o.size))
        usable == hot.available /\ (x.o.strategy = "hotness_locality" => ~Empty(sourced))
    IN IF /\ Measured(x.o) /\ usable /\ known
          /\ Retains(moved, bytes,
                     Objective(now, hot.hotness, sourced, x.o, x.ranks),
                     Objective(candidate, hot.hotness, sourced, x.o, x.ranks), x.o)
       THEN now ELSE candidate

\* Faulty variant of RankNode: replicas share the nodes of the first.
RankNodeOfFirst(x, replica, rank) == x.nodes[(rank % Len(x.nodes)) + 1]

\* The node of a rank of a replica.
RankNode(x, replica, rank) ==
    x.nodes[((replica * x.ranks + rank) % Len(x.nodes)) + 1]

\* Faulty variant of Changed: an expert that is not in the snapshot did not move.
MissingStays(x, current, assignment, k) ==
    k \in DOMAIN current /\ current[k].rank # assignment[k]

\* _placement_changed: TRUE, FALSE or Unknown.
Changed(x, current, assignment, k) ==
    IF k \notin DOMAIN current THEN Unknown
    ELSE \/ current[k].rank # assignment[k]
         \/ /\ current[k].node # Unknown
            /\ current[k].node # RankNode(x, 0, assignment[k])

\* _build_expert_movement_diff
MovementDiff(x, current, assignment) ==
    LET change == [k \in DOMAIN assignment |-> Changed(x, current, assignment, k)]
        unknown == {k \in DOMAIN assignment : change[k] = Unknown}
        moved == {k \in DOMAIN assignment \ unknown : change[k]}
        bytes == IF unknown # {} THEN Unknown
                 ELSE BytesOf(moved, LAMBDA k : FirstSize(x.o.size, current[k].size))
    IN IF Empty(current)
       THEN [moved |-> {}, unknown |-> DOMAIN assignment, bytes |-> Unknown, cost |-> Unknown]
       ELSE [moved |-> moved, unknown |-> unknown, bytes |-> bytes,
             cost |-> IF unknown # {} THEN Unknown
                      ELSE MovementCost(bytes, Cardinality(moved), x.o)]

\* What the plan says of itself.
PlacementResult(size, current, hot, sourced, assignment, movement) ==
    [assignment |-> assignment, current |-> current, hot |-> hot, sourced |-> sourced,
     layers |-> size[1], experts |-> size[2], movement |-> movement]

\* build_logical_expert_placement_plan
PlacementPlan(x) ==
    LET size == InferTopology(x.sources)
        current == CurrentSnapshot(x.places)
        hot == HotnessSnapshot(x.hot, size[1], size[2],
                   IF x.hot.requireMarker = Unknown THEN Measured(x.o) ELSE x.hot.requireMarker)
        sourced == IF x.o.strategy = "hotness_locality" THEN SourceCounts(x.src, x.ranks)
                   ELSE <<>>
        assignment == Selected(x, hot, sourced, current, size[1], size[2])
    IN PlacementResult(size, current, hot, sourced, assignment,
                       MovementDiff(x, current, assignment))

-----------------------------------------------------------------------------
(* Properties.  A question is a target engine, with what is known.          *)

Placed == topic = "placement"
PlacedOn(l, r) == Cardinality({e \in 0..(answer.experts - 1) : answer.assignment[l, e] = r})
WasOn(l, r) == Cardinality({e \in 0..(answer.experts - 1) : answer.current[l, e].rank = r})
KnownLayer(l) == CurrentKnown(answer.current, l, answer.experts, q.ranks)
AllKnown == \A l \in 0..(answer.layers - 1) : KnownLayer(l)
Was == [k \in DOMAIN answer.assignment |-> answer.current[k].rank]

\* The experts fit in the slots of the ranks.  A strategy that moves experts of
\* a running engine leaves each rank its number of experts, which is what
\* _layers_for_plan of the remap insists on; otherwise the ranks differ by at
\* most one (_default_slot_capacities and the other strategies).
RanksKeepSlots ==
    Placed => \A l \in 0..(answer.layers - 1), r \in 0..(q.ranks - 1) :
        IF Measured(q.o) /\ KnownLayer(l) THEN PlacedOn(l, r) = WasOn(l, r)
        ELSE \A s \in 0..(q.ranks - 1) : PlacedOn(l, r) <= PlacedOn(l, s) + 1

\* Nothing moves on hotness that is stale, of another model or of unknown
\* counters, nor on locality without counts by source rank ("retain_current:").
KeepsWhenUnsure ==
    LET h == q.hot
    IN /\ Placed /\ Measured(q.o) /\ AllKnown
       /\ \/ h.maxAge > 0 /\ (h.age = Unknown \/ h.age > h.maxAge)
          \/ h.requireMarker # FALSE /\ ~h.marker
          \/ \E k \in DOMAIN h.global \cup DOMAIN h.recent : k \notin DOMAIN answer.assignment
          \/ q.o.strategy = "hotness_locality" /\ Empty(answer.sourced)
       => answer.assignment = Was

\* What is moved pays: the objective improves by at least the configured part,
\* and what the plan reports as moved is within the budgets, also when sizes are
\* not known (the reasons to retain the current placement).
AcceptedPays ==
    Placed /\ Measured(q.o) /\ AllKnown /\ answer.assignment # Was =>
        LET Value(a) == Objective(a, answer.hot.hotness, answer.sourced, q.o, q.ranks)
            m == answer.movement
        IN /\ q.o.minImprovement > 0 =>
                 100 * Value(answer.assignment) <= (100 - q.o.minImprovement) * Value(Was)
           /\ q.o.maxMoved > 0 => Cardinality(m.moved) <= q.o.maxMoved
           /\ q.o.maxBytes > 0 /\ q.o.requireKnown =>
                 m.bytes # Unknown /\ m.bytes <= q.o.maxBytes

\* A cost of the movement is the cost of all of it: every expert's place was
\* known, and exactly those that change ranks are counted (the planner compares
\* candidates by this cost).
MovementComplete ==
    Placed /\ answer.movement.cost # Unknown =>
        /\ DOMAIN answer.assignment \subseteq DOMAIN answer.current
        /\ (\A k \in DOMAIN answer.assignment : answer.current[k].node = Unknown) =>
              answer.movement.moved = {k \in DOMAIN answer.assignment :
                                           answer.assignment[k] # Was[k]}

\* Hotness is a share of the layer's uses, also where only one of the two
\* histograms covers the layer (build_hotness_snapshot).
SharesAddUp ==
    Placed /\ answer.hot.available =>
        \A l \in {k[1] : k \in DOMAIN answer.hot.hotness} :
            MapThenSumSet(LAMBDA e : answer.hot.hotness[l, e], 0..(answer.experts - 1)) = Whole

\* The two assignments agree where locality does not count
\* (_hotness_balanced_assignment and _hotness_locality_assignment).
NoLocalityIsBalanced ==
    Placed /\ answer.hot.available =>
        \A l \in 0..(answer.layers - 1) :
            Local(answer.hot.hotness, answer.sourced, 0, answer.current, l, answer.experts, q.ranks)
            = Balanced(answer.hot.hotness, answer.current, l, answer.experts, q.ranks)

\* With a node for each rank of each replica, no two of them are planned on one.
RanksApart ==
    Placed /\ Len(q.nodes) >= q.replicas * q.ranks =>
        \A a, b \in (0..(q.replicas - 1)) \X (0..(q.ranks - 1)) :
            a # b => RankNode(q, a[1], a[2]) # RankNode(q, b[1], b[2])
=============================================================================
