--------------------------- MODULE RiskScheduling ---------------------------
(***************************************************************************)
(* What the scheduler knows of the risk of a node and how it ranks nodes by *)
(* it: the providers (src/sllm/spot/risk_metadata_provider.py), the node    *)
(* table they feed and the backends' rows (src/sllm/schedulers/             *)
(* fcfs_scheduler.py), the score (src/sllm/spot/risk_aware_scheduling.py).  *)
(*                                                                         *)
(* Metadata is a function from the keys that are present to their values.   *)
(* Risks count parts of Whole, weights twentieths, so that the default      *)
(* weight of a free GPU is 1 and the others are 20.                         *)
(***************************************************************************)
EXTENDS Question, Ordering

CONSTANT Malformed      \* a value that is no number

Nothing == [k \in {} |-> Unknown]
Get(d, k) == IF k \in DOMAIN d THEN d[k] ELSE Unknown
Updated(d, e) == e @@ d
Without(d, keys) == [k \in DOMAIN d \ keys |-> d[k]]

SpotKeys == <<"spot_risk", "risk_score", "preemption_risk">>
LifetimeKeys == <<"remaining_lifetime_s", "expected_remaining_lifetime_s">>
LoadingKeys == <<"loading_cost", "model_loading_cost", "load_cost">>
CapacityKeys == {"free_gpu", "total_gpu"}
NumberKeys == ToSet(SpotKeys) \cup ToSet(LifetimeKeys) \cup ToSet(LoadingKeys)
SignalKeys == NumberKeys \cup CapacityKeys

\* The value of the first key that has one.
FirstOf(d, keys) ==
    LET given == {i \in DOMAIN keys : Get(d, keys[i]) # Unknown}
    IN IF given = {} THEN Unknown ELSE d[keys[Min(given)]]

HasSignal(d) == \E k \in SignalKeys : Get(d, k) # Unknown

Bounded(v, low, high) == Smaller(high, Larger(low, v))
NumberOr(v, default) == IF v \in {Unknown, Malformed} THEN default ELSE v

\* The entry of a key, none without a value.
Entry(k, v) == IF v = Unknown THEN Nothing ELSE k :> v

NormalizeRiskMetadata(payload, source) ==
    LET spot == FirstOf(payload, SpotKeys)
        lifetime == FirstOf(payload, LifetimeKeys)
        loading == FirstOf(payload, LoadingKeys)
        Number(k, v) == IF v = Unknown THEN Nothing ELSE k :> Larger(0, NumberOr(v, 0))
        Count(k) == IF Get(payload, k) \in {Unknown, Malformed} THEN Nothing
                    ELSE k :> Larger(0, payload[k])
        default == IF source = "conservative" THEN 0 ELSE Whole
    IN Entry("spot_risk", IF spot = Unknown THEN Unknown ELSE Bounded(NumberOr(spot, 0), 0, Whole))
       @@ Number("remaining_lifetime_s", lifetime)
       @@ Number("loading_cost", loading)
       @@ Count("free_gpu") @@ Count("total_gpu")
       @@ ("risk_metadata_source" :> source)
       @@ ("risk_confidence" :> Bounded(NumberOr(Get(payload, "confidence"), default), 0, Whole))

----------------------------------------------------------------------------
\* The providers.

ConservativeCollect == NormalizeRiskMetadata(Nothing, "conservative")

\* file: what the JSON of the deployment says, by node or for "*" (node 0).
EnvironmentCollect(file, env, n) ==
    LET payload == IF n \in DOMAIN file THEN file[n] ELSE IF 0 \in DOMAIN file THEN file[0] ELSE Nothing
        merged == Updated(env, payload)
    IN IF ~HasSignal(merged) THEN Nothing ELSE NormalizeRiskMetadata(merged, "environment")

\* payload: what the callable returned.
CallableCollect(payload) ==
    NormalizeRiskMetadata(IF HasSignal(payload) THEN payload ELSE Nothing, "provider")

\* One answer after the other: an answer without a signal only fills gaps.
Combined(payloads) ==
    LET Add(result, payload) ==
            IF Get(payload, "risk_metadata_source") = "conservative" \/ ~HasSignal(payload)
            THEN Updated(payload, result) ELSE Updated(result, payload)
    IN FoldLeft(Add, Nothing, payloads)

\* What the callable answers if it raises, cannot be loaded or is not configured.
Raises == [raises |-> Unknown]

\* Faulty variant of CompositeCollect: an exception ends the collection.
CompositeStops(call, file, env, n) ==
    IF call = Raises THEN ConservativeCollect
    ELSE Combined(<<CallableCollect(call), EnvironmentCollect(file, env, n), ConservativeCollect>>)

\* The providers of build_risk_metadata_provider in turn; one that raises is passed
\* over.
CompositeCollect(call, file, env, n) ==
    LET others == <<EnvironmentCollect(file, env, n), ConservativeCollect>>
    IN Combined(IF call = Raises THEN others ELSE <<CallableCollect(call)>> \o others)

\* _collect_provider_risk_metadata: Ray's capacity counts where there is any.
CollectProvider(node, metadata) ==
    Without(metadata, {k \in CapacityKeys : Get(node, k) # Unknown /\ node[k] > 0})

----------------------------------------------------------------------------
\* The node table.

PreservedKeys == NumberKeys \cup {"risk_metadata_source", "risk_confidence"}

\* Faulty variant of PreserveSpotMetadata: what is configured is applied first.
PreserveLast(updated, previous, configured) ==
    Updated(Updated(updated, configured), [k \in PreservedKeys \cap DOMAIN previous |-> previous[k]])

PreserveSpotMetadata(updated, previous, configured) ==
    Updated(Updated(updated, [k \in PreservedKeys \cap DOMAIN previous |-> previous[k]]), configured)

EnsureNodeMetadata(node, configured) ==
    Updated(("state" :> "ready") @@ node, configured)

ApplySchedulerCapacity(node, allocated) ==
    LET total == NumberOr(Get(node, "total_gpu"), Unknown)
        free == NumberOr(Get(node, "free_gpu"), Unknown)
        known == NumberOr(total, free)
    IN IF known = Unknown THEN node
       ELSE Updated(node, ("total_gpu" :> known)
                @@ ("free_gpu" :> Larger(0, Smaller(known, Smaller(NumberOr(free, known), known - allocated)))))

\* The fields of a backend's row in the order they are read; one that is no number
\* ends the reading of the row.
RowKeys == <<"spot_risk", "remaining_lifetime_s", "loading_cost", "free_gpu", "total_gpu",
             "risk_confidence">>
RowValue(row, k) ==
    IF \E i, j \in DOMAIN RowKeys : RowKeys[i] = k /\ j <= i /\ Get(row, RowKeys[j]) = Malformed
    THEN Unknown ELSE Get(row, k)

\* _merge_backend_runtime_metadata, the joined provenance strings left out: the worst
\* value any backend of the node reports.
MergeRows(node, rows, configured) ==
    LET Values(k) == {RowValue(rows[i], k) : i \in DOMAIN rows} \ {Unknown}
        Worst(k, values, v) == IF values = {} THEN Nothing ELSE k :> v
        totals == {v \in Values("total_gpu") : v > 0 /\ NumberOr(Get(node, "total_gpu"), 0) <= 0}
        reported == Worst("spot_risk", Values("spot_risk"), Max(Values("spot_risk")))
            @@ Worst("remaining_lifetime_s", Values("remaining_lifetime_s"), Min(Values("remaining_lifetime_s")))
            @@ Worst("loading_cost", Values("loading_cost"), Max(Values("loading_cost")))
            @@ Worst("total_gpu", totals, Max(totals))
            @@ Worst("risk_confidence", Values("risk_confidence"), Max(Values("risk_confidence")))
    IN IF rows = <<>> THEN node ELSE Updated(Updated(node, reported), configured)

\* _get_worker_nodes.  round.ray: the nodes Ray has; call, file, env: what the
\* providers answer; rows: what the backends report; allocated: the GPUs in use.
RefreshedNode(table, round, config, n) ==
    LET configured == IF n \in DOMAIN config THEN config[n] ELSE Nothing
        live == Updated(round.ray[n], CollectProvider(round.ray[n],
                    CompositeCollect(round.call[n], round.file, round.env, n)))
        seen == IF n \notin DOMAIN table
                THEN ApplySchedulerCapacity(EnsureNodeMetadata(live, configured), round.allocated[n])
                ELSE PreserveSpotMetadata(
                         Updated(ApplySchedulerCapacity(Updated(table[n], live), round.allocated[n]),
                                 "state" :> table[n]["state"]),
                         table[n], configured)
        kept == IF n \in DOMAIN round.ray THEN seen
                ELSE ApplySchedulerCapacity(table[n], round.allocated[n])
    IN MergeRows(kept, round.rows[n], configured)

GetWorkerNodes(table, round, config) ==
    [n \in DOMAIN table \cup DOMAIN round.ray |-> RefreshedNode(table, round, config, n)]

\* update_node_risk on a node the table may not have yet.
UpdateNodeRisk(table, n, metadata) ==
    LET node == IF n \in DOMAIN table THEN table[n]
                ELSE ("free_gpu" :> 0) @@ ("total_gpu" :> 0) @@ ("state" :> "ready")
    IN (n :> Updated(node, metadata)) @@ table

----------------------------------------------------------------------------
\* The ranking.

\* _float_value; the values are numbers, anything else would raise here.
FloatValue(node, keys, default) ==
    IF FirstOf(node, keys) = Unknown THEN default ELSE FirstOf(node, keys)

Risk(node, c) == Bounded(FloatValue(node, SpotKeys, c.default_spot_risk), 0, Whole)
Lifetime(node, c) == Larger(0, FloatValue(node, LifetimeKeys, c.default_remaining_lifetime_s))
Loading(node, c) == Larger(0, FloatValue(node, LoadingKeys, c.default_loading_cost))

PartOf(a, b) == Bounded((Whole * a) \div b, 0, Whole)

\* Faulty variant of LifetimePenalty: a longer life costs more.
LifetimeShare(node, c) == PartOf(Lifetime(node, c), Larger(1, c.max_remaining_lifetime_s))
LifetimePenalty(node, c) == Whole - PartOf(Lifetime(node, c), Larger(1, c.max_remaining_lifetime_s))

NodeRiskScore(node, requested, c) ==
    LET headroom == Larger(node["free_gpu"] - requested, 0)
    IN c.risk_weight * Risk(node, c)
       + c.lifetime_weight * LifetimePenalty(node, c)
       + c.loading_cost_weight * PartOf(Loading(node, c), Larger(1, c.max_loading_cost))
       - c.free_gpu_weight * ((Whole * headroom) \div Larger(Larger(node["total_gpu"], requested), 1))

Eligible(table, requested) ==
    {n \in DOMAIN table : table[n]["state"] = "ready" /\ NumberOr(Get(table[n], "free_gpu"), 0) >= requested}

RankNodesBySpotRisk(table, requested, c) ==
    LET Key(n) == <<NodeRiskScore(table[n], requested, c), Risk(table[n], c),
                    0 - Lifetime(table[n], c), Loading(table[n], c), n>>
    IN SortedBy(SetToSeq(Eligible(table, requested)), Key)

\* What a sequence of refreshes, reports and one request for GPUs come to.
\* x.reports: update_node_risk before the rounds; x.marked: not READY at the end.
PlanRiskAwareScheduling(x) ==
    LET reported == FoldLeft(LAMBDA t, r : UpdateNodeRisk(t, r[1], r[2]), Nothing, x.reports)
        refreshed == FoldLeft(LAMBDA t, r : GetWorkerNodes(t, r, x.config), reported, x.rounds)
        table == [n \in DOMAIN refreshed |->
                     IF n \in x.marked THEN Updated(refreshed[n], "state" :> "preempting") ELSE refreshed[n]]
        ranked == RankNodesBySpotRisk(table, x.requested, x.options)
    IN [table |-> table, ranked |-> ranked,
        selected |-> IF ranked = <<>> THEN Unknown ELSE Head(ranked)]

----------------------------------------------------------------------------
\* Properties.

\* node_risk_score and the sort of rank_nodes_by_spot_risk: GPUs are found if a
\* READY node has them, and no other such node of the same size is at least as good
\* as the chosen one in risk, lifetime, loading cost and free GPUs and better in one
\* of the first three, whatever the bounds of the penalties hide.
BestIsChosen == topic = "risk" =>
    LET t == answer.table
        s == answer.selected
        c == q.options
        AsGood(m) == /\ Risk(t[m], c) <= Risk(t[s], c)
                     /\ Lifetime(t[m], c) >= Lifetime(t[s], c)
                     /\ Loading(t[m], c) <= Loading(t[s], c)
                     /\ t[m]["free_gpu"] >= t[s]["free_gpu"] /\ t[m]["total_gpu"] = t[s]["total_gpu"]
        Better(m) == \/ Risk(t[m], c) < Risk(t[s], c)
                     \/ Lifetime(t[m], c) > Lifetime(t[s], c)
                     \/ Loading(t[m], c) < Loading(t[s], c)
    IN IF s = Unknown THEN Eligible(t, q.requested) = {}
       ELSE s \in Eligible(t, q.requested) /\ ~\E m \in Eligible(t, q.requested) : AsGood(m) /\ Better(m)

\* _ensure_node_metadata, _preserve_spot_metadata and _merge_backend_runtime_metadata:
\* what the operator configured for a node Ray has is what the table holds after any
\* number of refreshes, whatever providers, backends and reports said.
ConfiguredWins == topic = "risk" =>
    \A n \in DOMAIN q.config \cap DOMAIN q.rounds[Len(q.rounds)].ray :
        \A k \in DOMAIN q.config[n] : Get(answer.table[n], k) = q.config[n][k]

\* CompositeRiskMetadataProvider.collect: a callable that raises or says nothing
\* hides no value the deployment's file or environment gives for a new node.
FailureHidesNothing == topic = "risk" =>
    LET first == q.rounds[1]
        reported == {q.reports[i][1] : i \in DOMAIN q.reports}
    IN Len(q.rounds) = 1 =>
        \A n \in (DOMAIN first.ray \ reported) \ DOMAIN q.config :
            LET said == EnvironmentCollect(first.file, first.env, n)
            IN (first.rows[n] = <<>> /\ ~HasSignal(first.call[n])) =>
                \A k \in {"spot_risk", "remaining_lifetime_s", "loading_cost", "risk_metadata_source"} \cap DOMAIN said :
                    Get(answer.table[n], k) = said[k]
=============================================================================
