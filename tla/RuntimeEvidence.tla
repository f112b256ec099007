--------------------------- MODULE RuntimeEvidence ---------------------------
(***************************************************************************)
(* How the router comes to know what became of a deployment's plan.  The    *)
(* adapter writes the plan into the configuration of the actors it makes    *)
(* (src/sllm/spot/vllm_deployment_adapter.py); the backend keeps what the   *)
(* hooks of the runtime found (PlacementHooks) and tells it with its        *)
(* configuration (src/sllm/backends/vllm_backend.py); the profile puts the  *)
(* configuration under what was told (vllm_runtime_metadata.py); the router *)
(* counts over its instances and audits the expert parallel ranks           *)
(* (src/sllm/routers/roundrobin_router.py).                                 *)
(*                                                                         *)
(* Dictionaries are functions on strings, the keys without the prefix       *)
(* expert_placement_.  A configuration has its own values and those for     *)
(* single instances (keys that end in _by_instance; _by_node is alike).     *)
(* Experts are numbers from 0 of one layer; a snapshot says who wrote it and *)
(* the rank of every expert.  A worker also has the size of its expert       *)
(* parallel group.                                                          *)
(***************************************************************************)
EXTENDS PlacementHooks

Of(d, k) == IF k \in DOMAIN d THEN d[k] ELSE Unknown

\* _first_present
FirstPresent(values) ==
    LET present == SelectSeq(values, LAMBDA v : v # Unknown)
    IN IF present = <<>> THEN Unknown ELSE Head(present)

Optional(k, v) == IF v = Unknown THEN [x \in {} |-> v] ELSE k :> v

-----------------------------------------------------------------------------
(* The adapter.  p: the parallel plan, with an expert plan or without.      *)

EffectiveSize(tp, dp, enabled) == IF enabled THEN tp * dp ELSE 1

\* What an expert plan adds: nothing is applied or verified yet.
Seeded(e) ==
    [plan |-> e, execution_model |-> IF e.live THEN "remap" ELSE "recreate",
     physical_migration_required |-> FirstPresent(<<e.required, e.live>>),
     runtime_verification_level |-> "unavailable", runtime_verified_placement |-> FALSE,
     contract_available |-> TRUE, plan_applied |-> FALSE, plan_verified |-> FALSE]
    @@ Optional("plan_fingerprint", IF e.print = "" THEN Unknown ELSE e.print)
    @@ Optional("snapshot", e.snapshot)

\* _plan_backend_config
PlanBackendConfig(base, p) ==
    LET shape == [tensor_parallel_size |-> p.tp, data_parallel_size |-> p.dp,
                  enable_expert_parallel |-> p.ep, expert_parallel_size_verified |-> FALSE,
                  planned_expert_parallel_size |-> EffectiveSize(p.tp, p.dp, p.ep),
                  reparallelization_execution_model |-> "actor_recreate"]
    IN (IF p.experts = Unknown THEN shape ELSE Seeded(p.experts) @@ shape) @@ base

-----------------------------------------------------------------------------
(* The backend: its configuration, the arguments of its engine, the model,  *)
(* and the status the hooks left.                                           *)

\* _config_value_for_runtime
ConfigValue(b, k, id) ==
    IF k \in DOMAIN b.byInstance /\ id \in DOMAIN b.byInstance[k]
    THEN b.byInstance[k][id] ELSE Of(b.config, k)

\* _configured_expert_placement_plan; an empty plan is no plan.
ConfiguredPlan(b, id) == ConfigValue(b, "plan", id)

LinearRank(e, n, ep) ==
    LET First(r) == r * (n \div ep) + Smaller(r, n % ep)
    IN CHOOSE r \in 0..(ep - 1) : First(r) <= e /\ e < First(r + 1)

\* Position of an expert when the hottest are first.
HotPosition(e, n, hot) ==
    Cardinality({f \in 0..(n - 1) : hot[f] > hot[e] \/ (hot[f] = hot[e] /\ f < e)})

\* Faulty variant of DerivedRank: the remainder goes to the last rank.
DerivedRankRemainder(strategy, e, n, ep, hot) ==
    CASE strategy = "linear"      -> Smaller(e \div Larger(n \div ep, 1), ep - 1)
      [] strategy = "round_robin" -> e % ep
      [] strategy = "hotness"     -> Smaller(HotPosition(e, n, hot) \div Larger(n \div ep, 1), ep - 1)

DerivedRank(strategy, e, n, ep, hot) ==
    CASE strategy = "linear"      -> LinearRank(e, n, ep)
      [] strategy = "round_robin" -> e % ep
      [] strategy = "hotness"     -> Smaller((HotPosition(e, n, hot) * ep) \div Larger(n, 1), ep - 1)

\* _instrumented_expert_placement_snapshot
Snapshot(b, id, ep) ==
    LET given == ConfigValue(b, "snapshot", id)
    IN IF given # Unknown THEN given
       ELSE IF ~b.infer \/ b.experts = 0
               \/ b.strategy \notin {"linear", "round_robin", "hotness"} THEN Unknown
       ELSE [source |-> "derived", ranks |-> [e \in 0..(b.experts - 1) |->
                DerivedRank(b.strategy, e, b.experts, ep, b.hot)]]

\* The status _apply_configured_expert_placement_plan leaves; empty without a plan.
HookStatus(b, hooks) ==
    LET plan == ConfiguredPlan(b, "")
        required == plan.required = TRUE \/ Of(b.config, "physical_migration_required") = TRUE
        c == Configured([hooks EXCEPT !.plan = [plan EXCEPT !.required = required]])
        s == c.status
    IN IF plan = Unknown THEN [x \in {} |-> Unknown]
       ELSE [apply_hook_available |-> hooks.applyHook, verify_hook_available |-> hooks.verifyHook,
             apply_success |-> s.applyOk, verify_success |-> s.verifyOk,
             contract_seen_by_runtime |-> s.seenAny, contract_seen_by_all_workers |-> s.seenByAll,
             contract_seen_worker_count |-> s.seen, contract_seen_worker_total |-> s.of,
             physical_weight_migration |-> s.physical, runtime_moved_expert_shards |-> s.moved,
             runtime_verified_placement |-> s.placed, runtime_verification_level |-> c.level,
             physical_migration_required |-> required,
             plan_applied |-> s.applyOk \/ s.verifyOk, plan_verified |-> s.verifyOk]

-----------------------------------------------------------------------------
(* What the backend tells.                                                 *)

ContractReason(available, bound, match, applied, verified) ==
    IF ~available THEN "no_contract"
    ELSE IF ~bound THEN "without_runtime_snapshot"
    ELSE IF ~match THEN "snapshot_mismatch"
    ELSE IF ~applied THEN "runtime_not_applied"
    ELSE IF verified THEN "verified_runtime_plan" ELSE "applied_unverified"

Flags == {"apply_hook_available", "verify_hook_available", "apply_success", "verify_success",
    "contract_seen_by_runtime", "contract_seen_by_all_workers", "physical_weight_migration"}
Counts == {"contract_seen_worker_count", "contract_seen_worker_total",
    "runtime_moved_expert_shards"}

\* What the status says, or that it says nothing.
Found(status, k, default) == FirstPresent(<<Of(status, k), default>>)
HookEvidence(status) ==
    [k \in Flags |-> Found(status, k, FALSE)] @@ [k \in Counts |-> Found(status, k, 0)]

\* Where the status does not tell, the configuration does.
StatusOrConfig(b, id, k, default) ==
    FirstPresent(<<Of(b.status, k), ConfigValue(b, k, id), default>>)

ContractState(b, id, snapshot) ==
    LET plan == ConfiguredPlan(b, id)
        available == plan # Unknown
        bound == available /\ snapshot # Unknown
        match == bound /\ plan.snapshot = snapshot
        applied == available /\ StatusOrConfig(b, id, "plan_applied", FALSE)
        verified == applied /\ StatusOrConfig(b, id, "plan_verified", FALSE)
    IN [contract_available |-> available, contract_bound |-> bound,
        contract_snapshot_match |-> match, plan_applied |-> applied, plan_verified |-> verified,
        plan_fingerprint |-> IF available THEN plan.print ELSE "",
        contract_reason |-> ContractReason(available, bound, match, applied, verified)]

ExecutionModels(b, id) ==
    LET planned == ConfiguredPlan(b, id) # Unknown
        Told(k, default) == StatusOrConfig(b, id, k, IF planned THEN default ELSE "unavailable")
    IN [reparallelization_execution_model |-> Told("reparallelization_execution_model", "actor_recreate"),
        execution_model |-> Told("execution_model", "recreate"),
        physical_migration_required |-> StatusOrConfig(b, id, "physical_migration_required", FALSE)]

\* A level and a verified placement that no hook reported follow from the rest.
RuntimeLevel(status, verified) ==
    LET e == HookEvidence(status)
        level == Level([physical |-> e.physical_weight_migration, placed |-> verified,
                        seenAny |-> e.contract_seen_by_runtime],
                       e.apply_hook_available \/ e.verify_hook_available)
    IN [runtime_verification_level |-> Found(status, "runtime_verification_level", level),
        runtime_verified_placement |-> Found(status, "runtime_verified_placement", verified)]

\* _expert_placement_contract_metadata
ContractMetadata(b, id, snapshot) ==
    LET state == ContractState(b, id, snapshot)
    IN state @@ HookEvidence(b.status) @@ RuntimeLevel(b.status, state.plan_verified)
       @@ ExecutionModels(b, id)

\* _engine_parallel_metadata: sizes from the arguments of the engine.
EngineParallelMetadata(b, id) ==
    LET size == EffectiveSize(b.args.tp, b.args.dp, b.args.ep)
        snapshot == Snapshot(b, id, size)
    IN ContractMetadata(b, id, snapshot) @@ Optional("snapshot", snapshot)
       @@ [tensor_parallel_size |-> b.args.tp, data_parallel_size |-> b.args.dp,
           expert_parallel_enabled |-> b.args.ep, effective_expert_parallel_size |-> size,
           expert_parallel_size_verified |-> FALSE]

\* get_moe_runtime_metadata of the engines: a snapshot for every worker, and for
\* every expert the rows of the workers that hold it.
MoeMetadata(es) ==
    LET at == {<<i, j>> \in (DOMAIN es) \X (1..4) : j \in DOMAIN es[i].workers}
        W(a) == es[a[1]].workers[a[2]]
        held == UNION {W(a).experts : a \in at}
        Row(a) == [ep |-> W(a).ep, size |-> W(a).size]
    IN [runtime_available |-> held # {}, runtime_worker_count |-> Cardinality(at),
        runtime_shards |-> [e \in held |-> {Row(a) : a \in {c \in at : e \in W(c).experts}}],
        runtime_workers |-> [a \in at |->
            [available |-> W(a).experts # {}, rows |-> IF W(a).experts = {} THEN {} ELSE {Row(a)}]]]

\* get_runtime_metadata of a backend whose engine answers with moe.
RuntimeReport(b, id, moe) == moe @@ EngineParallelMetadata(b, id)

-----------------------------------------------------------------------------
(* The profile: what the backend tells (r) over its configuration (c).      *)

\* Faulty variant of Over: the configuration wins.
OverConfigured(c, r, k, default) == FirstPresent(<<Of(c, k), Of(r, k), default>>)

Over(c, r, k, default) == FirstPresent(<<Of(r, k), Of(c, k), default>>)

\* The sizes: what was told, or what follows from the configuration.
ProfileSizes(c, r) ==
    LET tp == Over(c, r, "tensor_parallel_size", 1)
        dp == Over(c, r, "data_parallel_size", 1)
        planned == FirstPresent(<<Of(c, "planned_expert_parallel_size"), 1>>)
        told == Of(r, "effective_expert_parallel_size")
        several == told # Unknown /\ told > 1
        enabled == several \/ FirstPresent(<<Of(r, "expert_parallel_enabled"),
                                             Of(c, "enable_expert_parallel"), planned > 1>>)
        size == FirstPresent(<<told, EffectiveSize(tp, dp, enabled)>>)
    IN [tensor_parallel_size |-> tp, data_parallel_size |-> dp, expert_parallel_enabled |-> enabled,
        effective_expert_parallel_size |-> size, parallel_plan_mismatch |-> planned # size,
        expert_parallel_size_verified |->
            FirstPresent(<<Of(r, "expert_parallel_size_verified"), told # Unknown>>)]

\* The contract, and how far it has come.
ProfileContract(c, r) ==
    LET Told(k, default) == Over(c, r, k, default)
        snapshot == Told("snapshot", Unknown)
        available == Told("contract_available", Told("plan", Unknown) # Unknown)
        bound == Told("contract_bound", available /\ snapshot # Unknown)
        match == Told("contract_snapshot_match", FALSE)
        applied == available /\ Told("plan_applied", Told("apply_success", Told("verify_success", FALSE)))
        verified == applied /\ Told("plan_verified", Told("verify_success", FALSE))
    IN [contract_available |-> available, contract_bound |-> bound,
        contract_snapshot_match |-> match, plan_applied |-> applied, plan_verified |-> verified,
        plan_fingerprint |-> Told("plan_fingerprint", ""),
        contract_reason |-> ContractReason(available, bound, match, applied, verified)]
       @@ Optional("snapshot", snapshot)

\* What the hooks did; success follows from the contract if nobody tells.
ProfileHooks(c, r) ==
    LET contract == ProfileContract(c, r)
        Default(k) == CASE k = "apply_success"  -> contract.plan_applied
                        [] k = "verify_success" -> contract.plan_verified
                        [] OTHER                -> FALSE
    IN [k \in Flags |-> Over(c, r, k, Default(k))]
       @@ [k \in Counts \ {"runtime_moved_expert_shards"} |-> Over(c, r, k, 0)]

ProfileLevel(c, r) ==
    LET hooks == ProfileHooks(c, r)
        placed == Over(c, r, "runtime_verified_placement", ProfileContract(c, r).plan_verified)
        level == Level([physical |-> hooks.physical_weight_migration, placed |-> placed,
                        seenAny |-> hooks.contract_seen_by_runtime],
                       hooks.apply_hook_available \/ hooks.verify_hook_available)
    IN [runtime_verified_placement |-> placed,
        runtime_verification_level |-> Over(c, r, "runtime_verification_level", level)]

ProfileModels(c, r) ==
    LET Told(k, default) ==
            Over(c, r, k, IF ProfileContract(c, r).contract_available THEN default ELSE "unavailable")
    IN [reparallelization_execution_model |-> Told("reparallelization_execution_model", "actor_recreate"),
        execution_model |-> Told("execution_model", "recreate"),
        physical_migration_required |-> Over(c, r, "physical_migration_required", FALSE)]

\* What only the runtime can know is never taken from the configuration.
ProfileRemap(r) == [runtime_moved_expert_shards |-> Found(r, "runtime_moved_expert_shards", 0)]
ProfileRuntime(r) ==
    LET workers == Found(r, "runtime_workers", [x \in {} |-> Unknown])
        shards == Found(r, "runtime_shards", [x \in {} |-> Unknown])
        told == Found(r, "runtime_worker_count", 0)
    IN [runtime_available |-> Found(r, "runtime_available", DOMAIN shards # {}),
        runtime_worker_count |-> IF told = 0 THEN Cardinality(DOMAIN workers) ELSE told,
        runtime_workers |-> workers, runtime_shards |-> shards]

\* get_vllm_model_resource_profile
ResourceProfile(c, r) ==
    ProfileSizes(c, r) @@ ProfileContract(c, r) @@ ProfileHooks(c, r) @@ ProfileLevel(c, r)
    @@ ProfileModels(c, r) @@ ProfileRemap(r) @@ ProfileRuntime(r)

\* get_vllm_runtime_metadata: the profile, and its fields once more.
RuntimeMetadata(c, r) ==
    LET profile == ResourceProfile(c, r)
    IN [model_resource_profile |-> profile] @@ profile

-----------------------------------------------------------------------------
(* The life of a backend.                                                  *)

\* Made by the adapter and initialised with the hooks at hand.
Started(x, hooks) ==
    LET b == [config |-> PlanBackendConfig(x.base, x.plan), byInstance |-> x.byInstance,
              args |-> [tp |-> x.plan.tp, dp |-> x.plan.dp, ep |-> x.plan.ep],
              infer |-> x.infer, experts |-> x.experts, strategy |-> x.strategy, hot |-> x.hot,
              status |-> [k \in {} |-> Unknown]]
    IN [b EXCEPT !.status = HookStatus(b, hooks)]

\* apply_expert_placement_plan: another plan for the engine that runs.
Remapped(b, e, hooks) ==
    LET c == [b EXCEPT !.config = ("plan" :> e) @@ b.config]
    IN [c EXCEPT !.status = HookStatus(c, hooks)]

\* Faulty variant of VerifiedElastic: the experts are counted on no worker.
VerifiedElasticSizes(b, moe, dp) ==
    /\ moe.runtime_worker_count = dp
    /\ UNION {{row.size : row \in moe.runtime_shards[e]} : e \in DOMAIN moe.runtime_shards} = {dp}

\* _verify_elastic_ep_runtime_placement
VerifiedElastic(b, moe, dp) ==
    LET expected == Snapshot(b, "", dp)
        shards == moe.runtime_shards
        workers == moe.runtime_workers
        sizes == UNION {{row.size : row \in shards[e]} : e \in DOMAIN shards} \ {Unknown}
    IN /\ moe.runtime_worker_count = dp /\ Cardinality(DOMAIN workers) = dp
       /\ \A a \in DOMAIN workers : workers[a].available
       /\ DOMAIN shards # {}
       /\ expected # Unknown => DOMAIN expected.ranks \subseteq DOMAIN shards
       /\ sizes = {dp}

\* scale_elastic_ep.  A resize that cannot be verified is undone.
Resized(b, dp, e, moe) ==
    IF b.config.data_parallel_size = dp \/ ~VerifiedElastic(b, moe, dp) THEN b
    ELSE [b EXCEPT !.args.dp = dp,
            !.config = ("data_parallel_size" :> dp) @@ ("planned_expert_parallel_size" :> dp)
                @@ ("expert_parallel_size_verified" :> TRUE)
                @@ ("reparallelization_execution_model" :> "in_place") @@ Optional("plan", e) @@ b.config,
            !.status = [k \in {"apply_hook_available", "apply_success", "verify_hook_available",
                                "verify_success", "plan_applied", "plan_verified",
                                "physical_weight_migration", "runtime_verified_placement"} |-> TRUE]
                @@ [runtime_verification_level |-> "physical_migration_verified",
                    reparallelization_execution_model |-> "in_place", execution_model |-> "resize"]]

-----------------------------------------------------------------------------
(* The router.  An instance has a backend or none, which answers or raises;  *)
(* its runtime has the hook for the metadata or not; later is what came      *)
(* after the start: nothing, a remap or a resize.                           *)

\* The backend of an instance, and the engines it has then.
BackendOf(x, i) ==
    LET b == Started(x, i.hooks)
        l == i.later
    IN CASE l.kind = "none"   -> b
         [] l.kind = "remap"  -> Remapped(b, l.plan, l.hooks)
         [] l.kind = "resize" -> Resized(b, l.dp, l.plan, MoeMetadata(l.hooks.engines))
Undone(x, i) == i.later.kind = "resize" /\ BackendOf(x, i) = Started(x, i.hooks)
EnginesNow(x, i) ==
    IF i.later.kind = "none" \/ Undone(x, i) THEN i.hooks.engines ELSE i.later.hooks.engines

\* _context_migration_target_metadata: no answer is no row.
TargetMetadata(x, i) ==
    LET b == BackendOf(x, i)
        moe == IF i.moeHook THEN MoeMetadata(EnginesNow(x, i)) ELSE [k \in {} |-> Unknown]
        metadata == RuntimeMetadata(b.config, RuntimeReport(b, i.id, moe))
    IN IF i.reach = "answers" THEN metadata @@ metadata.model_resource_profile ELSE Unknown

\* _deployment_expert_placement_runtime_status
DeploymentStatus(rows) ==
    LET CountTruthy(k) == CountOf(rows, LAMBDA row : row[k])
        SumInt(k) == SumOf(rows, LAMBDA row : row[k])
        Values(k) == {rows[j][k] : j \in DOMAIN rows}
    IN [metadata_count |-> Len(rows), verification_levels |-> Values("runtime_verification_level"),
        contract_reasons |-> Values("contract_reason"),
        plan_applied_count |-> CountTruthy("plan_applied"),
        plan_verified_count |-> CountTruthy("plan_verified"),
        verified_placement_count |-> CountTruthy("runtime_verified_placement"),
        physical_weight_migration_count |-> CountTruthy("physical_weight_migration"),
        runtime_moved_expert_shards |-> SumInt("runtime_moved_expert_shards"),
        runtime_worker_count |-> SumInt("runtime_worker_count")]

\* Faulty variant of Audited: the configured size is evidence.
AuditedConfigured(row, n) ==
    /\ row # Unknown
    /\ row.effective_expert_parallel_size = n

\* get_runtime_ep_audit of one instance: the rows of workers and experts.
Audited(row, n) ==
    /\ row # Unknown
    /\ LET evidence == UNION {row.runtime_workers[a].rows : a \in DOMAIN row.runtime_workers}
                       \cup UNION {row.runtime_shards[e] : e \in DOMAIN row.runtime_shards}
       IN /\ row.runtime_available /\ row.runtime_worker_count = n
          /\ {r.size : r \in evidence} \ {Unknown} = {n}
          /\ {r.ep : r \in evidence} \ {Unknown} = 0..(n - 1)

RuntimeEpAudit(rows, n) == rows # <<>> /\ \A j \in DOMAIN rows : Audited(rows[j], n)

EvidenceAnswer(x) ==
    LET rows == [j \in DOMAIN x.instances |-> TargetMetadata(x, x.instances[j])]
    IN [rows |-> rows,
        engines |-> [j \in DOMAIN x.instances |-> EnginesNow(x, x.instances[j])],
        undone |-> {j \in DOMAIN x.instances : Undone(x, x.instances[j])}, status |-> DeploymentStatus(SelectSeq(rows, LAMBDA row : row # Unknown)),
        audit |-> RuntimeEpAudit(rows, x.expected)]

-----------------------------------------------------------------------------
(* Properties                                                              *)

\* The workers of an instance, as they are.
WorkersNow(j) ==
    LET es == answer.engines[j]
    IN UNION {{es[k].workers[n] : n \in DOMAIN es[k].workers} : k \in DOMAIN es}
HooksNow(i) == IF i.later.kind = "remap" THEN i.later.hooks ELSE i.hooks
ResizedNow(j) == q.instances[j].later.kind = "resize" /\ j \notin answer.undone
PlanNow(j) ==
    LET l == q.instances[j].later
    IN IF l.kind = "none" \/ j \in answer.undone \/ l.plan = Unknown THEN q.plan.experts ELSE l.plan
\* The experts are where the plan in force puts them: a resize leaves that to
\* vLLM, and is right if every expert is somewhere.
InPlace(j) ==
    LET hooks == HooksNow(q.instances[j])
        ranks == PlanNow(j).ranks
    IN IF ResizedNow(j) THEN DOMAIN ranks \subseteq UNION {w.experts : w \in WorkersNow(j)}
       ELSE /\ hooks.verifyHook /\ ~hooks.verifyRaises
            /\ \A w \in WorkersNow(j) :
                  w.experts # {} /\ w.experts = {e \in DOMAIN ranks : ranks[e].n = w.ep}

\* The router counts as verified exactly the instances whose workers hold the
\* experts of the plan in force: what the adapter wrote before the actor existed
\* neither hides what the hooks found nor stands in for it, on the way through
\* the backend's contract, the profile and the router's rows.
VerifiedIsInPlace ==
    topic = "evidence" =>
        answer.status.plan_verified_count =
            Cardinality({j \in DOMAIN q.instances :
                q.instances[j].reach = "answers" /\ PlanNow(j) # Unknown /\ InPlace(j)})

\* The audit of the expert parallel ranks succeeds exactly if every instance runs
\* one worker for each rank, all of a group of that size, whatever sizes are
\* configured ("Configured TP/DP values are deliberately not accepted as evidence").
AuditIsEvidence ==
    topic = "evidence" =>
        (answer.audit <=>
            /\ q.instances # <<>>
            /\ \A j \in DOMAIN q.instances :
                  LET i == q.instances[j]
                  IN /\ i.reach = "answers" /\ i.moeHook
                     /\ \A w \in WorkersNow(j) : w.size = q.expected /\ w.experts # {}
                     /\ {w.ep : w \in WorkersNow(j)} = 0..(q.expected - 1)
                     /\ Cardinality(Workers([engines |-> answer.engines[j]])) = q.expected)

\* The sizes a deployment reports are those its engines run with, after a resize
\* too, and no deployment differs from its plan (_plan_backend_config,
\* scale_elastic_ep keep configuration and engine arguments together).
SizesAreRunning ==
    topic = "evidence" =>
        \A j \in DOMAIN q.instances :
            LET row == answer.rows[j]
                dp == IF ResizedNow(j) THEN q.instances[j].later.dp ELSE q.plan.dp
            IN row # Unknown =>
                 /\ row.effective_expert_parallel_size = EffectiveSize(q.plan.tp, dp, q.plan.ep)
                 /\ row.data_parallel_size = dp /\ ~row.parallel_plan_mismatch

\* A snapshot derived from the model's configuration gives no rank two experts
\* more than another, whichever strategy orders them.
DerivedIsBalanced ==
    topic = "evidence" =>
        \A j \in DOMAIN q.instances :
            LET row == answer.rows[j]
                n == row.effective_expert_parallel_size
                On(r) == {e \in DOMAIN row.snapshot.ranks : row.snapshot.ranks[e] = r}
            IN row # Unknown /\ "snapshot" \in DOMAIN row /\ row.snapshot.source = "derived" =>
                 \A r, s \in 0..(n - 1) : Cardinality(On(r)) <= Cardinality(On(s)) + 1
=============================================================================
