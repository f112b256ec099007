--------------------------- MODULE PlacementHooks ---------------------------
(***************************************************************************)
(* What the vLLM backend reports of an expert placement plan it hands to    *)
(* the runtime.  The plan passes from the backend (src/sllm/backends/       *)
(* vllm_backend.py) to every data parallel engine and every worker          *)
(* (the patch runtime_moe_metadata.patch), which apply it and then compare  *)
(* it with the experts they hold; the answers are put together by engine,   *)
(* over the engines (src/sllm/vllm_expert_remap.py) and by the backend.     *)
(*                                                                         *)
(* plan.ranks maps experts to ranks.  A worker has a rank number and an     *)
(* expert parallel rank, holds experts, remembers the last plan it saw, is  *)
(* ready for a live remap or not, and moves weights in one; a worker that   *)
(* fails makes its engine's answer an exception.  How a live remap moves    *)
(* the weights is ExpertParallel's part.                                    *)
(***************************************************************************)
EXTENDS Question, Ordering

\* _expert_rank_matches: a bare number may name either rank of a worker.
RankMatches(rank, w) == IF rank.bare THEN rank.n \in {w.rank, w.ep} ELSE rank.n = w.ep

LocalExpected(plan, w) == {e \in DOMAIN plan.ranks : RankMatches(plan.ranks[e], w)}

\* Faulty variant of Compare: experts the plan puts elsewhere may be left over.
CompareExpected(plan, w) ==
    /\ w.experts # {} /\ DOMAIN plan.ranks # {}
    /\ LocalExpected(plan, w) # {}
    /\ LocalExpected(plan, w) \subseteq w.experts

\* _compare_runtime_expert_placement; only a worker with experts has a snapshot,
\* and every shard of a worker has that worker's rank.
Compare(plan, w) ==
    /\ w.experts # {} /\ DOMAIN plan.ranks # {}
    /\ LocalExpected(plan, w) # {}
    /\ LocalExpected(plan, w) \subseteq w.experts
    /\ w.experts \subseteq LocalExpected(plan, w)

\* An answer without the fields of the hooks.
Blank == [ok |-> FALSE, seen |-> 0, of |-> 0, physical |-> FALSE, placed |-> FALSE, moved |-> 0]

PreparesPlan(w) == [Blank EXCEPT !.ok = w.ready]

\* The observing hooks: a plan is seen, never applied, and compared.
ObservesPlan == [Blank EXCEPT !.seen = 1, !.of = 1]
VerifiesPlan(plan, w, last) ==
    [Blank EXCEPT !.ok = Compare(plan, w), !.placed = Compare(plan, w), !.of = 1,
                  !.seen = IF plan.print # "" /\ plan.print = last THEN 1 ELSE 0]

WorkerApplies(plan, w) ==
    IF ~plan.live THEN ObservesPlan
    ELSE [ok |-> TRUE, seen |-> 1, of |-> 1, physical |-> w.moved > 0, placed |-> TRUE, moved |-> w.moved]

\* What a live remap of this plan did is told again if the comparison succeeds.
\* stage: what the apply hook did on this worker.
WorkerVerifies(plan, w, stage) ==
    LET row == VerifiesPlan(plan, w, IF stage = "observed" THEN plan.print ELSE w.last)
    IN IF stage = "remapped" /\ row.ok
       THEN [row EXCEPT !.seen = 1, !.physical = w.moved > 0, !.moved = w.moved]
       ELSE row

-----------------------------------------------------------------------------
(* Putting answers together.                                               *)

SumOf(rows, F(_)) == FoldLeft(LAMBDA n, r : n + F(r), 0, rows)
CountOf(rows, P(_)) == Cardinality({i \in DOMAIN rows : P(rows[i])})
Holds(rows, P(_)) == rows # <<>> /\ \A i \in DOMAIN rows : P(rows[i])
Some(rows, P(_)) == \E i \in DOMAIN rows : P(rows[i])

\* Faulty variant of Combines: workers that did not see the plan are not counted.
CombinesSeen(rows, ok) ==
    [ok |-> ok, rows |-> rows, count |-> Len(rows),
     successes |-> CountOf(rows, LAMBDA r : r.ok),
     seenAny |-> Some(rows, LAMBDA r : r.seen = 1),
     seen |-> SumOf(rows, LAMBDA r : r.seen),
     of |-> SumOf(rows, LAMBDA r : r.seen),
     physical |-> Some(rows, LAMBDA r : r.physical),
     placed |-> Holds(rows, LAMBDA r : r.placed),
     moved |-> SumOf(rows, LAMBDA r : r.moved)]

\* The fields of both aggregations.
Combines(rows, ok) ==
    [ok |-> ok, rows |-> rows, count |-> Len(rows),
     successes |-> CountOf(rows, LAMBDA r : r.ok),
     seenAny |-> Some(rows, LAMBDA r : r.seen = 1),
     seen |-> SumOf(rows, LAMBDA r : r.seen),
     of |-> SumOf(rows, LAMBDA r : r.of),
     physical |-> Some(rows, LAMBDA r : r.physical),
     placed |-> Holds(rows, LAMBDA r : r.placed),
     moved |-> SumOf(rows, LAMBDA r : r.moved)]

\* _aggregate_expert_placement_hook_results
AggregateWorkers(rows) == Combines(rows, Holds(rows, LAMBDA r : r.ok))

\* aggregate_dp_engine_hook_results
AggregateEngines(results) ==
    Combines(FlattenSeq([i \in DOMAIN results |-> results[i].rows]),
             Holds(results, LAMBDA r : r.ok))

\* An engine refuses a remap while requests run and the plan does not allow it;
\* the refusal has no worker results, so over several engines it is a row itself.
Refused(several) ==
    [Combines(<<>>, FALSE) EXCEPT !.rows = IF several THEN <<Blank>> ELSE <<>>]
EnginePrepares(plan, e, several) ==
    IF e.busy /\ ~plan.allowActive THEN Refused(several)
    ELSE AggregateWorkers([i \in DOMAIN e.workers |-> PreparesPlan(e.workers[i])])

Rows(e, Hook(_)) == [i \in DOMAIN e.workers |-> Hook(e.workers[i])]
Fails(e) == Some(e.workers, LAMBDA w : w.fails)

\* _spotserve_call_placement_hook_all_dp_engines; None if a call raises.
OverEngines(es, Hook(_)) ==
    LET results == [i \in DOMAIN es |-> AggregateWorkers(Rows(es[i], Hook))]
    IN IF Len(es) = 1 THEN results[1] ELSE AggregateEngines(results)

Preflight(plan, es) ==
    LET several == Len(es) > 1
        results == [i \in DOMAIN es |-> EnginePrepares(plan, es[i], several)]
    IN IF several THEN AggregateEngines(results) ELSE results[1]

\* The result of the apply hook, and what it did on the workers.
Applies(plan, es) ==
    IF plan.live /\ ~Preflight(plan, es).ok
    THEN [result |-> Preflight(plan, es), stage |-> "refused"]
    ELSE IF plan.live /\ \E i \in DOMAIN es : Fails(es[i])
    THEN [result |-> Unknown, stage |-> "failed"]
    ELSE [result |-> OverEngines(es, LAMBDA w : WorkerApplies(plan, w)),
          stage |-> IF plan.live THEN "remapped" ELSE "observed"]

Verifies(plan, es, stage) == OverEngines(es, LAMBDA w : WorkerVerifies(plan, w, stage))

-----------------------------------------------------------------------------
(* The backend's status.                                                   *)

NoStatus == [applyOk |-> FALSE, applied |-> 0, verifyOk |-> FALSE, seenAny |-> FALSE,
    seen |-> 0, of |-> 0, seenByAll |-> FALSE, physical |-> FALSE, placed |-> FALSE,
    moved |-> 0]

\* _merge_expert_placement_runtime_capabilities: one row is enough.
MergedPlaced(s, result) == s.placed \/ result.placed \/ Some(result.rows, LAMBDA r : r.placed)

ApplyStatus(s, result) ==
    [s EXCEPT !.applyOk = result.ok, !.applied = result.successes,
              !.seenAny = result.seenAny, !.seen = result.seen, !.of = result.of,
              !.seenByAll = result.of > 0 /\ result.seen = result.of,
              !.physical = result.physical, !.moved = result.moved,
              !.placed = MergedPlaced(s, result)]

VerifyStatus(s, result) ==
    LET seen == Larger(s.seen, result.seen)
        of == Larger(s.of, result.of)
    IN [s EXCEPT !.verifyOk = result.ok, !.seenAny = s.seenAny \/ result.seenAny,
                 !.seen = seen, !.of = of,
                 !.seenByAll = s.seenByAll \/ (of > 0 /\ seen = of),
                 !.physical = s.physical \/ result.physical,
                 !.placed = MergedPlaced(s, result)]

Level(s, hooked) ==
    IF s.physical /\ s.placed THEN "physical_migration_verified"
    ELSE IF s.placed THEN "runtime_placement_verified"
    ELSE IF s.seenAny THEN "contract_seen_only"
    ELSE IF hooked THEN "runtime_boundary_observe_only" ELSE "unavailable"

\* _apply_configured_expert_placement_plan
Configured(x) ==
    LET a == IF x.applyHook THEN Applies(x.plan, x.engines)
             ELSE [result |-> Unknown, stage |-> "none"]
        s == IF a.result = Unknown THEN NoStatus ELSE ApplyStatus(NoStatus, a.result)
        t == IF x.verifyHook /\ ~x.verifyRaises
             THEN VerifyStatus(s, Verifies(x.plan, x.engines, a.stage)) ELSE s
        u == [t EXCEPT !.placed = t.placed \/ t.verifyOk]
    IN [status |-> u, level |-> Level(u, x.applyHook \/ x.verifyHook),
        raises |-> x.plan.required /\ ~u.physical]

\* apply_expert_placement_plan of the backend
PlanApplied(x) ==
    LET c == Configured(x)
    IN c @@ [success |-> ~c.raises /\ c.status.applyOk /\ c.status.verifyOk]

-----------------------------------------------------------------------------
(* Properties                                                              *)

Workers(x) == {<<i, j>> \in (DOMAIN x.engines) \X (1..4) : j \in DOMAIN x.engines[i].workers}
WorkerAt(x, at) == x.engines[at[1]].workers[at[2]]

\* The backend calls a plan applied and verified only if every worker of every
\* engine holds exactly the experts the plan gives its rank: the comparison is
\* local to a worker, and three levels put the answers together
\* (apply_expert_placement_plan; plans over the ranks that exist).
SuccessIsPlaced ==
    topic = "hooks" /\ answer.success =>
        \A at \in Workers(q) :
            WorkerAt(q, at).experts =
                {e \in DOMAIN q.plan.ranks : q.plan.ranks[e].n = WorkerAt(q, at).ep}

\* A plan reported as seen by all workers is one that the apply hook handed to
\* every worker, or that every worker remembers (contract_seen_by_all_workers
\* takes the larger counts of the two hooks).
SeenByAllIsSeen ==
    topic = "hooks" /\ answer.status.seenByAll =>
        \/ q.applyHook /\ Applies(q.plan, q.engines).stage \in {"observed", "remapped"}
        \/ \A at \in Workers(q) : WorkerAt(q, at).last = q.plan.print
=============================================================================
