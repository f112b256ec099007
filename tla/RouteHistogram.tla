--------------------------- MODULE RouteHistogram ---------------------------
(***************************************************************************)
(* Counting which experts a deployment's tokens are routed to: what each    *)
(* worker records while a batch runs (the patch runtime_moe_metadata.patch  *)
(* under src/sllm_store/vllm_patch), how an engine merges its workers and   *)
(* how the data parallel engines are added up (src/sllm/                    *)
(* vllm_expert_remap.py).                                                   *)
(*                                                                         *)
(* A batch has a token count for every request.  A layer of the model is    *)
(* called once or in several chunks of rows; a row is the set of experts    *)
(* its token goes to, and rows past the last token are padding.  An expert  *)
(* is a pair of layer and number; a histogram maps each to a count, 0 where *)
(* the dictionary has no key.                                               *)
(***************************************************************************)
EXTENDS Question, Ordering

NoRoutes(keys) == [k \in keys |-> 0]
Plus(h, g) == [k \in DOMAIN h |-> h[k] + g[k]]
Total(h) == MapThenSumSet(LAMBDA k : h[k], DOMAIN h)

\* moe_request_context: the rows of each request, those without tokens left out.
Spans(counts) ==
    LET First(i) == FoldSeq(LAMBDA n, s : n + s, 0, SubSeq(counts, 1, i - 1))
    IN {[request |-> i, first |-> First(i) + 1, last |-> First(i) + counts[i]] :
            i \in {j \in DOMAIN counts : counts[j] > 0}}

\* _event_histogram over the rows first..last.
EventHistogram(keys, layer, rows, first, last) ==
    [k \in keys |-> Cardinality({i \in first..last : k[1] = layer /\ k[2] \in rows[i]})]

\* The calls of a layer: from which row to which.
Calls(sizes) ==
    LET Before(i) == FoldSeq(LAMBDA n, s : n + s, 0, SubSeq(sizes, 1, i - 1))
    IN [i \in DOMAIN sizes |-> <<Before(i) + 1, Before(i) + sizes[i]>>]

\* Faulty variant of Updates: a layer's offset is not kept from call to call.
UpdatesFromStart(keys, spans, layer, rows, call) ==
    [s \in spans |->
        LET n == call[2] - call[1] + 1
            first == Larger(1, s.first)
            last == Smaller(n, s.last)
        IN EventHistogram(keys, layer, rows, call[1] + first - 1, call[1] + last - 1)]

\* record_moe_routing: what one call adds to the requests whose rows it has.
Updates(keys, spans, layer, rows, call) ==
    [s \in spans |->
        LET first == Larger(call[1], s.first)
            last == Smaller(call[2], s.last)
        IN EventHistogram(keys, layer, rows, first, last)]

\* What a worker holds.  per: per request; total; recent: the last events.
Idle(keys, n) == [per |-> [r \in 1..n |-> NoRoutes(keys)], total |-> NoRoutes(keys), recent |-> <<>>]

\* One call recorded; a call that routes nothing leaves no event.
Records(w, keys, spans, layer, rows, call, window) ==
    LET updates == Updates(keys, spans, layer, rows, call)
        event == [k \in keys |-> MapThenSumSet(LAMBDA s : updates[s][k], spans)]
        Of(r) == {s \in spans : s.request = r}
        events == Append(w.recent, event)
    IN IF Total(event) = 0 THEN w
       ELSE [per |-> [r \in DOMAIN w.per |->
                 [k \in keys |-> w.per[r][k] + MapThenSumSet(LAMBDA s : updates[s][k], Of(r))]],
             total |-> Plus(w.total, event),
             recent |-> IF Len(events) > window THEN Tail(events) ELSE events]

\* A worker's batch: every call of every layer it has.
WorkerRuns(e, keys, layers, window) ==
    LET spans == Spans(e.counts)
        calls == Calls(e.chunks)
        RunsLayer(l, w) ==
            FoldLeft(LAMBDA v, c : Records(v, keys, spans, l, e.rows[l], c, window), w, calls)
    IN FoldLeft(LAMBDA w, l : RunsLayer(l, w), Idle(keys, Len(e.counts)), layers)

RecentTotal(w, keys) ==
    FoldLeft(LAMBDA h, event : Plus(h, event), NoRoutes(keys), w.recent)

\* Faulty variant of MergeWorkers: the workers' counts are added.
MergeSums(hs, keys) == FoldLeft(LAMBDA h, g : Plus(h, g), NoRoutes(keys), hs)

\* _merge_max_int_histogram over an engine's workers.
MergeWorkers(hs, keys) ==
    FoldLeft(LAMBDA h, g : [k \in keys |-> Larger(h[k], g[k])], NoRoutes(keys), hs)

\* get_request_moe_metadata of an engine: the worker that counted most answers.
RequestHistogram(ws, r, keys) ==
    FoldLeft(LAMBDA h, w : IF Total(w.per[r]) > Total(h) THEN w.per[r] ELSE h, NoRoutes(keys), ws)

\* get_moe_runtime_metadata of an engine whose stages have the layers stages[i];
\* the tp workers of a stage run the same batch.
EngineMetadata(e, keys, stages, tp, window) ==
    LET ws == [i \in 1..(Len(stages) * tp) |->
                  WorkerRuns(e, keys, stages[((i - 1) \div tp) + 1], window)]
    IN [hotness |-> MergeWorkers([i \in DOMAIN ws |-> ws[i].total], keys),
        recent |-> MergeWorkers([i \in DOMAIN ws |-> RecentTotal(ws[i], keys)], keys),
        requests |-> [r \in DOMAIN e.counts |-> RequestHistogram(ws, r, keys)]]

\* aggregate_dp_engine_moe_metadata
DeploymentMetadata(es, keys) ==
    LET Sum(field) == FoldLeft(LAMBDA h, m : Plus(h, m[field]), NoRoutes(keys), es)
    IN [hotness |-> Sum("hotness"), recent |-> Sum("recent"),
        samples |-> Total(Sum("hotness")), available |-> Total(Sum("hotness")) > 0]

RouteMetadata(x) ==
    LET keys == (1..x.layers) \X (1..x.experts)
        es == [i \in DOMAIN x.engines |->
                  EngineMetadata(x.engines[i], keys, x.stages, x.tp, x.window)]
    IN [engines |-> es, deployment |-> DeploymentMetadata(es, keys)]

-----------------------------------------------------------------------------
(* Properties                                                              *)

\* The hotness of an expert is the number of tokens of all engines that were
\* routed to it: each is counted once although every worker of a tensor
\* parallel group records it, no stage's layers are lost, and padding does not
\* count (_merge_max_int_histogram, aggregate_dp_engine_moe_metadata).
HotnessExact ==
    topic = "routes" =>
        \A k \in DOMAIN answer.deployment.hotness :
            answer.deployment.hotness[k] =
                MapThenSumSet(LAMBDA i :
                    LET e == q.engines[i]
                        tokens == FoldSeq(LAMBDA n, s : n + s, 0, e.counts)
                    IN Cardinality({t \in 1..tokens : k[2] \in e.rows[k[1]][t]}),
                    DOMAIN q.engines)

\* On a model that is not split into stages a request's histogram holds the
\* routes of its own tokens and no others', however a layer's rows are cut into
\* calls; a finished window is part of the whole (record_moe_routing).
RoutesAreOwn ==
    topic = "routes" =>
        \A i \in DOMAIN q.engines :
            LET e == q.engines[i]
                m == answer.engines[i]
                First(r) == FoldSeq(LAMBDA n, s : n + s, 0, SubSeq(e.counts, 1, r - 1))
            IN /\ Len(q.stages) = 1 =>
                    \A r \in DOMAIN e.counts : \A k \in DOMAIN m.hotness :
                        m.requests[r][k] =
                            Cardinality({t \in 1..e.counts[r] : k[2] \in e.rows[k[1]][First(r) + t]})
               /\ \A k \in DOMAIN m.hotness : m.recent[k] <= m.hotness[k]
=============================================================================
