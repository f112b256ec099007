---------------------------- MODULE VllmBackend ----------------------------
(***************************************************************************)
(* The vLLM backend actor (sllm/backends/vllm_backend.py): one engine, the *)
(* status that opens and closes it, the requests that stream from it, the  *)
(* aborts, exports and restores the router asks for while they stream, the *)
(* elastic resize of the engine, and the two ways to end it.               *)
(*                                                                         *)
(* The actor is one asyncio loop, so what a coroutine does between two     *)
(* awaits is one step.  status_lock is held across an await only by        *)
(* init_backend (starting).  The engine itself is external: it yields      *)
(* outputs, ends or fails a stream, and an aborted stream either ends or   *)
(* raises.  A request's tokens are counted, and its outputs are            *)
(* cumulative; the test-only pacing of outputs is left out.                *)
(***************************************************************************)
EXTENDS Integers, FiniteSets

CONSTANTS Requests,     \* request ids
          None,
          Length,       \* tokens a complete answer has
          MaxCalls,     \* bound: calls of generate per request
          Blocks,       \* KV blocks a staged restore announces
          Sizes,        \* data-parallel sizes asked of a resize
          InitialSize,
          MaxResizes,   \* bound: calls of scale_elastic_ep
          MaxProbes,    \* bound: calls of abort, export and restore
          HasHook,      \* does the engine report KV metadata of a request?
          Forced,       \* requests with a forced failure, as preempt or fail
          Faults        \* what may go wrong in the engine

VARIABLES status,        \* BackendStatus
          starting,      \* init_backend holds status_lock
          engine,        \* none, up, or gone after del self.engine
          run,           \* the generate call of each request
          trace,         \* request_trace: tokens of the last output, 0 absent
          abort_reasons,
          aborting,      \* the run an abort_request waits for the engine to end
          pending,       \* pending_kv_restores: blocks, 0 absent
          exported,      \* what export_inference_state last returned
          stopping,      \* is a stop() call in its wait loop?
          ending,        \* where shutdown() is, and the ids it aborts
          dp,            \* backend_config["data_parallel_size"]
          engineDp,      \* external: the size of the engine
          resize,        \* the scale_elastic_ep call
          resizes,       \* bound: resizes so far
          probes         \* bound: aborts, exports and restores so far

control == <<status, starting, engine, stopping, ending>>
streams == <<run, trace, abort_reasons, aborting, pending, exported>>
sizes == <<dp, engineDp, resize, resizes>>
vars == <<control, streams, sizes, probes>>

Status == <<"uninitialized", "running", "stopping", "deleting">>
Rank(s) == CHOOSE i \in 1..4 : Status[i] = s

\* A request that no call of generate serves.
Idle == [at |-> "idle", live |-> "none", tokens |-> 0, calls |-> 0,
         answer |-> None]
NoResize == [at |-> "idle", from |-> 0, to |-> 0]
NoExport == [of |-> None, tokens |-> 0]

Init ==
    /\ status = "uninitialized" /\ starting = FALSE /\ engine = "none"
    /\ run = [r \in Requests |-> Idle]
    /\ trace = [r \in Requests |-> 0]
    /\ abort_reasons = [r \in Requests |-> None]
    /\ aborting = [r \in Requests |-> 0]
    /\ pending = [r \in Requests |-> 0]
    /\ exported = [r \in Requests |-> NoExport]
    /\ stopping = FALSE
    /\ ending = [at |-> "no", ids |-> {}]
    /\ dp = InitialSize /\ engineDp = 0
    /\ resize = NoResize /\ resizes = 0 /\ probes = 0

-----------------------------------------------------------------------------
(* init_backend.                                                           *)

\* The engine is built, and the placement plan is applied under the lock.
InitBackend ==
    /\ ~starting /\ status = "uninitialized" /\ engine = "none"
    /\ engine' = "up" /\ engineDp' = dp
    /\ starting' = TRUE
    /\ UNCHANGED <<status, stopping, ending, streams, dp, resize, resizes, probes>>

\* A required physical migration that the runtime cannot do raises, and leaves
\* the engine with a backend that stays uninitialized.
PlanApplied ==
    /\ starting
    /\ starting' = FALSE
    /\ \/ status' = "running"
       \/ "plan" \in Faults /\ status' = status
    /\ UNCHANGED <<engine, stopping, ending, streams, sizes, probes>>

-----------------------------------------------------------------------------
(* generate.                                                               *)

Answer(kind, n, receipt) == [kind |-> kind, tokens |-> n, receipt |-> receipt]

\* The run of r is over with an answer for its caller.
Ends(r, answer) ==
    run' = [run EXCEPT ![r] = [@ EXCEPT !.at = "idle", !.live = "none",
                                        !.tokens = 0, !.answer = answer]]

Generate(r) ==
    /\ ~starting /\ run[r].at = "idle" /\ run[r].calls < MaxCalls
    /\ run[r].answer # None => run[r].answer.kind # "done"
    /\ LET called == [run EXCEPT ![r].calls = @ + 1]
       IN \/ /\ status # "running" \/ "params" \in Faults
             /\ run' = [called EXCEPT ![r].answer = Answer("error", 0, 0)]
          \/ /\ status = "running"
             /\ run' = [called EXCEPT ![r].at = "stream", ![r].live = "running",
                                      ![r].answer = None]
    /\ UNCHANGED <<control, trace, abort_reasons, aborting, pending, exported,
                   sizes, probes>>

\* _forced_failure_ready
ForcedNow(r) == r \in DOMAIN Forced /\ run[r].calls = 1

\* Faulty variant of Output: outputs are added up, though each repeats the last.
AddsOutputs(r) ==
    /\ run[r].at = "stream" /\ run[r].live = "running" /\ run[r].tokens < Length
    /\ trace' = [trace EXCEPT ![r] = @ + run[r].tokens + 1]
    /\ run' = [run EXCEPT ![r].tokens = @ + 1]
    /\ UNCHANGED <<control, abort_reasons, aborting, pending, exported, sizes,
                   probes>>

\* The engine yields an output, which request_trace records.
Output(r) ==
    /\ run[r].at = "stream" /\ run[r].live = "running" /\ run[r].tokens < Length
    /\ trace' = [trace EXCEPT ![r] = run[r].tokens + 1]
    /\ run' = [run EXCEPT ![r].tokens = @ + 1,
                          ![r].at = IF ForcedNow(r) THEN "forced" ELSE "stream"]
    /\ UNCHANGED <<control, abort_reasons, aborting, pending, exported, sizes,
                   probes>>

\* _forced_failure_result: the state is exported, the engine aborts the
\* request, and the entry of request_trace stays.
ForcedEnds(r) ==
    /\ run[r].at = "forced"
    /\ exported' = [exported EXCEPT ![r] = [of |-> r, tokens |-> run[r].tokens]]
    /\ \/ /\ Forced[r] = "preempt"
          /\ Ends(r, Answer("preempted", run[r].tokens, 0))
          /\ UNCHANGED <<trace, abort_reasons>>
       \/ /\ Forced[r] = "fail" /\ abort_reasons[r] = None
          /\ Ends(r, Answer("raised", 0, 0))
          /\ UNCHANGED <<trace, abort_reasons>>
       \/ /\ Forced[r] = "fail" /\ abort_reasons[r] # None
          /\ Ends(r, Answer("moved", trace[r], 0))
          /\ trace' = [trace EXCEPT ![r] = 0]
          /\ abort_reasons' = [abort_reasons EXCEPT ![r] = None]
    /\ UNCHANGED <<control, aborting, pending, sizes, probes>>

\* _reparallelization_abort_result: the retry marker carries the tokens of the
\* last output, or of the trace when no output is at hand.
Moved(r, n) ==
    /\ Ends(r, Answer("moved", n, 0))
    /\ trace' = [trace EXCEPT ![r] = 0]
    /\ abort_reasons' = [abort_reasons EXCEPT ![r] = None]
    /\ UNCHANGED pending

\* Faulty variant of StreamEnds: a noted abort reason is not looked at.
IgnoresAbort(r) ==
    /\ run[r].at = "stream"
    /\ run[r].live = "aborted" \/ run[r].tokens = Length
    /\ IF run[r].tokens = 0
       THEN Ends(r, Answer("raised", 0, 0)) /\ UNCHANGED trace
       ELSE /\ Ends(r, Answer("done", run[r].tokens, 0))
            /\ trace' = [trace EXCEPT ![r] = 0]
    /\ UNCHANGED <<control, abort_reasons, pending, aborting, exported, sizes, probes>>

\* The stream ended by itself or was aborted and ended.
StreamEnds(r) ==
    /\ run[r].at = "stream"
    /\ run[r].live = "aborted" \/ run[r].tokens = Length
    /\ IF abort_reasons[r] # None
       THEN Moved(r, run[r].tokens)
       ELSE IF run[r].tokens = 0
       THEN /\ Ends(r, Answer("raised", 0, 0))
            /\ UNCHANGED <<trace, abort_reasons, pending>>
       ELSE /\ \E cached \in {FALSE, TRUE} :
                   Ends(r, Answer("done", run[r].tokens,
                                  IF cached THEN pending[r] ELSE 0))
            /\ trace' = [trace EXCEPT ![r] = 0]
            /\ pending' = [pending EXCEPT ![r] = 0]
            /\ UNCHANGED abort_reasons
    /\ UNCHANGED <<control, aborting, exported, sizes, probes>>

\* The stream raised: because it was aborted, or because the engine failed.
StreamRaises(r) ==
    /\ run[r].at = "stream"
    /\ run[r].live = "aborted" \/ "stream" \in Faults
    /\ IF abort_reasons[r] # None
       THEN Moved(r, trace[r])
       ELSE /\ Ends(r, Answer("raised", 0, 0))
            /\ UNCHANGED <<trace, abort_reasons, pending>>
    /\ UNCHANGED <<control, aborting, exported, sizes, probes>>

-----------------------------------------------------------------------------
(* abort_request, export_inference_state and restore_inference_state.      *)

Probe ==
    /\ probes < MaxProbes
    /\ probes' = probes + 1

\* The reason is noted whether or not the request is live.
AbortRequest(r) ==
    /\ Probe /\ engine = "up" /\ aborting[r] = 0 /\ run[r].calls > 0
    /\ abort_reasons' = [abort_reasons EXCEPT ![r] = "reparallelization"]
    /\ aborting' = [aborting EXCEPT ![r] = run[r].calls]
    /\ UNCHANGED <<control, run, trace, pending, exported, sizes>>

\* engine.abort returns; the engine ends a live stream and ignores others.
EngineAborts(r) ==
    /\ aborting[r] > 0
    /\ aborting' = [aborting EXCEPT ![r] = 0]
    /\ \/ /\ run' = [run EXCEPT ![r].live =
                        IF @ = "running" /\ run[r].calls = aborting[r]
                        THEN "aborted" ELSE @]
          /\ UNCHANGED abort_reasons
       \/ /\ "abort" \in Faults
          /\ abort_reasons' = [abort_reasons EXCEPT ![r] = None]
          /\ UNCHANGED run
    /\ UNCHANGED <<control, trace, pending, exported, sizes, probes>>

\* get_current_tokens: the tokens of every traced request, the oldest entry
\* first.  Which one is first is left open.
CurrentTokens ==
    IF status = "running" /\ \E q \in Requests : trace[q] > 0
    THEN {[of |-> q, tokens |-> trace[q]] : q \in {q \in Requests : trace[q] > 0}}
    ELSE {NoExport}

\* The state of r comes from its traced output, else from the engine's own
\* metadata, else from get_current_tokens, of which the first sequence counts.
ExportInferenceState(r) ==
    /\ Probe /\ engine = "up"
    /\ \E state \in IF trace[r] > 0 THEN {[of |-> r, tokens |-> trace[r]]}
                    ELSE IF HasHook /\ run[r].live = "running"
                    THEN {[of |-> r, tokens |-> run[r].tokens]}
                    ELSE CurrentTokens :
          exported' = [exported EXCEPT ![r] = state]
    /\ UNCHANGED <<control, run, trace, abort_reasons, aborting, pending, sizes>>

\* A restore that the runtime stages announces its blocks for the next run of
\* the request; one that is done, refused or fails leaves nothing behind.
RestoreInferenceState(r) ==
    /\ Probe /\ engine = "up" /\ HasHook /\ run[r].at = "idle"
    /\ pending' = [pending EXCEPT ![r] = Blocks]
    /\ UNCHANGED <<control, run, trace, abort_reasons, aborting, exported, sizes>>

-----------------------------------------------------------------------------
(* scale_elastic_ep.                                                       *)

\* The status is checked and the old size read under the lock, which is then
\* released.
ResizeBegins(new) ==
    /\ ~starting /\ status = "running" /\ resize.at = "idle"
    /\ resizes < MaxResizes /\ new # dp
    /\ resizes' = resizes + 1
    /\ resize' = [at |-> "scaling", from |-> dp, to |-> new]
    /\ UNCHANGED <<control, streams, dp, engineDp, probes>>

\* The engine was resized, or raised and may be left with any size.
EngineResizes ==
    /\ resize.at = "scaling"
    /\ \/ /\ engineDp' = resize.to
          /\ resize' = [resize EXCEPT !.at = "verifying"]
          /\ UNCHANGED status
       \/ /\ "scale" \in Faults
          /\ engineDp' \in {engineDp, resize.to, 0}
          /\ resize' = NoResize
          /\ status' = "stopping"
    /\ UNCHANGED <<starting, engine, stopping, ending, streams, dp, resizes, probes>>

\* _verify_elastic_ep_runtime_placement: the new size is committed, or the old
\* one asked for again.
ResizeVerified ==
    /\ resize.at = "verifying"
    /\ \/ /\ engineDp = resize.to
          /\ dp' = resize.to /\ resize' = NoResize
       \/ /\ "verify" \in Faults
          /\ resize' = [resize EXCEPT !.at = "undoing"]
          /\ UNCHANGED dp
    /\ UNCHANGED <<control, streams, engineDp, resizes, probes>>

\* Faulty variant of ResizeUndone: the engine is not scaled back.
KeepsNewSize ==
    /\ resize.at = "undoing"
    /\ resize' = NoResize
    /\ UNCHANGED <<control, streams, dp, engineDp, resizes, probes>>

ResizeUndone ==
    /\ resize.at = "undoing"
    /\ resize' = NoResize
    /\ \/ engineDp' = resize.from /\ UNCHANGED status
       \/ "scale" \in Faults /\ engineDp' = 0 /\ status' = "stopping"
    /\ UNCHANGED <<starting, engine, stopping, ending, streams, dp, resizes, probes>>

-----------------------------------------------------------------------------
(* stop and shutdown.                                                      *)

Traced == {r \in Requests : trace[r] > 0}

Stop ==
    /\ ~starting /\ Rank(status) < Rank("stopping")
    /\ status' = "stopping" /\ stopping' = TRUE
    /\ UNCHANGED <<starting, engine, ending, streams, sizes, probes>>

\* shutdown from here on: it does nothing when the status is DELETING already,
\* and raises on the missing engine when it is run a second time.
Shuts ==
    IF status = "deleting" THEN UNCHANGED <<status, ending>>
    ELSE /\ status' = "deleting"
         /\ ending' = IF ending.at = "no" THEN [at |-> "aborting", ids |-> Traced]
                      ELSE ending

\* No request is traced, or the deadline passed.
StopWaited ==
    /\ stopping
    /\ stopping' = FALSE
    /\ Shuts
    /\ UNCHANGED <<starting, engine, streams, sizes, probes>>

Shutdown ==
    /\ ~starting /\ status # "deleting"
    /\ Shuts
    /\ UNCHANGED <<starting, engine, stopping, streams, sizes, probes>>

\* Every id read from request_trace is aborted, and the engine dropped.
ShutdownEnds ==
    /\ ending.at = "aborting"
    /\ ending' = [at |-> "done", ids |-> {}]
    /\ engine' = "gone"
    /\ run' = [r \in Requests |->
                 IF r \in ending.ids /\ run[r].live = "running"
                 THEN [run[r] EXCEPT !.live = "aborted"] ELSE run[r]]
    /\ UNCHANGED <<status, starting, stopping, trace, abort_reasons, aborting,
                   pending, exported, sizes, probes>>

-----------------------------------------------------------------------------
RequestNext(r) ==
    \/ Generate(r) \/ Output(r) \/ ForcedEnds(r)
    \/ StreamEnds(r) \/ StreamRaises(r)
    \/ AbortRequest(r) \/ EngineAborts(r)
    \/ ExportInferenceState(r) \/ RestoreInferenceState(r)

Next ==
    \/ InitBackend \/ PlanApplied
    \/ \E r \in Requests : RequestNext(r)
    \/ \E new \in Sizes : ResizeBegins(new)
    \/ EngineResizes \/ ResizeVerified \/ ResizeUndone
    \/ Stop \/ StopWaited \/ Shutdown \/ ShutdownEnds

Spec == Init /\ [][Next]_vars

-----------------------------------------------------------------------------
(* Properties.                                                             *)

TypeOK ==
    /\ status \in {Status[i] : i \in 1..4} /\ starting \in BOOLEAN
    /\ engine \in {"none", "up", "gone"} /\ stopping \in BOOLEAN
    /\ run \in [Requests ->
         [at : {"idle", "stream", "forced"}, live : {"none", "running", "aborted"},
          tokens : 0..Length, calls : 0..MaxCalls,
          answer : {None} \cup
            [kind : {"done", "error", "preempted", "raised", "moved"},
             tokens : 0..Length, receipt : {0, Blocks}]]]
    /\ trace \in [Requests -> 0..Length]
    /\ abort_reasons \in [Requests -> {None, "reparallelization"}]
    /\ aborting \in [Requests -> 0..MaxCalls]
    /\ pending \in [Requests -> {0, Blocks}]
    /\ exported \in [Requests -> [of : Requests \cup {None}, tokens : 0..Length]]
    /\ ending \in [at : {"no", "aborting", "done"}, ids : SUBSET Requests]
    /\ dp \in Sizes \cup {InitialSize}
    /\ engineDp \in Sizes \cup {InitialSize, 0}

\* An answer that generate returns as complete has every token, even when the
\* stream was aborted for a replan, failed and was retried, or finished just as
\* the abort arrived.  Only a shutdown ends a stream early and returns what it
\* has as the answer.
DoneIsComplete ==
    \A r \in Requests :
        run[r].answer # None /\ run[r].answer.kind = "done"
            => run[r].answer.tokens = Length \/ ending.at # "no"

\* Between resizes of a serving backend its configuration and its engine agree
\* on the data-parallel size, whatever step of a resize failed: placement
\* metadata and later resizes are computed from the configuration.
SizesAgree ==
    status = "running" /\ resize.at = "idle" => dp = engineDp

\* The state exported for a request holds tokens of that request.
ExportIsOwn ==
    \A r \in Requests : exported[r].of \in {None, r}

=============================================================================
