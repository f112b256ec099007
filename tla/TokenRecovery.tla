--------------------------- MODULE TokenRecovery ---------------------------
(***************************************************************************)
(* The tokens of one request on vLLM across failed attempts: what the      *)
(* router keeps of a failed run, which input and which token budget the    *)
(* next run gets, and which answer reaches the client (router inference,   *)
(* vllm_backend generate and export_inference_state,                       *)
(* vllm_response_state).  Where an attempt runs is the matter of Router.   *)
(*                                                                         *)
(* Decoding is deterministic, so the token at a position is always the     *)
(* same and a token sequence is a prefix of the one right sequence: its    *)
(* length stands for it.  The prompt is positions 1..Prompt, the right     *)
(* answer the MaxTokens positions after it.                                *)
(***************************************************************************)
EXTENDS Integers

CONSTANTS Policy,         \* none, naive_retry, generated_token_replay,
                          \* or stateful_recovery
          Prompt,         \* tokens of the prompt
          MaxTokens,      \* max_tokens of the request
          MaxRetries,
          RequireNative,  \* require_native_kv_restore
          Native,         \* the runtime exports and restores KV state
          HookCounts,     \* the runtime's metadata hook counts output tokens
          FailAfter,      \* force_fail_after_tokens of the request
          MaxFailures,    \* bound: attempts that fail
          Faults,         \* which failures happen
          None

VARIABLES attempts,
          failures,       \* bound: failed attempts so far
          phase,          \* ask, run, or done
          recovery,       \* recovery_state
          replay,         \* replay_tokens: their length, or None
          completed,      \* request_data["_completed_tokens"], or None
          migration,      \* inflight["migration_state"]
          run,            \* the call of generate
          answer          \* what the client gets

vars == <<attempts, failures, phase, recovery, replay, completed, migration,
          run, answer>>

NoRun == [input |-> 0, budget |-> 0, out |-> 0, committed |-> 0, leaving |-> FALSE,
          how |-> "none"]
Error == [kind |-> "error", first |-> 0, last |-> 0]

Init ==
    /\ attempts = 0 /\ failures = 0 /\ phase = "ask"
    /\ recovery = None /\ replay = None /\ completed = None /\ migration = None
    /\ run = NoRun /\ answer = None

AtLeastOne(n) == IF n < 1 THEN 1 ELSE n

-----------------------------------------------------------------------------
(* What the next run gets.                                                 *)

\* Faulty variant of RestoreRequest: the committed output is not taken off.
KeepsBudget(state) ==
    [input |-> state.tokens, out |-> 0, budget |-> MaxTokens,
     committed |-> state.completed, leaving |-> FALSE, how |-> "restore"]

\* _build_stateful_restore_request: the committed output is the tail of the
\* exported tokens, and is taken off the budget.
RestoreRequest(state) ==
    [input |-> state.tokens, out |-> 0,
     budget |-> IF state.completed > 0
                THEN AtLeastOne(MaxTokens - state.completed) ELSE MaxTokens,
     committed |-> state.completed, leaving |-> FALSE, how |-> "restore"]

\* _build_token_replay_request
ReplayRequest(tokens) ==
    IF tokens = None
    THEN [NoRun EXCEPT !.input = Prompt, !.budget = MaxTokens, !.how = "prompt"]
    ELSE [NoRun EXCEPT !.input = tokens, !.how = "replay",
             !.budget = IF completed = None THEN MaxTokens
                        ELSE AtLeastOne(MaxTokens - completed)]

Calls(request, tokens) ==
    /\ run' = request /\ replay' = tokens
    /\ phase' = "run" /\ attempts' = attempts + 1
    /\ UNCHANGED <<failures, recovery, completed, migration, answer>>

\* NativeKVRecoveryError is a ValueError, which ends the request.
Refuses ==
    /\ answer' = Error /\ phase' = "done" /\ run' = NoRun
    /\ attempts' = attempts + 1
    /\ UNCHANGED <<failures, recovery, replay, completed, migration>>

\* Faulty variant of Attempt: a refused restore is always replayed.
AlwaysReplays ==
    /\ phase = "ask"
    /\ IF Policy # "stateful_recovery" \/ recovery = None
       THEN Calls(ReplayRequest(replay), replay)
       ELSE \/ recovery.native /\ Calls(RestoreRequest(recovery), None)
            \/ Calls(ReplayRequest(recovery.tokens), recovery.tokens)

\* An attempt gets an instance, and a kept state is restored on it or, if that
\* is refused there, replayed (_prepare_stateful_recovery).
Attempt ==
    /\ phase = "ask"
    /\ \/ /\ Policy # "stateful_recovery" \/ recovery = None
          /\ Calls(ReplayRequest(replay), replay)
       \/ /\ Policy = "stateful_recovery" /\ recovery # None
          /\ \/ /\ recovery.native
                /\ recovery.completed <= recovery.tokens
                /\ Calls(RestoreRequest(recovery), None)
             \/ /\ ~recovery.native \/ "refuse" \in Faults
                /\ IF RequireNative THEN Refuses
                   ELSE Calls(ReplayRequest(recovery.tokens), recovery.tokens)

-----------------------------------------------------------------------------
(* The run.                                                                *)

Stay == UNCHANGED <<attempts, failures, recovery, replay, completed>>

Decodes ==
    /\ phase = "run" /\ run.out < run.budget
    /\ run' = [run EXCEPT !.out = @ + 1]
    /\ Stay /\ UNCHANGED <<phase, migration, answer>>

\* The response of a finished run: its output, after the committed tokens of
\* an earlier one if it was restored (completed_response_tokens).  A required
\* restore without a cached prefix is refused.
Finishes ==
    /\ phase = "run" /\ run.out = run.budget
    /\ phase' = "done" /\ run' = NoRun
    /\ answer' = [kind |-> "done",
                  first |-> run.input - run.committed + 1,
                  last |-> run.input + run.out]
    /\ Stay /\ UNCHANGED migration

AttachFails ==
    /\ phase = "run" /\ run.out = run.budget
    /\ "attach" \in Faults /\ RequireNative /\ run.how = "restore"
    /\ phase' = "done" /\ run' = NoRun /\ answer' = Error
    /\ Stay /\ UNCHANGED migration

-----------------------------------------------------------------------------
(* What is kept of a failed run.                                           *)

\* export_inference_state with get_vllm_inference_state: the tokens of the
\* run's prompt and output.  Without a count of the caller or of the runtime
\* all of them count as completed.
Exported(counted) ==
    [tokens |-> run.input + run.out,
     completed |-> IF counted \/ HookCounts THEN run.out
                   ELSE run.input + run.out,
     native |-> Native]

\* Nothing is exported before the first output, unless the runtime knows.
Captured(counted) ==
    IF run.out > 0 \/ HookCounts THEN Exported(counted) ELSE None

ShouldRetry == Policy # "none" /\ attempts - 1 < MaxRetries

Keeps(state, tokens) ==
    /\ recovery' = state
    /\ replay' = IF Policy \in {"generated_token_replay", "stateful_recovery"}
                 THEN tokens ELSE None

Returns(a) == phase' = "done" /\ answer' = a

\* The end of an attempt whose result is not an answer.
Failed(state, tokens, more) ==
    /\ failures < MaxFailures /\ failures' = failures + 1
    /\ run' = NoRun
    /\ Keeps(state, tokens)
    /\ \/ /\ RequireNative /\ (state = None \/ ~Native)
          /\ Returns(Error)
       \/ /\ ~(RequireNative /\ (state = None \/ ~Native))
          /\ IF more THEN phase' = "ask" /\ UNCHANGED answer ELSE Returns(Error)
    /\ UNCHANGED attempts

\* The backend reports a preemption with its own count.  A run that continues
\* an earlier one has no forced failure.
Preempted ==
    /\ phase = "run" /\ "preempt" \in Faults
    /\ run.how = "prompt" /\ run.out = FailAfter
    /\ Failed(IF Policy = "stateful_recovery" THEN Exported(TRUE) ELSE recovery,
              run.input + run.out, ShouldRetry)
    /\ completed' = run.out
    /\ UNCHANGED migration

\* A replan exports the state of the running request ...  The last token ends
\* the stream, so there is none to export after it.
Exports ==
    /\ phase = "run" /\ "move" \in Faults
    /\ run.out < run.budget /\ ~run.leaving
    /\ \/ migration' = Captured(FALSE)
       \/ "timeout" \in Faults /\ migration' = None
    /\ run' = [run EXCEPT !.leaving = ~RequireNative \/ (migration' # None /\ Native)]
    /\ Stay /\ UNCHANGED <<phase, answer>>

\* ... and aborts it; the tokens decoded in between are lost.  One retry is
\* granted beyond the bound.
Moved ==
    /\ phase = "run" /\ run.leaving
    /\ Failed(migration, IF migration = None THEN None ELSE migration.tokens, TRUE)
    /\ completed' = IF migration = None THEN completed ELSE migration.completed
    /\ UNCHANGED migration

\* The call raises, and the state is captured afterwards without a count.
Raised ==
    /\ phase = "run" /\ "raise" \in Faults /\ run.out < run.budget
    /\ failures < MaxFailures /\ failures' = failures + 1
    /\ run' = NoRun
    /\ IF Policy = "stateful_recovery"
       THEN Keeps(Captured(FALSE),
                  IF Captured(FALSE) = None THEN None ELSE Captured(FALSE).tokens)
       ELSE Keeps(recovery, IF run.out = 0 THEN None ELSE run.input + run.out)
    /\ IF ShouldRetry THEN phase' = "ask" /\ UNCHANGED answer ELSE Returns(Error)
    /\ UNCHANGED <<attempts, completed, migration>>

Next ==
    \/ Attempt \/ Decodes \/ Finishes \/ AttachFails
    \/ Preempted \/ Exports \/ Moved \/ Raised

Spec == Init /\ [][Next]_vars

-----------------------------------------------------------------------------
(* Properties.                                                             *)

\* An answer holds every token after the prompt once: nothing that an earlier
\* run produced is lost, repeated or added to.
AnswerIsWhole ==
    answer # None /\ answer.kind = "done"
        => answer.first = Prompt + 1 /\ answer.last = Prompt + MaxTokens

\* "A stateful treatment must not silently become a replay treatment": with
\* require_native_kv_restore no run is given replayed tokens, whichever check
\* failed on the way.
NoSilentReplay ==
    RequireNative => run.how # "replay"

=============================================================================
