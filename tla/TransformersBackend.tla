------------------------ MODULE TransformersBackend ------------------------
(***************************************************************************)
(* The Transformers backend actor (sllm/backends/transformers_backend.py). *)
(* Its calls run on threads.  All generations share one streamer,          *)
(* InferenceStatus, whose intermediate output is what a preempted request  *)
(* returns, what get_current_tokens reports, and what stop and shutdown    *)
(* wait for.                                                               *)
(*                                                                         *)
(* A put of the streamer is one step; a token is the request it belongs    *)
(* to, and a prompt counts as one token.  The model itself is external: it *)
(* puts the prompt, then token by token, and may raise.                    *)
(***************************************************************************)
EXTENDS Integers, Sequences, FiniteSets

CONSTANTS Requests,
          None,
          Length,      \* puts of a generation, the prompt included
          Slots,       \* requests the router sends at a time
          MaxCalls,    \* bound: calls of generate per request
          Forced,      \* requests with a forced preemption
          Resumes,     \* does the router warm up caches and resume requests?
          Faults       \* raise: the model may raise

VARIABLES status,
          streamStatus,  \* inf_status.status
          intermediate,  \* [nested, out]: a list of one list, or a flat list
          call,          \* the call of generate or resume_generate
          warm,          \* has resume_kv_cache stored current_tokens?
          model,         \* none, loaded, or gone after del self.model
          waits          \* the calls of stop and shutdown in their loops

vars == <<status, streamStatus, intermediate, call, warm, model, waits>>

NoOutput == [nested |-> TRUE, out |-> <<>>]
NoCall == [at |-> "idle", puts |-> 0, calls |-> 0, resumed |-> FALSE,
           forced |-> FALSE, answer |-> None]

Init ==
    /\ status = "uninitialized" /\ streamStatus = "uninitialized"
    /\ intermediate = NoOutput
    /\ call = [r \in Requests |-> NoCall]
    /\ warm = FALSE /\ model = "none" /\ waits = {}

InitBackend ==
    /\ status = "uninitialized"
    /\ model' = "loaded" /\ status' = "running"
    /\ UNCHANGED <<streamStatus, intermediate, call, warm, waits>>

-----------------------------------------------------------------------------
(* generate and resume_generate.                                           *)

Busy == {r \in Requests : call[r].at # "idle"}
Backend == <<status, streamStatus, warm, model, waits>>

Returns(r, kind, out) ==
    call' = [call EXCEPT ![r].at = "idle", ![r].puts = 0, ![r].forced = FALSE,
                         ![r].answer = [kind |-> kind, out |-> out]]

\* The status is checked under the lock; the rest of the call runs without it.
\* A forced failure is configured once per request, on the shared streamer.
Generate(r, resumed) ==
    /\ call[r].at = "idle" /\ call[r].calls < MaxCalls
    /\ Cardinality(Busy) < Slots
    /\ resumed => Resumes
    /\ LET called == [call EXCEPT ![r].calls = @ + 1, ![r].resumed = resumed]
       IN IF status # "running"
          THEN call' = [called EXCEPT ![r].answer = [kind |-> "error", out |-> <<>>]]
          ELSE call' = [called EXCEPT ![r].at = "model", ![r].answer = None,
                            ![r].forced = r \in Forced /\ call[r].calls = 0]
    /\ UNCHANGED <<intermediate, Backend>>

\* resume_generate reads current_tokens, which only a warm-up sets.
ResumeFails(r) ==
    /\ call[r].at = "model" /\ call[r].puts = 0
    /\ call[r].resumed /\ ~warm
    /\ Returns(r, "raised", <<>>)
    /\ UNCHANGED <<intermediate, Backend>>

\* InferenceStatus.put: the first put makes the list, which is a list of lists
\* only if it is a prompt; later ones are appended to its first element, which
\* fails if that is a token.
Appended(r) ==
    IF intermediate.out = <<>>
    THEN [nested |-> call[r].puts = 0, out |-> <<r>>]
    ELSE [intermediate EXCEPT !.out = Append(@, r)]

\* A put that neither finds the backend deleting nor is told to fail.
Put(r) ==
    /\ call[r].at = "model" /\ call[r].puts < Length /\ model = "loaded"
    /\ call[r].resumed => warm
    /\ intermediate.nested
    /\ streamStatus # "deleting" /\ ~(call[r].forced /\ call[r].puts = 1)
    /\ intermediate' = Appended(r)
    /\ call' = [call EXCEPT ![r].puts = @ + 1]
    /\ UNCHANGED Backend

\* Faulty variant of Preempted: a deletion leaves the output in the streamer.
KeepsDeleted(r) ==
    /\ call[r].at = "model" /\ call[r].puts < Length /\ model = "loaded"
    /\ streamStatus = "deleting" \/ (call[r].forced /\ call[r].puts = 1)
    /\ Returns(r, "preempted", Appended(r).out)
    /\ intermediate' = IF streamStatus = "deleting" THEN Appended(r) ELSE NoOutput
    /\ UNCHANGED Backend

\* DeletingException: generate returns what is there and clears it;
\* resume_generate raises.
Preempted(r) ==
    /\ call[r].at = "model" /\ call[r].puts < Length /\ model = "loaded"
    /\ call[r].resumed => warm
    /\ intermediate.nested
    /\ streamStatus = "deleting" \/ (call[r].forced /\ call[r].puts = 1)
    /\ IF call[r].resumed
       THEN /\ Returns(r, "raised", <<>>)
            /\ intermediate' = Appended(r)
       ELSE /\ Returns(r, "preempted", Appended(r).out)
            /\ intermediate' = NoOutput
    /\ UNCHANGED Backend

\* The model raises, or a put fails on a flat list, or the model was deleted.
\* What was put stays.
Raised(r) ==
    /\ call[r].at = "model"
    /\ "raise" \in Faults \/ ~intermediate.nested \/ model = "gone"
    /\ Returns(r, "raised", <<>>)
    /\ UNCHANGED <<intermediate, Backend>>


Finishes(r) ==
    /\ call[r].at = "model" /\ call[r].puts = Length
    /\ Returns(r, "done", <<>>)
    /\ intermediate' = NoOutput
    /\ UNCHANGED Backend

\* resume_kv_cache runs the model once without the streamer.
ResumeKvCache ==
    /\ Resumes /\ model = "loaded" /\ ~warm
    /\ warm' = TRUE
    /\ UNCHANGED <<status, streamStatus, intermediate, call, model, waits>>

-----------------------------------------------------------------------------
(* stop and shutdown.                                                      *)

Stop ==
    /\ status \in {"uninitialized", "running"}
    /\ status' = "stopping" /\ waits' = waits \cup {"stop"}
    /\ UNCHANGED <<streamStatus, intermediate, call, warm, model>>

\* The first part of shutdown, called as such or at the end of stop.
Deletes(rest) ==
    IF status = "deleting"
    THEN waits' = rest /\ UNCHANGED <<status, streamStatus>>
    ELSE /\ status' = "deleting" /\ streamStatus' = "deleting"
         /\ waits' = rest \cup {"shutdown"}

StopWaited ==
    /\ "stop" \in waits /\ intermediate.out = <<>>
    /\ Deletes(waits \ {"stop"})
    /\ UNCHANGED <<intermediate, call, warm, model>>

Shutdown ==
    /\ status # "deleting"
    /\ Deletes(waits)
    /\ UNCHANGED <<intermediate, call, warm, model>>

ShutdownWaited ==
    /\ "shutdown" \in waits /\ intermediate.out = <<>>
    /\ waits' = waits \ {"shutdown"}
    /\ model' = IF model = "none" THEN "none" ELSE "gone"
    /\ UNCHANGED <<status, streamStatus, intermediate, call, warm>>

-----------------------------------------------------------------------------
Decodes(r) == Put(r) \/ Preempted(r) \/ Finishes(r) \/ Raised(r) \/ ResumeFails(r)

Next ==
    \/ InitBackend \/ ResumeKvCache
    \/ \E r \in Requests, resumed \in BOOLEAN : Generate(r, resumed)
    \/ \E r \in Requests : Decodes(r)
    \/ Stop \/ StopWaited \/ Shutdown \/ ShutdownWaited

Spec == Init /\ [][Next]_vars

\* A generation goes on, and the loops of stop and shutdown look again.
Progress == (\E r \in Requests : Decodes(r)) \/ StopWaited \/ ShutdownWaited

-----------------------------------------------------------------------------
(* Properties.                                                             *)

TypeOK ==
    /\ status \in {"uninitialized", "running", "stopping", "deleting"}
    /\ streamStatus \in {"uninitialized", "deleting"}
    /\ model \in {"none", "loaded", "gone"} /\ warm \in BOOLEAN
    /\ waits \subseteq {"stop", "shutdown"}
    /\ intermediate.nested \in BOOLEAN /\ intermediate.out \in Seq(Requests)
    /\ \A r \in Requests : call[r].puts \in 0..Length /\ call[r].calls \in 0..MaxCalls

\* What a preempted request returns as its output, and the router replays, is
\* its own, however many requests shared the streamer before it.
OutputIsOwn ==
    \A r \in Requests :
        call[r].answer # None /\ call[r].answer.kind = "preempted"
            => call[r].answer.out # <<>>
               /\ \A i \in 1..Len(call[r].answer.out) : call[r].answer.out[i] = r

\* "Wait for all requests to finish and shutdown the backend": stop ends, by
\* the generations finishing or by a shutdown that preempts them.
StopEnds == (waits # {}) ~> (waits = {})

=============================================================================
