--------------------------- MODULE ContextMigration ---------------------------
(***************************************************************************)
(* The router's context migration after a preemption notice: the lost       *)
(* instances are marked and their tokens saved, their requests and the      *)
(* other instances are listed, a plan is made, and the planned instances    *)
(* are warmed with the saved tokens.                                        *)
(*                                                                         *)
(* Every call to a backend is an await.  Meanwhile requests end, fail over  *)
(* to other instances and start, instances stop or are preempted by other   *)
(* events, and a runtime may be given another expert placement (epoch).     *)
(* The plan is any assignment that MigrationPlan may choose.                *)
(***************************************************************************)
EXTENDS Naturals, Sequences, FiniteSets, SequencesExt

CONSTANTS
    Instances, Requests,
    Lost,           \* the instances that the event is about, in order
    Capacity,       \* free slots of an instance
    MaxChanges,     \* bound on what happens beside the event
    Faults,         \* whether backend calls may fail
    None

VARIABLES
    on,         \* the instance a request runs on
    ready,      \* instances in the ready pool that are READY
    pool,       \* instances in the ready pool
    epoch,      \* placement epoch of each runtime
    saved,      \* recovery_tokens_by_instance: whose tokens
    at,         \* where the handler is
    left,       \* what it still has to ask or to do
    sources, targets, rows,
    known,      \* the pool as the warm-up sees it
    checked,    \* the epoch that the handshake read
    report,     \* what became of the rows so far
    warmed,     \* warm-up calls
    changes

vars == <<on, ready, pool, epoch, saved, at, left, sources, targets, rows, known, checked,
          report, warmed, changes>>
world == <<on, ready, pool, epoch, changes>>
plan == <<sources, targets, rows>>
outcome == <<known, checked, report, warmed>>

NoReport == [attempted |-> 0, succeeded |-> 0, skipped |-> 0, failed |-> 0]

Init ==
    /\ on \in [Requests -> ToSet(Lost)]
    /\ ready = Instances /\ pool = Instances
    /\ epoch \in {[i \in Instances |-> e] : e \in {0, 1}}
    /\ saved = [i \in Instances |-> {}]
    /\ at = "mark" /\ left = Lost
    /\ sources = <<>> /\ targets = <<>> /\ rows = <<>>
    /\ known = {} /\ checked = 0 /\ report = NoReport /\ warmed = {}
    /\ changes = 0

Running(i) == {r \in Requests : on[r] = i}

-----------------------------------------------------------------------------
(* handle_preemption and _plan_context_migration_after_spot_event           *)

\* Faulty variant of Marks: the instance goes on serving until it is gone.
OnlySaves ==
    /\ at = "mark" /\ left # <<>>
    /\ \/ saved' = [saved EXCEPT ![Head(left)] = IF Running(Head(left)) = {} THEN @
                                                ELSE Running(Head(left))]
       \/ Faults /\ UNCHANGED saved
    /\ left' = Tail(left)
    /\ UNCHANGED <<at, plan, outcome, world>>

\* An instance is marked and its tokens are asked for.
Marks ==
    /\ at = "mark" /\ left # <<>>
    /\ ready' = ready \ {Head(left)}
    /\ \/ saved' = [saved EXCEPT ![Head(left)] = IF Running(Head(left)) = {} THEN @
                                                ELSE Running(Head(left))]
       \/ Faults /\ UNCHANGED saved
    /\ left' = Tail(left)
    /\ UNCHANGED <<at, plan, outcome, on, pool, epoch, changes>>

Marked ==
    /\ at = "mark" /\ left = <<>>
    /\ at' = "sources" /\ left' = Lost
    /\ UNCHANGED <<saved, plan, outcome, world>>

\* _capture_context_metadata of one instance.
Captures ==
    /\ at = "sources" /\ left # <<>>
    /\ \/ sources' = sources \o SetToSeq({[request |-> r, from |-> Head(left)] :
                                              r \in Running(Head(left))})
       \/ Faults /\ UNCHANGED sources
    /\ left' = Tail(left)
    /\ UNCHANGED <<at, saved, targets, rows, outcome, world>>

\* The list of the pool is taken once.
ListsPool ==
    /\ at = "sources" /\ left = <<>>
    /\ at' = "targets" /\ left' = SetToSeq(pool \ ToSet(Lost))
    /\ UNCHANGED <<saved, plan, outcome, world>>

\* An instance that is READY when its turn comes is a target, with its free
\* slots and the placement that its runtime then tells.
ListsTarget ==
    /\ at = "targets" /\ left # <<>>
    /\ IF Head(left) \notin ready THEN UNCHANGED targets
       ELSE \E e \in {epoch[Head(left)]} \cup (IF Faults THEN {0} ELSE {}) :
                targets' = Append(targets, [id |-> Head(left), epoch |-> e])
    /\ left' = Tail(left)
    /\ UNCHANGED <<at, saved, sources, rows, outcome, world>>

\* _populate_target_reuse_maps asks each target; this only changes costs.
AsksCaches ==
    /\ at = "targets" /\ left = <<>>
    /\ at' = "caches" /\ left' = targets
    /\ UNCHANGED <<saved, plan, outcome, world>>

\* Faulty variant of AsksCache: an instance that is gone is waited for.
WaitsForAnswer ==
    /\ at = "caches" /\ left # <<>>
    /\ Head(left).id \in ready
    /\ left' = Tail(left)
    /\ UNCHANGED <<at, saved, plan, outcome, world>>

\* A call that fails counts as an empty cache.
AsksCache ==
    /\ at = "caches" /\ left # <<>>
    /\ left' = Tail(left)
    /\ UNCHANGED <<at, saved, plan, outcome, world>>

\* The assignments that leave no request out while there is room.
Fitting ==
    LET n == Len(sources)
        k == Len(targets)
        Used(c, t) == Cardinality({i \in 1..n : c[i] = t})
    IN {c \in [1..n -> 0..k] :
           /\ \A t \in 1..k : Used(c, t) <= Capacity
           /\ Used(c, 0) > 0 => \A t \in 1..k : Used(c, t) = Capacity}

\* The plan, and if it migrates anything the pool for the warm-up.
Plans ==
    /\ at = "caches" /\ left = <<>>
    /\ \E c \in Fitting :
           LET placed == SelectSeq([i \in 1..Len(sources) |-> i], LAMBDA i : c[i] # 0)
           IN rows' = [j \in 1..Len(placed) |->
                  [request |-> sources[placed[j]].request, from |-> sources[placed[j]].from,
                   to |-> targets[c[placed[j]]].id, epoch |-> targets[c[placed[j]]].epoch]]
    /\ left' = rows'
    /\ IF rows' = <<>> THEN at' = "done" /\ UNCHANGED known
       ELSE at' = "warm" /\ known' = pool
    /\ UNCHANGED <<saved, sources, targets, checked, report, warmed, world>>

-----------------------------------------------------------------------------
(* _execute_prefix_warmup                                                  *)

Row == Head(left)

NextRow == at' = "warm" /\ left' = Tail(left)

\* A row whose target is gone is skipped; one without a marker is not checked.
TakesRow ==
    /\ at = "warm" /\ left # <<>>
    /\ IF Row.to \notin known
       THEN NextRow /\ report' = [report EXCEPT !.skipped = @ + 1]
       ELSE at' = (IF Row.epoch = 0 THEN "tokens" ELSE "check") /\ UNCHANGED <<left, report>>
    /\ checked' = 0
    /\ UNCHANGED <<saved, plan, known, warmed, world>>

\* Faulty variant of Compares: only a target that tells no placement is skipped.
ComparesPresence ==
    /\ at = "check"
    /\ \E e \in {epoch[Row.to]} \cup (IF Faults THEN {0} ELSE {}) :
           /\ checked' = e
           /\ IF e # 0 THEN at' = "tokens" /\ UNCHANGED <<left, report>>
              ELSE NextRow /\ report' = [report EXCEPT !.skipped = @ + 1]
    /\ UNCHANGED <<saved, plan, known, warmed, world>>

\* _verify_target_placement_handshake
Compares ==
    /\ at = "check"
    /\ \E e \in {epoch[Row.to]} \cup (IF Faults THEN {0} ELSE {}) :
           /\ checked' = e
           /\ IF e = Row.epoch THEN at' = "tokens" /\ UNCHANGED <<left, report>>
              ELSE NextRow /\ report' = [report EXCEPT !.skipped = @ + 1]
    /\ UNCHANGED <<saved, plan, known, warmed, world>>

\* The tokens that were saved for the source, else the ones it has now.
FindsTokens ==
    /\ at = "tokens"
    /\ \E found \in IF saved[Row.from] # {} THEN {saved[Row.from]}
                    ELSE {Running(Row.from)} \cup (IF Faults THEN {{}} ELSE {}) :
           /\ saved' = [saved EXCEPT ![Row.from] = IF found = {} THEN @ ELSE found]
           /\ IF found = {}
              THEN NextRow /\ report' = [report EXCEPT !.skipped = @ + 1] /\ UNCHANGED warmed
              ELSE /\ at' = "resume"
                   /\ report' = [report EXCEPT !.attempted = @ + 1]
                   /\ warmed' = warmed \cup {[row |-> Row, checked |-> checked, tokens |-> found]}
                   /\ UNCHANGED left
    /\ UNCHANGED <<plan, known, checked, world>>

\* Faulty variant of Resumes: an exception ends the handler's loop.
StopsAtError ==
    /\ at = "resume"
    /\ \/ NextRow /\ report' = [report EXCEPT !.succeeded = @ + 1]
       \/ Faults /\ at' = "warm" /\ left' = <<>> /\ report' = [report EXCEPT !.failed = @ + 1]
    /\ UNCHANGED <<saved, plan, known, checked, warmed, world>>

\* resume_kv_cache returns, or fails.
Resumes ==
    /\ at = "resume"
    /\ NextRow
    /\ \/ report' = [report EXCEPT !.succeeded = @ + 1]
       \/ Faults /\ report' = [report EXCEPT !.failed = @ + 1]
    /\ UNCHANGED <<saved, plan, known, checked, warmed, world>>

WarmupEnds ==
    /\ at = "warm" /\ left = <<>>
    /\ at' = "done"
    /\ UNCHANGED <<saved, left, plan, outcome, world>>

-----------------------------------------------------------------------------
(* Beside the event                                                        *)

handler == <<at, left, plan, outcome>>

Changes == changes < MaxChanges /\ changes' = changes + 1

\* A request ends; or fails over to a READY instance, with its own tokens saved
\* for the one it leaves (_capture_inference_state).
RequestLeaves(r) ==
    /\ Changes /\ on[r] # None
    /\ \/ on' = [on EXCEPT ![r] = None] /\ UNCHANGED saved
       \/ \E i \in ready \ {on[r]} :
              on' = [on EXCEPT ![r] = i] /\ saved' = [saved EXCEPT ![on[r]] = {r}]
    /\ UNCHANGED <<ready, pool, epoch, handler>>

\* Another event marks an instance, or it is stopped.
InstanceLeaves(i) ==
    /\ Changes /\ i \in pool
    /\ ready' = ready \ {i}
    /\ pool' \in {pool, pool \ {i}}
    /\ UNCHANGED <<on, epoch, saved, handler>>

PlacementChanges(i) ==
    /\ Changes
    /\ epoch' = [epoch EXCEPT ![i] = @ + 1]
    /\ UNCHANGED <<on, ready, pool, saved, handler>>

HandlerStep ==
    \/ Marks \/ Marked \/ Captures \/ ListsPool \/ ListsTarget \/ AsksCaches \/ AsksCache \/ Plans
    \/ TakesRow \/ Compares \/ FindsTokens \/ Resumes \/ WarmupEnds

Next ==
    \/ HandlerStep
    \/ \E r \in Requests : RequestLeaves(r)
    \/ \E i \in Instances : InstanceLeaves(i) \/ PlacementChanges(i)

Spec == Init /\ [][Next]_vars
FairSpec == Spec /\ WF_vars(HandlerStep)

-----------------------------------------------------------------------------
(* Properties                                                              *)

Rows == [request : Requests, from : ToSet(Lost), to : Instances \ ToSet(Lost),
         epoch : 0..(MaxChanges + 1)]

\* The types of the router's records, and of what the handler collects.
TypeOK ==
    /\ on \in [Requests -> Instances \cup {None}]
    /\ ready \subseteq pool /\ pool \subseteq Instances
    /\ saved \in [Instances -> SUBSET Requests]
    /\ at \in {"mark", "sources", "targets", "caches", "warm", "check", "tokens", "resume", "done"}
    /\ ToSet(rows) \subseteq Rows
    /\ \A w \in warmed : w.row \in Rows /\ w.tokens \subseteq Requests /\ w.tokens # {}

\* A request is planned for one instance only, though it may fail over while
\* the sources are asked one after the other: by then none of them is READY
\* (handle_preemption marks all of them first).
PlannedOnce ==
    \A j, k \in DOMAIN rows : rows[j].request = rows[k].request => j = k

\* A target is warmed only if it still had the expert placement that the plan was
\* made for, when that was known (_verify_target_placement_handshake).
WarmedAsPlanned ==
    \A w \in warmed : w.row.epoch # 0 => w.checked = w.row.epoch

\* Every row of the plan is accounted for: it was skipped, or tried and then
\* succeeded or failed (_execute_prefix_warmup).
RowsAccounted ==
    at = "done" =>
        /\ report.attempted + report.skipped = Len(rows)
        /\ report.succeeded + report.failed = report.attempted

\* The handler of the notice comes to its end, whatever the backends answer
\* (_plan_context_migration_after_spot_event).
NoticeHandled == <>(at = "done")
=============================================================================
