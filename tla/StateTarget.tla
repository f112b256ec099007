----------------------------- MODULE StateTarget -----------------------------
(***************************************************************************)
(* Where an exported inference state is restored, src/sllm/spot/            *)
(* stateful_recovery.py: which READY instances are compatible with the      *)
(* state, which of them is taken, and whether the request is restored,      *)
(* replayed or simply retried.                                              *)
(*                                                                         *)
(* What an instance tells of its runtime comes in three layers, the record  *)
(* itself, its resource profile and its metadata; each maps some fields to  *)
(* values, of which Unknown is Python's None.                               *)
(***************************************************************************)
EXTENDS Question, Ordering

ModelFields == {"model", "revision"}
EncodingFields == {"sampling"}
LayoutFields == {"tp", "block"}
EpFields == {"ep", "placement"}
Fields == ModelFields \cup EncodingFields \cup LayoutFields \cup EpFields

Told(layer, f) == IF f \in DOMAIN layer THEN layer[f] ELSE Unknown

\* Faulty variant of CandidateValue: the profile is not looked at.
ValueAtTop(c, f) == IF f \in DOMAIN c.top THEN c.top[f] ELSE Told(c.metadata, f)

\* A field of the record hides the layers below, also when it is None.
CandidateValue(c, f) ==
    IF f \in DOMAIN c.top THEN c.top[f]
    ELSE IF Told(c.profile, f) # Unknown THEN c.profile[f]
    ELSE Told(c.metadata, f)

\* Both sides tell the field, and differ.
Mismatch(s, c, f) ==
    /\ s.fields[f] # Unknown /\ CandidateValue(c, f) # Unknown
    /\ s.fields[f] # CandidateValue(c, f)

ModelCompatible(s, c) == \A f \in ModelFields : ~Mismatch(s, c, f)

Exported(s) == s.restores /\ s.kind = "kv"

SerializationCompatible(s, c) ==
    /\ Exported(s)
    /\ c.kinds # Unknown => s.kind \in c.kinds
    /\ \A f \in EncodingFields : ~Mismatch(s, c, f)

KvLayoutCompatible(s, c) == \A f \in LayoutFields : ~Mismatch(s, c, f)

\* Where experts are matters only if one side says so.
EpMismatch(s, c) == {f \in EpFields : Mismatch(s, c, f)}
EpLayoutCompatible(s, c) == s.epRequired \/ c.epRequired => EpMismatch(s, c) = {}

RestoreCompatible(s, c) ==
    /\ ModelCompatible(s, c)
    /\ SerializationCompatible(s, c)
    /\ KvLayoutCompatible(s, c)
    /\ EpLayoutCompatible(s, c)

\* "" is an unknown node.
SameNode(s, c) == s.node # "" /\ c.node # "" /\ s.node = c.node
ScopeCost(s, c, w) == IF SameNode(s, c) THEN 0 ELSE w.crossNode

RestoreCost(s, c, w) == ScopeCost(s, c, w) + c.warmup + c.dispatch + w.concurrency * c.load

\* Why a candidate is passed over, in the order of the checks; None if it is not.
Rejection(s, c) ==
    IF ~c.restores THEN "target_restore_unsupported"
    ELSE IF s.node # "" /\ c.node # "" /\ s.node # c.node /\ ~s.crossNode
    THEN "cross_node_restore_unsupported"
    ELSE IF RestoreCompatible(s, c) THEN Unknown
    ELSE IF ~EpLayoutCompatible(s, c) THEN "ep_layout"
    ELSE IF ~KvLayoutCompatible(s, c) THEN "kv_layout"
    ELSE IF ~SerializationCompatible(s, c) THEN "serialization"
    ELSE "model"

\* Faulty variant of RankKey: equal candidates stay in the order of the pool.
KeyWithoutId(s, c, w) ==
    <<RestoreCost(s, c, w), IF s.node = c.node THEN 0 ELSE 1, c.warmup, c.load>>

RankKey(s, c, w) ==
    <<RestoreCost(s, c, w), IF s.node = c.node THEN 0 ELSE 1, c.warmup, c.load, c.id>>

\* plan_compatible_state_target
CompatibleTarget(s, candidates, source, w) ==
    LET seen == SelectSeq(candidates, LAMBDA c : c.id # source /\ c.ready)
        accepted == SelectSeq(seen, LAMBDA c : Rejection(s, c) = Unknown)
        ranked == SortedBy(accepted, LAMBDA c : RankKey(s, c, w))
        Replay(reason) == [action |-> "fallback_token_replay", target |-> Unknown, reason |-> reason]
    IN IF ~Exported(s) THEN Replay("state_restore_not_advertised")
       ELSE IF ranked = <<>> THEN Replay("no_compatible_ready_target")
       ELSE [action |-> "restore_state", target |-> ranked[1].id,
             reason |-> "planner_selected_compatible_ready_target"]

\* completed_tokens if there are any, else the length.
RecoveredTokens(s) == IF s.completed # 0 THEN s.completed ELSE s.tokens

\* plan_stateful_recovery
PlanRecovery(s, supported) ==
    IF s.tokens = 0
    THEN [action |-> "retry", recovered |-> 0, fallback |-> TRUE]
    ELSE IF supported /\ s.restores
    THEN [action |-> "restore_state", recovered |-> RecoveredTokens(s), fallback |-> FALSE]
    ELSE [action |-> "fallback_token_replay", recovered |-> RecoveredTokens(s), fallback |-> TRUE]

\* The router asks for a target, and lets the backend restore only if it got one.
RecoveryPlan(x) ==
    LET selection == CompatibleTarget(x.state, x.candidates, x.source, x.weights)
    IN [selection |-> selection,
        decision |-> PlanRecovery(x.state, selection.action = "restore_state")]

-----------------------------------------------------------------------------
(* Properties                                                              *)

\* A state is restored only on a READY instance, not the one it left, that
\* contradicts the state in no field that matters, whichever layer tells it
\* (plan_compatible_state_target; where the layers do not contradict each other).
TargetFits ==
    topic = "recovery" /\ answer.decision.action = "restore_state" =>
        \E i \in DOMAIN q.candidates :
            LET c == q.candidates[i]
                layers == {c.top, c.profile, c.metadata}
                matters == ModelFields \cup EncodingFields \cup LayoutFields
                             \cup (IF q.state.epRequired \/ c.epRequired THEN EpFields ELSE {})
            IN /\ c.id = answer.selection.target /\ c.id # q.source /\ c.ready /\ c.restores
               /\ q.state.crossNode \/ "" \in {c.node, q.state.node} \/ c.node = q.state.node
               /\ \A f \in matters : \A l \in layers :
                     f \in DOMAIN l => l[f] \in {q.state.fields[f], Unknown}
                                          \/ q.state.fields[f] = Unknown

\* The choice does not depend on the order of the router's pool, which changes
\* as instances come and go (ranked.sort()).
OrderIrrelevant ==
    topic = "recovery" =>
        answer.selection = CompatibleTarget(q.state, Reverse(q.candidates), q.source, q.weights)
=============================================================================
