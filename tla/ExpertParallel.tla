--------------------------- MODULE ExpertParallel ---------------------------
(***************************************************************************)
(* The workers of an expert-parallel group: remap_expert_weights, which     *)
(* moves expert weights between the workers and then replaces their expert  *)
(* maps, and the sparse all-to-all that sends tokens to the workers of      *)
(* their experts and adds up what comes back.                               *)
(*                                                                         *)
(* A collective operation is one step of all workers, taken when all of     *)
(* them have reached it; a worker that raised never does.  Between two      *)
(* collectives every worker goes on by itself.  Experts and ranks are       *)
(* numbered from 1, slots as well; 0 in an expert map is the code's -1.     *)
(***************************************************************************)
EXTENDS Integers, Sequences, FiniteSets, SequencesExt

CONSTANTS
    Size,       \* workers of the group
    Local,      \* experts per worker and layer
    Layers,     \* layers with experts, 1..n
    Host,       \* host of each worker; None if it is not known
    Plans,      \* targets that may be asked for: [Layers -> [Experts -> Ranks]]
    Batches,    \* for each worker, the experts of each of its tokens
    Supported,  \* workers whose layout can be remapped
    MaxRemaps,  \* bound: remaps
    Faults,     \* subset of {"transfer", "device"}
    None

VARIABLES
    map,      \* expert_map of each worker and layer
    weights,  \* whose weights the slots of each worker and layer hold
    plan,     \* the plan being applied, or None
    at,       \* where each worker is
    before,   \* digests gathered before the move
    last,     \* _LAST_REMAP: the target of the last remap
    failed,   \* the engine refuses to go on
    version,  \* how often the map of each worker was written
    cache,    \* owners by layer, with the version they were made for
    batch,    \* the tokens of the pass, or None
    rows,     \* the rows each worker received and works on
    output,   \* what each worker's tokens got
    count     \* remaps so far

vars == <<map, weights, plan, at, before, last, failed, version, cache, batch,
          rows, output, count>>
remapVars == <<map, weights, plan, before, last, version>>
passVars == <<cache, batch, rows, output>>

Ranks == 1..Size
Experts == 1..(Size * Local)
Slots == 1..Local

Idle == [r \in Ranks |-> "idle"]
NoRows == [r \in Ranks |-> <<>>]

\* The even partition that the engine loads.
Init ==
    /\ map = [r \in Ranks |-> [l \in Layers |-> [e \in Experts |->
                IF (e - 1) \div Local = r - 1 THEN ((e - 1) % Local) + 1 ELSE 0]]]
    /\ weights = [r \in Ranks |-> [l \in Layers |-> [s \in Slots |->
                (r - 1) * Local + s]]]
    /\ plan = None /\ at = Idle /\ before = None
    /\ last = [r \in Ranks |-> None]
    /\ failed = FALSE
    /\ version = [r \in Ranks |-> 0]
    /\ cache = [r \in Ranks |-> None]
    /\ batch = None /\ rows = NoRows /\ output = NoRows
    /\ count = 0

-----------------------------------------------------------------------------
(* The layers of a plan.                                                   *)

\* The expert in each slot, by the worker's map.
OldLocal(r, l) ==
    [s \in Slots |-> CHOOSE e \in Experts : map[r][l][e] = s]

\* The experts that the plan gives to a worker, in the order of their numbers.
NewLocal(target, r, l) ==
    SetToSortSeq({e \in Experts : target[l][e] = r}, <)

\* _layers_for_plan accepts the plan on worker r.
LayersForPlan(target, r) ==
    /\ r \in Supported
    /\ \A l \in Layers :
          /\ {map[r][l][e] : e \in Experts} \ {0} = Slots
          /\ Cardinality({e \in Experts : map[r][l][e] # 0}) = Local
          /\ Len(NewLocal(target, r, l)) = Local

AllAt(p) == \A r \in Ranks : at[r] = p
AllGo(p) == at' = [r \in Ranks |-> p]
Goes(r, p) == at' = [at EXCEPT ![r] = p]

-----------------------------------------------------------------------------
(* remap_expert_weights                                                    *)

\* Faulty variant of ApplyPlan: the workers are not asked first.
SkipsPreflight(target, cross) ==
    /\ AllAt("idle") /\ ~failed /\ count < MaxRemaps
    /\ count' = count + 1
    /\ plan' = [target |-> target, cross |-> cross]
    /\ AllGo("enter")
    /\ UNCHANGED <<map, weights, before, last, failed, version, passVars>>

\* The engine asks every worker whether it can apply the plan, and calls them
\* all if all can.
ApplyPlan(target, cross) ==
    /\ AllAt("idle") /\ ~failed /\ count < MaxRemaps
    /\ count' = count + 1
    /\ IF \A r \in Ranks : LayersForPlan(target, r)
       THEN plan' = [target |-> target, cross |-> cross] /\ AllGo("enter")
       ELSE UNCHANGED <<plan, at>>
    /\ UNCHANGED <<map, weights, before, last, failed, version, passVars>>

\* Faulty variant of Enters: _LAST_REMAP is not cleared.
KeepsLast(r) ==
    /\ at[r] = "enter"
    /\ Goes(r, IF LayersForPlan(plan.target, r) THEN "gather" ELSE "raised")
    /\ UNCHANGED <<remapVars, failed, passVars, count>>

Enters(r) ==
    /\ at[r] = "enter"
    /\ last' = [last EXCEPT ![r] = None]
    /\ Goes(r, IF LayersForPlan(plan.target, r) THEN "gather" ELSE "raised")
    /\ UNCHANGED <<map, weights, plan, before, failed, version, passVars, count>>

\* Who had an expert, for the workers on different hosts.
OldRank(l, e) == CHOOSE r \in Ranks : map[r][l][e] # 0

\* _cross_node_movement of worker r
CrossNode(r) ==
    IF \E q \in Ranks : Host[q] = None THEN {}
    ELSE {<<l, e>> \in Layers \X Experts :
             plan.target[l][e] = r /\ Host[OldRank(l, e)] # Host[r]}

CrossPossible ==
    /\ \A r \in Ranks : Host[r] # None
    /\ \E q, r \in Ranks : Host[q] # Host[r]

\* The old maps and the hosts are gathered, and every worker draws the same
\* conclusion from them; so it does from the sum of the moves.
Gathers ==
    /\ AllAt("gather")
    /\ IF plan.cross /\ (~CrossPossible \/ \A r \in Ranks : CrossNode(r) = {})
       THEN AllGo("raised") ELSE AllGo("digest")
    /\ UNCHANGED <<remapVars, failed, passVars, count>>

\* _weight_digests and _gather_digests, with the given ids for the slots.
Digests(ids) ==
    [x \in Layers \X Experts |->
        LET held == {<<r, s>> \in Ranks \X Slots : ids[r][x[1]][s] = x[2]}
        IN {weights[h[1]][x[1]][h[2]] : h \in held}]

OldIds == [r \in Ranks |-> [l \in Layers |-> OldLocal(r, l)]]
NewIds == [r \in Ranks |-> [l \in Layers |-> NewLocal(plan.target, r, l)]]

DigestsBefore ==
    /\ AllAt("digest")
    /\ before' = Digests(OldIds)
    /\ AllGo("move")
    /\ UNCHANGED <<map, weights, plan, last, failed, version, passVars, count>>

\* rearrange_expert_weights_inplace of vLLM: every slot gets the weights of its
\* new expert from the worker that has them.
Source(l, e) == weights[OldRank(l, e)][l][map[OldRank(l, e)][l][e]]
Moved == [r \in Ranks |-> [l \in Layers |-> [s \in Slots |->
             Source(l, NewIds[r][l][s])]]]

Moves ==
    /\ AllAt("move")
    /\ \/ weights' = Moved
       \/ /\ "transfer" \in Faults /\ NewIds # OldIds
          /\ \E r \in Ranks, l \in Layers, s \in Slots :
                weights' = [Moved EXCEPT ![r][l][s] = weights[r][l][s]]
    /\ AllGo("check")
    /\ UNCHANGED <<map, plan, before, last, failed, version, passVars, count>>

\* Faulty variant of ChecksMove: the digests are not compared.
TrustsMove ==
    /\ AllAt("check")
    /\ AllGo("install")
    /\ UNCHANGED <<remapVars, failed, passVars, count>>

ChecksMove ==
    /\ AllAt("check")
    /\ IF Digests(NewIds) = before THEN AllGo("install") ELSE AllGo("raised")
    /\ UNCHANGED <<remapVars, failed, passVars, count>>

\* Faulty variant of NewMap: slots are off by one.
NewMapShifted(r) ==
    [l \in Layers |-> [e \in Experts |->
        IF plan.target[l][e] = r
        THEN 1 + (CHOOSE s \in Slots : NewIds[r][l][s] = e) ELSE 0]]

NewMap(r) ==
    [l \in Layers |-> [e \in Experts |->
        IF plan.target[l][e] = r
        THEN CHOOSE s \in Slots : NewIds[r][l][s] = e ELSE 0]]

\* Every worker writes its map by itself and remembers the plan.
Installs(r) ==
    /\ at[r] = "install"
    /\ map' = [map EXCEPT ![r] = NewMap(r)]
    /\ version' = [version EXCEPT ![r] = @ + 1]
    /\ \/ Goes(r, "done") /\ last' = [last EXCEPT ![r] = plan.target]
       \/ "device" \in Faults /\ Goes(r, "raised") /\ UNCHANGED last
    /\ UNCHANGED <<weights, plan, before, failed, passVars, count>>

\* The engine has all answers; after an error it takes no step any more.
ApplyEnds ==
    /\ plan # None /\ \A r \in Ranks : at[r] \in {"done", "raised"}
    /\ failed' = (\E r \in Ranks : at[r] = "raised")
    /\ plan' = None /\ before' = None /\ at' = Idle
    /\ UNCHANGED <<map, weights, last, version, passVars, count>>

-----------------------------------------------------------------------------
(* prepare and finalize of the sparse all-to-all, for the first layer.      *)

BeginsPass(b) ==
    /\ AllAt("idle") /\ ~failed
    /\ batch' = b /\ output' = NoRows
    /\ AllGo("prepare")
    /\ UNCHANGED <<remapVars, failed, cache, rows, count>>

Cached(r) == cache[r] # None /\ cache[r].version = version[r]

\* A worker without valid owners enters a gather that the others enter only if
\* they have none either.
Prepares(r) ==
    /\ at[r] = "prepare"
    /\ Goes(r, IF Cached(r) THEN "exchange" ELSE "owners")
    /\ UNCHANGED <<remapVars, failed, passVars, count>>

Owner(e) == {r \in Ranks : map[r][1][e] # 0}

GathersOwners ==
    /\ AllAt("owners")
    /\ IF \A e \in Experts : Cardinality(Owner(e)) = 1
       THEN /\ cache' = [r \in Ranks |->
                   [version |-> version[r],
                    owner |-> [e \in Experts |-> CHOOSE q \in Owner(e) : TRUE]]]
            /\ AllGo("exchange")
       ELSE AllGo("raised") /\ UNCHANGED cache
    /\ UNCHANGED <<remapVars, failed, batch, rows, output, count>>

Tokens(r) == 1..Len(batch[r])
Owners(r, t) == {cache[r].owner[e] : e \in batch[r][t]}

\* The tokens a worker keeps, and those it sends to each other worker, in order.
TokensFor(r, q) == SelectSeq([t \in Tokens(r) |-> t], LAMBDA t : q \in Owners(r, t))

\* What worker q works on: its own rows first, then those of the others, which
\* arrive in the order of the senders' ranks.
Received(q) ==
    LET Sent(r) == [i \in 1..Len(TokensFor(r, q)) |->
                      [from |-> r, token |-> TokensFor(r, q)[i]]]
    IN Sent(q) \o FlattenSeq([r \in Ranks |-> IF r = q THEN <<>> ELSE Sent(r)])

Exchanges ==
    /\ AllAt("exchange")
    /\ rows' = [q \in Ranks |-> Received(q)]
    /\ AllGo("combine")
    /\ UNCHANGED <<remapVars, failed, cache, batch, output, count>>

\* What worker q computes for a row: the experts of the row that are elsewhere
\* are masked, and every other one is applied with the weights in its slot.
Result(q, row) ==
    {weights[q][1][map[q][1][e]] :
        e \in {x \in batch[row.from][row.token] : map[q][1][x] # 0}}

ResultsFor(r, q) ==
    LET mine == SelectSeq(rows[q], LAMBDA row : row.from = r)
    IN [i \in 1..Len(mine) |-> Result(q, mine[i])]

\* Faulty variant of RemoteTokens: the tokens are not sorted by destination.
InTokenOrder(r) ==
    SortSeq(FlattenSeq([q \in Ranks |-> IF q = r THEN <<>> ELSE TokensFor(r, q)]), <)

\* The tokens of worker r that went elsewhere, by destination.
RemoteTokens(r) ==
    FlattenSeq([q \in Ranks |-> IF q = r THEN <<>> ELSE TokensFor(r, q)])

\* The results come back by destination, and each is added to the token at the
\* same place of the list: how often token t of worker r got each expert.
Output(r, t) ==
    LET tokens == TokensFor(r, r) \o RemoteTokens(r)
        results == ResultsFor(r, r) \o
            FlattenSeq([q \in Ranks |-> IF q = r THEN <<>> ELSE ResultsFor(r, q)])
    IN [e \in Experts |->
           Cardinality({i \in 1..Len(tokens) : tokens[i] = t /\ e \in results[i]})]

Combines ==
    /\ AllAt("combine")
    /\ output' = [r \in Ranks |-> [t \in Tokens(r) |-> Output(r, t)]]
    /\ AllGo("ready")
    /\ UNCHANGED <<remapVars, failed, cache, batch, rows, count>>

\* The layer's output goes on through the model.
EndsPass ==
    /\ AllAt("ready")
    /\ batch' = None /\ rows' = NoRows /\ output' = NoRows
    /\ at' = Idle
    /\ UNCHANGED <<remapVars, failed, cache, count>>

RankStep(r) == Enters(r) \/ Installs(r) \/ Prepares(r)
GroupStep == Gathers \/ DigestsBefore \/ Moves \/ ChecksMove \/ ApplyEnds
             \/ GathersOwners \/ Exchanges \/ Combines \/ EndsPass

Next ==
    \/ \E p \in Plans, cross \in BOOLEAN : ApplyPlan(p, cross)
    \/ \E b \in Batches : BeginsPass(b)
    \/ \E r \in Ranks : RankStep(r)
    \/ GroupStep

Spec == Init /\ [][Next]_vars
Fairness == (\A r \in Ranks : WF_vars(RankStep(r))) /\ WF_vars(GroupStep)
FairSpec == Spec /\ Fairness

-----------------------------------------------------------------------------
(* Properties                                                              *)

\* The state has the shape the operations expect.
TypeOK ==
    /\ \A r \in Ranks, l \in Layers :
          /\ map[r][l] \in [Experts -> 0..Local]
          /\ weights[r][l] \in [Slots -> Experts]
    /\ at \in [Ranks -> {"idle", "enter", "gather", "digest", "move", "check",
          "install", "done", "raised", "prepare", "owners", "exchange", "combine",
          "ready"}]
    /\ \A r \in Ranks : last[r] \in Plans \cup {None}
    /\ failed \in BOOLEAN

\* While the engine serves, every expert is on exactly one worker, and the slot
\* the map of that worker names holds this expert's weights, whatever moves and
\* faults went before (remap_expert_weights compares digests of all workers
\* before any map is written, and an error stops the engine).
MapsFindWeights ==
    AllAt("idle") /\ ~failed =>
        \A l \in Layers, e \in Experts :
            /\ Cardinality({r \in Ranks : map[r][l][e] # 0}) = 1
            /\ Source(l, e) = e

\* When all workers say that a plan was the last one applied, which is what the
\* verification asks for, their maps are those of the plan, also after a remap
\* that failed on some or all of them (last_remap_status, _LAST_REMAP).
AppliedIsInstalled ==
    AllAt("idle") =>
        \A p \in Plans : (\A r \in Ranks : last[r] = p) =>
            \A r \in Ranks, l \in Layers, e \in Experts :
                (map[r][l][e] # 0) = (p[l][e] = r)

\* Every token gets each of its experts exactly once and no other, also after
\* the experts moved (prepare and finalize of the sparse all-to-all).
EachExpertOnce ==
    AllAt("ready") =>
        \A r \in Ranks : \A t \in Tokens(r), e \in Experts :
            output[r][t][e] = IF e \in batch[r][t] THEN 1 ELSE 0

\* No worker waits in a collective that another one never enters: every remap
\* and every pass ends (the check of the plan on all workers before any of them
\* starts, and the owners cached by the version of the map).
GroupComesBack == \A r \in Ranks : at[r] # "idle" ~> at[r] = "idle"
=============================================================================
