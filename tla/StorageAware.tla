---------------------------- MODULE StorageAware ----------------------------
(***************************************************************************)
(* Where the storage-aware scheduler would place a model and what it would  *)
(* move away for it: schedule, get_migration_plans and the choice of an     *)
(* option in src/sllm/schedulers/storage_aware_scheduler.py.                *)
(*                                                                         *)
(* x.nodes: by node, whether it is READY, its free GPUs, and what the store *)
(* manager says of it: the models on disk (Unknown if it does not know the  *)
(* node), those in pinned memory, the time until its loads are through and  *)
(* the bandwidths.  x.instances: what runs.  x.size: by model.  Times are   *)
(* whole numbers; a cell that was never reached has the latency Unknown,    *)
(* which is infinity, and no store information.                             *)
(***************************************************************************)
EXTENDS Question, Ordering

Sooner(a, b) == a # Unknown /\ (b = Unknown \/ a < b)

LoadingTime(x, model, n, waiting) ==
    IF model \in x.nodes[n].pinned THEN x.size[model] \div x.nodes[n].pcie
    ELSE waiting + x.size[model] \div x.nodes[n].disk

\* The order of a dictionary's nodes is that of their numbers.
FastestNode(nodes, Time(_)) ==
    CHOOSE n \in nodes : \A m \in nodes : Time(n) < Time(m) \/ (Time(n) = Time(m) /\ n <= m)

\* The instances on a node that may go: other models', with a status.
Migratable(x, source) ==
    SelectSeq(x.instances, LAMBDA i : i.model # x.model /\ i.node = source /\ i.ready)

Targets(x, i, source) == {n \in DOMAIN x.nodes \ {source} : x.nodes[n].free >= i.num_gpu}

\* _get_migration_target raises: no node, or nothing known of the store.
TargetRaises(x, i, source, waits) ==
    \/ Targets(x, i, source) = {}
    \/ waits = Unknown
    \/ \E n \in Targets(x, i, source) : waits[n] = Unknown

GetMigrationTarget(x, i, source, waits) ==
    FastestNode(Targets(x, i, source), LAMBDA n : LoadingTime(x, i.model, n, waits[n]))

Cell(latency, waits) == [latency |-> latency, evicted |-> 0, plans |-> <<>>, waits |-> waits]

\* dp[0]: nothing is moved.
FirstRow(x, shortage) ==
    [j \in 0..shortage |->
        IF j = 0
        THEN Cell(0, [n \in DOMAIN x.nodes |->
                 IF x.nodes[n].stored = Unknown THEN Unknown ELSE x.nodes[n].waiting])
        ELSE Cell(Unknown, Unknown)]

\* Cell j of the next row.
WithInstance(x, i, source, row, j) ==
    LET rest == row[j - i.num_gpu]
        target == GetMigrationTarget(x, i, source, rest.waits)
        loading == LoadingTime(x, i.model, target, rest.waits[target])
        total == i.resuming + loading + rest.latency
    IN IF Sooner(total, row[j].latency)
       THEN [latency |-> total, evicted |-> rest.evicted + i.num_gpu,
             plans |-> Append(rest.plans, [target |-> target, instance |-> i]),
             waits |-> [rest.waits EXCEPT ![target] = @ + loading]]
       ELSE row[j]


\* The whole planning ends with an exception.
RowRaises(x, i, source, row) ==
    \E j \in DOMAIN row : j >= i.num_gpu /\ TargetRaises(x, i, source, row[j - i.num_gpu].waits)

\* dp[i] from dp[i - 1]; Unknown once an exception was raised (without one, every
\* cell that is used was reached).
NextRow(x, source, row, i) ==
    IF row = Unknown THEN Unknown
    ELSE IF RowRaises(x, i, source, row) THEN Unknown
    ELSE [j \in DOMAIN row |->
             IF j >= i.num_gpu /\ row[j - i.num_gpu].waits # Unknown THEN WithInstance(x, i, source, row, j)
             ELSE row[j]]

\* Faulty variant of OptimalPlans: whatever it frees.
CheapestPlans(last, shortage) ==
    LET js == {j \in DOMAIN last : last[j].latency # Unknown}
    IN IF js = {} THEN Unknown
       ELSE last[CHOOSE j \in js : \A k \in js : last[j].latency < last[k].latency
                                                 \/ (last[j].latency = last[k].latency /\ j <= k)]

OptimalPlans(last, shortage) ==
    LET js == {j \in DOMAIN last : last[j].latency # Unknown /\ last[j].evicted >= shortage}
    IN IF js = {} THEN Unknown
       ELSE last[CHOOSE j \in js : \A k \in js : last[j].latency < last[k].latency
                                                 \/ (last[j].latency = last[k].latency /\ j <= k)]

GetMigrationPlans(x, shortage, source) ==
    LET instances == Migratable(x, source)
        last == FoldLeft(LAMBDA row, i : NextRow(x, source, row, i), FirstRow(x, shortage), instances)
    IN IF instances = <<>> \/ last = Unknown THEN Unknown ELSE OptimalPlans(last, shortage)

----------------------------------------------------------------------------
Option(n, latency, plans) == [node |-> n, latency |-> latency, plans |-> plans]

Considered(x, n) ==
    x.nodes[n].ready /\ x.nodes[n].stored # Unknown /\ x.model \in x.nodes[n].stored

Schedule(x) ==
    LET latency(n) == LoadingTime(x, x.model, n, x.nodes[n].waiting)
        Fits(n) == x.nodes[n].free >= x.num_gpus
        Plans(n) == GetMigrationPlans(x, x.num_gpus - x.nodes[n].free, n)
        at == {n \in DOMAIN x.nodes : Considered(x, n)}
    IN {Option(n, latency(n), Unknown) : n \in {m \in at : Fits(m)}}
       \cup IF ~x.enable_migration THEN {}
            ELSE {Option(n, latency(n) + Plans(n).latency, Plans(n).plans) :
                     n \in {m \in at : ~Fits(m) /\ Plans(m) # Unknown}}

\* The loop's choice, for a request that may name its node.
AllocationPlan(x) ==
    LET options == {o \in Schedule(x) : x.target = Unknown \/ o.node = x.target}
    IN [options |-> options,
        chosen |-> IF options = {} THEN Unknown
                   ELSE CHOOSE o \in options : \A p \in options :
                            o.latency < p.latency \/ (o.latency = p.latency /\ o.node <= p.node)]

----------------------------------------------------------------------------
\* Properties.

\* Reference: the quickest way to free exactly the shortage by moving one instance.
OneMove(x, n) ==
    LET shortage == x.num_gpus - x.nodes[n].free
        moves == {i \in ToSet(Migratable(x, n)) : i.num_gpu = shortage}
        Time(i, m) == i.resuming + LoadingTime(x, i.model, m, x.nodes[m].waiting)
    IN {Time(i, m) : i \in moves, m \in {m \in DOMAIN x.nodes \ {n} : x.nodes[m].free >= shortage}}

\* schedule and the loop's sort: the chosen node is READY, has the checkpoint on disk
\* and has, or gets by the planned migrations, the GPUs of the request; each instance
\* moves once, away from that node, and none of the model that is being placed.
ChosenHasRoom == topic = "storage" =>
    LET o == answer.chosen
        node == q.nodes[o.node]
        moved == [k \in DOMAIN o.plans |-> o.plans[k].instance]
        freed == FoldLeft(LAMBDA s, i : s + i.num_gpu, 0, moved)
    IN o # Unknown =>
        /\ node.ready /\ q.model \in node.stored
        /\ IF o.plans = Unknown THEN node.free >= q.num_gpus
           ELSE /\ node.free + freed >= q.num_gpus
                /\ \A k, l \in DOMAIN moved : moved[k].id = moved[l].id => k = l
                /\ \A k \in DOMAIN moved : moved[k].node = o.node /\ moved[k].model # q.model
                                            /\ o.plans[k].target # o.node

\* get_migration_plans: the table looks at sums of several instances, but a cell that
\* is not reached yet has no store information and using it raises, so what is ever
\* planned is one migration, of an instance with exactly the GPUs that are short, and
\* of those the quickest one to resume elsewhere.
PlansOneMove == topic = "storage" =>
    \A o \in answer.options :
        o.plans # Unknown =>
            /\ Len(o.plans) = 1
            /\ o.latency = LoadingTime(q, q.model, o.node, q.nodes[o.node].waiting) + Min(OneMove(q, o.node))
=============================================================================
