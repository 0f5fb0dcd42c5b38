---------------------------- MODULE ClusterReport ----------------------------
(***************************************************************************)
(* The three reports a cluster pass makes of one read and of the cycle's   *)
(* spend: the split by namespace (clont/finops/k8s/namespaces.py), the     *)
(* pools (pools.py) and the workloads (workloads.py).  Money is in cents;  *)
(* what the code rounds at the end is rounded down here part by part.      *)
(***************************************************************************)
EXTENDS ClusterReads

CONSTANTS
    PoolUnrequestedPct,  \* k8s_pool_unrequested_pct
    OvercommitRatio,     \* k8s_overcommit_ratio, in percent
    NameRank             \* node name |-> its place in the order of names, which is the
                         \* order the api lists nodes in

ASSUME PoolTuningAssumption == {PoolUnrequestedPct, OvercommitRatio} \subseteq Nat

----------------------------------------------------------------------------
(* Faulty variants of the definitions below.                                *)

\* Claims billed as they stand on a node that promised more than it has.
ScaledNot(claims, budget) == claims

\* Room on the nodes that take no pods counted as room.
FitsAnywhere(rows, drop, target) ==
    LET free(r) == Both(AtLeast, <<r.alloc[1] - r.floating[1], r.alloc[2] - r.floating[2]>>, <<0, 0>>)
        need == PairSum(LAMBDA r : r.floating, drop)
        room == PairSum(free, rows \ drop)
    IN  need[1] * 100 <= target * room[1] /\ need[2] * 100 <= target * room[2]

----------------------------------------------------------------------------
(* The split by namespace.                                                  *)

\* The pods a node holds: by its name, or by the short one when that finds none.
PodsOn(node, pods) ==
    LET at(name) == {p \in pods : p.node = name}
    IN  IF at(node.name) # {} THEN at(node.name) ELSE at(Short(node.name))

\* What a node keeps for itself; an allocatable of 0 was not reported.
Gap(capacity, allocatable) ==
    IF allocatable <= 0 \/ allocatable >= capacity THEN 0 ELSE capacity - allocatable

AskOf(pods) == PairSum(LAMBDA p : p.ask, pods)

\* Claims above what there is to divide are scaled down to it.
Scaled(claims, budget) ==
    LET claimed == Sum(LAMBDA ns : claims[ns], DOMAIN claims)
    IN  IF claimed <= budget THEN claims ELSE [ns \in DOMAIN claims |-> (claims[ns] * budget) \div claimed]

\* One priced node: its claims, and the three buckets that are no namespace.
NodeSplit(node, t, pods, spend) ==
    LET here == PodsOn(node, pods)
        money == CostOf(spend, t).amount
        w == WeightsOf(spend, t)
        cpu == (money * w.cpu) \div 100
        ram == (money * w.ram) \div 100
        part(n) == NodeShare(money, w.cpu, n[1], node.vcpu) + NodeShare(money, w.ram, n[2], node.ram)
        kubelet == part(<<Gap(node.vcpu, node.allocVcpu), Gap(node.ram, node.allocRam)>>)
        claims == Scaled([ns \in {p.ns : p \in here} |-> part(AskOf({p \in here : p.ns = ns}))],
                         cpu + ram - kubelet)
    IN  [claims |-> claims, kubelet |-> kubelet, storage |-> money - cpu - ram,
         unrequested |-> cpu + ram - kubelet - Sum(LAMBDA ns : claims[ns], DOMAIN claims)]

\* Namespace |-> on how many nodes without a price, or of no vm, it runs.
Partial(mapping, nodes, pods, spend) ==
    LET unpriced == {n \in DOMAIN mapping : CostOf(spend, mapping[n]) = None}
        at(n) == IF n \in DOMAIN mapping THEN PodsOn(n, pods) ELSE {p \in pods : p.node = n.name}
        dark == unpriced \cup (nodes \ DOMAIN mapping)
    IN  [ns \in UNION {{p.ns : p \in at(n)} : n \in dark} |->
            Cardinality({n \in dark : \E p \in at(n) : p.ns = ns})]

\* The whole table.  A namespace with no amount of its own stands in it at zero.
Split(mapping, nodes, pods, spend) ==
    LET priced == {n \in DOMAIN mapping : CostOf(spend, mapping[n]) # None}
        parts == [n \in priced |-> NodeSplit(n, mapping[n], pods, spend)]
        partial == Partial(mapping, nodes, pods, spend)
        of(ns) == {n \in priced : ns \in DOMAIN parts[n].claims}
    IN  [lines |-> [ns \in (UNION {DOMAIN parts[n].claims : n \in priced}) \cup DOMAIN partial |->
                       [amount |-> Sum(LAMBDA n : parts[n].claims[ns], of(ns)),
                        partial |-> IF ns \in DOMAIN partial THEN partial[ns] ELSE 0]],
         kubelet |-> Sum(LAMBDA n : parts[n].kubelet, priced),
         unrequested |-> Sum(LAMBDA n : parts[n].unrequested, priced),
         storage |-> Sum(LAMBDA n : parts[n].storage, priced),
         priced |-> priced]

----------------------------------------------------------------------------
(* The pools.                                                               *)

\* One node of a pool: its iron, its money, and the two kinds of load on it.
Row(node, t, pods, spend) ==
    LET here == PodsOn(node, pods)
    IN  [node |-> node.name, takes |-> TakesPods(node),
         alloc |-> <<IF node.allocVcpu = 0 THEN node.vcpu ELSE node.allocVcpu,
                     IF node.allocRam = 0 THEN node.ram ELSE node.allocRam>>,
         capacity |-> <<node.vcpu, node.ram>>,
         monthly |-> IF CostOf(spend, t) = None THEN None ELSE Monthly(CostOf(spend, t)),
         floating |-> AskOf({p \in here : ~p.perNode}), perNode |-> AskOf({p \in here : p.perNode})]

\* What the scheduler has not handed out, and never less than nothing.
Free(r) ==
    LET used == Plus(r.floating, r.perNode)
    IN  Both(AtLeast, <<r.alloc[1] - used[1], r.alloc[2] - used[2]>>, <<0, 0>>)

\* How full the nodes that take pods are on the fuller dimension, in tenths of a percent,
\* half of one up.
Filled(rows) ==
    LET open == {r \in rows : r.takes}
        capacity == PairSum(LAMBDA r : r.capacity, open)
        asked == PairSum(LAMBDA r : Plus(r.floating, r.perNode), open)
        shares == {(2000 * asked[i] + capacity[i]) \div (2 * capacity[i]) : i \in {j \in {1, 2} : capacity[j] > 0}}
    IN  IF shares = {} THEN 1000 ELSE Max(shares)

\* The pods off the nodes that go fit in the target's share of the room that is left.
Fits(rows, drop, target) ==
    LET open == {r \in rows \ drop : r.takes}
        need == PairSum(LAMBDA r : r.floating, drop)
        room == PairSum(Free, open)
    IN  open # {} /\ need[1] * 100 <= target * room[1] /\ need[2] * 100 <= target * room[2]

\* One node more, when the pods still fit.
TryToo(rows, drop, r) == IF Fits(rows, drop \cup {r}, TargetPct) THEN drop \cup {r} ELSE drop

\* The nodes that can go: the candidates in turn, the dearest first and of one price by
\* name, each one tried on top of those that went.
Droppable(rows) ==
    LET candidates == {r \in rows : r.takes /\ r.monthly # None}
        dearest(C) == CHOOSE r \in C : \A s \in C :
            s.monthly < r.monthly \/ (s.monthly = r.monthly /\ NameRank[r.node] <= NameRank[s.node])
        tried[n \in 0 .. Cardinality(candidates)] ==
            IF n = 0 THEN [drop |-> {}, left |-> candidates]
            ELSE LET r == dearest(tried[n - 1].left)
                 IN  [drop |-> TryToo(rows, tried[n - 1].drop, r), left |-> tried[n - 1].left \ {r}]
    IN  tried[Cardinality(candidates)].drop

\* One pool: fewer nodes, or why none can go, or nothing.
ReviewPool(pool, rows, card) ==
    LET drop == Droppable(rows)
        monthly == Sum(LAMBDA r : r.monthly, drop)
    IN  IF 1000 - Filled(rows) < 10 * PoolUnrequestedPct THEN {}
        ELSE IF drop # {}
        THEN IF monthly < MinSavings THEN {}
             ELSE {[kind |-> "oversized-node-pool", ref |-> pool, monthly |-> monthly, drop |-> drop]}
        ELSE IF card # None /\ card.overcommit >= OvercommitRatio
        THEN {[kind |-> "double-overcommit", ref |-> pool, monthly |-> 0, drop |-> {}]}
        ELSE {}

RowsOf(mapping, pool, pods, spend) ==
    {Row(n, mapping[n], pods, spend) : n \in {x \in DOMAIN mapping : mapping[x].pool = pool}}

Review(mapping, pods, spend) ==
    UNION {ReviewPool(pool, RowsOf(mapping, pool, pods, spend), CardOf(spend, pool)) :
              pool \in {mapping[n].pool : n \in DOMAIN mapping}}

----------------------------------------------------------------------------
(* The workloads.                                                           *)

\* The smallest request that leaves the p95 at the target of it, never above what the
\* template asks; a dimension it does not ask for stays unasked.
FitRequest(ask, row) ==
    LET fit(p95, n) == IF n = 0 THEN 0 ELSE Fit(p95 * 100, n)
    IN  <<fit(row.vcpu, ask[1]), fit(row.ram, ask[2])>>

\* The node whose rates a name stands for; of two nodes of one short name the last one.
RatedNode(mapping, name) ==
    LET named == {n \in DOMAIN mapping : name \in {n.name, Short(n.name)}}
    IN  IF named = {} THEN None
        ELSE CHOOSE n \in named : \A m \in named : NameRank[m.name] <= NameRank[n.name]

\* What the replicas give back, each at its own node's rate, and nothing for one that
\* asks for no more than the size advised or runs on a node without a price.
Handback95(group, fit, mapping, spend) ==
    LET spare(p) == Both(AtLeast, <<p.ask[1] - fit[1], p.ask[2] - fit[2]>>, <<0, 0>>)
        worth(p) == LET n == RatedNode(mapping, p.node)
                    IN  IF n = None \/ CostOf(spend, mapping[n]) = None THEN 0
                        ELSE NodeMoney(spend, n, mapping[n], spare(p))
    IN  Sum(worth, group)

\* A measured workload: too small on memory, too large, or as it should be.
AdviseOne(w, group, row, mapping, spend) ==
    LET ask == <<Max({p.ask[1] : p \in group}), Max({p.ask[2] : p \in group})>>
        fit == FitRequest(ask, row)
        monthly == Handback95(group, fit, mapping, spend)
    IN  IF ask[1] <= 0 /\ ask[2] <= 0 THEN {}
        ELSE IF ask[2] > 0 /\ row.ram > ask[2]
        THEN {[kind |-> "underrequested-workload", ref |-> w, monthly |-> 0, fit |-> ask]}
        ELSE IF fit # ask /\ monthly >= MinSavings
        THEN {[kind |-> "rightsize-workload", ref |-> w, monthly |-> monthly, fit |-> fit]}
        ELSE {}

Advise(mapping, pods, rows, spend) ==
    UNION {AdviseOne(w, Replicas(pods, w), rows[w], mapping, spend) :
              w \in DOMAIN rows \cap Workloads(pods)}
=============================================================================
