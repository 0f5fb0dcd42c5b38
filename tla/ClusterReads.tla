---------------------------- MODULE ClusterReads -----------------------------
(***************************************************************************)
(* What one read of a kubernetes cluster makes of the api's answers, and   *)
(* how it meets the site that prices it: clont/providers/k8s (nodes, pods, *)
(* usage), the match of finops/k8s/mapping.py and Prices of prices.py.     *)
(*                                                                         *)
(* An api node is [name, pid, uuid, vcpu, ram, allocVcpu, allocRam,        *)
(* cordoned, taints, ready]; pid is <<"uuid" or "id", value>>, ready is    *)
(* None, "yes" or "no"; a taint is <<key, effect>>.  A name is             *)
(* <<short, domain>>, a uuid is <<id, order>> where order is the byte      *)
(* order it was written in.                                                *)
(* An api pod is [ns, name, node, phase, containers, inits, overhead,      *)
(* owner, hash, volumes]; a container is <<cpu, ram>>, an init container   *)
(* [always, ask], an owner [kind, name] with name <<base, hash>>.          *)
(* Sizes are in the steps a request is rounded to (10m of cpu, 16 Mi).     *)
(***************************************************************************)
EXTENDS ClusterVolumes

CONSTANTS
    Ring,        \* samples kept for a workload
    UsageSamples \* usage_min_samples

ASSUME UsageAssumption == {Ring, UsageSamples} \subseteq Nat \ {0}

Terminated == {"Succeeded", "Failed"}
HardEffects == {"NoSchedule", "NoExecute"}
PerNodeOwners == {"DaemonSet", "Node"}

----------------------------------------------------------------------------
(* Faulty variants of the definitions below.                                *)

\* Of two hits, one of them.
PickAny(hits) == IF hits = {} THEN None ELSE CHOOSE t \in hits : TRUE

\* A ring of a workload that is gone kept for when it comes back.
ForgetNothing(history, live) == history

----------------------------------------------------------------------------
(* Nodes and pods.                                                          *)

\* A node that cannot take an ordinary pod is neither free capacity nor one to drop;
\* PreferNoSchedule is a hint, a taint without a key is none, and no Ready condition at
\* all is not "no".
TakesPods(node) ==
    /\ ~node.cordoned /\ node.ready # "no"
    /\ ~\E t \in node.taints : t[1] # None /\ t[2] \in HardEffects

Short(name) == <<name[1], None>>
Swapped(uuid) == <<uuid[1], 1 - uuid[2]>>

Plus(a, b) == <<a[1] + b[1], a[2] + b[2]>>
Both(f(_, _), a, b) == <<f(a[1], b[1]), f(a[2], b[2])>>
PairSum(f(_), S) == <<Sum(LAMBDA x : f(x)[1], S), Sum(LAMBDA x : f(x)[2], S)>>

\* Python's max over pairs: the pair with the most cpu, and of these the most ram.
PeakStep(steps) ==
    IF steps = {} THEN <<0, 0>>
    ELSE CHOOSE s \in steps : \A t \in steps : t[1] < s[1] \/ (t[1] = s[1] /\ t[2] <= s[2])

\* The scheduler's effective request: what runs, or the largest init step, and overhead.
Requests(pod) ==
    LET sidecars == {i \in DOMAIN pod.inits : pod.inits[i].always}
        steps == {pod.inits[i].ask : i \in DOMAIN pod.inits \ sidecars}
        running == Plus(PairSum(LAMBDA i : pod.containers[i], DOMAIN pod.containers),
                        PairSum(LAMBDA i : pod.inits[i].ask, sidecars))
    IN  Plus(Both(AtLeast, running, PeakStep(steps)), pod.overhead)

\* The claims a pod mounts; an ephemeral volume is one under the pod's own name.
PodClaims(pod) ==
    {IF v.claim # None THEN v.claim ELSE <<pod.name, v.name>> :
        v \in {x \in pod.volumes : x.claim # None \/ x.ephemeral}}

\* The template a pod came out of: a replica set's name without the hash is the
\* deployment's, a pod of nobody is its own.
WorkloadOf(pod) ==
    IF pod.owner = None THEN <<pod.ns, "Pod", <<pod.name, None>>>>
    ELSE IF pod.owner.kind = "ReplicaSet" /\ pod.hash # None /\ pod.owner.name[2] = pod.hash
         THEN <<pod.ns, "Deployment", <<pod.owner.name[1], None>>>>
         ELSE <<pod.ns, pod.owner.kind, pod.owner.name>>

PodOf(pod) ==
    [ns |-> pod.ns, name |-> pod.name, node |-> pod.node, ask |-> Requests(pod),
     perNode |-> pod.owner # None /\ pod.owner.kind \in PerNodeOwners,
     workload |-> WorkloadOf(pod), claims |-> PodClaims(pod)]

\* The live pods, in two lists: those on a node, and those that wait for one.
LivePods(answer) == {PodOf(p) : p \in {x \in answer : x.phase \notin Terminated}}
Scheduled(answer) == {p \in LivePods(answer) : p.node # None}
Pending(answer) == {p \in LivePods(answer) : p.node = None}

----------------------------------------------------------------------------
(* Which vm a node is.  A target is [uid, name, pool, uuids].               *)

\* One resource is a match, and more than one an answer that stops the search.
Pick(hits) ==
    LET uids == {t.uid : t \in hits}
    IN  IF uids = {} THEN None
        ELSE IF Cardinality(uids) = 1 THEN CHOOSE t \in hits : TRUE ELSE Refused

\* The keys of a node, strongest first, each with what it finds.
Lookups(node, targets, byName) ==
    LET uuid(u) == Pick({t \in targets : u \in t.uuids})
        name(n) == Pick({t \in targets : t.name = n})
    IN  (IF node.pid = None THEN <<>>
         ELSE <<IF node.pid[1] = "uuid" THEN uuid(node.pid[2]) ELSE Pick({t \in targets : t.uid = node.pid[2]})>>)
        \o (IF node.uuid = None THEN <<>> ELSE <<uuid(node.uuid), uuid(Swapped(node.uuid))>>)
        \o (IF byName THEN <<name(node.name), name(Short(node.name))>> ELSE <<>>)

\* The first key that finds anything decides.
Lookup(node, targets, byName) ==
    LET answers == Lookups(node, targets, byName)
        found == {i \in DOMAIN answers : answers[i] # None}
    IN  IF found = {} THEN None ELSE answers[Min(found)]

\* Node |-> the vm it runs on; a node of no vm, or of two, is left out.
Match(nodes, targets, byName) ==
    RestrictValues([n \in nodes |-> Lookup(n, targets, byName)], LAMBDA t : t \notin {None, Refused})

----------------------------------------------------------------------------
(* What it costs.  Records are [keys, amount, from, to] and pool lines      *)
(* [pool, weights, storageRate, overcommit], None where a line says nothing; *)
(* of a pool the last line with weights counts, and the last with a rate.   *)

\* Everything of a window that carries the uid, or else the name.
CostOf(spend, t) ==
    LET of(key) == {r \in spend.records : key \in r.keys}
        hits == IF of(t.uid) # {} THEN of(t.uid) ELSE of(t.name)
    IN  IF hits = {} THEN None
        ELSE [amount |-> Sum(LAMBDA r : r.amount, hits),
              days |-> AtLeast(1, Max({r.to : r \in hits}) - Min({r.from : r \in hits}) + 1)]

Monthly(cost) == (cost.amount * HoursPerMonth) \div (cost.days * HoursPerDay)

LastLine(spend, pool, field) ==
    LET lines == {i \in DOMAIN spend.pools : spend.pools[i].pool = pool /\ spend.pools[i][field] # None}
    IN  IF lines = {} THEN None ELSE spend.pools[Max(lines)]

CardOf(spend, pool) == LastLine(spend, pool, "storageRate")

WeightsOf(spend, t) ==
    LET line == LastLine(spend, t.pool, "weights")
    IN  IF line = None THEN [cpu |-> 50, ram |-> 50, storage |-> 0] ELSE line.weights

\* The part of a node's money that an amount of one dimension stands for; a node that
\* will not say how big it is splits nothing.
NodeShare(money, weight, used, capacity) ==
    IF capacity <= 0 \/ used <= 0 THEN 0 ELSE Share(money, weight, used, capacity)

NodeMoney(spend, node, t, ask) ==
    LET w == WeightsOf(spend, t)
    IN  NodeShare(Monthly(CostOf(spend, t)), w.cpu, ask[1], node.vcpu)
        + NodeShare(Monthly(CostOf(spend, t)), w.ram, ask[2], node.ram)

----------------------------------------------------------------------------
(* What was measured.  Usage is <<ns, pod>> |-> [ask, samples].             *)

Replicas(pods, w) == {p \in pods : p.workload = w}
MeasuredOf(pods, usage, w) ==
    {usage[<<p.ns, p.name>>] : p \in {x \in Replicas(pods, w) : <<x.ns, x.name>> \in DOMAIN usage}}
Workloads(pods) == {p.workload : p \in pods}

\* prometheus: rows that are percentiles already, folded to the busiest replica.
FoldRows(pods, usage) ==
    LET busiest(w) == LET found == MeasuredOf(pods, usage, w)
                      IN  [vcpu |-> Max({u.ask[1] : u \in found}), ram |-> Max({u.ask[2] : u \in found}),
                           samples |-> Max({u.samples : u \in found})]
    IN  RestrictValues([w \in {x \in Workloads(pods) : MeasuredOf(pods, usage, x) # {}} |-> busiest(w)],
                       LAMBDA r : r.samples >= UsageSamples)

\* A workload that no longer appears is forgotten.
Forget(history, live) == Restrict(history, DOMAIN history \cap live)

\* metrics-server: one sample a pass and workload, the busiest replica's; the ring
\* keeps the last ones.
Observe(history, pods, usage) ==
    LET push(s, x) == LET t == Append(s, x) IN IF Len(t) > Ring THEN Tail(t) ELSE t
        seen == {w \in Workloads(pods) : MeasuredOf(pods, usage, w) # {}}
        old(w) == IF w \in DOMAIN history THEN history[w] ELSE [cpu |-> <<>>, ram |-> <<>>]
        new(w) == [cpu |-> push(old(w).cpu, Max({u.ask[1] : u \in MeasuredOf(pods, usage, w)})),
                   ram |-> push(old(w).ram, Max({u.ask[2] : u \in MeasuredOf(pods, usage, w)}))]
    IN  Forget([w \in DOMAIN history \cup seen |-> IF w \in seen THEN new(w) ELSE history[w]], Workloads(pods))

\* The workloads with history enough.
Rows(history, pods) ==
    LET count(w) == AtMost(Len(history[w].cpu), Len(history[w].ram))
    IN  [w \in {x \in DOMAIN history \cap Workloads(pods) : count(x) >= UsageSamples} |->
            [vcpu |-> Percentile95(history[w].cpu), ram |-> Percentile95(history[w].ram),
             samples |-> count(w)]]
=============================================================================
