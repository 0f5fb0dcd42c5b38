------------------------------- MODULE Cluster -------------------------------
(***************************************************************************)
(* A cluster that keeps changing under its passes: KubernetesSource of     *)
(* clont/finops/k8s/source.py, with the samples it keeps from one pass to  *)
(* the next (UsageHistory), and the reports of ClusterReport.  Every       *)
(* change is one that the api, the hypervisor or the bill may show between *)
(* two passes.                                                             *)
(***************************************************************************)
EXTENDS ClusterReport

CONSTANTS
    First,      \* what there is at first: [nodes, pods, vms, spend, usage, settings]
    RunsOn,     \* node name |-> uid of the vm it really runs on
    MaxMoves,   \* bound on the changes
    MaxPasses   \* bound on the passes

VARIABLES
    world,    \* what the api, the hypervisor and the bill answer now; its settings are
              \* [source, byName]: usage and match_by_name of the configuration
    history,  \* UsageHistory: workload |-> the rings of its samples
    lives,    \* history: workload |-> passes since it last was absent
    moves, passes,
    report    \* the reports of a pass, None once the world has moved on

vars == <<world, history, lives, moves, passes, report>>

CopyUid == <<"copy", "vm">>

----------------------------------------------------------------------------
(* What there may be at first.                                              *)

IsNode(n) ==
    /\ DOMAIN n = {"name", "pid", "uuid", "vcpu", "ram", "allocVcpu", "allocRam", "cordoned", "taints", "ready"}
    /\ {n.vcpu, n.ram, n.allocVcpu, n.allocRam} \subseteq Nat
    /\ n.cordoned \in BOOLEAN
    /\ {NameRank[n.name], NameRank[Short(n.name)]} \subseteq Nat

Amounts == Nat \X Nat

IsPod(p) ==
    /\ DOMAIN p = {"ns", "name", "node", "phase", "containers", "inits", "overhead", "owner", "hash", "volumes"}
    /\ p.containers \in Seq(Amounts)
    /\ p.inits \in Seq([always : BOOLEAN, ask : Amounts])
    /\ p.overhead \in Amounts

IsSpend(spend) ==
    /\ DOMAIN spend = {"records", "pools"}
    /\ IsFiniteSet(spend.records)
    /\ \A r \in spend.records :
           /\ DOMAIN r = {"keys", "amount", "from", "to"}
           /\ r.amount \in Nat /\ r.from \in Int /\ r.to \in Int
    /\ \A i \in DOMAIN spend.pools : LET w == spend.pools[i].weights IN
           w # None => {w.cpu, w.ram, w.storage} \subseteq Nat /\ w.cpu + w.ram + w.storage = 100
    /\ DOMAIN spend.pools = 1 .. Len(spend.pools) /\ Len(spend.pools) \in Nat

\* Objects have one name each, sizes are whole, and a card's weights are of a whole.
IsWorld(w) ==
    /\ DOMAIN w = {"nodes", "pods", "vms", "spend", "usage", "settings"}
    /\ IsFiniteSet(w.nodes) /\ \A n \in w.nodes : IsNode(n)
    /\ \A m, n \in w.nodes : m.name = n.name => m = n
    /\ IsFiniteSet(w.pods) /\ \A p \in w.pods : IsPod(p)
    /\ IsFiniteSet(w.vms) /\ \A v \in w.vms : DOMAIN v = {"uid", "name", "pool", "uuids"}
    /\ IsSpend(w.spend)
    /\ \A k \in DOMAIN w.usage :
           DOMAIN w.usage[k] = {"ask", "samples"} /\ w.usage[k].ask \in Amounts /\ w.usage[k].samples \in Nat

\* What a node says of itself finds the vm it runs on, or nothing.
Finds(n, v) ==
    \/ n.pid # None /\ (IF n.pid[1] = "uuid" THEN n.pid[2] \in v.uuids ELSE v.uid = n.pid[2])
    \/ n.uuid # None /\ {n.uuid, Swapped(n.uuid)} \cap v.uuids # {}

\* No two vms are one and no identifier is of two; a copy is a vm of its own, and a
\* node is the same one by its short name.
IsIdentified(w) ==
    /\ \A v, x \in w.vms : v.uid = x.uid => v = x
    /\ \A n \in w.nodes :
           /\ RunsOn[Short(n.name)] = RunsOn[n.name] /\ RunsOn[n.name] # CopyUid
           /\ n.pid # None => n.pid[2] # CopyUid
           /\ \A v \in w.vms : Finds(n, v) => v.uid = RunsOn[n.name]

ASSUME FirstAssumption == \A w \in First : IsWorld(w) /\ IsIdentified(w)
ASSUME BoundsAssumption == MaxMoves \in Nat /\ MaxPasses \in Nat

----------------------------------------------------------------------------
Init ==
    /\ world \in First
    /\ history = <<>> /\ lives = <<>>
    /\ moves = 0 /\ passes = 0
    /\ report = None

Change(new) ==
    /\ moves < MaxMoves
    /\ world' = new
    /\ moves' = moves + 1
    /\ report' = None
    /\ UNCHANGED <<history, lives, passes>>

\* A replica of a deployment comes back out of the next template, half its size.
Roll == \E p \in {x \in world.pods : x.hash # None} :
    Change([world EXCEPT !.pods = (@ \ {p}) \cup
        {[p EXCEPT !.hash = "new", !.owner.name = <<p.owner.name[1], "new">>,
                   !.containers = [i \in DOMAIN @ |-> <<@[i][1] \div 2, @[i][2] \div 2>>]]}])

\* A pod is evicted and waits, or lands on another node.
Reschedule == \E p \in world.pods, n \in {x.name : x \in world.nodes} \cup {None} :
    /\ p.node # n /\ (p.owner # None => p.owner.kind \notin PerNodeOwners)
    /\ Change([world EXCEPT !.pods = (@ \ {p}) \cup {[p EXCEPT !.node = n]}])

\* A pod has run its course; a workload of one pod is gone with it.
Finish == \E p \in {x \in world.pods : x.phase \notin Terminated} :
    Change([world EXCEPT !.pods = (@ \ {p}) \cup {[p EXCEPT !.phase = "Succeeded"]}])

\* It is started again.
Restart == \E p \in {x \in world.pods : x.phase \in Terminated} :
    Change([world EXCEPT !.pods = (@ \ {p}) \cup {[p EXCEPT !.phase = "Running"]}])

\* A node is cordoned, tainted or stops answering.
Cordon == \E n \in world.nodes, m \in {"cordoned", "tainted", "lost"} :
    Change([world EXCEPT !.nodes = (@ \ {n}) \cup
        {CASE m = "cordoned" -> [n EXCEPT !.cordoned = TRUE]
           [] m = "tainted" -> [n EXCEPT !.taints = @ \cup {<<"maintenance", "NoExecute">>}]
           [] m = "lost" -> [n EXCEPT !.ready = "no"]}])

\* The api no longer says how large a node is, or what it keeps for itself.
Unsized == \E n \in world.nodes :
    Change([world EXCEPT !.nodes = (@ \ {n}) \cup {[n EXCEPT !.vcpu = 0, !.allocVcpu = 0]}])

\* A vm is copied with its uuids and the copy is billed, or one is deleted under its node.
CopyVm == \E v \in world.vms :
    Change([world EXCEPT
        !.vms = @ \cup {[v EXCEPT !.uid = CopyUid, !.name = <<"copy", None>>]},
        !.spend.records = @ \cup {[r EXCEPT !.keys = {CopyUid}] : r \in {x \in @ : v.uid \in x.keys}}])
DeleteVm == \E v \in world.vms : Change([world EXCEPT !.vms = @ \ {v}])

\* The bill has no line of a vm, or none of a pool.
LoseRecord == \E r \in world.spend.records : Change([world EXCEPT !.spend.records = @ \ {r}])
LosePools == Change([world EXCEPT !.spend.pools = <<>>])

\* A pod's consumption changes, or is not answered for.
Load == \E k \in DOMAIN world.usage :
    Change([world EXCEPT !.usage[k].ask = <<2 * @[1] + 1, 2 * @[2] + 1>>])
LoseUsage == \E k \in DOMAIN world.usage :
    Change([world EXCEPT !.usage = Restrict(@, DOMAIN @ \ {k})])

\* The kubelet registers under the other spelling of its name, and the object it had
\* before stays behind and is not ready.
Rename == \E n \in world.nodes :
    /\ Short(n.name) \notin {x.name : x \in world.nodes}
    /\ Change([world EXCEPT !.nodes = (@ \ {n}) \cup {[n EXCEPT !.ready = "no"], [n EXCEPT !.name = Short(@)]}])

\* The reports of what there is, with the samples kept so far.
ReportOf(w, rings) ==
    LET pods == Scheduled(w.pods)
        mapping == Match(w.nodes, w.vms, w.settings.byName)
        rows == CASE w.settings.source = "prometheus" -> FoldRows(pods, w.usage)
                  [] w.settings.source = "metrics-server" -> Rows(rings, pods)
                  [] OTHER -> <<>>
    IN  [split |-> Split(mapping, w.nodes, pods, w.spend), pools |-> Review(mapping, pods, w.spend),
         work |-> Advise(mapping, pods, rows, w.spend), pending |-> Cardinality(Pending(w.pods))]

\* A refresh of the pass: one read, one sample a workload, and the reports of it.
Pass ==
    /\ passes < MaxPasses
    /\ passes' = passes + 1
    /\ LET pods == Scheduled(world.pods)
       IN  /\ history' = IF world.settings.source = "metrics-server" THEN Observe(history, pods, world.usage) ELSE history
           /\ lives' = [w \in Workloads(pods) |-> IF w \in DOMAIN lives THEN lives[w] + 1 ELSE 1]
    /\ report' = ReportOf(world, history')
    /\ UNCHANGED <<world, moves>>

Next ==
    \/ Roll \/ Reschedule \/ Finish \/ Restart \/ Cordon \/ Unsized \/ CopyVm \/ DeleteVm
    \/ LoseRecord \/ LosePools \/ Load \/ LoseUsage \/ Rename \/ Pass

Spec == Init /\ [][Next]_vars

----------------------------------------------------------------------------
\* A node has one name, and no more samples are kept of a workload than the ring holds.
TypeOK ==
    /\ moves \in 0 .. MaxMoves /\ passes \in 0 .. MaxPasses
    /\ \A m, n \in world.nodes : m.name = n.name => m = n
    /\ \A w \in DOMAIN history : Len(history[w].cpu) \in 1 .. Ring /\ Len(history[w].ram) = Len(history[w].cpu)
    /\ \A w \in DOMAIN lives : lives[w] \in 1 .. passes

Reported == report # None
Mapping == Match(world.nodes, world.vms, world.settings.byName)
OnNodes == Scheduled(world.pods)

\* A namespace table divides what its nodes cost and never adds to it: its lines and its
\* three buckets come to that, and none is negative, however much the pods ask for.
SplitAddsUp ==
    Reported =>
        LET s == report.split
        IN  /\ Sum(LAMBDA ns : s.lines[ns].amount, DOMAIN s.lines) + s.kubelet + s.unrequested + s.storage
                   = Sum(LAMBDA n : CostOf(world.spend, Mapping[n]).amount, s.priced)
            /\ s.kubelet >= 0 /\ s.unrequested >= 0 /\ s.storage >= 0

\* No namespace that holds iron is left out, and one whose nodes are not all priced says
\* that its amount is partial.
NamespacesAllShow ==
    Reported =>
        \A p \in OnNodes : \A n \in world.nodes : p.node = n.name =>
            /\ p.ns \in DOMAIN report.split.lines
            /\ n \notin report.split.priced => report.split.lines[p.ns].partial > 0

\* The two together: nothing of what the nodes cost, and no one of those who use them, is
\* left out of the table or added to it.
SplitIsWhole == TypeOK /\ SplitAddsUp /\ NamespacesAllShow

\* Without names to go by, a node whose vm is there is priced by that vm or by none: two
\* vms of one uuid and a uuid in the other byte order never put one vm's money on
\* another's node.
NobodyElsesMoney ==
    Reported /\ ~world.settings.byName =>
        \A n \in report.split.priced :
            RunsOn[n.name] \in {v.uid : v \in world.vms} => Mapping[n].uid = RunsOn[n.name]

\* Nothing is shrunk that has not been measured often enough since it last was absent,
\* or, on memory it asks for, below what its busiest replica needs.
NothingUnmeasuredShrunk ==
    Reported => \A f \in {x \in report.work : x.kind = "rightsize-workload"} :
        /\ world.settings.source = "metrics-server" =>
               /\ lives[f.ref] >= UsageSamples
               /\ Len(history[f.ref].cpu) <= lives[f.ref]
        /\ \E p \in Replicas(OnNodes, f.ref) : f.fit[1] < p.ask[1] \/ f.fit[2] < p.ask[2]
        /\ world.settings.source = "prometheus" =>
               \A p, q \in Replicas(OnNodes, f.ref) : q.ask[2] > 0 /\ <<p.ns, p.name>> \in DOMAIN world.usage =>
                   world.usage[<<p.ns, p.name>>].ask[2] <= f.fit[2]

\* Nodes that can go never include one that ordinary pods cannot use, nor the last that
\* they can, and what stays has room for every pod that has to move; a node that has
\* handed out more than it has is no room.
DropsLeaveRoom ==
    Reported => \A f \in {x \in report.pools : x.kind = "oversized-node-pool"} :
        LET names == {r.node : r \in f.drop}
            pool == {n \in DOMAIN Mapping : Mapping[n].pool = f.ref}
            stay == {n \in pool : n.name \notin names /\ TakesPods(n)}
            held(n) == AskOf({p \in OnNodes : p.node = n.name})
            iron(n) == <<IF n.allocVcpu = 0 THEN n.vcpu ELSE n.allocVcpu,
                         IF n.allocRam = 0 THEN n.ram ELSE n.allocRam>>
            free(n, i) == AtLeast(iron(n)[i] - held(n)[i], 0)
            moved == AskOf({p \in OnNodes : p.node \in names /\ ~p.perNode})
        IN  /\ \A n \in pool : n.name \in names => TakesPods(n)
            /\ stay # {}
            /\ \A i \in {1, 2} : moved[i] <= Sum(LAMBDA n : free(n, i), stay)
=============================================================================
