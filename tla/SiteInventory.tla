--------------------------- MODULE SiteInventory -----------------------------
(***************************************************************************)
(* What one vcenter pass makes of a site: build_site of                    *)
(* clont/providers/onprem/inventory.py and usage_rows of metrics.py, as    *)
(* VsphereInventory.site of vsphere.py calls them.                         *)
(*                                                                         *)
(* A pass is six property calls.  What they answered is the record raw:    *)
(*   clusters     sequence of [id, name, parent, hosts], in answer order   *)
(*   hosts        host |-> [cores, ram, on, vms, ds, parent]               *)
(*   datastores   datastore |-> [name, cap, free, uncommitted, url]        *)
(*   vms          vm |-> [name, host, on, template, vcpu, ram, committed,  *)
(*                        uncommitted]                                     *)
(*   parent       folder or compute resource |-> what it sits in           *)
(*   datacenters  the datacenters                                          *)
(*   perf         vm |-> [cpu, ram], sequences of percentages              *)
(* Sizes are whole GiB; an object's name stands for its moref, except      *)
(* where two objects of one name matter (virtual machines, datastores).    *)
(***************************************************************************)
EXTENDS Integers, FiniteSets, Lists

CONSTANTS
    None,
    Refused,    \* a ConfigError
    MinSamples  \* metrics.MIN_SAMPLES

ASSUME SamplesAssumption == MinSamples \in Nat \ {0}

Sum(f(_), S) == SumFunctionOnSet([x \in S |-> f(x)], S)
AtLeast(a, b) == IF a > b THEN a ELSE b
AtMost(a, b) == IF a < b THEN a ELSE b

----------------------------------------------------------------------------
\* The datacenter a thing sits in: the first one up the chain of parents, which
\* may be cut short or run in a circle.
DatacenterOf(parent, datacenters, start) ==
    LET up[n \in 0 .. Cardinality(DOMAIN parent)] ==
            IF n = 0 THEN start
            ELSE IF up[n - 1] \in DOMAIN parent THEN parent[up[n - 1]] ELSE None
        hits == {n \in DOMAIN up : up[n] \in datacenters}
    IN  IF hits = {} THEN None ELSE up[Min(hits)]

\* A host or a datastore that will not say how large it is fails the whole pass.
Incomplete(raw) ==
    \/ \E h \in DOMAIN raw.hosts : raw.hosts[h].cores <= 0 \/ raw.hosts[h].ram <= 0
    \/ \E d \in DOMAIN raw.datastores : raw.datastores[d].cap <= 0

Host(raw, h) ==
    [uid |-> h, cores |-> raw.hosts[h].cores, ram |-> raw.hosts[h].ram, on |-> raw.hosts[h].on]

Datastore(raw, d) ==
    LET p == raw.datastores[d]
    IN  [uid |-> d, name |-> p.name, cap |-> p.cap, free |-> p.free, url |-> p.url,
         provisioned |-> p.cap - p.free + p.uncommitted]

Vm(raw, v) ==
    LET p == raw.vms[v]
    IN  [uid |-> v, name |-> p.name, host |-> p.host, on |-> p.on, template |-> p.template,
         vcpu |-> p.vcpu, ram |-> p.ram, disk |-> p.committed + p.uncommitted,
         committed |-> p.committed]

Running(vm) == vm.on /\ ~vm.template

\* The vm's row for allocate(): cpu and ram while it runs, the disk it occupies.
Provisioned(vm) ==
    [vcpu |-> IF Running(vm) THEN vm.vcpu ELSE 0,
     ram |-> IF Running(vm) THEN vm.ram ELSE 0,
     disk |-> vm.committed]

\* The three divisors of a pool.
Capacity(pool) ==
    [vcpu |-> Sum(LAMBDA h : h.cores, pool.hosts), ram |-> Sum(LAMBDA h : h.ram, pool.hosts),
     storage |-> Sum(LAMBDA d : d.cap, pool.datastores)]

\* What hangs off a set of hosts, once each: an answer may name objects that the
\* call for their own type did not return.
Group(raw, hosts) ==
    [ds |-> (UNION {raw.hosts[h].ds : h \in hosts}) \cap DOMAIN raw.datastores,
     vms |-> (UNION {raw.hosts[h].vms : h \in hosts}) \cap DOMAIN raw.vms]

\* Pool membership: the clusters, then every host of none as a pool of its own.
Members(raw) ==
    LET own(c) == c.hosts \cap DOMAIN raw.hosts
        claimed == UNION {own(c) : c \in ToSet(raw.clusters)}
    IN  [i \in DOMAIN raw.clusters |->
            [name |-> raw.clusters[i].name, kind |-> "cluster", hosts |-> own(raw.clusters[i]),
             dc |-> DatacenterOf(raw.parent, raw.datacenters, raw.clusters[i].parent)]]
        \o [i \in 1 .. Cardinality(DOMAIN raw.hosts \ claimed) |->
              LET h == SetToSeq(DOMAIN raw.hosts \ claimed)[i]
              IN  [name |-> h, kind |-> "host", hosts |-> {h},
                   dc |-> DatacenterOf(raw.parent, raw.datacenters, raw.hosts[h].parent)]]

PoolOf(raw, m) ==
    LET g == Group(raw, m.hosts)
    IN  [name |-> m.name, kind |-> m.kind, key |-> <<m.dc, m.name>>,
         hosts |-> {Host(raw, h) : h \in m.hosts},
         datastores |-> {Datastore(raw, d) : d \in g.ds}, vms |-> {Vm(raw, v) : v \in g.vms}]

\* Every vm some host lists; a vm on none of them is an orphan.
Placed(raw) == UNION {raw.hosts[h].vms : h \in DOMAIN raw.hosts}
Mounted(raw) == UNION {raw.hosts[h].ds : h \in DOMAIN raw.hosts}

\* Nearest-rank 95th percentile.
Percentile95(s) ==
    LET rank == AtLeast(1, AtMost(Len(s), (95 * Len(s) + 99) \div 100))
        upTo(x) == Cardinality({i \in DOMAIN s : s[i] <= x})
    IN  IF s = <<>> THEN 0 ELSE Min({x \in ToSet(s) : upTo(x) >= rank})

\* A vm's own overhead is charged to it: more than all of it is all of it.
ClampPct(pct) == AtMost(pct, 100)

\* Only a running vm is measured: the counters of a stopped one are all zeros.
Measurable(vm) == Running(vm)

\* vm |-> its p95 in units and in percent of its own size, for the vms with history
\* enough.  A sample of -1 is no sample.
UsageRows(raw, vms) ==
    LET series(v, c) == Those(IF v \in DOMAIN raw.perf THEN raw.perf[v][c] ELSE <<>>, Nat)
        pct(v, c) == ClampPct(Percentile95(series(v, c)))
        rows == {vm \in vms : /\ Measurable(vm)
                              /\ Len(series(vm.uid, "cpu")) >= MinSamples
                              /\ Len(series(vm.uid, "ram")) >= MinSamples}
    IN  [v \in {vm.uid : vm \in rows} |->
            LET vm == CHOOSE x \in rows : x.uid = v
            IN  [cpu |-> pct(v, "cpu"), mem |-> pct(v, "ram"),
                 vcpu |-> vm.vcpu * pct(v, "cpu"), ram |-> vm.ram * pct(v, "ram")]]

\* Every vm, placed or not.
SiteVms(site) == (UNION {p.vms : p \in ToSet(site.pools)}) \cup site.orphans

\* One pass: the pools with what belongs to them, and the leftovers of none.
BuildSite(raw) ==
    LET members == Members(raw)
        pools == [i \in DOMAIN members |-> PoolOf(raw, members[i])]
        orphans == {Vm(raw, v) : v \in DOMAIN raw.vms \ Placed(raw)}
    IN  IF Incomplete(raw) THEN Refused
        ELSE [pools |-> pools, orphans |-> orphans,
              unmounted |-> {Datastore(raw, d) : d \in DOMAIN raw.datastores \ Mounted(raw)},
              datastores |-> {Datastore(raw, d) : d \in DOMAIN raw.datastores},
              usage |-> UsageRows(raw, SiteVms([pools |-> pools, orphans |-> orphans]))]
=============================================================================
