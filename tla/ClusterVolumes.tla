--------------------------- MODULE ClusterVolumes ----------------------------
(***************************************************************************)
(* Whose blocks a kubernetes volume occupies, and which of them nobody     *)
(* uses: the volumes of clont/providers/k8s/pvs.py, place of               *)
(* clont/finops/k8s/datastores.py and reclaim of finops/k8s/volumes.py.    *)
(*                                                                         *)
(* A cluster read is [pods, pending, claims, pvs]: pods are [ns, node,     *)
(* claims], claims are [ref, gib, bound, age] with ref = <<ns, name>>, pvs *)
(* is a sequence of [name, gib, phase, claim, source, ds, url, age].  An   *)
(* age the api did not give, a claim or a datastore a volume does not name *)
(* is None.                                                                *)
(***************************************************************************)
EXTENDS SiteWaste

CONSTANTS
    MinGib,  \* k8s_claim_min_gib
    MinAge   \* k8s_claim_min_age_days; the saving worth a finding is the site's own

ASSUME ClaimTuningAssumption == {MinGib, MinAge} \subseteq Nat

Buckets == {"detached", "attached", "in_node", "unknown", "elsewhere"}

----------------------------------------------------------------------------
(* Faulty variants of the definitions below.                                *)

MountedScheduled(c) == UNION {{<<p.ns, n>> : n \in p.claims} : p \in c.pods}

----------------------------------------------------------------------------
\* Where the source of a volume puts its blocks (_place, _csi).
KindOf(source) ==
    CASE source \in {"vsphere-csi", "vsphere-csi-file", "vsphereVolume"} -> "datastore"
      [] source \in {"local-csi", "local", "hostPath"} -> "in_node"
      [] source \in {"nfs", "iscsi"} -> "elsewhere"
      [] OTHER -> "unknown"

\* A share is exported over the network: no vm ever has it attached.
Attachable(source) == source \notin {"vsphere-csi-file", "nfs"}

\* The array a volume names, by url first and then by a name only one array has.
FindDatastore(v, datastores) ==
    LET byUrl == {d \in datastores : v.url # None /\ d.url = v.url}
        byName == {d \in datastores : v.ds # None /\ d.name = v.ds}
    IN  IF byUrl # {} THEN byUrl ELSE IF Cardinality(byName) = 1 THEN byName ELSE {}

\* On this site's iron; a name that resolves to none of its arrays is another site's.
Here(v, datastores) ==
    /\ KindOf(v.source) = "datastore"
    /\ FindDatastore(v, datastores) # {} \/ (v.url = None /\ v.ds = None)

\* The claims that a scheduled pod holds: the node's vm has their disks attached.
AttachedClaims(c) == UNION {{<<p.ns, n>> : n \in p.claims} : p \in {q \in c.pods : q.node # None}}

\* The one tally a volume's GiB land in.  What is detached is in no vm's disk, and
\* is exactly what the site cannot account for.
BucketOf(v, datastores, attached) ==
    IF ~Here(v, datastores) THEN KindOf(v.source)
    ELSE IF Attachable(v.source) /\ v.claim \in attached THEN "attached" ELSE "detached"

\* GuestStorage: what a cluster owns up to, bucket by bucket.  An in-tree volume of
\* another site is elsewhere, whatever its kind.
Storage(c, datastores) ==
    LET bucket(v) == LET b == BucketOf(v, datastores, AttachedClaims(c))
                     IN  IF b = "datastore" THEN "elsewhere" ELSE b
    IN  [b \in Buckets |-> Sum(LAMBDA v : v.gib, {v \in ToSet(c.pvs) : bucket(v) = b})]

\* The pool that prices a claim: of the volume read last under its name, when it is
\* here, the pool that mounts its array when exactly one does; None otherwise.
PoolOfClaim(ref, c, site) ==
    LET named == {i \in DOMAIN c.pvs : ref # None /\ c.pvs[i].claim = ref}
        found == IF named # {} /\ Here(c.pvs[Max(named)], site.datastores)
                 THEN FindDatastore(c.pvs[Max(named)], site.datastores) ELSE {}
        pools == {i \in DOMAIN site.pools : found # {} /\ found \subseteq site.pools[i].datastores}
    IN  IF Cardinality(pools) = 1 THEN site.pools[CHOOSE i \in pools : TRUE].key ELSE None

\* The rate of a pool, in cents a GiB and month, or the mean of the cluster's pools.
MeanRate(rates) ==
    IF DOMAIN rates = {} THEN 0 ELSE Sum(LAMBDA p : rates[p], DOMAIN rates) \div Cardinality(DOMAIN rates)
RateOf(rates, pool) == IF pool \in DOMAIN rates THEN rates[pool] ELSE MeanRate(rates)

\* What keeps a claim and a namespace alive: a pod that waits counts.
MountedClaims(c) == UNION {{<<p.ns, n>> : n \in p.claims} : p \in c.pods \cup c.pending}
Alive(c) == {p.ns : p \in c.pods \cup c.pending}

OldEnough(age) == age = None \/ age >= MinAge

\* One namespace: a row per claim when something lives in it, and one row in their
\* place when nothing does.
Sweep(ns, old, rows, alive) ==
    IF old = {} THEN {}
    ELSE IF ns \in alive
         THEN {[kind |-> "unmounted-pvc", ref |-> c.ref, over |-> {c}] : c \in {x \in old : x.gib >= MinGib}}
         ELSE IF Sum(LAMBDA c : c.gib, old) >= MinGib
              THEN {[kind |-> "abandoned-namespace", ref |-> <<ns, None>>, over |-> old]} ELSE {}

\* The volumes whose claim is gone and whose blocks are not.
ReleasedRows(c) ==
    {[kind |-> "released-pv", ref |-> <<None, v.name>>, over |-> {[ref |-> v.claim, gib |-> v.gib]}] :
        v \in {x \in ToSet(c.pvs) : x.phase = "Released" /\ x.gib >= MinGib /\ OldEnough(x.age)}}

\* Every claim no pod mounts, and every volume no claim holds, priced at the rate of
\* the array each sits on; without any rate the finding stands and carries no money.
Reclaim(c, site, rates) ==
    LET idle(ns) == {x \in c.claims : x.ref[1] = ns /\ x.bound /\ x.ref \notin MountedClaims(c)}
        rows == (UNION {Sweep(ns, {x \in idle(ns) : OldEnough(x.age)}, idle(ns), Alive(c)) :
                           ns \in {x.ref[1] : x \in c.claims}})
                \cup ReleasedRows(c)
        worth(row) == Sum(LAMBDA x : x.gib * RateOf(rates, PoolOfClaim(x.ref, c, site)), row.over)
    IN  {row @@ [monthly |-> worth(row)] :
            row \in {r \in rows : worth(r) >= MinSavings \/ MeanRate(rates) <= 0}}
=============================================================================
