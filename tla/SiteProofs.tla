------------------------------ MODULE SiteProofs ------------------------------
(***************************************************************************)
(* The promises of an on-prem pass for any site, any accepted rate card    *)
(* and any number of changes.                                              *)
(***************************************************************************)
EXTENDS Site, DataInduction

----------------------------------------------------------------------------
(* Lists of the members of a set, and the pools of a site.                  *)

\* A list of a set's members has each of them and nothing else.
LEMMA SetIsListed ==
    ASSUME NEW S, IsFiniteSet(S)
    PROVE  /\ SetToSeq(S) \in Seq(S) /\ ToSet(SetToSeq(S)) = S
           /\ DOMAIN SetToSeq(S) = 1 .. Cardinality(S) /\ Cardinality(S) \in Nat
<1> DEFINE n == Cardinality(S)
           D == 1 .. n
<1>1. n \in Nat /\ ExistsBijection(D, S)
  BY FS_CardinalityType
<1>2. IsFiniteSet(D) /\ Cardinality(D) = n
  BY <1>1, FS_Interval
<1> HIDE DEF D
<1>3. PICK f \in [D -> S] : IsInjective(f)
  BY <1>1 DEF ExistsBijection, Bijection, Injection
<1>4. SetToSeq(S) \in [D -> S] /\ IsInjective(SetToSeq(S))
  BY <1>3 DEF SetToSeq, D
<1>5. PICK g \in Injection(D, S) : g = SetToSeq(S)
  BY <1>4 DEF Injection
<1>6. g \in Surjection(D, S)
  BY <1>2, FS_Injection
<1>7. \A y \in S : \E x \in D : g[x] = y
  BY <1>6 DEF Surjection
<1>8. g \in Seq(S) /\ DOMAIN g = D
  BY <1>1, <1>4, <1>5 DEF D
<1>9. ToSet(g) = S
  BY <1>4, <1>5, <1>7 DEF ToSet
<1> QED BY <1>1, <1>5, <1>8, <1>9 DEF D

\* What a finite set may be written down as one by one is finite too.
LEMMA ListedIsFinite ==
    ASSUME NEW V, NEW s \in Seq(V) PROVE IsFiniteSet(ToSet(s)) /\ IsFiniteSet(DOMAIN s)
<1>1. DOMAIN s = 1 .. Len(s) /\ Len(s) \in Nat
  OBVIOUS
<1>2. IsFiniteSet(DOMAIN s)
  BY <1>1, FS_Interval
<1>3. ToSet(s) = {s[i] : i \in DOMAIN s}
  BY DEF ToSet
<1> QED BY <1>2, <1>3, ImageIsFinite

\* The hosts that a cluster lists and that there are, and the hosts of no cluster.
OwnHosts(r, c) == c.hosts \cap DOMAIN r.hosts
Single(r) == DOMAIN r.hosts \ UNION {OwnHosts(r, c) : c \in ToSet(r.clusters)}
ClusterMembers(r) ==
    [i \in DOMAIN r.clusters |->
        [name |-> r.clusters[i].name, kind |-> "cluster", hosts |-> OwnHosts(r, r.clusters[i]),
         dc |-> DatacenterOf(r.parent, r.datacenters, r.clusters[i].parent)]]
HostMembers(r) ==
    [i \in 1 .. Cardinality(Single(r)) |->
        LET h == SetToSeq(Single(r))[i]
        IN  [name |-> h, kind |-> "host", hosts |-> {h},
             dc |-> DatacenterOf(r.parent, r.datacenters, r.hosts[h].parent)]]

LEMMA MembersInTwo == ASSUME NEW r PROVE Members(r) = ClusterMembers(r) \o HostMembers(r)
  BY DEF Members, ClusterMembers, HostMembers, Single, OwnHosts

\* Every pool is of hosts there are, and every host is in a pool.
LEMMA MembersAreHosts ==
    ASSUME NEW r, IsRaw(r)
    PROVE  /\ IsFiniteSet(DOMAIN Members(r))
           /\ DOMAIN Members(r) = 1 .. Len(Members(r)) /\ Len(Members(r)) \in Nat
           /\ \A i \in DOMAIN Members(r) : Members(r)[i].hosts \subseteq DOMAIN r.hosts
           /\ UNION {Members(r)[i].hosts : i \in DOMAIN Members(r)} = DOMAIN r.hosts
<1> DEFINE a == ClusterMembers(r)
           b == HostMembers(r)
           n == Len(r.clusters)
           m == Cardinality(Single(r))
           V == ToSet(a) \cup ToSet(b)
<1>1. n \in Nat /\ DOMAIN r.clusters = 1 .. n
  BY DEF IsRaw, IsList
<1>2. IsFiniteSet(Single(r))
  BY FS_Subset DEF IsRaw, Units, Single
<1>3. /\ m \in Nat /\ DOMAIN SetToSeq(Single(r)) = 1 .. m
      /\ ToSet(SetToSeq(Single(r))) = Single(r)
  BY <1>2, SetIsListed
<1>4. a \in Seq(V) /\ Len(a) = n
  <2>1. DOMAIN a = 1 .. n /\ \A i \in 1 .. n : a[i] \in V
    BY <1>1 DEF ClusterMembers, ToSet
  <2>2. a = [i \in 1 .. n |-> a[i]]
    BY <1>1 DEF ClusterMembers
  <2> HIDE DEF V, a, n
  <2>3. a \in [1 .. n -> V]
    BY <2>1, <2>2
  <2> QED BY <1>1, <2>3
<1>5. b \in Seq(V) /\ Len(b) = m
  <2>1. DOMAIN b = 1 .. m /\ \A i \in 1 .. m : b[i] \in V
    BY DEF HostMembers, ToSet
  <2>2. b = [i \in 1 .. m |-> b[i]]
    BY DEF HostMembers
  <2> HIDE DEF V, b, m
  <2>3. b \in [1 .. m -> V]
    BY <2>1, <2>2
  <2> QED BY <1>3, <2>3
<1>6. PICK ms \in Seq(V) : ms = Members(r) /\ ToSet(ms) = ToSet(a) \cup ToSet(b)
  <2> HIDE DEF V, a, b
  <2> QED BY <1>4, <1>5, EntriesOfConcat, MembersInTwo DEF a, b
<1>7. \A c \in ToSet(a) : c.hosts \subseteq DOMAIN r.hosts
  <2> SUFFICES ASSUME NEW i \in 1 .. n PROVE a[i].hosts \subseteq DOMAIN r.hosts
    BY <1>1 DEF ClusterMembers, ToSet
  <2>1. a[i].hosts = OwnHosts(r, r.clusters[i])
    BY <1>1 DEF ClusterMembers
  <2> QED BY <2>1 DEF OwnHosts
<1>8. \A c \in ToSet(b) : c.hosts \subseteq DOMAIN r.hosts
  <2> SUFFICES ASSUME NEW i \in 1 .. m PROVE b[i].hosts \subseteq DOMAIN r.hosts
    BY DEF HostMembers, ToSet
  <2>1. SetToSeq(Single(r))[i] \in Single(r)
    BY <1>3 DEF ToSet
  <2> QED BY <2>1 DEF HostMembers, Single
<1>9. ASSUME NEW h \in DOMAIN r.hosts PROVE \E c \in ToSet(a) \cup ToSet(b) : h \in c.hosts
  <2>1. CASE h \in Single(r)
    <3>1. PICK i \in 1 .. m : SetToSeq(Single(r))[i] = h
      BY <1>3, <2>1 DEF ToSet
    <3>2. h \in b[i].hosts /\ b[i] \in ToSet(b)
      BY <3>1 DEF HostMembers, ToSet
    <3> QED BY <3>2
  <2>2. CASE h \notin Single(r)
    <3>1. PICK c \in ToSet(r.clusters) : h \in OwnHosts(r, c)
      BY <2>2 DEF Single
    <3>2. PICK i \in DOMAIN r.clusters : r.clusters[i] = c
      BY DEF ToSet
    <3>3. h \in a[i].hosts /\ a[i] \in ToSet(a)
      BY <3>1, <3>2 DEF ClusterMembers, ToSet
    <3> QED BY <3>3
  <2> QED BY <2>1, <2>2
<1>10. DOMAIN ms = 1 .. Len(ms) /\ Len(ms) \in Nat /\ ToSet(ms) = {ms[i] : i \in DOMAIN ms}
  <2> HIDE DEF V, a, b
  <2> QED BY DEF ToSet
<1> HIDE DEF V, a, b
<1>11. IsFiniteSet(DOMAIN ms)
  BY <1>10, FS_Interval
<1>12. \A i \in DOMAIN ms : ms[i].hosts \subseteq DOMAIN r.hosts
  BY <1>6, <1>7, <1>8, <1>10
<1>13. UNION {ms[i].hosts : i \in DOMAIN ms} = DOMAIN r.hosts
  BY <1>6, <1>9, <1>10, <1>12
<1> QED BY <1>6, <1>10, <1>11, <1>12, <1>13

\* Nothing but the clusters, the hosts there are and what all sit in decides on the pools.
LEMMA MembersStay ==
    ASSUME NEW r, NEW s, s.clusters = r.clusters, s.parent = r.parent, s.datacenters = r.datacenters,
           DOMAIN s.hosts = DOMAIN r.hosts,
           \A h \in DOMAIN r.hosts : s.hosts[h].parent = r.hosts[h].parent,
           IsRaw(r)
    PROVE  Members(s) = Members(r)
<1>1. Single(s) = Single(r) /\ \A c : OwnHosts(s, c) = OwnHosts(r, c)
  BY DEF Single, OwnHosts
<1>2. ClusterMembers(s) = ClusterMembers(r)
  BY <1>1 DEF ClusterMembers
<1>3. IsFiniteSet(Single(r))
  BY FS_Subset DEF IsRaw, Units, Single
<1>4. \A i \in 1 .. Cardinality(Single(r)) : SetToSeq(Single(r))[i] \in DOMAIN r.hosts
  <2>1. /\ DOMAIN SetToSeq(Single(r)) = 1 .. Cardinality(Single(r))
        /\ ToSet(SetToSeq(Single(r))) = Single(r)
    BY <1>3, SetIsListed
  <2>2. PICK q : q = SetToSeq(Single(r))
    OBVIOUS
  <2>3. ToSet(q) = {q[i] : i \in DOMAIN q}
    BY DEF ToSet
  <2>4. \A i \in DOMAIN q : q[i] \in Single(r)
    BY <2>1, <2>2, <2>3
  <2>5. Single(r) \subseteq DOMAIN r.hosts
    BY DEF Single
  <2> QED BY <2>1, <2>2, <2>4, <2>5
<1>5. HostMembers(s) = HostMembers(r)
  BY <1>1, <1>4 DEF HostMembers
<1> QED BY <1>2, <1>5, MembersInTwo

----------------------------------------------------------------------------
(* A site that changes stays one.                                           *)

\* The same objects in the same places, each still of its kind and each vm where it is listed.
SameSite(r, s) ==
    /\ DOMAIN s = DOMAIN r
    /\ s.clusters = r.clusters /\ s.parent = r.parent /\ s.datacenters = r.datacenters
    /\ DOMAIN s.hosts = DOMAIN r.hosts /\ DOMAIN s.datastores = DOMAIN r.datastores
    /\ DOMAIN s.vms = DOMAIN r.vms /\ DOMAIN s.perf \subseteq DOMAIN r.perf
    /\ \A h \in DOMAIN r.hosts : IsHost(s.hosts[h]) /\ s.hosts[h].parent = r.hosts[h].parent
    /\ \A d \in DOMAIN r.datastores : IsArray(s.datastores[d])
    /\ \A v \in DOMAIN r.vms : IsVm(s.vms[v])
    /\ \A v \in DOMAIN s.perf : s.perf[v] = r.perf[v]
    /\ \A h \in DOMAIN r.hosts : \A v \in s.hosts[h].vms \cap DOMAIN r.vms : s.vms[v].host = h

LEMMA SameSiteIsRaw == ASSUME NEW r, IsRaw(r), NEW s, SameSite(r, s) PROVE IsRaw(s)
<1>1. Members(s) = Members(r)
  BY MembersStay DEF SameSite
<1>2. \A m : PoolOf(s, m).key = PoolOf(r, m).key
  BY DEF PoolOf
<1>3. \A i, j \in DOMAIN Members(s) : PoolOf(s, Members(s)[i]).key = PoolOf(s, Members(s)[j]).key => i = j
  BY <1>1, <1>2 DEF IsRaw
<1>4. Units(s.hosts, IsHost) /\ Units(s.datastores, IsArray) /\ Units(s.vms, IsVm)
  BY DEF IsRaw, SameSite, Units
<1>5. DOMAIN s.perf \subseteq DOMAIN s.vms /\ \A v \in DOMAIN s.perf : IsSeries(s.perf[v])
  BY DEF IsRaw, SameSite
<1>6. /\ DOMAIN s = {"clusters", "hosts", "datastores", "vms", "parent", "datacenters", "perf"}
      /\ IsList(s.clusters)
      /\ DOMAIN s.hosts \cap DOMAIN s.vms = {}
      /\ (DOMAIN s.hosts \cup DOMAIN s.vms) \cap DOMAIN s.datastores = {}
      /\ "leftovers" \notin DOMAIN s.hosts \cup DOMAIN s.vms \cup DOMAIN s.datastores
  BY DEF IsRaw, SameSite
<1>7. \A h \in DOMAIN s.hosts : \A v \in s.hosts[h].vms \cap DOMAIN s.vms : s.vms[v].host = h
  BY DEF SameSite
<1> QED BY <1>3, <1>4, <1>5, <1>6, <1>7 DEF IsRaw

\* What is there of a site.
LEMMA RawParts ==
    ASSUME NEW r, IsRaw(r)
    PROVE  /\ DOMAIN r = {"clusters", "hosts", "datastores", "vms", "parent", "datacenters", "perf"}
           /\ \A h \in DOMAIN r.hosts : IsHost(r.hosts[h])
           /\ \A d \in DOMAIN r.datastores : IsArray(r.datastores[d])
           /\ \A v \in DOMAIN r.vms : IsVm(r.vms[v])
           /\ \A h \in DOMAIN r.hosts : \A v \in r.hosts[h].vms \cap DOMAIN r.vms : r.vms[v].host = h
           /\ IsFiniteSet(DOMAIN r.hosts) /\ IsFiniteSet(DOMAIN r.datastores) /\ IsFiniteSet(DOMAIN r.vms)
  BY DEF IsRaw, Units

\* A vm's state and its place may change as long as no host that lists it is left.
LEMMA VmsMayChange ==
    ASSUME NEW r, IsRaw(r), NEW V, DOMAIN V = DOMAIN r.vms,
           \A v \in DOMAIN r.vms : IsVm(V[v]) /\ (V[v].host = r.vms[v].host \/ v \notin Placed(r))
    PROVE  IsRaw([r EXCEPT !.vms = V])
<1>1. PICK s : s = [r EXCEPT !.vms = V]
  OBVIOUS
<1>2. DOMAIN r = {"clusters", "hosts", "datastores", "vms", "parent", "datacenters", "perf"}
  BY RawParts
<1>3. /\ DOMAIN s = DOMAIN r /\ s.vms = V
      /\ s.clusters = r.clusters /\ s.parent = r.parent /\ s.datacenters = r.datacenters
      /\ s.hosts = r.hosts /\ s.datastores = r.datastores /\ s.perf = r.perf
  BY <1>1, <1>2
<1>4. \A h \in DOMAIN r.hosts : \A v \in r.hosts[h].vms \cap DOMAIN r.vms : V[v].host = h
  BY RawParts DEF Placed
<1>5. SameSite(r, s)
  BY <1>3, <1>4, RawParts DEF SameSite
<1> QED BY <1>1, <1>5, SameSiteIsRaw

\* A host's hardware and state may change, and its arrays.
LEMMA HostsMayChange ==
    ASSUME NEW r, IsRaw(r), NEW H, DOMAIN H = DOMAIN r.hosts,
           \A h \in DOMAIN r.hosts : /\ IsHost(H[h]) /\ H[h].parent = r.hosts[h].parent
                                     /\ H[h].vms \subseteq r.hosts[h].vms
    PROVE  IsRaw([r EXCEPT !.hosts = H])
<1>1. PICK s : s = [r EXCEPT !.hosts = H]
  OBVIOUS
<1>2. DOMAIN r = {"clusters", "hosts", "datastores", "vms", "parent", "datacenters", "perf"}
  BY RawParts
<1>3. /\ DOMAIN s = DOMAIN r /\ s.hosts = H
      /\ s.clusters = r.clusters /\ s.parent = r.parent /\ s.datacenters = r.datacenters
      /\ s.vms = r.vms /\ s.datastores = r.datastores /\ s.perf = r.perf
  BY <1>1, <1>2
<1>4. \A h \in DOMAIN r.hosts : \A v \in H[h].vms \cap DOMAIN r.vms : r.vms[v].host = h
  BY RawParts
<1>5. SameSite(r, s)
  BY <1>3, <1>4, RawParts DEF SameSite
<1> QED BY <1>1, <1>5, SameSiteIsRaw

\* One vm's switch, one host's.
LEMMA SwitchedVm == ASSUME NEW v, IsVm(v), NEW b \in BOOLEAN PROVE IsVm([v EXCEPT !.on = b]) /\ [v EXCEPT !.on = b].host = v.host
<1>1. PICK w : w = [v EXCEPT !.on = b]
  OBVIOUS
<1>2. DOMAIN v = {"name", "host", "on", "template", "vcpu", "ram", "committed", "uncommitted"}
  BY DEF IsVm, Unit
<1>3. /\ DOMAIN w = DOMAIN v /\ w.on = b /\ w.template = v.template /\ w.host = v.host
      /\ w.vcpu = v.vcpu /\ w.ram = v.ram /\ w.committed = v.committed /\ w.uncommitted = v.uncommitted
  BY <1>1, <1>2
<1>4. Unit(w, DOMAIN v, {"vcpu", "ram", "committed", "uncommitted"})
  BY <1>3 DEF IsVm, Unit
<1>5. {w.on, w.template} \subseteq BOOLEAN
  BY <1>3 DEF IsVm
<1> QED BY <1>1, <1>2, <1>3, <1>4, <1>5 DEF IsVm

LEMMA SwitchedHost ==
    ASSUME NEW h, IsHost(h), NEW b \in BOOLEAN
    PROVE  LET k == [h EXCEPT !.on = b] IN IsHost(k) /\ k.parent = h.parent /\ k.vms = h.vms
<1>1. PICK k : k = [h EXCEPT !.on = b]
  OBVIOUS
<1>2. DOMAIN h = {"cores", "ram", "on", "vms", "ds", "parent"}
  BY DEF IsHost, Unit
<1>3. /\ DOMAIN k = DOMAIN h /\ k.on = b /\ k.cores = h.cores /\ k.ram = h.ram
      /\ k.parent = h.parent /\ k.vms = h.vms
  BY <1>1, <1>2
<1>4. Unit(k, DOMAIN h, {"cores", "ram"})
  BY <1>3 DEF IsHost, Unit
<1> QED BY <1>1, <1>2, <1>3, <1>4 DEF IsHost

\* One vm, or one host, is replaced.
LEMMA OneVmMayChange ==
    ASSUME NEW r, IsRaw(r), NEW v \in DOMAIN r.vms, NEW w, IsVm(w),
           w.host = r.vms[v].host \/ v \notin Placed(r)
    PROVE  IsRaw([r EXCEPT !.vms = [r.vms EXCEPT ![v] = w]])
<1>1. PICK V : V = [r.vms EXCEPT ![v] = w]
  OBVIOUS
<1>2. DOMAIN V = DOMAIN r.vms /\ V[v] = w /\ \A x \in DOMAIN r.vms : x # v => V[x] = r.vms[x]
  BY <1>1
<1>3. \A x \in DOMAIN r.vms : IsVm(V[x]) /\ (V[x].host = r.vms[x].host \/ x \notin Placed(r))
  BY <1>2, RawParts
<1> QED BY <1>1, <1>2, <1>3, VmsMayChange

LEMMA OneHostMayChange ==
    ASSUME NEW r, IsRaw(r), NEW h \in DOMAIN r.hosts, NEW k, IsHost(k), k.parent = r.hosts[h].parent,
           k.vms \subseteq r.hosts[h].vms
    PROVE  IsRaw([r EXCEPT !.hosts = [r.hosts EXCEPT ![h] = k]])
<1>1. PICK H : H = [r.hosts EXCEPT ![h] = k]
  OBVIOUS
<1>2. DOMAIN H = DOMAIN r.hosts /\ H[h] = k /\ \A x \in DOMAIN r.hosts : x # h => H[x] = r.hosts[x]
  BY <1>1
<1>3. \A x \in DOMAIN r.hosts : /\ IsHost(H[x]) /\ H[x].parent = r.hosts[x].parent
                                /\ H[x].vms \subseteq r.hosts[x].vms
  BY <1>2, RawParts
<1> QED BY <1>1, <1>2, <1>3, HostsMayChange

LEMMA PowerVmIsRaw ==
    ASSUME NEW r, IsRaw(r), NEW v \in DOMAIN r.vms
    PROVE  IsRaw([r EXCEPT !.vms[v].on = ~@])
<1>1. PICK w : w = [r.vms[v] EXCEPT !.on = ~r.vms[v].on]
  OBVIOUS
<1>2. IsVm(r.vms[v])
  BY RawParts
<1>3. IsVm(w) /\ w.host = r.vms[v].host
  BY <1>1, <1>2, SwitchedVm
<1>4. IsRaw([r EXCEPT !.vms = [r.vms EXCEPT ![v] = w]])
  BY <1>3, OneVmMayChange
<1> QED BY <1>1, <1>4

Switched(v, b) == [v EXCEPT !.on = b]

LEMMA PowerHostIsRaw ==
    ASSUME NEW r, IsRaw(r), NEW h \in DOMAIN r.hosts, NEW V, DOMAIN V = DOMAIN r.vms,
           \A v \in DOMAIN r.vms : \E b \in BOOLEAN : V[v] = Switched(r.vms[v], b)
    PROVE  IsRaw([r EXCEPT !.hosts[h].on = ~@, !.vms = V])
<1>1. PICK k : k = [r.hosts[h] EXCEPT !.on = ~r.hosts[h].on]
  OBVIOUS
<1>2. PICK s : s = [r EXCEPT !.hosts = [r.hosts EXCEPT ![h] = k]]
  OBVIOUS
<1>3. IsHost(r.hosts[h])
  BY RawParts
<1>4. IsHost(k) /\ k.parent = r.hosts[h].parent /\ k.vms = r.hosts[h].vms
  BY <1>1, <1>3, SwitchedHost
<1>5. IsRaw(s)
  BY <1>2, <1>4, OneHostMayChange
<1>6. s.vms = r.vms
  BY <1>2, RawParts
<1>7. ASSUME NEW v \in DOMAIN r.vms PROVE IsVm(V[v]) /\ V[v].host = r.vms[v].host
  <2>1. IsVm(r.vms[v])
    BY RawParts
  <2>2. PICK b \in BOOLEAN : V[v] = Switched(r.vms[v], b)
    OBVIOUS
  <2> QED BY <2>1, <2>2, SwitchedVm DEF Switched
<1>8. IsRaw([s EXCEPT !.vms = V])
  BY <1>5, <1>6, <1>7, VmsMayChange
<1>9. [s EXCEPT !.vms = V] = [r EXCEPT !.hosts[h].on = ~@, !.vms = V]
  BY <1>1, <1>2
<1> QED BY <1>8, <1>9

LEMMA OrphanIsRaw ==
    ASSUME NEW r, IsRaw(r), NEW h \in DOMAIN r.hosts, NEW v \in r.hosts[h].vms \cap DOMAIN r.vms
    PROVE  IsRaw([r EXCEPT !.hosts[h].vms = @ \ {v}, !.vms[v].host = None, !.vms[v].on = FALSE])
<1>1. PICK k : k = [r.hosts[h] EXCEPT !.vms = r.hosts[h].vms \ {v}]
  OBVIOUS
<1>2. PICK s : s = [r EXCEPT !.hosts = [r.hosts EXCEPT ![h] = k]]
  OBVIOUS
<1>3. IsHost(r.hosts[h]) /\ IsVm(r.vms[v])
  BY RawParts
<1>4. IsHost(k) /\ k.parent = r.hosts[h].parent /\ k.vms = r.hosts[h].vms \ {v}
  <2>1. DOMAIN r.hosts[h] = {"cores", "ram", "on", "vms", "ds", "parent"}
    BY <1>3 DEF IsHost, Unit
  <2>2. /\ DOMAIN k = DOMAIN r.hosts[h] /\ k.on = r.hosts[h].on /\ k.cores = r.hosts[h].cores
        /\ k.ram = r.hosts[h].ram /\ k.parent = r.hosts[h].parent /\ k.vms = r.hosts[h].vms \ {v}
    BY <1>1, <2>1
  <2> QED BY <1>3, <2>1, <2>2 DEF IsHost, Unit
<1>5. IsRaw(s)
  BY <1>2, <1>4, OneHostMayChange
<1>6. /\ s.vms = r.vms /\ DOMAIN s.hosts = DOMAIN r.hosts /\ s.hosts[h] = k
      /\ \A x \in DOMAIN r.hosts : x # h => s.hosts[x] = r.hosts[x]
  BY <1>2, RawParts
<1>7. v \notin Placed(s)
  <2> SUFFICES ASSUME NEW x \in DOMAIN r.hosts, v \in s.hosts[x].vms PROVE FALSE
    BY <1>6 DEF Placed
  <2>1. x # h
    BY <1>4, <1>6
  <2>2. r.vms[v].host = x /\ r.vms[v].host = h
    BY <1>6, <2>1, RawParts
  <2> QED BY <2>1, <2>2
<1>8. PICK w : w = [r.vms[v] EXCEPT !.host = None, !.on = FALSE]
  OBVIOUS
<1>9. IsVm(w)
  <2>1. DOMAIN r.vms[v] = {"name", "host", "on", "template", "vcpu", "ram", "committed", "uncommitted"}
    BY <1>3 DEF IsVm, Unit
  <2>2. /\ DOMAIN w = DOMAIN r.vms[v] /\ w.on = FALSE /\ w.template = r.vms[v].template
        /\ w.vcpu = r.vms[v].vcpu /\ w.ram = r.vms[v].ram /\ w.committed = r.vms[v].committed
        /\ w.uncommitted = r.vms[v].uncommitted
    BY <1>8, <2>1
  <2>3. Unit(w, DOMAIN r.vms[v], {"vcpu", "ram", "committed", "uncommitted"})
    BY <1>3, <2>2 DEF IsVm, Unit
  <2>4. {w.on, w.template} \subseteq BOOLEAN
    BY <1>3, <2>2 DEF IsVm
  <2> QED BY <2>1, <2>3, <2>4 DEF IsVm
<1>10. IsRaw([s EXCEPT !.vms = [s.vms EXCEPT ![v] = w]])
  BY <1>5, <1>6, <1>7, <1>9, OneVmMayChange
<1>11. [s EXCEPT !.vms = [s.vms EXCEPT ![v] = w]] =
           [r EXCEPT !.hosts[h].vms = @ \ {v}, !.vms[v].host = None, !.vms[v].on = FALSE]
  BY <1>1, <1>2, <1>6, <1>8
<1> QED BY <1>10, <1>11

LEMMA MountIsRaw ==
    ASSUME NEW r, IsRaw(r), NEW h \in DOMAIN r.hosts, NEW D
    PROVE  IsRaw([r EXCEPT !.hosts[h].ds = D])
<1>1. PICK k : k = [r.hosts[h] EXCEPT !.ds = D]
  OBVIOUS
<1>2. IsHost(r.hosts[h])
  BY RawParts
<1>3. DOMAIN r.hosts[h] = {"cores", "ram", "on", "vms", "ds", "parent"}
  BY <1>2 DEF IsHost, Unit
<1>4. /\ DOMAIN k = DOMAIN r.hosts[h] /\ k.on = r.hosts[h].on /\ k.cores = r.hosts[h].cores
      /\ k.ram = r.hosts[h].ram /\ k.parent = r.hosts[h].parent /\ k.vms = r.hosts[h].vms
  BY <1>1, <1>3
<1>5. IsHost(k)
  BY <1>2, <1>4 DEF IsHost, Unit
<1>6. IsRaw([r EXCEPT !.hosts = [r.hosts EXCEPT ![h] = k]])
  BY <1>4, <1>5, OneHostMayChange
<1> QED BY <1>1, <1>6

LEMMA DisconnectIsRaw ==
    ASSUME NEW r, IsRaw(r), NEW h \in DOMAIN r.hosts
    PROVE  IsRaw([r EXCEPT !.hosts[h].cores = 0])
<1>1. PICK k : k = [r.hosts[h] EXCEPT !.cores = 0]
  OBVIOUS
<1>2. IsHost(r.hosts[h])
  BY RawParts
<1>3. DOMAIN r.hosts[h] = {"cores", "ram", "on", "vms", "ds", "parent"}
  BY <1>2 DEF IsHost, Unit
<1>4. /\ DOMAIN k = DOMAIN r.hosts[h] /\ k.on = r.hosts[h].on /\ k.cores = 0
      /\ k.ram = r.hosts[h].ram /\ k.parent = r.hosts[h].parent /\ k.vms = r.hosts[h].vms
  BY <1>1, <1>3
<1>5. IsHost(k)
  BY <1>2, <1>4 DEF IsHost, Unit
<1>6. IsRaw([r EXCEPT !.hosts = [r.hosts EXCEPT ![h] = k]])
  BY <1>4, <1>5, OneHostMayChange
<1> QED BY <1>1, <1>6

LEMMA FillIsRaw ==
    ASSUME NEW r, IsRaw(r), NEW d \in DOMAIN r.datastores
    PROVE  IsRaw([r EXCEPT !.datastores[d].free = 0])
<1>1. PICK s, a : s = [r EXCEPT !.datastores[d].free = 0] /\ a = [r.datastores[d] EXCEPT !.free = 0]
  OBVIOUS
<1>2. /\ DOMAIN s = DOMAIN r /\ s.datastores = [r.datastores EXCEPT ![d] = a]
      /\ s.clusters = r.clusters /\ s.parent = r.parent /\ s.datacenters = r.datacenters
      /\ s.hosts = r.hosts /\ s.vms = r.vms /\ s.perf = r.perf
  BY <1>1, RawParts
<1>3. IsArray(a)
  <2>1. IsArray(r.datastores[d])
    BY RawParts
  <2>2. DOMAIN r.datastores[d] = {"name", "cap", "free", "uncommitted", "url"}
    BY <2>1 DEF IsArray, Unit
  <2>3. /\ DOMAIN a = DOMAIN r.datastores[d] /\ a.free = 0 /\ a.cap = r.datastores[d].cap
        /\ a.uncommitted = r.datastores[d].uncommitted
    BY <1>1, <2>2
  <2> QED BY <2>1, <2>3 DEF IsArray, Unit
<1>4. /\ DOMAIN s.datastores = DOMAIN r.datastores
      /\ \A x \in DOMAIN r.datastores : IsArray(s.datastores[x])
  BY <1>2, <1>3, RawParts
<1>5. SameSite(r, s)
  BY <1>2, <1>4, RawParts DEF SameSite
<1> QED BY <1>1, <1>5, SameSiteIsRaw

LEMMA ForgetIsRaw ==
    ASSUME NEW r, IsRaw(r), NEW V
    PROVE  IsRaw([r EXCEPT !.perf = Restrict(@, DOMAIN @ \ V)])
<1>1. PICK s : s = [r EXCEPT !.perf = Restrict(r.perf, DOMAIN r.perf \ V)]
  OBVIOUS
<1>2. /\ DOMAIN s = DOMAIN r
      /\ s.clusters = r.clusters /\ s.parent = r.parent /\ s.datacenters = r.datacenters
      /\ s.hosts = r.hosts /\ s.vms = r.vms /\ s.datastores = r.datastores
  BY <1>1, RawParts
<1>3. DOMAIN s.perf \subseteq DOMAIN r.perf /\ \A v \in DOMAIN s.perf : s.perf[v] = r.perf[v]
  <2>1. s.perf = Restrict(r.perf, DOMAIN r.perf \ V)
    BY <1>1, RawParts
  <2> QED BY <2>1 DEF Restrict
<1>4. SameSite(r, s)
  BY <1>2, <1>3, RawParts DEF SameSite
<1> QED BY <1>1, <1>4, SameSiteIsRaw

----------------------------------------------------------------------------
(* What holds throughout.                                                   *)

Bounds == moves \in 0 .. MaxMoves

\* A report is of the site as it is.
Current == report # None => \E guests \in Guests : report = ReportOn(guests)

IInv == Bounds /\ IsRaw(raw) /\ config \in Configs /\ ConfigValid(config) /\ Current

\* A change is of the site alone, and what was reported of it is gone.
ChangeStep ==
    /\ moves < MaxMoves /\ moves' = moves + 1
    /\ report' = None /\ config' = config /\ IsRaw(raw')

LEMMA ChangesAreRaw ==
    ASSUME IsRaw(raw), PowerVm \/ PowerHost \/ Orphan \/ Mount \/ Fill \/ Disconnect \/ Forget
    PROVE  ChangeStep
<1>1. ASSUME NEW new, Change(new), IsRaw(new) PROVE ChangeStep
  BY <1>1 DEF Change, ChangeStep
<1>2. CASE PowerVm
  <2>1. PICK v \in DOMAIN raw.vms : Change([raw EXCEPT !.vms[v].on = ~@])
    BY <1>2 DEF PowerVm
  <2> QED BY <1>1, <2>1, PowerVmIsRaw
<1>3. CASE PowerHost
  <2>1. PICK h \in DOMAIN raw.hosts :
            LET on(v) == IF v \in raw.hosts[h].vms THEN ~raw.hosts[h].on /\ ~raw.vms[v].on ELSE raw.vms[v].on
            IN  Change([raw EXCEPT !.hosts[h].on = ~@,
                                   !.vms = [v \in DOMAIN raw.vms |-> [raw.vms[v] EXCEPT !.on = on(v)]]])
    BY <1>3 DEF PowerHost
  <2>2. PICK V : V = [v \in DOMAIN raw.vms |->
                         [raw.vms[v] EXCEPT !.on = IF v \in raw.hosts[h].vms
                                                   THEN ~raw.hosts[h].on /\ ~raw.vms[v].on ELSE raw.vms[v].on]]
    OBVIOUS
  <2>3. ASSUME NEW v \in DOMAIN raw.vms PROVE \E b \in BOOLEAN : V[v] = Switched(raw.vms[v], b)
    <3>1. PICK b : b = IF v \in raw.hosts[h].vms THEN ~raw.hosts[h].on /\ ~raw.vms[v].on ELSE raw.vms[v].on
      OBVIOUS
    <3>2. b \in BOOLEAN
      BY <3>1, RawParts DEF IsVm
    <3> QED BY <2>2, <3>1, <3>2 DEF Switched
  <2>4. Change([raw EXCEPT !.hosts[h].on = ~@, !.vms = V])
    BY <2>1, <2>2
  <2>5. IsRaw([raw EXCEPT !.hosts[h].on = ~@, !.vms = V])
    <3>1. DOMAIN V = DOMAIN raw.vms
      BY <2>2
    <3>2. \A v \in DOMAIN raw.vms : \E b \in BOOLEAN : V[v] = Switched(raw.vms[v], b)
      BY <2>3
    <3> QED BY <3>1, <3>2, PowerHostIsRaw
  <2> QED BY <1>1, <2>4, <2>5
<1>4. CASE Orphan
  <2>1. PICK h \in DOMAIN raw.hosts : \E v \in raw.hosts[h].vms \cap DOMAIN raw.vms :
            Change([raw EXCEPT !.hosts[h].vms = @ \ {v}, !.vms[v].host = None, !.vms[v].on = FALSE])
    BY <1>4 DEF Orphan
  <2>2. PICK v \in raw.hosts[h].vms \cap DOMAIN raw.vms :
            Change([raw EXCEPT !.hosts[h].vms = @ \ {v}, !.vms[v].host = None, !.vms[v].on = FALSE])
    BY <2>1
  <2> QED BY <1>1, <2>2, OrphanIsRaw
<1>5. CASE Mount
  <2>1. PICK h \in DOMAIN raw.hosts : \E d \in DOMAIN raw.datastores :
            Change([raw EXCEPT !.hosts[h].ds = SymDiff(@, {d})])
    BY <1>5 DEF Mount
  <2>2. PICK d : Change([raw EXCEPT !.hosts[h].ds = SymDiff(@, {d})])
    BY <2>1
  <2>3. PICK D : D = SymDiff(raw.hosts[h].ds, {d})
    OBVIOUS
  <2>4. Change([raw EXCEPT !.hosts[h].ds = D])
    BY <2>2, <2>3
  <2> QED BY <1>1, <2>4, MountIsRaw
<1>6. CASE Fill
  <2>1. PICK d \in DOMAIN raw.datastores : Change([raw EXCEPT !.datastores[d].free = 0])
    BY <1>6 DEF Fill
  <2> QED BY <1>1, <2>1, FillIsRaw
<1>7. CASE Disconnect
  <2>1. PICK h \in DOMAIN raw.hosts : Change([raw EXCEPT !.hosts[h].cores = 0])
    BY <1>7 DEF Disconnect
  <2> QED BY <1>1, <2>1, DisconnectIsRaw
<1>8. CASE Forget
  <2>1. PICK V : Change([raw EXCEPT !.perf = Restrict(@, DOMAIN @ \ V)])
    BY <1>8 DEF Forget
  <2> QED BY <1>1, <2>1, ForgetIsRaw
<1> QED BY <1>2, <1>3, <1>4, <1>5, <1>6, <1>7, <1>8

LEMMA InitIInv == ASSUME Init PROVE IInv
  BY SitesAssumption, MovesAssumption DEF Init, IInv, Bounds, Current

LEMMA StepIInv == ASSUME IInv, [Next]_vars PROVE IInv'
<1>1. CASE PowerVm \/ PowerHost \/ Orphan \/ Mount \/ Fill \/ Disconnect \/ Forget
  <2>1. ChangeStep
    BY <1>1, ChangesAreRaw DEF IInv
  <2>2. Bounds'
    BY <2>1, MovesAssumption DEF ChangeStep, IInv, Bounds
  <2>3. Current' /\ (config \in Configs /\ ConfigValid(config))'
    BY <2>1 DEF ChangeStep, IInv, Current
  <2> QED BY <2>1, <2>2, <2>3 DEF ChangeStep, IInv
<1>2. CASE Pass
  <2>1. raw' = raw /\ config' = config /\ moves' = moves
    BY <1>2 DEF Pass
  <2>2. PICK guests \in Guests : report' = ReportOn(guests)
    BY <1>2 DEF Pass
  <2>3. ReportOn(guests)' = ReportOn(guests)
    BY <2>1 DEF ReportOn
  <2>4. Current'
    BY <2>2, <2>3 DEF Current
  <2> QED BY <2>1, <2>4 DEF IInv, Bounds
<1>3. CASE UNCHANGED vars
  <2>1. raw' = raw /\ config' = config /\ moves' = moves /\ report' = report
    BY <1>3 DEF vars
  <2>2. \A guests : ReportOn(guests)' = ReportOn(guests)
    BY <2>1 DEF ReportOn
  <2> QED BY <2>1, <2>2 DEF IInv, Bounds, Current
<1> QED BY <1>1, <1>2, <1>3 DEF Next

\* Whatever happens to the site, it stays one whose vms are where they are listed, and a
\* report that stands is what the pass makes of the site as it is (vsphere.py site).
THEOREM AlwaysIInv == Spec => []IInv
  BY InitIInv, StepIInv, PTL DEF Spec

----------------------------------------------------------------------------
(* What a pass sees of a site.                                              *)

AllVms(r) == {Vm(r, v) : v \in DOMAIN r.vms}

\* A pool of a pass: objects of whole sizes, one for each id.
Sizes(x, keys) == \A k \in keys : x[k] \in Nat
IsPool(p) ==
    /\ IsFiniteSet(p.hosts) /\ IsFiniteSet(p.vms) /\ IsFiniteSet(p.datastores)
    /\ \A h \in p.hosts : h.cores \in Nat /\ h.ram \in Nat /\ h.on \in BOOLEAN
    /\ \A d \in p.datastores : d.cap \in Nat /\ d.provisioned \in Int
    /\ \A v \in p.vms : /\ v.vcpu \in Nat /\ v.ram \in Nat /\ v.committed \in Nat
                        /\ v.on \in BOOLEAN /\ v.template \in BOOLEAN
    /\ \A v, w \in p.vms : v.uid = w.uid => v = w

\* A pass that was not refused: the pools of its members, and what is on or in none of them.
SeenSite(r, s) ==
    /\ DOMAIN s.pools = DOMAIN Members(r)
    /\ \A i \in DOMAIN s.pools : s.pools[i] = PoolOf(r, Members(r)[i])
    /\ s.orphans = {Vm(r, v) : v \in DOMAIN r.vms \ Placed(r)}
    /\ s.unmounted = {Datastore(r, d) : d \in DOMAIN r.datastores \ Mounted(r)}
    /\ s.datastores = {Datastore(r, d) : d \in DOMAIN r.datastores}
    /\ s.usage = UsageRows(r, AllVms(r))
    /\ SiteVms(s) = AllVms(r)

LEMMA VmFields ==
    ASSUME NEW r, IsRaw(r), NEW v \in DOMAIN r.vms
    PROVE  /\ Vm(r, v).uid = v /\ Vm(r, v).host = r.vms[v].host
           /\ Vm(r, v).on = r.vms[v].on /\ Vm(r, v).template = r.vms[v].template
           /\ Vm(r, v).on \in BOOLEAN /\ Vm(r, v).template \in BOOLEAN
           /\ Vm(r, v).vcpu \in Nat /\ Vm(r, v).ram \in Nat /\ Vm(r, v).committed \in Nat
<1>1. IsVm(r.vms[v])
  BY RawParts
<1>2. PICK p : p = r.vms[v]
  OBVIOUS
<1>3. p.vcpu \in Nat /\ p.ram \in Nat /\ p.committed \in Nat /\ p.on \in BOOLEAN /\ p.template \in BOOLEAN
  BY <1>1, <1>2 DEF IsVm, Unit
<1> QED BY <1>2, <1>3 DEF Vm

LEMMA GroupFields ==
    ASSUME NEW r, NEW H
    PROVE  /\ Group(r, H).vms \subseteq DOMAIN r.vms /\ Group(r, H).ds \subseteq DOMAIN r.datastores
           /\ \A v \in DOMAIN r.vms : v \in Group(r, H).vms <=> \E h \in H : v \in r.hosts[h].vms
           /\ \A d \in DOMAIN r.datastores : d \in Group(r, H).ds <=> \E h \in H : d \in r.hosts[h].ds
  BY DEF Group

LEMMA PoolFields ==
    ASSUME NEW r, NEW m
    PROVE  LET p == PoolOf(r, m) IN
           /\ p.key = <<m.dc, m.name>>
           /\ p.hosts = {Host(r, h) : h \in m.hosts}
           /\ p.vms = {Vm(r, v) : v \in Group(r, m.hosts).vms}
           /\ p.datastores = {Datastore(r, d) : d \in Group(r, m.hosts).ds}
  BY DEF PoolOf

LEMMA PoolsAreSound ==
    ASSUME NEW r, IsRaw(r), NEW i \in DOMAIN Members(r) PROVE IsPool(PoolOf(r, Members(r)[i]))
<1>1. PICK m, p : m = Members(r)[i] /\ p = PoolOf(r, m)
  OBVIOUS
<1>2. m.hosts \subseteq DOMAIN r.hosts
  BY <1>1, MembersAreHosts
<1>3. PICK V \in SUBSET DOMAIN r.vms, D \in SUBSET DOMAIN r.datastores :
          V = Group(r, m.hosts).vms /\ D = Group(r, m.hosts).ds
  BY GroupFields
<1>4. /\ p.hosts = {Host(r, h) : h \in m.hosts}
      /\ p.vms = {Vm(r, v) : v \in V}
      /\ p.datastores = {Datastore(r, d) : d \in D}
  BY <1>1, <1>3, PoolFields
<1>5. PICK hs, vs, ds : /\ hs = [h \in m.hosts |-> Host(r, h)] /\ vs = [v \in V |-> Vm(r, v)]
                        /\ ds = [d \in D |-> Datastore(r, d)]
  OBVIOUS
<1>6. /\ p.hosts = {hs[h] : h \in m.hosts} /\ p.vms = {vs[v] : v \in V} /\ p.datastores = {ds[d] : d \in D}
  BY <1>4, <1>5
<1>7. IsFiniteSet(m.hosts) /\ IsFiniteSet(V) /\ IsFiniteSet(D)
  BY <1>2, <1>3, FS_Subset, RawParts
<1>8. IsFiniteSet(p.hosts) /\ IsFiniteSet(p.vms) /\ IsFiniteSet(p.datastores)
  BY <1>6, <1>7, ImageIsFinite
<1>9. \A h \in p.hosts : h.cores \in Nat /\ h.ram \in Nat /\ h.on \in BOOLEAN
  <2> SUFFICES ASSUME NEW h \in m.hosts
               PROVE  Host(r, h).cores \in Nat /\ Host(r, h).ram \in Nat /\ Host(r, h).on \in BOOLEAN
    BY <1>4
  <2>1. IsHost(r.hosts[h])
    BY <1>2, RawParts
  <2> QED BY <2>1 DEF IsHost, Unit, Host
<1>10. \A d \in p.datastores : d.cap \in Nat /\ d.provisioned \in Int
  <2> SUFFICES ASSUME NEW d \in D PROVE Datastore(r, d).cap \in Nat /\ Datastore(r, d).provisioned \in Int
    BY <1>4
  <2>1. IsArray(r.datastores[d])
    BY <1>3, RawParts
  <2>2. PICK a : a = r.datastores[d]
    OBVIOUS
  <2>3. a.cap \in Nat /\ a.free \in Nat /\ a.uncommitted \in Nat
    BY <2>1, <2>2 DEF IsArray, Unit
  <2> QED BY <2>2, <2>3 DEF Datastore
<1>11. \A v \in p.vms : \E x \in DOMAIN r.vms : v = Vm(r, x)
  BY <1>3, <1>4
<1>12. \A v \in p.vms : /\ v.vcpu \in Nat /\ v.ram \in Nat /\ v.committed \in Nat
                        /\ v.on \in BOOLEAN /\ v.template \in BOOLEAN
  BY <1>11, VmFields
<1>13. \A v, w \in p.vms : v.uid = w.uid => v = w
  BY <1>11, VmFields
<1> QED BY <1>1, <1>8, <1>9, <1>10, <1>12, <1>13 DEF IsPool

LEMMA SiteIsSeen ==
    ASSUME NEW r, IsRaw(r), BuildSite(r) # Refused
    PROVE  SeenSite(r, BuildSite(r)) /\ ~Incomplete(r)
<1>1. PICK pools, orphans :
          /\ pools = [i \in DOMAIN Members(r) |-> PoolOf(r, Members(r)[i])]
          /\ orphans = {Vm(r, v) : v \in DOMAIN r.vms \ Placed(r)}
  OBVIOUS
<1>2. PICK U : U = SiteVms([pools |-> pools, orphans |-> orphans])
  OBVIOUS
<1>3. PICK s : s = BuildSite(r)
  OBVIOUS
<1>4. ~Incomplete(r)
  BY DEF BuildSite
<1>5. s = [pools |-> pools, orphans |-> orphans,
           unmounted |-> {Datastore(r, d) : d \in DOMAIN r.datastores \ Mounted(r)},
           datastores |-> {Datastore(r, d) : d \in DOMAIN r.datastores},
           usage |-> UsageRows(r, U)]
  BY <1>1, <1>2, <1>3, <1>4 DEF BuildSite
<1>6. SiteVms(s) = U
  BY <1>2, <1>5 DEF SiteVms
<1>7. ToSet(s.pools) = {PoolOf(r, Members(r)[i]) : i \in DOMAIN Members(r)}
  BY <1>1, <1>5 DEF ToSet
<1>8. AllVms(r) \subseteq SiteVms(s)
  <2> SUFFICES ASSUME NEW v \in DOMAIN r.vms PROVE Vm(r, v) \in SiteVms(s)
    BY DEF AllVms
  <2>1. CASE v \notin Placed(r)
    BY <1>1, <1>5, <2>1 DEF SiteVms
  <2>2. CASE v \in Placed(r)
    <3>1. PICK h \in DOMAIN r.hosts : v \in r.hosts[h].vms
      BY <2>2 DEF Placed
    <3>2. PICK i \in DOMAIN Members(r) : h \in Members(r)[i].hosts
      BY MembersAreHosts
    <3>3. v \in Group(r, Members(r)[i].hosts).vms
      BY <3>1, <3>2, GroupFields
    <3>4. Vm(r, v) \in PoolOf(r, Members(r)[i]).vms
      BY <3>3, PoolFields
    <3> QED BY <1>7, <3>4 DEF SiteVms
  <2> QED BY <2>1, <2>2
<1>9. SiteVms(s) \subseteq AllVms(r)
  <2>1. \A i \in DOMAIN Members(r) : PoolOf(r, Members(r)[i]).vms \subseteq AllVms(r)
    BY PoolFields, GroupFields DEF AllVms
  <2>2. orphans \subseteq AllVms(r)
    BY <1>1 DEF AllVms
  <2> QED BY <1>5, <1>7, <2>1, <2>2 DEF SiteVms
<1>10. SiteVms(s) = AllVms(r)
  BY <1>8, <1>9
<1> QED BY <1>1, <1>3, <1>4, <1>5, <1>6, <1>10 DEF SeenSite

----------------------------------------------------------------------------
(* What is measured.                                                        *)

\* The 95th percentile of samples is one of them, and of none it is nothing.
LEMMA PercentileIsNat == ASSUME NEW s \in Seq(Nat) PROVE Percentile95(s) \in Nat
<1>1. PICK n, q : n = Len(s) /\ q = (95 * Len(s) + 99) \div 100
  OBVIOUS
<1>2. PICK rank : rank = AtLeast(1, AtMost(n, q))
  OBVIOUS
<1>3. PICK T : T = {x \in ToSet(s) : Cardinality({i \in DOMAIN s : s[i] <= x}) >= rank}
  OBVIOUS
<1>4. Percentile95(s) = IF s = <<>> THEN 0 ELSE Min(T)
  BY <1>1, <1>2, <1>3 DEF Percentile95
<1>5. CASE s # <<>>
  <2>1. /\ IsFiniteSet(ToSet(s)) /\ ToSet(s) \subseteq Nat
        /\ DOMAIN s = 1 .. n /\ n \in Nat \ {0}
    BY <1>1, <1>5, ListedIsFinite, EntriesAreValues
  <2>2. 1 \in DOMAIN s /\ s[1] \in ToSet(s)
    BY <2>1 DEF ToSet
  <2>3. PICK m : m = Max(ToSet(s))
    OBVIOUS
  <2>4. m \in ToSet(s) /\ \A x \in ToSet(s) : x <= m
    <3>1. ToSet(s) \subseteq Int /\ ToSet(s) # {}
      BY <2>1, <2>2
    <3> QED BY <2>1, <2>3, <3>1, LargestMember
  <2>5. {i \in DOMAIN s : s[i] <= m} = DOMAIN s
    BY <2>4 DEF ToSet
  <2>6. Cardinality(DOMAIN s) = n
    BY <2>1, FS_Interval
  <2>7. q \in Int
    <3>1. 95 * n + 99 \in Int
      BY <2>1
    <3>2. (95 * n + 99) \div 100 \in Int
      BY <3>1, DivRoundsDown
    <3> QED BY <1>1, <3>2
  <2>8. rank \in Int /\ rank <= n
    BY <1>2, <2>1, <2>7 DEF AtLeast, AtMost
  <2>9. m \in T
    <3>1. n >= rank
      BY <2>1, <2>8
    <3> QED BY <1>3, <2>4, <2>5, <2>6, <3>1
  <2>10. T \subseteq ToSet(s)
    BY <1>3
  <2>11. IsFiniteSet(T) /\ T \subseteq Int /\ T # {}
    BY <2>1, <2>9, <2>10, FS_Subset
  <2>12. Min(T) \in T
    BY <2>11, SmallestMember
  <2> QED BY <1>4, <1>5, <2>1, <2>10, <2>12
<1> QED BY <1>4, <1>5

\* The samples of a vm, and its percentile as far as it is its own.
Series(r, v, c) == Those(IF v \in DOMAIN r.perf THEN r.perf[v][c] ELSE <<>>, Nat)
Pct(r, v, c) == ClampPct(Percentile95(Series(r, v, c)))
Measured(r, U) ==
    {vm \in U : /\ Measurable(vm)
                /\ Len(Series(r, vm.uid, "cpu")) >= MinSamples
                /\ Len(Series(r, vm.uid, "ram")) >= MinSamples}
Row(r, vm) ==
    [cpu |-> Pct(r, vm.uid, "cpu"), mem |-> Pct(r, vm.uid, "ram"),
     vcpu |-> vm.vcpu * Pct(r, vm.uid, "cpu"), ram |-> vm.ram * Pct(r, vm.uid, "ram")]

LEMMA SeriesIsList == ASSUME NEW r, IsRaw(r), NEW v, NEW c \in {"cpu", "ram"} PROVE Series(r, v, c) \in Seq(Nat)
<1>1. PICK s : s = IF v \in DOMAIN r.perf THEN r.perf[v][c] ELSE <<>>
  OBVIOUS
<1>2. s \in Seq(Int)
  BY <1>1 DEF IsRaw, IsSeries
<1>3. Those(s, Nat) \in Seq(Int \cap Nat)
  BY <1>2, ThoseAreMembers
<1>4. Int \cap Nat = Nat
  OBVIOUS
<1> QED BY <1>1, <1>3, <1>4 DEF Series

LEMMA PctIsPart == ASSUME NEW r, IsRaw(r), NEW v, NEW c \in {"cpu", "ram"} PROVE Pct(r, v, c) \in 0 .. 100
<1>1. PICK p : p = Percentile95(Series(r, v, c))
  OBVIOUS
<1>2. p \in Nat
  BY <1>1, SeriesIsList, PercentileIsNat
<1> QED BY <1>1, <1>2 DEF Pct, ClampPct, AtMost

\* Only a running vm that was sampled has a row, and the row is its own.
LEMMA UsageIsMeasured ==
    ASSUME NEW r, IsRaw(r), NEW vm \in AllVms(r), vm.uid \in DOMAIN UsageRows(r, AllVms(r))
    PROVE  /\ Running(vm) /\ vm.uid \in DOMAIN r.perf
           /\ UsageRows(r, AllVms(r))[vm.uid] = Row(r, vm)
<1>1. PICK M : M = Measured(r, AllVms(r))
  OBVIOUS
<1>2. UsageRows(r, AllVms(r)) =
          [v \in {x.uid : x \in M} |->
              LET x == CHOOSE y \in M : y.uid = v
              IN  [cpu |-> Pct(r, v, "cpu"), mem |-> Pct(r, v, "ram"),
                   vcpu |-> x.vcpu * Pct(r, v, "cpu"), ram |-> x.ram * Pct(r, v, "ram")]]
  BY <1>1 DEF UsageRows, Measured, Series, Pct
<1>3. \A x, y \in AllVms(r) : x.uid = y.uid => x = y
  BY VmFields DEF AllVms
<1>4. vm \in M
  <2>1. PICK x \in M : x.uid = vm.uid
    BY <1>2
  <2> QED BY <1>1, <1>3, <2>1 DEF Measured
<1>5. (CHOOSE y \in M : y.uid = vm.uid) = vm
  BY <1>1, <1>3, <1>4 DEF Measured
<1>6. UsageRows(r, AllVms(r))[vm.uid] = Row(r, vm)
  BY <1>2, <1>4, <1>5 DEF Row
<1>7. vm.uid \in DOMAIN r.perf
  <2> SUFFICES ASSUME vm.uid \notin DOMAIN r.perf PROVE FALSE
    OBVIOUS
  <2>1. ToSet(Series(r, vm.uid, "cpu")) = {}
    <3>1. <<>> \in Seq(Nat) /\ ToSet(<<>>) = {}
      BY EntriesOfEmpty
    <3>2. ToSet(Those(<<>>, Nat)) = ToSet(<<>>) \cap Nat
      BY <3>1, ThoseAreMembers
    <3> QED BY <3>1, <3>2 DEF Series
  <2>2. Len(Series(r, vm.uid, "cpu")) >= 1
    BY <1>1, <1>4, SamplesAssumption, SeriesIsList DEF Measured
  <2>3. Series(r, vm.uid, "cpu")[1] \in ToSet(Series(r, vm.uid, "cpu"))
    BY <2>2, SeriesIsList, EntriesAreValues
  <2> QED BY <2>1, <2>3
<1> QED BY <1>1, <1>4, <1>6, <1>7 DEF Measured, Measurable

----------------------------------------------------------------------------
(* What a pool costs, and what a part of it is worth.                       *)

LEMMA MoneyIsMoney ==
    ASSUME NEW card, IsCard(card), PoolMonthly(card) # Refused PROVE PoolMonthly(card) \in Nat \ {0}
<1> DEFINE C == DOMAIN card \cap CostLines
           line == [k \in C |-> card[k]]
<1>1. IsFiniteSet(C)
  BY LinesAssumption, FS_Subset
<1>2. PICK a : a = SumFunctionOnSet(line, C)
  OBVIOUS
<1>3. a \in Int
  <2>1. \A k \in C : line[k] \in Int /\ line[k] = line[k]
    BY DEF IsCard
  <2> HIDE DEF line, C
  <2>2. \A k \in C : line[k] \in Int /\ line[k] <= line[k]
    BY <2>1
  <2> QED BY <1>1, <1>2, <2>2, SumMonotone
<1>4. PICK b : b = IF "capex" \in DOMAIN card /\ "lifetime" \in DOMAIN card /\ card["lifetime"] > 0
                   THEN card["capex"] \div card["lifetime"] ELSE 0
  OBVIOUS
<1>5. b \in Int
  <2>1. CASE "capex" \in DOMAIN card /\ "lifetime" \in DOMAIN card /\ card["lifetime"] > 0
    <3>1. PICK x, y : x = card["capex"] /\ y = card["lifetime"]
      OBVIOUS
    <3>2. x \in Int /\ y \in Nat \ {0}
      BY <2>1, <3>1 DEF IsCard
    <3>3. x \div y \in Int
      BY <3>2, DivRoundsDown
    <3> QED BY <1>4, <2>1, <3>1, <3>3
  <2>2. CASE ~("capex" \in DOMAIN card /\ "lifetime" \in DOMAIN card /\ card["lifetime"] > 0)
    BY <1>4, <2>2
  <2> QED BY <2>1, <2>2
<1>6. Sum(LAMBDA k : card[k], DOMAIN card \cap CostLines) = a
  BY <1>2 DEF Sum
<1>7. PoolMonthly(card) = a + b /\ ~(a + b <= 0)
  BY <1>4, <1>6 DEF PoolMonthly
<1> QED BY <1>3, <1>5, <1>7

LEMMA CardIsCard ==
    ASSUME NEW c, IsConfig(c), NEW n
    PROVE  IsCard(PoolCard(c, n).card) /\ IsWeights(PoolCard(c, n).weights)
<1>1. \A own, base : IsCard(own) /\ IsCard(base) => IsCard(Over(own, base))
  BY DEF IsCard, Over
<1>2. IsCard(<<>>)
  BY DEF IsCard
<1>3. IsCard(c.site) /\ IsWeights(c.weights)
  BY DEF IsConfig
<1>4. CASE n \in DOMAIN c.clusters
  <2>1. PICK k : k = c.clusters[n]
    OBVIOUS
  <2>2. IsCard(k.card) /\ (k.weights = None \/ IsWeights(k.weights))
    BY <1>4, <2>1 DEF IsConfig
  <2> QED BY <1>1, <1>3, <1>4, <2>1, <2>2 DEF PoolCard
<1>5. CASE n \notin DOMAIN c.clusters
  BY <1>1, <1>2, <1>3, <1>5 DEF PoolCard
<1> QED BY <1>4, <1>5

LEMMA CapacityIsNat ==
    ASSUME NEW p, IsPool(p)
    PROVE  Capacity(p).vcpu \in Nat /\ Capacity(p).ram \in Nat /\ Capacity(p).storage \in Nat
<1>1. SumFunctionOnSet([h \in p.hosts |-> h.cores], p.hosts) \in Nat
  BY SumOfNats DEF IsPool
<1>2. SumFunctionOnSet([h \in p.hosts |-> h.ram], p.hosts) \in Nat
  BY SumOfNats DEF IsPool
<1>3. SumFunctionOnSet([d \in p.datastores |-> d.cap], p.datastores) \in Nat
  BY SumOfNats DEF IsPool
<1> QED BY <1>1, <1>2, <1>3 DEF Capacity, Sum

\* A pool that has a price: its money, weights and divisors, and what its vms reserve and use.
IsPriced(x) ==
    /\ x.money \in Nat \ {0} /\ IsWeights(x.weights)
    /\ x.cap.vcpu \in Nat \ {0} /\ x.cap.ram \in Nat \ {0} /\ x.cap.storage \in Nat \ {0}
    /\ x.reserved.vcpu \in Nat /\ x.reserved.ram \in Nat /\ x.reserved.storage \in Nat

IsBill(x, p, u) ==
    /\ x.cap = Capacity(p)
    /\ x.reserved.vcpu = SumFunctionOnSet([vm \in p.vms |-> Provisioned(vm).vcpu], p.vms)
    /\ x.reserved.ram = SumFunctionOnSet([vm \in p.vms |-> Provisioned(vm).ram], p.vms)
    /\ x.reserved.storage = SumFunctionOnSet([vm \in p.vms |-> Provisioned(vm).disk], p.vms)
    /\ \A vm \in p.vms :
           /\ x.vms[vm.uid].provisioned = Cost(x.money, x.weights, x.cap, Provisioned(vm))
           /\ x.vms[vm.uid].used = Cost(x.money, x.weights, x.cap, UsedRow(vm, u))
    /\ DOMAIN x.vms = {vm.uid : vm \in p.vms}
    /\ x.total = SumFunctionOnSet([v \in DOMAIN x.vms |-> x.vms[v].provisioned], DOMAIN x.vms)
    /\ x.headroom = x.money - x.total

LEMMA ProvisionedIsNat ==
    ASSUME NEW p, IsPool(p), NEW vm \in p.vms
    PROVE  Provisioned(vm).vcpu \in Nat /\ Provisioned(vm).ram \in Nat /\ Provisioned(vm).disk \in Nat
  BY DEF IsPool, Provisioned

LEMMA PoolIsPriced ==
    ASSUME NEW c, IsConfig(c), NEW p, IsPool(p), NEW u, AllocatePool(c, p, u) # Refused
    PROVE  IsPriced(AllocatePool(c, p, u)) /\ IsBill(AllocatePool(c, p, u), p, u)
<1>1. PICK k : k = CardFor(c, p)
  OBVIOUS
<1>2. IsCard(k.card) /\ IsWeights(k.weights)
  BY <1>1, CardIsCard DEF CardFor
<1>3. PICK m, cap : m = PoolMonthly(k.card) /\ cap = Capacity(p)
  OBVIOUS
<1>4. PICK charge : charge = [vm \in p.vms |->
          [provisioned |-> Cost(m, k.weights, cap, Provisioned(vm)),
           used |-> Cost(m, k.weights, cap, UsedRow(vm, u))]]
  OBVIOUS
<1>5. PICK vms : vms = [v \in {vm.uid : vm \in p.vms} |->
          [provisioned |-> Cost(m, k.weights, cap, Provisioned(CHOOSE vm \in p.vms : vm.uid = v)),
           used |-> Cost(m, k.weights, cap, UsedRow(CHOOSE vm \in p.vms : vm.uid = v, u))]]
  OBVIOUS
<1>6. PICK total : total = SumFunctionOnSet([v \in DOMAIN vms |-> vms[v].provisioned], DOMAIN vms)
  OBVIOUS
<1>7. PICK a, b, d :
          /\ a = SumFunctionOnSet([vm \in p.vms |-> Provisioned(vm).vcpu], p.vms)
          /\ b = SumFunctionOnSet([vm \in p.vms |-> Provisioned(vm).ram], p.vms)
          /\ d = SumFunctionOnSet([vm \in p.vms |-> Provisioned(vm).disk], p.vms)
  OBVIOUS
<1>8. PICK x : x = AllocatePool(c, p, u)
  OBVIOUS
<1>9. /\ x = [money |-> m, weights |-> k.weights, cap |-> cap, vms |-> vms, total |-> total,
              headroom |-> m - total, reserved |-> [vcpu |-> a, ram |-> b, storage |-> d]]
      /\ m # Refused /\ 0 \notin {cap.vcpu, cap.ram, cap.storage}
  <2>1. x = Allocate(p, k, u) /\ x # Refused
    BY <1>1, <1>8 DEF AllocatePool
  <2>2. x = IF m = Refused \/ 0 \in {cap.vcpu, cap.ram, cap.storage} THEN Refused
            ELSE [money |-> m, weights |-> k.weights, cap |-> cap, vms |-> vms, total |-> total,
                  headroom |-> m - total, reserved |-> [vcpu |-> a, ram |-> b, storage |-> d]]
    BY <1>3, <1>5, <1>6, <1>7, <2>1, SMTT(60) DEF Allocate, Sum
  <2> QED BY <2>1, <2>2
<1>10. m \in Nat \ {0}
  BY <1>2, <1>3, <1>9, MoneyIsMoney
<1>11. cap.vcpu \in Nat \ {0} /\ cap.ram \in Nat \ {0} /\ cap.storage \in Nat \ {0}
  BY <1>3, <1>9, CapacityIsNat
<1>12. a \in Nat /\ b \in Nat /\ d \in Nat
  <2>1. IsFiniteSet(p.vms)
    BY DEF IsPool
  <2>2. SumFunctionOnSet([vm \in p.vms |-> Provisioned(vm).vcpu], p.vms) \in Nat
    BY <2>1, ProvisionedIsNat, SumOfNats
  <2>3. SumFunctionOnSet([vm \in p.vms |-> Provisioned(vm).ram], p.vms) \in Nat
    BY <2>1, ProvisionedIsNat, SumOfNats
  <2>4. SumFunctionOnSet([vm \in p.vms |-> Provisioned(vm).disk], p.vms) \in Nat
    BY <2>1, ProvisionedIsNat, SumOfNats
  <2> QED BY <1>7, <2>2, <2>3, <2>4
<1>13. IsPriced(x)
  <2>1. /\ x.money = m /\ x.weights = k.weights /\ x.cap = cap
        /\ x.reserved.vcpu = a /\ x.reserved.ram = b /\ x.reserved.storage = d
    BY <1>9
  <2> QED BY <1>2, <1>10, <1>11, <1>12, <2>1 DEF IsPriced
<1>14. \A vm \in p.vms : (CHOOSE w \in p.vms : w.uid = vm.uid) = vm
  BY DEF IsPool
<1>15. \A vm \in p.vms : /\ vms[vm.uid].provisioned = Cost(m, k.weights, cap, Provisioned(vm))
                         /\ vms[vm.uid].used = Cost(m, k.weights, cap, UsedRow(vm, u))
  BY <1>5, <1>14
<1>16. DOMAIN vms = {vm.uid : vm \in p.vms}
  BY <1>5
<1>17. IsBill(x, p, u)
  <2>1. /\ x.money = m /\ x.weights = k.weights /\ x.cap = cap /\ x.vms = vms
        /\ x.total = total /\ x.headroom = m - total
        /\ x.reserved.vcpu = a /\ x.reserved.ram = b /\ x.reserved.storage = d
    BY <1>9
  <2> QED BY <1>3, <1>6, <1>7, <1>15, <1>16, <2>1 DEF IsBill
<1> QED BY <1>8, <1>13, <1>17

\* A share of money is money, a larger one of more.
LEMMA ShareGrows ==
    ASSUME NEW m \in Nat, NEW w \in Nat, NEW k \in Nat \ {0}, NEW a \in Nat, NEW b \in Nat, a <= b
    PROVE  Share(m, w, a, k) \in Nat /\ Share(m, w, b, k) \in Nat /\ Share(m, w, a, k) <= Share(m, w, b, k)
<1>1. PICK mw \in Nat, z \in Nat \ {0} : mw = m * w /\ z = 100 * k
  OBVIOUS
<1>2. mw * a \in Nat /\ mw * b \in Nat /\ mw * a <= mw * b
  OBVIOUS
<1>3. PICK x, y : x = (mw * a) \div z /\ y = (mw * b) \div z
  OBVIOUS
<1>4. /\ x \in Int /\ x * z <= mw * a
      /\ y \in Int
  BY <1>2, <1>3, DivRoundsDown
<1>5. x * z <= mw * b
  BY <1>2, <1>4
<1>6. x <= y
  BY <1>2, <1>3, <1>4, <1>5, DivIsAtLeast
<1>7. 0 * z <= mw * a
  BY <1>2
<1>8. 0 <= x
  BY <1>2, <1>3, <1>7, DivIsAtLeast
<1>9. Share(m, w, a, k) = x /\ Share(m, w, b, k) = y
  BY <1>1, <1>3 DEF Share
<1> QED BY <1>4, <1>6, <1>8, <1>9

----------------------------------------------------------------------------
(* Whose a finding is.                                                      *)

\* The pools that have a price, with it, and what is found in one of them.
Rates(c, s) ==
    RestrictValues([i \in DOMAIN s.pools |-> AllocatePool(c, s.pools[i], s.usage)], LAMBDA x : x # Refused)
OfPool(c, s, i) ==
    PoolFindings(s.pools[i], Rates(c, s)[i]) \cup UsageFindings(s.pools[i], Rates(c, s)[i], s.usage)

LEMMA RatesAreThere ==
    ASSUME NEW c, NEW s
    PROVE  /\ DOMAIN Rates(c, s) = {i \in DOMAIN s.pools : AllocatePool(c, s.pools[i], s.usage) # Refused}
           /\ \A i \in DOMAIN Rates(c, s) :
                  i \in DOMAIN s.pools /\ Rates(c, s)[i] = AllocatePool(c, s.pools[i], s.usage)
  BY DEF Rates, RestrictValues, Restrict

LEMMA SeenPools ==
    ASSUME NEW r, IsRaw(r), NEW s, SeenSite(r, s), NEW c, IsConfig(c)
    PROVE  /\ \A i \in DOMAIN s.pools : IsPool(s.pools[i])
           /\ \A i \in DOMAIN Rates(c, s) : /\ i \in DOMAIN s.pools
                                            /\ IsPriced(Rates(c, s)[i])
                                            /\ IsBill(Rates(c, s)[i], s.pools[i], s.usage)
<1>1. \A i \in DOMAIN s.pools : IsPool(s.pools[i])
  BY PoolsAreSound DEF SeenSite
<1>2. ASSUME NEW i \in DOMAIN Rates(c, s)
      PROVE  /\ i \in DOMAIN s.pools /\ IsPriced(Rates(c, s)[i])
             /\ IsBill(Rates(c, s)[i], s.pools[i], s.usage)
  <2>1. PICK p, x : p = s.pools[i] /\ x = AllocatePool(c, p, s.usage)
    OBVIOUS
  <2>2. i \in DOMAIN s.pools /\ x # Refused /\ Rates(c, s)[i] = x
    BY <2>1, RatesAreThere
  <2>3. IsPool(p)
    BY <1>1, <2>1, <2>2
  <2>4. IsPriced(x) /\ IsBill(x, p, s.usage)
    BY <2>1, <2>2, <2>3, PoolIsPriced
  <2> QED BY <2>1, <2>2, <2>4
<1> QED BY <1>1, <1>2

LEMMA PoolFindingsAreFinite ==
    ASSUME NEW p, IsPool(p), NEW x, NEW u
    PROVE  IsFiniteSet(PoolFindings(p, x) \cup UsageFindings(p, x, u))
<1>0. IsFiniteSet(p.vms) /\ IsFiniteSet(p.hosts) /\ IsFiniteSet(p.datastores)
  BY DEF IsPool
<1>1. IsFiniteSet(DiskFindings(p, x))
  <2>1. PICK S : S = {v \in p.vms : Reclaimable(v) /\ Handback(x, "storage", v.committed) >= MinSavings}
    OBVIOUS
  <2>2. PICK f : f = [vm \in p.vms |-> Finding(IF vm.template THEN "template-disk" ELSE "stopped-vm", vm.uid, p.key,
                                               Handback(x, "storage", vm.committed))]
    OBVIOUS
  <2>3. DiskFindings(p, x) = {f[vm] : vm \in S}
    BY <2>1, <2>2 DEF DiskFindings
  <2>4. IsFiniteSet(S)
    BY <1>0, <2>1, FS_Subset
  <2> QED BY <2>3, <2>4, ImageIsFinite
<1>2. IsFiniteSet(HostFindings(p, x))
  <2>1. PICK busy, worth :
            /\ busy = {vm.host : vm \in {v \in p.vms : Running(v)}}
            /\ worth = [h \in p.hosts |-> Share(x.money, x.weights.cpu, h.cores, x.cap.vcpu)
                                          + Share(x.money, x.weights.ram, h.ram, x.cap.ram)]
    OBVIOUS
  <2>2. PICK S : S = {h \in p.hosts : ~(h.on /\ h.uid \in busy) /\ worth[h] >= MinSavings}
    OBVIOUS
  <2>3. PICK f : f = [h \in p.hosts |-> Finding(IF h.on THEN "zombie-host" ELSE "powered-off-host", h.uid, p.key, worth[h])]
    OBVIOUS
  <2>4. HostFindings(p, x) = {f[h] : h \in S}
    BY <2>1, <2>2, <2>3 DEF HostFindings
  <2>5. IsFiniteSet(S)
    BY <1>0, <2>2, FS_Subset
  <2> QED BY <2>4, <2>5, ImageIsFinite
<1>3. IsFiniteSet(ThinFindings(p))
  <2>1. PICK S : S = {d \in p.datastores : d.provisioned * 100 >= ThinLimit * d.cap}
    OBVIOUS
  <2>2. PICK f : f = [d \in p.datastores |-> Finding("thin-overcommit", d.uid, p.key, 0)]
    OBVIOUS
  <2>3. ThinFindings(p) = {f[d] : d \in S}
    BY <2>1, <2>2 DEF ThinFindings
  <2>4. IsFiniteSet(S)
    BY <1>0, <2>1, FS_Subset
  <2> QED BY <2>3, <2>4, ImageIsFinite
<1>4. IsFiniteSet(UsageFindings(p, x, u))
  <2>1. PICK S : S = {v \in p.vms : v.uid \in DOMAIN u /\ Running(v)}
    OBVIOUS
  <2>2. PICK f : f = [vm \in p.vms |-> UsageFinding(p, x, vm, u[vm.uid])]
    OBVIOUS
  <2>3. UsageFindings(p, x, u) = UNION {f[vm] : vm \in S}
    BY <2>1, <2>2 DEF UsageFindings
  <2>4. IsFiniteSet(S)
    BY <1>0, <2>1, FS_Subset
  <2>5. IsFiniteSet({f[vm] : vm \in S})
    BY <2>4, ImageIsFinite
  <2>6. \A vm \in S : IsFiniteSet(f[vm])
    <3> SUFFICES ASSUME NEW vm \in p.vms PROVE IsFiniteSet(UsageFinding(p, x, vm, u[vm.uid]))
      BY <2>1, <2>2
    <3>1. \/ UsageFinding(p, x, vm, u[vm.uid]) = {}
          \/ \E e : UsageFinding(p, x, vm, u[vm.uid]) = {e}
      BY DEF UsageFinding
    <3> QED BY <3>1, FS_EmptySet, FS_Singleton
  <2> QED BY <2>3, <2>5, <2>6, FS_UNION
<1> QED BY <1>1, <1>2, <1>3, <1>4, FS_Union DEF PoolFindings

LEMMA SiteFindingsAreFinite ==
    ASSUME NEW r, IsRaw(r), NEW s, SeenSite(r, s), NEW x, NEW g
    PROVE  /\ IsFiniteSet(s.orphans) /\ IsFiniteSet(s.unmounted) /\ IsFiniteSet(s.datastores)
           /\ IsFiniteSet(SiteFindings(s, x, g))
<1>1. IsFiniteSet(DOMAIN r.vms) /\ IsFiniteSet(DOMAIN r.datastores)
  BY RawParts
<1>2. PICK vm, ds : vm = [v \in DOMAIN r.vms |-> Vm(r, v)] /\ ds = [d \in DOMAIN r.datastores |-> Datastore(r, d)]
  OBVIOUS
<1>3. /\ s.orphans = {vm[v] : v \in DOMAIN r.vms \ Placed(r)}
      /\ s.unmounted = {ds[d] : d \in DOMAIN r.datastores \ Mounted(r)}
      /\ s.datastores = {ds[d] : d \in DOMAIN r.datastores}
  BY <1>2 DEF SeenSite
<1>4. IsFiniteSet(DOMAIN r.vms \ Placed(r)) /\ IsFiniteSet(DOMAIN r.datastores \ Mounted(r))
  BY <1>1, FS_Subset
<1>5. IsFiniteSet(s.orphans) /\ IsFiniteSet(s.unmounted) /\ IsFiniteSet(s.datastores)
  BY <1>1, <1>3, <1>4, ImageIsFinite
<1>6. PICK A, B : /\ A = {v \in s.orphans : SiteStorage(s, x, v.committed) >= MinSavings}
                  /\ B = {d \in s.unmounted : SiteStorage(s, x, d.cap) >= MinSavings}
  OBVIOUS
<1>7. IsFiniteSet(A) /\ IsFiniteSet(B)
  BY <1>5, <1>6, FS_Subset
<1>8. PICK f, e : /\ f = [v \in A |-> Finding("orphan-vm", v.uid, SiteRegion, SiteStorage(s, x, v.committed))]
                  /\ e = [d \in B |-> Finding("unmounted-datastore", d.uid, SiteRegion, SiteStorage(s, x, d.cap))]
  OBVIOUS
<1>9. IsFiniteSet({f[v] : v \in A}) /\ IsFiniteSet({e[d] : d \in B})
  BY <1>7, ImageIsFinite
<1>10. PICK C : C = LET gap == UnaccountedIn(s, g) IN
                      IF gap # None /\ SiteStorage(s, x, gap) >= MinSavings
                      THEN {Finding("unaccounted-storage", "leftovers", SiteRegion, SiteStorage(s, x, gap))} ELSE {}
  OBVIOUS
<1>11. IsFiniteSet(C)
  BY <1>10, FS_EmptySet, FS_Singleton
<1>12. SiteFindings(s, x, g) = {f[v] : v \in A} \cup {e[d] : d \in B} \cup C
  BY <1>6, <1>8, <1>10 DEF SiteFindings
<1>13. IsFiniteSet(SiteFindings(s, x, g))
  BY <1>9, <1>11, <1>12, FS_Union
<1> QED BY <1>5, <1>13

\* The first of the findings of a kind about a thing, and no second one.
LEMMA OnceOfEach ==
    ASSUME NEW V, NEW l \in Seq(V)
    PROVE  /\ Once(l) \subseteq ToSet(l)
           /\ \A f, g \in Once(l) : f.kind = g.kind /\ f.uid = g.uid => f = g
<1> DEFINE first(i) == \A j \in 1 .. i - 1 : <<l[j].kind, l[j].uid>> # <<l[i].kind, l[i].uid>>
<1>1. Once(l) = {l[i] : i \in {k \in DOMAIN l : first(k)}}
  BY DEF Once
<1>2. DOMAIN l = 1 .. Len(l) /\ Len(l) \in Nat
  OBVIOUS
<1>3. Once(l) \subseteq ToSet(l)
  BY <1>1 DEF ToSet
<1>4. ASSUME NEW f \in Once(l), NEW g \in Once(l), f.kind = g.kind, f.uid = g.uid PROVE f = g
  <2>1. PICK i, j \in DOMAIN l : f = l[i] /\ g = l[j] /\ first(i) /\ first(j)
    BY <1>1
  <2>2. ~(i < j)
    BY <1>2, <1>4, <2>1
  <2>3. ~(j < i)
    BY <1>2, <1>4, <2>1
  <2> QED BY <1>2, <2>1, <2>2, <2>3
<1> QED BY <1>3, <1>4

\* A finding is of a pool with a price, or of the site when there is such a pool.
LEMMA FindingsAreSomebodys ==
    ASSUME NEW r, IsRaw(r), NEW s, SeenSite(r, s), NEW c, NEW g
    PROVE  LET F == Recommendations(c, s, g) IN
           /\ F \subseteq (UNION {OfPool(c, s, i) : i \in DOMAIN Rates(c, s)}) \cup SiteFindings(s, Rates(c, s), g)
           /\ IsFiniteSet(F)
           /\ DOMAIN Rates(c, s) = {} => F = {}
           /\ \A f, e \in F : f.kind = e.kind /\ f.uid = e.uid => f = e
<1> DEFINE D == DOMAIN Rates(c, s)
           T == SiteFindings(s, Rates(c, s), g)
           V == (UNION {OfPool(c, s, i) : i \in D}) \cup T
           lists == [i \in DOMAIN s.pools |-> IF i \in D THEN SetToSeq(OfPool(c, s, i)) ELSE <<>>]
           last == IF D = {} THEN <<>> ELSE SetToSeq(T)
<1>1. Recommendations(c, s, g) = Once(FlattenSeq(lists) \o last)
  BY DEF Recommendations, Rates, OfPool
<1>2. DOMAIN s.pools = 1 .. Len(Members(r)) /\ Len(Members(r)) \in Nat
  BY MembersAreHosts DEF SeenSite
<1>3. \A i \in D : i \in DOMAIN s.pools /\ IsPool(s.pools[i])
  <2>1. D \subseteq DOMAIN s.pools
    BY RatesAreThere
  <2>2. \A i \in DOMAIN s.pools : IsPool(s.pools[i])
    BY PoolsAreSound DEF SeenSite
  <2> QED BY <2>1, <2>2
<1>4. \A i \in D : IsFiniteSet(OfPool(c, s, i))
  BY <1>3, PoolFindingsAreFinite DEF OfPool
<1>5. IsFiniteSet(T)
  BY SiteFindingsAreFinite
<1>6. \A i \in D : SetToSeq(OfPool(c, s, i)) \in Seq(V)
  <2> SUFFICES ASSUME NEW i \in D PROVE SetToSeq(OfPool(c, s, i)) \in Seq(V)
    OBVIOUS
  <2>1. SetToSeq(OfPool(c, s, i)) \in Seq(OfPool(c, s, i))
    BY <1>4, SetIsListed
  <2>2. OfPool(c, s, i) \subseteq V
    OBVIOUS
  <2> HIDE DEF V, D, T
  <2> QED BY <2>1, <2>2
<1>7. lists \in Seq(Seq(V))
  <2>1. \A i \in DOMAIN s.pools : lists[i] \in Seq(V)
    BY <1>6
  <2>2. DOMAIN lists = DOMAIN s.pools
    OBVIOUS
  <2>3. lists = [i \in DOMAIN s.pools |-> lists[i]]
    OBVIOUS
  <2> HIDE DEF lists, V
  <2>4. lists \in [1 .. Len(Members(r)) -> Seq(V)]
    BY <1>2, <2>1, <2>2, <2>3
  <2> QED BY <1>2, <2>4
<1>8. last \in Seq(V)
  <2>1. SetToSeq(T) \in Seq(T)
    BY <1>5, SetIsListed
  <2>2. T \subseteq V
    OBVIOUS
  <2>3. <<>> \in Seq(V)
    OBVIOUS
  <2>4. SetToSeq(T) \in Seq(V)
    <3> HIDE DEF V, T
    <3> QED BY <2>1, <2>2
  <2> QED BY <2>3, <2>4
<1>9. PICK l \in Seq(V) : l = FlattenSeq(lists) \o last /\ ToSet(l) \subseteq V
  <2> HIDE DEF V, lists, last
  <2>1. FlattenSeq(lists) \in Seq(V)
    BY <1>7, FlattenProperties
  <2>2. FlattenSeq(lists) \o last \in Seq(V)
    BY <1>8, <2>1, EntriesOfConcat
  <2> QED BY <2>2, EntriesAreValues
<1>10. /\ Recommendations(c, s, g) \subseteq V /\ IsFiniteSet(Recommendations(c, s, g))
       /\ \A f, e \in Recommendations(c, s, g) : f.kind = e.kind /\ f.uid = e.uid => f = e
  <2> HIDE DEF V, lists, last
  <2>1. Recommendations(c, s, g) = Once(l)
    BY <1>1, <1>9
  <2>2. Once(l) \subseteq ToSet(l) /\ \A f, e \in Once(l) : f.kind = e.kind /\ f.uid = e.uid => f = e
    BY OnceOfEach
  <2>3. IsFiniteSet(Once(l))
    BY <2>2, ListedIsFinite, FS_Subset
  <2> QED BY <1>9, <2>1, <2>2, <2>3
<1>11. D = {} => Recommendations(c, s, g) = {}
  <2> SUFFICES ASSUME D = {} PROVE Recommendations(c, s, g) = {}
    OBVIOUS
  <2>1. lists \in Seq(Seq({})) /\ Len(lists) = Len(Members(r)) /\ \A i \in DOMAIN lists : lists[i] = <<>>
    <3>1. DOMAIN lists = DOMAIN s.pools /\ \A i \in DOMAIN lists : lists[i] = <<>>
      OBVIOUS
    <3>2. lists = [i \in DOMAIN s.pools |-> lists[i]]
      OBVIOUS
    <3> HIDE DEF lists
    <3>3. \A i \in DOMAIN lists : lists[i] \in Seq({})
      <4>1. <<>> \in Seq({})
        OBVIOUS
      <4> QED BY <3>1, <4>1, Zenon
    <3>4. lists \in [1 .. Len(Members(r)) -> Seq({})]
      BY <1>2, <3>1, <3>2, <3>3
    <3> QED BY <1>2, <3>1, <3>4
  <2>2. PICK k : k = FlattenSeq(lists) \o last
    OBVIOUS
  <2>3. k \in Seq({})
    <3>1. last = <<>>
      OBVIOUS
    <3> HIDE DEF lists, last
    <3>2. FlattenSeq(lists) \in Seq({})
      BY <2>1, FlattenProperties
    <3>3. last \in Seq({})
      BY <3>1
    <3> QED BY <2>2, <3>2, <3>3, EntriesOfConcat
  <2>4. ToSet(k) \subseteq {}
    BY <2>3, EntriesAreValues
  <2>5. Once(k) \subseteq ToSet(k)
    BY <2>3, OnceOfEach
  <2> QED BY <1>1, <2>2, <2>4, <2>5
<1> QED BY <1>10, <1>11

----------------------------------------------------------------------------
(* What each kind of finding says.                                          *)

OfDisk(f, p, x) == \E vm \in p.vms :
    /\ Reclaimable(vm) /\ f.uid = vm.uid
    /\ f.kind = IF vm.template THEN "template-disk" ELSE "stopped-vm"
    /\ f.monthly = Handback(x, "storage", vm.committed)
OfHost(f, p, x) == \E h \in p.hosts :
    /\ f.uid = h.uid /\ f.kind = IF h.on THEN "zombie-host" ELSE "powered-off-host"
    /\ f.monthly = Share(x.money, x.weights.cpu, h.cores, x.cap.vcpu) + Share(x.money, x.weights.ram, h.ram, x.cap.ram)
    /\ h.on => \A vm \in p.vms : Running(vm) => vm.host # h.uid
OfArray(f, p) == \E d \in p.datastores : f.uid = d.uid /\ f.kind = "thin-overcommit" /\ f.monthly = 0
IdleWorth(x, vm) == Handback(x, "cpu", vm.vcpu) + Handback(x, "ram", vm.ram)
ShrinkWorth(x, vm, row) ==
    Handback(x, "cpu", vm.vcpu - Fit(row.vcpu, vm.vcpu)) + Handback(x, "ram", vm.ram - Fit(row.ram, vm.ram))
OfUsage(f, p, x, u) == \E vm \in p.vms :
    /\ vm.uid \in DOMAIN u /\ Running(vm) /\ f.uid = vm.uid
    /\ \/ IsIdle(vm, u[vm.uid]) /\ f.kind = "idle-vm" /\ f.monthly = IdleWorth(x, vm)
       \/ ~IsIdle(vm, u[vm.uid]) /\ f.kind = "rightsize-vm" /\ f.monthly = ShrinkWorth(x, vm, u[vm.uid])
FoundInPool(f, p, x, u) ==
    f.region = p.key /\ (OfDisk(f, p, x) \/ OfHost(f, p, x) \/ OfArray(f, p) \/ OfUsage(f, p, x, u))

LEMMA PoolKinds ==
    ASSUME NEW p, NEW x, NEW u, NEW f \in PoolFindings(p, x) \cup UsageFindings(p, x, u)
    PROVE  FoundInPool(f, p, x, u)
<1>1. CASE f \in DiskFindings(p, x)
  BY <1>1 DEF DiskFindings, Finding, FoundInPool, OfDisk
<1>2. CASE f \in HostFindings(p, x)
  <2>1. PICK busy : busy = {vm.host : vm \in {v \in p.vms : Running(v)}}
    OBVIOUS
  <2>2. PICK h \in p.hosts :
            /\ ~(h.on /\ h.uid \in busy)
            /\ f = Finding(IF h.on THEN "zombie-host" ELSE "powered-off-host", h.uid, p.key,
                           Share(x.money, x.weights.cpu, h.cores, x.cap.vcpu)
                           + Share(x.money, x.weights.ram, h.ram, x.cap.ram))
    BY <1>2, <2>1 DEF HostFindings
  <2>3. h.on => \A vm \in p.vms : Running(vm) => vm.host # h.uid
    BY <2>1, <2>2
  <2>4. /\ f.uid = h.uid /\ f.kind = IF h.on THEN "zombie-host" ELSE "powered-off-host"
        /\ f.monthly = Share(x.money, x.weights.cpu, h.cores, x.cap.vcpu) + Share(x.money, x.weights.ram, h.ram, x.cap.ram)
        /\ f.region = p.key
    BY <2>2 DEF Finding
  <2>5. OfHost(f, p, x)
    BY <2>3, <2>4 DEF OfHost
  <2> QED BY <2>4, <2>5 DEF FoundInPool
<1>3. CASE f \in ThinFindings(p)
  BY <1>3 DEF ThinFindings, Finding, FoundInPool, OfArray
<1>4. CASE f \in UsageFindings(p, x, u)
  <2>1. PICK vm \in p.vms : vm.uid \in DOMAIN u /\ Running(vm) /\ f \in UsageFinding(p, x, vm, u[vm.uid])
    BY <1>4 DEF UsageFindings
  <2>2. PICK row : row = u[vm.uid]
    OBVIOUS
  <2>3. \/ IsIdle(vm, row) /\ f = Finding("idle-vm", vm.uid, p.key, IdleWorth(x, vm))
        \/ ~IsIdle(vm, row) /\ f = Finding("rightsize-vm", vm.uid, p.key, ShrinkWorth(x, vm, row))
    BY <2>1, <2>2 DEF UsageFinding, IdleWorth, ShrinkWorth
  <2>4. f.uid = vm.uid /\ f.region = p.key
    BY <2>3 DEF Finding
  <2>5. \/ IsIdle(vm, row) /\ f.kind = "idle-vm" /\ f.monthly = IdleWorth(x, vm)
        \/ ~IsIdle(vm, row) /\ f.kind = "rightsize-vm" /\ f.monthly = ShrinkWorth(x, vm, row)
    BY <2>3 DEF Finding
  <2>6. OfUsage(f, p, x, u)
    BY <2>1, <2>2, <2>4, <2>5 DEF OfUsage
  <2> QED BY <2>4, <2>6 DEF FoundInPool
<1> QED BY <1>1, <1>2, <1>3, <1>4 DEF PoolFindings

OfOrphan(f, s, x) == \E vm \in s.orphans :
    f.uid = vm.uid /\ f.kind = "orphan-vm" /\ f.monthly = SiteStorage(s, x, vm.committed)
OfUnmounted(f, s, x) == \E d \in s.unmounted :
    f.uid = d.uid /\ f.kind = "unmounted-datastore" /\ f.monthly = SiteStorage(s, x, d.cap)
OfGap(f, s, x, g) ==
    /\ f.uid = "leftovers" /\ f.kind = "unaccounted-storage"
    /\ UnaccountedIn(s, g) # None /\ f.monthly = SiteStorage(s, x, UnaccountedIn(s, g))
FoundInSite(f, s, x, g) ==
    f.region = SiteRegion /\ (OfOrphan(f, s, x) \/ OfUnmounted(f, s, x) \/ OfGap(f, s, x, g))

LEMMA SiteKinds ==
    ASSUME NEW s, NEW x, NEW g, NEW f \in SiteFindings(s, x, g) PROVE FoundInSite(f, s, x, g)
<1>1. \/ \E vm \in s.orphans : f = Finding("orphan-vm", vm.uid, SiteRegion, SiteStorage(s, x, vm.committed))
      \/ \E d \in s.unmounted : f = Finding("unmounted-datastore", d.uid, SiteRegion, SiteStorage(s, x, d.cap))
      \/ /\ UnaccountedIn(s, g) # None
         /\ f = Finding("unaccounted-storage", "leftovers", SiteRegion, SiteStorage(s, x, UnaccountedIn(s, g)))
  BY DEF SiteFindings
<1> QED BY <1>1 DEF Finding, FoundInSite, OfOrphan, OfUnmounted, OfGap

\* A report that stands is of the site as it is, and its findings are of what is there.
Stands(g) ==
    /\ g \in Guests /\ report = ReportOn(g)
    /\ IsRaw(raw) /\ IsConfig(config) /\ ConfigValid(config) /\ IsGuests(g)
    /\ report.site = BuildSite(raw) /\ SeenSite(raw, report.site) /\ ~Incomplete(raw)
    /\ report.spend = Collect(config, report.site)
    /\ report.findings = Recommendations(config, report.site, g)

LEMMA ReportStands == ASSUME IInv, Reported PROVE \E g \in Guests : Stands(g)
<1>1. PICK g \in Guests : report = ReportOn(g)
  BY DEF IInv, Current, Reported
<1>2. IsRaw(raw) /\ IsConfig(config) /\ ConfigValid(config) /\ IsGuests(g)
  BY ConfigsAssumption, GuestsAssumption DEF IInv
<1>3. PICK s : s = BuildSite(raw)
  OBVIOUS
<1>4. s # Refused
  BY <1>1, <1>3 DEF ReportOn, Reported
<1>5. report = [site |-> s, guests |-> g, spend |-> Collect(config, s), findings |-> Recommendations(config, s, g)]
  BY <1>1, <1>3, <1>4 DEF ReportOn
<1>6. SeenSite(raw, s) /\ ~Incomplete(raw)
  BY <1>2, <1>3, <1>4, SiteIsSeen
<1>7. report.site = s /\ report.spend = Collect(config, s) /\ report.findings = Recommendations(config, s, g)
  BY <1>5
<1>8. SeenSite(raw, report.site) /\ report.site = BuildSite(raw)
  BY <1>3, <1>6, <1>7
<1>9. report.spend = Collect(config, report.site) /\ report.findings = Recommendations(config, report.site, g)
  BY <1>7
<1> HIDE <1>3, <1>5, <1>7
<1> QED BY <1>1, <1>2, <1>6, <1>8, <1>9 DEF Stands

LEMMA EachIsFound ==
    ASSUME NEW g, Stands(g), NEW f \in report.findings
    PROVE  \/ \E i \in DOMAIN Rates(config, report.site) :
                  FoundInPool(f, report.site.pools[i], Rates(config, report.site)[i], report.site.usage)
           \/ FoundInSite(f, report.site, Rates(config, report.site), g)
<1>1. PICK s, R : s = report.site /\ R = Rates(config, s)
  OBVIOUS
<1>2. f \in (UNION {OfPool(config, s, i) : i \in DOMAIN R}) \cup SiteFindings(s, R, g)
  BY <1>1, FindingsAreSomebodys DEF Stands
<1>3. CASE f \in SiteFindings(s, R, g)
  BY <1>1, <1>3, SiteKinds
<1>4. CASE f \notin SiteFindings(s, R, g)
  <2>1. PICK i \in DOMAIN R : f \in OfPool(config, s, i)
    BY <1>2, <1>4
  <2>2. FoundInPool(f, s.pools[i], R[i], s.usage)
    BY <1>1, <2>1, PoolKinds DEF OfPool
  <2> QED BY <1>1, <2>1, <2>2
<1> QED BY <1>3, <1>4

----------------------------------------------------------------------------
(* Nothing live is handed back.                                             *)

LEMMA SeenVms ==
    ASSUME NEW r, IsRaw(r), NEW s, SeenSite(r, s), NEW i \in DOMAIN s.pools, NEW vm \in s.pools[i].vms
    PROVE  /\ vm.uid \in DOMAIN r.vms /\ vm = Vm(r, vm.uid)
           /\ vm.on = r.vms[vm.uid].on /\ vm.template = r.vms[vm.uid].template
           /\ vm.uid \in Placed(r) /\ vm \in AllVms(r)
<1>1. PICK m : m = Members(r)[i]
  OBVIOUS
<1>2. i \in DOMAIN Members(r) /\ s.pools[i] = PoolOf(r, m)
  BY <1>1 DEF SeenSite
<1>3. PICK v \in Group(r, m.hosts).vms : vm = Vm(r, v)
  BY <1>2, PoolFields
<1>4. v \in DOMAIN r.vms /\ \E h \in m.hosts : v \in r.hosts[h].vms
  BY <1>3, GroupFields
<1>5. m.hosts \subseteq DOMAIN r.hosts
  BY <1>1, <1>2, MembersAreHosts
<1>6. v \in Placed(r)
  BY <1>4, <1>5 DEF Placed
<1>7. vm.uid = v /\ vm.on = r.vms[v].on /\ vm.template = r.vms[v].template
  BY <1>3, <1>4, VmFields
<1> QED BY <1>3, <1>4, <1>6, <1>7 DEF AllVms

LEMMA SeenHosts ==
    ASSUME NEW r, IsRaw(r), NEW s, SeenSite(r, s), NEW i \in DOMAIN s.pools, NEW h \in s.pools[i].hosts
    PROVE  /\ h.uid \in DOMAIN r.hosts /\ h = Host(r, h.uid) /\ h.on = r.hosts[h.uid].on
           /\ \A v \in r.hosts[h.uid].vms \cap DOMAIN r.vms :
                  /\ Vm(r, v) \in s.pools[i].vms /\ Vm(r, v).host = h.uid
                  /\ Vm(r, v).on = r.vms[v].on /\ Vm(r, v).template = r.vms[v].template
<1>1. PICK m : m = Members(r)[i]
  OBVIOUS
<1>2. i \in DOMAIN Members(r) /\ s.pools[i] = PoolOf(r, m)
  BY <1>1 DEF SeenSite
<1>3. PICK k \in m.hosts : h = Host(r, k)
  BY <1>2, PoolFields
<1>4. m.hosts \subseteq DOMAIN r.hosts
  BY <1>1, <1>2, MembersAreHosts
<1>5. h.uid = k /\ h.on = r.hosts[k].on /\ k \in DOMAIN r.hosts
  BY <1>3, <1>4 DEF Host
<1>6. ASSUME NEW v \in r.hosts[k].vms \cap DOMAIN r.vms
      PROVE  /\ Vm(r, v) \in s.pools[i].vms /\ Vm(r, v).host = k
             /\ Vm(r, v).on = r.vms[v].on /\ Vm(r, v).template = r.vms[v].template
  <2>1. v \in Group(r, m.hosts).vms
    BY <1>3, GroupFields
  <2>2. r.vms[v].host = k
    BY <1>5, RawParts
  <2> QED BY <1>2, <2>1, <2>2, PoolFields, VmFields
<1> QED BY <1>3, <1>5, <1>6

LEMMA LiveIsKept == ASSUME IInv PROVE NothingLiveHandedBack
<1> SUFFICES ASSUME Reported, NEW f \in report.findings
             PROVE  /\ f.kind \in {"stopped-vm", "template-disk"} => ~raw.vms[f.uid].on
                    /\ f.kind \in {"zombie-host", "powered-off-host"} =>
                           \/ ~raw.hosts[f.uid].on
                           \/ ~\E v \in raw.hosts[f.uid].vms \cap DOMAIN raw.vms : raw.vms[v].on /\ ~raw.vms[v].template
                    /\ f.kind \in {"idle-vm", "rightsize-vm"} => f.uid \in DOMAIN raw.perf /\ raw.vms[f.uid].on
  BY DEF NothingLiveHandedBack
<1>1. PICK g \in Guests : Stands(g)
  BY ReportStands
<1>2. PICK s, R : s = report.site /\ R = Rates(config, s)
  OBVIOUS
<1>3. IsRaw(raw) /\ SeenSite(raw, s)
  BY <1>1, <1>2 DEF Stands
<1>4. CASE FoundInSite(f, s, R, g)
  <2>1. f.kind \in {"orphan-vm", "unmounted-datastore", "unaccounted-storage"}
    BY <1>4 DEF FoundInSite, OfOrphan, OfUnmounted, OfGap
  <2> QED BY <2>1
<1>5. CASE ~FoundInSite(f, s, R, g)
  <2>1. PICK i \in DOMAIN R : FoundInPool(f, s.pools[i], R[i], s.usage)
    BY <1>1, <1>2, <1>5, EachIsFound
  <2>2. PICK p, x : p = s.pools[i] /\ x = R[i]
    OBVIOUS
  <2>3. i \in DOMAIN s.pools
    BY <1>2, RatesAreThere
  <2>4. CASE OfDisk(f, p, x)
    <3>1. PICK vm \in p.vms : Reclaimable(vm) /\ f.uid = vm.uid /\ f.kind \in {"template-disk", "stopped-vm"}
      BY <2>4 DEF OfDisk
    <3>2. vm.on = raw.vms[vm.uid].on
      BY <1>3, <2>2, <2>3, <3>1, SeenVms
    <3> QED BY <3>1, <3>2 DEF Reclaimable
  <2>5. CASE OfHost(f, p, x)
    <3>1. PICK h \in p.hosts : /\ f.uid = h.uid /\ f.kind \in {"zombie-host", "powered-off-host"}
                               /\ h.on => \A vm \in p.vms : Running(vm) => vm.host # h.uid
      BY <2>5 DEF OfHost
    <3>2. /\ h.on = raw.hosts[h.uid].on
          /\ \A v \in raw.hosts[h.uid].vms \cap DOMAIN raw.vms :
                  /\ Vm(raw, v) \in p.vms /\ Vm(raw, v).host = h.uid
                  /\ Vm(raw, v).on = raw.vms[v].on /\ Vm(raw, v).template = raw.vms[v].template
      BY <1>3, <2>2, <2>3, <3>1, SeenHosts
    <3>3. ASSUME h.on, NEW v \in raw.hosts[h.uid].vms \cap DOMAIN raw.vms, raw.vms[v].on /\ ~raw.vms[v].template PROVE FALSE
      BY <3>1, <3>2, <3>3 DEF Running
    <3> QED BY <3>1, <3>2, <3>3
  <2>6. CASE OfArray(f, p)
    BY <2>6 DEF OfArray
  <2>7. CASE OfUsage(f, p, x, s.usage)
    <3>1. PICK vm \in p.vms : /\ vm.uid \in DOMAIN s.usage /\ Running(vm) /\ f.uid = vm.uid
                              /\ f.kind \in {"idle-vm", "rightsize-vm"}
      BY <2>7 DEF OfUsage
    <3>2. vm \in AllVms(raw) /\ vm.on = raw.vms[vm.uid].on
      BY <1>3, <2>2, <2>3, <3>1, SeenVms
    <3>3. s.usage = UsageRows(raw, AllVms(raw))
      BY <1>3 DEF SeenSite
    <3>4. vm.uid \in DOMAIN raw.perf
      BY <1>3, <3>1, <3>2, <3>3, UsageIsMeasured
    <3> QED BY <3>1, <3>2, <3>4 DEF Running
  <2> QED BY <2>1, <2>2, <2>4, <2>5, <2>6, <2>7 DEF FoundInPool
<1> QED BY <1>4, <1>5

\* No report says to delete what runs, to hand back a host that carries something, or to
\* switch off or shrink what was never measured, whatever the site, its pools and their cards
\* (waste.py _hosts, _reclaimable_disk, and _usage under metrics.py usage_rows).
THEOREM NothingLiveIsHandedBack == Spec => []NothingLiveHandedBack
<1>1. IInv => NothingLiveHandedBack
  BY LiveIsKept
<1> QED BY <1>1, AlwaysIInv, PTL

----------------------------------------------------------------------------
(* One thing gets one advice.                                               *)

\* What a finding about a thing may be, but for the warning that an array is too full.
Advice(r, s, u) ==
    IF u \in DOMAIN r.hosts THEN IF r.hosts[u].on THEN "zombie-host" ELSE "powered-off-host"
    ELSE IF u \in DOMAIN r.vms
    THEN IF u \notin Placed(r) THEN "orphan-vm"
         ELSE IF ~r.vms[u].on THEN IF r.vms[u].template THEN "template-disk" ELSE "stopped-vm"
         ELSE IF IsIdle(Vm(r, u), s.usage[u]) THEN "idle-vm" ELSE "rightsize-vm"
    ELSE IF u \in DOMAIN r.datastores THEN "unmounted-datastore" ELSE "unaccounted-storage"

LEMMA IdsAreOfOne ==
    ASSUME NEW r, IsRaw(r)
    PROVE  /\ \A v \in DOMAIN r.vms : v \notin DOMAIN r.hosts
           /\ \A d \in DOMAIN r.datastores : d \notin DOMAIN r.hosts /\ d \notin DOMAIN r.vms
           /\ "leftovers" \notin DOMAIN r.hosts /\ "leftovers" \notin DOMAIN r.vms
           /\ "leftovers" \notin DOMAIN r.datastores
<1>1. /\ DOMAIN r.hosts \cap DOMAIN r.vms = {}
      /\ (DOMAIN r.hosts \cup DOMAIN r.vms) \cap DOMAIN r.datastores = {}
      /\ "leftovers" \notin DOMAIN r.hosts \cup DOMAIN r.vms \cup DOMAIN r.datastores
  BY DEF IsRaw
<1> QED BY <1>1

LEMMA PoolAdvice ==
    ASSUME NEW r, IsRaw(r), NEW s, SeenSite(r, s), NEW i \in DOMAIN s.pools, NEW x, NEW f,
           FoundInPool(f, s.pools[i], x, s.usage), f.kind # "thin-overcommit"
    PROVE  f.kind = Advice(r, s, f.uid)
<1>1. PICK p : p = s.pools[i]
  OBVIOUS
<1>2. CASE OfDisk(f, p, x)
  <2>1. PICK vm \in p.vms : /\ Reclaimable(vm) /\ f.uid = vm.uid
                            /\ f.kind = IF vm.template THEN "template-disk" ELSE "stopped-vm"
    BY <1>2 DEF OfDisk
  <2>2. /\ vm.uid \in DOMAIN r.vms /\ vm.uid \in Placed(r)
        /\ vm.on = r.vms[vm.uid].on /\ vm.template = r.vms[vm.uid].template
    BY <1>1, <2>1, SeenVms
  <2>3. vm.uid \notin DOMAIN r.hosts
    BY <2>2, IdsAreOfOne
  <2> QED BY <2>1, <2>2, <2>3 DEF Advice, Reclaimable
<1>3. CASE OfHost(f, p, x)
  <2>1. PICK h \in p.hosts : f.uid = h.uid /\ f.kind = IF h.on THEN "zombie-host" ELSE "powered-off-host"
    BY <1>3 DEF OfHost
  <2>2. h.uid \in DOMAIN r.hosts /\ h.on = r.hosts[h.uid].on
    BY <1>1, <2>1, SeenHosts
  <2> QED BY <2>1, <2>2 DEF Advice
<1>4. CASE OfUsage(f, p, x, s.usage)
  <2>1. PICK vm \in p.vms :
            /\ vm.uid \in DOMAIN s.usage /\ Running(vm) /\ f.uid = vm.uid
            /\ f.kind = IF IsIdle(vm, s.usage[vm.uid]) THEN "idle-vm" ELSE "rightsize-vm"
    BY <1>4 DEF OfUsage
  <2>2. /\ vm.uid \in DOMAIN r.vms /\ vm.uid \in Placed(r) /\ vm = Vm(r, vm.uid)
        /\ vm.on = r.vms[vm.uid].on /\ vm.template = r.vms[vm.uid].template
    BY <1>1, <2>1, SeenVms
  <2>3. vm.uid \notin DOMAIN r.hosts /\ vm.on
    BY <2>1, <2>2, IdsAreOfOne DEF Running
  <2>4. IsIdle(Vm(r, vm.uid), s.usage[vm.uid]) <=> IsIdle(vm, s.usage[vm.uid])
    BY <2>2
  <2>5. Advice(r, s, vm.uid) = IF IsIdle(Vm(r, vm.uid), s.usage[vm.uid]) THEN "idle-vm" ELSE "rightsize-vm"
    BY <2>2, <2>3 DEF Advice
  <2> QED BY <2>1, <2>4, <2>5
<1>5. CASE OfArray(f, p)
  BY <1>5 DEF OfArray
<1> QED BY <1>1, <1>2, <1>3, <1>4, <1>5 DEF FoundInPool

LEMMA SiteAdvice ==
    ASSUME NEW r, IsRaw(r), NEW s, SeenSite(r, s), NEW x, NEW g, NEW f, FoundInSite(f, s, x, g)
    PROVE  f.kind = Advice(r, s, f.uid)
<1>1. CASE OfOrphan(f, s, x)
  <2>1. PICK vm \in s.orphans : f.uid = vm.uid /\ f.kind = "orphan-vm"
    BY <1>1 DEF OfOrphan
  <2>2. PICK v \in DOMAIN r.vms \ Placed(r) : vm = Vm(r, v)
    BY <2>1 DEF SeenSite
  <2>3. vm.uid = v /\ v \notin DOMAIN r.hosts
    BY <2>2, VmFields, IdsAreOfOne
  <2> QED BY <2>1, <2>2, <2>3 DEF Advice
<1>2. CASE OfUnmounted(f, s, x)
  <2>1. PICK d \in s.unmounted : f.uid = d.uid /\ f.kind = "unmounted-datastore"
    BY <1>2 DEF OfUnmounted
  <2>2. PICK a \in DOMAIN r.datastores : d = Datastore(r, a)
    BY <2>1 DEF SeenSite
  <2>3. d.uid = a /\ a \notin DOMAIN r.hosts /\ a \notin DOMAIN r.vms
    BY <2>2, IdsAreOfOne DEF Datastore
  <2> QED BY <2>1, <2>2, <2>3 DEF Advice
<1>3. CASE OfGap(f, s, x, g)
  <2>1. f.uid = "leftovers" /\ f.kind = "unaccounted-storage"
    BY <1>3 DEF OfGap
  <2> QED BY <2>1, IdsAreOfOne DEF Advice
<1> QED BY <1>1, <1>2, <1>3 DEF FoundInSite

LEMMA AdviceIsOne == ASSUME IInv PROVE OneAdvicePerThing
<1> SUFFICES ASSUME Reported, NEW f \in report.findings, NEW e \in report.findings, f.uid = e.uid, f # e
             PROVE  "thin-overcommit" \in {f.kind, e.kind} /\ f.kind # e.kind
  BY DEF OneAdvicePerThing
<1>1. PICK g \in Guests : Stands(g)
  BY ReportStands
<1>2. PICK s, R : s = report.site /\ R = Rates(config, s)
  OBVIOUS
<1>3. IsRaw(raw) /\ SeenSite(raw, s) /\ report.findings = Recommendations(config, s, g)
  BY <1>1, <1>2 DEF Stands
<1>4. f.kind # e.kind
  BY <1>3, FindingsAreSomebodys
<1>5. \A q \in report.findings : q.kind = "thin-overcommit" \/ q.kind = Advice(raw, s, q.uid)
  <2> SUFFICES ASSUME NEW q \in report.findings, q.kind # "thin-overcommit" PROVE q.kind = Advice(raw, s, q.uid)
    OBVIOUS
  <2>1. CASE FoundInSite(q, s, R, g)
    BY <1>3, <2>1, SiteAdvice
  <2>2. CASE ~FoundInSite(q, s, R, g)
    <3>1. PICK i \in DOMAIN R : FoundInPool(q, s.pools[i], R[i], s.usage)
      BY <1>1, <1>2, <2>2, EachIsFound
    <3>2. i \in DOMAIN s.pools
      BY <1>2, RatesAreThere
    <3> QED BY <1>3, <3>1, <3>2, PoolAdvice
  <2> QED BY <2>1, <2>2
<1> QED BY <1>4, <1>5

\* No virtual machine, host or array is told two things, but for the warning that an array
\* is too full, however many pools and collectors see it (waste.py: one finding per moref).
THEOREM OneThingOneAdvice == Spec => []OneAdvicePerThing
<1>1. IInv => OneAdvicePerThing
  BY AdviceIsOne
<1> QED BY <1>1, AlwaysIInv, PTL

----------------------------------------------------------------------------
(* What the virtual machines of a pool could give back.                     *)

\* The rows of a pool's vms: a part of what each has, in hundredths.
RowsFit(p, u) == \A vm \in p.vms : vm.uid \in DOMAIN u =>
    /\ Running(vm)
    /\ u[vm.uid].vcpu \in Nat /\ u[vm.uid].vcpu <= 100 * vm.vcpu
    /\ u[vm.uid].ram \in Nat /\ u[vm.uid].ram <= 100 * vm.ram

LEMMA PoolRowsFit ==
    ASSUME NEW r, IsRaw(r), NEW s, SeenSite(r, s), NEW i \in DOMAIN s.pools PROVE RowsFit(s.pools[i], s.usage)
<1> SUFFICES ASSUME NEW vm \in s.pools[i].vms, vm.uid \in DOMAIN s.usage
             PROVE  /\ Running(vm)
                    /\ s.usage[vm.uid].vcpu \in Nat /\ s.usage[vm.uid].vcpu <= 100 * vm.vcpu
                    /\ s.usage[vm.uid].ram \in Nat /\ s.usage[vm.uid].ram <= 100 * vm.ram
  BY DEF RowsFit
<1>1. vm \in AllVms(r) /\ vm.uid \in DOMAIN r.vms /\ vm = Vm(r, vm.uid)
  BY SeenVms
<1>2. s.usage = UsageRows(r, AllVms(r))
  BY DEF SeenSite
<1>3. Running(vm) /\ s.usage[vm.uid] = Row(r, vm)
  BY <1>1, <1>2, UsageIsMeasured
<1>4. vm.vcpu \in Nat /\ vm.ram \in Nat
  BY <1>1, VmFields
<1>5. PICK a \in 0 .. 100, b \in 0 .. 100 : a = Pct(r, vm.uid, "cpu") /\ b = Pct(r, vm.uid, "ram")
  BY PctIsPart
<1>6. s.usage[vm.uid].vcpu = vm.vcpu * a /\ s.usage[vm.uid].ram = vm.ram * b
  BY <1>3, <1>5 DEF Row
<1>7. \A n \in Nat : \A q \in 0 .. 100 : n * q \in Nat /\ n * q <= 100 * n
  OBVIOUS
<1> QED BY <1>3, <1>4, <1>6, <1>7

\* The size that fits is no larger than what there is.
LEMMA FitIsPart == ASSUME NEW p95 \in Nat, NEW has \in Nat PROVE Fit(p95, has) \in 0 .. has
<1>1. TargetPct \in Nat \ {0}
  BY TuningAssumption
<1>2. PICK a \in Int : a = p95 + TargetPct - 1
  BY <1>1
<1>3. PICK q \in Int : q = (p95 + TargetPct - 1) \div TargetPct
  BY <1>1, <1>2, DivRoundsDown
<1> QED BY <1>3 DEF Fit, AtMost, AtLeast

LEMMA HandbackIsShare ==
    ASSUME NEW x, NEW n
    PROVE  /\ Handback(x, "cpu", n) = Share(x.money, x.weights.cpu, n, AtLeast(x.cap.vcpu, x.reserved.vcpu))
           /\ Handback(x, "ram", n) = Share(x.money, x.weights.ram, n, AtLeast(x.cap.ram, x.reserved.ram))
           /\ Handback(x, "storage", n) = Share(x.money, x.weights.storage, n, AtLeast(x.cap.storage, x.reserved.storage))
  BY DEF Handback

LEMMA HandbackGrows ==
    ASSUME NEW x, IsPriced(x), NEW dim \in {"cpu", "ram", "storage"}, NEW a \in Nat, NEW b \in Nat, a <= b
    PROVE  Handback(x, dim, a) \in Nat /\ Handback(x, dim, b) \in Nat /\ Handback(x, dim, a) <= Handback(x, dim, b)
<1>1. \A n \in Nat \ {0} : \A q \in Nat : AtLeast(n, q) \in Nat \ {0}
  BY DEF AtLeast
<1>2. PICK m \in Nat, w1 \in Nat, w2 \in Nat, w3 \in Nat :
          m = x.money /\ w1 = x.weights.cpu /\ w2 = x.weights.ram /\ w3 = x.weights.storage
  BY DEF IsPriced, IsWeights
<1>3. PICK k1 \in Nat \ {0}, k2 \in Nat \ {0}, k3 \in Nat \ {0} :
          /\ k1 = AtLeast(x.cap.vcpu, x.reserved.vcpu)
          /\ k2 = AtLeast(x.cap.ram, x.reserved.ram)
          /\ k3 = AtLeast(x.cap.storage, x.reserved.storage)
  BY <1>1 DEF IsPriced
<1>4. CASE dim = "cpu"
  <2>1. Handback(x, dim, a) = Share(m, w1, a, k1) /\ Handback(x, dim, b) = Share(m, w1, b, k1)
    BY <1>2, <1>3, <1>4, HandbackIsShare
  <2> QED BY <2>1, ShareGrows
<1>5. CASE dim = "ram"
  <2>1. Handback(x, dim, a) = Share(m, w2, a, k2) /\ Handback(x, dim, b) = Share(m, w2, b, k2)
    BY <1>2, <1>3, <1>5, HandbackIsShare
  <2> QED BY <2>1, ShareGrows
<1>6. CASE dim = "storage"
  <2>1. Handback(x, dim, a) = Share(m, w3, a, k3) /\ Handback(x, dim, b) = Share(m, w3, b, k3)
    BY <1>2, <1>3, <1>6, HandbackIsShare
  <2> QED BY <2>1, ShareGrows
<1> QED BY <1>4, <1>5, <1>6

\* All that a vm could give back.
Offer(x, vm) ==
    Handback(x, "cpu", Provisioned(vm).vcpu) + Handback(x, "ram", Provisioned(vm).ram)
    + Handback(x, "storage", Provisioned(vm).disk)

LEMMA OfferIsNat ==
    ASSUME NEW p, IsPool(p), NEW x, IsPriced(x), NEW vm \in p.vms
    PROVE  /\ Handback(x, "cpu", Provisioned(vm).vcpu) \in Nat /\ Handback(x, "ram", Provisioned(vm).ram) \in Nat
           /\ Handback(x, "storage", Provisioned(vm).disk) \in Nat /\ Offer(x, vm) \in Nat
<1>1. PICK a \in Nat, b \in Nat, d \in Nat :
          a = Provisioned(vm).vcpu /\ b = Provisioned(vm).ram /\ d = Provisioned(vm).disk
  BY ProvisionedIsNat
<1>2. Handback(x, "cpu", a) \in Nat /\ Handback(x, "ram", b) \in Nat /\ Handback(x, "storage", d) \in Nat
  BY HandbackGrows
<1> QED BY <1>1, <1>2 DEF Offer

\* One finding about a vm offers no more than all of it.
LEMMA FindingWithinOffer ==
    ASSUME NEW p, IsPool(p), NEW x, IsPriced(x), NEW u, RowsFit(p, u), NEW f,
           OfDisk(f, p, x) \/ OfUsage(f, p, x, u)
    PROVE  \E vm \in p.vms : f.uid = vm.uid /\ f.monthly \in Nat /\ f.monthly <= Offer(x, vm)
<1>1. CASE OfDisk(f, p, x)
  <2>1. PICK vm \in p.vms : f.uid = vm.uid /\ f.monthly = Handback(x, "storage", vm.committed)
    BY <1>1 DEF OfDisk
  <2>2. Provisioned(vm).disk = vm.committed
    BY DEF Provisioned
  <2>3. PICK a \in Nat, b \in Nat, d \in Nat :
            /\ a = Handback(x, "cpu", Provisioned(vm).vcpu) /\ b = Handback(x, "ram", Provisioned(vm).ram)
            /\ d = Handback(x, "storage", Provisioned(vm).disk)
    BY OfferIsNat
  <2>4. f.monthly = d /\ Offer(x, vm) = a + b + d
    BY <2>1, <2>2, <2>3 DEF Offer
  <2> QED BY <2>1, <2>4
<1>2. CASE OfUsage(f, p, x, u)
  <2>1. PICK vm \in p.vms :
            /\ vm.uid \in DOMAIN u /\ Running(vm) /\ f.uid = vm.uid
            /\ f.monthly = IdleWorth(x, vm) \/ f.monthly = ShrinkWorth(x, vm, u[vm.uid])
    BY <1>2 DEF OfUsage
  <2>13. PICK row : row = u[vm.uid]
    OBVIOUS
  <2>14. PICK n \in Nat, k \in Nat : n = vm.vcpu /\ k = vm.ram
    BY DEF IsPool
  <2>2. n = vm.vcpu /\ k = vm.ram /\ row = u[vm.uid]
    BY <2>13, <2>14
  <2>3. Provisioned(vm).vcpu = n /\ Provisioned(vm).ram = k
    BY <2>1, <2>2 DEF Provisioned
  <2>4. PICK y \in 0 .. n, z \in 0 .. k : y = Fit(row.vcpu, n) /\ z = Fit(row.ram, k)
    BY <2>1, <2>2, FitIsPart DEF RowsFit
  <2>5. PICK a \in Nat, b \in Nat, d \in Nat :
            /\ a = Handback(x, "cpu", n) /\ b = Handback(x, "ram", k)
            /\ d = Handback(x, "storage", Provisioned(vm).disk)
    BY <2>3, OfferIsNat
  <2>6. Offer(x, vm) = a + b + d
    BY <2>3, <2>5 DEF Offer
  <2>7. PICK n1 \in Nat, k1 \in Nat : n1 = n - y /\ k1 = k - z /\ n1 <= n /\ k1 <= k
    OBVIOUS
  <2>8. PICK a1 \in Nat, b1 \in Nat :
            a1 = Handback(x, "cpu", n1) /\ b1 = Handback(x, "ram", k1) /\ a1 <= a /\ b1 <= b
    BY <2>5, <2>7, HandbackGrows
  <2>9. IdleWorth(x, vm) = a + b
    BY <2>2, <2>5 DEF IdleWorth
  <2>10. ShrinkWorth(x, vm, row) = a1 + b1
    BY <2>2, <2>4, <2>7, <2>8 DEF ShrinkWorth
  <2>11. f.monthly = a + b \/ f.monthly = a1 + b1
    BY <2>1, <2>2, <2>9, <2>10
  <2>12. f.monthly \in Nat /\ f.monthly <= a + b + d
    BY <2>8, <2>11
  <2> QED BY <2>1, <2>6, <2>12
<1> QED BY <1>1, <1>2

\* A factor of both sides may be left out.
LEMMA CancelFactor == ASSUME NEW a \in Int, NEW b \in Int, NEW d \in Nat \ {0}, a * d <= b * d PROVE a <= b
<1> SUFFICES ASSUME b + 1 <= a PROVE FALSE
  OBVIOUS
<1>1. (b + 1) * d <= a * d
  OBVIOUS
<1>2. (b + 1) * d = b * d + d
  OBVIOUS
<1> QED BY <1>1, <1>2

\* What is taken of one dimension, in proportion to what there is of it.
LEMMA PartOfDimension ==
    ASSUME NEW m \in Nat, NEW w \in Nat, NEW D \in Nat \ {0}, NEW T, IsFiniteSet(T), NEW f, NEW g,
           NEW n \in Nat, n = SumFunctionOnSet(f, T),
           \A x \in T : f[x] \in Nat /\ g[x] = Share(m, w, f[x], D)
    PROVE  SumFunctionOnSet(g, T) \in Int /\ SumFunctionOnSet(g, T) * (100 * D) <= n * (m * w)
<1>1. PICK mw \in Nat, z \in Nat \ {0} : mw = m * w /\ z = 100 * D
  OBVIOUS
<1>2. \A x \in T : f[x] \in Int /\ g[x] = (f[x] * mw) \div z
  <2> SUFFICES ASSUME NEW x \in T PROVE f[x] \in Int /\ g[x] = (f[x] * mw) \div z
    OBVIOUS
  <2>1. PICK a \in Nat : a = f[x]
    OBVIOUS
  <2>2. g[x] = (m * w * a) \div (100 * D)
    BY <2>1 DEF Share
  <2>3. m * w * a = a * mw
    BY <1>1
  <2> QED BY <1>1, <2>1, <2>2, <2>3
<1>3. PICK k \in Int : k = mw
  OBVIOUS
<1>4. \A x \in T : f[x] \in Int /\ g[x] = (f[x] * k) \div z
  BY <1>2, <1>3
<1>5. SumFunctionOnSet(g, T) \in Int /\ SumFunctionOnSet(g, T) * z <= SumFunctionOnSet(f, T) * k
  BY <1>4, SumOfShares
<1> QED BY <1>1, <1>3, <1>5

\* What is taken of one dimension by two parties who together take no more than there is, is within its weight.
LEMMA TwoParts ==
    ASSUME NEW mw \in Nat, NEW c \in Nat \ {0}, NEW n \in Nat, NEW k \in Nat, n + k <= c,
           NEW s \in Int, NEW t \in Int, s * (100 * c) <= n * mw, t * (100 * c) <= k * mw
    PROVE  (s + t) * 100 <= mw
<1>1. n * mw + k * mw <= mw * c
  <2>1. (n + k) * mw <= c * mw
    OBVIOUS
  <2>2. (n + k) * mw = n * mw + k * mw /\ c * mw = mw * c
    OBVIOUS
  <2> QED BY <2>1, <2>2
<1>2. ((s + t) * 100) * c = s * (100 * c) + t * (100 * c)
  OBVIOUS
<1>3. ((s + t) * 100) * c <= mw * c
  <2>1. s * (100 * c) \in Int /\ t * (100 * c) \in Int /\ n * mw \in Int /\ k * mw \in Int /\ mw * c \in Int
    OBVIOUS
  <2> QED BY <1>1, <1>2, <2>1
<1>4. PICK a \in Int : a = (s + t) * 100
  OBVIOUS
<1> QED BY <1>3, <1>4, CancelFactor

\* What is taken of one dimension at the rate of what is there, or reserved if that is more, is within its weight.
LEMMA OneDimension ==
    ASSUME NEW m \in Nat, NEW w \in Nat, NEW cap \in Nat \ {0}, NEW T, IsFiniteSet(T), NEW f, NEW g,
           NEW n \in Nat, n = SumFunctionOnSet(f, T),
           \A x \in T : f[x] \in Nat /\ g[x] = Share(m, w, f[x], AtLeast(cap, n))
    PROVE  SumFunctionOnSet(g, T) \in Int /\ SumFunctionOnSet(g, T) * 100 <= m * w
<1>1. PICK D \in Nat \ {0} : D = AtLeast(cap, n) /\ n <= D
  BY DEF AtLeast
<1>2. PICK mw \in Nat : mw = m * w
  OBVIOUS
<1>3. PICK t \in Int : t = SumFunctionOnSet(g, T) /\ t * (100 * D) <= n * mw
  <2>1. \A x \in T : f[x] \in Nat /\ g[x] = Share(m, w, f[x], D)
    BY <1>1
  <2> QED BY <1>2, <2>1, PartOfDimension
<1>4. 0 * (100 * D) <= 0 * mw /\ n + 0 <= D
  BY <1>1
<1>5. (t + 0) * 100 <= mw
  BY <1>3, <1>4, TwoParts
<1> QED BY <1>2, <1>3, <1>5

\* All vms of a pool together could not give back more of a dimension than its weight, nor
\* more than what they reserve of it, where they reserve no more than there is.
LEMMA OffersByDimension ==
    ASSUME NEW p, IsPool(p), NEW x, IsPriced(x), NEW u, IsBill(x, p, u), NEW all,
           all = [vm \in p.vms |-> Offer(x, vm)]
    PROVE  \E ta, tb, td \in Int :
               /\ SumFunctionOnSet(all, p.vms) = ta + tb + td
               /\ ta * 100 <= x.money * x.weights.cpu /\ tb * 100 <= x.money * x.weights.ram
               /\ td * 100 <= x.money * x.weights.storage
               /\ x.reserved.vcpu <= x.cap.vcpu =>
                      ta * (100 * x.cap.vcpu) <= x.reserved.vcpu * (x.money * x.weights.cpu)
               /\ x.reserved.ram <= x.cap.ram =>
                      tb * (100 * x.cap.ram) <= x.reserved.ram * (x.money * x.weights.ram)
<1>1. PICK a, b, d :
          /\ a = [vm \in p.vms |-> Handback(x, "cpu", Provisioned(vm).vcpu)]
          /\ b = [vm \in p.vms |-> Handback(x, "ram", Provisioned(vm).ram)]
          /\ d = [vm \in p.vms |-> Handback(x, "storage", Provisioned(vm).disk)]
  OBVIOUS
<1>2. PICK A, B, C :
          /\ A = [vm \in p.vms |-> Provisioned(vm).vcpu]
          /\ B = [vm \in p.vms |-> Provisioned(vm).ram]
          /\ C = [vm \in p.vms |-> Provisioned(vm).disk]
  OBVIOUS
<1>3. IsFiniteSet(p.vms)
  BY DEF IsPool
<1>4. PICK m \in Nat, w1 \in Nat, w2 \in Nat, w3 \in Nat :
          /\ m = x.money /\ w1 = x.weights.cpu /\ w2 = x.weights.ram /\ w3 = x.weights.storage
  <2>1. x.money \in Nat /\ IsWeights(x.weights)
    BY DEF IsPriced
  <2>2. PICK w : w = x.weights
    OBVIOUS
  <2>3. w.cpu \in Nat /\ w.ram \in Nat /\ w.storage \in Nat
    BY <2>1, <2>2 DEF IsWeights
  <2> QED BY <2>1, <2>2, <2>3
<1>5. PICK n1 \in Nat, n2 \in Nat, n3 \in Nat :
          n1 = x.reserved.vcpu /\ n2 = x.reserved.ram /\ n3 = x.reserved.storage
  BY DEF IsPriced
<1>6. n1 = SumFunctionOnSet(A, p.vms) /\ n2 = SumFunctionOnSet(B, p.vms) /\ n3 = SumFunctionOnSet(C, p.vms)
  BY <1>2, <1>5 DEF IsBill
<1>7. PICK c1 \in Nat \ {0}, c2 \in Nat \ {0}, c3 \in Nat \ {0} :
          c1 = x.cap.vcpu /\ c2 = x.cap.ram /\ c3 = x.cap.storage
  BY DEF IsPriced
<1>8. \A vm \in p.vms :
          /\ A[vm] \in Nat /\ a[vm] = Share(m, w1, A[vm], AtLeast(c1, n1))
          /\ B[vm] \in Nat /\ b[vm] = Share(m, w2, B[vm], AtLeast(c2, n2))
          /\ C[vm] \in Nat /\ d[vm] = Share(m, w3, C[vm], AtLeast(c3, n3))
  BY <1>1, <1>2, <1>4, <1>5, <1>7, ProvisionedIsNat, HandbackIsShare
<1>9. PICK ta \in Int, tb \in Int, td \in Int :
          /\ ta = SumFunctionOnSet(a, p.vms) /\ ta * 100 <= m * w1
          /\ n1 <= c1 => ta * (100 * c1) <= n1 * (m * w1)
          /\ tb = SumFunctionOnSet(b, p.vms) /\ tb * 100 <= m * w2
          /\ n2 <= c2 => tb * (100 * c2) <= n2 * (m * w2)
          /\ td = SumFunctionOnSet(d, p.vms) /\ td * 100 <= m * w3
  <2>1. SumFunctionOnSet(a, p.vms) \in Int /\ SumFunctionOnSet(a, p.vms) * 100 <= m * w1
    <3>1. \A vm \in p.vms : A[vm] \in Nat /\ a[vm] = Share(m, w1, A[vm], AtLeast(c1, n1))
      BY <1>8
    <3>2. n1 = SumFunctionOnSet(A, p.vms)
      BY <1>6
    <3> QED BY <1>3, <3>1, <3>2, OneDimension
  <2>2. SumFunctionOnSet(b, p.vms) \in Int /\ SumFunctionOnSet(b, p.vms) * 100 <= m * w2
    <3>1. \A vm \in p.vms : B[vm] \in Nat /\ b[vm] = Share(m, w2, B[vm], AtLeast(c2, n2))
      BY <1>8
    <3>2. n2 = SumFunctionOnSet(B, p.vms)
      BY <1>6
    <3> QED BY <1>3, <3>1, <3>2, OneDimension
  <2>3. SumFunctionOnSet(d, p.vms) \in Int /\ SumFunctionOnSet(d, p.vms) * 100 <= m * w3
    <3>1. \A vm \in p.vms : C[vm] \in Nat /\ d[vm] = Share(m, w3, C[vm], AtLeast(c3, n3))
      BY <1>8
    <3>2. n3 = SumFunctionOnSet(C, p.vms)
      BY <1>6
    <3> QED BY <1>3, <3>1, <3>2, OneDimension
  <2>4. ASSUME n1 <= c1 PROVE SumFunctionOnSet(a, p.vms) * (100 * c1) <= n1 * (m * w1)
    <3>1. AtLeast(c1, n1) = c1
      BY <2>4 DEF AtLeast
    <3>2. \A vm \in p.vms : A[vm] \in Nat /\ a[vm] = Share(m, w1, A[vm], c1)
      BY <1>8, <3>1
    <3>3. n1 = SumFunctionOnSet(A, p.vms)
      BY <1>6
    <3> QED BY <1>3, <3>2, <3>3, PartOfDimension
  <2>5. ASSUME n2 <= c2 PROVE SumFunctionOnSet(b, p.vms) * (100 * c2) <= n2 * (m * w2)
    <3>1. AtLeast(c2, n2) = c2
      BY <2>5 DEF AtLeast
    <3>2. \A vm \in p.vms : B[vm] \in Nat /\ b[vm] = Share(m, w2, B[vm], c2)
      BY <1>8, <3>1
    <3>3. n2 = SumFunctionOnSet(B, p.vms)
      BY <1>6
    <3> QED BY <1>3, <3>2, <3>3, PartOfDimension
  <2> QED BY <2>1, <2>2, <2>3, <2>4, <2>5
<1>10. \A vm \in p.vms : a[vm] \in Int /\ b[vm] \in Int /\ d[vm] \in Int
  BY <1>1, OfferIsNat
<1>11. PICK e : e = [vm \in p.vms |-> a[vm] + b[vm]]
  OBVIOUS
<1>12. SumFunctionOnSet(e, p.vms) = ta + tb
  <2>1. \A vm \in p.vms : a[vm] \in Int /\ b[vm] \in Int /\ e[vm] = a[vm] + b[vm]
    BY <1>10, <1>11
  <2>2. SumFunctionOnSet(e, p.vms) = SumFunctionOnSet(a, p.vms) + SumFunctionOnSet(b, p.vms)
    BY <1>3, <2>1, SumOfSums
  <2> QED BY <1>9, <2>2
<1>13. \A vm \in p.vms : e[vm] \in Int /\ all[vm] = e[vm] + d[vm]
  <2> SUFFICES ASSUME NEW vm \in p.vms PROVE e[vm] \in Int /\ all[vm] = e[vm] + d[vm]
    OBVIOUS
  <2>1. PICK h1 \in Int, h2 \in Int, h3 \in Int : h1 = a[vm] /\ h2 = b[vm] /\ h3 = d[vm]
    BY <1>10
  <2>2. all[vm] = h1 + h2 + h3
    BY <1>1, <2>1 DEF Offer
  <2>3. e[vm] = h1 + h2
    BY <1>11, <2>1
  <2> QED BY <2>1, <2>2, <2>3
<1>14. SumFunctionOnSet(all, p.vms) = ta + tb + td
  <2>0. \A vm \in p.vms : e[vm] \in Int /\ d[vm] \in Int /\ all[vm] = e[vm] + d[vm]
    BY <1>10, <1>13
  <2>1. SumFunctionOnSet(all, p.vms) = SumFunctionOnSet(e, p.vms) + SumFunctionOnSet(d, p.vms)
    BY <1>3, <2>0, SumOfSums
  <2> QED BY <1>9, <1>12, <2>1
<1> QED BY <1>4, <1>5, <1>7, <1>9, <1>14

\* No two pools of a site have one key.
LEMMA KeysAreOfOne ==
    ASSUME NEW r, IsRaw(r), NEW s, SeenSite(r, s), NEW i \in DOMAIN s.pools, NEW j \in DOMAIN s.pools,
           s.pools[i].key = s.pools[j].key
    PROVE  i = j
  BY DEF IsRaw, SeenSite

\* What is found about the vms of a pool with a price.
LEMMA VmFinding ==
    ASSUME NEW g, Stands(g), NEW i \in DOMAIN Rates(config, report.site), NEW f \in report.findings,
           f.region = report.site.pools[i].key, f.kind \in VmKinds
    PROVE  \E vm \in report.site.pools[i].vms :
               /\ f.uid = vm.uid /\ f.monthly \in Nat
               /\ f.monthly <= Offer(Rates(config, report.site)[i], vm)
<1>1. PICK s, R : s = report.site /\ R = Rates(config, s)
  OBVIOUS
<1>2. IsRaw(raw) /\ SeenSite(raw, s) /\ IsConfig(config)
  BY <1>1 DEF Stands
<1>3. ~FoundInSite(f, s, R, g)
  <2>1. FoundInSite(f, s, R, g) => f.kind \in {"orphan-vm", "unmounted-datastore", "unaccounted-storage"}
    BY DEF FoundInSite, OfOrphan, OfUnmounted, OfGap
  <2> QED BY <2>1 DEF VmKinds
<1>4. PICK j \in DOMAIN R : FoundInPool(f, s.pools[j], R[j], s.usage)
  BY <1>1, <1>3, EachIsFound
<1>5. i \in DOMAIN s.pools /\ j \in DOMAIN s.pools
  BY <1>1, RatesAreThere
<1>6. j = i
  <2>1. f.region = s.pools[j].key
    BY <1>4 DEF FoundInPool
  <2> QED BY <1>1, <1>2, <1>5, <2>1, KeysAreOfOne
<1>7. PICK p, x : p = s.pools[i] /\ x = R[i]
  OBVIOUS
<1>8. IsPool(p) /\ IsPriced(x)
  BY <1>1, <1>2, <1>5, <1>7, SeenPools
<1>9. RowsFit(p, s.usage)
  BY <1>2, <1>5, <1>7, PoolRowsFit
<1>10. OfDisk(f, p, x) \/ OfUsage(f, p, x, s.usage)
  <2>1. OfHost(f, p, x) => f.kind \in {"zombie-host", "powered-off-host"}
    BY DEF OfHost
  <2>2. OfArray(f, p) => f.kind = "thin-overcommit"
    BY DEF OfArray
  <2> QED BY <1>4, <1>6, <1>7, <2>1, <2>2 DEF FoundInPool, VmKinds
<1>11. \E vm \in p.vms : f.uid = vm.uid /\ f.monthly \in Nat /\ f.monthly <= Offer(x, vm)
  BY <1>8, <1>9, <1>10, FindingWithinOffer
<1> QED BY <1>1, <1>7, <1>11

\* A sum over one set is no more than a sum over another, when each thing in the first stands for one
\* of the second that is worth as much.
LEMMA SumByDeputies ==
    ASSUME NEW F, IsFiniteSet(F), NEW T, IsFiniteSet(T), NEW h, NEW a, NEW b,
           \A x \in F : h[x] \in T, \A x, y \in F : h[x] = h[y] => x = y,
           \A x \in F : a[x] \in Nat /\ a[x] <= b[h[x]], \A y \in T : b[y] \in Nat
    PROVE  SumFunctionOnSet(a, F) \in Nat /\ SumFunctionOnSet(a, F) <= SumFunctionOnSet(b, T)
<1>1. PICK e : e = [x \in F |-> b[h[x]]]
  OBVIOUS
<1>2. \A x \in F : a[x] \in Int /\ e[x] \in Int /\ a[x] <= e[x]
  BY <1>1
<1>3. /\ SumFunctionOnSet(a, F) \in Int /\ SumFunctionOnSet(e, F) \in Int
      /\ SumFunctionOnSet(a, F) <= SumFunctionOnSet(e, F)
  BY <1>2, SumMonotone
<1>4. PICK S \in SUBSET T : S = {h[x] : x \in F}
  OBVIOUS
<1>5. \A x \in F : e[x] = b[h[x]] /\ b[h[x]] \in Int
  BY <1>1
<1>6. SumFunctionOnSet(b, S) = SumFunctionOnSet(e, F)
  <2>1. SumFunctionOnSet(b, {h[x] : x \in F}) = SumFunctionOnSet(e, F)
    BY <1>5, SumOfImage
  <2> QED BY <1>4, <2>1
<1>7. /\ SumFunctionOnSet(b, S) \in Nat /\ SumFunctionOnSet(b, T) \in Nat
      /\ SumFunctionOnSet(b, S) <= SumFunctionOnSet(b, T)
  BY SumOfSubset
<1>8. SumFunctionOnSet(a, F) \in Nat
  BY SumOfNats
<1>9. PICK m \in Int, n \in Int, k \in Int :
          m = SumFunctionOnSet(a, F) /\ n = SumFunctionOnSet(e, F) /\ k = SumFunctionOnSet(b, T)
  BY <1>3, <1>7
<1>10. m <= n /\ n <= k
  BY <1>3, <1>6, <1>7, <1>9
<1> QED BY <1>8, <1>9, <1>10

\* The pools with a price are those that there are rates of.
LEMMA RateOfPriced ==
    ASSUME NEW i \in DOMAIN report.site.pools
    PROVE  /\ i \in PricedPools <=> i \in DOMAIN Rates(config, report.site)
           /\ i \in DOMAIN Rates(config, report.site) => Rates(config, report.site)[i] = Numbered[i]
<1>1. PICK s, N : s = report.site /\ N = [k \in DOMAIN s.pools |-> AllocatePool(config, s.pools[k], s.usage)]
  OBVIOUS
<1>2. N = Numbered /\ i \in DOMAIN s.pools
  BY <1>1 DEF Numbered
<1>3. N[i] = AllocatePool(config, s.pools[i], s.usage)
  BY <1>1, <1>2
<1>4. DOMAIN Rates(config, s) = {k \in DOMAIN s.pools : AllocatePool(config, s.pools[k], s.usage) # Refused}
  BY RatesAreThere
<1>5. i \in PricedPools <=> N[i] # Refused
  BY <1>2 DEF PricedPools
<1>6. i \in DOMAIN Rates(config, s) <=> AllocatePool(config, s.pools[i], s.usage) # Refused
  BY <1>2, <1>4
<1>7. i \in DOMAIN Rates(config, s) => Rates(config, s)[i] = AllocatePool(config, s.pools[i], s.usage)
  BY RatesAreThere
<1> QED BY <1>1, <1>2, <1>3, <1>5, <1>6, <1>7

\* What is offered of a pool by some kinds of findings is no more than what the things they
\* are about are worth, when each finding is about one of them.
LEMMA OfferedByDeputies ==
    ASSUME IInv, Reported, NEW g, Stands(g), NEW i, NEW kinds, "thin-overcommit" \notin kinds,
           NEW T, IsFiniteSet(T), NEW b, \A t \in T : b[t] \in Nat,
           \A f \in report.findings :
               f.region = report.site.pools[i].key /\ f.kind \in kinds =>
                   \E t \in T : f.uid = t.uid /\ f.monthly \in Nat /\ f.monthly <= b[t]
    PROVE  OfferedIn(i, kinds) \in Nat /\ OfferedIn(i, kinds) <= SumFunctionOnSet(b, T)
<1>1. PICK F : F = {f \in report.findings : f.region = report.site.pools[i].key /\ f.kind \in kinds}
  OBVIOUS
<1>2. IsFiniteSet(F) /\ F \subseteq report.findings
  <2>1. PICK s : s = report.site
    OBVIOUS
  <2>2. IsRaw(raw) /\ SeenSite(raw, s) /\ IsConfig(config) /\ report.findings = Recommendations(config, s, g)
    BY <2>1 DEF Stands
  <2>3. IsFiniteSet(report.findings)
    BY <2>2, FindingsAreSomebodys
  <2> QED BY <1>1, <2>3, FS_Subset
<1>3. \A f \in F : \E t \in T : f.uid = t.uid /\ f.monthly \in Nat /\ f.monthly <= b[t]
  BY <1>1
<1>4. PICK h : h = [f \in F |-> CHOOSE t \in T : f.uid = t.uid /\ f.monthly \in Nat /\ f.monthly <= b[t]]
  OBVIOUS
<1>5. \A f \in F : h[f] \in T /\ f.uid = h[f].uid /\ f.monthly \in Nat /\ f.monthly <= b[h[f]]
  BY <1>3, <1>4
<1>6. \A f, e \in F : h[f] = h[e] => f = e
  <2>1. \A f, e \in F : f.uid = e.uid => f = e
    BY <1>1, <1>2, AdviceIsOne DEF OneAdvicePerThing
  <2> QED BY <1>5, <2>1
<1>7. PICK a : a = [f \in F |-> f.monthly]
  OBVIOUS
<1>8. \A f \in F : h[f] \in T /\ a[f] \in Nat /\ a[f] <= b[h[f]]
  BY <1>5, <1>7
<1>9. SumFunctionOnSet(a, F) \in Nat /\ SumFunctionOnSet(a, F) <= SumFunctionOnSet(b, T)
  BY <1>2, <1>6, <1>8, SumByDeputies
<1>10. OfferedIn(i, kinds) = SumFunctionOnSet(a, F)
  BY <1>1, <1>7 DEF OfferedIn, Sum
<1> QED BY <1>9, <1>10

\* What is found about the hosts of a pool with a price is worth their part of it, and such a host does not stay.
HostWorth(x, h) ==
    Share(x.money, x.weights.cpu, h.cores, x.cap.vcpu) + Share(x.money, x.weights.ram, h.ram, x.cap.ram)

LEMMA HostFinding ==
    ASSUME NEW g, Stands(g), NEW i \in DOMAIN Rates(config, report.site), NEW f \in report.findings,
           f.region = report.site.pools[i].key, f.kind \in HostKinds
    PROVE  \E h \in report.site.pools[i].hosts \ HostsThatStay(i) :
               f.uid = h.uid /\ f.monthly = HostWorth(Rates(config, report.site)[i], h)
<1>1. PICK s, R : s = report.site /\ R = Rates(config, s)
  OBVIOUS
<1>2. IsRaw(raw) /\ SeenSite(raw, s) /\ IsConfig(config)
  BY <1>1 DEF Stands
<1>3. ~FoundInSite(f, s, R, g)
  <2>1. FoundInSite(f, s, R, g) => f.kind \in {"orphan-vm", "unmounted-datastore", "unaccounted-storage"}
    BY DEF FoundInSite, OfOrphan, OfUnmounted, OfGap
  <2> QED BY <2>1 DEF HostKinds
<1>4. PICK j \in DOMAIN R : FoundInPool(f, s.pools[j], R[j], s.usage)
  BY <1>1, <1>3, EachIsFound
<1>5. i \in DOMAIN s.pools /\ j \in DOMAIN s.pools
  BY <1>1, RatesAreThere
<1>6. j = i
  <2>1. f.region = s.pools[j].key
    BY <1>4 DEF FoundInPool
  <2> QED BY <1>1, <1>2, <1>5, <2>1, KeysAreOfOne
<1>7. PICK p, x : p = s.pools[i] /\ x = R[i]
  OBVIOUS
<1>8. OfHost(f, p, x)
  <2>1. OfDisk(f, p, x) => f.kind \in VmKinds
    BY DEF OfDisk, VmKinds
  <2>2. OfArray(f, p) => f.kind = "thin-overcommit"
    BY DEF OfArray
  <2>3. OfUsage(f, p, x, s.usage) => f.kind \in VmKinds
    BY DEF OfUsage, VmKinds
  <2> QED BY <1>4, <1>6, <1>7, <2>1, <2>2, <2>3 DEF FoundInPool, HostKinds, VmKinds
<1>9. PICK h \in p.hosts : f.uid = h.uid /\ f.monthly = HostWorth(x, h)
  BY <1>8 DEF OfHost, HostWorth
<1>10. h \notin HostsThatStay(i)
  BY <1>9 DEF HostsThatStay
<1> QED BY <1>1, <1>7, <1>9, <1>10

\* The hosts of a pool that may go and those that stay are its hosts, and those that may go
\* are worth their part of each dimension.
Worth(x, H) == SumFunctionOnSet([h \in H |-> HostWorth(x, h)], H)
Cores(H) == SumFunctionOnSet([h \in H |-> h.cores], H)
Memory(H) == SumFunctionOnSet([h \in H |-> h.ram], H)
RatedAt(x, m, w1, w2, c1, c2) ==
    m = x.money /\ w1 = x.weights.cpu /\ w2 = x.weights.ram /\ c1 = x.cap.vcpu /\ c2 = x.cap.ram
GoneByDimension(x, gone, kept, m, w1, w2, c1, c2) ==
    \E s, t \in Int, k, l \in Nat :
        /\ Worth(x, gone) = s + t
        /\ s * (100 * c1) <= k * (m * w1) /\ t * (100 * c2) <= l * (m * w2)
        /\ Cores(kept) + k = c1 /\ Memory(kept) + l = c2

LEMMA HostsByDimension ==
    ASSUME NEW p, IsPool(p), NEW x, x.cap = Capacity(p),
           NEW m \in Nat, NEW w1 \in Nat, NEW w2 \in Nat, NEW c1 \in Nat \ {0}, NEW c2 \in Nat \ {0},
           RatedAt(x, m, w1, w2, c1, c2), NEW kept \in SUBSET p.hosts
    PROVE  /\ \A h \in p.hosts \ kept : HostWorth(x, h) \in Nat
           /\ Cores(kept) \in Int /\ Memory(kept) \in Int
           /\ GoneByDimension(x, p.hosts \ kept, kept, m, w1, w2, c1, c2)
<1>1. PICK gone : gone = p.hosts \ kept
  OBVIOUS
<1>2. /\ IsFiniteSet(gone) /\ IsFiniteSet(kept) /\ gone \cap kept = {} /\ kept \cup gone = p.hosts
      /\ gone \subseteq p.hosts
  <2>1. IsFiniteSet(p.hosts)
    BY DEF IsPool
  <2> QED BY <1>1, <2>1, FS_Subset
<1>3. \A h \in p.hosts : h.cores \in Nat /\ h.ram \in Nat
  BY DEF IsPool
<1>4. PICK A, B : A = [h \in p.hosts |-> h.cores] /\ B = [h \in p.hosts |-> h.ram]
  OBVIOUS
<1>5. \A h \in p.hosts : A[h] \in Nat /\ B[h] \in Nat /\ A[h] \in Int /\ B[h] \in Int
  BY <1>3, <1>4
<1>6. PICK k \in Nat, l \in Nat : k = SumFunctionOnSet(A, gone) /\ l = SumFunctionOnSet(B, gone)
  <2>1. (\A h \in gone : A[h] \in Nat) /\ (\A h \in gone : B[h] \in Nat)
    BY <1>2, <1>5
  <2> QED BY <1>2, <2>1, SumOfNats
<1>7. PICK y \in Int : y = Cores(kept) /\ y + k = c1
  <2>1. PICK e : e = [h \in kept |-> h.cores]
    OBVIOUS
  <2>2. \A h \in kept : A[h] \in Int /\ e[h] \in Int /\ A[h] = e[h]
    BY <1>4, <1>5, <2>1
  <2>3. SumFunctionOnSet(A, kept) = SumFunctionOnSet(e, kept)
    BY <1>2, <2>2, SumAgrees
  <2>4. \A h \in kept \cup gone : A[h] \in Int
    BY <1>2, <1>5
  <2>5. /\ SumFunctionOnSet(A, kept) \in Int
        /\ SumFunctionOnSet(A, kept \cup gone) = SumFunctionOnSet(A, kept) + SumFunctionOnSet(A, gone)
    BY <1>2, <2>4, SumOfUnion
  <2>6. c1 = SumFunctionOnSet(A, p.hosts)
    BY <1>4 DEF RatedAt, Capacity, Sum
  <2>7. Cores(kept) = SumFunctionOnSet(e, kept)
    BY <2>1 DEF Cores
  <2> QED BY <1>2, <1>6, <2>3, <2>5, <2>6, <2>7
<1>8. PICK z \in Int : z = Memory(kept) /\ z + l = c2
  <2>1. PICK e : e = [h \in kept |-> h.ram]
    OBVIOUS
  <2>2. \A h \in kept : B[h] \in Int /\ e[h] \in Int /\ B[h] = e[h]
    BY <1>4, <1>5, <2>1
  <2>3. SumFunctionOnSet(B, kept) = SumFunctionOnSet(e, kept)
    BY <1>2, <2>2, SumAgrees
  <2>4. \A h \in kept \cup gone : B[h] \in Int
    BY <1>2, <1>5
  <2>5. /\ SumFunctionOnSet(B, kept) \in Int
        /\ SumFunctionOnSet(B, kept \cup gone) = SumFunctionOnSet(B, kept) + SumFunctionOnSet(B, gone)
    BY <1>2, <2>4, SumOfUnion
  <2>6. c2 = SumFunctionOnSet(B, p.hosts)
    BY <1>4 DEF RatedAt, Capacity, Sum
  <2>7. Memory(kept) = SumFunctionOnSet(e, kept)
    BY <2>1 DEF Memory
  <2> QED BY <1>2, <1>6, <2>3, <2>5, <2>6, <2>7
<1>9. PICK a, b, all :
           /\ all = [h \in gone |-> HostWorth(x, h)]
           /\ a = [h \in gone |-> Share(m, w1, A[h], c1)]
           /\ b = [h \in gone |-> Share(m, w2, B[h], c2)]
  OBVIOUS
<1>10. \A h \in gone : a[h] \in Nat /\ b[h] \in Nat /\ all[h] = a[h] + b[h]
  <2> SUFFICES ASSUME NEW h \in gone PROVE a[h] \in Nat /\ b[h] \in Nat /\ all[h] = a[h] + b[h]
    OBVIOUS
  <2>1. PICK n \in Nat, q \in Nat : n = A[h] /\ q = B[h] /\ n = h.cores /\ q = h.ram
    BY <1>2, <1>4, <1>5
  <2>2. a[h] = Share(m, w1, n, c1) /\ b[h] = Share(m, w2, q, c2)
    BY <1>9, <2>1
  <2>3. Share(m, w1, n, c1) \in Nat /\ Share(m, w2, q, c2) \in Nat
    <3>1. n <= n /\ q <= q
      OBVIOUS
    <3> QED BY <3>1, ShareGrows
  <2>4. all[h] = Share(m, w1, n, c1) + Share(m, w2, q, c2)
    BY <1>9, <2>1 DEF HostWorth, RatedAt
  <2> QED BY <2>2, <2>3, <2>4
<1>11. PICK s \in Int : s = SumFunctionOnSet(a, gone) /\ s * (100 * c1) <= k * (m * w1)
  <2>1. \A h \in gone : A[h] \in Nat /\ a[h] = Share(m, w1, A[h], c1)
    BY <1>2, <1>5, <1>9
  <2>2. IsFiniteSet(gone) /\ k = SumFunctionOnSet(A, gone)
    BY <1>2, <1>6
  <2>3. SumFunctionOnSet(a, gone) \in Int /\ SumFunctionOnSet(a, gone) * (100 * c1) <= k * (m * w1)
    BY <2>1, <2>2, PartOfDimension
  <2> QED BY <2>3
<1>12. PICK t \in Int : t = SumFunctionOnSet(b, gone) /\ t * (100 * c2) <= l * (m * w2)
  <2>1. \A h \in gone : B[h] \in Nat /\ b[h] = Share(m, w2, B[h], c2)
    BY <1>2, <1>5, <1>9
  <2>2. IsFiniteSet(gone) /\ l = SumFunctionOnSet(B, gone)
    BY <1>2, <1>6
  <2>3. SumFunctionOnSet(b, gone) \in Int /\ SumFunctionOnSet(b, gone) * (100 * c2) <= l * (m * w2)
    BY <2>1, <2>2, PartOfDimension
  <2> QED BY <2>3
<1>13. SumFunctionOnSet(all, gone) = s + t
  <2>1. \A h \in gone : a[h] \in Int /\ b[h] \in Int /\ all[h] = a[h] + b[h]
    BY <1>10
  <2>2. SumFunctionOnSet(all, gone) = SumFunctionOnSet(a, gone) + SumFunctionOnSet(b, gone)
    BY <1>2, <2>1, SumOfSums
  <2> QED BY <1>11, <1>12, <2>2
<1>14. ASSUME NEW h \in p.hosts \ kept PROVE HostWorth(x, h) \in Nat
  <2>1. PICK n \in Nat, q \in Nat : n = a[h] /\ q = b[h] /\ all[h] = n + q
    BY <1>1, <1>10
  <2>2. all[h] = HostWorth(x, h)
    BY <1>1, <1>9
  <2> QED BY <2>1, <2>2
<1>15. Worth(x, p.hosts \ kept) = s + t
  BY <1>1, <1>9, <1>13 DEF Worth
<1> QED BY <1>7, <1>8, <1>11, <1>12, <1>14, <1>15 DEF GoneByDimension

\* The vms of a pool are told to give back no more than it costs, and with its hosts no more
\* either, when what they reserve fits on the hosts that stay.
LEMMA PoolOffersFit == ASSUME IInv PROVE PoolOffersWithinTheBill
<1> SUFFICES ASSUME Reported, NEW i \in PricedPools
             PROVE  /\ OfferedIn(i, VmKinds) <= Numbered[i].money
                    /\ FitsOnWhatStays(i) =>
                           OfferedIn(i, VmKinds) + OfferedIn(i, HostKinds) <= Numbered[i].money
  BY DEF PoolOffersWithinTheBill
<1>1. PICK g \in Guests : Stands(g)
  BY ReportStands
<1>2. PICK s, R : s = report.site /\ R = Rates(config, s)
  OBVIOUS
<1>3. IsRaw(raw) /\ SeenSite(raw, s) /\ IsConfig(config)
  BY <1>1, <1>2 DEF Stands
<1>4. i \in DOMAIN R /\ R[i] = Numbered[i]
  <2>1. i \in DOMAIN report.site.pools
    BY DEF PricedPools
  <2> QED BY <1>2, <2>1, RateOfPriced
<1>5. PICK p, x : p = s.pools[i] /\ x = R[i]
  OBVIOUS
<1>6. IsPool(p) /\ IsPriced(x) /\ IsBill(x, p, s.usage)
  BY <1>2, <1>3, <1>4, <1>5, SeenPools
<1>7. PICK m \in Nat, w1 \in Nat, w2 \in Nat, w3 \in Nat :
          /\ m = x.money /\ w1 = x.weights.cpu /\ w2 = x.weights.ram /\ w3 = x.weights.storage
          /\ w1 + w2 + w3 = 100
  <2>1. x.money \in Nat /\ IsWeights(x.weights)
    BY <1>6 DEF IsPriced
  <2>2. PICK w : w = x.weights
    OBVIOUS
  <2>3. w.cpu \in Nat /\ w.ram \in Nat /\ w.storage \in Nat /\ w.cpu + w.ram + w.storage = 100
    BY <2>1, <2>2 DEF IsWeights
  <2> QED BY <2>1, <2>2, <2>3
<1>8. m * w1 + m * w2 + m * w3 = m * 100
  <2>1. m * w1 + m * w2 + m * w3 = m * (w1 + w2 + w3)
    OBVIOUS
  <2> QED BY <1>7, <2>1
<1>9. PICK c1 \in Nat \ {0}, c2 \in Nat \ {0}, n1 \in Nat, n2 \in Nat :
          /\ c1 = x.cap.vcpu /\ c2 = x.cap.ram /\ n1 = x.reserved.vcpu /\ n2 = x.reserved.ram
  BY <1>6 DEF IsPriced
<1>10. PICK b : b = [vm \in p.vms |-> Offer(x, vm)]
  OBVIOUS
<1>11. PICK ta \in Int, tb \in Int, td \in Int :
           /\ SumFunctionOnSet(b, p.vms) = ta + tb + td
           /\ ta * 100 <= m * w1 /\ tb * 100 <= m * w2 /\ td * 100 <= m * w3
           /\ n1 <= c1 => ta * (100 * c1) <= n1 * (m * w1)
           /\ n2 <= c2 => tb * (100 * c2) <= n2 * (m * w2)
  <2>1. PICK ta \in Int, tb \in Int, td \in Int :
            /\ SumFunctionOnSet(b, p.vms) = ta + tb + td
            /\ ta * 100 <= x.money * x.weights.cpu /\ tb * 100 <= x.money * x.weights.ram
            /\ td * 100 <= x.money * x.weights.storage
            /\ x.reserved.vcpu <= x.cap.vcpu =>
                   ta * (100 * x.cap.vcpu) <= x.reserved.vcpu * (x.money * x.weights.cpu)
            /\ x.reserved.ram <= x.cap.ram =>
                   tb * (100 * x.cap.ram) <= x.reserved.ram * (x.money * x.weights.ram)
    BY <1>6, <1>10, OffersByDimension
  <2>2. ta * 100 <= m * w1 /\ tb * 100 <= m * w2 /\ td * 100 <= m * w3
    BY <1>7, <2>1
  <2>3. /\ n1 <= c1 => ta * (100 * c1) <= n1 * (m * w1)
        /\ n2 <= c2 => tb * (100 * c2) <= n2 * (m * w2)
    BY <1>7, <1>9, <2>1
  <2> QED BY <2>1, <2>2, <2>3
<1>12. OfferedIn(i, VmKinds) \in Nat /\ OfferedIn(i, VmKinds) <= ta + tb + td
  <2>1. \A vm \in p.vms : b[vm] \in Nat
    BY <1>6, <1>10, OfferIsNat
  <2>2. IsFiniteSet(p.vms)
    BY <1>6 DEF IsPool
  <2>3. \A f \in report.findings :
            f.region = report.site.pools[i].key /\ f.kind \in VmKinds =>
                \E vm \in p.vms : f.uid = vm.uid /\ f.monthly \in Nat /\ f.monthly <= b[vm]
    BY <1>1, <1>2, <1>4, <1>5, <1>10, VmFinding
  <2>4. "thin-overcommit" \notin VmKinds
    BY DEF VmKinds
  <2> QED BY <1>1, <1>11, <2>1, <2>2, <2>3, <2>4, OfferedByDeputies
<1>13. OfferedIn(i, VmKinds) <= m
  <2>1. m * w1 \in Int /\ m * w2 \in Int /\ m * w3 \in Int /\ m * 100 \in Int
    OBVIOUS
  <2>2. (ta + tb + td) * 100 <= m * 100
    BY <1>8, <1>11, <2>1
  <2>3. ta + tb + td <= m
    BY <2>2
  <2> QED BY <1>12, <2>3
<1>14. ASSUME FitsOnWhatStays(i) PROVE OfferedIn(i, VmKinds) + OfferedIn(i, HostKinds) <= m
  <2>1. PICK kept : kept = HostsThatStay(i)
    OBVIOUS
  <2>2. kept \in SUBSET p.hosts
    BY <1>2, <1>5, <2>1 DEF HostsThatStay
  <2>3. x.cap = Capacity(p)
    BY <1>6 DEF IsBill
  <2>4. PICK sa \in Int, sb \in Int, k \in Nat, l \in Nat :
            /\ \A h \in p.hosts \ kept : HostWorth(x, h) \in Nat
            /\ Cores(kept) \in Int /\ Memory(kept) \in Int
            /\ Worth(x, p.hosts \ kept) = sa + sb
            /\ sa * (100 * c1) <= k * (m * w1) /\ sb * (100 * c2) <= l * (m * w2)
            /\ Cores(kept) + k = c1 /\ Memory(kept) + l = c2
    <3>1. IsPool(p) /\ RatedAt(x, m, w1, w2, c1, c2)
      BY <1>6, <1>7, <1>9 DEF RatedAt
    <3>2. (\A h \in p.hosts \ kept : HostWorth(x, h) \in Nat) /\ Cores(kept) \in Int /\ Memory(kept) \in Int
      BY <2>2, <2>3, <3>1, HostsByDimension
    <3>3. GoneByDimension(x, p.hosts \ kept, kept, m, w1, w2, c1, c2)
      BY <2>2, <2>3, <3>1, HostsByDimension
    <3> QED BY <3>2, <3>3 DEF GoneByDimension
  <2>5. n1 + k <= c1 /\ n2 + l <= c2
    <3>1. n1 <= Cores(kept) /\ n2 <= Memory(kept)
      BY <1>2, <1>4, <1>5, <1>9, <1>14, <2>1, <2>4 DEF FitsOnWhatStays, Cores, Memory, Sum
    <3> QED BY <2>4, <3>1
  <2>6. (ta + sa) * 100 <= m * w1
    <3>1. PICK mw \in Nat : mw = m * w1
      OBVIOUS
    <3>2. ta * (100 * c1) <= n1 * mw /\ sa * (100 * c1) <= k * mw
      BY <1>11, <2>4, <2>5, <3>1
    <3> QED BY <2>5, <3>1, <3>2, TwoParts
  <2>7. (tb + sb) * 100 <= m * w2
    <3>1. PICK mw \in Nat : mw = m * w2
      OBVIOUS
    <3>2. tb * (100 * c2) <= n2 * mw /\ sb * (100 * c2) <= l * mw
      BY <1>11, <2>4, <2>5, <3>1
    <3> QED BY <2>5, <3>1, <3>2, TwoParts
  <2>8. ta + tb + td + sa + sb <= m
    <3>1. m * w1 \in Int /\ m * w2 \in Int /\ m * w3 \in Int /\ m * 100 \in Int
      OBVIOUS
    <3>2. (ta + tb + td + sa + sb) * 100 <= m * 100
      BY <1>8, <1>11, <2>6, <2>7, <3>1
    <3> QED BY <3>2
  <2>9. OfferedIn(i, HostKinds) \in Nat /\ OfferedIn(i, HostKinds) <= sa + sb
    <3>1. PICK gone, e : gone = p.hosts \ kept /\ e = [h \in gone |-> HostWorth(x, h)]
      OBVIOUS
    <3>2. IsFiniteSet(gone)
      <4>1. IsFiniteSet(p.hosts)
        BY <1>6 DEF IsPool
      <4> QED BY <3>1, <4>1, FS_Subset
    <3>3. \A h \in gone : e[h] \in Nat
      BY <2>4, <3>1
    <3>4. ASSUME NEW f \in report.findings, f.region = report.site.pools[i].key, f.kind \in HostKinds
          PROVE  \E h \in gone : f.uid = h.uid /\ f.monthly \in Nat /\ f.monthly <= e[h]
      <4>1. PICK h \in gone : f.uid = h.uid /\ f.monthly = HostWorth(x, h)
        BY <1>1, <1>2, <1>4, <1>5, <2>1, <3>1, <3>4, HostFinding
      <4>2. PICK n \in Nat : n = e[h]
        BY <3>3
      <4>3. f.monthly = n
        BY <3>1, <4>1, <4>2
      <4> QED BY <4>1, <4>2, <4>3
    <3>5. "thin-overcommit" \notin HostKinds
      BY DEF HostKinds
    <3>6. SumFunctionOnSet(e, gone) = sa + sb
      BY <2>4, <3>1 DEF Worth
    <3> QED BY <1>1, <3>2, <3>3, <3>4, <3>5, <3>6, OfferedByDeputies
  <2> QED BY <1>12, <2>8, <2>9
<1> QED BY <1>4, <1>5, <1>7, <1>13, <1>14

----------------------------------------------------------------------------
(* What the site has left over.                                             *)

MountedArrays(r) == {Datastore(r, d) : d \in DOMAIN r.datastores \cap Mounted(r)}

LEMMA ArrayFields ==
    ASSUME NEW r, IsRaw(r), NEW d \in DOMAIN r.datastores
    PROVE  /\ Datastore(r, d).uid = d /\ Datastore(r, d).cap \in Nat /\ Datastore(r, d).free \in Nat
<1>1. PICK a : a = r.datastores[d]
  OBVIOUS
<1>2. a.cap \in Nat /\ a.free \in Nat
  BY <1>1, RawParts DEF IsArray, Unit
<1> QED BY <1>1, <1>2 DEF Datastore

\* The arrays of the pools are those that some host mounts: every host is in a pool.
LEMMA ArraysOfPools ==
    ASSUME NEW r, IsRaw(r), NEW s, SeenSite(r, s)
    PROVE  /\ UNION {s.pools[i].datastores : i \in DOMAIN s.pools} = MountedArrays(r)
           /\ s.datastores \ s.unmounted = MountedArrays(r)
           /\ IsFiniteSet(MountedArrays(r))
           /\ \A d \in MountedArrays(r) : d.cap \in Nat /\ d.free \in Nat
<1>1. \A i \in DOMAIN Members(r) :
          s.pools[i].datastores = {Datastore(r, d) : d \in Group(r, Members(r)[i].hosts).ds}
  BY PoolFields DEF SeenSite
<1>2. DOMAIN s.pools = DOMAIN Members(r)
  BY DEF SeenSite
<1>3. ASSUME NEW i \in DOMAIN s.pools, NEW e \in s.pools[i].datastores PROVE e \in MountedArrays(r)
  <2>1. PICK d \in Group(r, Members(r)[i].hosts).ds : e = Datastore(r, d)
    BY <1>1, <1>2, <1>3
  <2>2. d \in DOMAIN r.datastores /\ \E h \in Members(r)[i].hosts : d \in r.hosts[h].ds
    BY <2>1, GroupFields
  <2>3. Members(r)[i].hosts \subseteq DOMAIN r.hosts
    BY <1>2, MembersAreHosts
  <2> QED BY <2>1, <2>2, <2>3 DEF MountedArrays, Mounted
<1>4. ASSUME NEW e \in MountedArrays(r) PROVE \E i \in DOMAIN s.pools : e \in s.pools[i].datastores
  <2>1. PICK d \in DOMAIN r.datastores \cap Mounted(r) : e = Datastore(r, d)
    BY DEF MountedArrays
  <2>2. PICK h \in DOMAIN r.hosts : d \in r.hosts[h].ds
    BY <2>1 DEF Mounted
  <2>3. PICK i \in DOMAIN Members(r) : h \in Members(r)[i].hosts
    BY MembersAreHosts
  <2>4. d \in Group(r, Members(r)[i].hosts).ds
    BY <2>1, <2>2, <2>3, GroupFields
  <2> QED BY <1>1, <1>2, <2>1, <2>3, <2>4
<1>5. UNION {s.pools[i].datastores : i \in DOMAIN s.pools} = MountedArrays(r)
  BY <1>3, <1>4
<1>6. \A d, e \in DOMAIN r.datastores : Datastore(r, d) = Datastore(r, e) => d = e
  BY ArrayFields
<1>7. s.datastores \ s.unmounted = MountedArrays(r)
  BY <1>6 DEF SeenSite, MountedArrays
<1>8. IsFiniteSet(MountedArrays(r))
  BY <1>7, SiteFindingsAreFinite, FS_Subset
<1>9. \A d \in MountedArrays(r) : d.cap \in Nat /\ d.free \in Nat
  BY ArrayFields DEF MountedArrays
<1> QED BY <1>5, <1>7, <1>8, <1>9

\* Space in use is on what the pools have, and what is claimed is what all vms occupy.
LEMMA SpaceOfSite ==
    ASSUME NEW r, IsRaw(r), NEW s, SeenSite(r, s), NEW R, DOMAIN R = DOMAIN s.pools
    PROVE  /\ UsedGib(s) \in Int /\ ArrayGib(s, R) \in Nat /\ UsedGib(s) <= ArrayGib(s, R)
           /\ \E size : /\ ClaimedGib(s) = SumFunctionOnSet(size, DOMAIN r.vms)
                        /\ \A v \in DOMAIN r.vms : size[v] \in Nat /\ Vm(r, v).committed = size[v]
<1>1. PICK D : D = MountedArrays(r)
  OBVIOUS
<1>2. IsFiniteSet(D) /\ \A d \in D : d.cap \in Nat /\ d.free \in Nat
  BY <1>1, ArraysOfPools
<1>3. PICK a, b : a = [d \in D |-> d.cap - d.free] /\ b = [d \in D |-> d.cap]
  OBVIOUS
<1>4. UsedGib(s) = SumFunctionOnSet(a, D)
  <2>1. s.datastores \ s.unmounted = D
    BY <1>1, ArraysOfPools
  <2> QED BY <1>3, <2>1 DEF UsedGib, Sum
<1>5. ArrayGib(s, R) = SumFunctionOnSet(b, D)
  <2>1. UNION {s.pools[i].datastores : i \in DOMAIN R} = D
    BY <1>1, ArraysOfPools
  <2> QED BY <1>3, <2>1 DEF ArrayGib, Sum
<1>6. \A d \in D : a[d] \in Int /\ b[d] \in Int /\ a[d] <= b[d]
  <2> SUFFICES ASSUME NEW d \in D PROVE a[d] \in Int /\ b[d] \in Int /\ a[d] <= b[d]
    OBVIOUS
  <2>1. PICK m \in Nat, n \in Nat : m = d.cap /\ n = d.free
    BY <1>2
  <2> QED BY <1>3, <2>1
<1>7. /\ SumFunctionOnSet(a, D) \in Int
      /\ SumFunctionOnSet(a, D) <= SumFunctionOnSet(b, D)
  BY <1>2, <1>6, SumMonotone
<1>8. SumFunctionOnSet(b, D) \in Nat
  <2>1. \A d \in D : b[d] \in Nat
    BY <1>2, <1>3
  <2> QED BY <1>2, <2>1, SumOfNats
<1>17. PICK size : \A v \in DOMAIN r.vms : size[v] = Vm(r, v).committed
  <2>1. PICK size : size = [v \in DOMAIN r.vms |-> Vm(r, v).committed]
    OBVIOUS
  <2> QED BY <2>1
<1>9. \A v \in DOMAIN r.vms : size[v] \in Nat /\ Vm(r, v).committed = size[v] /\ Vm(r, v).uid = v
  BY <1>17, VmFields
<1>10. PICK f, h : f = [vm \in AllVms(r) |-> vm.committed] /\ h = [v \in DOMAIN r.vms |-> Vm(r, v)]
  OBVIOUS
<1>11. AllVms(r) = {h[v] : v \in DOMAIN r.vms}
  BY <1>10 DEF AllVms
<1>12. \A v, w \in DOMAIN r.vms : h[v] = h[w] => v = w
  BY <1>9, <1>10
<1>13. \A v \in DOMAIN r.vms : size[v] = f[h[v]] /\ f[h[v]] \in Int
  <2> SUFFICES ASSUME NEW v \in DOMAIN r.vms PROVE size[v] = f[h[v]] /\ f[h[v]] \in Int
    OBVIOUS
  <2>1. PICK e \in AllVms(r) : e = Vm(r, v) /\ e = h[v]
    BY <1>10 DEF AllVms
  <2>2. f[e] = e.committed
    BY <1>10
  <2>3. size[v] \in Int /\ size[v] = e.committed
    <3>1. size[v] \in Nat /\ Vm(r, v).committed = size[v]
      BY <1>9
    <3> QED BY <2>1, <3>1
  <2>4. f[h[v]] = e.committed
    BY <2>1, <2>2
  <2> QED BY <2>3, <2>4
<1>14. IsFiniteSet(DOMAIN r.vms)
  BY RawParts
<1>15. SumFunctionOnSet(f, {h[v] : v \in DOMAIN r.vms}) = SumFunctionOnSet(size, DOMAIN r.vms)
  BY <1>12, <1>13, <1>14, SumOfImage
<1>16. ClaimedGib(s) = SumFunctionOnSet(f, AllVms(r))
  BY <1>10 DEF ClaimedGib, Sum, SeenSite
<1>18. ClaimedGib(s) = SumFunctionOnSet(size, DOMAIN r.vms)
  BY <1>11, <1>15, <1>16
<1> QED BY <1>4, <1>5, <1>7, <1>8, <1>9, <1>18

LEMMA ExplainedIsNat == ASSUME NEW G, IsGuests(G), NEW n \in Int PROVE Explained(n, G) \in Nat
<1>1. PICK f : f = [g \in G |-> AtLeast(g.detached, 0)]
  OBVIOUS
<1>2. \A g \in G : f[g] \in Nat
  BY <1>1 DEF IsGuests, AtLeast
<1>3. PICK k \in Nat : k = SumFunctionOnSet(f, G)
  BY <1>2, SumOfNats DEF IsGuests
<1>4. Sum(LAMBDA g : AtLeast(g.detached, 0), G) = k
  BY <1>1, <1>3 DEF Sum
<1>5. Explained(n, G) = AtMost(k, AtLeast(n, 0))
  BY <1>4 DEF Explained
<1> QED BY <1>3, <1>5 DEF AtMost, AtLeast

\* A gap that is reported is no more than what is in use and not claimed.
LEMMA GapIsUnclaimed ==
    ASSUME NEW s, NEW G, IsGuests(G), UsedGib(s) \in Int, ClaimedGib(s) \in Int, UnaccountedIn(s, G) # None
    PROVE  UnaccountedIn(s, G) \in Nat /\ UnaccountedIn(s, G) <= UsedGib(s) - ClaimedGib(s)
<1>1. PICK used \in Int, claimed \in Int : used = UsedGib(s) /\ claimed = ClaimedGib(s)
  OBVIOUS
<1>2. PICK n \in Int : n = used - claimed
  OBVIOUS
<1>3. PICK e \in Nat : e = Explained(n, G)
  BY ExplainedIsNat
<1>4. UnaccountedIn(s, G) = n - e /\ ~(n - e < UnaccountedGib)
  BY <1>1, <1>2, <1>3 DEF UnaccountedIn
<1>5. UnaccountedGib \in Nat
  BY TuningAssumption
<1> QED BY <1>1, <1>2, <1>4, <1>5

LEMMA StorageMoneyIsNat ==
    ASSUME NEW R, IsFiniteSet(DOMAIN R), \A i \in DOMAIN R : IsPriced(R[i]) PROVE StorageMoney(R) \in Nat
<1>1. PICK f : f = [i \in DOMAIN R |-> Share(R[i].money, R[i].weights.storage, 1, 1)]
  OBVIOUS
<1>2. ASSUME NEW i \in DOMAIN R PROVE f[i] \in Nat
  <2>0. PICK w : w = R[i].weights
    OBVIOUS
  <2>4. PICK m \in Nat : m = R[i].money
    BY DEF IsPriced
  <2>1. m = R[i].money /\ w = R[i].weights /\ IsWeights(w)
    BY <2>0, <2>4 DEF IsPriced
  <2>2. PICK y \in Nat : y = w.storage
    BY <2>1 DEF IsWeights
  <2>3. Share(m, y, 1, 1) \in Nat
    <3>1. 1 \in Nat \ {0} /\ 1 \in Nat /\ 1 <= 1
      OBVIOUS
    <3> QED BY <3>1, ShareGrows
  <2> QED BY <1>1, <2>1, <2>2, <2>3
<1>3. SumFunctionOnSet(f, DOMAIN R) \in Nat
  BY <1>2, SumOfNats
<1> QED BY <1>1, <1>3 DEF StorageMoney, Sum

\* A pool with a price has an array, so a site with one does.
LEMMA SomeArrayIsThere ==
    ASSUME NEW r, IsRaw(r), NEW s, SeenSite(r, s), NEW R, DOMAIN R \subseteq DOMAIN s.pools, NEW i \in DOMAIN R,
           IsPriced(R[i]), NEW u, IsBill(R[i], s.pools[i], u)
    PROVE  ArrayGib(s, R) \in Nat \ {0}
<1>1. PICK D, P : D = UNION {s.pools[j].datastores : j \in DOMAIN R} /\ P = s.pools[i].datastores
  OBVIOUS
<1>2. IsFiniteSet(D) /\ \A d \in D : d.cap \in Nat
  <2>1. D \subseteq UNION {s.pools[j].datastores : j \in DOMAIN s.pools}
    BY <1>1
  <2>2. D \subseteq MountedArrays(r)
    BY <2>1, ArraysOfPools
  <2> QED BY <2>2, ArraysOfPools, FS_Subset
<1>3. UNION {s.pools[j].datastores : j \in DOMAIN R} = D
  BY <1>1
<1>4. P \in SUBSET D
  BY <1>1, <1>3
<1>5. PICK b, e : b = [d \in D |-> d.cap] /\ e = [d \in P |-> d.cap]
  OBVIOUS
<1>6. \A d \in D : b[d] \in Nat
  BY <1>2, <1>5
<1>7. /\ SumFunctionOnSet(b, P) \in Nat /\ SumFunctionOnSet(b, D) \in Nat
      /\ SumFunctionOnSet(b, P) <= SumFunctionOnSet(b, D)
  BY <1>2, <1>4, <1>6, SumOfSubset
<1>8. SumFunctionOnSet(e, P) = SumFunctionOnSet(b, P)
  <2>1. IsFiniteSet(P)
    BY <1>2, <1>4, FS_Subset
  <2>2. \A d \in P : e[d] \in Int /\ e[d] = b[d]
    BY <1>2, <1>4, <1>5
  <2> QED BY <2>1, <2>2, SumAgrees
<1>9. SumFunctionOnSet(e, P) \in Nat \ {0}
  <2>1. R[i].cap.storage = SumFunctionOnSet(e, P)
    <3>1. R[i].cap = Capacity(s.pools[i])
      BY DEF IsBill
    <3> QED BY <1>1, <1>5, <3>1 DEF Capacity, Sum
  <2> QED BY <2>1 DEF IsPriced
<1>10. ArrayGib(s, R) = SumFunctionOnSet(b, D)
  BY <1>3, <1>5 DEF ArrayGib, Sum
<1> QED BY <1>7, <1>8, <1>9, <1>10

LEMMA StorageIsShare ==
    ASSUME NEW s, NEW R, StorageMoney(R) \in Nat, ArrayGib(s, R) \in Nat \ {0}, NEW n \in Nat
    PROVE  SiteStorage(s, R, n) = (n * StorageMoney(R)) \div ArrayGib(s, R) /\ SiteStorage(s, R, n) \in Nat
<1>0. PICK M \in Nat, A \in Nat \ {0} : M = StorageMoney(R) /\ A = ArrayGib(s, R)
  OBVIOUS
<1>1. M * n = n * M /\ n * M \in Nat
  OBVIOUS
<1>2. PICK q \in Int : q = (n * M) \div A
  <2>1. PICK y \in Int : y = n * M
    BY <1>1
  <2>2. y \div A \in Int
    BY DivRoundsDown
  <2> QED BY <2>1, <2>2
<1>3. 0 <= q
  <2>1. 0 * A <= n * M
    BY <1>1
  <2> QED BY <1>1, <1>2, <2>1, DivIsAtLeast
<1>4. CASE n = 0
  <2>1. 0 * M = 0 /\ 0 <= 0 * A
    OBVIOUS
  <2>2. (n * M) \div A <= 0
    BY <1>1, <1>4, <2>1, DivIsAtMost
  <2>3. q = 0
    BY <1>2, <1>3, <2>2
  <2> QED BY <1>0, <1>2, <1>4, <2>3 DEF SiteStorage
<1>5. CASE n # 0
  <2>1. SiteStorage(s, R, n) = (M * n) \div A
    BY <1>0, <1>5 DEF SiteStorage
  <2> QED BY <1>0, <1>1, <1>2, <1>3, <2>1
<1> QED BY <1>4, <1>5

LEMMA AllPoolsPriced ==
    ASSUME PricedPools = DOMAIN report.site.pools
    PROVE  Numbered = Rates(config, report.site) /\ DOMAIN Numbered = DOMAIN report.site.pools
<1>1. PICK s, N : s = report.site /\ N = [i \in DOMAIN s.pools |-> AllocatePool(config, s.pools[i], s.usage)]
  OBVIOUS
<1>2. N = Numbered
  BY <1>1 DEF Numbered
<1>3. {i \in DOMAIN N : N[i] # Refused} = DOMAIN N
  BY <1>1, <1>2 DEF PricedPools
<1>4. Rates(config, s) = [i \in {k \in DOMAIN N : N[k] # Refused} |-> N[i]]
  BY <1>1 DEF Rates, RestrictValues, Restrict
<1>5. Rates(config, s) = N
  BY <1>1, <1>3, <1>4
<1> QED BY <1>1, <1>2, <1>5

\* What the orphans occupy and what nobody accounts for is no more than the arrays hold.
LEMMA LeftoversFitArrays ==
    ASSUME NEW r, IsRaw(r), NEW s, SeenSite(r, s), NEW R, DOMAIN R = DOMAIN s.pools, NEW G, IsGuests(G),
           ClaimedGib(s) <= ArrayGib(s, R)
    PROVE  \E size : \E gap \in Nat :
               /\ \A v \in DOMAIN r.vms : size[v] \in Nat /\ Vm(r, v).committed = size[v]
               /\ UnaccountedIn(s, G) # None => gap = UnaccountedIn(s, G)
               /\ SumFunctionOnSet(size, DOMAIN r.vms \ Placed(r)) \in Nat
               /\ SumFunctionOnSet(size, DOMAIN r.vms \ Placed(r)) + gap <= ArrayGib(s, R)
<1>1. PICK size : /\ ClaimedGib(s) = SumFunctionOnSet(size, DOMAIN r.vms)
                  /\ \A v \in DOMAIN r.vms : size[v] \in Nat /\ Vm(r, v).committed = size[v]
  BY SpaceOfSite
<1>2. PICK V, O : V = DOMAIN r.vms /\ O = DOMAIN r.vms \ Placed(r)
  OBVIOUS
<1>3. IsFiniteSet(V) /\ O \in SUBSET V /\ \A v \in V : size[v] \in Nat
  BY <1>1, <1>2, RawParts
<1>4. PICK o \in Nat, c \in Nat : o = SumFunctionOnSet(size, O) /\ c = SumFunctionOnSet(size, V) /\ o <= c
  BY <1>3, SumOfSubset
<1>5. PICK used \in Int, A \in Nat : used = UsedGib(s) /\ A = ArrayGib(s, R) /\ used <= A
  BY SpaceOfSite
<1>6. c = ClaimedGib(s) /\ c <= A
  BY <1>1, <1>2, <1>4, <1>5
<1>7. PICK gap : gap = IF UnaccountedIn(s, G) # None THEN UnaccountedIn(s, G) ELSE 0
  OBVIOUS
<1>8. gap \in Nat /\ o + gap <= A
  <2>1. CASE UnaccountedIn(s, G) # None
    <3>1. gap \in Nat /\ gap <= used - c
      BY <1>5, <1>6, <1>7, <2>1, GapIsUnclaimed
    <3> QED BY <1>4, <1>5, <3>1
  <2>2. CASE UnaccountedIn(s, G) = None
    BY <1>4, <1>6, <1>7, <2>2
  <2> QED BY <2>1, <2>2
<1>9. SumFunctionOnSet(size, DOMAIN r.vms \ Placed(r)) = o
  BY <1>2, <1>4
<1> QED BY <1>1, <1>5, <1>7, <1>8, <1>9

LEMMA LeftoversFit == ASSUME IInv PROVE LeftoversWithinTheStorage
<1> SUFFICES ASSUME Reported, PricedPools = DOMAIN report.site.pools,
                    ClaimedGib(report.site) <= ArrayGib(report.site, Numbered)
             PROVE  Sum(LAMBDA f : f.monthly,
                        {f \in report.findings : f.kind \in {"unaccounted-storage", "orphan-vm"}})
                    <= StorageMoney(Numbered)
  BY DEF LeftoversWithinTheStorage
<1>1. PICK g \in Guests : Stands(g)
  BY ReportStands
<1>2. PICK s, R : s = report.site /\ R = Rates(config, s)
  OBVIOUS
<1>3. /\ IsRaw(raw) /\ SeenSite(raw, s) /\ IsConfig(config) /\ IsGuests(g)
      /\ report.findings = Recommendations(config, s, g)
  BY <1>1, <1>2 DEF Stands
<1>4. R = Numbered /\ DOMAIN R = DOMAIN s.pools
  BY <1>2, AllPoolsPriced
<1>5. \A i \in DOMAIN R : IsPriced(R[i]) /\ IsBill(R[i], s.pools[i], s.usage)
  BY <1>2, <1>3, SeenPools
<1>6. IsFiniteSet(DOMAIN R)
  BY <1>3, <1>4, MembersAreHosts DEF SeenSite
<1>7. PICK M \in Nat : M = StorageMoney(R)
  BY <1>5, <1>6, StorageMoneyIsNat
<1>8. PICK F : F = {f \in report.findings : f.kind \in {"unaccounted-storage", "orphan-vm"}}
  OBVIOUS
<1>9. IsFiniteSet(F) /\ F \subseteq report.findings
  <2>1. IsFiniteSet(report.findings)
    BY <1>3, FindingsAreSomebodys
  <2> QED BY <1>8, <2>1, FS_Subset
<1>10. PICK a : a = [f \in F |-> f.monthly]
  OBVIOUS
<1>11. Sum(LAMBDA f : f.monthly, {f \in report.findings : f.kind \in {"unaccounted-storage", "orphan-vm"}})
       = SumFunctionOnSet(a, F)
  BY <1>8, <1>10 DEF Sum
<1>12. CASE F = {}
  <2>1. SumFunctionOnSet(a, F) = 0
    BY <1>12, SumOfEmpty
  <2> QED BY <1>4, <1>7, <1>11, <2>1
<1>13. CASE F # {}
  <2>1. PICK i \in DOMAIN R : TRUE
    <3>1. DOMAIN R = {} => report.findings = {}
      BY <1>2, <1>3, FindingsAreSomebodys
    <3> QED BY <1>9, <1>13, <3>1
  <2>2. PICK A \in Nat \ {0} : A = ArrayGib(s, R)
    BY <1>3, <1>4, <1>5, <2>1, SomeArrayIsThere
  <2>3. ClaimedGib(s) <= ArrayGib(s, R)
    BY <1>2, <1>4
  <2>23. PICK size : \E gap \in Nat :
            /\ \A v \in DOMAIN raw.vms : size[v] \in Nat /\ Vm(raw, v).committed = size[v]
            /\ UnaccountedIn(s, g) # None => gap = UnaccountedIn(s, g)
            /\ SumFunctionOnSet(size, DOMAIN raw.vms \ Placed(raw)) \in Nat
            /\ SumFunctionOnSet(size, DOMAIN raw.vms \ Placed(raw)) + gap <= ArrayGib(s, R)
    BY <1>3, <1>4, <2>3, LeftoversFitArrays
  <2>4. PICK gap \in Nat :
            /\ \A v \in DOMAIN raw.vms : size[v] \in Nat /\ Vm(raw, v).committed = size[v]
            /\ UnaccountedIn(s, g) # None => gap = UnaccountedIn(s, g)
            /\ SumFunctionOnSet(size, DOMAIN raw.vms \ Placed(raw)) \in Nat
            /\ SumFunctionOnSet(size, DOMAIN raw.vms \ Placed(raw)) + gap <= ArrayGib(s, R)
    BY <2>23
  <2>24. PICK O : O = DOMAIN raw.vms \ Placed(raw)
    OBVIOUS
  <2>25. PICK o \in Nat : o = SumFunctionOnSet(size, O) /\ o + gap <= A
    BY <2>2, <2>4, <2>24
  <2>5. O = DOMAIN raw.vms \ Placed(raw) /\ o = SumFunctionOnSet(size, O) /\ o + gap <= A
    BY <2>24, <2>25
  <2>6. IsFiniteSet(O) /\ "leftovers" \notin O /\ O \subseteq DOMAIN raw.vms
    BY <1>3, <2>5, RawParts, IdsAreOfOne, FS_Subset
  <2>7. PICK T : T = O \cup {"leftovers"}
    OBVIOUS
  <2>8. PICK n : n = [u \in T |-> IF u = "leftovers" THEN gap ELSE size[u]]
    OBVIOUS
  <2>9. IsFiniteSet(T) /\ \A u \in T : n[u] \in Nat
    <3>1. IsFiniteSet(T)
      BY <2>6, <2>7, FS_AddElement
    <3>2. \A u \in O : size[u] \in Nat
      BY <2>4, <2>6
    <3> QED BY <2>7, <2>8, <3>1, <3>2
  <2>10. SumFunctionOnSet(n, T) \in Nat /\ SumFunctionOnSet(n, T) <= A
    <3>1. \A u \in O : n[u] \in Int /\ n[u] = size[u]
      <4>1. \A u \in O : u # "leftovers" /\ u \in T
        BY <2>6, <2>7
      <4> QED BY <2>8, <2>9, <4>1
    <3>2. SumFunctionOnSet(n, O) = o
      BY <2>5, <2>6, <3>1, SumAgrees
    <3>3. "leftovers" \in T \ O /\ O \in SUBSET T /\ n["leftovers"] = gap
      BY <2>6, <2>7, <2>8
    <3>4. \A u \in T : n[u] \in Int
      BY <2>9
    <3>5. SumFunctionOnSet(n, O \cup {"leftovers"}) = n["leftovers"] + SumFunctionOnSet(n, O)
      BY <2>9, <3>3, <3>4, SumWithOneMore
    <3>6. SumFunctionOnSet(n, T) = gap + o
      BY <2>7, <3>2, <3>3, <3>5
    <3> QED BY <2>5, <3>6
  <2>11. PICK b : b = [u \in T |-> SiteStorage(s, R, n[u])]
    OBVIOUS
  <2>12. \A u \in T : b[u] \in Nat /\ b[u] = (n[u] * M) \div A
    <3> SUFFICES ASSUME NEW u \in T PROVE b[u] \in Nat /\ b[u] = (n[u] * M) \div A
      OBVIOUS
    <3>1. PICK k \in Nat : k = n[u]
      BY <2>9
    <3>2. StorageMoney(R) \in Nat /\ ArrayGib(s, R) \in Nat \ {0}
      BY <1>7, <2>2
    <3>3. SiteStorage(s, R, k) = (k * StorageMoney(R)) \div ArrayGib(s, R) /\ SiteStorage(s, R, k) \in Nat
      BY <3>2, StorageIsShare
    <3> QED BY <1>7, <2>2, <2>11, <3>1, <3>3
  <2>13. SumFunctionOnSet(b, T) \in Nat /\ SumFunctionOnSet(b, T) <= M
    <3>1. SumFunctionOnSet(b, T) \in Nat
      BY <2>9, <2>12, SumOfNats
    <3>2. \A u \in T : n[u] \in Int /\ b[u] = (n[u] * M) \div A
      BY <2>9, <2>12
    <3>3. M \in Int
      OBVIOUS
    <3>4. SumFunctionOnSet(b, T) * A <= SumFunctionOnSet(n, T) * M
      BY <2>9, <3>2, <3>3, SumOfShares
    <3>5. PICK t \in Nat, k \in Nat : t = SumFunctionOnSet(b, T) /\ k = SumFunctionOnSet(n, T) /\ k <= A
      BY <2>10, <3>1
    <3>6. k * M <= A * M /\ A * M = M * A
      BY <3>5
    <3>7. t * A <= M * A
      <4>1. t * A \in Int /\ k * M \in Int /\ M * A \in Int
        OBVIOUS
      <4> QED BY <3>4, <3>5, <3>6, <4>1
    <3>8. t <= M
      BY <3>7, CancelFactor
    <3> QED BY <3>1, <3>5, <3>8
  <2>14. ASSUME NEW f \in F PROVE f.uid \in T /\ f.monthly = b[f.uid]
    <3>1. f \in report.findings /\ f.kind \in {"unaccounted-storage", "orphan-vm"}
      BY <1>8
    <3>2. FoundInSite(f, s, R, g)
      <4>1. \A p, x, u : FoundInPool(f, p, x, u) =>
                f.kind \in {"stopped-vm", "template-disk", "zombie-host", "powered-off-host",
                            "thin-overcommit", "idle-vm", "rightsize-vm"}
        BY DEF FoundInPool, OfDisk, OfHost, OfArray, OfUsage
      <4>2. \A p, x, u : ~FoundInPool(f, p, x, u)
        BY <3>1, <4>1
      <4> QED BY <1>1, <1>2, <3>1, <4>2, EachIsFound
    <3>3. CASE OfOrphan(f, s, R)
      <4>1. PICK vm \in s.orphans : f.uid = vm.uid /\ f.monthly = SiteStorage(s, R, vm.committed)
        BY <3>3 DEF OfOrphan
      <4>2. PICK v \in O : vm = Vm(raw, v)
        BY <1>3, <2>5, <4>1 DEF SeenSite
      <4>3. vm.uid = v /\ vm.committed = size[v]
        BY <1>3, <2>4, <2>6, <4>2, VmFields
      <4>4. v \in T /\ n[v] = size[v]
        BY <2>6, <2>7, <2>8, <4>2
      <4> QED BY <2>11, <4>1, <4>3, <4>4
    <3>4. CASE OfGap(f, s, R, g)
      <4>1. /\ f.uid = "leftovers" /\ UnaccountedIn(s, g) # None
            /\ f.monthly = SiteStorage(s, R, UnaccountedIn(s, g))
        BY <3>4 DEF OfGap
      <4>2. "leftovers" \in T /\ n["leftovers"] = gap
        BY <2>7, <2>8
      <4> QED BY <2>4, <2>11, <4>1, <4>2
    <3>5. CASE OfUnmounted(f, s, R)
      BY <3>1, <3>5 DEF OfUnmounted
    <3> QED BY <3>2, <3>3, <3>4, <3>5 DEF FoundInSite
  <2>15. PICK h : h = [f \in F |-> f.uid]
    OBVIOUS
  <2>16. \A f \in F : h[f] \in T
    BY <2>14, <2>15
  <2>17. \A f, e \in F : h[f] = h[e] => f = e
    <3>1. \A f, e \in F : f.uid = e.uid => f = e
      <4>1. \A f \in F : f.kind # "thin-overcommit"
        BY <1>8
      <4> QED BY <1>9, <4>1, AdviceIsOne DEF OneAdvicePerThing
    <3> QED BY <2>15, <3>1
  <2>18. \A f \in F : a[f] \in Nat /\ a[f] <= b[h[f]]
    <3> SUFFICES ASSUME NEW f \in F PROVE a[f] \in Nat /\ a[f] <= b[h[f]]
      OBVIOUS
    <3>1. PICK u \in T : u = f.uid /\ u = h[f] /\ f.monthly = b[u]
      BY <2>14, <2>15
    <3>2. PICK k \in Nat : k = b[u]
      BY <2>12
    <3>3. a[f] = k /\ b[h[f]] = k
      BY <1>10, <3>1, <3>2
    <3> QED BY <3>3
  <2>19. \A u \in T : b[u] \in Nat
    BY <2>12
  <2>20. SumFunctionOnSet(a, F) \in Nat /\ SumFunctionOnSet(a, F) <= SumFunctionOnSet(b, T)
    BY <1>9, <2>9, <2>16, <2>17, <2>18, <2>19, SumByDeputies
  <2>21. PICK y \in Nat, z \in Nat : y = SumFunctionOnSet(a, F) /\ z = SumFunctionOnSet(b, T)
    BY <2>13, <2>20
  <2>22. y <= M
    BY <2>13, <2>20, <2>21
  <2> QED BY <1>4, <1>7, <1>11, <2>21, <2>22
<1> QED BY <1>12, <1>13

\* What the vms of a pool could give back is within the pool's card however oversubscribed it is,
\* and what its vms and its hosts could is, when the vms fit on the hosts that stay; what is left
\* over is within the storage money (waste.py _handback_rate and _site_storage_rate).
THEOREM OffersAreWithinTheirPart == Spec => []OffersWithinTheirPart
<1>1. IInv => OffersWithinTheirPart
  BY PoolOffersFit, LeftoversFit DEF OffersWithinTheirPart
<1> QED BY <1>1, AlwaysIInv, PTL

----------------------------------------------------------------------------
(* What the spend of a site says.                                           *)

LEMMA SpendComesWhenPriced == ASSUME IInv PROVE SpendWhenPriced
<1> SUFFICES ASSUME Reported PROVE report.spend.raised <=> PricedPools = {} /\ report.site.pools # <<>>
  BY DEF SpendWhenPriced
<1>1. PICK g \in Guests : Stands(g)
  BY ReportStands
<1>2. PICK s : s = report.site
  OBVIOUS
<1>3. PICK N : N = [i \in DOMAIN s.pools |-> AllocatePool(config, s.pools[i], s.usage)]
  OBVIOUS
<1>4. N = Numbered
  BY <1>2, <1>3 DEF Numbered
<1>5. report.spend.raised <=> NothingPriced(N)
  <2>1. report.spend = Collect(config, s)
    BY <1>1, <1>2 DEF Stands
  <2> QED BY <1>3, <2>1 DEF Collect
<1>6. DOMAIN s.pools = 1 .. Len(Members(raw)) /\ Len(Members(raw)) \in Nat
  <2>1. IsRaw(raw) /\ DOMAIN s.pools = DOMAIN Members(raw)
    BY <1>1, <1>2 DEF Stands, SeenSite
  <2> QED BY <2>1, MembersAreHosts
<1>7. (s.pools = <<>> => DOMAIN s.pools = {}) /\ (N = <<>> => DOMAIN s.pools = {})
  BY <1>3
<1>8. PricedPools = {i \in DOMAIN s.pools : N[i] # Refused}
  BY <1>2, <1>4 DEF PricedPools
<1>9. CASE DOMAIN s.pools = {}
  <2>1. N = <<>>
    BY <1>3, <1>9
  <2>2. s.pools = <<>>
    <3>1. SeenSite(raw, s)
      BY <1>1, <1>2 DEF Stands
    <3>2. BuildSite(raw) = s /\ s # Refused
      BY <1>1, <1>2 DEF Stands, Reported
    <3>3. s.pools = [i \in DOMAIN Members(raw) |-> PoolOf(raw, Members(raw)[i])]
      BY <3>2 DEF BuildSite
    <3> QED BY <1>9, <3>1, <3>3 DEF SeenSite
  <2> QED BY <1>2, <1>5, <2>1, <2>2 DEF NothingPriced
<1>10. CASE DOMAIN s.pools # {}
  <2>1. s.pools # <<>> /\ N # <<>>
    BY <1>7, <1>10
  <2>2. NothingPriced(N) <=> \A i \in DOMAIN s.pools : N[i] = Refused
    BY <1>3, <2>1 DEF NothingPriced
  <2> QED BY <1>2, <1>5, <1>8, <2>1, <2>2
<1> QED BY <1>9, <1>10

\* A line of the spend is of a pool with a price.
LEMMA LinesArePools ==
    ASSUME NEW g, Stands(g)
    PROVE  LET s == report.site
               R == Rates(config, s)
           IN  report.spend.lines = UNION {PoolRecords(s.pools[i], R[i], s.usage) : i \in DOMAIN R}
<1>1. PICK s, R : s = report.site /\ R = Rates(config, s)
  OBVIOUS
<1>2. PICK N : N = [i \in DOMAIN s.pools |-> AllocatePool(config, s.pools[i], s.usage)]
  OBVIOUS
<1>3. report.spend = Collect(config, s)
  BY <1>1 DEF Stands
<1>4. report.spend.lines = UNION {PoolRecords(s.pools[i], N[i], s.usage) : i \in {k \in DOMAIN N : N[k] # Refused}}
  BY <1>2, <1>3 DEF Collect
<1>5. R = [i \in {k \in DOMAIN N : N[k] # Refused} |-> N[i]]
  BY <1>1, <1>2 DEF Rates, RestrictValues, Restrict
<1>6. PICK K : K = {k \in DOMAIN N : N[k] # Refused}
  OBVIOUS
<1>7. DOMAIN R = K /\ \A i \in K : R[i] = N[i]
  BY <1>5, <1>6
<1>8. UNION {PoolRecords(s.pools[i], N[i], s.usage) : i \in K} = UNION {PoolRecords(s.pools[i], R[i], s.usage) : i \in DOMAIN R}
  BY <1>7
<1> QED BY <1>1, <1>4, <1>6, <1>8

LEMMA CostGrows ==
    ASSUME NEW x, IsPriced(x), NEW a, NEW b,
           a.vcpu \in Nat, a.ram \in Nat, a.disk \in Nat, b.vcpu \in Nat, b.ram \in Nat, b.disk \in Nat,
           a.vcpu <= b.vcpu, a.ram <= b.ram, a.disk <= b.disk
    PROVE  /\ Cost(x.money, x.weights, x.cap, a) \in Nat /\ Cost(x.money, x.weights, x.cap, b) \in Nat
           /\ Cost(x.money, x.weights, x.cap, a) <= Cost(x.money, x.weights, x.cap, b)
<1>1. PICK w, cap : w = x.weights /\ cap = x.cap
  OBVIOUS
<1>2. PICK m \in Nat, w1 \in Nat, w2 \in Nat, w3 \in Nat :
          m = x.money /\ w1 = w.cpu /\ w2 = w.ram /\ w3 = w.storage
  BY <1>1 DEF IsPriced, IsWeights
<1>3. PICK c1 \in Nat \ {0}, c2 \in Nat \ {0}, c3 \in Nat \ {0} :
          c1 = cap.vcpu /\ c2 = cap.ram /\ c3 = cap.storage
  BY <1>1 DEF IsPriced
<1>4. PICK a1 \in Nat, a2 \in Nat, a3 \in Nat : a1 = a.vcpu /\ a2 = a.ram /\ a3 = a.disk
  OBVIOUS
<1>5. PICK b1 \in Nat, b2 \in Nat, b3 \in Nat : b1 = b.vcpu /\ b2 = b.ram /\ b3 = b.disk
  OBVIOUS
<1>6. a1 <= b1 /\ a2 <= b2 /\ a3 <= b3
  BY <1>4, <1>5
<1>7. PICK s1 \in Nat, t1 \in Nat : s1 = Share(m, w1, a1, c1) /\ t1 = Share(m, w1, b1, c1) /\ s1 <= t1
  BY <1>6, ShareGrows
<1>8. PICK s2 \in Nat, t2 \in Nat : s2 = Share(m, w2, a2, c2) /\ t2 = Share(m, w2, b2, c2) /\ s2 <= t2
  BY <1>6, ShareGrows
<1>9. PICK s3 \in Nat, t3 \in Nat : s3 = Share(m, w3, a3, c3) /\ t3 = Share(m, w3, b3, c3) /\ s3 <= t3
  BY <1>6, ShareGrows
<1>10. Cost(m, w, cap, a) = s1 + s2 + s3
  BY <1>2, <1>3, <1>4, <1>7, <1>8, <1>9 DEF Cost
<1>11. Cost(m, w, cap, b) = t1 + t2 + t3
  BY <1>2, <1>3, <1>5, <1>7, <1>8, <1>9 DEF Cost
<1>12. s1 + s2 + s3 \in Nat /\ t1 + t2 + t3 \in Nat /\ s1 + s2 + s3 <= t1 + t2 + t3
  BY <1>7, <1>8, <1>9
<1> QED BY <1>1, <1>2, <1>10, <1>11, <1>12

\* What is measured of a vm is no more than what it reserves.
LEMMA UsedWithinReserved ==
    ASSUME NEW p, IsPool(p), NEW u, RowsFit(p, u), NEW vm \in p.vms
    PROVE  LET a == UsedRow(vm, u)
               b == Provisioned(vm)
           IN  /\ a.vcpu \in Nat /\ a.ram \in Nat /\ a.disk \in Nat
               /\ b.vcpu \in Nat /\ b.ram \in Nat /\ b.disk \in Nat
               /\ a.vcpu <= b.vcpu /\ a.ram <= b.ram /\ a.disk <= b.disk
<1>1. /\ Provisioned(vm).vcpu \in Nat /\ Provisioned(vm).ram \in Nat /\ Provisioned(vm).disk \in Nat
  BY ProvisionedIsNat
<1>2. CASE vm.uid \notin DOMAIN u
  BY <1>1, <1>2 DEF UsedRow
<1>3. CASE vm.uid \in DOMAIN u
  <2>1. PICK n \in Nat, k \in Nat, d \in Nat : n = vm.vcpu /\ k = vm.ram /\ d = vm.committed
    BY DEF IsPool
  <2>2. PICK row : row = u[vm.uid]
    OBVIOUS
  <2>3. PICK y \in Nat, z \in Nat : y = row.vcpu /\ z = row.ram /\ y <= 100 * n /\ z <= 100 * k
    BY <1>3, <2>1, <2>2 DEF RowsFit
  <2>4. Provisioned(vm).vcpu = n /\ Provisioned(vm).ram = k /\ Provisioned(vm).disk = d
    BY <1>3, <2>1 DEF Provisioned, RowsFit
  <2>5. (y + 99) \div 100 \in 0 .. n /\ (z + 99) \div 100 \in 0 .. k
    BY <2>3
  <2>6. /\ UsedRow(vm, u).vcpu = (y + 99) \div 100 /\ UsedRow(vm, u).ram = (z + 99) \div 100
        /\ UsedRow(vm, u).disk = d
    BY <1>3, <2>1, <2>2, <2>3 DEF UsedRow
  <2> QED BY <2>4, <2>5, <2>6
<1> QED BY <1>2, <1>3

\* What a vm is billed for is money, and what it used of it is a part.
LEMMA BilledIsNat ==
    ASSUME NEW p, IsPool(p), NEW u, RowsFit(p, u), NEW x, IsPriced(x), IsBill(x, p, u), NEW vm \in p.vms
    PROVE  /\ x.vms[vm.uid].provisioned \in Nat /\ x.vms[vm.uid].used \in Nat
           /\ x.vms[vm.uid].used <= x.vms[vm.uid].provisioned
<1>1. PICK a, b : a = UsedRow(vm, u) /\ b = Provisioned(vm)
  OBVIOUS
<1>2. /\ a.vcpu \in Nat /\ a.ram \in Nat /\ a.disk \in Nat
      /\ b.vcpu \in Nat /\ b.ram \in Nat /\ b.disk \in Nat
      /\ a.vcpu <= b.vcpu /\ a.ram <= b.ram /\ a.disk <= b.disk
  BY <1>1, UsedWithinReserved
<1>3. /\ Cost(x.money, x.weights, x.cap, a) \in Nat /\ Cost(x.money, x.weights, x.cap, b) \in Nat
      /\ Cost(x.money, x.weights, x.cap, a) <= Cost(x.money, x.weights, x.cap, b)
  BY <1>2, CostGrows
<1>4. /\ x.vms[vm.uid].provisioned = Cost(x.money, x.weights, x.cap, b)
      /\ x.vms[vm.uid].used = Cost(x.money, x.weights, x.cap, a)
  BY <1>1 DEF IsBill
<1> QED BY <1>3, <1>4

VmLine(p, x, u, vm) ==
    [pool |-> p.key, service |-> "vm", uid |-> vm.uid, cost |-> DayCost(Billed(x, vm)),
     measured |-> IF vm.uid \in DOMAIN u
                  THEN [used |-> x.vms[vm.uid].used,
                        waste |-> x.vms[vm.uid].provisioned - x.vms[vm.uid].used]
                  ELSE None,
     headroom |-> None]
RestLine(p, x) ==
    [pool |-> p.key, service |-> "headroom", uid |-> None,
     cost |-> DayCost(HeadroomBilled(x)), measured |-> None, headroom |-> x.headroom]

LEMMA RecordsInTwo ==
    ASSUME NEW p, NEW x, NEW u
    PROVE  PoolRecords(p, x, u) = {VmLine(p, x, u, vm) : vm \in p.vms} \cup {RestLine(p, x)}
  BY DEF PoolRecords, VmLine, RestLine

LEMMA LineFields ==
    ASSUME NEW p, NEW x, NEW u, NEW vm
    PROVE  /\ VmLine(p, x, u, vm).pool = p.key /\ VmLine(p, x, u, vm).service = "vm"
           /\ VmLine(p, x, u, vm).uid = vm.uid /\ VmLine(p, x, u, vm).cost = DayCost(x.vms[vm.uid].provisioned)
           /\ RestLine(p, x).pool = p.key /\ RestLine(p, x).service = "headroom"
           /\ RestLine(p, x).cost = DayCost(HeadroomBilled(x))
  BY DEF VmLine, RestLine, Billed

LEMMA WasteIsWithin == ASSUME IInv PROVE WasteWithinReserved
<1> SUFFICES ASSUME Reported, NEW e \in report.spend.lines, e.measured # None
             PROVE  e.measured.waste >= 0 /\ e.uid \in DOMAIN report.site.usage
  BY DEF WasteWithinReserved
<1>1. PICK g \in Guests : Stands(g)
  BY ReportStands
<1>2. PICK s, R : s = report.site /\ R = Rates(config, s)
  OBVIOUS
<1>3. IsRaw(raw) /\ SeenSite(raw, s) /\ IsConfig(config)
  BY <1>1, <1>2 DEF Stands
<1>4. PICK i \in DOMAIN R : e \in PoolRecords(s.pools[i], R[i], s.usage)
  <2>1. report.spend.lines = UNION {PoolRecords(s.pools[i], R[i], s.usage) : i \in DOMAIN R}
    BY <1>1, <1>2, LinesArePools
  <2> QED BY <2>1
<1>5. PICK p, x : p = s.pools[i] /\ x = R[i]
  OBVIOUS
<1>6. i \in DOMAIN s.pools /\ IsPool(p) /\ IsPriced(x) /\ IsBill(x, p, s.usage)
  BY <1>2, <1>3, <1>5, SeenPools
<1>7. RowsFit(p, s.usage)
  BY <1>3, <1>5, <1>6, PoolRowsFit
<1>8. PICK vm \in p.vms :
          /\ e.uid = vm.uid
          /\ e.measured = IF vm.uid \in DOMAIN s.usage
                          THEN [used |-> x.vms[vm.uid].used,
                                waste |-> x.vms[vm.uid].provisioned - x.vms[vm.uid].used]
                          ELSE None
  <2>1. e = RestLine(p, x) \/ \E vm \in p.vms : e = VmLine(p, x, s.usage, vm)
    BY <1>4, <1>5, RecordsInTwo
  <2>2. e # RestLine(p, x)
    BY DEF RestLine
  <2>3. PICK vm \in p.vms : e = VmLine(p, x, s.usage, vm)
    BY <2>1, <2>2
  <2> QED BY <2>3 DEF VmLine
<1>9. PICK a \in Nat, b \in Nat : a = x.vms[vm.uid].used /\ b = x.vms[vm.uid].provisioned /\ a <= b
  BY <1>6, <1>7, BilledIsNat
<1>10. vm.uid \in DOMAIN s.usage /\ e.measured = [used |-> a, waste |-> b - a]
  BY <1>8, <1>9
<1>11. e.measured.waste = b - a
  BY <1>10
<1> QED BY <1>2, <1>8, <1>9, <1>10, <1>11


\* What is found in a pool is worth money.
LEMMA PoolFindingIsMoney ==
    ASSUME NEW p, IsPool(p), NEW x, IsPriced(x), NEW u, RowsFit(p, u), NEW f, FoundInPool(f, p, x, u)
    PROVE  f.monthly \in Nat
<1>1. CASE OfDisk(f, p, x) \/ OfUsage(f, p, x, u)
  BY <1>1, FindingWithinOffer
<1>2. CASE OfArray(f, p)
  BY <1>2 DEF OfArray
<1>3. CASE OfHost(f, p, x)
  <2>1. PICK h \in p.hosts :
            f.monthly = Share(x.money, x.weights.cpu, h.cores, x.cap.vcpu) + Share(x.money, x.weights.ram, h.ram, x.cap.ram)
    BY <1>3 DEF OfHost
  <2>2. PICK w, cap : w = x.weights /\ cap = x.cap
    OBVIOUS
  <2>3. PICK m \in Nat, w1 \in Nat, w2 \in Nat : m = x.money /\ w1 = w.cpu /\ w2 = w.ram
    BY <2>2 DEF IsPriced, IsWeights
  <2>4. PICK c1 \in Nat \ {0}, c2 \in Nat \ {0} : c1 = cap.vcpu /\ c2 = cap.ram
    BY <2>2 DEF IsPriced
  <2>5. PICK n1 \in Nat, n2 \in Nat : n1 = h.cores /\ n2 = h.ram
    BY DEF IsPool
  <2>6. n1 <= n1 /\ n2 <= n2
    BY <2>5
  <2>7. PICK a \in Nat : a = Share(m, w1, n1, c1)
    BY <2>6, ShareGrows
  <2>8. PICK b \in Nat : b = Share(m, w2, n2, c2)
    BY <2>6, ShareGrows
  <2>9. f.monthly = a + b
    BY <2>1, <2>2, <2>3, <2>4, <2>5, <2>7, <2>8
  <2> QED BY <2>7, <2>8, <2>9
<1> QED BY <1>1, <1>2, <1>3 DEF FoundInPool

\* What is found in no pool is worth money, where some pool has a price.
LEMMA SiteFindingIsMoney ==
    ASSUME NEW r, IsRaw(r), NEW s, SeenSite(r, s), NEW R, StorageMoney(R) \in Nat,
           ArrayGib(s, R) \in Nat \ {0}, NEW G, IsGuests(G), NEW f, FoundInSite(f, s, R, G)
    PROVE  f.monthly \in Nat
<1>1. CASE OfOrphan(f, s, R)
  <2>1. PICK vm \in s.orphans : f.monthly = SiteStorage(s, R, vm.committed)
    BY <1>1 DEF OfOrphan
  <2>2. PICK v \in DOMAIN r.vms : vm = Vm(r, v)
    BY <2>1 DEF SeenSite
  <2>3. vm.committed \in Nat
    BY <2>2, VmFields
  <2> QED BY <2>1, <2>3, StorageIsShare
<1>2. CASE OfUnmounted(f, s, R)
  <2>1. PICK d \in s.unmounted : f.monthly = SiteStorage(s, R, d.cap)
    BY <1>2 DEF OfUnmounted
  <2>2. PICK e \in DOMAIN r.datastores : d = Datastore(r, e)
    BY <2>1 DEF SeenSite
  <2>3. d.cap \in Nat
    BY <2>2, ArrayFields
  <2> QED BY <2>1, <2>3, StorageIsShare
<1>3. CASE OfGap(f, s, R, G)
  <2>1. UnaccountedIn(s, G) # None /\ f.monthly = SiteStorage(s, R, UnaccountedIn(s, G))
    BY <1>3 DEF OfGap
  <2>2. PICK Q : Q = s.pools
    OBVIOUS
  <2>3. DOMAIN Q = DOMAIN s.pools
    BY <2>2
  <2>4. /\ UsedGib(s) \in Int
        /\ \E size : /\ ClaimedGib(s) = SumFunctionOnSet(size, DOMAIN r.vms)
                     /\ \A v \in DOMAIN r.vms : size[v] \in Nat /\ Vm(r, v).committed = size[v]
    BY <2>3, SpaceOfSite
  <2>5. PICK size : /\ ClaimedGib(s) = SumFunctionOnSet(size, DOMAIN r.vms)
                    /\ \A v \in DOMAIN r.vms : size[v] \in Nat /\ Vm(r, v).committed = size[v]
    BY <2>4
  <2>6. IsFiniteSet(DOMAIN r.vms) /\ \A v \in DOMAIN r.vms : size[v] \in Nat
    BY <2>5, RawParts
  <2>7. ClaimedGib(s) \in Int
    <3>1. SumFunctionOnSet(size, DOMAIN r.vms) \in Nat
      BY <2>6, SumOfNats
    <3> QED BY <2>5, <3>1
  <2>8. UnaccountedIn(s, G) \in Nat
    BY <2>1, <2>4, <2>7, GapIsUnclaimed
  <2> QED BY <2>1, <2>8, StorageIsShare
<1> QED BY <1>1, <1>2, <1>3 DEF FoundInSite

LEMMA FindingsAreMoney == ASSUME IInv, Reported, NEW f \in report.findings PROVE f.monthly \in Nat
<1>1. PICK g \in Guests : Stands(g)
  BY ReportStands
<1>2. PICK s, R : s = report.site /\ R = Rates(config, s)
  OBVIOUS
<1>3. /\ IsRaw(raw) /\ SeenSite(raw, s) /\ IsConfig(config) /\ IsGuests(g)
      /\ report.findings = Recommendations(config, s, g)
  BY <1>1, <1>2 DEF Stands
<1>4. \A i \in DOMAIN R : /\ i \in DOMAIN s.pools /\ IsPool(s.pools[i])
                          /\ IsPriced(R[i]) /\ IsBill(R[i], s.pools[i], s.usage)
  BY <1>2, <1>3, SeenPools
<1>5. \/ \E i \in DOMAIN R : FoundInPool(f, s.pools[i], R[i], s.usage)
      \/ FoundInSite(f, s, R, g)
  BY <1>1, <1>2, EachIsFound
<1>6. CASE \E i \in DOMAIN R : FoundInPool(f, s.pools[i], R[i], s.usage)
  <2>1. PICK i \in DOMAIN R : FoundInPool(f, s.pools[i], R[i], s.usage)
    BY <1>6
  <2>2. IsPool(s.pools[i]) /\ IsPriced(R[i]) /\ RowsFit(s.pools[i], s.usage)
    BY <1>3, <1>4, <2>1, PoolRowsFit
  <2> QED BY <2>1, <2>2, PoolFindingIsMoney
<1>7. CASE FoundInSite(f, s, R, g)
  <2>1. PICK i \in DOMAIN R : TRUE
    <3>1. DOMAIN R = {} => report.findings = {}
      BY <1>2, <1>3, FindingsAreSomebodys
    <3> QED BY <3>1
  <2>2. DOMAIN R \subseteq DOMAIN s.pools
    BY <1>4
  <2>3. IsPriced(R[i]) /\ IsBill(R[i], s.pools[i], s.usage)
    BY <1>4, <2>1
  <2>4. ArrayGib(s, R) \in Nat \ {0}
    BY <1>3, <2>1, <2>2, <2>3, SomeArrayIsThere
  <2>5. IsFiniteSet(DOMAIN R)
    <3>1. IsFiniteSet(DOMAIN s.pools)
      BY <1>3, MembersAreHosts DEF SeenSite
    <3> QED BY <2>2, <3>1, FS_Subset
  <2>6. \A j \in DOMAIN R : IsPriced(R[j])
    BY <1>4
  <2>7. StorageMoney(R) \in Nat
    BY <2>5, <2>6, StorageMoneyIsNat
  <2> QED BY <1>3, <1>7, <2>4, <2>7, SiteFindingIsMoney
<1> QED BY <1>5, <1>6, <1>7

LEMMA TypesAreRight == ASSUME IInv PROVE TypeOK
<1>1. config \in Configs /\ ConfigValid(config) /\ moves \in 0 .. MaxMoves /\ IsRaw(raw)
  BY DEF IInv, Bounds
<1>2. DOMAIN raw.perf \subseteq DOMAIN raw.vms
  BY <1>1 DEF IsRaw
<1>3. report # None /\ report.site # Refused => \A f \in report.findings : f.monthly \in Nat
  BY FindingsAreMoney DEF Reported
<1> QED BY <1>1, <1>2, <1>3 DEF TypeOK


----------------------------------------------------------------------------
(* The lines of a pool against its card.                                    *)

\* A day of an amount is off by half a cent at most: costs in cents, over a day of the month.
Rounded(q, a) == /\ 1460 * q - 48 * a <= 730
                 /\ 48 * a - 1460 * q <= 730

LEMMA DayIsRounded == ASSUME NEW a \in Int PROVE DayCost(a) \in Int /\ Rounded(DayCost(a), a)
<1>1. PICK n \in Int : n = 48 * a + 730
  OBVIOUS
<1>2. 2 * a * HoursPerDay + HoursPerMonth = n /\ 2 * HoursPerMonth = 1460
  BY <1>1 DEF HoursPerDay, HoursPerMonth
<1>3. DayCost(a) = n \div 1460
  BY <1>2 DEF DayCost
<1>4. PICK q : q = n \div 1460
  OBVIOUS
<1>5. 1460 \in Nat \ {0}
  OBVIOUS
<1>6. q \in Int /\ q * 1460 <= n /\ n < (q + 1) * 1460
  BY <1>4, <1>5, DivRoundsDown
<1>7. Rounded(q, a)
  BY <1>1, <1>6 DEF Rounded
<1> QED BY <1>3, <1>4, <1>6, <1>7

\* So the days of many amounts are off by half a cent each.
LEMMA DaysAreRounded ==
    ASSUME NEW T, IsFiniteSet(T), NEW f, NEW g, \A x \in T : f[x] \in Int /\ g[x] = DayCost(f[x])
    PROVE  /\ SumFunctionOnSet(f, T) \in Int /\ SumFunctionOnSet(g, T) \in Int /\ Cardinality(T) \in Nat
           /\ 1460 * SumFunctionOnSet(g, T) - 48 * SumFunctionOnSet(f, T) <= 730 * Cardinality(T)
           /\ 48 * SumFunctionOnSet(f, T) - 1460 * SumFunctionOnSet(g, T) <= 730 * Cardinality(T)
<1> DEFINE Off(s) == /\ IsFiniteSet(s) /\ Cardinality(s) \in Nat
                     /\ 1460 * SumFunctionOnSet(g, s) - 48 * SumFunctionOnSet(f, s) <= 730 * Cardinality(s)
                     /\ 48 * SumFunctionOnSet(f, s) - 1460 * SumFunctionOnSet(g, s) <= 730 * Cardinality(s)
           G == {s \in SUBSET T : Off(s)}
<1>1. \A x \in T : f[x] \in Int
  OBVIOUS
<1>2. \A x \in T : g[x] \in Int
  BY DayIsRounded
<1>3. {} \in G
  <2>1. SumFunctionOnSet(f, {}) = 0 /\ SumFunctionOnSet(g, {}) = 0
    BY SumOfEmpty
  <2>2. IsFiniteSet({}) /\ Cardinality({}) = 0
    BY FS_EmptySet
  <2> QED BY <2>1, <2>2
<1>4. ASSUME NEW s \in SUBSET T, NEW x \in T \ s, s \in G PROVE s \cup {x} \in G
  <2>1. /\ IsFiniteSet(s) /\ Cardinality(s) \in Nat
        /\ 1460 * SumFunctionOnSet(g, s) - 48 * SumFunctionOnSet(f, s) <= 730 * Cardinality(s)
        /\ 48 * SumFunctionOnSet(f, s) - 1460 * SumFunctionOnSet(g, s) <= 730 * Cardinality(s)
    BY <1>4
  <2> HIDE DEF Off, G
  <2>2. /\ SumFunctionOnSet(f, s) \in Int
        /\ SumFunctionOnSet(f, s \cup {x}) = f[x] + SumFunctionOnSet(f, s)
    BY <1>1, SumWithOneMore
  <2>3. /\ SumFunctionOnSet(g, s) \in Int
        /\ SumFunctionOnSet(g, s \cup {x}) = g[x] + SumFunctionOnSet(g, s)
    BY <1>2, SumWithOneMore
  <2>4. IsFiniteSet(s \cup {x}) /\ Cardinality(s \cup {x}) = Cardinality(s) + 1
    BY <2>1, FS_AddElement
  <2>5. PICK a \in Int, q \in Int : a = f[x] /\ q = g[x]
    BY <1>1, <1>2
  <2>6. Rounded(q, a)
    BY <2>5, DayIsRounded
  <2>7. PICK F \in Int, D \in Int : F = SumFunctionOnSet(f, s) /\ D = SumFunctionOnSet(g, s)
    BY <2>2, <2>3
  <2>8. PICK n \in Nat : n = Cardinality(s)
    BY <2>1
  <2>9. 1460 * D - 48 * F <= 730 * n /\ 48 * F - 1460 * D <= 730 * n
    BY <2>1, <2>7, <2>8
  <2>10. /\ n + 1 \in Nat
         /\ 1460 * (q + D) - 48 * (a + F) <= 730 * (n + 1)
         /\ 48 * (a + F) - 1460 * (q + D) <= 730 * (n + 1)
    BY <2>6, <2>9 DEF Rounded
  <2>11. Off(s \cup {x})
    BY <2>2, <2>3, <2>4, <2>5, <2>7, <2>8, <2>10 DEF Off
  <2>12. s \cup {x} \in SUBSET T
    OBVIOUS
  <2> QED BY <2>11, <2>12 DEF G
<1>5. T \in G
  <2> HIDE DEF G
  <2> QED BY <1>3, <1>4, FiniteSetSteps
<1>6. Off(T)
  BY <1>5
<1>7. SumFunctionOnSet(f, T) \in Int
  BY <1>1, SumStep
<1>8. SumFunctionOnSet(g, T) \in Int
  BY <1>2, SumStep
<1> QED BY <1>6, <1>7, <1>8

\* What is billed to the vms of a pool is the total of its card.
LEMMA TotalIsOfVms ==
    ASSUME NEW p, IsPool(p), NEW u, RowsFit(p, u), NEW x, IsPriced(x), IsBill(x, p, u), NEW f,
           \A vm \in p.vms : f[vm] = x.vms[vm.uid].provisioned
    PROVE  x.total \in Nat /\ x.total = SumFunctionOnSet(f, p.vms)
<1>1. \A vm \in p.vms : f[vm] \in Nat /\ f[vm] = x.vms[vm.uid].provisioned
  BY BilledIsNat
<1>2. PICK b : b = [v \in DOMAIN x.vms |-> x.vms[v].provisioned]
  OBVIOUS
<1>3. PICK h : h = [vm \in p.vms |-> vm.uid]
  OBVIOUS
<1>4. DOMAIN x.vms = {h[vm] : vm \in p.vms}
  BY <1>3 DEF IsBill
<1>5. \A v, w \in p.vms : h[v] = h[w] => v = w
  BY <1>3 DEF IsPool
<1>6. \A vm \in p.vms : f[vm] = b[h[vm]] /\ b[h[vm]] \in Int
  <2> SUFFICES ASSUME NEW vm \in p.vms PROVE f[vm] = b[h[vm]] /\ b[h[vm]] \in Int
    OBVIOUS
  <2>1. PICK v \in DOMAIN x.vms : v = vm.uid /\ v = h[vm]
    BY <1>3, <1>4
  <2>2. b[v] = x.vms[v].provisioned
    BY <1>2
  <2>3. PICK n \in Nat : n = f[vm]
    BY <1>1
  <2>4. n = x.vms[v].provisioned
    BY <1>1, <2>1, <2>3
  <2>5. n \in Int /\ b[v] = n
    BY <2>2, <2>4
  <2> QED BY <2>1, <2>3, <2>5
<1>7. IsFiniteSet(p.vms)
  BY DEF IsPool
<1>8. SumFunctionOnSet(b, {h[vm] : vm \in p.vms}) = SumFunctionOnSet(f, p.vms)
  <2>1. PICK S : S = p.vms
    OBVIOUS
  <2>2. \A v, w \in S : h[v] = h[w] => v = w
    BY <1>5, <2>1
  <2>3. \A vm \in S : f[vm] = b[h[vm]] /\ b[h[vm]] \in Int
    BY <1>6, <2>1
  <2>4. IsFiniteSet(S)
    BY <1>7, <2>1
  <2>5. SumFunctionOnSet(b, {h[vm] : vm \in S}) = SumFunctionOnSet(f, S)
    BY <2>2, <2>3, <2>4, SumOfImage
  <2> QED BY <2>1, <2>5
<1>9. x.total = SumFunctionOnSet(b, DOMAIN x.vms)
  BY <1>2 DEF IsBill
<1>10. SumFunctionOnSet(f, p.vms) \in Nat
  BY <1>1, <1>7, SumOfNats
<1> QED BY <1>4, <1>8, <1>9, <1>10


\* The lines of a pool are of what it costs, and of what its vms reserve beyond it.
LEMMA LinesAddUp ==
    ASSUME NEW p, IsPool(p), NEW u, RowsFit(p, u), NEW x, IsPriced(x), IsBill(x, p, u)
    PROVE  LET L == PoolRecords(p, x, u)
               M == AtLeast(x.money, x.total)
           IN  /\ IsFiniteSet(L) /\ L # {} /\ M \in Int
               /\ \E f : /\ SumFunctionOnSet(f, L) = M
                         /\ \A e \in L : f[e] \in Int /\ e.cost = DayCost(f[e])
<1>1. PICK a : a = [vm \in p.vms |-> x.vms[vm.uid].provisioned]
  OBVIOUS
<1>2. x.total \in Nat /\ x.total = SumFunctionOnSet(a, p.vms)
  <2>1. \A vm \in p.vms : a[vm] = x.vms[vm.uid].provisioned
    BY <1>1
  <2> QED BY <2>1, TotalIsOfVms
<1>3. \A vm \in p.vms : a[vm] \in Nat /\ a[vm] = x.vms[vm.uid].provisioned
  BY <1>1, BilledIsNat
<1>4. PICK m \in Nat, t \in Nat : m = x.money /\ t = x.total
  BY <1>2 DEF IsPriced
<1>5. PICK h \in Nat : h = HeadroomBilled(x) /\ t + h = AtLeast(m, t) /\ t + h \in Int
  <2>1. x.headroom = m - t
    BY <1>4 DEF IsBill
  <2>2. HeadroomBilled(x) = IF m - t > 0 THEN m - t ELSE 0
    BY <2>1 DEF HeadroomBilled, AtLeast
  <2>3. AtLeast(m, t) = IF m > t THEN m ELSE t
    BY DEF AtLeast
  <2>4. CASE m > t
    <3>1. m - t \in Nat /\ HeadroomBilled(x) = m - t /\ AtLeast(m, t) = t + (m - t) /\ t + (m - t) \in Int
      BY <2>2, <2>3, <2>4
    <3> QED BY <3>1
  <2>5. CASE ~(m > t)
    <3>1. 0 \in Nat /\ HeadroomBilled(x) = 0 /\ AtLeast(m, t) = t + 0 /\ t + 0 \in Int
      BY <2>2, <2>3, <2>5
    <3> QED BY <3>1
  <2> QED BY <2>4, <2>5
<1>6. PICK line : line = [vm \in p.vms |-> VmLine(p, x, u, vm)]
  OBVIOUS
<1>7. PICK V, H : V = {line[vm] : vm \in p.vms} /\ H = RestLine(p, x)
  OBVIOUS
<1>8. PICK L : L = PoolRecords(p, x, u)
  OBVIOUS
<1>9. L = V \cup {H}
  BY <1>6, <1>7, <1>8, RecordsInTwo
<1>10. \A vm \in p.vms : /\ line[vm].service = "vm" /\ line[vm].uid = vm.uid
                         /\ line[vm].cost = DayCost(a[vm])
  BY <1>3, <1>6, LineFields
<1>11. H.service = "headroom" /\ H.cost = DayCost(h)
  BY <1>5, <1>7, LineFields
<1>12. H \notin V
  BY <1>7, <1>10, <1>11
<1>13. PICK S : S = p.vms
  OBVIOUS
<1>14. IsFiniteSet(S) /\ \A v, w \in S : line[v] = line[w] => v = w
  BY <1>10, <1>13 DEF IsPool
<1>15. IsFiniteSet(V)
  BY <1>7, <1>13, <1>14, ImageIsFinite
<1>16. IsFiniteSet(L) /\ L # {}
  BY <1>9, <1>15, FS_AddElement
<1>17. PICK f : f = [e \in L |-> IF e.service = "vm" THEN x.vms[e.uid].provisioned ELSE h]
  OBVIOUS
<1>18. \A vm \in S : line[vm] \in L /\ f[line[vm]] = a[vm]
  <2> SUFFICES ASSUME NEW vm \in S PROVE line[vm] \in L /\ f[line[vm]] = a[vm]
    OBVIOUS
  <2>1. PICK e : e = line[vm]
    OBVIOUS
  <2>2. e \in L /\ e.service = "vm" /\ e.uid = vm.uid
    BY <1>7, <1>9, <1>10, <1>13, <2>1
  <2>3. f[e] = x.vms[vm.uid].provisioned
    BY <1>17, <2>2
  <2>4. a[vm] = x.vms[vm.uid].provisioned
    BY <1>3, <1>13
  <2> QED BY <2>1, <2>2, <2>3, <2>4
<1>19. f[H] = h
  BY <1>9, <1>11, <1>17
<1>20. \A vm \in S : a[vm] = f[line[vm]] /\ f[line[vm]] \in Int
  <2>1. \A vm \in S : a[vm] \in Int
    BY <1>3, <1>13
  <2> QED BY <1>18, <2>1
<1>21. SumFunctionOnSet(f, {line[vm] : vm \in S}) = SumFunctionOnSet(a, S)
  BY <1>14, <1>20, SumOfImage
<1>22. SumFunctionOnSet(f, V) = t
  BY <1>2, <1>4, <1>7, <1>13, <1>21
<1>23. \A e \in L : f[e] \in Int /\ e.cost = DayCost(f[e])
  <2> SUFFICES ASSUME NEW e \in L PROVE f[e] \in Int /\ e.cost = DayCost(f[e])
    OBVIOUS
  <2>1. CASE e = H
    BY <1>5, <1>11, <1>19, <2>1
  <2>2. CASE e \in V
    <3>1. PICK vm \in S : e = line[vm]
      BY <1>7, <1>13, <2>2
    <3>2. f[e] = a[vm] /\ f[e] \in Int
      BY <1>20, <3>1
    <3>3. e.cost = DayCost(a[vm])
      BY <1>10, <1>13, <3>1
    <3> QED BY <3>2, <3>3
  <2> QED BY <1>9, <2>1, <2>2
<1>24. SumFunctionOnSet(f, L) = t + h
  <2>1. \A e \in L : f[e] \in Int
    BY <1>23
  <2>2. V \in SUBSET L /\ H \in L \ V
    BY <1>9, <1>12
  <2>3. SumFunctionOnSet(f, V \cup {H}) = f[H] + SumFunctionOnSet(f, V)
    BY <1>16, <2>1, <2>2, SumWithOneMore
  <2>4. SumFunctionOnSet(f, L) = h + t
    BY <1>9, <1>19, <1>22, <2>3
  <2> QED BY <2>4
<1>25. SumFunctionOnSet(f, L) = AtLeast(x.money, x.total) /\ AtLeast(x.money, x.total) \in Int
  BY <1>4, <1>5, <1>24
<1> QED BY <1>8, <1>16, <1>23, <1>25


\* Cents of a sum of days and of the day of the sum are a cent a line apart at most.
LEMMA ACentALine ==
    ASSUME NEW D \in Int, NEW q \in Int, NEW M \in Int, NEW n \in Nat \ {0},
           1460 * D - 48 * M <= 730 * n, 48 * M - 1460 * D <= 730 * n, Rounded(q, M)
    PROVE  ~Far(D, q, n)
<1>1. 1460 * (D - q) <= 730 * (n + 1) /\ 1460 * (q - D) <= 730 * (n + 1)
  BY DEF Rounded
<1>2. 730 * (n + 1) <= 1460 * n
  OBVIOUS
<1>3. D - q <= n /\ q - D <= n
  BY <1>1, <1>2
<1> QED BY <1>3 DEF Far

\* The lines of a key are those of its pool, and there are none of one without a price.
LEMMA LinesOfKey ==
    ASSUME NEW g, Stands(g), NEW i \in DOMAIN report.site.pools
    PROVE  LET s == report.site
               R == Rates(config, s)
               L == {e \in report.spend.lines : e.pool = s.pools[i].key}
           IN  /\ i \in DOMAIN R => L = PoolRecords(s.pools[i], R[i], s.usage)
               /\ i \notin DOMAIN R => L = {}
<1>1. PICK s, R : s = report.site /\ R = Rates(config, s)
  OBVIOUS
<1>2. PICK L : L = {e \in report.spend.lines : e.pool = s.pools[i].key}
  OBVIOUS
<1>3. IsRaw(raw) /\ SeenSite(raw, s) /\ IsConfig(config)
  BY <1>1 DEF Stands
<1>4. DOMAIN R \subseteq DOMAIN s.pools
  BY <1>1, <1>3, SeenPools
<1>5. report.spend.lines = UNION {PoolRecords(s.pools[j], R[j], s.usage) : j \in DOMAIN R}
  BY <1>1, LinesArePools
<1>6. ASSUME NEW j \in DOMAIN R, NEW e \in PoolRecords(s.pools[j], R[j], s.usage)
      PROVE  e.pool = s.pools[j].key
  <2>1. PICK p, x, u : p = s.pools[j] /\ x = R[j] /\ u = s.usage
    OBVIOUS
  <2>2. e = RestLine(p, x) \/ \E vm \in p.vms : e = VmLine(p, x, u, vm)
    BY <1>6, <2>1, RecordsInTwo
  <2>3. CASE e = RestLine(p, x)
    BY <2>1, <2>3, LineFields
  <2>4. CASE \E vm \in p.vms : e = VmLine(p, x, u, vm)
    <3>1. PICK vm \in p.vms : e = VmLine(p, x, u, vm)
      BY <2>4
    <3>2. VmLine(p, x, u, vm).pool = p.key
      BY LineFields
    <3> QED BY <2>1, <3>1, <3>2
  <2> QED BY <2>2, <2>3, <2>4
<1>7. ASSUME NEW e \in L PROVE i \in DOMAIN R /\ e \in PoolRecords(s.pools[i], R[i], s.usage)
  <2>1. e \in report.spend.lines /\ e.pool = s.pools[i].key
    BY <1>2
  <2>2. PICK j \in DOMAIN R : e \in PoolRecords(s.pools[j], R[j], s.usage)
    BY <1>5, <2>1
  <2>3. s.pools[j].key = s.pools[i].key
    BY <1>6, <2>1, <2>2
  <2>4. j \in DOMAIN s.pools /\ i \in DOMAIN s.pools
    BY <1>1, <1>4, <2>2
  <2>5. j = i
    BY <1>3, <2>3, <2>4, KeysAreOfOne
  <2> QED BY <2>2, <2>5
<1>8. ASSUME i \in DOMAIN R, NEW e \in PoolRecords(s.pools[i], R[i], s.usage) PROVE e \in L
  <2>1. e \in report.spend.lines
    BY <1>5, <1>8
  <2>2. e.pool = s.pools[i].key
    BY <1>6, <1>8
  <2> QED BY <1>2, <2>1, <2>2
<1>9. i \in DOMAIN R => L = PoolRecords(s.pools[i], R[i], s.usage)
  BY <1>7, <1>8
<1>10. i \notin DOMAIN R => L = {}
  BY <1>7
<1> QED BY <1>1, <1>2, <1>9, <1>10

LEMMA PoolIsItsCard ==
    ASSUME NEW p, IsPool(p), NEW u, RowsFit(p, u), NEW x, IsPriced(x), IsBill(x, p, u)
    PROVE  LET L == PoolRecords(p, x, u)
           IN  ~Far(Sum(LAMBDA r : r.cost, L), DayCost(AtLeast(x.money, x.total)), Cardinality(L))
<1>1. PICK L : L = PoolRecords(p, x, u)
  OBVIOUS
<1>2. /\ IsFiniteSet(L) /\ L # {} /\ AtLeast(x.money, x.total) \in Int
      /\ \E f : /\ SumFunctionOnSet(f, L) = AtLeast(x.money, x.total)
                /\ \A e \in L : f[e] \in Int /\ e.cost = DayCost(f[e])
  BY <1>1, LinesAddUp
<1>3. PICK f : /\ SumFunctionOnSet(f, L) = AtLeast(x.money, x.total)
               /\ \A e \in L : f[e] \in Int /\ e.cost = DayCost(f[e])
  BY <1>2
<1>4. PICK M \in Int : M = AtLeast(x.money, x.total)
  BY <1>2
<1>5. PICK c : c = [e \in L |-> e.cost]
  OBVIOUS
<1>6. \A e \in L : f[e] \in Int /\ c[e] = DayCost(f[e])
  BY <1>3, <1>5
<1>7. /\ SumFunctionOnSet(f, L) \in Int /\ SumFunctionOnSet(c, L) \in Int /\ Cardinality(L) \in Nat
      /\ 1460 * SumFunctionOnSet(c, L) - 48 * SumFunctionOnSet(f, L) <= 730 * Cardinality(L)
      /\ 48 * SumFunctionOnSet(f, L) - 1460 * SumFunctionOnSet(c, L) <= 730 * Cardinality(L)
  BY <1>2, <1>6, DaysAreRounded
<1>8. PICK D \in Int, q \in Int : D = SumFunctionOnSet(c, L) /\ q = DayCost(M)
  BY <1>7, DayIsRounded
<1>9. PICK n \in Nat \ {0} : n = Cardinality(L)
  BY <1>2, FS_EmptySet, FS_CardinalityType
<1>10. 1460 * D - 48 * M <= 730 * n /\ 48 * M - 1460 * D <= 730 * n
  BY <1>3, <1>4, <1>7, <1>8, <1>9
<1>11. Rounded(q, M)
  BY <1>8, DayIsRounded
<1>12. ~Far(D, q, n)
  BY <1>10, <1>11, ACentALine
<1>13. Sum(LAMBDA r : r.cost, L) = D
  BY <1>5, <1>8 DEF Sum
<1> QED BY <1>1, <1>4, <1>8, <1>9, <1>12, <1>13

LEMMA CardsAreBilled == ASSUME IInv PROVE BillIsTheCards
<1> SUFFICES ASSUME Reported, NEW i \in DOMAIN report.site.pools
             PROVE  LET L == {r \in report.spend.lines : r.pool = report.site.pools[i].key}
                    IN  IF i \in PricedPools
                        THEN ~Far(Sum(LAMBDA r : r.cost, L),
                                  DayCost(AtLeast(Numbered[i].money, Numbered[i].total)), Cardinality(L))
                        ELSE L = {}
  BY DEF BillIsTheCards
<1>1. PICK g \in Guests : Stands(g)
  BY ReportStands
<1>2. PICK s, R : s = report.site /\ R = Rates(config, s)
  OBVIOUS
<1>3. IsRaw(raw) /\ SeenSite(raw, s) /\ IsConfig(config)
  BY <1>1, <1>2 DEF Stands
<1>4. PICK L : L = {r \in report.spend.lines : r.pool = report.site.pools[i].key}
  OBVIOUS
<1>5. /\ i \in DOMAIN R => L = PoolRecords(s.pools[i], R[i], s.usage)
      /\ i \notin DOMAIN R => L = {}
  BY <1>1, <1>2, <1>4, LinesOfKey
<1>6. /\ i \in PricedPools <=> i \in DOMAIN R
      /\ i \in DOMAIN R => R[i] = Numbered[i]
  BY <1>2, RateOfPriced
<1>7. CASE i \notin DOMAIN R
  BY <1>4, <1>5, <1>6, <1>7
<1>8. CASE i \in DOMAIN R
  <2>1. PICK p, x : p = s.pools[i] /\ x = R[i]
    OBVIOUS
  <2>2. IsPool(p) /\ IsPriced(x) /\ IsBill(x, p, s.usage) /\ RowsFit(p, s.usage)
    BY <1>2, <1>3, <1>8, <2>1, SeenPools, PoolRowsFit
  <2>3. L = PoolRecords(p, x, s.usage)
    BY <1>5, <1>8, <2>1
  <2>4. ~Far(Sum(LAMBDA r : r.cost, L), DayCost(AtLeast(x.money, x.total)), Cardinality(L))
    BY <2>2, <2>3, PoolIsItsCard
  <2>5. Numbered[i] = x
    BY <1>6, <1>8, <2>1
  <2> QED BY <1>4, <1>6, <1>8, <2>4, <2>5
<1> QED BY <1>7, <1>8

\* The spend of a site is what its cards and its measurements say: a day of each card, to a cent a
\* line, no line of a pool without a price, an answer as long as one pool has one, and no vm that
\* wasted what was not measured (costs.py collect and _pool_records, metrics.py usage_rows).
THEOREM SpendIsWhatTheCardsSay == Spec => []SpendIsTheSites
<1>1. IInv => SpendIsTheSites
  BY TypesAreRight, CardsAreBilled, SpendComesWhenPriced, WasteIsWithin DEF SpendIsTheSites
<1> QED BY <1>1, AlwaysIInv, PTL
=============================================================================
