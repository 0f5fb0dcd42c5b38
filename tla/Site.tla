-------------------------------- MODULE Site ---------------------------------
(***************************************************************************)
(* A site that its operators keep changing, and the report an on-prem pass *)
(* makes of it: spend records, and what the site pays for and does not use.*)
(* The changes are those that tell the rules of SiteInventory, SiteBill    *)
(* and SiteWaste apart; a pass may follow any of them.                     *)
(***************************************************************************)
EXTENDS SiteWaste

CONSTANTS
    Sites,     \* what vcenter may answer at first: a set of raw records
    Configs,   \* the accepted site configurations
    Guests,    \* what the attached guests may own up to: sets of [source, detached]
    MaxMoves   \* bound on the changes between the first answer and the pass

VARIABLES
    raw,     \* what the six property calls and the perf query answer
    config,  \* the site's block of the configuration
    moves,   \* changes so far
    report   \* the last pass, or None

vars == <<raw, config, moves, report>>

----------------------------------------------------------------------------
(* What vcenter may answer and a file may say.                              *)

Unit(h, keys, sizes) == DOMAIN h = keys /\ \A k \in sizes : h[k] \in Nat
IsHost(h) ==
    Unit(h, {"cores", "ram", "on", "vms", "ds", "parent"}, {"cores", "ram"}) /\ h.on \in BOOLEAN
IsArray(d) == Unit(d, {"name", "cap", "free", "uncommitted", "url"}, {"cap", "free", "uncommitted"})
IsVm(v) ==
    /\ Unit(v, {"name", "host", "on", "template", "vcpu", "ram", "committed", "uncommitted"},
            {"vcpu", "ram", "committed", "uncommitted"})
    /\ {v.on, v.template} \subseteq BOOLEAN
IsSeries(p) == p.cpu \in Seq(Int) /\ p.ram \in Seq(Int)

Units(f, Is(_)) == IsFiniteSet(DOMAIN f) /\ \A x \in DOMAIN f : Is(f[x])

\* An id is of one object, a vm that a host lists says that it is on it, what is measured
\* is a vm, and no two pools of a datacenter have one name.
IsRaw(r) ==
    /\ DOMAIN r = {"clusters", "hosts", "datastores", "vms", "parent", "datacenters", "perf"}
    /\ IsList(r.clusters)
    /\ Units(r.hosts, IsHost) /\ Units(r.datastores, IsArray) /\ Units(r.vms, IsVm)
    /\ DOMAIN r.perf \subseteq DOMAIN r.vms /\ \A v \in DOMAIN r.perf : IsSeries(r.perf[v])
    /\ DOMAIN r.hosts \cap DOMAIN r.vms = {}
    /\ (DOMAIN r.hosts \cup DOMAIN r.vms) \cap DOMAIN r.datastores = {}
    /\ "leftovers" \notin DOMAIN r.hosts \cup DOMAIN r.vms \cup DOMAIN r.datastores
    /\ \A h \in DOMAIN r.hosts : \A v \in r.hosts[h].vms \cap DOMAIN r.vms : r.vms[v].host = h
    /\ \A i, j \in DOMAIN Members(r) :
           PoolOf(r, Members(r)[i]).key = PoolOf(r, Members(r)[j]).key => i = j

IsCard(card) == \A k \in DOMAIN card : card[k] \in Int
IsWeights(w) == {w.cpu, w.ram, w.storage} \subseteq Nat /\ w.cpu + w.ram + w.storage = 100
IsConfig(c) ==
    /\ IsCard(c.site) /\ IsWeights(c.weights)
    /\ \A n \in DOMAIN c.clusters :
           IsCard(c.clusters[n].card) /\ (c.clusters[n].weights = None \/ IsWeights(c.clusters[n].weights))
IsGuests(G) == IsFiniteSet(G) /\ \A g \in G : g.detached \in Int

ASSUME SitesAssumption == \A r \in Sites : IsRaw(r)
ASSUME ConfigsAssumption == \A c \in Configs : IsConfig(c)
ASSUME GuestsAssumption == \A G \in Guests : IsGuests(G)
ASSUME MovesAssumption == MaxMoves \in Nat

----------------------------------------------------------------------------
Init ==
    /\ raw \in Sites
    /\ config \in {c \in Configs : ConfigValid(c)}
    /\ moves = 0
    /\ report = None

Change(new) ==
    /\ moves < MaxMoves
    /\ new # raw
    /\ raw' = new
    /\ moves' = moves + 1
    /\ report' = None
    /\ UNCHANGED config

\* A vm is switched off or on where it is.
PowerVm == \E v \in DOMAIN raw.vms : Change([raw EXCEPT !.vms[v].on = ~@])

\* A host is switched off or on with the vms it lists; it stays in its pool.
PowerHost == \E h \in DOMAIN raw.hosts :
    LET on(v) == IF v \in raw.hosts[h].vms THEN ~raw.hosts[h].on /\ ~raw.vms[v].on ELSE raw.vms[v].on
    IN  Change([raw EXCEPT !.hosts[h].on = ~@,
                           !.vms = [v \in DOMAIN raw.vms |-> [raw.vms[v] EXCEPT !.on = on(v)]]])

\* A vm drops off its host and stays in the inventory.
Orphan == \E h \in DOMAIN raw.hosts : \E v \in raw.hosts[h].vms \cap DOMAIN raw.vms :
    Change([raw EXCEPT !.hosts[h].vms = @ \ {v}, !.vms[v].host = None, !.vms[v].on = FALSE])

\* A host mounts an array, or no longer does.
Mount == \E h \in DOMAIN raw.hosts, d \in DOMAIN raw.datastores :
    Change([raw EXCEPT !.hosts[h].ds = SymDiff(@, {d})])

\* Something that is no vm fills an array.
Fill == \E d \in DOMAIN raw.datastores : Change([raw EXCEPT !.datastores[d].free = 0])

\* A host vcenter has lost contact with answers without its hardware.
Disconnect == \E h \in DOMAIN raw.hosts : Change([raw EXCEPT !.hosts[h].cores = 0])

\* The counters of a vm are gone, or all of them when the query fails.
Forget == \E V \in {{v} : v \in DOMAIN raw.perf} \cup {DOMAIN raw.perf} :
    Change([raw EXCEPT !.perf = Restrict(@, DOMAIN @ \ V)])

\* One inventory, read by the cost collector and by the waste collector.
ReportOn(guests) ==
    LET site == BuildSite(raw)
    IN  IF site = Refused THEN [site |-> Refused]
        ELSE [site |-> site, guests |-> guests, spend |-> Collect(config, site),
              findings |-> Recommendations(config, site, guests)]

Pass ==
    /\ report = None
    /\ \E guests \in Guests : report' = ReportOn(guests)
    /\ UNCHANGED <<raw, config, moves>>

Next ==
    PowerVm \/ PowerHost \/ Orphan \/ Mount \/ Fill \/ Disconnect \/ Forget \/ Pass

Spec == Init /\ [][Next]_vars

----------------------------------------------------------------------------
\* A measurement is of a vm that there is, and an offer is worth something.
TypeOK ==
    /\ config \in Configs /\ ConfigValid(config)
    /\ moves \in 0 .. MaxMoves
    /\ DOMAIN raw.perf \subseteq DOMAIN raw.vms
    /\ report # None /\ report.site # Refused => \A f \in report.findings : f.monthly \in Nat

Reported == report # None /\ report.site # Refused
Numbered == [i \in DOMAIN report.site.pools |-> AllocatePool(config, report.site.pools[i], report.site.usage)]
PricedPools == {i \in DOMAIN report.site.pools : Numbered[i] # Refused}
Far(a, b, n) == a - b > n \/ b - a > n

\* The lines of a priced pool add up to a day of its card, and to more only by what
\* the vms reserve beyond the pool: a cent per line is lost to rounding.  (costs.py:
\* "the ones that make the numbers add up"; an unpriced pool has no line at all.)
BillIsTheCards ==
    Reported /\ ~report.spend.raised =>
        \A i \in DOMAIN report.site.pools :
            LET lines == {r \in report.spend.lines : r.pool = report.site.pools[i].key}
            IN  IF i \in PricedPools
                THEN ~Far(Sum(LAMBDA r : r.cost, lines),
                          DayCost(AtLeast(Numbered[i].money, Numbered[i].total)), Cardinality(lines))
                ELSE lines = {}

\* One unpriceable pool never blanks the site: the collector answers with no spend
\* only when no pool has a price, and then it raises.
SpendWhenPriced ==
    Reported => (report.spend.raised <=> PricedPools = {} /\ report.site.pools # <<>>)

\* A vm is never said to have used more than it reserved, and a vm without a row is
\* never said to have wasted anything (metrics.py: clamped; "an absent measurement
\* must never read as zero usage").
WasteWithinReserved ==
    Reported /\ ~report.spend.raised =>
        \A r \in report.spend.lines : r.measured # None => r.measured.waste >= 0 /\ r.uid \in DOMAIN report.site.usage

\* Together, and of the right types: what the spend of a site says is what its cards and its measurements say.
SpendIsTheSites == TypeOK /\ BillIsTheCards /\ SpendWhenPriced /\ WasteWithinReserved

VmKinds == {"idle-vm", "rightsize-vm", "stopped-vm", "template-disk"}
HostKinds == {"zombie-host", "powered-off-host"}

\* What a report offers in a pool, by findings of some kinds.
OfferedIn(i, kinds) ==
    Sum(LAMBDA f : f.monthly,
        {f \in report.findings : f.region = report.site.pools[i].key /\ f.kind \in kinds})

\* The hosts of a pool that nobody is told to hand back.
HostsThatStay(i) ==
    {h \in report.site.pools[i].hosts :
        \A f \in report.findings : f.kind \in HostKinds => f.uid # h.uid}

\* What the running vms of a pool reserve is there on those hosts.
FitsOnWhatStays(i) ==
    /\ Numbered[i].reserved.vcpu <= Sum(LAMBDA h : h.cores, HostsThatStay(i))
    /\ Numbered[i].reserved.ram <= Sum(LAMBDA h : h.ram, HostsThatStay(i))

\* What the vms of a pool could give back is never worth more than the pool costs,
\* however oversubscribed it is (_handback_rate); and it is not together with the hosts
\* of the pool, when the vms fit on the hosts that stay.  A host is not scaled, so beyond
\* that the two may come to more than the pool.
PoolOffersWithinTheBill ==
    Reported => \A i \in PricedPools :
        /\ OfferedIn(i, VmKinds) <= Numbered[i].money
        /\ FitsOnWhatStays(i) => OfferedIn(i, VmKinds) + OfferedIn(i, HostKinds) <= Numbered[i].money

\* One thing is one finding: a vm is switched off, shrunk, deleted or adopted and
\* never two of them, and an array shared by two pools is one array.
OneAdvicePerThing ==
    Reported =>
        \A f, g \in report.findings :
            f.uid = g.uid /\ f # g => "thin-overcommit" \in {f.kind, g.kind} /\ f.kind # g.kind

\* No live thing is advised against: what runs is never a stopped disk or an orphan,
\* a host that carries a vm is never handed back, and nothing that was not measured
\* is called idle or too large.
NothingLiveHandedBack ==
    Reported => \A f \in report.findings :
        /\ f.kind \in {"stopped-vm", "template-disk"} => ~raw.vms[f.uid].on
        /\ f.kind \in {"zombie-host", "powered-off-host"} =>
               \/ ~raw.hosts[f.uid].on
               \/ ~\E v \in raw.hosts[f.uid].vms \cap DOMAIN raw.vms : raw.vms[v].on /\ ~raw.vms[v].template
        /\ f.kind \in {"idle-vm", "rightsize-vm"} => f.uid \in DOMAIN raw.perf /\ raw.vms[f.uid].on

\* The leftovers of the site, gap and orphans together, are never worth more than
\* the storage the priced pools pay for, when all of them are priced and what the vms
\* occupy is on arrays that somebody mounts.
LeftoversWithinTheStorage ==
    Reported /\ PricedPools = DOMAIN report.site.pools
    /\ ClaimedGib(report.site) <= ArrayGib(report.site, Numbered) =>
        Sum(LAMBDA f : f.monthly,
            {f \in report.findings : f.kind \in {"unaccounted-storage", "orphan-vm"}})
        <= StorageMoney(Numbered)

\* Together: of what a site is told it could save, the vms' part and the leftovers' part are
\* covered by the money that pays for them, and the hosts' part as far as it can be.  An array
\* that nobody mounts is offered back on top: no card pays for it (site_storage_rate).
OffersWithinTheirPart == PoolOffersWithinTheBill /\ LeftoversWithinTheStorage
=============================================================================
