------------------------------ MODULE SiteWaste ------------------------------
(***************************************************************************)
(* What a site pays for and does not use: OnPremWasteCollector of          *)
(* clont/finops/onprem/waste.py over a pass of SiteInventory, priced by    *)
(* SiteBill.  A finding is [kind, uid, region, monthly]; the wording and   *)
(* the shown names are left out, and monthly is in cents.                  *)
(***************************************************************************)
EXTENDS SiteBill

CONSTANTS
    MinSavings,      \* onprem_min_savings_usd, in cents
    IdleCpu,         \* idle_cpu_pct
    IdleRam,         \* onprem_idle_ram_pct
    TargetPct,       \* onprem_rightsize_target_pct
    ThinLimit,       \* onprem_thin_overcommit_ratio, in percent
    UnaccountedGib,  \* onprem_unaccounted_min_gib
    UnaccountedPct   \* onprem_unaccounted_min_pct

ASSUME TuningAssumption ==
    /\ {MinSavings, IdleCpu, IdleRam, ThinLimit, UnaccountedGib, UnaccountedPct} \subseteq Nat
    /\ TargetPct \in 1 .. 100

SiteRegion == <<None, "site">>  \* the region of a finding that belongs to no pool

----------------------------------------------------------------------------
(* Faulty variants of the definitions below.                                *)

\* A unit handed back at the rate of a pool that is exactly full.
HandbackAtCard(priced, dim, n) ==
    Share(priced.money, priced.weights[dim], n, priced.cap[IF dim = "cpu" THEN "vcpu" ELSE dim])

\* Findings of every pool that saw the thing.
OnceNever(findings) == ToSet(findings)

\* Disks of vms that run.
ReclaimableAny(vm) == vm.committed > 0

----------------------------------------------------------------------------
\* What n units a vm gives back are worth: on an oversubscribed pool the iron they
\* really occupy, and on a pool with slack no more than the card says.
Handback(priced, dim, n) ==
    LET cap == priced.cap[IF dim = "cpu" THEN "vcpu" ELSE dim]
        reserved == priced.reserved[IF dim = "cpu" THEN "vcpu" ELSE dim]
    IN  Share(priced.money, priced.weights[dim], n, AtLeast(cap, reserved))

Finding(kind, uid, region, monthly) ==
    [kind |-> kind, uid |-> uid, region |-> region, monthly |-> monthly]

\* A vm or a template that is off and still holds blocks.
Reclaimable(vm) == ~vm.on /\ vm.committed > 0

DiskFindings(pool, priced) ==
    {Finding(IF vm.template THEN "template-disk" ELSE "stopped-vm", vm.uid, pool.key,
             Handback(priced, "storage", vm.committed)) :
        vm \in {x \in pool.vms : Reclaimable(x) /\ Handback(priced, "storage", x.committed) >= MinSavings}}

\* Iron that carries no load: its share of the pool is cpu and ram, never storage.
HostFindings(pool, priced) ==
    LET busy == {vm.host : vm \in {x \in pool.vms : Running(x)}}
        worth(h) == Share(priced.money, priced.weights.cpu, h.cores, priced.cap.vcpu)
                    + Share(priced.money, priced.weights.ram, h.ram, priced.cap.ram)
    IN  {Finding(IF h.on THEN "zombie-host" ELSE "powered-off-host", h.uid, pool.key, worth(h)) :
            h \in {x \in pool.hosts : ~(x.on /\ x.uid \in busy) /\ worth(x) >= MinSavings}}

\* An array that promises more than it has: a risk, and no saving.
ThinFindings(pool) ==
    {Finding("thin-overcommit", d.uid, pool.key, 0) :
        d \in {x \in pool.datastores : x.provisioned * 100 >= ThinLimit * x.cap}}

PoolFindings(pool, priced) ==
    DiskFindings(pool, priced) \cup HostFindings(pool, priced) \cup ThinFindings(pool)

\* The smallest whole size that leaves the p95 at the target of it; never under one
\* unit, never over what it has.  The p95 is in hundredths of a unit.
Fit(p95, has) == AtMost(AtLeast(1, (p95 + TargetPct - 1) \div TargetPct), has)

IsIdle(vm, row) == row.cpu <= IdleCpu /\ row.mem <= IdleRam

\* One measured and running vm: switched off when it idles, shrunk when it does not,
\* and no finding when that saves too little.
UsageFinding(pool, priced, vm, row) ==
    LET idle == Handback(priced, "cpu", vm.vcpu) + Handback(priced, "ram", vm.ram)
        saved == Handback(priced, "cpu", vm.vcpu - Fit(row.vcpu, vm.vcpu))
                 + Handback(priced, "ram", vm.ram - Fit(row.ram, vm.ram))
        shrinks == Fit(row.vcpu, vm.vcpu) # vm.vcpu \/ Fit(row.ram, vm.ram) # vm.ram
    IN  IF IsIdle(vm, row)
        THEN IF idle >= MinSavings THEN {Finding("idle-vm", vm.uid, pool.key, idle)} ELSE {}
        ELSE IF shrinks /\ saved >= MinSavings
             THEN {Finding("rightsize-vm", vm.uid, pool.key, saved)} ELSE {}

UsageFindings(pool, priced, usage) ==
    UNION {UsageFinding(pool, priced, vm, usage[vm.uid]) :
              vm \in {x \in pool.vms : x.uid \in DOMAIN usage /\ Running(x)}}

----------------------------------------------------------------------------
\* The GiB the site's storage money buys: every array of a priced pool once, however
\* many pools mount it.  priced is a function from pool numbers to allocations.
ArrayGib(site, priced) ==
    Sum(LAMBDA d : d.cap, UNION {site.pools[i].datastores : i \in DOMAIN priced})

\* The storage money of the priced pools.
StorageMoney(priced) ==
    Sum(LAMBDA i : Share(priced[i].money, priced[i].weights.storage, 1, 1), DOMAIN priced)

\* n GiB at the mean rate of the site.
SiteStorage(site, priced, n) ==
    IF n <= 0 THEN 0 ELSE (StorageMoney(priced) * n) \div ArrayGib(site, priced)

\* Space in use on the arrays that somebody mounts.
UsedGib(site) == Sum(LAMBDA d : d.cap - d.free, site.datastores \ site.unmounted)

\* What the vms account for.
ClaimedGib(site) == Sum(LAMBDA vm : vm.committed, SiteVms(site))

\* What the guests own up to, and never more than there is to explain.
Explained(raw, guests) ==
    AtMost(Sum(LAMBDA g : AtLeast(g.detached, 0), guests), AtLeast(raw, 0))

\* The gap nobody accounts for, or None when it is below either threshold.
UnaccountedIn(site, guests) ==
    LET used == UsedGib(site)
        raw == used - ClaimedGib(site)
        left == raw - Explained(raw, guests)
    IN  IF \/ used <= 0 \/ left < UnaccountedGib \/ left * 100 < UnaccountedPct * used
        THEN None ELSE left

\* The leftovers that belong to no pool, at the site's mean rate.
SiteFindings(site, priced, guests) ==
    LET worth(n) == SiteStorage(site, priced, n)
        gap == UnaccountedIn(site, guests)
    IN  {Finding("orphan-vm", vm.uid, SiteRegion, worth(vm.committed)) :
            vm \in {x \in site.orphans : worth(x.committed) >= MinSavings}}
        \cup {Finding("unmounted-datastore", d.uid, SiteRegion, worth(d.cap)) :
                 d \in {x \in site.unmounted : worth(x.cap) >= MinSavings}}
        \cup IF gap # None /\ worth(gap) >= MinSavings
             THEN {Finding("unaccounted-storage", "leftovers", SiteRegion, worth(gap))} ELSE {}

\* One finding per thing: of a kind and a moref the first pool keeps it.
Once(findings) ==
    LET first(i) == \A j \in 1 .. i - 1 :
                        <<findings[j].kind, findings[j].uid>> # <<findings[i].kind, findings[i].uid>>
    IN  {findings[i] : i \in {k \in DOMAIN findings : first(k)}}

\* The whole pass.  The pools are looked at in their order, one without a price is
\* skipped, and with none priced there is no rate for what the pools leave over.
Recommendations(config, site, guests) ==
    LET results == [i \in DOMAIN site.pools |-> AllocatePool(config, site.pools[i], site.usage)]
        priced == RestrictValues(results, LAMBDA r : r # Refused)
        ofPool(i) == PoolFindings(site.pools[i], priced[i])
                     \cup UsageFindings(site.pools[i], priced[i], site.usage)
        inOrder == [i \in DOMAIN site.pools |->
                       IF i \in DOMAIN priced THEN SetToSeq(ofPool(i)) ELSE <<>>]
    IN  Once(FlattenSeq(inOrder)
             \o IF DOMAIN priced = {} THEN <<>> ELSE SetToSeq(SiteFindings(site, priced, guests)))
=============================================================================
