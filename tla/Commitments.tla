----------------------------- MODULE Commitments -----------------------------
(***************************************************************************)
(* What an account has committed to and what runs under it: the join of    *)
(* clont/finops/aws/inventory.py and the three collectors that read it,    *)
(* commitments.py, utilization.py and expiry.py.                           *)
(*                                                                         *)
(* An instance is [id, type, region, az, state, spot]; a reservation is    *)
(* [id, type, region, az, count, end, state] with the az None when it      *)
(* floats across its region; a plan is [id, type, hourly, end, state].     *)
(* Dates are ticks of a clock, and money is not rounded to cents.          *)
(***************************************************************************)
EXTENDS Prices, FiniteSets, FiniteSetsExt, Functions, Lists

CONSTANTS
    PerDay,           \* ticks a day
    MinUtilization,   \* ri_sp_min_utilization, percent
    MinCoverage       \* ri_sp_min_coverage, percent

ASSUME CommitmentAssumption == PerDay \in Nat \ {0} /\ {MinUtilization, MinCoverage} \subseteq 0 .. 100

SumOver(f(_), S) == SumFunction([x \in S |-> f(x)])
Entries(s) == {s[i] : i \in DOMAIN s}

\* At most n of the members of S.
UpTo(n, S) == IF Cardinality(S) <= n THEN S ELSE CHOOSE T \in SUBSET S : Cardinality(T) = n

----------------------------------------------------------------------------
(* inventory.py: the answers of the three describes, and the join.          *)

ComputePlans == {"Compute", "EC2Instance"}

\* What counts as running: a spot instance cannot be committed to.
Instances(answer) == {i \in answer : i.state = "running" /\ ~i.spot}
Binding(r) == r.state = "active" /\ r.count > 0
Reserved(answer) == Those(answer, {r \in Entries(answer) : Binding(r)})
SavingsPlans(answer) == {p \in answer : p.state = "active"}

Covers(pool, i) ==
    /\ i.type = pool.type
    /\ IF pool.az # None THEN i.az = pool.az ELSE i.region = pool.region

\* A faulty variant of Order: the pools as the describes listed them.
OrderAsListed(pools) == pools

\* The pools of one zone bind before those that float across the region.
Order(pools) ==
    LET zonal == {p \in Entries(pools) : p.az # None}
    IN Those(pools, zonal) \o Those(pools, Entries(pools) \ zonal)

\* What is left free by the first k pools.  Which of the instances a pool covers it takes
\* is of no consequence: they have one type and one region, and so one price.
Free(running, pools) ==
    LET free[k \in 0 .. Len(pools)] ==
          IF k = 0 THEN running
          ELSE free[k - 1] \ UpTo(pools[k].count, {i \in free[k - 1] : Covers(pools[k], i)})
    IN free

\* _build and _match: an inventory.
Join(instances, reserved, plans) ==
    LET running == Instances(instances)
        pools == Order(Reserved(reserved))
        free == Free(running, pools)
    IN [running |-> running,
        pools |-> [k \in DOMAIN pools |->
                     [pool |-> pools[k], matched |-> Cardinality(free[k - 1]) - Cardinality(free[k])]],
        uncovered |-> free[Len(pools)],
        reserved |-> {r \in Entries(reserved) : Binding(r)},
        allPlans |-> SavingsPlans(plans),
        plans |-> {p \in SavingsPlans(plans) : p.type \in ComputePlans}]

Hourly(i) == InstanceQuote(i.type, i.region).amount

ReservedCount(inv) == SumOver(LAMBDA k : inv.pools[k].pool.count, DOMAIN inv.pools)
MatchedCount(inv) == SumOver(LAMBDA k : inv.pools[k].matched, DOMAIN inv.pools)
UnusedReserved(inv) == SumOver(LAMBDA k : Floor0(inv.pools[k].pool.count - inv.pools[k].matched), DOMAIN inv.pools)
UncoveredHourly(inv) == SumOver(Hourly, inv.uncovered)
CommittedHourly(inv) == SumOver(LAMBDA p : p.hourly, inv.plans)
SpUnusedHourly(inv) == Floor0(CommittedHourly(inv) - UncoveredHourly(inv))

Percent(part, whole) == IF whole <= 0 THEN 0 ELSE (part * 100) \div whole
RiUtilization(inv) == Percent(MatchedCount(inv), ReservedCount(inv))
RiCoverage(inv) == Percent(MatchedCount(inv), Cardinality(inv.running))
SpUtilization(inv) == Percent(CommittedHourly(inv) - SpUnusedHourly(inv), CommittedHourly(inv))
SpCoverage(inv) == Percent(CommittedHourly(inv), CommittedHourly(inv) + UncoveredHourly(inv))

Rec(service, kind, id, saving) == [service |-> service, kind |-> kind, id |-> id, saving |-> saving]
If(condition, rec) == IF condition THEN {rec} ELSE {}

----------------------------------------------------------------------------
(* commitments.py: what to buy.                                             *)

Purchases(inv) ==
    LET uncovered == UncoveredHourly(inv)
        plan == CommitmentMonthlySaving(uncovered, SP_DISCOUNT_PCT)
        reservation == CommitmentMonthlySaving(uncovered, RI_DISCOUNT_PCT)
    IN IF inv.uncovered = {} \/ uncovered <= 0 THEN {}
       ELSE If(plan > 0, Rec("savings-plans", "savings-plan", "COMPUTE_SP", plan))
              \cup If(reservation > 0, Rec("reserved-instances", "reserved-instance", "ec2", reservation))

----------------------------------------------------------------------------
(* utilization.py: what works poorly.                                       *)

SpLowUtilization(inv) ==
    If(CommittedHourly(inv) > 0 /\ SpUtilization(inv) < MinUtilization,
       Rec("savings-plans", "low-sp-utilization", "savings-plans", SpUnusedHourly(inv) * HOURS_PER_MONTH))
SpLowCoverage(inv) ==
    If(UncoveredHourly(inv) > 0 /\ SpCoverage(inv) < MinCoverage,
       Rec("savings-plans", "low-sp-coverage", "savings-plans", 0))
RiLowUtilization(inv) ==
    If(ReservedCount(inv) > 0 /\ RiUtilization(inv) < MinUtilization,
       Rec("reserved-instances", "low-ri-utilization", "reserved-instances", 0))
RiLowCoverage(inv) ==
    If(inv.uncovered # {} /\ RiCoverage(inv) < MinCoverage,
       Rec("reserved-instances", "low-ri-coverage", "reserved-instances", 0))

Efficiency(inv) ==
    SpLowUtilization(inv) \cup SpLowCoverage(inv) \cup RiLowUtilization(inv) \cup RiLowCoverage(inv)

----------------------------------------------------------------------------
(* expiry.py: what lapses.                                                  *)

Tiers == {7, 30, 60}

\* Whole days, rounded towards now on both sides of it.
DaysLeft(end, now) == IF end >= now THEN (end - now) \div PerDay ELSE -((now - end) \div PerDay)

\* The tightest threshold already crossed; what has lapsed is in the tightest.
Tier(days) == LET crossed == {t \in Tiers : Floor0(days) <= t} IN IF crossed = {} THEN None ELSE Min(crossed)

\* A faulty variant of ExpiryKind: one kind for the whole window.
ExpiryKindFlat(tier) == "commitment-expiry"

ExpiryKind(tier) ==
    CASE tier = 7 -> "commitment-expiry-7d" [] tier = 30 -> "commitment-expiry-30d" [] OTHER -> "commitment-expiry-60d"

\* The reservations and the plans about to lapse, with the discount at risk: a plan's rate
\* is what the discount left, so lapsing adds d / (1 - d) of it.
Expiring(inv, now) ==
    LET due(items) == {x \in items : x.end # None /\ Tier(DaysLeft(x.end, now)) # None}
        kind(x) == ExpiryKind(Tier(DaysLeft(x.end, now)))
        onDemand(r) == InstanceQuote(r.type, r.region).amount * r.count * HOURS_PER_MONTH
        uplift(p) == (p.hourly * HOURS_PER_MONTH * SP_DISCOUNT_PCT) \div (100 - SP_DISCOUNT_PCT)
    IN {Rec("reserved-instances", kind(r), r.id, (onDemand(r) * RI_DISCOUNT_PCT) \div 100) : r \in due(inv.reserved)}
         \cup {Rec("savings-plans", kind(p), p.id, uplift(p)) : p \in due(inv.allPlans)}
=============================================================================
