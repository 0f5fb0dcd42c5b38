---------------------------- MODULE MetricsBudget ----------------------------
(***************************************************************************)
(* The paid CloudWatch reads of one agent: MetricsPolicy of                *)
(* clont/monitoring/base.py, spent by run_metric_queries of                *)
(* clont/providers/aws/metrics.py under the region sweep of                *)
(* clont/providers/aws/regions.py, and reset by every cycle.               *)
(*                                                                         *)
(* GetMetricData bills per metric requested, so queries are numbers here:  *)
(* how many a collector builds in a region, and how many of them are for   *)
(* metrics the operator's allowlist names.  The result of a sweep is the   *)
(* number of queries that were left out of it.                             *)
(***************************************************************************)
EXTENDS Integers

CONSTANTS
    Count,        \* the collectors of a cycle, in the order they are called
    RegionCount,  \* the regions each sweeps
    Queries,      \* collector, region -> queries built, listed and unlisted
    Budgeted,     \* collectors handed the policy: all of monitoring, none of finops
    Services,     \* collectors MetricsPolicy.allows
    Memoised,     \* collectors that go through Due: all, or all but the metrics
    MaxPerCycle,  \* max_metrics_per_cycle
    ChunkSize,    \* _MAX_QUERIES
    Unswept

Collectors == 1 .. Count
Regions == 1 .. RegionCount

ASSUME CountAssumption == Count \in Nat \ {0} /\ RegionCount \in Nat \ {0}
ASSUME QueriesAssumption == Queries \in [Collectors -> [Regions -> [listed : Nat, unlisted : Nat]]]
ASSUME BudgetAssumption == MaxPerCycle \in Nat /\ ChunkSize \in Nat \ {0}
ASSUME SetsAssumption ==
    Budgeted \subseteq Collectors /\ Services \subseteq Collectors /\ Memoised \subseteq Collectors
ASSUME UnsweptAssumption == Unswept \notin Nat

VARIABLES
    stage,      \* idle, ask (about to call at), trim, send, done
    at,         \* the collector the cycle is at
    region,     \* the region its sweep is at
    pending,    \* queries of this region trimmed and not yet sent
    missing,    \* queries this sweep has done without so far
    remaining,  \* MetricsPolicy.remaining
    memo,       \* Due._entries: collector -> what its last sweep missed, or Unswept
    stale,      \* the collectors whose entry has outlived its ttl
    sent,       \* history: metrics requested this cycle under the policy
    aside,      \* history: metrics requested this cycle without one
    wasted,     \* history: metrics booked this cycle and never requested
    dropped     \* history: listed queries the budget had no room for this cycle

place == <<stage, at, region, pending>>
memory == <<memo, stale>>
bill == <<sent, aside, wasted, dropped>>
budgetVars == <<place, missing, remaining, memory, bill>>

BudgetTypeOK ==
    /\ stage \in {"idle", "ask", "trim", "send", "done"}
    /\ at \in Collectors
    /\ region \in Regions
    /\ pending \in Nat
    /\ missing \in Nat
    /\ remaining \in Nat
    /\ memo \in [Collectors -> Nat \cup {Unswept}]
    /\ stale \in SUBSET Collectors
    /\ sent \in Nat /\ aside \in Nat /\ wasted \in Nat /\ dropped \in Nat

Smaller(a, b) == IF a < b THEN a ELSE b

----------------------------------------------------------------------------
(* Faulty variants of the definitions below.                                *)

\* A trim that compares each request with the ceiling and not with what is left.
RoomEachTime == MaxPerCycle

\* The allowlist applied after the budget has been taken by the whole list.
BookedBeforeTheList(q) == Smaller(q.listed + q.unlisted, remaining)

----------------------------------------------------------------------------
BudgetInit ==
    /\ stage = "idle" /\ at = 1 /\ region = 1 /\ pending = 0
    /\ missing = 0
    /\ remaining = 0
    /\ memo = [c \in Collectors |-> Unswept]
    /\ stale = {}
    /\ sent = 0 /\ aside = 0 /\ wasted = 0 /\ dropped = 0

\* MetricsPolicy.reset
Reset == MaxPerCycle

\* The queries of a region the policy lets through, before the budget.
Allowed(q) == q.listed

\* How many of them may still be sent, and what trim takes off the budget.
Room == remaining
Kept(q) == Smaller(Allowed(q), Room)
Booked(q) == Kept(q)

FreshSeries(c) == c \in Memoised /\ memo[c] # Unswept /\ c \notin stale

NextCollector ==
    /\ stage' = IF at < Count THEN "ask" ELSE "idle"
    /\ at' = IF at < Count THEN at + 1 ELSE 1
    /\ region' = 1
    /\ pending' = 0
    /\ missing' = 0

\* for_each_region goes on with the next region, or returns.
NextRegion ==
    /\ stage' = IF region < RegionCount THEN "trim" ELSE "done"
    /\ region' = IF region < RegionCount THEN region + 1 ELSE region
    /\ pending' = 0
    /\ UNCHANGED at

\* _collect_batch begins: "fresh CloudWatch budget for this cycle".
StartCycle ==
    /\ stage = "idle"
    /\ stage' = "ask"
    /\ remaining' = Reset
    /\ sent' = 0 /\ aside' = 0 /\ wasted' = 0 /\ dropped' = 0
    /\ UNCHANGED <<at, region, pending, missing, memory>>

\* The operator listed services, and this one is not among them.
NotAllowed ==
    /\ stage = "ask"
    /\ at \in Budgeted \ Services
    /\ NextCollector
    /\ UNCHANGED <<remaining, memory, bill>>

Asked == stage = "ask" /\ at \notin Budgeted \ Services

\* A fresh series is handed out again: the budget does not move.
ReuseSeries ==
    /\ Asked
    /\ FreshSeries(at)
    /\ NextCollector
    /\ UNCHANGED <<remaining, memory, bill>>

\* provider.regions raises: the collector fails and its entry stays.
SweepRaises ==
    /\ Asked
    /\ ~FreshSeries(at)
    /\ NextCollector
    /\ UNCHANGED <<remaining, memory, bill>>

Sweep ==
    /\ Asked
    /\ ~FreshSeries(at)
    /\ stage' = "trim"
    /\ UNCHANGED <<at, region, pending, missing, remaining, memory, bill>>

\* Listing the region's resources raises, before any metric is asked for.
ListingRaises ==
    /\ stage = "trim"
    /\ missing' = missing + Queries[at][region].listed
    /\ NextRegion
    /\ UNCHANGED <<remaining, memory, bill>>

\* run_metric_queries with the policy: the allowlist, and then the budget.
Trim ==
    /\ stage = "trim" /\ at \in Budgeted
    /\ LET q == Queries[at][region] IN
         /\ pending' = Kept(q)
         /\ remaining' = remaining - Booked(q)
         /\ missing' = missing + (Allowed(q) - Kept(q))
         /\ dropped' = dropped + (Allowed(q) - Kept(q))
    /\ stage' = "send"
    /\ UNCHANGED <<at, region, memory, sent, aside, wasted>>

\* The finops fallbacks call it without one: every query they build goes out.
NoTrim ==
    /\ stage = "trim" /\ at \notin Budgeted
    /\ pending' = Queries[at][region].listed + Queries[at][region].unlisted
    /\ stage' = "send"
    /\ UNCHANGED <<at, region, missing, remaining, memory, bill>>

Requested(n) ==
    /\ sent' = IF at \in Budgeted THEN sent + n ELSE sent
    /\ aside' = IF at \in Budgeted THEN aside ELSE aside + n

Chunk == Smaller(ChunkSize, pending)

\* GetMetricData answers, with all of the chunk's pages.
Answered ==
    /\ stage = "send" /\ pending > 0
    /\ Requested(Chunk)
    /\ pending' = pending - Chunk
    /\ UNCHANGED <<stage, at, region, missing, remaining, memory, wasted, dropped>>

\* It raises: the region is skipped with everything it had already answered,
\* and what was booked for its other chunks is not given back.
Throttled ==
    /\ stage = "send" /\ pending > 0
    /\ Requested(Chunk)
    /\ wasted' = IF at \in Budgeted THEN wasted + (pending - Chunk) ELSE wasted
    /\ missing' = missing + Queries[at][region].listed
    /\ NextRegion
    /\ UNCHANGED <<remaining, memory, dropped>>

RegionDone ==
    /\ stage = "send" /\ pending = 0
    /\ NextRegion
    /\ UNCHANGED <<missing, remaining, memory, bill>>

\* The sweep returns, however much of it is missing, and Due keeps the result.
Sweeped ==
    /\ stage = "done"
    /\ memo' = IF at \in Memoised THEN [memo EXCEPT ![at] = missing] ELSE memo
    /\ stale' = stale \ {at}
    /\ NextCollector
    /\ UNCHANGED <<remaining, bill>>

\* collect_every_seconds is over for an entry.
Expire(c) ==
    /\ stage = "idle"
    /\ memo[c] # Unswept /\ c \notin stale
    /\ stale' = stale \cup {c}
    /\ UNCHANGED <<place, missing, remaining, memo, bill>>

BudgetNext ==
    \/ StartCycle \/ NotAllowed \/ ReuseSeries \/ SweepRaises \/ Sweep \/ ListingRaises
    \/ Trim \/ NoTrim \/ Answered \/ Throttled \/ RegionDone \/ Sweeped
    \/ \E c \in Collectors : Expire(c)

BudgetSpec == BudgetInit /\ [][BudgetNext]_budgetVars

----------------------------------------------------------------------------
(* What the policy promises.                                                *)

\* No cycle asks for more metrics under the policy than max_metrics_per_cycle,
\* over all accounts, services, regions and chunks: "a fleet that grows past the
\* ceiling costs the same as one sitting on it".
CeilingKept == sent <= MaxPerCycle

\* A metric on the allowlist is left out only when the whole ceiling has been
\* given to metrics on the allowlist: sent, or booked for a region that failed.
DroppedOnlyAtTheCeiling ==
    dropped > 0 /\ stage # "send" => sent + wasted = MaxPerCycle
=============================================================================
