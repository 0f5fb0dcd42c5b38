# clont, specified

TLA+ modules of [clont](../src/README.md), a read-only agent that watches the
spend, the waste and the health of AWS accounts, on-prem sites and Kubernetes
clusters.  Paths and lines below are those of `src/`.  `PROJECT.json` holds, per
definition, the lines it stands for; this file says what the modules are about.

1. [The system](#1-the-system)
2. [The modules](#2-the-modules)
3. [The runs](#3-the-runs)
4. [Where code and documentation part](#4-where-code-and-documentation-part)
5. [What is proved](#5-what-is-proved)
6. [What is not modelled](#6-what-is-not-modelled)
7. [Plan](#7-plan)

## 1. The system

clont is one thread.  `Agent.run_forever` runs a cycle, logs whatever escapes it
and sleeps `interval_seconds`.  Nothing is persisted; a restart starts cold.  What
makes it hard is not parallelism: it is a loop that talks to dozens of services
that fail one by one and at any moment, keeps the last answers of the expensive
ones, stacks caches on caches, spends real money per request, and must still say
something true every five minutes.

| Component | State | Operations | Talks to |
|---|---|---|---|
| collector memo, `agent/cadence.py` | `Due._entries`: key → (stamp, value) | `get_or_reuse`, `last` | wraps every paid call of the loop |
| agent loop, `agent/runner.py` | the `Batch` of a cycle; the memo; namespace reports | `_collect_batch`, `run_cycle`, `run_once`, `run_forever` | collectors, detectors, uplink, channels |
| dispatch and channels, `channels/base.py` | `_last_sent`: key → time, per channel | `send`, `_should_send`, `_deliver`; the loops of `dispatch` | HTTP receivers |
| metric budget, `monitoring/base.py`, `providers/aws/metrics.py`, `regions.py` | `MetricsPolicy.remaining` | `reset`, `allows`, `trim`; `run_metric_queries`, `for_each_region` | CloudWatch |
| cost and usage report, `finops/aws/cur.py` | module-wide `_cache` (one entry) | `_spend`, `_billing_periods`, `collect`, `recommendations` | S3, under the memo |
| start-up, `agent/bootstrap.py`, `providers/aws/organizations.py` | the provider, member, source and guest lists; a listing cache | `build_agent` and its helpers | STS, Organizations, sites, clusters |
| spend and metric detectors, `events/detectors.py`, `events/stats.py` | none | `detect` | the batch |
| showback and transfer, `finops/showback.py`, `transfer.py` | none | grouping of records | the batch |
| commitments, `finops/aws/inventory.py`, `commitments.py`, `utilization.py`, `expiry.py` | one inventory for the three, for a minute | `build`, `recommendations` | EC2, Savings Plans |
| leftovers, `finops/aws/waste.py`, `snapshots.py`, `public_ipv4.py` | none | `collect`, `recommendations` | EC2, region by region |
| other savings collectors, `finops/aws/*` | none | `recommendations` | AWS, metric reads |
| prices, `finops/aws/pricing.py` | a vendored table | quotes | |
| on-prem site, `providers/onprem/*`, `finops/onprem/*`, `finops/guests.py` | `_last`: the inventory and its stamp; the guest hooks | `inventory`, `attach_guest`; spend lines and findings | vCenter, its clusters' hooks |
| Kubernetes source, `finops/k8s/*`, `providers/k8s/*` | `_last`: read, mapping, usage; the ring of samples | `_pass`, `namespaces`, `workloads`, `pools`, `volumes`, `guest_storage` | the API server, Prometheus, its site |
| uplink, `api/*` | none | `ship` | the clont server |
| summary, CLI, configuration, registry | none | rendering, parsing, validation | |

How they interact: every cycle restores the metric budget, asks spend and advice of
each provider through the memo, asks health and metrics, splits the spend over the
namespaces *after* every provider has collected, ships the batch, appends the
server's events to the local ones and offers each event to each channel.  The
channels throttle by the event's key, which names a condition and not an occurrence.

What is hard to test is listed, at its line, under `hazards` in `PROJECT.json`:

- **failure in part**: a region drops out of a sweep that "succeeds"; a folder of a
  report is missing; one of several tasks raises; a login is refused.  A missing part
  must be visible, and must cost nothing else.
- **old answers**: a memo over a cache over a slow read.  How old can a number be, and
  whose is it?
- **delivery that may or may not have happened**: the channel cannot tell, and stamps.
- **a budget** shared by accounts, services, regions and chunks of one cycle, with paths
  that abandon it half way.
- **order**: split after spend, local events before the server's, clusters attached to a
  site only once they are read.
- **calendar arithmetic** at the ends of months and years, with late reports, and
  statistics over the days that happen to be in hand.
- **a world that moves between two calls**: volumes and snapshots, elastic addresses and
  interfaces, a site and the cluster on it are listed one after the other and joined.
- **money that must add up**: shares of a rate card, of a node, of an oversubscribed pool;
  what is offered as a saving should not be more than what is paid, nor be offered twice.

What makes each component correct is stated in its module as properties; section 3
lists them.

## 2. The modules

The loop and its memory:

| Module | Models | Correspondence |
|---|---|---|
| `Cadence` | `Due` under the runner's try | `entries` = `_entries`; `Begin` / `Succeed` / `Raise` cut `get_or_reuse` where the upstream call is in flight, so the clock can move during it; `Reuse` is the other branch; `Begin(k, TRUE)` a forced refresh; `Restart` a new process |
| `Notifier` | *abstract*: every pair (channel, key) is its own throttle | no loops, no batches, no severities |
| `Dispatch` | `dispatch` and `send` | `pos`, `chan` = the two nested loops; `Skip` = the early `return False`; `Post`, `Accept`, `Return`, `Raise` cut `send` around the receiver's acceptance, so a delivery may raise before *or after* it was accepted |
| `Cycle` | one cycle of the loop over all collectors | `todo` = the tasks of `_collect_batch` still to come, in the code's order; `Reuse`, `Answer`, `Fail` = one task through the memo with its try; `Absorb` = everything the code does with an answer, deduplication and detection included; `Abort` = a detector that raises outside every try; `Ship`, `ShipFails`, `HandOver` = the end of `run_cycle` |
| `MetricsBudget` | the paid metric reads of one cycle | `remaining`; `Trim` = allowlist and budget; `Answered` / `Throttled` = one chunk of `GetMetricData`; `ListingRaises`, `SweepRaises` = the failures around it; `NoTrim` = the savings collectors, which pass no policy |
| `CurCache` | `_spend` and its cache below the memo | `cache` = `_cache`, `due` = the memo of both halves of each account; a window is read folder by folder (`ReadFolder`, `FolderAbsent`, `ReadRaises`) |
| `Bootstrap` | `build_agent` | `phase` and `next` walk the configured accounts, the members the organizations list, the sites and the `Kubernetes` clusters; `refused` is a history of refusals.  Its specification is `StartSpec` over `startVars`, so that it and `Cycle` can be reasoned about in one module |

Spend and metrics, `MCBillingMonth` on top:

| Module | Models | Correspondence |
|---|---|---|
| `Calendar` | what the code uses of `datetime` and `calendar` | a date is a number of days; months are a recursive function |
| `SpendStats` | `events/stats.py` | means, medians, modified z-score, EWMA, weekday factors, `project_seasonal`, regression, over integers; a ratio is a pair |
| `SpendAlerts` | digest, spike, forecast and budget detectors, `showback`, `transfer_report` and their events | one operator per detector, records in and events out |
| `MetricAlerts` | anomaly, capacity, threshold and health detectors | the same for samples and checks |
| `BillingMonth` | `_cost_period`, `_billing_periods`, `_next_month` | state machine: the day, what AWS has delivered, and `held`, what a cycle has in hand, possibly from yesterday |
| `AccountDays` | composition: `BillingMonth` decides which days of spend are in hand, the detectors judge them | the true spend is a function of the day, so a report can be compared with it |

An on-prem site and the clusters on it.  Each extends the one before:

| Module | Models | Correspondence |
|---|---|---|
| `SiteInventory` | `build_site`, `usage_rows` | `raw` = what the six property calls and the perf query answered; pools, orphans, shared arrays and unusable rows of it |
| `SiteBill` | cards of `config.py`, `allocate`, the records of `costs.py` | money in cents, shares rounded down |
| `SiteWaste` | every finding of `waste.py` | `Once`, `Handback`, the storage gap with the guests' credit |
| `Site` | state machine: an operator's changes, then a pass | `Change` one of the world, `Pass` the two collectors, whose answers `ReportOn` puts together; `IsRaw` what vcenter may answer at all |
| `ClusterVolumes` | volumes of `pvs.py`, `place`, `reclaim` | buckets of the placement, released volumes, rolled up namespaces |
| `SitePass` | state machine: site, cluster and the runner's memo | every call is a step, in the order of the code; `siteMemo`, `readMemo`, `waste` = the three caches with their own stamps; the world moves between any two |
| `ClusterReads` | nodes, pods, usage ring, `match`, `Prices` | |
| `ClusterReport` | `split`, `review`, `advise` | |
| `Cluster` | state machine: a cluster that changes, and passes of `KubernetesSource` | `history` = the ring; `lives` a history variable |

The advice about an AWS account, `SavingsPass` on top:

| Module | Models | Correspondence |
|---|---|---|
| `Prices` | `pricing.py` for instances, volumes, snapshots and addresses | `Lookup` falls back to the base region and says so |
| `Commitments` | `inventory.py` and its three readers | `Order`, `Free`, `Join` = `_match`, the greedy join |
| `Leftovers` | `waste.py`, `snapshots.py`, `public_ipv4.py` | |
| `SavingsPass` | state machine: a pass of one collector, region by region and listing by listing | `job` the pass, `memo` the shared inventory, `told` the keys a send-once channel knows |

`CadenceProofs`, `DispatchProofs`, `PaidReadsProofs` (of `MetricsBudget` and `CurCache`), `AgentProofs` (of
`Bootstrap` and `Cycle`), `SavingsPassProofs`, `SiteProofs` and `ClusterProofs` hold the theorems (section 5),
and `DataInduction` the lemmas about lists, sums and quotients that the last four share; `Lists` has the
comprehensions over lists of the modules they are about; `MC*` are the instances for TLC.  Where two
components share a module of proofs, one of them has names of its own for its specification:
`StartSpec` in `Bootstrap`, `BudgetSpec` in `MetricsBudget`.

What the modules abstract, and why it loses nothing their properties are about:

- A value is what the properties compare: in `Cadence` the moment the upstream produced
  it, in `CurCache` when each folder was read, in `MetricsBudget` how many metrics were
  left out, in `Cycle` which parts of the world it contains.
- Where money is the subject it is a whole number of cents (or of thousandths of a dollar in
  `Prices`), and a quotient is rounded down where the code keeps 28 digits: properties allow a
  cent per line, and the inputs are chosen so that a slip is larger than that.
- `Cycle` has a still world: a part always has the same findings.  So whatever is missing
  from a batch is missing because a call failed, which is what its properties are about.
  The world moves in `SitePass`, `SavingsPass`, `Site` and `Cluster`.  Time is `Cadence`'s
  business; `Cycle` has `Expire`, which may strike any entry between two cycles (a cycle asks
  for each task once, so an expiry during a cycle is the same).
- Names, ids and uuids are strings or pairs whose equality is what the code compares; parsing
  and rendering are left out.
- Definitions headed *faulty variants* are not part of a specification.  Each is the slip
  some property is there to refuse, and `PROJECT.json` pairs them: with the variant in the
  place of the definition, TLC reports the property violated.

## 3. The runs

Eleven instances pass, one shows a disagreement (section 4).  With two workers each takes
less than two minutes.

**`cadence`** — two keys with ttls 3 and 2, clock to 5, so that each key can be fetched,
reused, outlived and fetched again, with forced refreshes, failures and restarts anywhere.
A reused value is younger than its ttl from the moment it was *produced*
(`BoundedStaleness`), unforced successes are a ttl apart (`SuccessesSpaced`), and answers never
get older, nor go missing once there was one (`AnswersNeverGoBack`).

**`dispatch`** — three channels (the log with floor info and a window of 2; one that fires
once at warn; one with a window of 1 at critical), batches with the same key twice and with
a second condition in front, two faults (raises before or after acceptance, or restarts),
clock to 2.  Two faults let one channel fail twice, two fail once, or one fail and the
process restart; three channels give a failing channel a successor and a predecessor.
`NothingWithheld` relates a finished pass to the windows and to the raises of that very
pass; `OnceUnlessLost` relates stamps to what receivers accepted; `ImplementsNotifier` is the
refinement; `StandingConditionTold` is liveness.
*Fairness*: weak, of the loop's own steps together (a pass starts, an offer is decided, a
posted delivery is accepted and returns).  The loop has no exit, every exception of a
channel is caught, HTTP calls have a timeout; faults are finitely many by `MaxFaults`,
which is the property's premise: a receiver that always fails is told nothing.

**`cycle`** — an account with spend, a regional sweep of two regions, an optimizer that
agrees with it on one finding, a health-and-metrics collector, a site and a cluster; any
call of four of the collectors may fail, any region of the sweep may drop out, the metrics
may once carry data a detector raises on, and the server answers nothing, something new,
a repetition, or fails.  `BatchIsWhole` (every task is in the batch or among its errors, a
failed one with what the memo had, and the split saw all the spend) and `FoundAndToldOnce` (a
finding of two collectors is reported once, local events come before the server's) are
invariants of the finished batch, over every mix of memoised, new and failed tasks.
`HealthyFindingsGoOut` is liveness: what the collectors with working calls find goes out again
and again.  *Fairness*: weak, of the loop together; strong for the expiry of each entry, since
every cycle is followed by a sleep and ttls are finite.  Its premise `PoisonPasses` is a real
limit of the code: data a detector raises on that stays memoised while its refresh keeps
failing ends every cycle early.

**`metrics_budget`** — a fallback without policy, two services with it and one the
operator excluded; two regions each, a ceiling of 5 below the 7 asked for, chunks of 2, any
number of cycles; one of the services is not memoised (`collect_every_seconds` 0).  The
ceiling is reached inside a region and inside a chunk, and every place a sweep can be
abandoned is passed with the budget partly booked.

**`cur_cache`** — two interchangeable accounts (hence the symmetry), both halves of the
collector, a spend window of two folders and an advice window of one, one failed or absent
folder, a cache that lives for 2 under memos that live for 2 (spend) and 1 (advice), and a
clock to 4: the advice can outlive its memo and be answered from the cache, and an answer can
be cached, memoised from the cache and outlive both.

**`bootstrap`** — three configured accounts, two of them payers; eight memberships with an
account under two names, one shared by two organizations, one suspended, one excluded, one
whose name is taken; three sites of which two are connected; three clusters priced by a
site, an account and a site; up to four refusals, enough to refuse every site and cluster
or every account.  `FleetIsUp`: whoever was not refused itself is up, and the agent does not
run blind.  Start-up ends: deadlock is not an error here.

**`billing_month`** — every day of two winters, one over a common February and one over the
end of a year and a leap February; a report up to two days behind, an answer reused for a day;
an account that is old, one that starts on the last of a month and one in the middle of one;
tagged, blank and untagged lines with a weekly shape, two days of double spend and a refund;
two databases whose disks fill, one of which grows by itself and one stops; a balance of
credits that is high at noon.  Folders tile the window (`WindowIsRight`); with an up-to-date
report a budget is critical exactly when the limit has really been spent (`BreachIsTold`); a
regular month is foreseen to the cent (`RegularMonthIsForeseen`) and without credits the range
holds the forecast (`RangeHoldsTheForecast`); a spike is told exactly on the day of a real jump
(`SpikeMeansJump`); digest, showback and transfer agree with the spend (`ReportsAddUp`); disks
and balances are announced in time (`TroubleIsAnnounced`).  Two days of lag cross the first of a
month with a window that has already left it.  The calendar is bounded (`MCStops`): the last
day has no successor and deadlock is not an error.

**`site`** — a cluster of two hosts and a standalone host on one array, a local array and one
nobody mounts, a template, a vm that is listed and gone, two vms of one name, a folder cycle;
once roomy and once three times oversubscribed; a card for all, a card of one cluster only and
no valid card; any two changes of an operator (power of a vm or a host, a vm
orphaned, an array mounted or filled, a host disconnected, a measurement lost) before a pass, since one change makes a finding and two make two findings of one thing.
Spend lines add up to a day of the card (`SpendIsTheSites`), one thing is one finding
(`OneAdvicePerThing`), and nothing that is live or was not measured is offered
(`NothingLiveHandedBack`).  `OffersWithinTheirPart` says what of the offers is covered by the money
that pays for it: in each pool what its vms are told to give back, and that together with the hosts
told to go when what the running vms reserve fits on the hosts that stay; of the site, the gap and
the orphaned disks by the storage money, when every pool has a price and what the vms occupy is on
mounted arrays.  It says nothing of a host beside vms that do not fit without it, nor of an array
that nobody mounts: there the report does come to more than the bill (section 4).

**`site_pass`** — a node vm, two claims of one namespace, a vm that comes and goes, and files that are nobody's,
on one array.  One move of the world, anywhere between any two calls: a volume mounted, released,
waited for, deleted, the vm made, the files removed; one read that fails; memos of 1, 2 and a
batch that takes up to 1 on a clock to 6, so every cache is hit, expires, and outlives
another.  Without a move since its reads the gap is nobody's to the GiB, or whole when the
cluster did not answer (`GapIsRight`), and the sweep is what no pod holds (`SweepIsTheUnowned`);
once the world has stood still for the ttls, each GiB is offered once (`OfferedOnceInTheEnd`).  More moves only repeat a
transient: what the properties relate is one pass and one move in it.

**`cluster`** — two workers and a control plane node of a pool of vms, a rolling deployment, a
daemonset, a database with init containers and a pod of nobody; uuids in both byte orders;
metrics-server or Prometheus; two changes (a rollout, a pod rescheduled, finished or restarted, a node cordoned,
renamed or without sizes, a vm cloned or deleted, a spend record or the rates lost, usage up or lost) and three passes, enough for a workload to be measured, go, and come back.
The namespace table is the bill of its nodes (`SplitIsWhole`), a node is priced by its own vm or
none (`NobodyElsesMoney`), nothing is shrunk that was not measured long enough
(`NothingUnmeasuredShrunk`), and the nodes that can go leave room for the pods that must move
(`DropsLeaveRoom`).

**`savings`** — two regions, the second without prices of its own for some rates; three volumes,
three snapshots (of a volume, of an image's placeholder, of a copy), three addresses (elastic,
plain, the account's own), three instances, three reservations (regional, zonal, empty), two
plans of which one is no compute plan; three changes in all: moves of the world between two
calls of a pass, calls that fail, and waits between passes that reach each tier of the calendar.
`OrphansAreOrphans` and `AddressesCountedOnce` compare a pass with what the account had all along
and at some moment of it; `MatchIsBest` compares the greedy join with every assignment;
`MigrationPays` compares a saving with the two bills; `EscalationIsHeard` is an action property
over the calendar and a send-once channel.

The type invariant of a module is part of the first property of its run; those of `Cadence`,
`Dispatch` and `MetricsBudget` are proved instead.

## 4. Where code and documentation part

Shown by a run, with its counterexample:

| Run | The documentation | The code |
|---|---|---|
| `dispatch_escalate` | "`critical` fires once you've actually gone over", README.md:371 | the throttle is keyed by the condition: a send-once channel told of the warn is never told of the critical (expiry.py:11-14 names the problem and avoids it: `EscalationIsHeard` holds) |

Met while modelling; they have no run of their own:

*The loop.*
- The summary "lists what broke" (README.md:296), but a region that raises (regions.py:27) is
  logged and skipped; the batch carries no error, and the shrunk answer is memoised.
- "`max_metrics_per_cycle` caps one cycle's spend" (README.md:412; "hard ceiling",
  core/config.py:267): four savings collectors (idle.py:99, idle_nat.py:94, idle_rds.py:94,
  s3.py:207) ask for metrics without the policy.
- `refresh_minutes` is the "min gap between reads" (core/config.py:124): the two halves of an
  account ask for different windows and evict each other (cur.py:348).
- A failing call leaves no stamp in `Due`, so it is repeated every tick: `collect_interval_seconds`
  (README.md:354, "how often spend is really fetched") spaces successes, not attempts.
- "`none` means fire once and never again" (README.md:212): a delivery that was accepted and
  timed out on the way back is made again.
- "a new account is watched the day it is created" (core/config.py:134): of two members whose
  names make the same alias only the first is, without a warning.

*Spend.*
- One pull "covers the full month-to-date" (runner.py:158): with a late report in the first days
  of a month the month judged is the one before, whose first days are outside the window.
- With credits the low end of a forecast is the month-to-date and may exceed the total
  (stats.py:188); hence the premise of `RangeHoldsTheForecast`.
- `_project` (detectors.py:470) estimates days "never observed" at the level; it also does so
  for observed zero-spend days before a service's first spend of the month.
- Detectors run on the records of each collector alone, so two collectors of one account emit
  events of one key; the digest adds across currencies, and budget rules of one scope share a key.

*Sites and clusters.*
- The namespace amounts are "never larger than the invoice" (source.py): a stale node object beside
  the node that replaced it on the same vm counts the vm's money twice.
- A Released volume is told from a bound one by the name of its claim (datastores.py:106): a new
  claim of the old name, mounted, makes the released disk look attached.
- The waste memo lives for a day and the sweep is read every cycle, so a volume that changed hands
  is offered by both or neither meanwhile: `OfferedOnceInTheEnd` has a premise for it.
- A vm whose array no host mounts is an orphan that waste.py `site_findings` prices at the mean of the
  mounted arrays, which do not hold it: with enough of them the leftovers come to more than the site's
  storage money.  Hence the premise of `LeftoversWithinTheStorage` that the vms fit on what is mounted.
- "A report cannot offer back more than the whole bill" (waste.py:51-52), but only the vms are scaled by
  the pool's oversubscription, the hosts beside them are not (waste.py:430).  On the oversubscribed site
  of the run `site`, of a pool of 600.00 a month, two idle vms offer 265.16 and 154.83 and the zombie
  host 210.00: 629.99.  An array nobody mounts comes on top, at the mean rate of storage, though it is
  on no card.  Hence the premise of `PoolOffersWithinTheBill` that the vms fit on the hosts that stay.
- The six reads of a site are not one moment; a failing guest leaves the gap whole, as documented.

*Savings.*
- A volume created and snapshotted between the two listings of snapshots.py:50 has an orphaned
  snapshot (snapshots.py:5, "source volume no longer exists"); listing snapshots first would not.
- Plans that cannot be read for want of a grant (inventory.py:256) are none: the coverage advice then
  says that nothing is covered.  A region whose instances fail and whose reservations answer
  reads as unused reservations.
- The advice to buy reserved instances and the advice to buy a plan are about the same uncovered
  usage, and both savings are reported.
- A secondary billed address behind a primary of the account's own, on an unattached interface,
  is offered twice (public_ipv4.py:98-107).
- Event keys carry no region: two load balancers of one name in two regions share a key.

## 5. What is proved

With TLAPS, for all values of the constants that satisfy the named assumptions, and without
the bounds `MaxTime`, `MaxFaults` of the runs playing a part (they are arbitrary naturals):

- **`CadenceProofs`**: the type invariant, the three properties of the run and `NeverBlankedAfterSuccess`.  The inductive
  invariant adds to the types that an entry was produced no earlier than its stamp
  (`EntriesOK`: stamp ≤ value ≤ clock, and the entry is there iff a success is on record), that a
  call in flight began no later than now (`CallOK`), and that no answer is newer than the
  entry of its key (`AnswersOK`).  `BoundedStaleness` alone is not inductive: it speaks of
  answers and the next answer comes from the entry.
- **`DispatchProofs`**: types, `NothingWithheld`, `StampsAreEarned`, `OnceUnlessLost` and the
  refinement `Refines == Spec => ImplementsNotifier`, for any number of channels, any floors and
  windows and any event lists.  The strengthening says, of every pair the cursor has passed in
  this pass, what `NothingWithheld` says of all of them at the end (`PassedOK`), and counts for
  every pair the accepted deliveries against stamp, delivery in flight and losses (`HeardOK`).
  `NothingWithheld` holds of idle states only, so it says nothing of the pass before the end:
  hence `PassedOK`.
- **`PaidReadsProofs`**, the budget: types (the budget never goes below zero), `CeilingKept` and
  `DroppedOnlyAtTheCeiling`, for any fleet, allowlist, ceiling and chunk size.  The inductive
  invariant is one ledger: remaining + sent + booked-and-pending + wasted = ceiling, and a drop
  implies that nothing remains.
- **`PaidReadsProofs`**, the report: `OwnWholeWindow` (with its types) and `DelayBounded`, for any accounts, windows,
  cache lives and numbers of faults.  Neither is inductive, for both speak of answers: the
  strengthening follows a report from the read (`CallInv`: every folder before the next one
  has been settled since the read began) over the cache (`CacheInv`: whole, of one of the asks,
  no folder older than its stamp) and Due (`DueInv`: at most `Refresh` older than its stamp)
  to the answer (`GivenInv`).  The window is assumed to have at least one folder.
- **`DataInduction`**: what the provers do not find by themselves about data built step by step.
  The induction theorems of the library take an operator as parameter, which no backend
  instantiates; stated with a *set* as the parameter (`UpToInduction`: a set that holds 0 and with each n
  the next holds all of them) they can be cited, with the set of the indices at which a claim
  holds.  From it follow that a function given by its first value and its step exists
  (`StepwiseFunction`), so that one may reason about a recursive definition by its equation; and
  what a list of lists joined end to end contains, in which order (`FlattenProperties`,
  `FlattenInduction`).  `SumFunctionOnSet` of the community modules is a fold, a `CHOOSE` of a
  recursive function on the finite subsets: it exists (`SumExists`) and is unique
  (`SumIsUnique`, by induction on the cardinality), so a sum is that of one member less and that
  member (`SumWithOneMore`), and sums are monotone, additive, and split over disjoint sets
  (`SumMonotone`, `SumOfSums`, `SumOfUnion`), over the parts of a partition (`SumOfParts`) and over
  rows or columns of a table (`SumExchange`); an amount shared out by weights and rounded down
  never exceeds the amount (`SumOfShares`, over `DivRoundsDown`); a finite set of naturals has a largest
  and a smallest member.  A comprehension over a list is therefore written with `FlattenSeq`
  in the modules that are proved about: `SelectSeq` is opaque to the provers.
- **`AgentProofs`**, start-up: the three properties of the run, for any file, organizations, sites, clusters and
  refusals.  The invariant says in each phase which entries of its list have been settled:
  each is up, or refused, or of an account already up, and the earlier phases are complete.
  `NoAccountTwice` needs in addition that what waits in `members` is of the configured payers;
  `GuestsAreSources` needs that the hooks attached so far are the sources read so far, in order.
- **`AgentProofs`**, the cycle: `BatchIsWhole` and `FoundAndToldOnce`, for any fleet, findings, flaky collectors and
  memo.  The invariant cuts the plan at `todo`: every task before the cut is in the batch or
  among its errors and a memoised one has what the memo has; recommendations and local events are
  the findings of what is in the batch so far, without a repetition; the split is taken of
  the reports of all tasks before it.  That `Dedupe` neither repeats nor loses is proved by
  induction on the list.
- **`SavingsPassProofs`**: `OrphansAreOrphans`, `AddressesCountedOnce`, `MigrationPays`, `MatchIsBest`
  and `EscalationIsHeard`, for any account, regions, prices and order of events.  The invariant
  (`PassesAreSound`) follows a pass: the calls still to come and those answered are those of the
  collector, in their order, leg by leg (`CallsOK`); what each was answered contains all that was
  there all along, and only what was there at some moment (`AnswersOK`); the shared inventory has
  only commitments there are and the best match (`InventoryOK`: it is kept for the next collectors);
  and a key the channel has sent is of a commitment and a
  tier, and later than it only tighter ones were (`CalendarOK`).  `OrphansAreOrphans` rests on the
  order of the two listings, `AddressesCountedOnce` on an address having one interface.
  `MatchIsBest` is an exchange argument.  The contenders are the instances of the type and region of
  one left free at the end that are also of the type and zone of one still free after the pools of one
  zone.  A pool that covers a contender is full, and full of contenders
  (`ContendedPoolsAreFull`).  So another assignment places at most as many contenders as the join
  does, and of the others the join has placed all (`NobodyPlacesMore`).  The
  counts are sums over the pools, which telescope (`MatchesAddUp`).  That the pools of one zone
  come first is needed: with `OrderAsListed` TLC finds a better match.

- **`SiteProofs`**: `SpendIsTheSites`, `OffersWithinTheirPart`, `OneAdvicePerThing` and `NothingLiveHandedBack`,
  for any site, any rate cards that are accepted, any thresholds, any guests and any number of changes.
  The inductive invariant (`IInv`) is that what vcenter answers stays well formed (`IsRaw`) whatever the
  operator does (`ChangesAreRaw`, with a lemma per action), and that a standing report is the pass over
  the present site (`Current`).  Given that, the properties are theorems about `ReportOn`:
  a site is the pools of its hosts, every host in one (`MembersAreHosts`, `SiteIsSeen`); a finding is
  of something in a pool or of a leftover (`EachIsFound`); and what it says follows from what the thing
  is (`Advice`), so two findings of one thing are of one kind, which `Once` lets through once.
  `PoolOffersWithinTheBill` gives every finding to its vm (`OfferedByDeputies`), whose advice is worth
  no more than all it reserves (`FindingWithinOffer`: the fitted size is between nothing and what it
  has), and adds up each dimension by itself (`OffersByDimension`): amounts shared out over the larger
  of capacity and reservations never come to more than the dimension's weight (`OneDimension`), and
  leave the weight of the hosts told to go (`HostsByDimension`) when the reservations fit on the
  others (`TwoParts`).
  `LeftoversWithinTheStorage` rests on the gap
  being part of what is in use and not claimed (`GapIsUnclaimed`), and on the arrays of the pools being
  those somebody mounts (`ArraysOfPools`).  `BillIsTheCards` maps the vms of a pool to its lines one
  to one and adds up what each stands for before it is rounded (`LinesAddUp`); a day is off by half a cent at most, and so is
  each line (`DaysAreRounded`), whence a cent per line.  That two pools do not share a key is needed here:
  the lines of a spend carry the key only.

- **`ClusterProofs`**: `SplitIsWhole`, `DropsLeaveRoom`, `NothingUnmeasuredShrunk` and `NobodyElsesMoney`, for
  any cluster, any bills, ring size, number of changes and of passes.  The inductive invariant
  (`IInv`) has four parts.  The world is a cluster (`Legal`): names are of one object, amounts are
  whole, and a key of a node that finds another vm finds the node's own too, when there is one
  (`Identity`; a copied vm shares the uuids of the first, so the stronger claim of the first world,
  `IsIdentified`, that no identifier is of two, does not last).  The two rings of a workload are of one
  length and no longer than it has been there without a break (`Kept`).  The counters are in
  bounds.  A report, when there is one, is what `ReportOf` makes of the present world and ring
  (`Current`).  Given that, the properties are theorems about `ReportOf`.  `SplitIsWhole` adds up a
  bill by namespace and by node (`SumExchange`); that no bucket is negative comes from claims scaled to
  the node before they are shared out, and from quotients rounded down (`NodeIsDivided`).
  `DropsLeaveRoom` is an invariant of the loop over the candidates (`DropFits`): the space left on
  the nodes that stay covers what has to move off the others, for each dimension by itself.
  `NothingUnmeasuredShrunk` follows an advice back to the row of the workload and the samples it was made of.
  `NobodyElsesMoney` needs `Identity`, and that a key that finds two vms is refused.

Assumptions on constants are named in the component's module (`…Assumption`) and evaluated by
TLC on every run of it.  Those of the last four components say what the code relies on:

- `FleetAssumption`, `ListsAssumption`, `PlanAssumption`: configurations and answers are lists, aliases
  are unique (the configuration refuses others), and a collector is one object of one provider,
  so no two tasks share a key of the memo.
- `IdsAssumption`: AWS gives no id twice.  `StorageAssumption`: the source of an account's own snapshot
  is a volume of the same region or the placeholder of a copy, and a gp2 volume's iops are the
  baseline of its size or not reported.  `AddressAssumption`: an address is on an interface of its
  region, and one the account brought is an elastic one.  `WorldsAssumption`: only elastic
  addresses are idle.
- `ZonesAssumption`: a zone is of one region, and reservations count naturals.
- `BookAssumption`: rates are naturals and `prices.json` has a gp3 rate in the base region, without
  which the figure of a migration would fall back to another type's.
- `NoneAssumption`: what there is not is no value of anything.
- `SitesAssumption`: vcenter gives no id twice, sizes are whole, a vm that a host lists says that it
  is on that host, what the counters are of is a vm, and no two pools of a datacenter have one name
  (vcenter refuses a second; the code keys a pool by the two).  `ConfigsAssumption`: the lines of a card
  are integers of any sign and weights are percentages that add up, as config.py asks; a card may be
  unusable.  `GuestsAssumption`: there are finitely many.  `LinesAssumption`: the lines of `rates.py`
  are finitely many and the capital spent and its lifetime are none of them.
- `FirstAssumption`: the clusters there may be at first are such (`IsWorld`: objects have one name each, sizes are
  whole, weights are of a whole, and each name has its place in the order the api lists them,
  `NameRank`) and no identifier in them is of two vms (`IsIdentified`).
  `BoundsAssumption`, `UsageAssumption`: bounds are naturals, the ring and the samples asked for are positive.
  `TuningAssumption`: the target utilisation is a percentage from 1 to 100, as clont.example.yaml:162
  says of it and tests/test_config.py:215 asks of the configuration.

Only model-checked: by nature liveness (`StandingConditionTold`, `HealthyFindingsGoOut`:
fairness and ENABLED are outside the prover).  For now the invariants of `AccountDays` and `BillingMonth`:
they compare a detector's verdict with a spend that is a function of the day, through medians, weekday
factors, regressions and a calendar that are defined by recursion over data, or by integer roots
and quotients of them, for which the provers would need the arithmetic of those series as lemmas.
And those of `SitePass`: its steps are the calls of a pass over three caches, so that an inductive
invariant has to carry the world at each of the calls that went into a cached answer, and its rows are
built with `:>` and `@@`, of which the provers have no facts.

## 6. What is not modelled

Per component, with the reason, in `PROJECT.json`.  In short:

- rendering and wording (`reporting/`, channel formatting, titles and payloads of events), pure
  I/O and parsing of answers (provider clients, HTTP, quantities, kubeconfig), argument parsing,
  the per-field validators of the configuration, generated data and its generator;
- collectors that filter one listing (health mappings, tags, off-hours, load balancers,
  DynamoDB, Compute Optimizer) and the thresholds of the four idle collectors: a test reaches them;
- the rows of a cost report (amortization, charge classes), and the cache of organization
  listings with the aliases taken from it;
- a wall clock that is set back: `Dispatch` takes time to be monotonic, which
  `datetime.now(UTC)` is not.

`Cycle` takes a detector to be a function of the data; `Bootstrap` cuts a listing short but does
not keep its cache.  `SitePass` and `Cluster` share one pass in the code; the first has its
caches and volumes, the second its nodes, pods and samples.

## 7. Plan

Done: `Cadence`, `Dispatch` ⊑ `Notifier`, `Cycle`, `MetricsBudget`, `CurCache`, `Bootstrap`; spend and
metrics (`AccountDays` over `BillingMonth`, `SpendAlerts`, `MetricAlerts`); sites (`Site`), clusters
(`Cluster`) and the two together (`SitePass`); commitments and leftovers (`SavingsPass`); the proofs
of `Cadence`, `Dispatch`, `MetricsBudget`, `CurCache`, `Bootstrap`, `Cycle`, `SavingsPass`, `Site` and `Cluster`.

Next, in order of weight:

1. Proofs: the caches of `SitePass` and the sums of `SweepIsTheUnowned`, over the lemmas on sums of
   `DataInduction`; of `BillingMonth`, that the folders tile the window.
2. Report rows: amortization and charge classes; the listing cache of organizations, and
   the keys of events whose alias changes with it.
3. The idle collectors' thresholds over the metrics that the budget left out, and health mappings.
4. The summary's choice between all-clear, floor and silence.

The number of runs is kept at one per question; a new question takes its place in the run
of its module.
