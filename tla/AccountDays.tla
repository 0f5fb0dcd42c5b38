----------------------------- MODULE AccountDays ------------------------------
(***************************************************************************)
(* The days of an account as the detectors see them: BillingMonth decides  *)
(* which days of spend a cycle has in hand, SpendAlerts what is made of    *)
(* them and MetricAlerts what is made of the account's metrics.            *)
(*                                                                         *)
(* What the account really spends is a function of the day.                *)
(***************************************************************************)
EXTENDS BillingMonth, SpendAlerts, MetricAlerts

CONSTANTS
    Lines,         \* what the account is billed for: [line, service, bucket, tags]
    Spend(_, _),   \* of a line on a day, in cents: the truth
    Databases,     \* [id, allocated, max]: the account's databases, in GiB
    Status(_, _),  \* of a database, on a day
    Free(_, _),    \* the least free storage of a database around an hour, in GiB
    Credits(_, _), \* its least balance of CPU credits around an hour
    SampleHours,   \* the hours of a day at which a database is sampled
    HistoryDays    \* how many days of samples are asked for

Alias == "prod"

Billed(l, d) == d >= since /\ Spend(l, d) # 0

\* CostRecords: what the report in hand lists for each day, a credit included.
Records(h) ==
    {[alias |-> Alias, service |-> l.service, day |-> d, amount |-> Spend(l, d), currency |-> "USD",
      bucket |-> l.bucket, tags |-> l.tags, line |-> l.line]
     : <<l, d>> \in {p \in Lines \X (h.from .. h.to) : Billed(p[1], p[2])}}

\* RDSHealthCollector: the metrics and the health of the same cycle.  A disk that
\* grows by itself is not said to fill, a database that is not available not sampled.
FreePercent(db, hour) == (100 * Free(db, hour)) \div db.allocated
Grows(db) == db.max > db.allocated
Sampled == {db \in Databases : Status(db, today) = "available"}

Points ==
    {[resource |-> p[1].id, name |-> p[2], hour |-> p[3],
      value |-> IF p[2] = "CPUCreditBalance" THEN Credits(p[1], p[3]) ELSE FreePercent(p[1], p[3])]
     : p \in {q \in Sampled \X {"CPUCreditBalance", "FreeStoragePercent"}
                     \X {24 * d + h : d \in today - HistoryDays .. today - 1, h \in SampleHours} :
                q[2] = "FreeStoragePercent" => ~Grows(q[1])}}

Severity(status) ==
    CASE status \in {"available", "stopped"} -> "ok"
      [] status \in {"storage-full", "failed"} -> "critical"
      [] OTHER -> "unknown"

Checks == {[resource |-> db.id, status |-> Severity(Status(db, today))] : db \in Databases}

----------------------------------------------------------------------------
(* The truth the events are held against.                                   *)

SpentBy(lines, d) == MapThenSumSet(LAMBDA l : IF Billed(l, d) THEN Spend(l, d) ELSE 0, lines)
LinesOf(service) == {l \in Lines : service = None \/ l.service = service}
SpentOver(lines, from, to) == Total([i \in 1 .. to - from + 1 |-> SpentBy(lines, from + i - 1)])

Fresh == held # None /\ held.asked = today
UpToDate == Fresh /\ held.to = today - 1
HasSpend == Fresh /\ Records(held) # {}
EverySpent(from, to) == \A d \in from .. to : SpentBy(Lines, d) > 0

IsNamed(tags, key) == key \in DOMAIN tags /\ tags[key] # Blank

\* The same amount on the same weekday.
IsWeekly(lines, from, to) == \A d \in from .. to - 7 : SpentBy(lines, d) = SpentBy(lines, d + 7)

----------------------------------------------------------------------------
(* What the detectors promise.                                              *)

\* Whatever the day, an up to date report makes a budget critical exactly when the
\* account has really spent the limit since the first of the month: the window, the
\* month taken from the records and the threshold all have to agree.
BreachIsTold ==
    UpToDate =>
        LET events == BudgetEvents(Records(held)) IN
        \A rule \in {b \in Budgets : b.account \in {"*", Alias}} :
            LET spent == SpentOver(LinesOf(rule.service), ReplaceDay(held.to, 1), held.to) IN
            SpentBy(LinesOf(rule.service), held.to) > 0 =>
                (spent >= rule.limit <=>
                    \E e \in events : /\ e.key = <<"budget", Alias, rule.service>>
                                      /\ e.severity = "critical"
                                      /\ e.limit = rule.limit)

\* Two weeks into a month or more, an account that spends the same every week has its
\* month foreseen to the cent, whatever weekdays are still to come, and without a
\* band; the days before the first sample, which nobody saw, are taken at the level.
RegularMonthIsForeseen ==
    HasSpend =>
        \A f \in Forecast(Records(held)) :
            LET first == Max({held.from, since, ReplaceDay(f.anchor, 1)}) IN
            /\ EverySpent(first, MonthEnd(f.anchor))
            /\ IsWeekly(Lines, first, MonthEnd(f.anchor))
            /\ f.anchor - first >= 13
            => /\ f.projection.total = SpentOver(Lines, first, MonthEnd(f.anchor))
                                        + (DayOfMonth(first) - 1) * f.projection.level
               /\ f.projection.band = 0
               /\ ~f.early

\* Without credits the range holds the forecast, and the forecast what is spent.
RangeHoldsTheForecast ==
    HasSpend =>
        \A f \in Forecast(Records(held)) :
            (\A r \in Records(held) : r.amount > 0) =>
                /\ f.mtd <= f.projection.low
                /\ f.projection.low <= f.projection.total
                /\ f.projection.total <= f.projection.high

\* A service is said to spike exactly on the day it really jumped over its own
\* weekday, also in the first days of a month and however late the report: neither
\* the week's own shape nor a day gone by makes a spike.
SpikeMeansJump ==
    HasSpend =>
        LET anchor == Latest(Records(held))
            spikes == Spikes(Records(held))
        IN \A service \in {l.service : l \in Lines} :
             LET Own(d) == SpentBy(LinesOf(service), d) IN
             (\A w \in 2 .. 3 : anchor - 7 * w >= since /\ Own(anchor - 7 * w) = Own(anchor - 7)) /\ Own(anchor - 7) > 0 =>
                ((\E e \in spikes : e.key = <<"spike", Alias, service>> /\ e.day = anchor)
                    <=> /\ Own(anchor) >= MinAmount
                        /\ 100 * Own(anchor) > (100 + SpikePct) * Own(anchor - 7))

\* No money gets lost or made between the reports of one cycle: the digest is the
\* latest day, a showback splits what tagged lines cost, the untagged part among it,
\* and network is a part of the same total; what is clearly over its threshold warns, and
\* what is clearly under it does not.
ReportsAddUp ==
    HasSpend =>
        LET rs == Records(held) IN
        /\ \A e \in Digest(rs) : /\ e.total = SpentBy(Lines, e.day)
                                 /\ e.total = Sum(e.services)
        /\ \A p \in Showback(rs) :
             /\ p.total = SpentOver({l \in Lines : l.tags # None}, p.start, p.end)
             /\ p.unattributed = SpentOver({l \in Lines : l.tags # None /\ ~IsNamed(l.tags, p.key[1])}, p.start, p.end)
        /\ \A p \in Transfer(rs) :
             /\ p.total = SpentOver(Lines, p.start, p.end)
             /\ p.transfer = SpentOver({l \in Lines : l.bucket # None}, p.start, p.end)
        /\ \A p \in Showback(rs) : p.total > 0 =>
             \E e \in ShowbackEvents(rs) :
                /\ e.report = p
                /\ 100 * p.unattributed >= UnattributedPct * p.total => e.severity = "warn"
                /\ 1000 * p.unattributed < (10 * UnattributedPct - 1) * p.total => e.severity = "info"
        /\ \A e \in TransferEvents(rs) :
             100 * e.report.transfer >= TransferPct * e.report.total => e.severity = "warn"

\* A disk that fills steadily is announced ForecastDays before it is full and not
\* earlier, again below its floor and when the database has stopped for want of room,
\* unless it grows; a balance that its hour of the day has seen before is no anomaly,
\* and one far outside what its hour has seen is, however common at other hours.
TroubleIsAnnounced ==
    LET now == Max({24 * (today - 1) + h : h \in SampleHours})
        hours == {24 * d + h : d \in today - HistoryDays .. today - 1, h \in SampleHours}
        Said(events, key) == \E e \in events : e.key = key
    IN \A db \in Databases :
         LET disk == <<db.id, "FreeStoragePercent">>
             trend == FreePercent(db, now) - FreePercent(db, now - 24)
             steady == \A h \in hours : h - 24 \in hours => FreePercent(db, h) - FreePercent(db, h - 24) = trend
             seen == {Credits(db, h) : h \in {k \in hours \ {now} : k % 24 = now % 24}}
             range == Max(seen) - Min(seen)
             far == \/ Credits(db, now) > Max(seen) + 5 * range
                    \/ Credits(db, now) < Min(seen) - 5 * range
             odd == Said(Anomalies(Points), <<"anomaly", <<db.id, "CPUCreditBalance">>>>)
         IN /\ steady /\ db \in Sampled /\ ~Grows(db) =>
                 (Said(CapacityForecasts(Points), <<"capacity", disk>>)
                    <=> trend < 0 /\ FreePercent(db, now) > 0 /\ FreePercent(db, now) + ForecastDays * trend <= 0)
            /\ FreePercent(db, now) < Rules["FreeStoragePercent"].limit /\ ~Grows(db) =>
                 Said(Breaches(Points), <<"rule", disk>>) \/ Said(HealthEvents(Checks), <<"health", db.id>>)
            /\ Grows(db) => \A e \in CapacityForecasts(Points) \cup Breaches(Points) : e.key[2] # disk
            /\ Credits(db, now) \in seen => ~odd
            /\ db \in Sampled /\ range > 0 /\ far => odd
=============================================================================
