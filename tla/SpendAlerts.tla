------------------------------ MODULE SpendAlerts ------------------------------
(***************************************************************************)
(* What the detectors of clont/events/detectors.py and the reports they    *)
(* read (clont/finops/showback.py and transfer.py) make of cost records.   *)
(*                                                                         *)
(* A record is [alias, service, day, amount, currency, bucket, tags, line]:*)
(* day is the end of its period, bucket the transfer dimension or None,    *)
(* tags None or a function of some keys, line tells equal records apart.   *)
(* An event is [key, severity, ...]: of its payload only the numbers.      *)
(***************************************************************************)
EXTENDS Calendar, SpendStats

CONSTANTS
    Blank,           \* a tag whose value is empty
    TagKeys,         \* finops.showback_tag_keys
    UnattributedPct, \* finops.showback_unattributed_pct
    TransferPct,     \* finops.transfer_pct
    SpikePct,        \* finops.spend_spike_pct
    MinAmount,       \* the least amount a spike or a transfer report is about
    Alpha,           \* weight of the newest day, in hundredths
    WidePct,         \* a band wider than this share is too early to be precise
    WarnPct,         \* finops.budget_warn_pct
    Budgets          \* rules [account, service, limit]; account "*" is any, service None all

Amount(rs) == MapThenSumSet(LAMBDA r : r.amount, rs)
Aliases(rs) == {r.alias : r \in rs}
Of(rs, alias) == {r \in rs : r.alias = alias}
Latest(rs) == Max({r.day : r \in rs})
Grouped(rs, Key(_)) == [k \in {Key(r) : r \in rs} |-> Amount({r \in rs : Key(r) = k})]
Daily(rs) == Grouped(rs, LAMBDA r : r.day)
Untagged == "(untagged)"
Sum(f) == MapThenSumSet(LAMBDA k : f[k], DOMAIN f)

\* _pct: a share in tenths of a percent, half up; none of a total of credits.
Share(part, total) == IF total <= 0 THEN 0 ELSE (2000 * part + total) \div (2 * total)

----------------------------------------------------------------------------
(* SpendDigestDetector                                                      *)

Digest(rs) ==
    {LET today == {r \in Of(rs, a) : r.day = Latest(Of(rs, a))} IN
       [key |-> <<"digest", a>>, severity |-> "info", day |-> Latest(Of(rs, a)),
        total |-> Amount(today), services |-> Grouped(today, LAMBDA r : r.service)]
     : a \in Aliases(rs)}

----------------------------------------------------------------------------
(* Faulty variants of the definitions below.                                *)

\* An empty value taken for a value.
BlankIsAValue(r, key) == IF key \in DOMAIN r.tags THEN r.tags[key] ELSE Untagged

\* Every earlier day in the baseline, whatever its weekday.
FlatBaseline(byDay, anchor) ==
    Mean(Along(byDay, {d \in DOMAIN byDay : d < anchor}))

\* The month judged with what is left of it taken for as long as what was seen.
RemainingFromSamples(daily, anchor) ==
    [i \in 1 .. MonthLength(MonthOf(anchor)) - Cardinality(DOMAIN daily) |-> Weekday(anchor + i)]

----------------------------------------------------------------------------
(* showback, and ShowbackDetector                                           *)

\* The records of a collector that does tags.
Tagged(rs) == {r \in rs : r.tags # None}

ValueOf(r, key) ==
    IF key \in DOMAIN r.tags /\ r.tags[key] # Blank THEN r.tags[key] ELSE Untagged

Showback(rs) ==
    {LET mine == {r \in Tagged(rs) : r.alias = g[2] /\ r.currency = g[3]}
         lines == Grouped(mine, LAMBDA r : ValueOf(r, g[1]))
     IN [key |-> g, start |-> Min({r.day : r \in mine}), end |-> Latest(mine), total |-> Sum(lines),
         unattributed |-> IF Untagged \in DOMAIN lines THEN lines[Untagged] ELSE 0, lines |-> lines]
     : g \in {<<k, r.alias, r.currency>> : k \in TagKeys, r \in Tagged(rs)}}

ShowbackEvents(rs) ==
    {[key |-> <<"showback", p.key>>, report |-> p,
      severity |-> IF Share(p.unattributed, p.total) >= 10 * UnattributedPct THEN "warn" ELSE "info"]
     : p \in {q \in Showback(rs) : q.total > 0}}

----------------------------------------------------------------------------
(* transfer_report, and DataTransferDetector                                *)

Transfer(rs) ==
    {LET mine == {r \in rs : r.alias = g[1] /\ r.currency = g[2]}
         moved == {r \in mine : r.bucket # None}
         buckets == Grouped(moved, LAMBDA r : r.bucket)
     IN [key |-> g, start |-> Min({r.day : r \in mine}), end |-> Latest(mine), total |-> Amount(mine),
         transfer |-> Sum(buckets), lines |-> buckets]
     : g \in {<<r.alias, r.currency>> : r \in {q \in rs : q.bucket # None}}}

TransferEvents(rs) ==
    {[key |-> <<"transfer", p.key>>, report |-> p,
      severity |-> IF Share(p.transfer, p.total) >= 10 * TransferPct THEN "warn" ELSE "info"]
     : p \in {q \in Transfer(rs) : q.total > 0 /\ q.transfer >= MinAmount}}

----------------------------------------------------------------------------
(* SpendSpikeDetector                                                       *)

\* The median of the same weekday, or the mean of too few.
Baseline(byDay, anchor) ==
    LET before == {d \in DOMAIN byDay : d < anchor}
        same == {d \in before : Weekday(d) = Weekday(anchor)}
    IN IF Cardinality(same) >= MinSamples THEN Median(Along(byDay, same)) ELSE Mean(Along(byDay, before))

IsSpike(byDay, anchor) ==
    /\ anchor \in DOMAIN byDay
    /\ \E d \in DOMAIN byDay : d < anchor
    /\ LET baseline == Baseline(byDay, anchor) IN
         /\ baseline > 0
         /\ byDay[anchor] >= MinAmount
         /\ 100 * byDay[anchor] > baseline * (100 + SpikePct)

Spikes(rs) ==
    {[key |-> <<"spike", r.alias, r.service>>, severity |-> "warn", day |-> r.day]
     : r \in {q \in rs :
                /\ q.day = Latest(Of(rs, q.alias))
                /\ IsSpike(Daily({p \in Of(rs, q.alias) : p.service = q.service}), q.day)}}

----------------------------------------------------------------------------
(* _account_months and _project                                             *)

AccountMonth(rs, a) ==
    LET anchor == Latest(Of(rs, a))
        month == {r \in Of(rs, a) : MonthOf(r.day) = MonthOf(anchor)}
    IN [alias |-> a, anchor |-> anchor, daily |-> Daily(month),
        services |-> [s \in {r.service : r \in month} |-> Daily({r \in month : r.service = s})]]

Remaining(daily, anchor) ==
    [i \in 1 .. MonthLength(MonthOf(anchor)) - DayOfMonth(anchor) |->
        Weekday(ReplaceDay(anchor, DayOfMonth(anchor) + i))]

\* A gap inside the window is a day without spend; the days before it are unknown.
Project(daily, anchor) ==
    LET first == Min(DOMAIN daily)
        phases == [i \in 1 .. anchor - first + 1 |-> Weekday(first + i - 1)]
        values == [i \in DOMAIN phases |-> IF first + i - 1 \in DOMAIN daily THEN daily[first + i - 1] ELSE 0]
    IN ProjectSeasonal(phases, values, Remaining(daily, anchor), DayOfMonth(first) - 1, Alpha)

----------------------------------------------------------------------------
(* SpendForecastDetector and BudgetDetector                                 *)

\* band_pct above the width that is too early to be precise.
IsEarly(p) == p.band = Unknown \/ (p.total > 0 /\ 100 * p.band > WidePct * p.total)

Forecast(rs) ==
    {LET acc == AccountMonth(rs, a) IN
       [key |-> <<"forecast", a>>, severity |-> "info", anchor |-> acc.anchor, mtd |-> Sum(acc.daily),
        projection |-> Project(acc.daily, acc.anchor), early |-> IsEarly(Project(acc.daily, acc.anchor))]
     : a \in Aliases(rs)}

\* What a breach, a projected one and one that is approached amount to.
Level(mtd, forecast, limit) ==
    IF mtd >= limit THEN "critical"
    ELSE IF 100 * forecast >= limit * WarnPct \/ forecast >= limit THEN "warn" ELSE None

\* BudgetDetector, with the rules that apply and the spend each is about.
BudgetEvents(rs) ==
    LET cases == {[rule |-> rule, acc |-> AccountMonth(rs, a)] :
                     rule \in {b \in Budgets : b.limit > 0}, a \in Aliases(rs)}
        Applies(c) == /\ c.rule.account \in {"*", c.acc.alias}
                      /\ c.rule.service # None => c.rule.service \in DOMAIN c.acc.services
        Spent(c) == IF c.rule.service = None THEN c.acc.daily ELSE c.acc.services[c.rule.service]
        Severity(c) == Level(Sum(Spent(c)), Project(Spent(c), c.acc.anchor).total, c.rule.limit)
    IN {[key |-> <<"budget", c.acc.alias, c.rule.service>>, severity |-> Severity(c), anchor |-> c.acc.anchor,
         mtd |-> Sum(Spent(c)), limit |-> c.rule.limit]
        : c \in {k \in cases : Applies(k) /\ Severity(k) # None}}
=============================================================================
