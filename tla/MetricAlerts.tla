----------------------------- MODULE MetricAlerts -----------------------------
(***************************************************************************)
(* What the detectors of clont/events/detectors.py make of metric samples  *)
(* and health checks.  A sample is [resource, name, hour, value]: hour is  *)
(* its time, a series the samples of one resource and name.                *)
(***************************************************************************)
EXTENDS SpendStats

CONSTANTS
    Sigma,         \* monitoring.anomaly_sigma
    MinPoints,     \* least baseline of an anomaly
    MinTrend,      \* least samples of a trend
    ForecastDays,  \* monitoring.capacity_forecast_days
    Rules,         \* metric -> [over, limit], the threshold rules
    FullAt         \* metric -> the value at which its resource is full

ASSUME TrendAssumption == MinPoints \in Nat /\ MinTrend \in Nat \ {0, 1} /\ ForecastDays \in Nat

\* One series per resource and metric, oldest sample first; points without a
\* resource cannot be keyed.
Series(points, names) ==
    LET keyed == {p \in points : p.resource # Unknown /\ p.name \in names} IN
    [k \in {<<p.resource, p.name>> : p \in keyed} |->
        LET mine == {p \in keyed : <<p.resource, p.name>> = k}
            at == [h \in {p.hour : p \in mine} |-> CHOOSE p \in mine : p.hour = h]
        IN Along(at, DOMAIN at)]

Values(pts) == [i \in DOMAIN pts |-> pts[i].value]

----------------------------------------------------------------------------
(* A faulty variant of Cohort below.                                        *)

\* The latest sample scored against all before it, whatever their hour.
AnyHour(before, latest) == before

----------------------------------------------------------------------------
(* MetricAnomalyDetector                                                    *)

Cohort(before, latest) == SelectSeq(before, LAMBDA p : p.hour % 24 = latest.hour % 24)

\* abs(latest - mean) >= Sigma * std over a baseline that is not flat, squared and
\* times the cube of its length.
FarFromMean(latest, xs) ==
    LET n == Len(xs)
        off(x) == n * x - Total(xs)
        squares == Total([i \in DOMAIN xs |-> off(xs[i]) * off(xs[i])])
    IN squares > 0 /\ n * off(latest) * off(latest) >= Sigma * Sigma * squares

FarFromMedian(latest, xs) ==
    LET score == ModifiedScore(latest, xs) IN score # Unknown /\ Abs(score) >= 100 * Sigma

IsAnomaly(pts) ==
    LET before == Front(pts)
        cohort == Values(Cohort(before, Last(pts)))
    IN /\ Len(pts) > MinPoints
       /\ IF Len(cohort) >= MinSamples THEN FarFromMedian(Last(pts).value, cohort)
          ELSE FarFromMean(Last(pts).value, Values(before))

Anomalies(points) ==
    LET series == Series(points, {p.name : p \in points}) IN
      {[key |-> <<"anomaly", k>>, severity |-> "warn"] : k \in {s \in DOMAIN series : IsAnomaly(series[s])}}

----------------------------------------------------------------------------
(* ThresholdRuleDetector and CapacityForecastDetector                       *)

Breached(rule, value) == IF rule.over THEN value > rule.limit ELSE value < rule.limit

Breaches(points) ==
    LET series == Series(points, DOMAIN Rules) IN
      {[key |-> <<"rule", k>>, severity |-> "warn"]
       : k \in {s \in DOMAIN series : Breached(Rules[s[2]], Last(series[s]).value)}}

\* Days until the trend meets the capacity, as a pair, or Unknown.
DaysToFull(pts, capacity) ==
    LET lead == PeriodsToCross([i \in DOMAIN pts |-> pts[i].hour - pts[1].hour], Values(pts), capacity) IN
      IF lead = Unknown THEN Unknown ELSE <<lead[1], 24 * lead[2]>>

FullSoon(pts, capacity) ==
    LET left == DaysToFull(pts, capacity) IN left # Unknown /\ left[1] <= ForecastDays * left[2]

CapacityForecasts(points) ==
    LET series == Series(points, DOMAIN FullAt) IN
      {[key |-> <<"capacity", k>>, severity |-> "warn"]
       : k \in {s \in DOMAIN series : Len(series[s]) >= MinTrend /\ FullSoon(series[s], FullAt[s[2]])}}

----------------------------------------------------------------------------
\* HealthDetector: checks [resource, status]; a status that is OK or unknown is no event.
HealthEvents(checks) ==
    {[key |-> <<"health", c.resource>>, severity |-> c.status]
     : c \in {k \in checks : k.status \in {"warn", "critical"}}}
=============================================================================
