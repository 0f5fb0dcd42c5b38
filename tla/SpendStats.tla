------------------------------ MODULE SpendStats ------------------------------
(***************************************************************************)
(* The statistics of the detectors, clont/events/stats.py, over integers.  *)
(* An amount is a number of cents; a quotient the code keeps to 28 digits  *)
(* is kept to a whole one, and a ratio that must not lose its fraction is  *)
(* a pair <<numerator, denominator>>.                                      *)
(***************************************************************************)
EXTENDS Integers, Sequences, SequencesExt

CONSTANT Unknown  \* what cannot be told from the samples

Total(xs) ==
    LET sum[i \in 0 .. Len(xs)] == IF i = 0 THEN 0 ELSE sum[i - 1] + xs[i] IN sum[Len(xs)]

\* A set of integers as a sequence, the least first.
Ascending(S) ==
    IF S = {} THEN <<>>
    ELSE LET least == Min(S) IN
           SelectSeq([i \in 1 .. Max(S) - least + 1 |-> least + i - 1], LAMBDA x : x \in S)

\* The values of f over some integers, in their order.
Along(f, S) == LET s == Ascending(S) IN [i \in DOMAIN s |-> f[s[i]]]

Abs(x) == IF x < 0 THEN -x ELSE x
Larger(a, b) == IF a > b THEN a ELSE b

\* The square root, rounded down, bit by bit.
Root(x) ==
    FoldLeft(LAMBDA r, bit : IF (r + bit) * (r + bit) <= x THEN r + bit ELSE r,
             0, [i \in 1 .. 16 |-> 2 ^ (16 - i)])

Mean(xs) == Total(xs) \div Len(xs)

Median(xs) ==
    LET s == SortSeq(xs, LAMBDA a, b : a < b)
        mid == Len(s) \div 2
    IN IF Len(s) % 2 = 1 THEN s[mid + 1] ELSE (s[mid] + s[mid + 1]) \div 2

\* Median absolute deviation.
Mad(xs, center) == Median([i \in DOMAIN xs |-> Abs(xs[i] - center)])

\* 1.4826 MADs make a standard deviation.
Spread(xs) == (Mad(xs, Median(xs)) * 14826) \div 10000

\* modified_zscore: robust deviations from the cohort's median, in hundredths, or
\* Unknown where the cohort cannot judge.
ModifiedScore(x, xs) ==
    LET mad == Mad(xs, Median(xs)) IN
      IF mad = 0 THEN Unknown ELSE ((x - Median(xs)) * 10000) \div (148 * mad)

\* ewma, with a weight of alpha hundredths for the newer sample.
Ewma(xs, alpha) ==
    LET smooth[i \in DOMAIN xs] ==
          IF i = 1 THEN xs[1] ELSE (alpha * xs[i] + (100 - alpha) * smooth[i - 1]) \div 100
    IN smooth[Len(xs)]

----------------------------------------------------------------------------
(* A faulty variant of Lowest below.                                        *)

\* The band taken at its word on both sides.
LowestBare(mtd, total, band) == total - band

----------------------------------------------------------------------------
(* seasonal_factors: the weekdays there is a factor for, as the pair of the *)
(* weekday's median and the median of all.                                  *)

MinSamples == 2

\* The observations a factor of this phase rests on: none where there are too few.
Observed(phases, values, phase) ==
    LET mine == {i \in DOMAIN phases : phases[i] = phase} IN
      IF Cardinality(mine) >= MinSamples THEN mine ELSE {}

Factors(phases, values) ==
    LET center == Median(values)
        MedianOf(p) == Median(Along(values, Observed(phases, values, p)))
        shaped == {p \in ToSet(phases) : Observed(phases, values, p) # {}}
    IN IF center <= 0 THEN <<>>
       ELSE [p \in {q \in shaped : MedianOf(q) > 0} |-> <<MedianOf(p), center>>]

Divided(v, f) == (v * f[2]) \div f[1]
Multiplied(v, f) == (v * f[1]) \div f[2]
FactorOf(factors, p) == IF p \in DOMAIN factors THEN factors[p] ELSE <<1, 1>>

\* The low end of the range: what is spent is spent.
Lowest(mtd, total, band) == Larger(mtd, total - band)

\* project_seasonal: phases and values of the days seen, oldest first, the phases
\* of those to come and the number of early days never seen.
ProjectSeasonal(phases, values, remaining, missing, alpha) ==
    LET mtd == Total(values)
        n == Len(values)
        factors == Factors(phases, values)
        deseason == [i \in 1 .. n |-> Divided(values[i], FactorOf(factors, phases[i]))]
        level == Ewma(deseason, alpha)
        ahead == Total([i \in DOMAIN remaining |-> Multiplied(level, FactorOf(factors, remaining[i]))])
        total == mtd + ahead + level * missing
        days == Len(remaining) + missing
        spread == Spread(deseason)
        \* level_err ** 2 + noise ** 2
        band == Root((spread * spread * days * days) \div n + spread * spread * days)
        known == days = 0 \/ n >= 2
    IN [mtd |-> mtd, total |-> total, level |-> level, shaped |-> factors # <<>>,
        band |-> IF known THEN band ELSE Unknown,
        low |-> IF known THEN Lowest(mtd, total, band) ELSE total,
        high |-> IF known THEN total + band ELSE total]

----------------------------------------------------------------------------
(* linregress and periods_to_cross: the least-squares line through the      *)
(* samples and how far past the last of them it meets the threshold, as a   *)
(* pair, or Unknown when it is not heading there.                              *)

SlopeOf(xs, ys) ==
    LET n == Len(xs)
        Products(as, bs) == Total([i \in 1 .. n |-> as[i] * bs[i]])
    IN <<n * Products(xs, ys) - Total(xs) * Total(ys), n * Products(xs, xs) - Total(xs) * Total(xs)>>

PeriodsToCross(xs, ys, threshold) ==
    LET n == Len(xs)
        slope == SlopeOf(xs, ys)
        \* n * slope[2] times the distance of the threshold from the fitted last value
        gap == (n * threshold - Total(ys)) * slope[2] - slope[1] * (n * Last(xs) - Total(xs))
        sign == IF slope[1] < 0 THEN -1 ELSE 1
    IN IF slope[1] = 0 \/ sign * gap <= 0 THEN Unknown ELSE <<sign * gap, sign * n * slope[1]>>
=============================================================================
