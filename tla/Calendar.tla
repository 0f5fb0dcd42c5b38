------------------------------- MODULE Calendar -------------------------------
(***************************************************************************)
(* The calendar the billing window and the spend detectors reckon with:    *)
(* what clont uses of Python's datetime and calendar.                      *)
(*                                                                         *)
(* A date is its distance in days from the first of January of FirstYear.  *)
(***************************************************************************)
EXTENDS Integers

CONSTANTS
    FirstYear,
    FirstWeekday,  \* of the first of January of FirstYear; Monday is 0
    MonthCount,    \* bound on the calendar
    None

ASSUME CalendarAssumption == FirstYear \in Nat /\ FirstWeekday \in 0 .. 6 /\ MonthCount \in Nat \ {0}

----------------------------------------------------------------------------
(* Months are numbered from 0.                                              *)

IsLeap(y) == y % 4 = 0 /\ (y % 100 # 0 \/ y % 400 = 0)

\* calendar.monthrange
MonthLength(k) ==
    LET m == (k % 12) + 1 IN
      IF m = 2 THEN IF IsLeap(FirstYear + k \div 12) THEN 29 ELSE 28
      ELSE IF m \in {4, 6, 9, 11} THEN 30 ELSE 31

MonthStart[k \in 0 .. MonthCount] ==
    IF k = 0 THEN 0 ELSE MonthStart[k - 1] + MonthLength(k - 1)

MonthTable ==
    [d \in 0 .. MonthStart[MonthCount] - 1 |->
        CHOOSE k \in 0 .. MonthCount - 1 : MonthStart[k] <= d /\ d < MonthStart[k + 1]]

MonthOf(d) == MonthTable[d]
DayOfMonth(d) == d - MonthStart[MonthOf(d)] + 1
ReplaceDay(d, n) == MonthStart[MonthOf(d)] + n - 1
Weekday(d) == (FirstWeekday + d) % 7

MonthEnd(d) == MonthStart[MonthOf(d) + 1] - 1
=============================================================================
