----------------------------- MODULE BillingMonth -----------------------------
(***************************************************************************)
(* Which days of spend a cycle asks for and which report folders they are  *)
(* in: _cost_period of clont/agent/runner.py and _billing_periods of       *)
(* clont/finops/aws/cur.py.  What the detectors make of them is in         *)
(* AccountDays; here a day of an account has spend or has none.            *)
(***************************************************************************)
EXTENDS Calendar, Sequences, SequencesExt

CONSTANTS
    Starts,        \* the days on which the agent may start
    Stops,         \* the days on which it stops: the bound on today
    BaselineDays,  \* finops.spend_baseline_days
    FirstSpend,    \* the days on which the account may have started to spend
    MaxLag,        \* bound on how many days the delivered report is behind
    MaxStale       \* bound on how many days a memoised answer is reused

ASSUME DaysAssumption == Starts \subseteq Nat /\ Stops \subseteq Nat /\ FirstSpend \subseteq Nat
ASSUME SpendAssumption == BaselineDays \in Nat

VARIABLES
    today,      \* date.today()
    delivered,  \* the last day in the report AWS has delivered
    since,      \* the account's first day of spend
    held        \* the records a cycle has in hand, as [asked, from, to], or None

vars == <<today, delivered, since, held>>

----------------------------------------------------------------------------
(* Faulty variants of the definitions below.                                *)

\* Only the trailing days, which late in a month miss its first ones.
StartTrailing == today - 1 - BaselineDays

\* The next month by a fixed number of days.
NextMonthByDays(month) == month + 31

----------------------------------------------------------------------------
(* The window of a cycle.                                                   *)

\* _cost_period: up to the last complete day, and back to the first of its month
\* at least.
WindowEnd == today - 1
WindowStart == Min({WindowEnd - BaselineDays, ReplaceDay(WindowEnd, 1)})

\* _next_month
NextMonth(month) == ReplaceDay(ReplaceDay(month, 28) + 4, 1)

\* _billing_periods, with every folder named by its month and the next.
Folders(from, to) ==
    LET months[n \in 0 .. MonthCount] ==
          IF n = 0 THEN <<ReplaceDay(from, 1)>>
          ELSE LET sofar == months[n - 1] IN
                 IF NextMonth(Last(sofar)) <= to THEN Append(sofar, NextMonth(Last(sofar))) ELSE sofar
        touched == months[MonthCount]
    IN [i \in DOMAIN touched |-> <<touched[i], NextMonth(touched[i])>>]

----------------------------------------------------------------------------

TypeOK ==
    /\ today \in Nat /\ \E d \in Starts : d <= today
    /\ delivered \in today - 1 - MaxLag .. today
    /\ since \in FirstSpend
    /\ held # None =>
          /\ held.asked \in today - MaxStale .. today
          /\ held.to < held.asked

Init ==
    /\ today \in Starts
    /\ delivered \in today - 1 - MaxLag .. today
    /\ since \in FirstSpend
    /\ held = None

\* The collector is called: the days of the window that have been delivered.
Collect ==
    /\ held' = [asked |-> today, from |-> WindowStart, to |-> Min({WindowEnd, delivered})]
    /\ UNCHANGED <<today, delivered, since>>

\* AWS rewrites the report a few times a day, up to and with the day in progress.
Deliver ==
    /\ \E d \in delivered + 1 .. today : delivered' = d
    /\ UNCHANGED <<today, since, held>>

\* Midnight.  Whatever is in hand is reused until it is refreshed.
Midnight ==
    /\ today \notin Stops
    /\ delivered >= today - MaxLag
    /\ held # None => held.asked > today - MaxStale
    /\ today' = today + 1
    /\ UNCHANGED <<delivered, since, held>>

Next == Collect \/ Deliver \/ Midnight

Spec == Init /\ [][Next]_vars

----------------------------------------------------------------------------
(* What the calendar arithmetic promises.                                   *)

\* The folders read for a window are the months it touches, each once, in order
\* and without a gap, across the ends of years and of every length of month:
\* no spend of the window is missed and none is counted twice.
FoldersTileTheWindow ==
    LET folders == Folders(WindowStart, WindowEnd)
        touched == {MonthStart[MonthOf(d)] : d \in WindowStart .. WindowEnd}
    IN /\ {folders[i][1] : i \in DOMAIN folders} = touched
       /\ Len(folders) = Cardinality(touched)
       /\ \A i \in DOMAIN folders :
            /\ folders[i][2] = MonthStart[MonthOf(folders[i][1]) + 1]
            /\ i > 1 => folders[i][1] = folders[i - 1][2]

\* The two together, for every day the window is asked for.
WindowIsRight == TypeOK /\ FoldersTileTheWindow
=============================================================================
