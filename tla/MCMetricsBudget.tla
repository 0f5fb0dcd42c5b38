--------------------------- MODULE MCMetricsBudget ---------------------------
(* TLC instances of MetricsBudget: a finops fallback before two monitoring   *)
(* collectors, and one collector the operator's services leave out.          *)
EXTENDS MetricsBudget

Q(listed, unlisted) == [listed |-> listed, unlisted |-> unlisted]

\* Over the ceiling: the last region finds less than it needs.
MCQueries == <<
    <<Q(2, 0), Q(1, 0)>>,
    <<Q(3, 1), Q(1, 0)>>,
    <<Q(1, 1), Q(2, 2)>>,
    <<Q(2, 0), Q(0, 0)>> >>
=============================================================================
