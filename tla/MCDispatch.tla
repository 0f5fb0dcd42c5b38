----------------------------- MODULE MCDispatch ------------------------------
(* TLC instances of Dispatch: the log (floor info, repeats), a chat channel  *)
(* that fires once, and one that is asked to nag about what is critical.     *)
EXTENDS Dispatch, TLC

CONSTANTS budget, cert

info == 0
warn == 1
critical == 2

MCFloor == <<info, warn, critical>>
MCRepeatAfter == <<2, None, 1>>

E(k, s) == [key |-> k, sev |-> s]

\* The budget is in every batch, as a condition that stands: alone; worse, and
\* with the server's opinion of it appended; behind another condition.
MCBatches == {
    <<E(budget, warn)>>,
    <<E(budget, critical), E(budget, warn)>>,
    <<E(cert, critical), E(budget, warn)>>
}
=============================================================================
