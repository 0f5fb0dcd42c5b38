----------------------------- MODULE MCCurCache ------------------------------
(* TLC instance of CurCache: two accounts; the spend window reaches into the  *)
(* month before, the advice window does not.                                  *)
EXTENDS CurCache, TLC

CONSTANTS last, this, prod, dev

MCWindow == [k \in Kinds |-> IF k = "collect" THEN <<last, this>> ELSE <<this>>]
MCTtl == [k \in Kinds |-> IF k = "collect" THEN 2 ELSE 1]

\* No account is special.
MCSymmetry == Permutations({prod, dev})
=============================================================================
