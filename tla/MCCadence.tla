------------------------------ MODULE MCCadence ------------------------------
(* TLC instance of Cadence: a spend key with a long ttl beside a            *)
(* recommendations key with a short one.                                    *)
EXTENDS Cadence, TLC

CONSTANTS spend, recs

MCTtlOf == (spend :> 3) @@ (recs :> 2)
=============================================================================
