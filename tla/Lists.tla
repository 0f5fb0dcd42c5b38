-------------------------------- MODULE Lists --------------------------------
(* The lists of the code: what is in one, and the comprehensions over them. *)
EXTENDS Sequences, SequencesExt

\* A list, whatever its entries.
IsList(s) == s \in Seq(ToSet(s))

\* The members of a list that are in a set, in its order.
Those(s, S) == FlattenSeq([i \in DOMAIN s |-> IF s[i] \in S THEN <<s[i]>> ELSE <<>>])
=============================================================================
