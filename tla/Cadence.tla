------------------------------- MODULE Cadence -------------------------------
(***************************************************************************)
(* The collector memo: class Due of clont/agent/cadence.py, used the way   *)
(* the runner uses it.  The loop ticks every few minutes and asks for      *)
(* every key on every tick; Due decides whether the upstream call is       *)
(* really made or the last result handed out again.                        *)
(*                                                                         *)
(* A value is abstracted to the moment the upstream produced it, which is  *)
(* all that staleness is about.  The upstream call takes time: it begins   *)
(* in one step and returns or raises in a later one, and the clock may     *)
(* move in between.                                                        *)
(***************************************************************************)
EXTENDS Integers

CONSTANTS
    Keys,     \* (alias, collector, "collect" / "recommendations" / "metrics")
    TtlOf,    \* the ttl the runner passes for each key
    None,     \* Python's None: no entry, no call in flight, nothing answered
    MaxTime   \* bound on the modelled clock

ASSUME TtlAssumption == TtlOf \in [Keys -> Nat]
ASSUME MaxTimeAssumption == MaxTime \in Nat

Entry == [at : Nat, val : Nat]
Call == [key : Keys, began : Nat, force : BOOLEAN]

ASSUME NoneAssumption == None \notin Nat /\ None \notin Entry /\ None \notin Call

VARIABLES
    clock,    \* time.monotonic()
    entries,  \* Due._entries: key -> (stamp, value), None when the key is absent
    call,     \* the upstream call in flight, at most one: the loop is one thread
    answer,   \* what the cycle was last given for each key, and how
    fetched   \* history: when the last successful call of each key was begun

vars == <<clock, entries, call, answer, fetched>>

Answer == [at : Nat, val : Nat \cup {None}, how : {"reused", "fetched", "fallback"}]

TypeOK ==
    /\ clock \in Nat
    /\ entries \in [Keys -> Entry \cup {None}]
    /\ call \in Call \cup {None}
    /\ answer \in [Keys -> Answer \cup {None}]
    /\ fetched \in [Keys -> Nat \cup {None}]

----------------------------------------------------------------------------
(* Faulty variants of the definitions below: each one is a slip this code   *)
(* could have made, and some property of this module must refuse it.        *)

\* A freshness test that gives an entry half of its ttl.
FreshForHalf(k) == entries[k] # None /\ 2 * (clock - entries[k].at) < TtlOf[k]

\* The stamp taken when the call returns instead of before it is made.
StampedAtReturn(began) == clock

\* A fallback that answers with the oldest value there could be.
LastValueReset(k) == IF entries[k] = None THEN None ELSE 0

----------------------------------------------------------------------------
(* Due.                                                                     *)

Init ==
    /\ clock = 0
    /\ entries = [k \in Keys |-> None]
    /\ call = None
    /\ answer = [k \in Keys |-> None]
    /\ fetched = [k \in Keys |-> None]

\* "entry is not None and now - entry[0] < ttl"
Fresh(k) == entries[k] # None /\ clock - entries[k].at < TtlOf[k]

\* The stamp stored with a value: `now`, read before fn was called.
Stamp(began) == began

\* A raising fn leaves the entry untouched.
EntryAfterRaise(k) == entries[k]

\* Due.last
LastValue(k) == IF entries[k] = None THEN None ELSE entries[k].val

\* get_or_reuse on a fresh entry that is not forced.
Reuse(k) ==
    /\ call = None
    /\ Fresh(k)
    /\ answer' = [answer EXCEPT ![k] = [at |-> clock, val |-> LastValue(k), how |-> "reused"]]
    /\ UNCHANGED <<clock, entries, call, fetched>>

\* get_or_reuse on a missing, stale or forced entry: fn is called.
Begin(k, force) ==
    /\ call = None
    /\ force \/ ~Fresh(k)
    /\ call' = [key |-> k, began |-> clock, force |-> force]
    /\ UNCHANGED <<clock, entries, answer, fetched>>

\* fn returns a value the upstream produced while the call was running.
Succeed ==
    /\ call # None
    /\ \E read \in call.began .. clock :
         /\ entries' = [entries EXCEPT ![call.key] = [at |-> Stamp(call.began), val |-> read]]
         /\ answer' = [answer EXCEPT ![call.key] =
                         [at |-> clock, val |-> read, how |-> "fetched"]]
    /\ fetched' = [fetched EXCEPT ![call.key] = call.began]
    /\ call' = None
    /\ UNCHANGED clock

\* fn raises: the runner records the error and falls back to Due.last.
Raise ==
    /\ call # None
    /\ entries' = [entries EXCEPT ![call.key] = EntryAfterRaise(call.key)]
    /\ answer' = [answer EXCEPT ![call.key] =
                    [at |-> clock, val |-> LastValue(call.key), how |-> "fallback"]]
    /\ call' = None
    /\ UNCHANGED <<clock, fetched>>

\* A new process: the memo is in memory only, "a cold cache, deliberately".
Restart ==
    /\ entries' = [k \in Keys |-> None]
    /\ call' = None
    /\ answer' = [k \in Keys |-> None]
    /\ fetched' = [k \in Keys |-> None]
    /\ UNCHANGED clock

Tick ==
    /\ clock < MaxTime
    /\ clock' = clock + 1
    /\ UNCHANGED <<entries, call, answer, fetched>>

Next ==
    \/ \E k \in Keys : Reuse(k)
    \/ \E k \in Keys, force \in BOOLEAN : Begin(k, force)
    \/ Succeed
    \/ Raise
    \/ Restart
    \/ Tick

Spec == Init /\ [][Next]_vars

----------------------------------------------------------------------------
(* What the memo promises.                                                  *)

\* A reused value is younger than its ttl, counted from the moment the
\* upstream produced it and not from the moment it was stored.  It holds only
\* because get_or_reuse stamps an entry with the time read before the call.
BoundedStaleness ==
    \A k \in Keys :
        answer[k] # None /\ answer[k].how = "reused" =>
            answer[k].at - answer[k].val < TtlOf[k]

\* An unforced call that succeeds was begun at least a ttl after the last
\* successful call for its key, however fast the loop ticks and whatever forced
\* refreshes and failures came in between: "the loop ticks every 300s, the paid
\* APIs must not".  Calls are begun in order, so this spaces every pair of them.
SuccessesSpaced ==
    [][ \A k \in Keys :
          /\ call # None /\ call.key = k /\ ~call.force
          /\ fetched[k] # None
          /\ answer'[k] # None /\ answer'[k].how = "fetched" /\ call' = None
          => call.began - fetched[k] >= TtlOf[k] ]_vars

\* Once a key has succeeded in this process the cycle is never handed None for
\* it again: a throttled call falls back to the last good value instead of
\* blanking the spend (runner.py, the except branches of _finops_collect).
NeverBlankedAfterSuccess ==
    \A k \in Keys :
        fetched[k] # None /\ answer[k] # None => answer[k].val # None

\* Within one process an answer is never older than the answer the same key was
\* given before, through reuses, failures and forced refreshes alike.
AnswersNeverGoBack ==
    [][ \A k \in Keys :
          /\ answer[k] # None /\ answer[k].val # None
          /\ answer'[k] # None
          => answer'[k].val # None /\ answer'[k].val >= answer[k].val ]_vars

=============================================================================
