---------------------------- MODULE CadenceProofs ----------------------------
(***************************************************************************)
(* The memo's promises for every set of keys, every ttl and every bound on *)
(* the clock.  None of them is inductive: an answer is fresh because the   *)
(* stamp of an entry is no later than its value, and a call is spaced      *)
(* because it was begun on a stale entry that nothing has touched since.   *)
(***************************************************************************)
EXTENDS Cadence, TLAPS

\* An entry was stamped before its value was produced, and both are past; its
\* stamp is the moment its call was begun.
EntriesOK ==
    \A k \in Keys :
        /\ fetched[k] = None <=> entries[k] = None
        /\ entries[k] # None =>
              /\ entries[k].at = fetched[k]
              /\ entries[k].at <= entries[k].val
              /\ entries[k].val <= clock

\* The call in flight is past, no older than what its key holds, and if it was
\* not forced it was begun on an entry its ttl had run out on.
CallOK ==
    call # None =>
        /\ call.began <= clock
        /\ entries[call.key] # None =>
              /\ entries[call.key].val <= call.began
              /\ ~call.force => call.began - entries[call.key].at >= TtlOf[call.key]

\* What was answered is no newer than what the memo holds for the key.
AnswersOK ==
    \A k \in Keys : answer[k] # None =>
        /\ answer[k].val = None => entries[k] = None
        /\ answer[k].val # None =>
              entries[k] # None /\ answer[k].val <= entries[k].val

IInv == TypeOK /\ EntriesOK /\ CallOK /\ AnswersOK /\ BoundedStaleness

LEMMA InitIInv == Init => IInv
BY MaxTimeAssumption DEF Init, IInv, TypeOK, EntriesOK, CallOK, AnswersOK, BoundedStaleness

LEMMA NextIInv == IInv /\ [Next]_vars => IInv'
<1> SUFFICES ASSUME IInv, [Next]_vars PROVE IInv'
    OBVIOUS
<1> USE TtlAssumption, MaxTimeAssumption, NoneAssumption
<1> USE DEF IInv, TypeOK, EntriesOK, CallOK, AnswersOK, BoundedStaleness,
            Entry, Call, Answer
<1>1. CASE \E k \in Keys : Reuse(k)
  BY <1>1 DEF Reuse, Fresh, LastValue
<1>2. CASE \E k \in Keys, force \in BOOLEAN : Begin(k, force)
  BY <1>2 DEF Begin, Fresh
<1>3. CASE Succeed
  BY <1>3 DEF Succeed, Stamp
<1>4. CASE Raise
  BY <1>4 DEF Raise, EntryAfterRaise, LastValue
<1>5. CASE Restart
  BY <1>5 DEF Restart
<1>6. CASE Tick
  BY <1>6 DEF Tick
<1>7. CASE UNCHANGED vars
  BY <1>7 DEF vars
<1>8. QED
  BY <1>1, <1>2, <1>3, <1>4, <1>5, <1>6, <1>7 DEF Next

\* The strengthened invariant holds throughout: the entries, the call in flight
\* and the answers of the memo always stand in the relations above.
THEOREM Inductive == Spec => []IInv
BY InitIInv, NextIInv, PTL DEF Spec

\* The memo's variables keep their types, in every instance.
THEOREM TypeCorrect == Spec => []TypeOK
<1>1. IInv => TypeOK
  BY DEF IInv
<1>2. QED
  BY <1>1, Inductive, PTL

\* A reused value is younger than its ttl, counted from the moment the upstream
\* produced it (cadence.py, "now - entry[0] < ttl" with now read before fn).
THEOREM StalenessBounded == Spec => []BoundedStaleness
<1>1. IInv => BoundedStaleness
  BY DEF IInv
<1>2. QED
  BY <1>1, Inductive, PTL

\* A key that has succeeded in this process is never answered with None again.
THEOREM NeverBlanked == Spec => []NeverBlankedAfterSuccess
<1>1. IInv => NeverBlankedAfterSuccess
  BY DEF IInv, EntriesOK, AnswersOK, NeverBlankedAfterSuccess
<1>2. QED
  BY <1>1, Inductive, PTL

\* Two successful calls for a key are a ttl apart, unless the later is forced.
THEOREM CallsSpaced == Spec => SuccessesSpaced
<1> DEFINE Spaced(k) ==
      /\ call # None /\ call.key = k /\ ~call.force
      /\ fetched[k] # None
      /\ answer'[k] # None /\ answer'[k].how = "fetched" /\ call' = None
      => call.began - fetched[k] >= TtlOf[k]
<1>1. IInv => \A k \in Keys : Spaced(k)
  BY DEF IInv, EntriesOK, CallOK
<1>2. QED
  BY <1>1, Inductive, PTL DEF SuccessesSpaced

\* Within one process the answers for a key never go back in time.
THEOREM AnswersMonotone == Spec => AnswersNeverGoBack
<1> DEFINE Forward(k) ==
      /\ answer[k] # None /\ answer[k].val # None
      /\ answer'[k] # None
      => answer'[k].val # None /\ answer'[k].val >= answer[k].val
<1>1. ASSUME IInv, [Next]_vars PROVE [\A k \in Keys : Forward(k)]_vars
  <2> SUFFICES ASSUME NEW k \in Keys, Next,
                      answer[k] # None, answer[k].val # None, answer'[k] # None
               PROVE  answer'[k].val # None /\ answer'[k].val >= answer[k].val
    BY <1>1
  <2> USE <1>1, NoneAssumption
  <2> USE DEF IInv, TypeOK, EntriesOK, CallOK, AnswersOK, Entry, Call, Answer
  <2>1. CASE \E j \in Keys : Reuse(j)
    BY <2>1 DEF Reuse, LastValue
  <2>2. CASE \E j \in Keys, force \in BOOLEAN : Begin(j, force)
    BY <2>2 DEF Begin
  <2>3. CASE Succeed
    BY <2>3 DEF Succeed
  <2>4. CASE Raise
    BY <2>4 DEF Raise, LastValue
  <2>5. CASE Restart
    BY <2>5 DEF Restart
  <2>6. CASE Tick
    BY <2>6 DEF Tick
  <2>7. QED
    BY <2>1, <2>2, <2>3, <2>4, <2>5, <2>6 DEF Next
<1>2. QED
  BY <1>1, Inductive, PTL DEF Spec, AnswersNeverGoBack
=============================================================================
