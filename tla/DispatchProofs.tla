--------------------------- MODULE DispatchProofs ----------------------------
(***************************************************************************)
(* The promises of a dispatch pass for any number of channels, any floors  *)
(* and windows, any events and any number of failures.  What the invariant *)
(* adds is where the two loops are: everything before the cursor has been  *)
(* dealt with, and what is in flight is accounted for on its own.          *)
(***************************************************************************)
EXTENDS Dispatch, TLAPS

CursorOK ==
    /\ stage = "idle" <=> pos > Len(events)
    /\ stage \in {"posting", "landed"} => ShouldSend(Here)

TimesOK ==
    /\ began <= now
    /\ \A p \in Pairs : lastSent[p] # None => lastSent[p] <= now

\* The loops have been at event i and channel c in this pass.
Passed(i, c) == i < pos \/ (i = pos /\ c < chan)

DealtWith(i, c) ==
    LET p == <<c, events[i].key>> IN
    PassesGate(events[i], c) /\ <<i, c>> \notin failed =>
        /\ lastSent[p] # None
        /\ RepeatAfter[c] # None =>
              lastSent[p] >= began \/ began - lastSent[p] < RepeatAfter[c]

PassedOK ==
    \A i \in 1 .. Len(events), c \in Channels : Passed(i, c) => DealtWith(i, c)

Told(p) == IF lastSent[p] = None THEN 0 ELSE 1
InFlight(p) == IF stage = "landed" /\ Here = p THEN 1 ELSE 0

HeardOK ==
    \A p \in Pairs :
        /\ RepeatAfter[p[1]] = None => heard[p] <= lost[p] + Told(p) + InFlight(p)
        /\ heard[p] = HeardCap \/ heard[p] >= lost[p] + Told(p) + InFlight(p)
        /\ heard[p] <= HeardCap

IInv == TypeOK /\ CursorOK /\ TimesOK /\ PassedOK /\ HeardOK

\* There is a first channel.
LEMMA FirstChannel == 1 \in Channels
BY CountAssumption DEF Channels

\* The cursor points at an event of the list while the pass lasts.
LEMMA HereTyped ==
    ASSUME TypeOK, CursorOK, stage # "idle"
    PROVE  pos \in 1 .. Len(events) /\ events[pos] \in Event /\ Here \in Pairs
<1>1. pos \in 1 .. Len(events)
  BY DEF TypeOK, CursorOK
<1>2. events[pos] \in Event
  BY <1>1 DEF TypeOK
<1>3. QED
  BY <1>1, <1>2 DEF Here, Pairs, Event, TypeOK

\* Where the loops go next is a place of theirs, and all they had passed before
\* they have still passed, and the pair they leave as well.
LEMMA Advance ==
    ASSUME TypeOK, CursorOK, stage # "idle", MoveTo(AfterSend)
    PROVE  /\ pos' \in Nat \ {0} /\ chan' \in Channels
           /\ stage' \in {"idle", "offer"}
           /\ events' = events
           /\ stage' = "idle" <=> pos' > Len(events')
           /\ \A i \in Nat, c \in Channels :
                Passed(i, c)' <=> (Passed(i, c) \/ (i = pos /\ c = chan))
BY HereTyped, CountAssumption DEF MoveTo, AfterSend, Passed, TypeOK, CursorOK, Channels

LEMMA InitIInv == Init => IInv
<1> SUFFICES ASSUME Init PROVE IInv
    OBVIOUS
<1>1. TypeOK
  BY FirstChannel DEF Init, TypeOK, Ranks
<1>2. CursorOK /\ TimesOK /\ PassedOK
  BY DEF Init, CursorOK, TimesOK, PassedOK
<1>3. HeardOK
  BY BoundsAssumption DEF Init, HeardOK, Told, InFlight
<1>4. QED
  BY <1>1, <1>2, <1>3 DEF IInv

LEMMA NextType == IInv /\ [Next]_vars => TypeOK'
<1> SUFFICES ASSUME IInv, [Next]_vars PROVE TypeOK'
    OBVIOUS
<1> USE BatchesAssumption, BoundsAssumption, FirstChannel
<1>0. TypeOK /\ CursorOK /\ HeardOK
  BY DEF IInv
<1>1. CASE \E batch \in Batches : StartPass(batch)
  BY <1>0, <1>1 DEF StartPass, TypeOK, throttle
<1>2. CASE Skip
  <2>1. Skip => stage # "idle" /\ MoveTo(AfterSend)
    BY DEF Skip
  <2>2. QED
    BY <1>0, <1>2, <2>1, Advance DEF Skip, TypeOK, throttle, history
<1>3. CASE Post
  BY <1>0, <1>3 DEF Post, TypeOK, throttle, history
<1>4. CASE Accept
  <2>1. Here \in Pairs /\ events[pos].sev \in Ranks
    BY <1>0, <1>4, HereTyped DEF Accept, Event
  <2>2. QED
    BY <1>0, <1>4, <2>1 DEF Accept, TypeOK, throttle, More
<1>5. CASE Return
  <2>1. stage # "idle" /\ MoveTo(AfterSend)
    BY <1>5 DEF Return
  <2>2. Here \in Pairs
    BY <1>0, <2>1, HereTyped
  <2>3. QED
    BY <1>0, <1>5, <2>1, <2>2, Advance DEF Return, SentStamp, TypeOK, history
<1>6. CASE Raise
  <2>1. stage # "idle" /\ MoveTo(AfterSend)
    BY <1>6 DEF Raise, AfterRaise
  <2>2. Here \in Pairs
    BY <1>0, <2>1, HereTyped
  <2>3. QED
    BY <1>0, <1>6, <2>1, <2>2, Advance DEF Raise, StampAfterRaise, TypeOK
<1>7. CASE Restart
  BY <1>0, <1>7 DEF Restart, TypeOK, Ranks
<1>8. CASE Tick
  BY <1>0, <1>8 DEF Tick, TypeOK, cursor, history
<1>9. CASE UNCHANGED vars
  BY <1>0, <1>9 DEF vars, TypeOK, throttle, cursor, history
<1>10. QED
  BY <1>1, <1>2, <1>3, <1>4, <1>5, <1>6, <1>7, <1>8, <1>9 DEF Next

LEMMA NextCursor == IInv /\ [Next]_vars => CursorOK' /\ TimesOK'
<1> SUFFICES ASSUME IInv, [Next]_vars PROVE CursorOK' /\ TimesOK'
    OBVIOUS
<1>0. TypeOK /\ CursorOK /\ TimesOK
  BY DEF IInv
<1>1. CASE \E batch \in Batches : StartPass(batch)
  BY <1>0, <1>1, BatchesAssumption
     DEF StartPass, TypeOK, CursorOK, TimesOK, throttle
<1>2. CASE Skip
  BY <1>0, <1>2, Advance DEF Skip, CursorOK, TimesOK, throttle, history
<1>3. CASE Post
  BY <1>0, <1>3 DEF Post, CursorOK, TimesOK, ShouldSend, Here, throttle, history
<1>4. CASE Accept
  BY <1>0, <1>4 DEF Accept, CursorOK, TimesOK, ShouldSend, Here, throttle
<1>5. CASE Return
  BY <1>0, <1>5, Advance, HereTyped
     DEF Return, SentStamp, TypeOK, CursorOK, TimesOK, history
<1>6. CASE Raise
  BY <1>0, <1>6, Advance DEF Raise, AfterRaise, StampAfterRaise, CursorOK, TimesOK
<1>7. CASE Restart
  BY <1>0, <1>7 DEF Restart, TypeOK, CursorOK, TimesOK
<1>8. CASE Tick
  <2>1. \A p \in Pairs : ShouldSend(p) => ShouldSend(p)'
    BY <1>0, <1>8, RepeatAssumption DEF Tick, ShouldSend, TypeOK, Pairs
  <2>2. stage # "idle" => Here \in Pairs
    BY <1>0, HereTyped
  <2>3. CursorOK'
    <3>1. stage \in {"posting", "landed"} => ShouldSend(Here)'
      BY <1>0, <2>1, <2>2, <1>8 DEF CursorOK, Tick, cursor, Here, ShouldSend
    <3>2. QED
      BY <1>0, <1>8, <3>1 DEF Tick, CursorOK, cursor
  <2>4. TimesOK'
    BY <1>0, <1>8 DEF Tick, TypeOK, TimesOK, history
  <2>5. QED
    BY <2>3, <2>4
<1>9. CASE UNCHANGED vars
  BY <1>0, <1>9 DEF vars, CursorOK, TimesOK, ShouldSend, Here, throttle, cursor, history
<1>10. QED
  BY <1>1, <1>2, <1>3, <1>4, <1>5, <1>6, <1>7, <1>8, <1>9 DEF Next
\* What a pair was dealt with by stays so while the throttle, the list and the
\* failures of the pass only grow.
LEMMA NextPassed == IInv /\ [Next]_vars => PassedOK'
<1> SUFFICES ASSUME IInv, [Next]_vars PROVE PassedOK'
    OBVIOUS
<1>0. TypeOK /\ CursorOK /\ TimesOK /\ PassedOK
  BY DEF IInv
<1> USE DEF PassedOK, DealtWith, PassesGate
<1>1. CASE \E batch \in Batches : StartPass(batch)
  BY <1>1 DEF StartPass, Passed, Channels
<1>2. CASE Skip
  <2>1. stage # "idle" /\ MoveTo(AfterSend) /\ UNCHANGED <<lastSent, failed, began>>
    BY <1>2 DEF Skip, throttle, history
  <2>2. pos \in 1 .. Len(events) /\ Here \in Pairs
    BY <1>0, <2>1, HereTyped
  <2>3. DealtWith(pos, chan)
    BY <1>0, <1>2, <2>2, RepeatAssumption
       DEF Skip, ShouldSend, Here, Pairs, TypeOK, TimesOK
  <2>4. QED
    BY <1>0, <2>1, <2>3, Advance
<1>3. CASE Post
  BY <1>0, <1>3 DEF Post, Passed, throttle, history
<1>4. CASE Accept
  BY <1>0, <1>4 DEF Accept, Passed, throttle
<1>5. CASE Return
  <2>1. stage # "idle" /\ MoveTo(AfterSend) /\ UNCHANGED <<failed, began>>
    BY <1>5 DEF Return, history
  <2>2. pos \in 1 .. Len(events) /\ Here \in Pairs
    BY <1>0, <2>1, HereTyped
  <2>3. lastSent'[Here] = now /\ \A p \in Pairs : p # Here => lastSent'[p] = lastSent[p]
    BY <1>0, <1>5, <2>2 DEF Return, SentStamp, TypeOK
  <2>4. now # None /\ began <= now
    BY <1>0, NoneAssumption DEF TypeOK, TimesOK
  <2>5. SUFFICES ASSUME NEW i \in 1 .. Len(events'), NEW c \in Channels, Passed(i, c)'
                 PROVE  DealtWith(i, c)'
    BY DEF PassedOK
  <2>6. i \in 1 .. Len(events) /\ events' = events /\ (Passed(i, c) \/ (i = pos /\ c = chan))
    BY <1>0, <2>1, <2>5, Advance
  <2>7. <<c, events[i].key>> \in Pairs
    <3>1. events[i] \in Event
      BY <1>0, <2>6 DEF TypeOK
    <3>2. QED
      BY <3>1 DEF Event, Pairs
  <2>8. CASE <<c, events[i].key>> = Here
    <3>1. lastSent'[<<c, events'[i].key>>] = now
      BY <2>3, <2>6, <2>8
    <3>2. began' <= now /\ began' \in Nat /\ now \in Nat
      BY <1>0, <2>1, <2>4 DEF TypeOK
    <3>3. QED
      BY <2>4, <3>1, <3>2
  <2>9. CASE <<c, events[i].key>> # Here
    <3>1. Passed(i, c)
      BY <2>6, <2>9 DEF Here
    <3>2. DealtWith(i, c)
      BY <1>0, <2>6, <3>1
    <3>3. lastSent'[<<c, events'[i].key>>] = lastSent[<<c, events[i].key>>]
      BY <2>3, <2>6, <2>7, <2>9
    <3>4. QED
      BY <2>1, <2>6, <3>2, <3>3
  <2>10. QED
    BY <2>8, <2>9
<1>6. CASE Raise
  <2>1. stage # "idle" /\ MoveTo(AfterSend) /\ UNCHANGED <<lastSent, began>>
        /\ failed' = failed \cup {<<pos, chan>>}
    BY <1>6 DEF Raise, AfterRaise, StampAfterRaise
  <2>2. QED
    BY <1>0, <2>1, Advance
<1>7. CASE Restart
  BY <1>7 DEF Restart
<1>8. CASE Tick
  BY <1>0, <1>8 DEF Tick, Passed, cursor, history
<1>9. CASE UNCHANGED vars
  BY <1>0, <1>9 DEF vars, Passed, throttle, cursor, history
<1>10. QED
  BY <1>1, <1>2, <1>3, <1>4, <1>5, <1>6, <1>7, <1>8, <1>9 DEF Next

\* Every acceptance is accounted for by a stamp, by an attempt that raised, or
\* by the attempt in flight.
LEMMA NextHeard == IInv /\ [Next]_vars => HeardOK'
<1> SUFFICES ASSUME IInv, [Next]_vars PROVE HeardOK'
    OBVIOUS
<1>0. TypeOK /\ CursorOK /\ HeardOK /\ HeardCap \in Nat /\ None \notin Nat
  BY BoundsAssumption, NoneAssumption DEF IInv
<1> USE DEF HeardOK, Told, InFlight
<1>1. CASE \E batch \in Batches : StartPass(batch)
  BY <1>0, <1>1 DEF StartPass, TypeOK, throttle
<1>2. CASE Skip
  <2>1. stage = "offer" /\ stage' \in {"idle", "offer"}
    BY <1>0, <1>2, Advance DEF Skip
  <2>2. QED
    BY <1>0, <1>2, <2>1 DEF Skip, throttle, history
<1>3. CASE Post
  BY <1>0, <1>3 DEF Post, throttle, history
<1>4. CASE Accept
  <2>1. Here \in Pairs /\ Here' = Here /\ stage = "posting" /\ stage' = "landed"
    BY <1>0, <1>4, HereTyped DEF Accept, Here
  <2>2. RepeatAfter[Here[1]] = None => lastSent[Here] = None
    BY <1>0, <2>1 DEF CursorOK, ShouldSend
  <2>3. heard' = [heard EXCEPT ![Here] = More(@)] /\ UNCHANGED <<lastSent, lost>>
    BY <1>4 DEF Accept, throttle
  <2>4. QED
    BY <1>0, <2>1, <2>2, <2>3 DEF More, TypeOK
<1>5. CASE Return
  <2>1. Here \in Pairs /\ stage = "landed" /\ stage' \in {"idle", "offer"}
    BY <1>0, <1>5, HereTyped, Advance DEF Return
  <2>2. RepeatAfter[Here[1]] = None => lastSent[Here] = None
    BY <1>0, <2>1 DEF CursorOK, ShouldSend
  <2>3. lastSent' = [lastSent EXCEPT ![Here] = now] /\ UNCHANGED <<heard, lost>>
    BY <1>5 DEF Return, SentStamp, history
  <2>4. QED
    BY <1>0, <2>1, <2>2, <2>3 DEF TypeOK
<1>6. CASE Raise
  <2>1. Here \in Pairs /\ stage' \in {"idle", "offer"}
    BY <1>0, <1>6, HereTyped, Advance DEF Raise, AfterRaise
  <2>2. UNCHANGED <<heard, lastSent>>
        /\ lost' = IF stage = "landed" THEN [lost EXCEPT ![Here] = @ + 1] ELSE lost
    BY <1>6 DEF Raise, StampAfterRaise
  <2>3. QED
    BY <1>0, <2>1, <2>2 DEF TypeOK
<1>7. CASE Restart
  BY <1>0, <1>7 DEF Restart
<1>8. CASE Tick
  BY <1>0, <1>8 DEF Tick, Here, cursor, history
<1>9. CASE UNCHANGED vars
  BY <1>0, <1>9 DEF vars, Here, throttle, cursor, history
<1>10. QED
  BY <1>1, <1>2, <1>3, <1>4, <1>5, <1>6, <1>7, <1>8, <1>9 DEF Next

\* The strengthened invariant: types, cursor, times, and the accounts of what
\* the pass has dealt with and of what the receivers have accepted.
THEOREM Inductive == Spec => []IInv
<1>1. IInv /\ [Next]_vars => IInv'
  BY NextType, NextCursor, NextPassed, NextHeard DEF IInv
<1>2. QED
  BY InitIInv, <1>1, PTL DEF Spec

\* The variables of a pass keep their types.
THEOREM TypeCorrect == Spec => []TypeOK
<1>1. IInv => TypeOK
  BY DEF IInv
<1>2. QED
  BY <1>1, Inductive, PTL

\* When dispatch returns, every event a channel's floor lets through was
\* delivered to it within its window or its send raised in this pass.
THEOREM PassLeavesNothing == Spec => []NothingWithheld
<1>1. IInv => NothingWithheld
  BY DEF IInv, TypeOK, CursorOK, PassedOK, Passed, DealtWith, NothingWithheld
<1>2. QED
  BY <1>1, Inductive, PTL

\* A stamp stands for a delivery the receiver accepted.
THEOREM StampsEarned == Spec => []StampsAreEarned
<1>1. IInv => StampsAreEarned
  BY BoundsAssumption DEF IInv, TypeOK, HeardOK, Told, InFlight, StampsAreEarned
<1>2. QED
  BY <1>1, Inductive, PTL

\* A send-once channel repeats a condition only after a delivery that was
\* accepted and raised all the same.
THEOREM SendOnce == Spec => []OnceUnlessLost
<1>1. ASSUME IInv, NEW p \in Pairs, RepeatAfter[p[1]] = None
      PROVE  heard[p] <= 1 + lost[p]
  <2>1. TypeOK /\ CursorOK /\ heard[p] <= lost[p] + Told(p) + InFlight(p)
    BY <1>1 DEF IInv, HeardOK
  <2>2. InFlight(p) = 1 => Told(p) = 0
    BY <1>1, <2>1 DEF CursorOK, ShouldSend, InFlight, Told
  <2>3. QED
    BY <2>1, <2>2 DEF TypeOK, Told, InFlight
<1>2. IInv => OnceUnlessLost
  BY <1>1 DEF OnceUnlessLost
<1>3. QED
  BY <1>2, Inductive, PTL

\* The pass with its two loops, its gate and its failures implements the
\* Notifier, in which every pair of a channel and a key is a throttle apart.
THEOREM Refines == Spec => ImplementsNotifier
<1> USE DEF Throttles!Pairs, Pairs
<1>1. Init => Throttles!NInit
  BY DEF Init, Throttles!NInit
<1>2. ASSUME IInv, [Next]_vars PROVE [Throttles!NNext]_(Throttles!nvars)
  <2>0. TypeOK /\ CursorOK
    BY <1>2 DEF IInv
  <2>1. CASE \E batch \in Batches : StartPass(batch)
    BY <2>1 DEF StartPass, Throttles!nvars, throttle
  <2>2. CASE Skip
    <3>1. stage = "offer" /\ stage' \in {"idle", "offer"}
      BY <2>0, <2>2, Advance DEF Skip
    <3>2. QED
      BY <2>2, <3>1 DEF Skip, Throttles!nvars, throttle, history
  <2>3. CASE Post
    <3>1. Here \in Pairs /\ Here' = Here
      BY <2>0, <2>3, HereTyped DEF Post, Here
    <3>2. Throttles!Start(Here)
      BY <2>3, <3>1 DEF Post, ShouldSend, Throttles!Start, Throttles!Due, throttle, history
    <3>3. QED
      BY <3>1, <3>2 DEF Throttles!NNext
  <2>4. CASE Accept
    <3>1. Here \in Pairs /\ Here' = Here
      BY <2>0, <2>4, HereTyped DEF Accept, Here
    <3>2. Throttles!Land
      BY <2>4, <3>1, NoneAssumption
         DEF Accept, More, Throttles!Land, Throttles!More, throttle
    <3>3. QED
      BY <3>2 DEF Throttles!NNext
  <2>5. CASE Return
    <3>1. Here \in Pairs /\ stage' \in {"idle", "offer"}
      BY <2>0, <2>5, HereTyped, Advance DEF Return
    <3>2. Throttles!Settle
      BY <2>5, <3>1, NoneAssumption DEF Return, SentStamp, Throttles!Settle, history
    <3>3. QED
      BY <3>2 DEF Throttles!NNext
  <2>6. CASE Raise
    <3>1. Here \in Pairs /\ stage' \in {"idle", "offer"}
      BY <2>0, <2>6, HereTyped, Advance DEF Raise, AfterRaise
    <3>2. Throttles!Fail
      <4>1. CASE stage = "posting"
        BY <2>6, <3>1, <4>1, NoneAssumption
           DEF Raise, StampAfterRaise, Throttles!Fail
      <4>2. CASE stage = "landed"
        BY <2>6, <3>1, <4>2, NoneAssumption
           DEF Raise, StampAfterRaise, Throttles!Fail
      <4>3. QED
        BY <2>6, <4>1, <4>2 DEF Raise
    <3>3. QED
      BY <3>2 DEF Throttles!NNext
  <2>7. CASE Restart
    BY <2>7 DEF Restart, Throttles!Forget, Throttles!NNext
  <2>8. CASE Tick
    BY <2>8 DEF Tick, Here, cursor, history, Throttles!Clock, Throttles!NNext
  <2>9. CASE UNCHANGED vars
    BY <2>9 DEF vars, Here, throttle, cursor, history, Throttles!nvars
  <2>10. QED
    BY <1>2, <2>1, <2>2, <2>3, <2>4, <2>5, <2>6, <2>7, <2>8, <2>9 DEF Next
<1>3. QED
  BY <1>1, <1>2, Inductive, PTL DEF Spec, ImplementsNotifier, Throttles!NSpec
=============================================================================
