--------------------------- MODULE PaidReadsProofs ----------------------------
(***************************************************************************)
(* What holds of the two paid reads.  Of MetricsBudget for every fleet,    *)
(* allowlist, ceiling and chunk size, by a ledger: of the ceiling, every   *)
(* metric is either still in remaining, held by the region being read,     *)
(* requested, or wasted on a region that failed.  Of CurCache for every    *)
(* number of accounts, every window and every life of the two caches, by   *)
(* following a report from the read to the answer: the cache stamps it no  *)
(* later than its first folder, Due stamps it at most Refresh after that,  *)
(* and an answer out of either is younger than that cache's own life.      *)
(***************************************************************************)
EXTENDS MetricsBudget, CurCache, TLAPS

----------------------------------------------------------------------------
(* The metric budget.                                                       *)

\* The region being read has booked metrics that are not requested yet.
Holding == at \in Budgeted /\ stage = "send"

\* Nothing has been booked before the first cycle.
Unused == stage = "idle" /\ sent = 0 /\ wasted = 0 /\ remaining = 0 /\ dropped = 0

Ledger ==
    /\ Holding => sent + wasted + pending + remaining = MaxPerCycle
    /\ ~Holding => Unused \/ sent + wasted + remaining = MaxPerCycle
    /\ dropped > 0 => remaining = 0

BudgetIInv == BudgetTypeOK /\ Ledger

\* Going on with the next collector or region stays within the types.
LEMMA NextCollectorTypes ==
    ASSUME BudgetTypeOK, NextCollector
    PROVE  /\ stage' \in {"idle", "ask"} /\ at' \in Collectors /\ region' \in Regions
           /\ pending' = 0 /\ missing' = 0
  BY CountAssumption DEF BudgetTypeOK, NextCollector, Collectors, Regions

LEMMA NextRegionTypes ==
    ASSUME BudgetTypeOK, NextRegion
    PROVE  /\ stage' \in {"trim", "done"} /\ at' = at /\ region' \in Regions
           /\ pending' = 0
  BY CountAssumption DEF BudgetTypeOK, NextRegion, Collectors, Regions

\* What a region asks for is a pair of numbers.
LEMMA QueriesTypes ==
    ASSUME BudgetTypeOK
    PROVE  Queries[at][region].listed \in Nat /\ Queries[at][region].unlisted \in Nat
  BY QueriesAssumption DEF BudgetTypeOK

\* What trim keeps fits both the request and the budget.
LEMMA KeptFits ==
    ASSUME NEW q, q.listed \in Nat, remaining \in Nat
    PROVE  /\ Kept(q) \in Nat
           /\ Kept(q) <= q.listed
           /\ Kept(q) <= remaining
           /\ Kept(q) < q.listed => Kept(q) = remaining
  BY DEF Kept, Allowed, Room, Smaller

LEMMA ChunkFits ==
    ASSUME BudgetTypeOK, pending > 0
    PROVE  Chunk \in Nat /\ Chunk <= pending
  BY BudgetAssumption DEF BudgetTypeOK, Chunk, Smaller

\* The initial states satisfy the ledger.
LEMMA BudgetInitIInv == BudgetInit => BudgetIInv
  BY CountAssumption, UnsweptAssumption
  DEF BudgetInit, BudgetIInv, BudgetTypeOK, Ledger, Unused, Holding, Collectors, Regions

\* Every step keeps it.
LEMMA BudgetNextIInv == BudgetIInv /\ [BudgetNext]_budgetVars => BudgetIInv'
<1> SUFFICES ASSUME BudgetIInv, [BudgetNext]_budgetVars PROVE BudgetIInv'
  OBVIOUS
<1> USE DEF BudgetIInv
<1>1. CASE StartCycle
  BY <1>1, BudgetAssumption
  DEF StartCycle, BudgetTypeOK, Ledger, Unused, Holding, Reset, memory
<1>2. CASE NotAllowed \/ ReuseSeries \/ SweepRaises
  <2>1. NextCollector /\ UNCHANGED <<remaining, memory, bill>> /\ stage = "ask"
    BY <1>2 DEF NotAllowed, ReuseSeries, SweepRaises, Asked
  <2>2. BudgetTypeOK'
    BY <2>1, NextCollectorTypes DEF BudgetTypeOK, memory, bill
  <2>3. Ledger'
    BY <2>1, NextCollectorTypes DEF BudgetTypeOK, Ledger, Unused, Holding, bill
  <2> QED BY <2>2, <2>3
<1>3. CASE Sweep
  BY <1>3 DEF Sweep, Asked, BudgetTypeOK, Ledger, Unused, Holding, memory, bill
<1>4. CASE ListingRaises
  <2>1. stage = "trim" /\ NextRegion /\ UNCHANGED <<remaining, memory, bill>>
    BY <1>4 DEF ListingRaises
  <2>2. missing' \in Nat
    BY <1>4, QueriesTypes DEF ListingRaises, BudgetTypeOK
  <2>3. BudgetTypeOK'
    BY <2>1, <2>2, NextRegionTypes DEF BudgetTypeOK, memory, bill
  <2>4. Ledger'
    BY <2>1, NextRegionTypes DEF BudgetTypeOK, Ledger, Unused, Holding, bill
  <2> QED BY <2>3, <2>4
<1>5. CASE Trim
  <2> DEFINE q == Queries[at][region]
  <2>1. q.listed \in Nat /\ remaining \in Nat
    BY QueriesTypes DEF BudgetTypeOK
  <2>2. /\ Kept(q) \in Nat /\ Kept(q) <= q.listed /\ Kept(q) <= remaining
        /\ Kept(q) < q.listed => Kept(q) = remaining
    BY <2>1, KeptFits
  <2> HIDE DEF q
  <2>3. /\ stage = "trim" /\ at \in Budgeted /\ stage' = "send"
        /\ pending' = Kept(q)
        /\ remaining' = remaining - Kept(q)
        /\ missing' = missing + (q.listed - Kept(q))
        /\ dropped' = dropped + (q.listed - Kept(q))
        /\ UNCHANGED <<at, region, memory, sent, aside, wasted>>
    BY <1>5 DEF Trim, Booked, Allowed, q
  <2>4. BudgetTypeOK'
    BY <2>1, <2>2, <2>3 DEF BudgetTypeOK, memory
  <2>5. Ledger'
    BY <2>1, <2>2, <2>3 DEF BudgetTypeOK, Ledger, Unused, Holding
  <2> QED BY <2>4, <2>5
<1>6. CASE NoTrim
  <2>1. pending' \in Nat
    BY <1>6, QueriesTypes DEF NoTrim
  <2> QED BY <1>6, <2>1 DEF NoTrim, BudgetTypeOK, Ledger, Unused, Holding, memory, bill
<1>7. CASE Answered
  <2>1. Chunk \in Nat /\ Chunk <= pending
    BY <1>7, ChunkFits DEF Answered
  <2>2. BudgetTypeOK'
    BY <1>7, <2>1 DEF Answered, Requested, BudgetTypeOK, memory
  <2>3. Ledger'
    BY <1>7, <2>1 DEF Answered, Requested, BudgetTypeOK, Ledger, Unused, Holding
  <2> QED BY <2>2, <2>3
<1>8. CASE Throttled
  <2>1. Chunk \in Nat /\ Chunk <= pending
    BY <1>8, ChunkFits DEF Throttled
  <2>2. stage = "send" /\ NextRegion /\ UNCHANGED <<remaining, memory, dropped>>
    BY <1>8 DEF Throttled
  <2>3. missing' \in Nat
    BY <1>8, QueriesTypes DEF Throttled, BudgetTypeOK
  <2>4. sent' \in Nat /\ aside' \in Nat /\ wasted' \in Nat
    BY <1>8, <2>1 DEF Throttled, Requested, BudgetTypeOK
  <2>5. BudgetTypeOK'
    BY <2>2, <2>3, <2>4, NextRegionTypes DEF BudgetTypeOK, memory
  <2>6. at \in Budgeted => sent' + wasted' = sent + wasted + pending
    BY <1>8, <2>1 DEF Throttled, Requested, BudgetTypeOK
  <2>7. at \notin Budgeted => sent' = sent /\ wasted' = wasted
    BY <1>8 DEF Throttled, Requested
  <2>8. Ledger'
    BY <2>2, <2>4, <2>6, <2>7, NextRegionTypes, BudgetAssumption
    DEF BudgetTypeOK, Ledger, Unused, Holding
  <2> QED BY <2>5, <2>8
<1>9. CASE RegionDone
  <2>1. stage = "send" /\ pending = 0 /\ NextRegion /\ UNCHANGED <<missing, remaining, memory, bill>>
    BY <1>9 DEF RegionDone
  <2> QED BY <2>1, NextRegionTypes DEF BudgetTypeOK, Ledger, Unused, Holding, memory, bill
<1>10. CASE Sweeped
  <2>1. stage = "done" /\ NextCollector /\ UNCHANGED <<remaining, bill>>
    BY <1>10 DEF Sweeped
  <2>2. memo' \in [Collectors -> Nat \cup {Unswept}] /\ stale' \in SUBSET Collectors
    BY <1>10 DEF Sweeped, BudgetTypeOK
  <2>3. BudgetTypeOK'
    BY <2>1, <2>2, NextCollectorTypes DEF BudgetTypeOK, bill
  <2>4. Ledger'
    BY <2>1, NextCollectorTypes DEF BudgetTypeOK, Ledger, Unused, Holding, bill
  <2> QED BY <2>3, <2>4
<1>11. ASSUME NEW c \in Collectors, Expire(c) PROVE BudgetIInv'
  BY <1>11 DEF Expire, BudgetTypeOK, Ledger, Unused, Holding, place, bill
<1>12. CASE UNCHANGED budgetVars
  BY <1>12 DEF budgetVars, place, memory, bill, BudgetTypeOK, Ledger, Unused, Holding
<1> QED
  BY <1>1, <1>2, <1>3, <1>4, <1>5, <1>6, <1>7, <1>8, <1>9, <1>10, <1>11, <1>12 DEF BudgetNext

THEOREM BudgetInductive == BudgetSpec => []BudgetIInv
<1>1. BudgetInit => BudgetIInv
  BY BudgetInitIInv
<1>2. BudgetIInv /\ [BudgetNext]_budgetVars => BudgetIInv'
  BY BudgetNextIInv
<1> QED BY <1>1, <1>2, PTL DEF BudgetSpec

\* The types hold in every reachable state: above all, the budget never goes
\* below zero and no slice of a query list is taken with a negative length.
THEOREM BudgetTypeCorrect == BudgetSpec => []BudgetTypeOK
<1>1. BudgetIInv => BudgetTypeOK
  BY DEF BudgetIInv
<1> QED BY <1>1, BudgetInductive, PTL

\* The ceiling holds for every fleet: MetricsPolicy.trim and reset, over all
\* accounts, regions and chunks, whatever fails.
THEOREM CeilingHolds == BudgetSpec => []CeilingKept
<1>1. BudgetIInv => CeilingKept
  BY BudgetAssumption DEF BudgetIInv, BudgetTypeOK, Ledger, Unused, Holding, CeilingKept
<1> QED BY <1>1, BudgetInductive, PTL

\* A listed metric goes unread only in a cycle that has booked its whole ceiling.
THEOREM NothingDroppedEarly == BudgetSpec => []DroppedOnlyAtTheCeiling
<1>1. BudgetIInv => DroppedOnlyAtTheCeiling
  BY DEF BudgetIInv, BudgetTypeOK, Ledger, Unused, Holding, DroppedOnlyAtTheCeiling
<1> QED BY <1>1, BudgetInductive, PTL

----------------------------------------------------------------------------
(* The cost and usage report.                                               *)

\* A whole report of what x asked for, no folder of it read before `since`.
WholeReport(x, since) ==
    [owner : {x[1]}, seen : [FoldersOf(x[2]) -> {t \in 0 .. MaxTime : since <= t} \cup {Absent}]]

\* What the shared cache holds is the whole window of one of the asks.
CacheInv ==
    cache # None =>
        /\ cache.at \in 0 .. now
        /\ \E x \in Asks : cache.key = CacheKey(x) /\ cache.val \in WholeReport(x, cache.at)

\* What Due holds was at most Refresh old when it was stored.
DueInv ==
    \A x \in Asks :
        due[x] # None =>
            due[x].at \in 0 .. now /\ due[x].val \in WholeReport(x, due[x].at - Refresh)

\* Every folder before the next one has been settled since the read began.
CallInv ==
    call # None =>
        /\ call = [ask |-> call.ask, began |-> call.began, next |-> call.next, seen |-> call.seen]
        /\ call.ask \in Asks
        /\ call.began \in 0 .. now
        /\ call.next \in 1 .. Len(Window[call.ask[2]])
        /\ call.seen \in [FoldersOf(call.ask[2]) ->
                            {t \in 0 .. MaxTime : call.began <= t} \cup {None, Absent}]
        /\ \A i \in 1 .. call.next - 1 : call.seen[Window[call.ask[2]][i]] # None

\* An answer is whole, and an answer that was not read just now is young.
GivenInv ==
    given # None =>
        /\ given.ask \in Asks
        /\ given.how \in {"reused", "cached", "read", "fallback"}
        /\ given.val \in WholeReport(given.ask, 0)
        /\ given.how \in {"reused", "cached"} =>
             \A f \in FoldersOf(given.ask[2]) :
                 given.val.seen[f] \in 0 .. MaxTime =>
                     now - given.val.seen[f] < Ttl[given.ask[2]] + Refresh

Counters == now \in 0 .. MaxTime /\ faults \in 0 .. MaxFaults /\ DOMAIN due = Asks

IInv == Counters /\ CacheInv /\ DueInv /\ CallInv /\ GivenInv

----------------------------------------------------------------------------
(* What an ask and a whole report are.                                      *)

LEMMA AskParts ==
    ASSUME NEW x \in Asks
    PROVE  x[1] \in Accounts /\ x[2] \in Kinds /\ Ttl[x[2]] \in Nat
  BY TimesAssumption DEF Asks

\* A report whose folders are no older than one moment is also no older than an
\* earlier one.
LEMMA SinceEarlier ==
    ASSUME NEW x, NEW s \in Int, NEW t \in Int, s <= t
    PROVE  WholeReport(x, t) \subseteq WholeReport(x, s)
  BY TimesAssumption DEF WholeReport

\* Asks with one cache key read the same window of the same account.
LEMMA OneKeyOneWindow ==
    ASSUME NEW x, NEW y, NEW s, CacheKey(x) = CacheKey(y)
    PROVE  WholeReport(x, s) = WholeReport(y, s)
  BY DEF CacheKey, WholeReport, FoldersOf

\* A whole report is a parsed window.
LEMMA WholeIsParsed ==
    ASSUME NEW x \in Asks, NEW s, NEW v \in WholeReport(x, s)
    PROVE  v \in Parsed
<1> DEFINE F == [FoldersOf(x[2]) -> 0 .. MaxTime \cup {None, Absent}]
<1>1. x[1] \in Accounts /\ x[2] \in Kinds
  BY AskParts
<1>2. v \in [owner : Accounts, seen : F]
  BY <1>1 DEF WholeReport
<1>3. F \subseteq UNION {[FoldersOf(k) -> 0 .. MaxTime \cup {None, Absent}] : k \in Kinds}
  BY <1>1
<1> HIDE DEF F
<1> QED BY <1>2, <1>3 DEF Parsed

----------------------------------------------------------------------------
(* Every step keeps the invariant.                                          *)

LEMMA InitInv == Init => IInv
  BY TimesAssumption
  DEF Init, IInv, Counters, CacheInv, DueInv, CallInv, GivenInv

\* Due hands out what is younger than its own life, and was at most Refresh old.
LEMMA ReuseKeeps ==
    ASSUME IInv, NEW x \in Asks, Reuse(x)
    PROVE  IInv'
<1> USE DEF IInv
<1> DEFINE e == due[x]
<1>1. /\ e.at \in 0 .. now /\ now - e.at < Ttl[x[2]]
      /\ e.val \in WholeReport(x, e.at - Refresh)
  BY DEF Reuse, Fresh, DueInv
<1>2. given' = [ask |-> x, val |-> e.val, how |-> "reused"]
  BY DEF Reuse, Give
<1>3. now \in Nat /\ Refresh \in Nat /\ Ttl[x[2]] \in Nat /\ MaxTime \in Nat
  BY TimesAssumption, AskParts DEF Counters
<1> HIDE DEF e
<1>4. e.val \in WholeReport(x, 0)
  BY <1>1, <1>3 DEF WholeReport
<1>5. ASSUME NEW f \in FoldersOf(x[2]), e.val.seen[f] \in 0 .. MaxTime
      PROVE  now - e.val.seen[f] < Ttl[x[2]] + Refresh
  <2>1. e.val.seen[f] \in {t \in 0 .. MaxTime : e.at - Refresh <= t} \cup {Absent}
    BY <1>1 DEF WholeReport
  <2>2. e.val.seen[f] # Absent
    BY <1>5, NoneAssumption
  <2> QED BY <1>1, <1>3, <2>1, <2>2
<1>6. GivenInv'
  BY <1>2, <1>4, <1>5 DEF GivenInv, Reuse, WholeReport
<1> QED BY <1>6 DEF Reuse, Counters, CacheInv, DueInv, CallInv

\* A hit is younger than Refresh, and its folders no older than its stamp.
LEMMA CachedKeeps ==
    ASSUME IInv, NEW x \in Asks, AnswerFromCache(x)
    PROVE  IInv'
<1> USE DEF IInv
<1> DEFINE v == cache.val
<1>1. /\ cache.at \in 0 .. now /\ now - cache.at < Refresh
      /\ v \in WholeReport(x, cache.at)
  BY OneKeyOneWindow DEF AnswerFromCache, Hit, CacheInv
<1>2. /\ given' = [ask |-> x, val |-> v, how |-> "cached"]
      /\ due' = [due EXCEPT ![x] = [at |-> now, val |-> v]]
      /\ UNCHANGED <<now, cache, call, faults>>
  BY DEF AnswerFromCache, Give
<1>3. now \in Nat /\ Refresh \in Nat /\ Ttl[x[2]] \in Nat /\ MaxTime \in Nat
  BY TimesAssumption, AskParts DEF Counters
<1> HIDE DEF v
<1>4. v \in WholeReport(x, 0) /\ v \in WholeReport(x, now - Refresh)
  BY <1>1, <1>3, SinceEarlier
<1>5. ASSUME NEW f \in FoldersOf(x[2]), v.seen[f] \in 0 .. MaxTime
      PROVE  now - v.seen[f] < Ttl[x[2]] + Refresh
  <2>1. v.seen[f] \in {t \in 0 .. MaxTime : cache.at <= t} \cup {Absent}
    BY <1>1 DEF WholeReport
  <2>2. v.seen[f] # Absent
    BY <1>5, NoneAssumption
  <2> QED BY <1>1, <1>3, <2>1, <2>2
<1>6. GivenInv'
  BY <1>2, <1>4, <1>5 DEF GivenInv, WholeReport
<1>7. DueInv' /\ Counters'
  BY <1>2, <1>3, <1>4 DEF DueInv, Counters, WholeReport
<1>8. CacheInv' /\ CallInv'
  BY <1>2 DEF CacheInv, CallInv, WholeReport
<1> QED BY <1>6, <1>7, <1>8

LEMMA StartKeeps ==
    ASSUME IInv, NEW x \in Asks, StartRead(x)
    PROVE  IInv'
<1> USE DEF IInv
<1>1. /\ call' = [ask |-> x, began |-> now, next |-> 1,
                  seen |-> [f \in FoldersOf(x[2]) |-> None]]
      /\ UNCHANGED <<now, cache, due, given, faults>>
  BY DEF StartRead
<1>2. Len(Window[x[2]]) \in Nat \ {0}
  BY AskParts, WindowAssumption
<1>3. CallInv'
  BY <1>1, <1>2 DEF CallInv, Counters
<1>4. Counters' /\ CacheInv' /\ DueInv' /\ GivenInv'
  BY <1>1 DEF Counters, CacheInv, DueInv, GivenInv, WholeReport
<1> QED BY <1>3, <1>4

\* Once a folder is settled the window is one folder further, and the last
\* folder makes it whole, under the stamp the read began with.
LEMMA FolderKeeps ==
    ASSUME IInv, call # None, NEW v \in {now, Absent},
           FolderDone([call.seen EXCEPT ![Here] = v]),
           now' = now, faults' \in 0 .. MaxFaults
    PROVE  IInv'
<1> USE DEF IInv
<1> DEFINE x == call.ask
           W == Window[x[2]]
           Times == {t \in 0 .. MaxTime : call.began <= t}
           seen == [call.seen EXCEPT ![Here] = v]
<1>1. /\ x \in Asks /\ call.began \in 0 .. now
      /\ call.next \in 1 .. Len(W) /\ now \in 0 .. MaxTime
      /\ call.seen \in [FoldersOf(x[2]) -> Times \cup {None, Absent}]
      /\ \A i \in 1 .. call.next - 1 : call.seen[W[i]] # None
  BY DEF CallInv, Counters
<1>2. DOMAIN W = 1 .. Len(W) /\ Len(W) \in Nat /\ MaxTime \in Nat /\ Refresh \in Nat
  BY <1>1, AskParts, WindowAssumption, TimesAssumption
<1>3. v \in Times \cup {Absent} /\ v # None
  <2>1. now \in Times
    BY <1>1, <1>2
  <2> HIDE DEF Times
  <2>2. v \in Times \cup {Absent}
    BY <2>1
  <2> QED BY <1>1, <2>2, NoneAssumption
<1>4. seen \in [FoldersOf(x[2]) -> Times \cup {None, Absent}]
  BY <1>1, <1>3
<1>5. \A i \in 1 .. call.next : seen[W[i]] # None
  <2> TAKE i \in 1 .. call.next
  <2>1. W[i] \in FoldersOf(x[2])
    BY <1>1, <1>2 DEF FoldersOf
  <2>2. seen[W[i]] = IF W[i] = W[call.next] THEN v ELSE call.seen[W[i]]
    <3>1. Here = W[call.next] /\ DOMAIN call.seen = FoldersOf(x[2])
      BY <1>1 DEF Here
    <3> HIDE DEF W
    <3> QED BY <2>1, <3>1
  <2>3. i # call.next => i \in 1 .. call.next - 1
    BY <1>1, <1>2
  <2> QED BY <1>1, <1>3, <2>2, <2>3
<1>6. Counters' /\ GivenInv' /\ CacheInv' /\ DueInv' /\ CallInv'
  <2>1. CASE call.next < Len(W)
    <3>1. /\ call' = [ask |-> x, began |-> call.began, next |-> call.next + 1, seen |-> seen]
          /\ UNCHANGED <<cache, due, given>>
      BY <2>1 DEF FolderDone, CallInv
    <3> HIDE DEF seen
    <3>2. CallInv'
      BY <1>1, <1>2, <1>4, <1>5, <2>1, <3>1 DEF CallInv
    <3>3. Counters' /\ GivenInv' /\ CacheInv' /\ DueInv'
      BY <3>1 DEF Counters, GivenInv, CacheInv, DueInv, WholeReport
    <3> QED BY <3>2, <3>3
  <2>2. CASE ~(call.next < Len(W))
    <3> DEFINE val == [owner |-> x[1], seen |-> seen]
    <3>1. /\ cache' = [key |-> CacheKey(x), at |-> call.began, val |-> val]
          /\ due' = [due EXCEPT ![x] = [at |-> call.began, val |-> val]]
          /\ given' = [ask |-> x, val |-> val, how |-> "read"]
          /\ call' = None
      BY <2>2 DEF FolderDone, Give, CacheStamp
    <3> HIDE DEF seen
    <3>2. \A f \in FoldersOf(x[2]) : seen[f] # None
      <4>1. call.next = Len(W)
        BY <1>1, <1>2, <2>2
      <4>2. \A i \in 1 .. Len(W) : seen[W[i]] # None
        BY <1>5, <4>1
      <4> QED BY <1>2, <4>2 DEF FoldersOf
    <3>3. val \in WholeReport(x, call.began)
      BY <1>4, <3>2 DEF WholeReport
    <3>4. val \in WholeReport(x, 0) /\ val \in WholeReport(x, call.began - Refresh)
      BY <1>1, <1>2, <3>3, SinceEarlier
    <3> HIDE DEF val
    <3>5. CacheInv'
      BY <1>1, <3>1, <3>3 DEF CacheInv, WholeReport, CacheKey
    <3>6. DueInv' /\ Counters'
      BY <1>1, <3>1, <3>4 DEF DueInv, Counters, WholeReport
    <3>7. GivenInv' /\ CallInv'
      BY <1>1, <3>1, <3>4 DEF GivenInv, CallInv, WholeReport
    <3> QED BY <3>5, <3>6, <3>7
  <2> QED BY <2>1, <2>2
<1> QED BY <1>6

\* A read that raises leaves both caches alone, and what it falls back to is
\* old but whole.
LEMMA RaiseKeeps == IInv /\ ReadRaises => IInv'
<1> SUFFICES ASSUME IInv, ReadRaises PROVE IInv'
  OBVIOUS
<1> USE DEF IInv
<1>1. /\ call # None /\ call' = None
      /\ UNCHANGED <<now, cache, due>>
      /\ faults' \in 0 .. MaxFaults
  BY TimesAssumption DEF ReadRaises, CacheAfterRaise, Counters
<1>2. Counters' /\ CacheInv' /\ DueInv' /\ CallInv'
  BY <1>1 DEF Counters, CacheInv, DueInv, CallInv, WholeReport
<1>3. GivenInv'
  <2>1. CASE due[call.ask] = None
    BY <2>1 DEF ReadRaises, GivenInv
  <2>2. CASE due[call.ask] # None
    <3> DEFINE x == call.ask
    <3>1. x \in Asks /\ due[x].val \in WholeReport(x, due[x].at - Refresh)
      BY <1>1, <2>2 DEF CallInv, DueInv
    <3>2. due[x].val \in WholeReport(x, 0)
      BY <3>1, TimesAssumption DEF WholeReport
    <3>3. given' = [ask |-> x, val |-> due[x].val, how |-> "fallback"]
      BY <2>2 DEF ReadRaises, Give
    <3> QED BY <3>1, <3>2, <3>3 DEF GivenInv, WholeReport
  <2> QED BY <2>1, <2>2
<1> QED BY <1>2, <1>3

LEMMA NextInv == IInv /\ [Next]_vars => IInv'
<1> SUFFICES ASSUME IInv, [Next]_vars PROVE IInv'
  OBVIOUS
<1>1. CASE \E x \in Asks : Reuse(x) \/ AnswerFromCache(x) \/ StartRead(x)
  BY <1>1, ReuseKeeps, CachedKeeps, StartKeeps
<1>2. CASE ReadFolder
  BY <1>2, FolderKeeps DEF ReadFolder, IInv, Counters
<1>3. CASE FolderAbsent
  <2>1. faults' \in 0 .. MaxFaults
    BY <1>3, TimesAssumption DEF FolderAbsent, IInv, Counters
  <2> QED BY <1>3, <2>1, FolderKeeps DEF FolderAbsent
<1>4. CASE ReadRaises
  BY <1>4, RaiseKeeps
<1>5. CASE Tick
  <2>1. Counters' /\ CacheInv' /\ DueInv' /\ CallInv' /\ GivenInv'
    BY <1>5, TimesAssumption
    DEF Tick, IInv, Counters, CacheInv, DueInv, CallInv, GivenInv, WholeReport
  <2> QED BY <2>1 DEF IInv
<1>6. CASE UNCHANGED vars
  BY <1>6 DEF vars, IInv, Counters, CacheInv, DueInv, CallInv, GivenInv, WholeReport
<1> QED BY <1>1, <1>2, <1>3, <1>4, <1>5, <1>6 DEF Next

\* The invariant gives what the runs check.
LEMMA InvGives == IInv => OwnWholeWindow /\ DelayBounded
<1> SUFFICES ASSUME IInv PROVE OwnWholeWindow /\ DelayBounded
  OBVIOUS
<1> USE DEF IInv
<1>1. TypeOK
  BY WholeIsParsed DEF Counters, CacheInv, DueInv, CallInv, GivenInv, TypeOK
<1>2. OwnWindow
  BY DEF GivenInv, OwnWindow, WholeReport
<1>3. WholeWindow
  BY NoneAssumption DEF GivenInv, WholeWindow, WholeReport
<1>4. DelayBounded
  BY DEF GivenInv, DelayBounded, WholeReport
<1> QED BY <1>1, <1>2, <1>3, <1>4 DEF OwnWholeWindow

LEMMA Invariant == Spec => []IInv
  BY InitInv, NextInv, PTL DEF Spec

\* Whatever fills the one entry of the report cache, and whichever read fails
\* half way, an account is told of its own report, of exactly the months asked
\* for and of all of them: _spend of cur.py.
THEOREM OwnWindowAnswered == Spec => []OwnWholeWindow
  BY Invariant, InvGives, PTL

\* The report cache under the Due memo adds its life to Due's and no more,
\* counted from the moment each folder was read: both stamp before they read.
THEOREM DelayIsBounded == Spec => []DelayBounded
  BY Invariant, InvGives, PTL
=============================================================================
