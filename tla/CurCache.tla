------------------------------ MODULE CurCache -------------------------------
(***************************************************************************)
(* Spend out of the Cost and Usage Report: _spend of                       *)
(* clont/finops/aws/cur.py with its module-wide cache, called by the two   *)
(* halves of CURCostCollector under the runner's Due memo.                 *)
(*                                                                         *)
(* A parsed report is abstracted to when each of its folders was read,     *)
(* which is what both caches are about.  Reading takes time: a window is   *)
(* read one folder after the other, and the clock may move in between.     *)
(***************************************************************************)
EXTENDS Integers, Sequences, FiniteSets

CONSTANTS
    Accounts,  \* providers with a cur block, each with a report of its own
    Kinds,     \* the halves of the collector: "collect", "recommendations"
    Window,    \* kind -> the folders its period touches, oldest first
    Refresh,   \* cur.refresh_minutes
    Ttl,       \* collect_every_seconds, recommend_interval_seconds
    None,
    Absent,    \* a folder whose manifest AWS has not delivered
    MaxTime,   \* bound on the clock
    MaxFaults  \* bound on failed and absent folders

ASSUME TimesAssumption ==
    Refresh \in Nat /\ Ttl \in [Kinds -> Nat] /\ MaxTime \in Nat /\ MaxFaults \in Nat

\* periods(): a window has at least the month it ends in.
ASSUME WindowAssumption ==
    \A k \in Kinds : Len(Window[k]) \in Nat \ {0} /\ DOMAIN Window[k] = 1 .. Len(Window[k])

ASSUME NoneAssumption == None \notin Nat /\ Absent \notin Nat /\ None # Absent

Asks == Accounts \X Kinds
FoldersOf(k) == {Window[k][i] : i \in DOMAIN Window[k]}

VARIABLES
    now,     \* time.monotonic(), for both caches
    cache,   \* cur._cache: the one entry it ever holds, or None
    due,     \* Due._entries of the two halves of every account
    call,    \* the _spend call in progress, or None
    given,   \* the answer given at this moment, or None
    faults   \* failed and absent folders so far

vars == <<now, cache, due, call, given, faults>>

\* A parsed window: whose it is, and when each folder was read.
Parsed ==
    [owner : Accounts,
     seen : UNION {[FoldersOf(k) -> 0 .. MaxTime \cup {None, Absent}] : k \in Kinds}]

TypeOK ==
    /\ now \in 0 .. MaxTime
    /\ cache # None => cache.at \in 0 .. now /\ cache.val \in Parsed
    /\ \A x \in Asks : due[x] # None => due[x].at \in 0 .. now /\ due[x].val \in Parsed
    /\ call # None => call.ask \in Asks /\ call.next \in 1 .. Len(Window[call.ask[2]])
    /\ given # None => given.ask \in Asks /\ given.how \in {"reused", "cached", "read", "fallback"}
    /\ faults \in 0 .. MaxFaults

----------------------------------------------------------------------------
(* Faulty variants of the definitions below.                                *)

\* A cache entry that is stamped when it is stored.
StampedWhenStored == now

\* A failed read that is stored as far as it went.
CacheAfterRaisePartial ==
    [key |-> <<call.ask[1], Window[call.ask[2]]>>, at |-> call.began,
     val |-> [owner |-> call.ask[1], seen |-> call.seen]]

----------------------------------------------------------------------------
Init ==
    /\ now = 0
    /\ cache = None
    /\ due = [x \in Asks |-> None]
    /\ call = None
    /\ given = None
    /\ faults = 0

\* The cache key: the account's alias, and the folders of the window.
CacheKey(x) == <<x[1], Window[x[2]]>>

\* The stamp of a stored report: `now`, taken before it was read.
CacheStamp == call.began

Hit(x) == cache # None /\ cache.key = CacheKey(x) /\ now - cache.at < Refresh

Fresh(x) == due[x] # None /\ now - due[x].at < Ttl[x[2]]

Give(x, val, how) == given' = [ask |-> x, val |-> val, how |-> how]

\* Due hands out what it has.
Reuse(x) ==
    /\ call = None
    /\ Fresh(x)
    /\ Give(x, due[x].val, "reused")
    /\ UNCHANGED <<now, cache, due, call, faults>>

\* Due calls the collector, and _spend finds the window in its cache.
AnswerFromCache(x) ==
    /\ call = None
    /\ ~Fresh(x) /\ Hit(x)
    /\ due' = [due EXCEPT ![x] = [at |-> now, val |-> cache.val]]
    /\ Give(x, cache.val, "cached")
    /\ UNCHANGED <<now, cache, call, faults>>

\* _spend starts to read the window.
StartRead(x) ==
    /\ call = None
    /\ ~Fresh(x) /\ ~Hit(x)
    /\ call' = [ask |-> x, began |-> now, next |-> 1, seen |-> [f \in FoldersOf(x[2]) |-> None]]
    /\ UNCHANGED <<now, cache, due, given, faults>>

\* One more folder is done; after the last one the cache is cleared, the window
\* becomes its only entry, and Due keeps the result under its own stamp.
FolderDone(seen) ==
    LET x == call.ask
        val == [owner |-> x[1], seen |-> seen]
    IN IF call.next < Len(Window[x[2]])
       THEN /\ call' = [call EXCEPT !.next = @ + 1, !.seen = seen]
            /\ UNCHANGED <<cache, due, given>>
       ELSE /\ cache' = [key |-> CacheKey(x), at |-> CacheStamp, val |-> val]
            /\ due' = [due EXCEPT ![x] = [at |-> call.began, val |-> val]]
            /\ Give(x, val, "read")
            /\ call' = None

Here == Window[call.ask[2]][call.next]

\* The manifest names the folder's data files, and they are folded in.
ReadFolder ==
    /\ call # None
    /\ FolderDone([call.seen EXCEPT ![Here] = now])
    /\ UNCHANGED <<now, faults>>

\* AWS has not delivered the manifest yet: "skipped, not an error".
FolderAbsent ==
    /\ call # None
    /\ faults < MaxFaults
    /\ faults' = faults + 1
    /\ FolderDone([call.seen EXCEPT ![Here] = Absent])
    /\ UNCHANGED now

\* Denied, throttled or not gzip csv: nothing is cached, and the runner falls
\* back to what Due has.
CacheAfterRaise == cache

ReadRaises ==
    /\ call # None
    /\ faults < MaxFaults
    /\ faults' = faults + 1
    /\ cache' = CacheAfterRaise
    /\ LET x == call.ask IN
         IF due[x] = None THEN given' = None ELSE Give(x, due[x].val, "fallback")
    /\ call' = None
    /\ UNCHANGED <<now, due>>

Tick ==
    /\ now < MaxTime
    /\ now' = now + 1
    /\ given' = None
    /\ UNCHANGED <<cache, due, call, faults>>

Next ==
    \/ \E x \in Asks : Reuse(x) \/ AnswerFromCache(x) \/ StartRead(x)
    \/ ReadFolder \/ FolderAbsent \/ ReadRaises \/ Tick

Spec == Init /\ [][Next]_vars

----------------------------------------------------------------------------
(* What the two caches promise together.                                    *)

\* What an account is billed comes from its own report and from exactly the
\* months it asked for, whichever account or half of the collector filled the
\* shared cache last.
OwnWindow ==
    given # None =>
        /\ given.val.owner = given.ask[1]
        /\ DOMAIN given.val.seen = FoldersOf(given.ask[2])

\* Two caches on top of each other delay spend by no more than the sum of their
\* lives, counted from the moment the folder was read and not from the moment
\* either of them stored it.
DelayBounded ==
    given # None /\ given.how \in {"reused", "cached"} =>
        \A f \in DOMAIN given.val.seen :
            given.val.seen[f] \in 0 .. MaxTime =>
                now - given.val.seen[f] < Ttl[given.ask[2]] + Refresh

\* A window that was read half way before a folder failed is never taken for the
\* spend of the window: every month of it was read, or found absent.
WholeWindow ==
    given # None => \A f \in DOMAIN given.val.seen : given.val.seen[f] # None

\* The two together: what is answered is the account's own window, all of it.
OwnWholeWindow == TypeOK /\ OwnWindow /\ WholeWindow
=============================================================================
