-------------------------------- MODULE Cycle --------------------------------
(***************************************************************************)
(* One cycle of the agent: Agent.run_cycle and _collect_batch of           *)
(* clont/agent/runner.py, for ever repeated by run_forever.                *)
(*                                                                         *)
(* A cycle asks every collector of every provider in turn, feeds what it   *)
(* gets to the detectors, splits the spend by namespace last, ships the    *)
(* batch to the server and hands local and returned events to dispatch.    *)
(*                                                                         *)
(* The world stands still: every part (a region of a regional collector,   *)
(* the one part of a global one) always has the same findings.  What       *)
(* varies is which calls answer, so whatever is missing from a batch is    *)
(* missing because a call failed.  A call takes no time here; the module   *)
(* Cadence says what the ttl of the memo is worth.                         *)
(***************************************************************************)
EXTENDS Integers, FiniteSets, Lists

CONSTANTS
    Providers,    \* Agent._providers: sequence of [finops, monitoring]
    Clusters,     \* Agent._k8s_sources: sequence of collectors
    Parts,        \* collector and kind -> the sequence of parts it reads
    Found,        \* part -> the findings its detectors report, as events
    Regional,     \* collectors that read region by region (for_each_region)
    Poison,       \* the mark of data that makes a detector raise
    Poisonable,   \* the tasks whose data may carry it
    Flaky,        \* collectors whose calls may fail
    MemoKinds,    \* what Due covers: costs, recs, and metrics if they have an interval
    Replies,      \* the event lists the server may return, {} when no uplink
    None,
    MaxPoison     \* bound on how often poisoned data is read

\* What the agent holds, what a call returns and what a detector reports are lists.
ASSUME ListsAssumption ==
    /\ IsList(Providers) /\ IsList(Clusters)
    /\ \A p \in ToSet(Providers) : IsList(p.finops) /\ IsList(p.monitoring)
    /\ \A t \in DOMAIN Parts : Parts[t] \in Seq(DOMAIN Found)
    /\ \A p \in DOMAIN Found : IsList(Found[p])
    /\ \A reply \in Replies : IsList(reply)
ASSUME RegionalAssumption == Regional \subseteq DOMAIN Parts
ASSUME PoisonAssumption == Poison \notin DOMAIN Found /\ Poisonable \subseteq DOMAIN Parts
ASSUME MemoKindsAssumption == {"costs", "recs"} \subseteq MemoKinds /\ MemoKinds \subseteq {"costs", "recs", "metrics"}
ASSUME MaxPoisonAssumption == MaxPoison \in Nat

VARIABLES
    memo,     \* Due._entries: task -> the parts last read, or None
    stale,    \* the tasks whose entry has outlived its ttl
    stage,    \* idle, collect, ship, dispatch
    todo,     \* the tasks of this cycle still to come
    batch,    \* the Batch under construction, and the reports kept for the split
    poisoned  \* how often poisoned data was read so far

vars == <<memo, stale, stage, todo, batch, poisoned>>

Task(c, kind) == [of |-> c, kind |-> kind]

\* _finops_collect: spend and then recommendations of every collector.
FinopsTasks(cs) ==
    FlattenSeq([i \in DOMAIN cs |-> <<Task(cs[i], "costs"), Task(cs[i], "recs")>>])

\* _monitoring_collect: health and then metrics of every collector.
MonitoringTasks(cs) ==
    FlattenSeq([i \in DOMAIN cs |-> <<Task(cs[i], "health"), Task(cs[i], "metrics")>>])

\* _k8s_showback: the split and then the findings of every cluster.
ClusterTasks ==
    FlattenSeq([i \in DOMAIN Clusters |->
                  <<Task(Clusters[i], "namespaces"), Task(Clusters[i], "claims")>>])

ProviderTasks ==
    FlattenSeq([i \in DOMAIN Providers |->
                  FinopsTasks(Providers[i].finops) \o MonitoringTasks(Providers[i].monitoring)])

\* The order of a cycle, the clusters last; a collector without a kind of data has
\* no task for it.
Tasks == DOMAIN Parts
Plan == Those(ProviderTasks, Tasks) \o Those(ClusterTasks, Tasks)

\* A collector is one object of one provider, and the providers differ by name (see
\* Bootstrap): no two tasks share a key of the memo.
ASSUME PlanAssumption == ToSet(Plan) = Tasks /\ IsInjective(Plan)

Memoised == {t \in Tasks : t.kind \in MemoKinds}
Only(t, got) == Those(Parts[t], got)

\* What a call may leave behind: some of the parts it reads, and perhaps the poison.
GoodValues(t) == Seq(ToSet(Parts[t]))
Values(t) == Seq(ToSet(Parts[t]) \cup {Poison})
ASSUME NoneAssumption == \A t \in Tasks : None \notin Values(t)

Poisoned(value) == Contains(value, Poison)
FindingsOf(value) == FlattenSeq([i \in DOMAIN value |-> Found[value[i]]])

EmptyBatch ==
    [values |-> [t \in Tasks |-> None], recs |-> <<>>, errors |-> {},
     events |-> <<>>, reports |-> <<>>, split |-> {}]

TypeOK ==
    /\ DOMAIN memo = Memoised
    /\ \A t \in Memoised : memo[t] \in Values(t) \cup {None}
    /\ stale \in SUBSET Memoised
    /\ stage \in {"idle", "collect", "ship", "dispatch"}
    /\ ToSet(todo) \subseteq Tasks
    /\ DOMAIN batch.values = Tasks
    /\ \A t \in Tasks : batch.values[t] \in GoodValues(t) \cup {None}
    /\ batch.errors \in SUBSET Tasks
    /\ batch.split \in SUBSET Tasks
    /\ poisoned \in 0 .. MaxPoison

----------------------------------------------------------------------------
(* Faulty variants of the definitions below.                                *)

\* A failing call that answers with nothing, although the memo has a value.
FallbackToNothing(t) == None

\* Each list kept free of duplicates, but not compared with the lists before it.
DedupeAlone(recs, seenIn) ==
    LET out[i \in 0 .. Len(recs)] ==
          IF i = 0 THEN <<>>
          ELSE IF Contains(out[i - 1], recs[i]) THEN out[i - 1]
          ELSE Append(out[i - 1], recs[i])
    IN out[Len(recs)]

\* A failed upload that loses the cycle's events with it.
EventsAfterUplinkErrorLost(local) == <<>>

----------------------------------------------------------------------------
(* Due, as the cycle sees it.                                               *)

Fresh(t) == memo[t] # None /\ t \notin stale
LastValue(t) == IF t \in Memoised THEN memo[t] ELSE None

\* What the except branches fall back to: Due.last, or nothing.
Fallback(t) == LastValue(t)

\* _record_error
ErrorsWith(t) == batch.errors \cup {t}

\* What a call may return: every part, except that a regional collector skips
\* the regions that raise and returns the others as if there were no more.  Now
\* and then the data is such that a detector raises on it.
Answers(t) ==
    LET good == IF t \in Regional /\ t.of \in Flaky
                THEN {Only(t, got) : got \in SUBSET ToSet(Parts[t])} ELSE {Parts[t]}
    IN IF t \in Poisonable /\ poisoned < MaxPoison
       THEN good \cup {Append(v, Poison) : v \in good} ELSE good

----------------------------------------------------------------------------
(* The batch.                                                               *)

\* _dedupe: drop what an earlier collector of this cycle has reported.
Dedupe(recs, seenIn) ==
    LET out[i \in 0 .. Len(recs)] ==
          IF i = 0 THEN <<>>
          ELSE IF Contains(seenIn, recs[i]) \/ Contains(out[i - 1], recs[i]) THEN out[i - 1]
          ELSE Append(out[i - 1], recs[i])
    IN out[Len(recs)]

Absorb(b, t, value) ==
    LET found == FindingsOf(value)
        kept == Dedupe(found, b.recs)
        known == [b EXCEPT !.values[t] = value]
    IN CASE t.kind \in {"recs", "claims"} ->
              [known EXCEPT !.recs = @ \o kept, !.events = @ \o kept]
         [] t.kind = "namespaces" ->
              [known EXCEPT !.reports = @ \o found,
                            !.split = {u \in Tasks : u.kind = "costs" /\ b.values[u] # None}]
         [] OTHER -> [known EXCEPT !.events = @ \o found]

\* The namespace reports are detected on when every cluster has had its turn.
Flushed(b) == [b EXCEPT !.events = @ \o b.reports]

\* After the task: on to the next, or to the server with the flushed batch.
GoOn(b) ==
    /\ todo' = Tail(todo)
    /\ stage' = IF Tail(todo) = <<>> THEN "ship" ELSE "collect"
    /\ batch' = IF Tail(todo) = <<>> THEN Flushed(b) ELSE b

\* A detector raises outside every try: the cycle ends here, and run_forever
\* logs it and sleeps.  The memo keeps the value that did it.
StageAfterAbort == "idle"

Abort ==
    /\ todo' = <<>>
    /\ stage' = StageAfterAbort
    /\ batch' = EmptyBatch

Detect(t, value) ==
    IF Poisoned(value) THEN Abort ELSE GoOn(Absorb(batch, t, value))

----------------------------------------------------------------------------
Init ==
    /\ memo = [t \in Memoised |-> None]
    /\ stale = {}
    /\ stage = "idle"
    /\ todo = <<>>
    /\ batch = EmptyBatch
    /\ poisoned = 0

\* run_cycle begins: a new Batch, nothing done yet.
StartCycle ==
    /\ stage = "idle"
    /\ todo' = Plan
    /\ stage' = IF Plan = <<>> THEN "ship" ELSE "collect"
    /\ batch' = EmptyBatch
    /\ UNCHANGED <<memo, stale, poisoned>>

\* A fresh entry is handed out again.
Reuse ==
    /\ stage = "collect"
    /\ LET t == Head(todo) IN
         /\ t \in Memoised /\ Fresh(t)
         /\ Detect(t, memo[t])
    /\ UNCHANGED <<memo, stale, poisoned>>

\* The collector is called and answers.
Answer ==
    /\ stage = "collect"
    /\ LET t == Head(todo) IN
         /\ t \in Memoised => ~Fresh(t)
         /\ \E value \in Answers(t) :
              /\ poisoned' = IF Poisoned(value) THEN poisoned + 1 ELSE poisoned
              /\ memo' = IF t \in Memoised THEN [memo EXCEPT ![t] = value] ELSE memo
              /\ stale' = stale \ {t}
              /\ Detect(t, value)

\* The collector is called and raises: the error is kept on the batch, and the
\* last good value, if there is one, is used in its place.
Fail ==
    /\ stage = "collect"
    /\ LET t == Head(todo)
           failed == [batch EXCEPT !.errors = ErrorsWith(t)]
       IN /\ t.of \in Flaky
          /\ t \in Memoised => ~Fresh(t)
          /\ IF Fallback(t) = None THEN GoOn(failed)
             ELSE IF Poisoned(Fallback(t)) THEN Abort
             ELSE GoOn(Absorb(failed, t, Fallback(t)))
    /\ UNCHANGED <<memo, stale, poisoned>>

\* The events the cycle goes on with after a reply, and after a failed upload.
WithReply(local, reply) == local \o reply
AfterUplinkError(local) == local

\* ApiUplink.ship returns the server's events, or there is no uplink.
Ship ==
    /\ stage = "ship"
    /\ \E reply \in Replies \cup {<<>>} :
         batch' = [batch EXCEPT !.events = WithReply(@, reply)]
    /\ stage' = "dispatch"
    /\ UNCHANGED <<memo, stale, todo, poisoned>>

\* The upload fails: logged, and the local events go on alone.
ShipFails ==
    /\ stage = "ship"
    /\ Replies # {}
    /\ batch' = [batch EXCEPT !.events = AfterUplinkError(@)]
    /\ stage' = "dispatch"
    /\ UNCHANGED <<memo, stale, todo, poisoned>>

\* dispatch has had batch.events; run_once drops the batch and the loop sleeps.
HandOver ==
    /\ stage = "dispatch"
    /\ stage' = "idle"
    /\ batch' = EmptyBatch
    /\ UNCHANGED <<memo, stale, todo, poisoned>>

\* The ttl of an entry runs out.  A cycle asks for each task once, so whether
\* that happens during a cycle or between two makes no difference.
Expire(t) ==
    /\ stage = "idle"
    /\ memo[t] # None /\ t \notin stale
    /\ stale' = stale \cup {t}
    /\ UNCHANGED <<memo, stage, todo, batch, poisoned>>

Next ==
    \/ StartCycle \/ Reuse \/ Answer \/ Fail \/ Ship \/ ShipFails \/ HandOver
    \/ \E t \in Memoised : Expire(t)

Spec == Init /\ [][Next]_vars

\* The loop never stops, and time passes between its cycles: no entry can outlive
\* its ttl through infinitely many of them.
Loop == StartCycle \/ Reuse \/ Answer \/ Fail \/ Ship \/ ShipFails \/ HandOver

FairSpec == Spec /\ WF_vars(Loop) /\ \A t \in Memoised : SF_vars(Expire(t))

----------------------------------------------------------------------------
(* What a cycle promises.                                                   *)

Collected == stage \in {"ship", "dispatch"}

\* No task of a cycle disappears: when everything has been collected, each one
\* has left a value, or its failure is on the batch for the summary to report.
EveryTaskAccounted ==
    Collected => \A t \in Tasks : batch.values[t] # None \/ t \in batch.errors

\* A cycle never goes without spend, recommendations or metrics the process
\* already has: its batch holds exactly what the memo holds, whichever of the
\* calls of this cycle failed ("reuse, not skip").
BatchHoldsTheMemo ==
    Collected => \A t \in Memoised : batch.values[t] = memo[t]

\* A finding two collectors agree on is reported once, and one that any of them
\* made is reported: deduplication neither lets through nor loses anything,
\* whichever mix of memoised and new results the cycle worked on.
FindingsReportedOnce ==
    Collected =>
        /\ Cardinality(ToSet(batch.recs)) = Len(batch.recs)
        /\ ToSet(batch.recs) =
              UNION {ToSet(FindingsOf(batch.values[t])) :
                       t \in {u \in Tasks : u.kind \in {"recs", "claims"}
                                            /\ batch.values[u] # None}}

\* Every cluster's split divides the spend of all the providers, not only of
\* those that happened to collect before it ("last on purpose").
SplitSeesAllSpend ==
    Collected =>
        \A t \in Tasks : t.kind = "namespaces" /\ batch.values[t] # None =>
            batch.split = {u \in Tasks : u.kind = "costs" /\ batch.values[u] # None}

\* Together: whatever fails in a cycle, its batch has all there is to report.
BatchIsWhole == TypeOK /\ EveryTaskAccounted /\ BatchHoldsTheMemo /\ SplitSeesAllSpend

LocalEvents(b) ==
    UNION {ToSet(FindingsOf(b.values[t])) : t \in {u \in Tasks : b.values[u] # None}}

\* The server can add events but neither remove a local one nor come before it,
\* which would let its version of a condition use up the channels' throttle.
LocalEventsComeFirst ==
    stage = "dispatch" =>
        \E n \in 0 .. Len(batch.events) :
            /\ ToSet(SubSeq(batch.events, 1, n)) = LocalEvents(batch)
            /\ SubSeq(batch.events, n + 1, Len(batch.events)) \in Replies \cup {<<>>}

\* The two together: what was found is told once, by the agent before the server.
FoundAndToldOnce == FindingsReportedOnce /\ LocalEventsComeFirst

\* What a collector with working calls finds goes out again and again, however
\* often other collectors, detectors or the server fail: one condition only, that
\* no data a detector raises on stays in the memo for ever because the calls that
\* would replace it fail for ever.  (Then every cycle ends in Abort.)
PoisonPasses == \A t \in Memoised : []<>(memo[t] # None => ~Poisoned(memo[t]))

HealthyFindingsGoOut ==
    PoisonPasses =>
        \A t \in Tasks : t.of \notin Flaky =>
            \A p \in ToSet(Parts[t]) : \A e \in ToSet(Found[p]) :
                []<>(stage = "dispatch" /\ Contains(batch.events, e))
=============================================================================
