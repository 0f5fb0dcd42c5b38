----------------------------- MODULE SavingsPass -----------------------------
(***************************************************************************)
(* The advice about one aws account, a collector at a time: each asks for  *)
(* its listings region by region (for_each_region of                       *)
(* clont/providers/aws/regions.py), the account changes between any two    *)
(* calls, a call fails and its region is left out, and the three           *)
(* collectors of commitments share one inventory for a while.  The         *)
(* warnings of the expiry calendar go on to a channel that sends each key  *)
(* once.  A pass is shorter than a tick of the clock.                      *)
(***************************************************************************)
EXTENDS Leftovers

CONSTANTS
    Gone,          \* the state of what has been deleted
    Regions,       \* provider.regions(), a sequence
    VolumeOf,      \* id |-> [region, type, size, iops, throughput]
    SnapshotOf,    \* id |-> [region, source, size]
    AddressOf,     \* ip |-> [region, byoip, elastic, eni, primary]
    InterfaceOf,   \* id |-> [region, status]
    InstanceOf,    \* id |-> [type, region, az, spot]
    ReservationOf, \* id |-> [type, region, az, count, end]: listed regions' reservations
    Listing,       \* the ids of reservations, in the order they are described
    PlanOf,        \* id |-> [type, hourly, end]
    Worlds,        \* what the account may be at first
    Linger,        \* ticks a commitment that has ended is still called active
    Ttl,           \* _TTL of the inventory, in ticks
    Steps,         \* what time may pass between two passes, in ticks
    MaxChanges     \* bound on the moves, the failures and the waits of a run

Ids == <<DOMAIN VolumeOf, DOMAIN SnapshotOf, DOMAIN AddressOf, DOMAIN InstanceOf,
         DOMAIN ReservationOf, DOMAIN PlanOf>>

\* Every thing has an id of its own, dates are ticks, and the order of a listing is one of
\* its members.
ASSUME IdsAssumption ==
    /\ \A i, j \in DOMAIN Ids : i # j => Ids[i] \cap Ids[j] = {}
    /\ Regions \in Seq(Entries(Regions)) /\ Listing \in Seq(DOMAIN ReservationOf)
    /\ \A r \in DOMAIN ReservationOf : ReservationOf[r].end \in Int \cup {None}
    /\ \A p \in DOMAIN PlanOf : PlanOf[p].end \in Int \cup {None}
    /\ Steps \subseteq Nat /\ MaxChanges \in Nat

\* A snapshot the account owns is of a volume of its region, or its source reads as none;
\* ec2 tells a gp2 volume the iops of its size, or none.
ASSUME StorageAssumption ==
    /\ \A s \in DOMAIN SnapshotOf : SnapshotOf[s].source \in VolumeSources \ {Placeholder} =>
           /\ SnapshotOf[s].source \in DOMAIN VolumeOf
           /\ VolumeOf[SnapshotOf[s].source].region = SnapshotOf[s].region
    /\ \A v \in DOMAIN VolumeOf :
           /\ {VolumeOf[v].size, VolumeOf[v].iops, VolumeOf[v].throughput} \subseteq Nat
           /\ VolumeOf[v].type = "gp2" => VolumeOf[v].iops \in {0, Gp2Performance(VolumeOf[v].size).iops}

\* An address is on an interface of its region, and one the account brought is an elastic one.
ASSUME AddressAssumption ==
    /\ IsFiniteSet(DOMAIN AddressOf)
    /\ \A a \in DOMAIN AddressOf :
           /\ AddressOf[a].eni \in DOMAIN InterfaceOf
           /\ InterfaceOf[AddressOf[a].eni].region = AddressOf[a].region
           /\ {AddressOf[a].elastic, AddressOf[a].byoip, AddressOf[a].primary} \subseteq BOOLEAN
           /\ AddressOf[a].byoip => AddressOf[a].elastic

\* A zone is of one region, and the instances and what is reserved are counted.
ASSUME ZonesAssumption ==
    /\ IsFiniteSet(DOMAIN InstanceOf)
    /\ \A i, j \in DOMAIN InstanceOf :
           InstanceOf[i].az = InstanceOf[j].az => InstanceOf[i].region = InstanceOf[j].region
    /\ \A r \in DOMAIN ReservationOf : ReservationOf[r].count \in Nat

\* What there is not, and what is gone, are no value of anything.
VolumeStates == {"available", "in-use"}
AddressStates == {"idle", "used"}
ASSUME NoneAssumption ==
    /\ {None, Gone} \cap (VolumeStates \cup AddressStates \cup Int) = {}
    /\ None \notin DOMAIN AddressOf

Accounts ==
    [vol : [DOMAIN VolumeOf -> VolumeStates \cup {None, Gone}],
     snaps : [DOMAIN SnapshotOf -> Int \cup {None, Gone}],
     ip : [DOMAIN AddressOf -> AddressStates \cup {None}],
     runs : SUBSET DOMAIN InstanceOf]

\* Only an elastic address is idle.
IsAccount(w) ==
    w \in Accounts /\ \A a \in DOMAIN AddressOf : w.ip[a] = "idle" => AddressOf[a].elastic
ASSUME WorldsAssumption == \A w \in Worlds : IsAccount(w)

VARIABLES
    clock,   \* ticks
    world,   \* [vol, snaps, ip, runs]: what the account has now
    job,     \* the pass in progress, or None
    memo,    \* the entry of _cache, [at, inv], or None
    told,    \* keys of the calendar that the channel has sent
    heard,   \* commitment |-> the days left it was last sent with
    changes  \* moves, failures and waits so far

vars == <<clock, world, job, memo, told, heard, changes>>

Tasks == {"waste", "snapshots", "ipv4_cost", "ipv4", "commitments", "utilization", "expiry"}
InventoryTasks == {"commitments", "utilization", "expiry"}

----------------------------------------------------------------------------
(* What each call answers.                                                  *)

Live(f) == {x \in DOMAIN f : f[x] \notin {None, Gone}}
Here(of, region) == {x \in DOMAIN of : of[x].region = region}

VolumesAnswer(region) ==
    {[id |-> v, type |-> VolumeOf[v].type, size |-> VolumeOf[v].size, iops |-> VolumeOf[v].iops,
      throughput |-> VolumeOf[v].throughput, state |-> world.vol[v]] :
        v \in Live(world.vol) \cap Here(VolumeOf, region)}
SnapshotsAnswer(region) ==
    {[id |-> s, source |-> SnapshotOf[s].source, size |-> SnapshotOf[s].size, start |-> world.snaps[s]] :
        s \in Live(world.snaps) \cap Here(SnapshotOf, region)}
AddressesAnswer(region) ==
    {[ip |-> a, allocation |-> a, associated |-> world.ip[a] = "used", byoip |-> AddressOf[a].byoip] :
        a \in {x \in Live(world.ip) \cap Here(AddressOf, region) : AddressOf[x].elastic}}
On(eni) == {a \in DOMAIN AddressOf : world.ip[a] = "used" /\ AddressOf[a].eni = eni}
Head1(ips) == IF ips = {} THEN None ELSE CHOOSE a \in ips : TRUE
InterfacesAnswer(region) ==
    {[id |-> e, status |-> InterfaceOf[e].status, top |-> Head1({a \in On(e) : AddressOf[a].primary}),
      ips |-> {[primary |-> AddressOf[a].primary, ip |-> a] : a \in On(e)}] : e \in Here(InterfaceOf, region)}
InstancesAnswer(region) ==
    {[id |-> i, type |-> InstanceOf[i].type, region |-> region, az |-> InstanceOf[i].az,
      state |-> IF i \in world.runs THEN "running" ELSE "stopped", spot |-> InstanceOf[i].spot] :
        i \in Here(InstanceOf, region)}

\* A commitment is called active until a while after its end.
StateOf(end) == IF end = None \/ clock <= end + Linger THEN "active" ELSE "retired"
ReservedAnswer(region) ==
    LET answer(r) == [id |-> r, type |-> ReservationOf[r].type, region |-> region, az |-> ReservationOf[r].az,
                      count |-> ReservationOf[r].count, end |-> ReservationOf[r].end,
                      state |-> StateOf(ReservationOf[r].end)]
    IN FlattenSeq([k \in DOMAIN Listing |->
           IF ReservationOf[Listing[k]].region = region THEN <<answer(Listing[k])>> ELSE <<>>])
PlansAnswer ==
    {[id |-> p, type |-> PlanOf[p].type, hourly |-> PlanOf[p].hourly, end |-> PlanOf[p].end,
      state |-> StateOf(PlanOf[p].end)] : p \in DOMAIN PlanOf}

Answer(call) ==
    CASE call.op = "volumes" -> VolumesAnswer(call.region)
      [] call.op = "snapshots" -> SnapshotsAnswer(call.region)
      [] call.op = "addresses" -> AddressesAnswer(call.region)
      [] call.op = "interfaces" -> InterfacesAnswer(call.region)
      [] call.op = "instances" -> InstancesAnswer(call.region)
      [] call.op = "reserved" -> ReservedAnswer(call.region)
      [] OTHER -> PlansAnswer

----------------------------------------------------------------------------
(* The calls of a pass.  What one sweep of for_each_region asks of a region *)
(* makes a leg: when a call fails, the rest of its leg is not made and what *)
(* the leg has answered is dropped.                                         *)

Sweep(sweep, ops) ==
    FlattenSeq([r \in DOMAIN Regions |->
        [k \in DOMAIN ops |-> [leg |-> <<sweep, Regions[r]>>, op |-> ops[k], region |-> Regions[r]]]])

\* The calls of the other legs.
Without(calls, leg) ==
    FlattenSeq([k \in DOMAIN calls |-> IF calls[k].leg # leg THEN <<calls[k]>> ELSE <<>>])

Calls(task) ==
    CASE task = "waste" -> Sweep("waste", <<"volumes">>)
      [] task = "snapshots" -> Sweep("snapshots", <<"volumes", "snapshots">>)
      [] task \in {"ipv4", "ipv4_cost"} -> Sweep("public ipv4", <<"addresses", "interfaces">>)
      [] OTHER -> Sweep("inventory instances", <<"instances">>) \o Sweep("inventory reserved", <<"reserved">>)
                    \o <<[leg |-> <<"plans", BaseRegion>>, op |-> "plans", region |-> BaseRegion]>>

Got(op, region) ==
    LET calls == {c \in DOMAIN job.got : c.op = op /\ c.region = region} IN
      IF calls # {} THEN job.got[CHOOSE c \in calls : TRUE] ELSE IF op = "reserved" THEN <<>> ELSE {}

Covered(op) == {r \in Entries(Regions) : \E c \in DOMAIN job.got : c.op = op /\ c.region = r}

\* build: the shared inventory, or the join of what this pass has been answered.
Fresh == memo # None /\ clock - memo.at < Ttl
InventoryNow ==
    IF job.kept # None THEN job.kept
    ELSE Join(UNION {Got("instances", r) : r \in Entries(Regions)},
              FlattenSeq([r \in DOMAIN Regions |-> Got("reserved", Regions[r])]),
              Got("plans", BaseRegion))

\* What a pass that has made its calls comes to.
Recommendations ==
    CASE job.task = "waste" -> UNION {Waste(Got("volumes", r), r) : r \in Covered("volumes")}
      [] job.task = "snapshots" ->
           UNION {StaleSnapshots(Got("snapshots", r), {v.id : v \in Got("volumes", r)}, clock) : r \in Covered("snapshots")}
      [] job.task = "ipv4" ->
           UNION {AddressWaste(Got("addresses", r), Got("interfaces", r), r) : r \in Covered("interfaces")}
      [] job.task = "commitments" -> Purchases(InventoryNow)
      [] job.task = "utilization" -> Efficiency(InventoryNow)
      [] job.task = "expiry" -> Expiring(InventoryNow, clock)
      [] OTHER -> {}
Records ==
    UNION {AddressRecords(Got("addresses", r), Got("interfaces", r), r, clock) : r \in Covered("interfaces")}

\* RecommendationDetector: the condition a recommendation is about.
RecommendationKey(rec) == <<rec.service, rec.kind, rec.id>>

----------------------------------------------------------------------------
(* The account changes.  job.always and job.ever are what it has had at     *)
(* every moment and at some moment since the pass began.                    *)

Has(w) == Live(w.vol) \cup Live(w.snaps) \cup Live(w.ip) \cup w.runs

Change(w) ==
    /\ changes < MaxChanges
    /\ world' = w
    /\ changes' = changes + 1
    /\ job' = IF job = None THEN None
              ELSE [job EXCEPT !.always = @ \cap Has(w), !.ever = @ \cup Has(w)]
    /\ UNCHANGED <<clock, memo, told, heard>>

VolumeMoves == {<<None, "available">>, <<"available", "in-use">>, <<"in-use", "available">>, <<"available", Gone>>}
MoveVolume == \E v \in DOMAIN VolumeOf, m \in VolumeMoves :
    world.vol[v] = m[1] /\ Change([world EXCEPT !.vol[v] = m[2]])

TakeSnapshot == \E s \in DOMAIN SnapshotOf :
    /\ world.snaps[s] = None
    /\ SnapshotOf[s].source \in Live(world.vol)
    /\ Change([world EXCEPT !.snaps[s] = clock])
DeleteSnapshot == \E s \in Live(world.snaps) : Change([world EXCEPT !.snaps[s] = Gone])

AddressMoves(a) ==
    IF AddressOf[a].elastic THEN {<<None, "idle">>, <<"idle", "used">>, <<"used", "idle">>, <<"idle", None>>}
    ELSE {<<None, "used">>, <<"used", None>>}
MoveAddress == \E a \in DOMAIN AddressOf : \E m \in AddressMoves(a) :
    world.ip[a] = m[1] /\ Change([world EXCEPT !.ip[a] = m[2]])

StartOrStop == \E i \in DOMAIN InstanceOf :
    Change([world EXCEPT !.runs = IF i \in @ THEN @ \ {i} ELSE @ \cup {i}])

----------------------------------------------------------------------------
(* The passes.                                                              *)

Init ==
    /\ clock = 0
    /\ world \in Worlds
    /\ job = None
    /\ memo = None
    /\ told = {}
    /\ heard = [c \in DOMAIN ReservationOf \cup DOMAIN PlanOf |-> None]
    /\ changes = 0

Begin(task) ==
    /\ job = None
    /\ job' = [task |-> task, got |-> <<>>, always |-> Has(world), ever |-> Has(world),
               todo |-> IF task \in InventoryTasks /\ Fresh THEN <<>> ELSE Calls(task),
               kept |-> IF task \in InventoryTasks /\ Fresh THEN memo.inv ELSE None]
    /\ UNCHANGED <<clock, world, memo, told, heard, changes>>

Busy == job # None /\ job.todo # <<>>

CallAnswered ==
    /\ Busy
    /\ LET call == Head(job.todo) IN
         job' = [job EXCEPT !.todo = Tail(@), !.got = [c \in DOMAIN @ \cup {call} |-> IF c = call THEN Answer(call) ELSE @[c]]]
    /\ UNCHANGED <<clock, world, memo, told, heard, changes>>

CallFails ==
    /\ Busy
    /\ changes < MaxChanges
    /\ LET leg == Head(job.todo).leg IN
         job' = [job EXCEPT !.todo = Without(@, leg),
                            !.got = [c \in {x \in DOMAIN @ : x.leg # leg} |-> @[c]]]
    /\ changes' = changes + 1
    /\ UNCHANGED <<clock, world, memo, told, heard>>

EndOf(c) == IF c \in DOMAIN ReservationOf THEN ReservationOf[c].end ELSE PlanOf[c].end

\* The pass is over: a new inventory is kept, and the calendar's events go to the channel,
\* which sends the ones whose keys it has never sent.
Done == job # None /\ job.todo = <<>>
Finish ==
    LET news == IF job.task = "expiry" THEN {r \in Recommendations : RecommendationKey(r) \notin told} ELSE {}
    IN /\ Done
       /\ job' = None
       /\ memo' = IF job.task \in InventoryTasks /\ job.kept = None THEN [at |-> clock, inv |-> InventoryNow] ELSE memo
       /\ told' = told \cup {RecommendationKey(r) : r \in news}
       /\ heard' = [c \in DOMAIN heard |-> IF c \in {r.id : r \in news} THEN DaysLeft(EndOf(c), clock) ELSE heard[c]]
       /\ UNCHANGED <<clock, world, changes>>

Wait ==
    /\ job = None
    /\ changes < MaxChanges
    /\ \E d \in Steps : clock' = clock + d
    /\ changes' = changes + 1
    /\ UNCHANGED <<world, job, memo, told, heard>>

Next ==
    \/ \E task \in Tasks : Begin(task)
    \/ CallAnswered \/ CallFails \/ Finish \/ Wait
    \/ MoveVolume \/ TakeSnapshot \/ DeleteSnapshot \/ MoveAddress \/ StartOrStop

Spec == Init /\ [][Next]_vars

----------------------------------------------------------------------------
(* Properties.                                                              *)

\* What was there all along was there at some moment, and nothing is remembered of the
\* future or of a commitment that is not there.
TypeOK ==
    /\ clock \in Nat /\ changes \in 0 .. MaxChanges
    /\ memo # None => memo.at \in 0 .. clock
    /\ job # None => /\ job.task \in Tasks
                     /\ job.always \subseteq Has(world) /\ Has(world) \subseteq job.ever
                     /\ job.kept # None => job.todo = <<>>
    /\ heard \in [DOMAIN ReservationOf \cup DOMAIN PlanOf -> Int \cup {None}]

\* A snapshot that was there when the pass began, of a volume that was there all along, is
\* never offered for deletion as that of a deleted volume; and neither is one whose source
\* is no volume of the account.  The volumes and the snapshots of a region are two
\* listings of snapshots.py, made one after the other.
SnapshotsJudgedRight ==
    Done /\ job.task = "snapshots" =>
        \A rec \in Recommendations :
            rec.kind = "orphaned-snapshot" =>
                /\ SnapshotOf[rec.id].source \in DOMAIN VolumeOf
                /\ ~({rec.id, SnapshotOf[rec.id].source} \subseteq job.always)

\* With the types of the pass: a snapshot offered as an orphan is one.
OrphansAreOrphans == TypeOK /\ SnapshotsJudgedRight

\* What a region is billed for addresses is no less than those it paid for all through the
\* pass, each counted once though two listings show it, and no more than those it paid for
\* at some moment of it; an address of the account's own is free, unless it came while
\* the pass ran.
AddressesCountedOnce ==
    Done /\ job.task = "ipv4_cost" =>
        \A r \in Covered("interfaces") :
            LET n == SumOver(LAMBDA rec : rec.addresses, {x \in Records : x.region = r})
                here == Here(AddressOf, r)
                own == {a \in here : AddressOf[a].byoip}
            IN Cardinality((here \ own) \cap job.always) <= n
                 /\ n <= Cardinality(((here \ own) \cap job.ever) \cup (own \cap (job.ever \ job.always)))

\* The ways to put running instances under reservations, 0 for none: each under one that
\* covers it, and no more under one than it counts.
Assignments(inv) ==
    {f \in [inv.running -> {0} \cup DOMAIN inv.pools] :
        /\ \A i \in inv.running : f[i] # 0 => Covers(inv.pools[f[i]].pool, i)
        /\ \A k \in DOMAIN inv.pools :
             Cardinality({i \in inv.running : f[i] = k}) <= inv.pools[k].pool.count}

BestMatch(inv) ==
    /\ \A f \in Assignments(inv) : Cardinality({i \in inv.running : f[i] # 0}) <= MatchedCount(inv)
    /\ MatchedCount(inv) + Cardinality(inv.uncovered) = Cardinality(inv.running)
    /\ UnusedReserved(inv) = ReservedCount(inv) - MatchedCount(inv)

\* As many of the running instances are put under the reservations as any assignment could
\* put there, so that nothing is advised to be bought, or called unused, that a better one
\* would have covered.
MatchIsBest == Done /\ job.task \in InventoryTasks => BestMatch(InventoryNow)

\* What moving a volume to gp3 is said to save is what it costs now less what a gp3 volume
\* of its performance will cost: the provisioned part is in the figure.
MigrationPays ==
    Done /\ job.task = "waste" =>
        \A rec \in Recommendations :
            rec.kind = "gp2-gp3" =>
                LET v == VolumeOf[rec.id]
                    bill(type) == EbsQuote(type, v.size, v.region, Gp2Performance(v.size)).amount
                IN bill("gp2") - rec.saving = bill("gp3")

\* After every pass of the calendar, the last that was heard of a commitment the pass saw
\* was in the tier it is in now: the channel sends a key once, and a tighter tier has a key
\* of its own.
EscalationIsHeard ==
    [][Finish /\ job.task = "expiry" =>
          \A c \in {x \in InventoryNow.reserved \cup InventoryNow.allPlans : x.end # None} :
              LET tier == Tier(DaysLeft(c.end, clock)) IN
                tier # None => heard'[c.id] # None /\ Tier(heard'[c.id]) = tier]_vars
=============================================================================
