------------------------------ MODULE SitePass -------------------------------
(***************************************************************************)
(* One site and one cluster that runs on it, read by one loop: the waste   *)
(* pass under its memo of a day (clont/agent/cadence.py), the inventory of *)
(* OnPremProvider and the read of KubernetesSource under memos of minutes, *)
(* both stamped when the read is over, and the cluster's sweep in every    *)
(* cycle (_k8s_showback of clont/agent/runner.py).  Each read is several   *)
(* calls, and the world moves between any two of them.                     *)
(*                                                                         *)
(* What the pass is for: the space of the site's arrays that no vm and no  *)
(* volume accounts for is reported once by the site, and the volumes       *)
(* nobody uses once by the cluster.                                        *)
(***************************************************************************)
EXTENDS ClusterVolumes

CONSTANTS
    Volumes,   \* name |-> [ref, gib]: the volumes of the cluster, by the claim they serve
    Worlds,    \* what there may be at first
    NodeGib,   \* the node vm's own disk; the disks of mounted volumes come on top
    SpareGib,  \* the disk of a vm that comes and goes
    JunkGib,   \* files on the array that are nobody's
    Rate,      \* cents a GiB and month, on the one pool there is
    PassTtl,   \* PASS_TTL_SECONDS of the provider and of the source
    WasteTtl,  \* the recommend interval
    Slow,      \* bound on the time one batch takes
    MaxTime, MaxMoves, MaxFailures  \* bounds on the run

ASSUME PassAssumption == {NodeGib, SpareGib, JunkGib, Rate, PassTtl, WasteTtl, Slow} \subseteq Nat

VARIABLES
    clock,    \* time.monotonic()
    world,    \* [vol, spare, junk]: what the vms and the arrays hold now
    moved,    \* [count, last]: changes of the world so far, and when the last one was
    failures, \* reads that have failed so far
    todo,     \* the calls this batch still has to make, in their order
    began,    \* when the batch began
    part,     \* the answers of the read in progress
    held,     \* call |-> its answer, while the code has it in hand
    siteMemo, \* OnPremProvider._last, or None
    readMemo, \* KubernetesSource._last, or None
    waste,    \* the waste collector's entry in Due, or None
    batch     \* the findings of the batch that ended last, or None

vars == <<clock, world, moved, failures, todo, began, part, held, siteMemo, readMemo, waste, batch>>

Host1 == "h1"
San == "san"
Key == <<None, "prod">>

\* A volume is mounted by a pod, waited for by one that has no node yet, idle, Released
\* with its claim deleted, or gone.
States == {"mounted", "waiting", "idle", "released", "gone"}

----------------------------------------------------------------------------
(* The world, and what each call answers about it.                          *)

Gib(S) == Sum(LAMBDA x : Volumes[x].gib, S)
Vols(states) == {x \in DOMAIN Volumes : world.vol[x] \in states}

\* The disk of a mounted volume is the node's vm's; every other is a file of the array.
NodeDisk == NodeGib + Gib(Vols({"mounted"}))
Junk == IF world.junk THEN JunkGib ELSE 0
Used == NodeGib + Gib(Vols(States \ {"gone"})) + Junk + IF world.spare THEN SpareGib ELSE 0
Capacity1 == NodeGib + Gib(DOMAIN Volumes) + JunkGib + SpareGib

HostsAnswer == {"node"} \cup IF world.spare THEN {"spare"} ELSE {}
VmsAnswer == IF world.spare THEN "node" :> NodeDisk @@ "spare" :> SpareGib ELSE "node" :> NodeDisk

PodsAnswer ==
    [pods |-> {[ns |-> Volumes[x].ref[1], node |-> "node", claims |-> {Volumes[x].ref[2]}] : x \in Vols({"mounted"})},
     pending |-> {[ns |-> Volumes[x].ref[1], node |-> None, claims |-> {Volumes[x].ref[2]}] : x \in Vols({"waiting"})}]
ClaimsAnswer ==
    {[ref |-> Volumes[x].ref, gib |-> Volumes[x].gib, bound |-> TRUE, age |-> None] :
        x \in Vols({"mounted", "waiting", "idle"})}
VolumesAnswer ==
    SetToSeq({[name |-> x, gib |-> Volumes[x].gib, claim |-> Volumes[x].ref, source |-> "vsphere-csi",
               phase |-> IF world.vol[x] = "released" THEN "Released" ELSE "Bound",
               ds |-> None, url |-> San, age |-> None] : x \in Vols(States \ {"gone"})})

\* The raw record of SiteInventory that three answers make: one cluster, one host and
\* one array, with all of the money on storage.
Raw(seen) ==
    [clusters |-> <<[id |-> "c1", name |-> "prod", parent |-> None, hosts |-> {Host1}]>>,
     hosts |-> Host1 :> [cores |-> 8, ram |-> 32, on |-> TRUE, vms |-> seen.hosts, ds |-> {San}, parent |-> "c1"],
     datastores |-> San :> [name |-> San, cap |-> Capacity1, free |-> Capacity1 - seen.used,
                            uncommitted |-> 0, url |-> San],
     vms |-> [v \in DOMAIN seen.vms |->
                [name |-> v, host |-> Host1, on |-> TRUE, template |-> FALSE, vcpu |-> 2, ram |-> 8,
                 committed |-> seen.vms[v], uncommitted |-> 0]],
     parent |-> <<>>, datacenters |-> {}, perf |-> <<>>]

Config == [site |-> "amortization" :> Rate * Capacity1, weights |-> [cpu |-> 0, ram |-> 0, storage |-> 100],
           clusters |-> <<>>]

----------------------------------------------------------------------------
(* Faulty variants of the definitions below.                                *)

\* A guest that answers with what its pods hold in place of what nothing holds.
GuestOfAttached(read, site) ==
    [source |-> "k1", detached |-> Storage(read, site.datastores).attached]

\* A memo that is stamped and never looked at again.
FreshForever(memo) == memo # None

----------------------------------------------------------------------------
(* The world moves.                                                         *)

Moves ==
    {<<"gone", "mounted">>, <<"mounted", "idle">>, <<"idle", "mounted">>, <<"idle", "waiting">>,
     <<"waiting", "mounted">>, <<"idle", "released">>, <<"idle", "gone">>, <<"released", "gone">>}

World(new) ==
    /\ moved.count < MaxMoves
    /\ world' = new
    /\ moved' = [count |-> moved.count + 1, last |-> clock]
    /\ UNCHANGED <<clock, failures, todo, began, part, held, siteMemo, readMemo, waste, batch>>

\* A pod starts or stops, a claim is deleted, a volume is; a claim has one volume.
MoveVolume == \E x \in DOMAIN Volumes, m \in Moves :
    /\ world.vol[x] = m[1]
    /\ m[1] = "gone" => \A y \in Vols({"mounted", "waiting", "idle"}) : Volumes[y].ref # Volumes[x].ref
    /\ World([world EXCEPT !.vol[x] = m[2]])

\* A vm is created or deleted.
MoveVm == World([world EXCEPT !.spare = ~@])

\* Somebody uploads an iso, or cleans up.
MoveJunk == World([world EXCEPT !.junk = ~@])

Tick ==
    /\ clock < MaxTime
    /\ todo # <<>> => clock - began < Slow
    /\ clock' = clock + 1
    /\ UNCHANGED <<world, moved, failures, todo, began, part, held, siteMemo, readMemo, waste, batch>>

----------------------------------------------------------------------------
(* The calls.                                                               *)

Calls(name) == todo # <<>> /\ Head(todo) = name

\* "age < self._ttl", of the provider's memo and of the source's.
Fresh(memo) == memo # None /\ clock - memo.at < PassTtl

\* recommendations of the waste collector: its own inventory, then every guest, whose
\* placements are a cluster pass and the inventory again.
WasteCalls == <<"own", "cluster", "site", "guest">>

\* volumes() of the source: a pass, and the placements, which are a pass of their own.
SweepCalls == <<"cluster", "again", "site", "sweep">>

\* A cycle: the waste collector when it is due, and every cluster's sweep.
BeginBatch ==
    /\ todo = <<>>
    /\ began' = clock
    /\ batch' = None
    /\ todo' = IF waste # None /\ clock - waste.at < WasteTtl THEN SweepCalls ELSE WasteCalls \o SweepCalls
    /\ UNCHANGED <<clock, world, moved, failures, part, held, siteMemo, readMemo, waste>>

Returns(call, value) == held' = (call :> value) @@ held

\* inventory() within the ttl.
SiteReused == \E call \in {"own", "site"} :
    /\ Calls(call) /\ Fresh(siteMemo)
    /\ Returns(call, siteMemo)
    /\ todo' = Tail(todo)
    /\ UNCHANGED <<clock, world, moved, failures, began, part, siteMemo, readMemo, waste, batch>>

\* The property calls of a pass over the site, in their order.
ReadHosts == \E call \in {"own", "site"} :
    /\ Calls(call) /\ ~Fresh(siteMemo)
    /\ part' = [hosts |-> HostsAnswer, siteEra |-> moved.count] @@ part
    /\ todo' = <<"datastores", "vms">> \o todo
    /\ UNCHANGED <<clock, world, moved, failures, began, held, siteMemo, readMemo, waste, batch>>

ReadDatastores ==
    /\ Calls("datastores")
    /\ part' = [used |-> Used] @@ part
    /\ todo' = Tail(todo)
    /\ UNCHANGED <<clock, world, moved, failures, began, held, siteMemo, readMemo, waste, batch>>

\* The last one stamps the memo and answers the call that asked.
ReadVms ==
    /\ Calls("vms")
    /\ siteMemo' = [at |-> clock, era |-> part.siteEra, hosts |-> part.hosts, used |-> part.used, vms |-> VmsAnswer]
    /\ Returns(todo[2], siteMemo')
    /\ part' = Restrict(part, DOMAIN part \ {"siteEra", "hosts", "used"})
    /\ todo' = Tail(Tail(todo))
    /\ UNCHANGED <<clock, world, moved, failures, began, readMemo, waste, batch>>

\* _pass within the ttl.
ReadReused == \E call \in {"cluster", "again"} :
    /\ Calls(call) /\ Fresh(readMemo)
    /\ Returns(call, readMemo)
    /\ todo' = Tail(todo)
    /\ UNCHANGED <<clock, world, moved, failures, began, part, siteMemo, readMemo, waste, batch>>

\* A read of the cluster: its pods, its claims, its volumes, and the vms its nodes may be.
ReadPods == \E call \in {"cluster", "again"} :
    /\ Calls(call) /\ ~Fresh(readMemo)
    /\ part' = [pods |-> PodsAnswer, readEra |-> moved.count] @@ part
    /\ todo' = <<"claims", "pvs", "site", "stamp">> \o todo
    /\ UNCHANGED <<clock, world, moved, failures, began, held, siteMemo, readMemo, waste, batch>>

ReadClaims ==
    /\ Calls("claims")
    /\ part' = [claims |-> ClaimsAnswer] @@ part
    /\ todo' = Tail(todo)
    /\ UNCHANGED <<clock, world, moved, failures, began, held, siteMemo, readMemo, waste, batch>>

ReadVolumes ==
    /\ Calls("pvs")
    /\ part' = [pvs |-> VolumesAnswer] @@ part
    /\ todo' = Tail(todo)
    /\ UNCHANGED <<clock, world, moved, failures, began, held, siteMemo, readMemo, waste, batch>>

StampRead ==
    /\ Calls("stamp")
    /\ readMemo' = [at |-> clock, era |-> part.readEra, pods |-> part.pods.pods, pending |-> part.pods.pending,
                    claims |-> part.claims, pvs |-> part.pvs]
    /\ Returns(todo[2], readMemo')
    /\ part' = <<>>
    /\ todo' = Tail(Tail(todo))
    /\ UNCHANGED <<clock, world, moved, failures, began, siteMemo, waste, batch>>

----------------------------------------------------------------------------
(* What is made of them.                                                    *)

GuestOf(read, site) == [source |-> "k1", detached |-> Storage(read, site.datastores).detached]

Wasted(own, guests) == Recommendations(Config, BuildSite(Raw(own)), guests)

\* What is left of the guests when the one there is raises.
Dropped == {}

\* The entry Due stores under the time the call was begun.
StoreWaste(guests, era, blind) ==
    waste' = [at |-> began, findings |-> Wasted(held.own, guests), era |-> era, blind |-> blind]

\* guest_storage of the cluster, and the end of the waste pass.
Guest ==
    /\ Calls("guest")
    /\ StoreWaste({GuestOf(held.cluster, BuildSite(Raw(held.site)))},
                  Min({held.own.era, held.cluster.era, held.site.era}), FALSE)
    /\ todo' = Tail(todo)
    /\ held' = <<>>
    /\ UNCHANGED <<clock, world, moved, failures, began, part, siteMemo, readMemo, batch>>

\* Pods and claims of one pass over the volumes of the next.
Swept(first, second, site) ==
    Reclaim([first EXCEPT !.pvs = second.pvs], site, Key :> Rate)

EndBatch(findings, era) ==
    /\ batch' = [at |-> clock, waste |-> waste, sweep |-> findings, era |-> era]
    /\ todo' = <<>> /\ part' = <<>> /\ held' = <<>>

Sweeps ==
    /\ Calls("sweep")
    /\ EndBatch(Swept(held.cluster, held.again, BuildSite(Raw(held.site))),
                Min({held.cluster.era, held.again.era, held.site.era}))
    /\ UNCHANGED <<clock, world, moved, failures, began, siteMemo, readMemo, waste>>

\* A call that raises: in the collector's own read the last result stands, in a guest's
\* the guest is dropped, and in the sweep there is no sweep in this cycle.
Fail ==
    /\ failures < MaxFailures
    /\ todo # <<>> /\ Head(todo) \notin {"stamp", "guest", "sweep"}
    /\ Head(todo) \in {"own", "site"} => ~Fresh(siteMemo)
    /\ Head(todo) \in {"cluster", "again"} => ~Fresh(readMemo)
    /\ failures' = failures + 1
    /\ IF {"own", "guest"} \cap ToSet(todo) = {} THEN EndBatch(None, moved.count) /\ UNCHANGED waste
       ELSE /\ IF "own" \in ToSet(todo) THEN UNCHANGED waste ELSE StoreWaste(Dropped, held.own.era, TRUE)
            /\ todo' = SweepCalls /\ part' = <<>> /\ held' = <<>>
            /\ UNCHANGED batch
    /\ UNCHANGED <<clock, world, moved, began, siteMemo, readMemo>>

Init ==
    /\ clock = 0
    /\ world \in Worlds
    /\ moved = [count |-> 0, last |-> 0]
    /\ failures = 0 /\ began = 0
    /\ todo = <<>> /\ part = <<>> /\ held = <<>>
    /\ siteMemo = None /\ readMemo = None /\ waste = None /\ batch = None

Next ==
    \/ MoveVolume \/ MoveVm \/ MoveJunk \/ Tick
    \/ BeginBatch \/ SiteReused \/ ReadHosts \/ ReadDatastores \/ ReadVms
    \/ ReadReused \/ ReadPods \/ ReadClaims \/ ReadVolumes \/ StampRead
    \/ Guest \/ Sweeps \/ Fail

Spec == Init /\ [][Next]_vars

----------------------------------------------------------------------------
\* Every cache was filled in the past, out of a world that has been; between two batches
\* nothing is in hand.
TypeOK ==
    /\ clock \in 0 .. MaxTime /\ began \in 0 .. clock /\ failures \in 0 .. MaxFailures
    /\ world.vol \in [DOMAIN Volumes -> States]
    /\ moved \in [count : 0 .. MaxMoves, last : 0 .. clock]
    /\ \A memo \in {siteMemo, readMemo, waste, batch} \ {None} :
           memo.at \in 0 .. clock /\ memo.era \in 0 .. moved.count
    /\ DOMAIN held \subseteq {"own", "cluster", "site", "again"}
    /\ todo = <<>> => held = <<>> /\ part = <<>>

Kind(findings, kinds) == {f \in findings : f.kind \in kinds}
Money(findings) == Sum(LAMBDA f : f.monthly, findings)

\* What nobody uses: claims no pod holds or waits for, and volumes whose claim is gone.
Unowned == Gib(Vols({"idle", "released"}))

\* A waste pass with no move of the world since its reads began names what is nobody's
\* and nothing of a vm or a volume: no false orphan, and the volumes credited to the
\* cluster.  (waste.py: "without that the same blocks are offered back twice".)
GapIsNobodys ==
    waste # None /\ waste.era = moved.count /\ ~waste.blind =>
        /\ Kind(waste.findings, {"orphan-vm"}) = {}
        /\ Money(Kind(waste.findings, {"unaccounted-storage"})) = Rate * Junk

\* Without the cluster's answer the gap is as large as it was, never smaller.
BlindIsWhole ==
    waste # None /\ waste.era = moved.count /\ waste.blind =>
        Money(Kind(waste.findings, {"unaccounted-storage"})) = Rate * (Used - NodeDisk
            - IF world.spare THEN SpareGib ELSE 0)

\* The two together, and the caches in order: what a waste pass says of the gap, with the cluster's answer or without.
GapIsRight == TypeOK /\ GapIsNobodys /\ BlindIsWhole

\* A sweep with no move since its reads began offers every volume nobody uses, and no
\* other: neither one that a pod holds nor one that a pod waits for.
SweepIsTheUnowned ==
    batch # None /\ batch.sweep # None /\ batch.era = moved.count => Money(batch.sweep) = Rate * Unowned

\* The two halves meet under memos of their own, so a volume that moved may be offered
\* by both or by neither; once the world has stood still for the ttls and two batches
\* each GiB is offered once.
OfferedOnceInTheEnd ==
    batch # None /\ batch.sweep # None /\ failures = 0
    /\ batch.at - moved.last > WasteTtl + PassTtl + 2 * Slow =>
        Money(batch.sweep) + Money(Kind(batch.waste.findings, {"unaccounted-storage", "orphan-vm"}))
            = Rate * (Unowned + Junk)
=============================================================================
