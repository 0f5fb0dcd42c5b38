--------------------------- MODULE SavingsPassProofs ---------------------------
(***************************************************************************)
(* The passes over an account, for every account, every order of its       *)
(* changes and every pattern of failing calls.                             *)
(*                                                                         *)
(* The invariant says of each answer a pass holds what it still proves of  *)
(* the account: a listing names everything of its region that has been     *)
(* there all along, and nothing that never was.  That survives the changes *)
(* because what was there all along only shrinks and what ever was only    *)
(* grows.  The two listings of a leg come in order, so whoever holds the   *)
(* second holds the first.  Of the calendar, a key that was sent was sent  *)
(* with days that are of its tier or a tighter one, and days only pass.    *)
(***************************************************************************)
EXTENDS SavingsPass, DataInduction

Ops == {"volumes", "snapshots", "addresses", "interfaces", "instances", "reserved", "plans"}
Places == Entries(Regions) \cup {BaseRegion}
Legs == {"waste", "snapshots", "public ipv4", "inventory instances", "inventory reserved", "plans"} \X Places
Callables == [leg : Legs, op : Ops, region : Places]

\* The call that comes before another in its leg.
Paired == [snapshots |-> "volumes", interfaces |-> "addresses"]
Earlier(c) == [leg |-> c.leg, op |-> Paired[c.op], region |-> c.region]

\* In a list of calls, after some that were answered, each comes after its earlier one.
InOrder(calls, answered) ==
    \A k \in DOMAIN calls : calls[k].op \in DOMAIN Paired =>
        Earlier(calls[k]) \in answered \/ \E j \in DOMAIN calls : j < k /\ calls[j] = Earlier(calls[k])
Complete(answered) == \A c \in answered : c.op \in DOMAIN Paired => Earlier(c) \in answered

\* What the entries of an answer are.
VolumeEntry(x, region) ==
    /\ x.id \in Here(VolumeOf, region)
    /\ x.type = VolumeOf[x.id].type /\ x.size = VolumeOf[x.id].size /\ x.iops = VolumeOf[x.id].iops
SnapshotEntry(x, region) ==
    x.id \in Here(SnapshotOf, region) /\ x.source = SnapshotOf[x.id].source
AddressEntry(x, region, ever) ==
    x.ip \in Here(AddressOf, region) \cap ever /\ x.byoip = AddressOf[x.ip].byoip
ReservationEntries ==
    {x \in [id : DOMAIN ReservationOf, type : {ReservationOf[r].type : r \in DOMAIN ReservationOf}, region : Places,
            az : {ReservationOf[r].az : r \in DOMAIN ReservationOf},
            count : {ReservationOf[r].count : r \in DOMAIN ReservationOf}, end : Int \cup {None},
            state : {"active", "retired"}] : x.end = ReservationOf[x.id].end}
\* How a listing shows an instance, running or stopped.
InstanceEntry(i, state) ==
    [id |-> i, type |-> InstanceOf[i].type, region |-> InstanceOf[i].region, az |-> InstanceOf[i].az,
     state |-> state, spot |-> InstanceOf[i].spot]
ShownAs(state) == {InstanceEntry(i, state) : i \in DOMAIN InstanceOf}
InstanceEntries == ShownAs("running") \cup ShownAs("stopped")
PlanEntry(x) == x.id \in DOMAIN PlanOf /\ x.end = PlanOf[x.id].end

\* What an answer proves of the account.
VolumesTold(answer, region, always) ==
    /\ \A x \in answer : VolumeEntry(x, region)
    /\ Here(VolumeOf, region) \cap always \subseteq {x.id : x \in answer}
SnapshotsTold(answer, region) == \A x \in answer : SnapshotEntry(x, region)
AddressesTold(answer, region, always, ever) ==
    /\ \A x \in answer : AddressEntry(x, region, ever)
    /\ {a \in Here(AddressOf, region) \cap always : AddressOf[a].elastic} \subseteq {x.ip : x \in answer}
InterfacesTold(answer, region, always, ever) ==
    /\ \A eni \in answer : PublicIps(eni) \subseteq Here(AddressOf, region) \cap ever
    /\ \A a \in Here(AddressOf, region) \cap always :
          ~AddressOf[a].elastic => \E eni \in answer : a \in PublicIps(eni)

Told(op, answer, region, always, ever) ==
    /\ op = "volumes" => VolumesTold(answer, region, always)
    /\ op = "snapshots" => SnapshotsTold(answer, region)
    /\ op = "addresses" => AddressesTold(answer, region, always, ever)
    /\ op = "interfaces" => InterfacesTold(answer, region, always, ever)
    /\ op = "instances" => answer \subseteq InstanceEntries
    /\ op = "reserved" => answer \in Seq(ReservationEntries)
    /\ op = "plans" => \A x \in answer : PlanEntry(x)

\* What an inventory says of the ends of commitments.
EndsRight(inv) ==
    /\ \A x \in inv.reserved : x.id \in DOMAIN ReservationOf /\ x.end = ReservationOf[x.id].end
    /\ \A x \in inv.allPlans : PlanEntry(x)

\* An inventory can be relied on for as long as it is kept.
InventoryRight(inv) == EndsRight(inv) /\ BestMatch(inv)

Committed == DOMAIN ReservationOf \cup DOMAIN PlanOf

\* A key of the calendar was sent, in its tier or before a tighter one.
SentFor(key) ==
    /\ key[3] \in Committed /\ heard[key[3]] # None
    /\ \E t \in Tiers : key[2] = ExpiryKind(t) /\ Tier(heard[key[3]]) \in Tiers /\ Tier(heard[key[3]]) <= t

JobFields == {"task", "got", "always", "ever", "todo", "kept"}

CallsOK ==
    job # None =>
        /\ DOMAIN job = JobFields
        /\ job.todo \in Seq(Callables) /\ DOMAIN job.got \subseteq Callables
        /\ InOrder(job.todo, DOMAIN job.got) /\ Complete(DOMAIN job.got)
AnswersOK ==
    job # None => \A c \in DOMAIN job.got : Told(c.op, job.got[c], c.region, job.always, job.ever)
InventoryOK ==
    /\ memo # None => InventoryRight(memo.inv)
    /\ job # None /\ job.kept # None => InventoryRight(job.kept)
CalendarOK ==
    /\ \A c \in Committed : heard[c] # None => EndOf(c) \in Int /\ heard[c] >= DaysLeft(EndOf(c), clock)
    /\ \A key \in told : SentFor(key)

IInv == TypeOK /\ IsAccount(world) /\ CallsOK /\ AnswersOK /\ InventoryOK /\ CalendarOK

----------------------------------------------------------------------------
(* What the constants are.                                                  *)

LEMMA IdsAreApart ==
    /\ DOMAIN VolumeOf \cap (DOMAIN SnapshotOf \cup DOMAIN AddressOf \cup DOMAIN InstanceOf) = {}
    /\ DOMAIN AddressOf \cap (DOMAIN SnapshotOf \cup DOMAIN InstanceOf) = {}
    /\ DOMAIN ReservationOf \cap DOMAIN PlanOf = {}
<1>1. ASSUME NEW i \in 1 .. 6, NEW j \in 1 .. 6, i # j PROVE Ids[i] \cap Ids[j] = {}
  <2>1. DOMAIN Ids = 1 .. 6
    BY DEF Ids
  <2> QED BY <1>1, <2>1, IdsAssumption
<1>2. Ids[1] \cap Ids[2] = {} /\ Ids[1] \cap Ids[3] = {} /\ Ids[1] \cap Ids[4] = {}
  BY <1>1
<1>3. Ids[3] \cap Ids[2] = {} /\ Ids[3] \cap Ids[4] = {} /\ Ids[5] \cap Ids[6] = {}
  BY <1>1
<1> QED BY <1>2, <1>3 DEF Ids

LEMMA EndOfEach ==
    /\ \A r \in DOMAIN ReservationOf : EndOf(r) = ReservationOf[r].end
    /\ \A p \in DOMAIN PlanOf : EndOf(p) = PlanOf[p].end
    /\ \A c \in Committed : EndOf(c) \in Int \cup {None}
BY IdsAreApart, IdsAssumption DEF EndOf, Committed

----------------------------------------------------------------------------
(* The calendar: days only pass, and tiers only tighten.                    *)

LEMMA DivisionIsMonotone ==
    ASSUME NEW a \in Nat, NEW b \in Nat, a <= b, NEW d \in Nat \ {0}
    PROVE  a \div d \in Nat /\ a \div d <= b \div d
<1>1. /\ a \div d \in Nat /\ b \div d \in Nat
      /\ a = d * (a \div d) + (a % d) /\ a % d \in 0 .. d - 1
      /\ b = d * (b \div d) + (b % d) /\ b % d \in 0 .. d - 1
  BY SMT
<1>2. ASSUME NEW x \in Nat, NEW y \in Nat, y < x PROVE d * x >= d * y + d
  <2>1. PICK z \in Nat : x = y + 1 + z
    <3>1. x - y - 1 \in Nat
      BY <1>2
    <3> QED BY <3>1
  <2>2. d * x = d * y + d + d * z
    BY <2>1
  <2>3. d * z >= 0
    OBVIOUS
  <2> QED BY <2>2, <2>3
<1>3. SUFFICES ASSUME b \div d < a \div d PROVE FALSE
  BY <1>1
<1>4. d * (a \div d) >= d * (b \div d) + d
  BY <1>1, <1>2, <1>3
<1> QED BY <1>1, <1>4

LEMMA DaysOnlyPass ==
    ASSUME NEW end \in Int, NEW now \in Nat, NEW later \in Nat, now <= later
    PROVE  DaysLeft(end, now) \in Int /\ DaysLeft(end, later) <= DaysLeft(end, now)
<1> DEFINE D(x) == x \div PerDay
<1>1. \A a, b \in Nat : a <= b => D(a) \in Nat /\ D(b) \in Nat /\ D(a) <= D(b)
  BY CommitmentAssumption, DivisionIsMonotone
<1>2. /\ DaysLeft(end, now) = IF end >= now THEN D(end - now) ELSE -D(now - end)
      /\ DaysLeft(end, later) = IF end >= later THEN D(end - later) ELSE -D(later - end)
  BY DEF DaysLeft
<1> HIDE DEF D
<1>3. CASE end >= later
  BY <1>1, <1>2, <1>3
<1>4. CASE end < later /\ end >= now
  BY <1>1, <1>2, <1>4
<1>5. CASE end < now
  BY <1>1, <1>2, <1>5
<1> QED BY <1>3, <1>4, <1>5

LEMMA TierIsTightest ==
    ASSUME NEW d \in Int
    PROVE  Tier(d) = IF d <= 7 THEN 7 ELSE IF d <= 30 THEN 30 ELSE IF d <= 60 THEN 60 ELSE None
<1> DEFINE crossed == {t \in Tiers : Floor0(d) <= t}
<1>1. ASSUME NEW t \in Tiers PROVE t \in crossed <=> d <= t
  BY DEF Floor0, Tiers
<1>2. Tier(d) = IF crossed = {} THEN None ELSE Min(crossed)
  BY DEF Tier
<1>3. ASSUME NEW m \in crossed, \A t \in crossed : m <= t PROVE Min(crossed) = m
  <2>1. Min(crossed) = CHOOSE x \in crossed : \A t \in crossed : x <= t
    BY DEF Min
  <2>2. \A x \in crossed : (\A t \in crossed : x <= t) => x = m
    BY <1>3 DEF Tiers
  <2> HIDE DEF crossed
  <2> QED BY <1>3, <2>1, <2>2
<1>4. crossed \subseteq Tiers /\ Tiers = {7, 30, 60}
  BY DEF Tiers
<1> HIDE DEF crossed
<1>5. CASE d <= 7
  <2>1. 7 \in crossed /\ \A t \in crossed : 7 <= t
    BY <1>1, <1>4, <1>5
  <2> QED BY <1>2, <1>3, <1>5, <2>1
<1>6. CASE d > 7 /\ d <= 30
  <2>1. 30 \in crossed /\ \A t \in crossed : 30 <= t
    BY <1>1, <1>4, <1>6
  <2> QED BY <1>2, <1>3, <1>6, <2>1
<1>7. CASE d > 30 /\ d <= 60
  <2>1. 60 \in crossed /\ \A t \in crossed : 60 <= t
    BY <1>1, <1>4, <1>7
  <2> QED BY <1>2, <1>3, <1>7, <2>1
<1>8. CASE d > 60
  <2>1. crossed = {}
    BY <1>1, <1>4, <1>8
  <2> QED BY <1>2, <1>8, <2>1
<1> QED BY <1>5, <1>6, <1>7, <1>8

\* Of fewer days the tier is as tight or tighter, and each tier has a kind of its own.
LEMMA TiersTighten ==
    /\ \A d, e \in Int : d <= e /\ Tier(e) # None =>
          Tier(d) \in Tiers /\ Tier(e) \in Tiers /\ Tier(d) <= Tier(e)
    /\ \A s, t \in Tiers : ExpiryKind(s) = ExpiryKind(t) => s = t
<1>1. ASSUME NEW d \in Int, NEW e \in Int, d <= e, Tier(e) # None
      PROVE  Tier(d) \in Tiers /\ Tier(e) \in Tiers /\ Tier(d) <= Tier(e)
  BY <1>1, TierIsTightest DEF Tiers
<1>2. \A s, t \in Tiers : ExpiryKind(s) = ExpiryKind(t) => s = t
  BY DEF Tiers, ExpiryKind
<1> QED BY <1>1, <1>2

----------------------------------------------------------------------------
(* What the calls answer.                                                   *)

\* What the account has under the id of a volume is a volume, and so with an address.
LEMMA IdsTellKinds ==
    ASSUME NEW w, IsAccount(w)
    PROVE  /\ Has(w) \cap DOMAIN VolumeOf = Live(w.vol)
           /\ Has(w) \cap DOMAIN AddressOf = Live(w.ip)
<1>1. /\ DOMAIN w.vol = DOMAIN VolumeOf /\ DOMAIN w.snaps = DOMAIN SnapshotOf
      /\ DOMAIN w.ip = DOMAIN AddressOf /\ w.runs \subseteq DOMAIN InstanceOf
  BY DEF IsAccount, Accounts
<1>2. /\ Live(w.vol) \subseteq DOMAIN VolumeOf /\ Live(w.snaps) \subseteq DOMAIN SnapshotOf
      /\ Live(w.ip) \subseteq DOMAIN AddressOf
  BY <1>1 DEF Live
<1> QED BY <1>1, <1>2, IdsAreApart DEF Has

\* An answer that was true stays true of what was there all along and of what ever was.
LEMMA TellingLasts ==
    ASSUME NEW op, NEW answer, NEW region, NEW always, NEW ever, Told(op, answer, region, always, ever),
           NEW less, less \subseteq always, NEW more, ever \subseteq more
    PROVE  Told(op, answer, region, less, more)
<1>1. VolumesTold(answer, region, always) => VolumesTold(answer, region, less)
  BY DEF VolumesTold
<1>2. AddressesTold(answer, region, always, ever) => AddressesTold(answer, region, less, more)
  BY DEF AddressesTold, AddressEntry
<1>3. InterfacesTold(answer, region, always, ever) => InterfacesTold(answer, region, less, more)
  BY DEF InterfacesTold
<1> QED BY <1>1, <1>2, <1>3 DEF Told

\* The public addresses an interface shows are those in use on it.
LEMMA InterfacesShowTheirs ==
    ASSUME NEW e, NEW region, NEW eni,
           eni = [id |-> e, status |-> InterfaceOf[e].status, top |-> Head1({a \in On(e) : AddressOf[a].primary}),
                  ips |-> {[primary |-> AddressOf[a].primary, ip |-> a] : a \in On(e)}]
    PROVE  PublicIps(eni) = On(e)
<1> DEFINE first == {a \in On(e) : AddressOf[a].primary}
<1>1. eni.top = Head1(first) /\ eni.ips = {[primary |-> AddressOf[a].primary, ip |-> a] : a \in On(e)}
  OBVIOUS
<1>2. {p.ip : p \in eni.ips} = On(e)
  <2>1. ASSUME NEW a \in On(e) PROVE a \in {p.ip : p \in eni.ips}
    <3> DEFINE p == [primary |-> AddressOf[a].primary, ip |-> a]
    <3>1. p \in eni.ips /\ p.ip = a
      BY <1>1
    <3> QED BY <3>1
  <2>2. ASSUME NEW p \in eni.ips PROVE p.ip \in On(e)
    BY <1>1, <2>2
  <2> QED BY <2>1, <2>2
<1>3. Head1(first) \in On(e) \cup {None}
  BY DEF Head1
<1>4. None \notin On(e)
  BY NoneAssumption DEF On
<1> HIDE DEF first
<1> QED BY <1>1, <1>2, <1>3, <1>4 DEF PublicIps, Named

LEMMA AnswersAreTold ==
    ASSUME IsAccount(world), NEW always, always \subseteq Has(world), NEW ever, Has(world) \subseteq ever,
           NEW call \in Callables
    PROVE  Told(call.op, Answer(call), call.region, always, ever)
<1> DEFINE region == call.region
<1>1. ASSUME call.op = "volumes" PROVE VolumesTold(Answer(call), region, always)
  <2>1. Answer(call) = VolumesAnswer(region)
    BY <1>1 DEF Answer
  <2>2. Here(VolumeOf, region) \cap always \subseteq Live(world.vol)
    BY IdsTellKinds DEF Here
  <2>3. ASSUME NEW x \in VolumesAnswer(region) PROVE VolumeEntry(x, region)
    <3>1. PICK v \in Live(world.vol) \cap Here(VolumeOf, region) :
             x = [id |-> v, type |-> VolumeOf[v].type, size |-> VolumeOf[v].size, iops |-> VolumeOf[v].iops,
                  throughput |-> VolumeOf[v].throughput, state |-> world.vol[v]]
      BY <2>3 DEF VolumesAnswer
    <3> QED BY <3>1 DEF VolumeEntry
  <2>4. ASSUME NEW v \in Here(VolumeOf, region) \cap always PROVE v \in {x.id : x \in VolumesAnswer(region)}
    <3> DEFINE x == [id |-> v, type |-> VolumeOf[v].type, size |-> VolumeOf[v].size, iops |-> VolumeOf[v].iops,
                     throughput |-> VolumeOf[v].throughput, state |-> world.vol[v]]
    <3>1. x \in VolumesAnswer(region)
      BY <2>2 DEF VolumesAnswer
    <3>2. x.id = v
      OBVIOUS
    <3> QED BY <3>1, <3>2
  <2> QED BY <2>1, <2>3, <2>4 DEF VolumesTold
<1>2. ASSUME call.op = "snapshots" PROVE SnapshotsTold(Answer(call), region)
  <2>1. Answer(call) = SnapshotsAnswer(region)
    BY <1>2 DEF Answer
  <2> QED BY <2>1 DEF SnapshotsTold, SnapshotsAnswer, SnapshotEntry
<1>3. ASSUME call.op = "addresses" PROVE AddressesTold(Answer(call), region, always, ever)
  <2>1. Answer(call) = AddressesAnswer(region)
    BY <1>3 DEF Answer
  <2>2. Here(AddressOf, region) \cap always \subseteq Live(world.ip) /\ Live(world.ip) \subseteq ever
    BY IdsTellKinds DEF Here
  <2>3. ASSUME NEW x \in AddressesAnswer(region) PROVE AddressEntry(x, region, ever)
    <3>1. PICK a \in Live(world.ip) \cap Here(AddressOf, region) :
             x = [ip |-> a, allocation |-> a, associated |-> world.ip[a] = "used", byoip |-> AddressOf[a].byoip]
      BY <2>3 DEF AddressesAnswer
    <3> QED BY <2>2, <3>1 DEF AddressEntry
  <2>4. ASSUME NEW a \in Here(AddressOf, region) \cap always, AddressOf[a].elastic
        PROVE  a \in {x.ip : x \in AddressesAnswer(region)}
    <3> DEFINE x == [ip |-> a, allocation |-> a, associated |-> world.ip[a] = "used", byoip |-> AddressOf[a].byoip]
    <3>1. x \in AddressesAnswer(region)
      BY <2>2, <2>4 DEF AddressesAnswer
    <3>2. x.ip = a
      OBVIOUS
    <3> QED BY <3>1, <3>2
  <2> QED BY <2>1, <2>3, <2>4 DEF AddressesTold
<1>4. ASSUME call.op = "interfaces" PROVE InterfacesTold(Answer(call), region, always, ever)
  <2>1. Answer(call) = InterfacesAnswer(region)
    BY <1>4 DEF Answer
  <2>2. ASSUME NEW eni \in InterfacesAnswer(region)
        PROVE  PublicIps(eni) \subseteq Here(AddressOf, region) \cap ever
    <3>1. PICK e \in Here(InterfaceOf, region) :
             eni = [id |-> e, status |-> InterfaceOf[e].status, top |-> Head1({a \in On(e) : AddressOf[a].primary}),
                    ips |-> {[primary |-> AddressOf[a].primary, ip |-> a] : a \in On(e)}]
      BY <2>2 DEF InterfacesAnswer
    <3>2. PublicIps(eni) = On(e)
      BY <3>1, InterfacesShowTheirs
    <3>3. On(e) \subseteq Here(AddressOf, region)
      BY AddressAssumption DEF On, Here
    <3>4. On(e) \subseteq Live(world.ip)
      BY NoneAssumption DEF On, Live, IsAccount, Accounts, AddressStates
    <3>5. Live(world.ip) \subseteq ever
      BY IdsTellKinds
    <3> QED BY <3>2, <3>3, <3>4, <3>5
  <2>3. ASSUME NEW a \in Here(AddressOf, region) \cap always, ~AddressOf[a].elastic
        PROVE  \E eni \in InterfacesAnswer(region) : a \in PublicIps(eni)
    <3> DEFINE e == AddressOf[a].eni
               eni == [id |-> e, status |-> InterfaceOf[e].status, top |-> Head1({b \in On(e) : AddressOf[b].primary}),
                       ips |-> {[primary |-> AddressOf[b].primary, ip |-> b] : b \in On(e)}]
    <3>1. a \in DOMAIN AddressOf /\ a \in Live(world.ip)
      BY IdsTellKinds DEF Here
    <3>2. world.ip[a] = "used"
      BY <2>3, <3>1 DEF Live, IsAccount, Accounts, AddressStates
    <3>3. a \in On(e)
      BY <3>1, <3>2 DEF On
    <3>4. e \in Here(InterfaceOf, region)
      BY <2>3, <3>1, AddressAssumption DEF Here
    <3>5. eni \in InterfacesAnswer(region)
      BY <3>4 DEF InterfacesAnswer
    <3>6. PublicIps(eni) = On(e)
      BY InterfacesShowTheirs
    <3> QED BY <3>3, <3>5, <3>6
  <2> QED BY <2>1, <2>2, <2>3 DEF InterfacesTold
<1>5. ASSUME call.op = "reserved" PROVE Answer(call) \in Seq(ReservationEntries)
  <2> DEFINE entry(r) == [id |-> r, type |-> ReservationOf[r].type, region |-> region, az |-> ReservationOf[r].az,
                          count |-> ReservationOf[r].count, end |-> ReservationOf[r].end,
                          state |-> StateOf(ReservationOf[r].end)]
             ss == [k \in DOMAIN Listing |->
                      IF ReservationOf[Listing[k]].region = region THEN <<entry(Listing[k])>> ELSE <<>>]
  <2>1. ASSUME NEW r \in DOMAIN ReservationOf PROVE entry(r) \in ReservationEntries
    <3>1. StateOf(ReservationOf[r].end) \in {"active", "retired"}
      BY DEF StateOf
    <3>2. ReservationOf[r].end \in Int \cup {None}
      BY IdsAssumption
    <3>3. region \in Places
      BY DEF Callables
    <3> HIDE DEF region
    <3> QED BY <3>1, <3>2, <3>3 DEF ReservationEntries
  <2>2. Len(Listing) \in Nat /\ DOMAIN Listing = 1 .. Len(Listing)
        /\ \A k \in DOMAIN Listing : Listing[k] \in DOMAIN ReservationOf
    BY IdsAssumption
  <2> HIDE DEF entry
  <2>3. ASSUME NEW k \in DOMAIN Listing
        PROVE  (IF ReservationOf[Listing[k]].region = region THEN <<entry(Listing[k])>> ELSE <<>>)
                  \in Seq(ReservationEntries)
    <3>1. entry(Listing[k]) \in ReservationEntries
      BY <2>1, <2>2
    <3>2. <<entry(Listing[k])>> \in Seq(ReservationEntries)
      BY <3>1
    <3> QED BY <3>2
  <2>4. ss \in Seq(Seq(ReservationEntries))
    BY <2>2, <2>3
  <2>5. Answer(call) = FlattenSeq(ss)
    BY <1>5 DEF Answer, ReservedAnswer, entry
  <2> HIDE DEF ss
  <2> QED BY <2>4, <2>5, FlattenProperties
<1>7. ASSUME call.op = "instances" PROVE Answer(call) \subseteq InstanceEntries
  <2>1. Answer(call) = InstancesAnswer(region)
    BY <1>7 DEF Answer
  <2> SUFFICES ASSUME NEW x \in InstancesAnswer(region) PROVE x \in InstanceEntries
    BY <2>1
  <2>2. PICK i \in Here(InstanceOf, region) :
           x = [id |-> i, type |-> InstanceOf[i].type, region |-> region, az |-> InstanceOf[i].az,
                state |-> IF i \in world.runs THEN "running" ELSE "stopped", spot |-> InstanceOf[i].spot]
    BY DEF InstancesAnswer
  <2>3. PICK state \in {"running", "stopped"} : state = IF i \in world.runs THEN "running" ELSE "stopped"
    OBVIOUS
  <2>4. x = InstanceEntry(i, state) /\ i \in DOMAIN InstanceOf
    BY <2>2, <2>3 DEF InstanceEntry, Here
  <2>5. x \in ShownAs(state)
    BY <2>4 DEF ShownAs
  <2> QED BY <2>3, <2>5 DEF InstanceEntries
<1>6. ASSUME call.op = "plans" PROVE \A x \in Answer(call) : PlanEntry(x)
  <2>1. Answer(call) = PlansAnswer
    BY <1>6 DEF Answer
  <2> QED BY <2>1 DEF PlansAnswer, PlanEntry
<1> QED BY <1>1, <1>2, <1>3, <1>4, <1>5, <1>6, <1>7 DEF Told

----------------------------------------------------------------------------
(* The calls of a pass, and the order they come in.                         *)

LEMMA ConcatInOrder ==
    ASSUME NEW s \in Seq(Callables), NEW t \in Seq(Callables), NEW answered,
           InOrder(s, answered), InOrder(t, answered \cup ToSet(s))
    PROVE  s \o t \in Seq(Callables) /\ InOrder(s \o t, answered)
<1> DEFINE m == Len(s)
           n == Len(t)
           st == s \o t
<1>1. /\ m \in Nat /\ n \in Nat /\ DOMAIN s = 1 .. m /\ DOMAIN t = 1 .. n
      /\ st \in Seq(Callables) /\ DOMAIN st = 1 .. m + n
      /\ \A i \in 1 .. m : st[i] = s[i]
      /\ \A i \in 1 .. n : st[i + m] = t[i]
  OBVIOUS
<1>2. ToSet(s) = {s[i] : i \in 1 .. m}
  BY EntriesAreValues
<1> HIDE DEF m, n, st
<1>3. ASSUME NEW k \in DOMAIN st, st[k].op \in DOMAIN Paired
      PROVE  Earlier(st[k]) \in answered \/ \E j \in DOMAIN st : j < k /\ st[j] = Earlier(st[k])
  <2>1. CASE k <= m
    <3>1. k \in DOMAIN s /\ st[k] = s[k]
      BY <1>1, <2>1
    <3>2. Earlier(s[k]) \in answered \/ \E j \in DOMAIN s : j < k /\ s[j] = Earlier(s[k])
      BY <1>3, <3>1 DEF InOrder
    <3>3. ASSUME NEW j \in DOMAIN s, j < k, s[j] = Earlier(s[k])
          PROVE  \E h \in DOMAIN st : h < k /\ st[h] = Earlier(st[k])
      <4>1. j \in DOMAIN st /\ st[j] = s[j]
        BY <1>1
      <4> QED BY <3>1, <3>3, <4>1
    <3> QED BY <3>1, <3>2, <3>3
  <2>2. CASE k > m
    <3>1. PICK i \in DOMAIN t : k = i + m /\ st[k] = t[i]
      <4>1. k - m \in 1 .. n /\ (k - m) + m = k
        BY <1>1, <2>2
      <4> QED BY <1>1, <4>1
    <3>2. \/ Earlier(t[i]) \in answered \/ Earlier(t[i]) \in ToSet(s)
          \/ \E j \in DOMAIN t : j < i /\ t[j] = Earlier(t[i])
      BY <1>3, <3>1 DEF InOrder
    <3>3. CASE Earlier(t[i]) \in ToSet(s)
      <4>1. PICK j \in 1 .. m : s[j] = Earlier(t[i])
        BY <1>2, <3>3
      <4>2. j \in DOMAIN st /\ j < k /\ st[j] = s[j]
        BY <1>1, <2>2
      <4>3. st[j] = Earlier(st[k])
        BY <3>1, <4>1, <4>2
      <4> QED BY <4>2, <4>3
    <3>4. ASSUME NEW j \in DOMAIN t, j < i, t[j] = Earlier(t[i])
          PROVE  \E h \in DOMAIN st : h < k /\ st[h] = Earlier(st[k])
      <4>1. j + m \in DOMAIN st /\ j + m < k /\ st[j + m] = t[j]
        BY <1>1, <3>1, <3>4
      <4> QED BY <3>1, <3>4, <4>1
    <3> QED BY <3>1, <3>2, <3>3, <3>4
  <2> QED BY <1>1, <2>1, <2>2
<1> QED BY <1>1, <1>3 DEF InOrder, st

LEMMA InOrderAfterMore ==
    ASSUME NEW calls, NEW answered, InOrder(calls, answered), NEW more, answered \subseteq more
    PROVE  InOrder(calls, more)
BY DEF InOrder

LEMMA SweepsAreInOrder ==
    ASSUME NEW sweep, \A r \in Places : <<sweep, r>> \in Legs, NEW ops \in Seq(Ops),
           \A k \in DOMAIN ops : ops[k] \in DOMAIN Paired => \E j \in DOMAIN ops : j < k /\ ops[j] = Paired[ops[k]]
    PROVE  Sweep(sweep, ops) \in Seq(Callables) /\ InOrder(Sweep(sweep, ops), {})
<1> DEFINE leg(r) == [k \in DOMAIN ops |-> [leg |-> <<sweep, Regions[r]>>, op |-> ops[k], region |-> Regions[r]]]
           ss == [r \in DOMAIN Regions |-> leg(r)]
           G == {s \in Seq(Callables) : InOrder(s, {})}
<1>1. /\ Len(Regions) \in Nat /\ DOMAIN Regions = 1 .. Len(Regions)
      /\ \A r \in DOMAIN Regions : Regions[r] \in Places
  BY IdsAssumption DEF Places, Entries
<1>2. Len(ops) \in Nat /\ DOMAIN ops = 1 .. Len(ops) /\ \A k \in DOMAIN ops : ops[k] \in Ops
  OBVIOUS
<1>3. ASSUME NEW r \in DOMAIN Regions PROVE leg(r) \in Seq(Callables) /\ InOrder(leg(r), {})
  <2>1. \A k \in DOMAIN ops : leg(r)[k] \in Callables
    BY <1>1, <1>2 DEF Callables
  <2>2. leg(r) \in Seq(Callables)
    BY <1>2, <2>1
  <2>3. ASSUME NEW k \in DOMAIN ops, ops[k] \in DOMAIN Paired
        PROVE  \E j \in DOMAIN ops : j < k /\ leg(r)[j] = Earlier(leg(r)[k])
    <3>1. PICK j \in DOMAIN ops : j < k /\ ops[j] = Paired[ops[k]]
      BY <2>3
    <3> DEFINE c == [leg |-> <<sweep, Regions[r]>>, op |-> ops[k], region |-> Regions[r]]
    <3>2. leg(r)[k] = c /\ leg(r)[j] = [leg |-> <<sweep, Regions[r]>>, op |-> ops[j], region |-> Regions[r]]
      OBVIOUS
    <3>3. Earlier(c) = [leg |-> <<sweep, Regions[r]>>, op |-> Paired[ops[k]], region |-> Regions[r]]
      BY DEF Earlier
    <3>4. leg(r)[j] = Earlier(leg(r)[k])
      BY <3>1, <3>2, <3>3
    <3> QED BY <3>1, <3>4
  <2> QED BY <2>2, <2>3 DEF InOrder
<1> HIDE DEF leg
<1>4. ss \in Seq(Seq(Callables)) /\ Len(ss) = Len(Regions)
  BY <1>1, <1>3
<1>5. <<>> \in G
  BY DEF InOrder
<1>6. ASSUME NEW k \in 1 .. Len(ss), NEW s \in G PROVE s \o ss[k] \in G
  <2>1. ss[k] \in Seq(Callables) /\ InOrder(ss[k], {})
    BY <1>1, <1>3, <1>4
  <2>2. InOrder(ss[k], {} \cup ToSet(s))
    BY <2>1, InOrderAfterMore
  <2> HIDE DEF ss
  <2> QED BY <2>1, <2>2, ConcatInOrder
<1>7. Sweep(sweep, ops) = FlattenSeq(ss)
  BY DEF Sweep, leg
<1>8. FlattenSeq(ss) \in G
  <2> HIDE DEF ss, G
  <2> QED BY <1>4, <1>5, <1>6, FlattenInduction
<1> QED BY <1>7, <1>8

LEMMA ShortSweepsAreInOrder ==
    ASSUME NEW sweep, \A r \in Places : <<sweep, r>> \in Legs, NEW op \in Ops \ DOMAIN Paired
    PROVE  Sweep(sweep, <<op>>) \in Seq(Callables) /\ InOrder(Sweep(sweep, <<op>>), {})
<1> DEFINE ops == <<op>>
<1>1. ops \in Seq(Ops) /\ \A k \in DOMAIN ops : ops[k] = op
  OBVIOUS
<1> HIDE DEF ops
<1>2. Sweep(sweep, ops) \in Seq(Callables) /\ InOrder(Sweep(sweep, ops), {})
  BY <1>1, SweepsAreInOrder
<1> QED BY <1>2 DEF ops

LEMMA CallsAreInOrder ==
    ASSUME NEW task \in Tasks
    PROVE  Calls(task) \in Seq(Callables) /\ InOrder(Calls(task), {})
<1>1. \A sweep \in {"waste", "snapshots", "public ipv4", "inventory instances", "inventory reserved"} :
         \A r \in Places : <<sweep, r>> \in Legs
  BY DEF Legs
<1>2. DOMAIN Paired = {"snapshots", "interfaces"} /\ Paired["snapshots"] = "volumes" /\ Paired["interfaces"] = "addresses"
  BY DEF Paired
<1>3. CASE task = "waste"
  <2>1. "volumes" \in Ops \ DOMAIN Paired
    BY <1>2 DEF Ops
  <2>2. Calls(task) = Sweep("waste", <<"volumes">>)
    BY <1>3 DEF Calls
  <2> QED BY <1>1, <2>1, <2>2, ShortSweepsAreInOrder
<1>4. CASE task = "snapshots"
  <2> DEFINE ops == <<"volumes", "snapshots">>
  <2>1. ops \in Seq(Ops) /\ DOMAIN ops = {1, 2}
    BY DEF Ops
  <2>2. \A k \in DOMAIN ops : ops[k] \in DOMAIN Paired => \E j \in DOMAIN ops : j < k /\ ops[j] = Paired[ops[k]]
    BY <1>2, <2>1
  <2>3. Calls(task) = Sweep("snapshots", ops)
    BY <1>4 DEF Calls
  <2> HIDE DEF ops
  <2> QED BY <1>1, <2>1, <2>2, <2>3, SweepsAreInOrder
<1>5. CASE task \in {"ipv4", "ipv4_cost"}
  <2> DEFINE ops == <<"addresses", "interfaces">>
  <2>1. ops \in Seq(Ops) /\ DOMAIN ops = {1, 2}
    BY DEF Ops
  <2>2. \A k \in DOMAIN ops : ops[k] \in DOMAIN Paired => \E j \in DOMAIN ops : j < k /\ ops[j] = Paired[ops[k]]
    BY <1>2, <2>1
  <2>3. Calls(task) = Sweep("public ipv4", ops)
    BY <1>5 DEF Calls
  <2> HIDE DEF ops
  <2> QED BY <1>1, <2>1, <2>2, <2>3, SweepsAreInOrder
<1>6. CASE task \in InventoryTasks
  <2> DEFINE instances == Sweep("inventory instances", <<"instances">>)
             reserved == Sweep("inventory reserved", <<"reserved">>)
             plans == <<[leg |-> <<"plans", BaseRegion>>, op |-> "plans", region |-> BaseRegion]>>
  <2>1. "instances" \in Ops \ DOMAIN Paired /\ "reserved" \in Ops \ DOMAIN Paired
    BY <1>2 DEF Ops
  <2>2. instances \in Seq(Callables) /\ InOrder(instances, {})
    BY <1>1, <2>1, ShortSweepsAreInOrder
  <2>3. reserved \in Seq(Callables) /\ InOrder(reserved, {})
    BY <1>1, <2>1, ShortSweepsAreInOrder
  <2>4. plans \in Seq(Callables) /\ InOrder(plans, {})
    <3>1. [leg |-> <<"plans", BaseRegion>>, op |-> "plans", region |-> BaseRegion] \in Callables
      BY DEF Callables, Legs, Ops, Places
    <3> QED BY <1>2, <3>1 DEF InOrder
  <2>5. Calls(task) = instances \o reserved \o plans
    BY <1>6 DEF Calls, InventoryTasks
  <2> HIDE DEF instances, reserved, plans
  <2>6. instances \o reserved \in Seq(Callables) /\ InOrder(instances \o reserved, {})
    BY <2>2, <2>3, InOrderAfterMore, ConcatInOrder
  <2> DEFINE both == instances \o reserved
  <2>7. InOrder(plans, {} \cup ToSet(both))
    BY <2>4, InOrderAfterMore
  <2> HIDE DEF both
  <2>8. both \o plans \in Seq(Callables) /\ InOrder(both \o plans, {})
    BY <2>4, <2>6, <2>7, ConcatInOrder DEF both
  <2> QED BY <2>5, <2>8 DEF both
<1> QED BY <1>3, <1>4, <1>5, <1>6 DEF Tasks, InventoryTasks

\* Dropping a leg, from the calls to come and from the answers, keeps them in order.
LEMMA WithoutALeg ==
    ASSUME NEW calls \in Seq(Callables), NEW answered \in SUBSET Callables, InOrder(calls, answered), NEW leg
    PROVE  /\ Without(calls, leg) \in Seq(Callables)
           /\ InOrder(Without(calls, leg), {c \in answered : c.leg # leg})
<1> DEFINE kept(k) == IF calls[k].leg # leg THEN <<calls[k]>> ELSE <<>>
           ss == [k \in DOMAIN calls |-> kept(k)]
           left == {c \in answered : c.leg # leg}
           G == {s \in Seq(Callables) : InOrder(s, left)}
<1>1. Len(calls) \in Nat /\ DOMAIN calls = 1 .. Len(calls) /\ \A k \in DOMAIN calls : calls[k] \in Callables
  OBVIOUS
<1>2. ASSUME NEW k \in DOMAIN calls
      PROVE  /\ kept(k) \in Seq(Callables)
             /\ calls[k].leg # leg => kept(k) = <<calls[k]>>
             /\ calls[k].leg = leg => kept(k) = <<>>
  <2>1. <<calls[k]>> \in Seq(Callables)
    BY <1>1
  <2> QED BY <2>1
<1> HIDE DEF kept
<1>3. ss \in Seq(Seq(Callables)) /\ Len(ss) = Len(calls)
  BY <1>1, <1>2
<1>4. <<>> \in G
  BY DEF InOrder
<1>5. ASSUME NEW k \in 1 .. Len(ss), NEW s \in G \cap Seq(Callables),
             ToSet(s) = UNION {ToSet(ss[i]) : i \in 1 .. k - 1}
      PROVE  s \o ss[k] \in G
  <2>1. k \in DOMAIN calls /\ ss[k] = kept(k)
    BY <1>1, <1>3
  <2>2. CASE calls[k].leg = leg
    <3>1. ss[k] = <<>>
      BY <1>2, <2>1, <2>2
    <3> QED BY <3>1, ConcatEmptySeq
  <2>3. CASE calls[k].leg # leg
    <3>1. ss[k] = <<calls[k]>> /\ calls[k] \in Callables
      BY <1>1, <1>2, <2>1, <2>3
    <3>2. ASSUME calls[k].op \in DOMAIN Paired PROVE Earlier(calls[k]) \in left \cup ToSet(s)
      <4>1. Earlier(calls[k]).leg # leg
        BY <2>3, <3>1 DEF Earlier, Callables
      <4>2. CASE Earlier(calls[k]) \in answered
        BY <4>1, <4>2
      <4>3. ASSUME NEW j \in DOMAIN calls, j < k, calls[j] = Earlier(calls[k])
            PROVE  Earlier(calls[k]) \in ToSet(s)
        <5>1. j \in 1 .. k - 1 /\ j \in DOMAIN ss
          BY <1>1, <2>1, <4>3
        <5>2. ss[j] = <<calls[j]>>
          BY <1>2, <4>1, <4>3
        <5>3. calls[j] \in ToSet(ss[j])
          BY <1>1, <5>2, EntriesOfOne
        <5> HIDE DEF ss
        <5> QED BY <1>5, <4>3, <5>1, <5>3
      <4> QED BY <2>1, <3>2, <4>2, <4>3 DEF InOrder
    <3>3. InOrder(ss[k], left \cup ToSet(s)) /\ ss[k] \in Seq(Callables)
      <4> DEFINE one == <<calls[k]>>
      <4>1. DOMAIN one = {1} /\ one[1] = calls[k] /\ one \in Seq(Callables)
        BY <3>1
      <4> HIDE DEF one, left
      <4>2. InOrder(one, left \cup ToSet(s))
        BY <3>2, <4>1 DEF InOrder
      <4> QED BY <3>1, <4>1, <4>2 DEF one
    <3> HIDE DEF ss, left
    <3>4. s \in Seq(Callables) /\ InOrder(s, left)
      OBVIOUS
    <3> QED BY <3>3, <3>4, ConcatInOrder
  <2> QED BY <2>2, <2>3
<1>6. Without(calls, leg) = FlattenSeq(ss)
  BY DEF Without, kept
<1>7. FlattenSeq(ss) \in G
  <2> HIDE DEF ss, G
  <2> QED BY <1>3, <1>4, <1>5, FlattenInduction
<1> QED BY <1>6, <1>7

----------------------------------------------------------------------------
(* The invariant, step by step.                                             *)

LEMMA StartStep == Init => IInv
<1> SUFFICES ASSUME Init PROVE IInv
  OBVIOUS
<1> USE DEF Init
<1>1. TypeOK
  BY IdsAssumption DEF TypeOK
<1>2. IsAccount(world)
  BY WorldsAssumption
<1>3. CallsOK /\ AnswersOK /\ InventoryOK
  BY DEF CallsOK, AnswersOK, InventoryOK
<1>4. CalendarOK
  BY DEF CalendarOK, Committed
<1> QED BY <1>1, <1>2, <1>3, <1>4 DEF IInv

\* Whatever the account becomes, what was there all along is still there.
LEMMA ChangeStep ==
    ASSUME IInv, NEW w, IsAccount(w), Change(w)
    PROVE  IInv'
<1>1. /\ world' = w /\ changes < MaxChanges /\ changes' = changes + 1
      /\ clock' = clock /\ memo' = memo /\ told' = told /\ heard' = heard
  BY DEF Change
<1>2. CASE job = None
  <2>1. job' = None
    BY <1>2 DEF Change
  <2>2. TypeOK'
    BY <1>1, <2>1, IdsAssumption DEF IInv, TypeOK
  <2>3. CallsOK' /\ AnswersOK' /\ InventoryOK' /\ CalendarOK'
    BY <1>1, <2>1 DEF IInv, CallsOK, AnswersOK, InventoryOK, CalendarOK, SentFor
  <2> QED BY <1>1, <2>2, <2>3 DEF IInv
<1>3. CASE job # None
  <2>1. DOMAIN job = JobFields /\ job' = [job EXCEPT !.always = @ \cap Has(w), !.ever = @ \cup Has(w)]
    BY <1>3 DEF IInv, CallsOK, Change
  <2>2. /\ job'.task = job.task /\ job'.got = job.got /\ job'.todo = job.todo /\ job'.kept = job.kept
        /\ job'.always = job.always \cap Has(w) /\ job'.ever = job.ever \cup Has(w)
        /\ DOMAIN job' = JobFields
    BY <2>1 DEF JobFields
  <2>3. Has(world)' = Has(w)
    BY <1>1 DEF Has, Live
  <2>4. TypeOK'
    BY <1>1, <1>3, <2>2, <2>3, IdsAssumption DEF IInv, TypeOK
  <2>5. CallsOK'
    BY <1>3, <2>2 DEF IInv, CallsOK
  <2>6. AnswersOK'
    BY <1>3, <2>2, TellingLasts DEF IInv, AnswersOK
  <2>7. InventoryOK' /\ CalendarOK'
    BY <1>1, <1>3, <2>2 DEF IInv, InventoryOK, CalendarOK, SentFor
  <2> QED BY <1>1, <2>4, <2>5, <2>6, <2>7 DEF IInv
<1> QED BY <1>2, <1>3

LEMMA AccountSteps ==
    ASSUME IInv, MoveVolume \/ TakeSnapshot \/ DeleteSnapshot \/ MoveAddress \/ StartOrStop
    PROVE  IInv'
<1> DEFINE w == world
<1>1. /\ world = [vol |-> w.vol, snaps |-> w.snaps, ip |-> w.ip, runs |-> w.runs]
      /\ w.vol \in [DOMAIN VolumeOf -> VolumeStates \cup {None, Gone}]
      /\ w.snaps \in [DOMAIN SnapshotOf -> Int \cup {None, Gone}]
      /\ w.ip \in [DOMAIN AddressOf -> AddressStates \cup {None}]
      /\ w.runs \in SUBSET DOMAIN InstanceOf
      /\ \A a \in DOMAIN AddressOf : w.ip[a] = "idle" => AddressOf[a].elastic
  BY DEF IInv, IsAccount, Accounts
<1>2. CASE MoveVolume
  <2>1. PICK v \in DOMAIN VolumeOf, m \in VolumeMoves : Change([world EXCEPT !.vol[v] = m[2]])
    BY <1>2 DEF MoveVolume
  <2>2. m[2] \in VolumeStates \cup {None, Gone}
    BY DEF VolumeMoves, VolumeStates
  <2>3. IsAccount([world EXCEPT !.vol[v] = m[2]])
    BY <1>1, <2>2 DEF IsAccount, Accounts
  <2> QED BY <2>1, <2>3, ChangeStep
<1>3. CASE TakeSnapshot
  <2>1. PICK s \in DOMAIN SnapshotOf : Change([world EXCEPT !.snaps[s] = clock])
    BY <1>3 DEF TakeSnapshot
  <2>2. clock \in Int
    BY DEF IInv, TypeOK
  <2>3. IsAccount([world EXCEPT !.snaps[s] = clock])
    BY <1>1, <2>2 DEF IsAccount, Accounts
  <2> QED BY <2>1, <2>3, ChangeStep
<1>4. CASE DeleteSnapshot
  <2>1. PICK s \in Live(world.snaps) : Change([world EXCEPT !.snaps[s] = Gone])
    BY <1>4 DEF DeleteSnapshot
  <2>2. IsAccount([world EXCEPT !.snaps[s] = Gone])
    BY <1>1 DEF IsAccount, Accounts
  <2> QED BY <2>1, <2>2, ChangeStep
<1>5. CASE MoveAddress
  <2>0. PICK a \in DOMAIN AddressOf :
           \E m \in AddressMoves(a) : world.ip[a] = m[1] /\ Change([world EXCEPT !.ip[a] = m[2]])
    BY <1>5 DEF MoveAddress
  <2>1. PICK m \in AddressMoves(a) : Change([world EXCEPT !.ip[a] = m[2]])
    BY <2>0
  <2>2. m[2] \in AddressStates \cup {None} /\ (m[2] = "idle" => AddressOf[a].elastic)
    BY NoneAssumption DEF AddressMoves, AddressStates
  <2>3. IsAccount([world EXCEPT !.ip[a] = m[2]])
    BY <1>1, <2>2 DEF IsAccount, Accounts
  <2> QED BY <2>1, <2>3, ChangeStep
<1>6. CASE StartOrStop
  <2>1. PICK i \in DOMAIN InstanceOf :
           Change([world EXCEPT !.runs = IF i \in @ THEN @ \ {i} ELSE @ \cup {i}])
    BY <1>6 DEF StartOrStop
  <2>2. IsAccount([world EXCEPT !.runs = IF i \in @ THEN @ \ {i} ELSE @ \cup {i}])
    BY <1>1 DEF IsAccount, Accounts
  <2> QED BY <2>1, <2>2, ChangeStep
<1> QED BY <1>2, <1>3, <1>4, <1>5, <1>6

LEMMA BeginStep ==
    ASSUME IInv, NEW task \in Tasks, Begin(task)
    PROVE  IInv'
<1> DEFINE cached == task \in InventoryTasks /\ Fresh
<1>1. /\ job' = [task |-> task, got |-> <<>>, always |-> Has(world), ever |-> Has(world),
                 todo |-> IF cached THEN <<>> ELSE Calls(task), kept |-> IF cached THEN memo.inv ELSE None]
      /\ clock' = clock /\ world' = world /\ memo' = memo /\ told' = told /\ heard' = heard /\ changes' = changes
  BY DEF Begin
<1>2. /\ job'.task = task /\ DOMAIN job'.got = {} /\ job'.always = Has(world) /\ job'.ever = Has(world) /\ DOMAIN job' = JobFields
      /\ job'.todo = (IF cached THEN <<>> ELSE Calls(task)) /\ job'.kept = (IF cached THEN memo.inv ELSE None)
  BY <1>1 DEF JobFields
<1>3. Has(world)' = Has(world)
  BY <1>1 DEF Has, Live
<1>4. TypeOK'
  BY <1>1, <1>2, <1>3 DEF IInv, TypeOK
<1>5. CallsOK'
  <2>1. job'.todo \in Seq(Callables) /\ InOrder(job'.todo, {})
    <3>1. <<>> \in Seq(Callables) /\ InOrder(<<>>, {})
      BY DEF InOrder
    <3> HIDE DEF cached
    <3> QED BY <1>2, <3>1, CallsAreInOrder
  <2> QED BY <1>2, <2>1 DEF CallsOK, Complete
<1>6. AnswersOK'
  BY <1>2 DEF AnswersOK
<1>7. InventoryOK'
  <2>1. cached => InventoryRight(memo.inv)
    BY DEF IInv, InventoryOK, Fresh
  <2> HIDE DEF cached
  <2> QED BY <1>1, <1>2, <2>1 DEF IInv, InventoryOK
<1>8. IsAccount(world)' /\ CalendarOK'
  BY <1>1 DEF IInv, CalendarOK, SentFor
<1> QED BY <1>4, <1>5, <1>6, <1>7, <1>8 DEF IInv

\* The next call is in order, and so are those after it.
LEMMA HeadInOrder ==
    ASSUME NEW calls \in Seq(Callables), calls # <<>>, NEW answered, InOrder(calls, answered), Complete(answered)
    PROVE  /\ Head(calls) \in Callables /\ Tail(calls) \in Seq(Callables)
           /\ InOrder(Tail(calls), answered \cup {Head(calls)}) /\ Complete(answered \cup {Head(calls)})
<1> DEFINE n == Len(calls)
           t == Tail(calls)
<1>1. /\ n \in Nat \ {0} /\ DOMAIN calls = 1 .. n /\ DOMAIN t = 1 .. n - 1
      /\ Head(calls) = calls[1] /\ \A k \in 1 .. n - 1 : t[k] = calls[k + 1]
      /\ calls[1] \in Callables /\ t \in Seq(Callables)
  OBVIOUS
<1> HIDE DEF n, t
<1>2. ASSUME NEW k \in DOMAIN t, t[k].op \in DOMAIN Paired
      PROVE  Earlier(t[k]) \in answered \cup {calls[1]} \/ \E i \in DOMAIN t : i < k /\ t[i] = Earlier(t[k])
  <2>1. PICK h \in DOMAIN calls : h = k + 1 /\ t[k] = calls[h]
    BY <1>1
  <2>2. Earlier(calls[h]) \in answered \/ \E j \in DOMAIN calls : j < h /\ calls[j] = Earlier(calls[h])
    BY <1>2, <2>1 DEF InOrder
  <2>3. ASSUME NEW j \in DOMAIN calls, j < h, calls[j] = Earlier(calls[h]), j # 1
        PROVE  \E i \in DOMAIN t : i < k /\ t[i] = Earlier(t[k])
    <3>1. PICK i \in DOMAIN t : j = i + 1
      <4>1. j - 1 \in 1 .. n - 1 /\ j = (j - 1) + 1
        BY <1>1, <2>3
      <4> QED BY <1>1, <4>1
    <3>2. i < k /\ t[i] = calls[j]
      BY <1>1, <2>1, <2>3, <3>1
    <3> QED BY <2>1, <2>3, <3>2
  <2> QED BY <2>1, <2>2, <2>3
<1>3. calls[1].op \in DOMAIN Paired => Earlier(calls[1]) \in answered
  <2>1. 1 \in DOMAIN calls /\ \A j \in DOMAIN calls : ~(j < 1)
    BY <1>1
  <2> QED BY <2>1 DEF InOrder
<1> QED BY <1>1, <1>2, <1>3 DEF InOrder, Complete, t

LEMMA AnswerStep ==
    ASSUME IInv, CallAnswered
    PROVE  IInv'
<1> DEFINE call == Head(job.todo)
           got == [c \in DOMAIN job.got \cup {call} |-> IF c = call THEN Answer(call) ELSE job.got[c]]
<1>1. /\ job # None /\ job.todo # <<>> /\ DOMAIN job = JobFields
      /\ job.todo \in Seq(Callables) /\ DOMAIN job.got \subseteq Callables
      /\ InOrder(job.todo, DOMAIN job.got) /\ Complete(DOMAIN job.got)
      /\ job.kept = None
  BY DEF CallAnswered, Busy, IInv, CallsOK, TypeOK
<1>2. /\ job' = [job EXCEPT !.todo = Tail(job.todo), !.got = got]
      /\ clock' = clock /\ world' = world /\ memo' = memo /\ told' = told /\ heard' = heard /\ changes' = changes
  BY DEF CallAnswered
<1>3. DOMAIN got = DOMAIN job.got \cup {call} /\ got[call] = Answer(call)
      /\ \A c \in DOMAIN job.got \ {call} : got[c] = job.got[c]
  OBVIOUS
<1> HIDE DEF got
<1>4. /\ job'.task = job.task /\ job'.always = job.always /\ job'.ever = job.ever /\ job'.kept = job.kept
      /\ job'.todo = Tail(job.todo) /\ job'.got = got /\ DOMAIN job' = JobFields
  BY <1>1, <1>2 DEF JobFields
<1>5. /\ call \in Callables /\ Tail(job.todo) \in Seq(Callables)
      /\ InOrder(Tail(job.todo), DOMAIN got) /\ Complete(DOMAIN got)
  BY <1>1, <1>3, HeadInOrder
<1> HIDE DEF call
<1>6. Has(world)' = Has(world)
  BY <1>2 DEF Has, Live
<1>7. TypeOK'
  BY <1>1, <1>2, <1>4, <1>6 DEF IInv, TypeOK
<1>8. CallsOK'
  BY <1>1, <1>3, <1>4, <1>5 DEF CallsOK
<1>9. AnswersOK'
  <2>1. Told(call.op, Answer(call), call.region, job.always, job.ever)
    <3>1. IsAccount(world) /\ job.always \subseteq Has(world) /\ Has(world) \subseteq job.ever
      BY <1>1 DEF IInv, TypeOK
    <3> QED BY <1>5, <3>1, AnswersAreTold
  <2>2. ASSUME NEW c \in DOMAIN got PROVE Told(c.op, got[c], c.region, job.always, job.ever)
    <3>1. CASE c = call
      BY <1>3, <2>1, <3>1
    <3>2. CASE c # call
      <4>1. c \in DOMAIN job.got /\ got[c] = job.got[c]
        BY <1>3, <3>2
      <4> QED BY <1>1, <4>1 DEF IInv, AnswersOK
    <3> QED BY <3>1, <3>2
  <2> QED BY <1>4, <2>2 DEF AnswersOK
<1>10. InventoryOK'
  BY <1>1, <1>2, <1>4 DEF IInv, InventoryOK
<1>11. IsAccount(world)' /\ CalendarOK'
  BY <1>2 DEF IInv, CalendarOK, SentFor
<1> QED BY <1>7, <1>8, <1>9, <1>10, <1>11 DEF IInv

LEMMA FailStep ==
    ASSUME IInv, CallFails
    PROVE  IInv'
<1> DEFINE leg == Head(job.todo).leg
           left == {c \in DOMAIN job.got : c.leg # leg}
           got == [c \in left |-> job.got[c]]
<1>1. /\ job # None /\ job.todo # <<>> /\ DOMAIN job = JobFields
      /\ job.todo \in Seq(Callables) /\ DOMAIN job.got \subseteq Callables
      /\ InOrder(job.todo, DOMAIN job.got) /\ Complete(DOMAIN job.got)
      /\ job.kept = None
  BY DEF CallFails, Busy, IInv, CallsOK, TypeOK
<1>2. /\ job' = [job EXCEPT !.todo = Without(job.todo, leg), !.got = got]
      /\ changes < MaxChanges /\ changes' = changes + 1
      /\ clock' = clock /\ world' = world /\ memo' = memo /\ told' = told /\ heard' = heard
  BY DEF CallFails
<1>3. DOMAIN got = left /\ left \subseteq DOMAIN job.got /\ \A c \in left : got[c] = job.got[c]
  OBVIOUS
<1>4. Complete(left)
  <2>1. ASSUME NEW c \in left, c.op \in DOMAIN Paired PROVE Earlier(c) \in left
    <3>1. Earlier(c) \in DOMAIN job.got
      BY <1>1, <2>1 DEF Complete
    <3>2. Earlier(c).leg = c.leg
      BY DEF Earlier
    <3> QED BY <3>1, <3>2
  <2> QED BY <2>1 DEF Complete
<1>5. Without(job.todo, leg) \in Seq(Callables) /\ InOrder(Without(job.todo, leg), left)
  <2> HIDE DEF leg
  <2> QED BY <1>1, WithoutALeg
<1> HIDE DEF got, left, leg
<1>6. /\ job'.task = job.task /\ job'.always = job.always /\ job'.ever = job.ever /\ job'.kept = job.kept
      /\ job'.todo = Without(job.todo, leg) /\ job'.got = got /\ DOMAIN job' = JobFields
  BY <1>1, <1>2 DEF JobFields
<1>7. Has(world)' = Has(world)
  BY <1>2 DEF Has, Live
<1>8. TypeOK'
  BY <1>1, <1>2, <1>6, <1>7, IdsAssumption DEF IInv, TypeOK
<1>9. CallsOK'
  BY <1>1, <1>3, <1>4, <1>5, <1>6 DEF CallsOK
<1>10. AnswersOK'
  BY <1>1, <1>3, <1>6 DEF IInv, AnswersOK
<1>11. InventoryOK'
  BY <1>1, <1>2, <1>6 DEF IInv, InventoryOK
<1>12. IsAccount(world)' /\ CalendarOK'
  BY <1>2 DEF IInv, CalendarOK, SentFor
<1> QED BY <1>8, <1>9, <1>10, <1>11, <1>12 DEF IInv

LEMMA WaitStep ==
    ASSUME IInv, Wait
    PROVE  IInv'
<1>1. PICK d \in Nat : clock' = clock + d
  BY IdsAssumption DEF Wait
<1>2. /\ changes < MaxChanges /\ changes' = changes + 1 /\ job = None
      /\ world' = world /\ job' = job /\ memo' = memo /\ told' = told /\ heard' = heard
  BY DEF Wait
<1>3. clock \in Nat /\ clock' \in Nat /\ clock <= clock'
  BY <1>1 DEF IInv, TypeOK
<1>4. TypeOK'
  BY <1>2, <1>3, IdsAssumption DEF IInv, TypeOK
<1>5. CallsOK' /\ AnswersOK' /\ InventoryOK' /\ IsAccount(world)'
  BY <1>2 DEF IInv, CallsOK, AnswersOK, InventoryOK
<1>6. ASSUME NEW c \in Committed, heard[c] # None
      PROVE  EndOf(c) \in Int /\ heard[c] >= DaysLeft(EndOf(c), clock')
  <2>1. EndOf(c) \in Int /\ heard[c] >= DaysLeft(EndOf(c), clock) /\ heard[c] \in Int
    BY <1>6 DEF IInv, CalendarOK, TypeOK, Committed
  <2>2. DaysLeft(EndOf(c), clock) \in Int /\ DaysLeft(EndOf(c), clock') \in Int
        /\ DaysLeft(EndOf(c), clock') <= DaysLeft(EndOf(c), clock)
    BY <1>3, <2>1, DaysOnlyPass
  <2> QED BY <2>1, <2>2
<1>7. \A key \in told : SentFor(key)'
  BY <1>2 DEF IInv, CalendarOK, SentFor
<1>8. CalendarOK'
  BY <1>2, <1>6, <1>7 DEF CalendarOK
<1> QED BY <1>4, <1>5, <1>8 DEF IInv

----------------------------------------------------------------------------
(* The end of a pass: what it has been told, and what it comes to.          *)

\* What a pass holds of a region is what a call of it was answered.
LEMMA CoveredIsTold ==
    ASSUME IInv, job # None, NEW op, NEW r
    PROVE  /\ r \in Covered(op) => Told(op, Got(op, r), r, job.always, job.ever)
           /\ (\A c \in DOMAIN job.got : ~(c.op = op /\ c.region = r)) =>
                 Got(op, r) = IF op = "reserved" THEN <<>> ELSE {}
<1> DEFINE calls == {c \in DOMAIN job.got : c.op = op /\ c.region = r}
           one == CHOOSE c \in calls : TRUE
<1>1. Got(op, r) = IF calls # {} THEN job.got[one] ELSE IF op = "reserved" THEN <<>> ELSE {}
  BY DEF Got
<1>2. calls # {} => one \in DOMAIN job.got /\ one.op = op /\ one.region = r
  OBVIOUS
<1>3. r \in Covered(op) => calls # {}
  BY DEF Covered
<1> HIDE DEF one
<1>4. calls # {} => Told(op, job.got[one], r, job.always, job.ever)
  BY <1>2 DEF IInv, AnswersOK
<1> HIDE DEF calls
<1>5. r \in Covered(op) => Told(op, Got(op, r), r, job.always, job.ever)
  BY <1>1, <1>3, <1>4
<1>6. (\A c \in DOMAIN job.got : ~(c.op = op /\ c.region = r)) => calls = {}
  BY DEF calls
<1> QED BY <1>1, <1>5, <1>6

----------------------------------------------------------------------------
(* The join of instances and reservations: no assignment does better.       *)

LEMMA UpToTakes ==
    ASSUME NEW n \in Nat, NEW S, IsFiniteSet(S)
    PROVE  /\ UpTo(n, S) \subseteq S /\ Cardinality(UpTo(n, S)) <= n
           /\ UpTo(n, S) = S \/ Cardinality(UpTo(n, S)) = n
<1>1. CASE Cardinality(S) <= n
  BY <1>1 DEF UpTo
<1>2. CASE ~(Cardinality(S) <= n)
  <2>1. n <= Cardinality(S)
    BY <1>2, FS_CardinalityType
  <2>2. \E T \in SUBSET S : Cardinality(T) = n
    BY <2>1, SubsetOfSize
  <2>3. UpTo(n, S) = CHOOSE T \in SUBSET S : Cardinality(T) = n
    BY <1>2 DEF UpTo
  <2>4. UpTo(n, S) \in SUBSET S /\ Cardinality(UpTo(n, S)) = n
    BY <2>2, <2>3
  <2> QED BY <2>4
<1> QED BY <1>1, <1>2

\* What a pool takes of what is free, and what it leaves.
Taken(pool, rest) == UpTo(pool.count, {i \in rest : Covers(pool, i)})
AreFree(free, running, pools) ==
    /\ free[0] = running
    /\ \A k \in 1 .. Len(pools) : free[k] = free[k - 1] \ Taken(pools[k], free[k - 1])
    /\ \A k \in 0 .. Len(pools) : free[k] \subseteq running

LEMMA FreeIsStepwise ==
    ASSUME NEW V, NEW pools \in Seq(V), NEW running
    PROVE  AreFree(Free(running, pools), running, pools)
<1> DEFINE n == Len(pools)
           Body(f) == [k \in 0 .. n |->
               IF k = 0 THEN running
               ELSE f[k - 1] \ UpTo(pools[k].count, {i \in f[k - 1] : Covers(pools[k], i)})]
           F == [p \in (1 .. n) \X SUBSET running |-> p[2] \ Taken(pools[p[1]], p[2])]
<1>1. Free(running, pools) = CHOOSE f : f = Body(f)
  BY DEF Free
<1>2. n \in Nat /\ running \in SUBSET running /\ F \in StepFunctions(n, SUBSET running)
  BY DEF StepFunctions
<1>3. PICK g \in [0 .. n -> SUBSET running] : Follows(g, n, running, F)
  <2> HIDE DEF n, F
  <2> QED BY <1>2, StepwiseFunction
<1>4. g[0] = running /\ \A k \in 1 .. n : g[k] = g[k - 1] \ Taken(pools[k], g[k - 1])
  <2>1. ASSUME NEW k \in 1 .. n PROVE g[k] = g[k - 1] \ Taken(pools[k], g[k - 1])
    <3>1. k - 1 \in 0 .. n /\ g[k] = F[<<k, g[k - 1]>>]
      <4> HIDE DEF F
      <4>1. g[k] = F[<<k, g[k - 1]>>]
        BY <1>3 DEF Follows
      <4> QED BY <4>1
    <3>2. g[k - 1] \in SUBSET running
      BY <3>1
    <3> QED BY <3>1, <3>2
  <2> QED BY <1>3, <2>1 DEF Follows
<1>5. g = Body(g)
  <2>1. ASSUME NEW k \in 0 .. n PROVE g[k] = Body(g)[k]
    <3>1. CASE k = 0
      BY <1>4, <3>1
    <3>2. CASE k # 0
      <4>1. k \in 1 .. n
        BY <3>2
      <4> QED BY <1>4, <3>2, <4>1 DEF Taken
    <3> QED BY <3>1, <3>2
  <2>2. DOMAIN g = 0 .. n /\ g = [k \in 0 .. n |-> g[k]]
    OBVIOUS
  <2>3. [k \in 0 .. n |-> g[k]] = [k \in 0 .. n |-> Body(g)[k]]
    BY <2>1
  <2>4. Body(g) = [k \in 0 .. n |-> Body(g)[k]]
    OBVIOUS
  <2> HIDE DEF Body
  <2> QED BY <2>2, <2>3, <2>4
<1>6. PICK free : free = Free(running, pools) /\ free = Body(free)
  <2> HIDE DEF Body
  <2> QED BY <1>1, <1>5
<1>7. free[0] = running /\ \A k \in 1 .. n : free[k] = free[k - 1] \ Taken(pools[k], free[k - 1])
  <2>1. DOMAIN free = 0 .. n /\ 0 \in 0 .. n
    BY <1>2, <1>6
  <2>2. ASSUME NEW k \in 1 .. n PROVE free[k] = free[k - 1] \ Taken(pools[k], free[k - 1])
    <3>1. k \in 0 .. n /\ k # 0
      OBVIOUS
    <3>2. Body(free)[k] = free[k - 1] \ UpTo(pools[k].count, {i \in free[k - 1] : Covers(pools[k], i)})
      BY <3>1
    <3> HIDE DEF Body
    <3> QED BY <1>6, <3>2 DEF Taken
  <2>3. Body(free)[0] = running
    BY <2>1
  <2> HIDE DEF Body
  <2> QED BY <1>6, <2>2, <2>3
<1> DEFINE S == {k \in Nat : k <= n => free[k] \subseteq running}
<1>8. 0 \in S
  BY <1>7
<1>9. ASSUME NEW k \in 0 .. n - 1, k \in S PROVE k + 1 \in S
  <2>1. PICK j \in 1 .. n : j = k + 1 /\ j - 1 = k /\ k <= n
    OBVIOUS
  <2>2. free[j] \subseteq free[k]
    BY <1>7, <2>1
  <2> QED BY <1>9, <2>1, <2>2
<1>10. 0 .. n \subseteq S
  <2> HIDE DEF S, n
  <2> QED BY <1>2, <1>8, <1>9, UpToInduction
<1>11. \A k \in 0 .. n : free[k] \subseteq running
  BY <1>10
<1> QED BY <1>6, <1>7, <1>11 DEF AreFree

\* Two sets with nothing in common.
LEMMA TogetherTheyCount ==
    ASSUME NEW S, IsFiniteSet(S), NEW T, IsFiniteSet(T), S \cap T = {}
    PROVE  /\ IsFiniteSet(S \cup T) /\ Cardinality(S) \in Nat /\ Cardinality(T) \in Nat
           /\ Cardinality(S \cup T) = Cardinality(S) + Cardinality(T)
<1>1. /\ IsFiniteSet(S \cup T)
      /\ Cardinality(S \cup T) = Cardinality(S) + Cardinality(T) - Cardinality(S \cap T)
  BY FS_Union
<1>2. Cardinality(S) \in Nat /\ Cardinality(T) \in Nat
  BY FS_CardinalityType
<1>3. Cardinality(S \cap T) = 0
  BY FS_EmptySet
<1> QED BY <1>1, <1>2, <1>3

\* What the algorithm relies on: pools are counted, zones are of one region, and the pools
\* of one zone come before those that float.
Counted(pools) == \A k \in 1 .. Len(pools) : pools[k].count \in Nat
Zoned(running) == \A i, j \in running : i.az = j.az => i.region = j.region
ZonalFirst(pools, m) ==
    /\ m \in 0 .. Len(pools)
    /\ \A k \in 1 .. Len(pools) : pools[k].az # None <=> k <= m

LEMMA FreeShrinks ==
    ASSUME NEW V, NEW pools \in Seq(V), NEW running, NEW free, AreFree(free, running, pools),
           NEW k \in 0 .. Len(pools), NEW j \in 0 .. k
    PROVE  free[k] \subseteq free[j]
<1> DEFINE n == Len(pools)
           S == {l \in Nat : l \in j .. n => free[l] \subseteq free[j]}
<1>1. n \in Nat
  OBVIOUS
<1>2. 0 \in S
  OBVIOUS
<1>3. ASSUME NEW l \in 0 .. n - 1, l \in S PROVE l + 1 \in S
  <2>1. PICK h \in 1 .. n : h = l + 1 /\ h - 1 = l
    OBVIOUS
  <2>2. free[h] \subseteq free[l]
    BY <2>1 DEF AreFree
  <2>3. CASE l \in j .. n
    BY <1>3, <2>1, <2>2, <2>3
  <2>4. CASE l \notin j .. n
    <3>1. h \in j .. n => h = j
      BY <2>1, <2>4
    <3> QED BY <2>1, <3>1
  <2> QED BY <2>3, <2>4
<1>4. 0 .. n \subseteq S
  <2> HIDE DEF S, n
  <2> QED BY <1>1, <1>2, <1>3, UpToInduction
<1> QED BY <1>4

\* An instance that is left free and those that could take its place, directly or by
\* handing their floating reservation on: every reservation for one of them is used up, and
\* by them.
Contenders(running, left, floating) ==
    {i \in running : /\ \E i0 \in left : i0.type = i.type /\ i0.region = i.region
                     /\ \E i1 \in floating : i1.type = i.type /\ i1.az = i.az}

LEMMA ContendedPoolsAreFull ==
    ASSUME NEW V, NEW pools \in Seq(V), Counted(pools), NEW m, ZonalFirst(pools, m),
           NEW running, IsFiniteSet(running), Zoned(running), NEW free, AreFree(free, running, pools),
           NEW k \in 1 .. Len(pools), NEW i \in Contenders(running, free[Len(pools)], free[m]),
           Covers(pools[k], i)
    PROVE  LET taken == Taken(pools[k], free[k - 1]) IN
             /\ Cardinality(taken) = pools[k].count
             /\ taken \subseteq Contenders(running, free[Len(pools)], free[m])
<1> DEFINE n == Len(pools)
           pool == pools[k]
           could == {j \in free[k - 1] : Covers(pool, j)}
           taken == Taken(pool, free[k - 1])
<1>1. n \in Nat /\ m \in 0 .. n /\ k \in 1 .. n /\ k - 1 \in 0 .. n /\ k \in 0 .. n
  BY DEF ZonalFirst
<1>2. /\ free[k] = free[k - 1] \ taken /\ free[k - 1] \subseteq running
      /\ free[n] \subseteq free[k] /\ free[n] \subseteq free[m] /\ free[m] \subseteq running
  <2>1. free[n] \subseteq free[k] /\ free[n] \subseteq free[m]
    <3>1. k \in 0 .. n /\ m \in 0 .. n /\ n \in 0 .. n
      BY <1>1
    <3> QED BY <3>1, FreeShrinks
  <2> QED BY <1>1, <2>1 DEF AreFree
<1>3. /\ taken \subseteq could
      /\ taken = could \/ Cardinality(taken) = pool.count
  <2>1. IsFiniteSet(could) /\ pool.count \in Nat
    BY <1>2, FS_Subset DEF Counted
  <2> HIDE DEF could
  <2>2. taken = UpTo(pool.count, could)
    BY DEF Taken, could
  <2> QED BY <2>1, <2>2, UpToTakes
<1>4. PICK i0 \in free[n], i1 \in free[m] :
         /\ i0.type = i.type /\ i0.region = i.region
         /\ i1.type = i.type /\ i1.az = i.az /\ i \in running
  BY DEF Contenders
<1>5. CASE k <= m
  <2>1. pool.az # None
    BY <1>5 DEF ZonalFirst
  <2>2. i.type = pool.type /\ i.az = pool.az
    BY <2>1 DEF Covers
  <2>3. i1 \in free[k] /\ Covers(pool, i1)
    <3>1. free[m] \subseteq free[k]
      <4>1. m \in 0 .. n /\ k \in 0 .. m
        BY <1>1, <1>5
      <4> QED BY <4>1, FreeShrinks
    <3> QED BY <1>4, <2>1, <2>2, <3>1 DEF Covers
  <2>4. i1 \in could /\ i1 \notin taken
    <3> HIDE DEF taken
    <3> QED BY <1>2, <2>3
  <2>5. Cardinality(taken) = pool.count
    <3> HIDE DEF taken, could
    <3> QED BY <1>3, <2>4
  <2>6. ASSUME NEW j \in taken PROVE j \in Contenders(running, free[n], free[m])
    <3>1. j \in running /\ Covers(pool, j)
      <4> HIDE DEF taken
      <4> QED BY <1>2, <1>3
    <3>2. j.type = i.type /\ j.az = i.az
      BY <2>1, <2>2, <3>1 DEF Covers
    <3>3. j.region = i.region
      BY <1>4, <3>1, <3>2 DEF Zoned
    <3>4. i0.type = j.type /\ i0.region = j.region /\ i1.type = j.type /\ i1.az = j.az
      BY <1>4, <3>2, <3>3
    <3> QED BY <3>1, <3>4 DEF Contenders
  <2> QED BY <2>5, <2>6
<1>6. CASE k > m
  <2>1. pool.az = None
    BY <1>1, <1>6 DEF ZonalFirst
  <2>2. i.type = pool.type /\ i.region = pool.region
    BY <2>1 DEF Covers
  <2>3. i0 \in free[k] /\ Covers(pool, i0)
    BY <1>2, <1>4, <2>1, <2>2 DEF Covers
  <2>4. i0 \in could /\ i0 \notin taken
    <3> HIDE DEF taken
    <3> QED BY <1>2, <2>3
  <2>5. Cardinality(taken) = pool.count
    <3> HIDE DEF taken, could
    <3> QED BY <1>3, <2>4
  <2>6. ASSUME NEW j \in taken PROVE j \in Contenders(running, free[n], free[m])
    <3>1. j \in free[k - 1] /\ Covers(pool, j)
      <4> HIDE DEF taken
      <4> QED BY <1>3
    <3>2. free[k - 1] \subseteq free[m]
      <4>1. k - 1 \in 0 .. n /\ m \in 0 .. k - 1
        BY <1>1, <1>6
      <4> QED BY <4>1, FreeShrinks
    <3>3. j \in running /\ j \in free[m]
      BY <1>2, <3>1, <3>2
    <3>4. i0.type = j.type /\ i0.region = j.region
      BY <1>4, <2>1, <2>2, <3>1 DEF Covers
    <3> QED BY <3>3, <3>4 DEF Contenders
  <2> QED BY <2>5, <2>6
<1> QED BY <1>1, <1>5, <1>6

\* However the running instances are put under the pools, no more of them have a place than
\* the join has given one: of the contenders at most as many as the join took, and of the
\* others at most all of them, which the join took too.
LEMMA NobodyPlacesMore ==
    ASSUME NEW V, NEW pools \in Seq(V), Counted(pools), NEW m, ZonalFirst(pools, m),
           NEW running, IsFiniteSet(running), Zoned(running), NEW free, AreFree(free, running, pools),
           NEW f \in [running -> {0} \cup 1 .. Len(pools)],
           \A i \in running : f[i] # 0 => Covers(pools[f[i]], i),
           \A k \in 1 .. Len(pools) : Cardinality({i \in running : f[i] = k}) <= pools[k].count
    PROVE  Cardinality({i \in running : f[i] # 0}) <= Cardinality(running \ free[Len(pools)])
<1> DEFINE n == Len(pools)
           Y == Contenders(running, free[n], free[m])
           Put(k) == {i \in Y : f[i] = k}
           PutUpTo(k) == {i \in Y : f[i] \in 1 .. k}
           Took(k) == Taken(pools[k], free[k - 1])
<1>1. /\ n \in Nat /\ m \in 0 .. n
      /\ free[0] = running /\ \A k \in 0 .. n : free[k] \subseteq running
      /\ \A k \in 1 .. n : free[k] = free[k - 1] \ Took(k)
  BY DEF AreFree, ZonalFirst
<1>2. Y \subseteq running /\ free[n] \subseteq Y
  <2>1. free[n] \subseteq running /\ free[n] \subseteq free[m]
    <3>1. n \in 0 .. n /\ m \in 0 .. n
      BY <1>1
    <3> QED BY <1>1, <3>1, FreeShrinks
  <2> QED BY <2>1 DEF Contenders
<1>3. ASSUME NEW k \in 1 .. n
      PROVE  /\ Took(k) \subseteq free[k - 1] /\ pools[k].count \in Nat
             /\ Put(k) # {} => Took(k) \subseteq Y /\ Cardinality(Took(k)) = pools[k].count
             /\ Cardinality(Put(k)) <= pools[k].count
  <2>1. pools[k].count \in Nat /\ k - 1 \in 0 .. n
    BY DEF Counted
  <2>2. Took(k) \subseteq free[k - 1]
    <3> DEFINE could == {i \in free[k - 1] : Covers(pools[k], i)}
    <3>1. IsFiniteSet(could)
      BY <1>1, <2>1, FS_Subset
    <3>2. UpTo(pools[k].count, could) \subseteq could
      <4> HIDE DEF could
      <4> QED BY <2>1, <3>1, UpToTakes
    <3> QED BY <3>2 DEF Taken
  <2>3. ASSUME Put(k) # {} PROVE Took(k) \subseteq Y /\ Cardinality(Took(k)) = pools[k].count
    <3>1. PICK i \in Y : f[i] = k
      BY <2>3
    <3>2. Covers(pools[k], i)
      BY <1>2, <3>1
    <3>3. i \in Contenders(running, free[Len(pools)], free[m])
      BY <3>1
    <3>4. LET taken == Taken(pools[k], free[k - 1]) IN
            /\ Cardinality(taken) = pools[k].count
            /\ taken \subseteq Contenders(running, free[Len(pools)], free[m])
      <4> HIDE DEF Y, Took, Put, PutUpTo
      <4> QED BY <3>2, <3>3, ContendedPoolsAreFull
    <3> QED BY <3>4
  <2>4. Cardinality(Put(k)) <= pools[k].count
    <3> DEFINE all == {i \in running : f[i] = k}
    <3>1. IsFiniteSet(all) /\ Put(k) \in SUBSET all
      BY <1>2, FS_Subset
    <3>2. Cardinality(all) <= pools[k].count
      OBVIOUS
    <3> HIDE DEF all, Put
    <3>3. Cardinality(Put(k)) <= Cardinality(all) /\ IsFiniteSet(Put(k))
      BY <3>1, FS_Subset
    <3>4. Cardinality(Put(k)) \in Nat /\ Cardinality(all) \in Nat
      BY <3>1, <3>3, FS_CardinalityType
    <3> QED BY <2>1, <3>2, <3>3, <3>4
  <2> QED BY <2>1, <2>2, <2>3, <2>4
<1> DEFINE S == {k \in Nat : k <= n => Cardinality(PutUpTo(k)) <= Cardinality(Y \ free[k])}
<1>4. IsFiniteSet(Y) /\ \A T : T \subseteq Y => IsFiniteSet(T) /\ Cardinality(T) \in Nat
  <2>1. IsFiniteSet(Y)
    BY <1>2, FS_Subset
  <2> HIDE DEF Y
  <2> QED BY <2>1, FS_Subset, FS_CardinalityType
<1> HIDE DEF Y, Took
<1>5. 0 \in S
  <2>1. PutUpTo(0) = {}
    OBVIOUS
  <2>2. Cardinality(PutUpTo(0)) = 0 /\ Cardinality(Y \ free[0]) \in Nat
    BY <1>4, <2>1, FS_EmptySet
  <2> HIDE DEF PutUpTo
  <2> QED BY <2>2
<1>6. ASSUME NEW l \in 0 .. n - 1, l \in S PROVE l + 1 \in S
  <2>1. PICK k \in 1 .. n : k = l + 1 /\ k - 1 = l /\ l <= n
    OBVIOUS
  <2>2. PutUpTo(k) = PutUpTo(l) \cup Put(k) /\ PutUpTo(l) \cap Put(k) = {}
    <3>1. 1 .. k = (1 .. l) \cup {k} /\ k \notin 1 .. l
      BY <2>1
    <3> QED BY <3>1
  <2>3. IsFiniteSet(PutUpTo(l)) /\ IsFiniteSet(Put(k))
    BY <1>4
  <2>4. /\ Cardinality(PutUpTo(k)) = Cardinality(PutUpTo(l)) + Cardinality(Put(k))
        /\ Cardinality(PutUpTo(l)) \in Nat /\ Cardinality(Put(k)) \in Nat
    <3> HIDE DEF PutUpTo, Put
    <3> QED BY <2>2, <2>3, TogetherTheyCount
  <2>5. Cardinality(PutUpTo(l)) <= Cardinality(Y \ free[l]) /\ Cardinality(Y \ free[l]) \in Nat
    BY <1>4, <1>6, <2>1
  <2>6. free[k] = free[l] \ Took(k) /\ Took(k) \subseteq free[l]
    BY <1>1, <1>3, <2>1
  <2>7. CASE Put(k) = {}
    <3>1. Cardinality(Put(k)) = 0
      BY <2>7, FS_EmptySet
    <3>2. Y \ free[l] \subseteq Y \ free[k] /\ IsFiniteSet(Y \ free[k])
      BY <1>4, <2>6
    <3>3. Cardinality(Y \ free[l]) <= Cardinality(Y \ free[k]) /\ Cardinality(Y \ free[k]) \in Nat
      BY <1>4, <3>2, FS_Subset
    <3>4. Cardinality(PutUpTo(k)) <= Cardinality(Y \ free[k])
      BY <2>4, <2>5, <3>1, <3>3
    <3> HIDE DEF PutUpTo
    <3> QED BY <2>1, <3>4
  <2>8. CASE Put(k) # {}
    <3>1. /\ Took(k) \subseteq Y /\ Cardinality(Took(k)) = pools[k].count
          /\ Cardinality(Put(k)) <= pools[k].count /\ pools[k].count \in Nat
      BY <1>3, <2>8
    <3>2. Y \ free[k] = (Y \ free[l]) \cup Took(k) /\ (Y \ free[l]) \cap Took(k) = {}
      BY <2>6, <3>1
    <3>3. IsFiniteSet(Y \ free[l]) /\ IsFiniteSet(Took(k))
      BY <1>4, <3>1
    <3>4. Cardinality(Y \ free[k]) = Cardinality(Y \ free[l]) + Cardinality(Took(k))
      BY <3>2, <3>3, TogetherTheyCount
    <3>5. Cardinality(PutUpTo(k)) <= Cardinality(Y \ free[k])
      <4> HIDE DEF PutUpTo, Put
      <4> QED BY <2>4, <2>5, <3>1, <3>4
    <3> HIDE DEF PutUpTo
    <3> QED BY <2>1, <3>5
  <2> QED BY <2>7, <2>8
<1>7. n \in S
  <2> HIDE DEF S, n
  <2>1. 0 .. n \subseteq S
    BY <1>1, <1>5, <1>6, UpToInduction
  <2> QED BY <1>1, <2>1
<1>8. Cardinality(PutUpTo(n)) <= Cardinality(Y \ free[n])
  BY <1>1, <1>7
<1> DEFINE rest == running \ Y
           placed == {i \in running : f[i] # 0}
<1>9. placed \subseteq rest \cup PutUpTo(n) /\ rest \cap PutUpTo(n) = {} /\ rest \cap (Y \ free[n]) = {}
      /\ rest \cup (Y \ free[n]) = running \ free[n]
  <2>1. \A i \in running : f[i] # 0 => f[i] \in 1 .. n
    OBVIOUS
  <2> QED BY <1>2, <2>1
<1>10. IsFiniteSet(rest) /\ IsFiniteSet(PutUpTo(n)) /\ IsFiniteSet(Y \ free[n])
  BY <1>4, FS_Difference
<1> HIDE DEF rest, PutUpTo, placed
<1>11. /\ Cardinality(rest \cup PutUpTo(n)) = Cardinality(rest) + Cardinality(PutUpTo(n))
       /\ IsFiniteSet(rest \cup PutUpTo(n)) /\ Cardinality(rest) \in Nat /\ Cardinality(PutUpTo(n)) \in Nat
  BY <1>9, <1>10, TogetherTheyCount
<1>12. /\ Cardinality(running \ free[n]) = Cardinality(rest) + Cardinality(Y \ free[n])
       /\ Cardinality(Y \ free[n]) \in Nat
  BY <1>9, <1>10, TogetherTheyCount
<1>13. Cardinality(placed) <= Cardinality(rest \cup PutUpTo(n)) /\ Cardinality(placed) \in Nat
  BY <1>9, <1>11, FS_Subset, FS_CardinalityType
<1>14. Cardinality(placed) <= Cardinality(running \ free[n])
  BY <1>8, <1>11, <1>12, <1>13
<1> QED BY <1>14 DEF placed

\* The pools come in two lists, those of one zone first.
LEMMA PoolsAreInOrder ==
    ASSUME NEW V, NEW reserved \in Seq(V)
    PROVE  LET pools == Order(Reserved(reserved)) IN
             pools \in Seq(V) /\ \E m : ZonalFirst(pools, m)
<1>1. Reserved(reserved) \in Seq(V)
  <2> DEFINE S == {r \in Entries(reserved) : Binding(r)}
  <2>1. Those(reserved, S) \in Seq(V \cap S)
    <3> HIDE DEF S
    <3> QED BY ThoseAreMembers
  <2>2. Seq(V \cap S) \subseteq Seq(V)
    OBVIOUS
  <2> QED BY <2>1, <2>2 DEF Reserved
<1> DEFINE list == Reserved(reserved)
           zonal == {p \in Entries(list) : p.az # None}
           floats == Entries(list) \ zonal
           a == Those(list, zonal)
           b == Those(list, floats)
<1>2. Order(list) = a \o b
  BY DEF Order
<1>3. a \in Seq(V \cap zonal) /\ b \in Seq(V \cap floats)
  <2> HIDE DEF zonal, floats, list
  <2> QED BY <1>1, ThoseAreMembers DEF list
<1>4. /\ \A k \in 1 .. Len(a) : a[k].az # None /\ a[k] \in V
      /\ \A k \in 1 .. Len(b) : b[k].az = None /\ b[k] \in V
      /\ Len(a) \in Nat /\ Len(b) \in Nat
  <2>1. \A x \in V \cap zonal : x.az # None /\ x \in V
    OBVIOUS
  <2>2. \A x \in V \cap floats : x.az = None /\ x \in V
    OBVIOUS
  <2> HIDE DEF a, b, zonal, floats
  <2> QED BY <1>3, <2>1, <2>2
<1>5. a \in Seq(V) /\ b \in Seq(V)
  <2> HIDE DEF a, b, zonal, floats
  <2>1. Seq(V \cap zonal) \subseteq Seq(V)
    OBVIOUS
  <2>2. Seq(V \cap floats) \subseteq Seq(V)
    OBVIOUS
  <2> QED BY <1>3, <2>1, <2>2
<1> HIDE DEF a, b, list
<1>6. /\ a \o b \in Seq(V) /\ Len(a \o b) = Len(a) + Len(b)
      /\ \A k \in 1 .. Len(a) + Len(b) : (a \o b)[k] = IF k <= Len(a) THEN a[k] ELSE b[k - Len(a)]
  BY <1>5, ConcatProperties
<1>7. ZonalFirst(a \o b, Len(a))
  <2>1. ASSUME NEW k \in 1 .. Len(a) + Len(b) PROVE (a \o b)[k].az # None <=> k <= Len(a)
    <3>1. CASE k <= Len(a)
      <4>1. (a \o b)[k] = a[k] /\ k \in 1 .. Len(a)
        BY <1>4, <1>6, <3>1
      <4> QED BY <1>4, <3>1, <4>1
    <3>2. CASE ~(k <= Len(a))
      <4>1. (a \o b)[k] = b[k - Len(a)] /\ k - Len(a) \in 1 .. Len(b)
        BY <1>4, <1>6, <3>2
      <4>2. b[k - Len(a)].az = None
        BY <1>4, <4>1
      <4> QED BY <3>2, <4>1, <4>2
    <3> QED BY <3>1, <3>2
  <2>2. Len(a) \in 0 .. Len(a) + Len(b)
    BY <1>4
  <2> QED BY <1>6, <2>1, <2>2 DEF ZonalFirst
<1> QED BY <1>2, <1>6, <1>7 DEF list

AreMatched(matched, free, pools) ==
    /\ DOMAIN matched = 1 .. Len(pools)
    /\ \A k \in 1 .. Len(pools) : matched[k] = Cardinality(free[k - 1]) - Cardinality(free[k])

AddsUp(matched, free, running, pools) ==
    /\ \A k \in 1 .. Len(pools) : matched[k] \in 0 .. pools[k].count
    /\ Cardinality(free[Len(pools)]) \in Nat
    /\ SumFunction(matched) + Cardinality(free[Len(pools)]) = Cardinality(running)
    /\ SumFunction(matched) = Cardinality(running \ free[Len(pools)])

\* What the pools have taken one after the other is what is no longer free.
LEMMA MatchesAddUp ==
    ASSUME NEW V, NEW pools \in Seq(V), Counted(pools),
           NEW running, IsFiniteSet(running), NEW free, AreFree(free, running, pools),
           NEW matched, AreMatched(matched, free, pools)
    PROVE  AddsUp(matched, free, running, pools)
<1> DEFINE n == Len(pools)
           Took(k) == Taken(pools[k], free[k - 1])
<1> USE DEF AreMatched
<1>1. n \in Nat
  OBVIOUS
<1>2. ASSUME NEW k \in 0 .. n PROVE IsFiniteSet(free[k]) /\ Cardinality(free[k]) \in Nat
  <2>1. free[k] \in SUBSET running
    BY DEF AreFree
  <2>2. IsFiniteSet(free[k])
    BY <2>1, FS_Subset
  <2> QED BY <2>2, FS_CardinalityType
<1>3. ASSUME NEW k \in 1 .. n PROVE matched[k] \in 0 .. pools[k].count
  <2> DEFINE could == {i \in free[k - 1] : Covers(pools[k], i)}
  <2>1. k - 1 \in 0 .. n /\ pools[k].count \in Nat
    BY DEF Counted
  <2>2. IsFiniteSet(could)
    <3>1. IsFiniteSet(free[k - 1])
      BY <1>2, <2>1
    <3> QED BY <3>1, FS_Subset
  <2>3. Took(k) \subseteq could /\ Cardinality(Took(k)) <= pools[k].count
    <3>1. Took(k) = UpTo(pools[k].count, could)
      BY DEF Taken
    <3> HIDE DEF could, Took
    <3> QED BY <2>1, <2>2, <3>1, UpToTakes
  <2>4. could \subseteq free[k - 1]
    OBVIOUS
  <2>5. free[k] = free[k - 1] \ Took(k)
    BY DEF AreFree
  <2> HIDE DEF could, Took
  <2>6. free[k] \cup Took(k) = free[k - 1] /\ free[k] \cap Took(k) = {}
    BY <2>3, <2>4, <2>5
  <2>7. IsFiniteSet(Took(k))
    BY <2>2, <2>3, FS_Subset
  <2>8. /\ Cardinality(free[k - 1]) = Cardinality(free[k]) + Cardinality(Took(k))
        /\ Cardinality(Took(k)) \in Nat /\ Cardinality(free[k]) \in Nat
    <3>1. PICK rest, took : rest = free[k] /\ took = Took(k)
      OBVIOUS
    <3>2. IsFiniteSet(rest) /\ IsFiniteSet(took) /\ rest \cap took = {} /\ rest \cup took = free[k - 1]
      <4>1. k \in 0 .. n
        BY <1>1
      <4> QED BY <1>2, <2>6, <2>7, <3>1, <4>1
    <3>3. Cardinality(rest \cup took) = Cardinality(rest) + Cardinality(took)
          /\ Cardinality(took) \in Nat /\ Cardinality(rest) \in Nat
      BY <3>2, TogetherTheyCount, FS_CardinalityType
    <3> QED BY <3>1, <3>2, <3>3
  <2>9. matched[k] = Cardinality(free[k - 1]) - Cardinality(free[k])
    OBVIOUS
  <2> QED BY <2>1, <2>3, <2>8, <2>9
<1>4. DOMAIN matched = 1 .. n /\ IsFiniteSet(1 .. n) /\ \A k \in 1 .. n : matched[k] \in Int
  <2>1. IsFiniteSet(1 .. n)
    BY <1>1, FS_Interval
  <2>2. ASSUME NEW k \in 1 .. n PROVE matched[k] \in Int
    BY <1>3 DEF Counted
  <2> QED BY <2>1, <2>2
<1> DEFINE S == {k \in Nat : k <= n => SumFunctionOnSet(matched, 1 .. k) + Cardinality(free[k]) = Cardinality(running)}
<1>5. 0 \in S
  <2>1. 1 .. 0 = {} /\ free[0] = running /\ Cardinality(running) \in Nat
    BY FS_CardinalityType DEF AreFree
  <2>2. SumFunctionOnSet(matched, 1 .. 0) = 0
    BY <2>1, SumOfEmpty
  <2> QED BY <2>1, <2>2
<1>6. ASSUME NEW l \in 0 .. n - 1, l \in S PROVE l + 1 \in S
  <2>1. PICK k \in 1 .. n : k = l + 1 /\ k - 1 = l /\ l <= n /\ k \in Nat
    OBVIOUS
  <2>2. 1 .. l \in SUBSET (1 .. n) /\ k \in (1 .. n) \ (1 .. l) /\ (1 .. l) \cup {k} = 1 .. k
    BY <2>1
  <2>3. /\ SumFunctionOnSet(matched, 1 .. l) \in Int
        /\ SumFunctionOnSet(matched, (1 .. l) \cup {k}) = matched[k] + SumFunctionOnSet(matched, 1 .. l)
    <3>1. PICK all, some : all = 1 .. n /\ some = 1 .. l
      OBVIOUS
    <3>2. /\ IsFiniteSet(all) /\ some \in SUBSET all /\ k \in all \ some
          /\ \A x \in all : matched[x] \in Int
      <4> HIDE DEF n
      <4> QED BY <1>4, <2>2, <3>1
    <3>3. /\ SumFunctionOnSet(matched, some) \in Int
          /\ SumFunctionOnSet(matched, some \cup {k}) = matched[k] + SumFunctionOnSet(matched, some)
      BY <3>2, SumWithOneMore
    <3> QED BY <3>1, <3>3
  <2>4. matched[k] = Cardinality(free[l]) - Cardinality(free[k])
    BY <2>1
  <2>5. Cardinality(free[l]) \in Nat /\ Cardinality(free[k]) \in Nat
    BY <1>2, <2>1
  <2>6. SumFunctionOnSet(matched, 1 .. l) + Cardinality(free[l]) = Cardinality(running)
    BY <1>6, <2>1
  <2>7. SumFunctionOnSet(matched, 1 .. k) + Cardinality(free[k]) = Cardinality(running)
    <3>1. PICK s, t : s = SumFunctionOnSet(matched, 1 .. l) /\ t = SumFunctionOnSet(matched, 1 .. k)
      OBVIOUS
    <3>2. s \in Int /\ t = matched[k] + s
      BY <2>2, <2>3, <3>1
    <3>3. s + Cardinality(free[l]) = Cardinality(running)
      BY <2>6, <3>1
    <3>4. t + Cardinality(free[k]) = Cardinality(running)
      BY <2>4, <2>5, <3>2, <3>3
    <3> QED BY <3>1, <3>4
  <2> QED BY <2>1, <2>7
<1>7. n \in S
  <2> HIDE DEF S, n
  <2>1. 0 .. n \subseteq S
    BY <1>1, <1>5, <1>6, UpToInduction
  <2> QED BY <1>1, <2>1
<1>8. SumFunction(matched) + Cardinality(free[n]) = Cardinality(running)
  BY <1>1, <1>4, <1>7 DEF SumFunction
<1>9. Cardinality(free[n]) \in Nat /\ SumFunction(matched) \in Int
  <2>1. n \in 0 .. n
    BY <1>1
  <2>2. SumFunctionOnSet(matched, 1 .. n) \in Int
    <3> HIDE DEF n
    <3> QED BY <1>4, SumStep
  <2> QED BY <1>2, <1>4, <2>1, <2>2 DEF SumFunction
<1>10. Cardinality(running) = Cardinality(running \ free[n]) + Cardinality(free[n])
       /\ Cardinality(running \ free[n]) \in Nat
  <2>1. free[n] \subseteq running /\ IsFiniteSet(free[n])
    <3>1. n \in 0 .. n
      BY <1>1
    <3> QED BY <1>2, <3>1 DEF AreFree
  <2>2. (running \ free[n]) \cup free[n] = running /\ (running \ free[n]) \cap free[n] = {}
    BY <2>1
  <2>3. IsFiniteSet(running \ free[n])
    BY FS_Difference
  <2> QED BY <2>1, <2>2, <2>3, TogetherTheyCount
<1>11. SumFunction(matched) = Cardinality(running \ free[n])
  BY <1>8, <1>9, <1>10
<1> QED BY <1>3, <1>8, <1>9, <1>11 DEF AddsUp

LEMMA JoinIsBest ==
    ASSUME NEW instances, IsFiniteSet(instances), Zoned(instances),
           NEW V, NEW reserved \in Seq(V), \A x \in V : x.count \in Nat, NEW plans
    PROVE  BestMatch(Join(instances, reserved, plans))
<1> DEFINE running == Instances(instances)
           pools == Order(Reserved(reserved))
           free == Free(running, pools)
           n == Len(pools)
           inv == Join(instances, reserved, plans)
           matched == [k \in 1 .. n |-> Cardinality(free[k - 1]) - Cardinality(free[k])]
           counts == [k \in 1 .. n |-> pools[k].count]
           unused == [k \in 1 .. n |-> Floor0(pools[k].count - (Cardinality(free[k - 1]) - Cardinality(free[k])))]
<1>1. running \subseteq instances
  BY DEF Instances
<1>2. IsFiniteSet(running) /\ Zoned(running)
  BY <1>1, FS_Subset DEF Zoned
<1>3. pools \in Seq(V) /\ DOMAIN pools = 1 .. n /\ Counted(pools)
  <2>1. pools \in Seq(V)
    BY PoolsAreInOrder
  <2> HIDE DEF pools
  <2>2. DOMAIN pools = 1 .. n /\ \A k \in 1 .. n : pools[k] \in V
    BY <2>1
  <2> QED BY <2>1, <2>2 DEF Counted
<1>4. PICK m : ZonalFirst(pools, m)
  BY PoolsAreInOrder
<1> HIDE DEF running, pools
<1>5. AreFree(free, running, pools)
  BY <1>3, FreeIsStepwise
<1>6. /\ inv.running = running /\ inv.uncovered = free[n]
      /\ inv.pools = [k \in DOMAIN pools |->
                        [pool |-> pools[k], matched |-> Cardinality(free[k - 1]) - Cardinality(free[k])]]
  BY DEF Join, running, pools
<1> HIDE DEF inv, free
<1>7. DOMAIN inv.pools = 1 .. n
      /\ \A k \in 1 .. n : inv.pools[k].pool = pools[k] /\ inv.pools[k].matched = Cardinality(free[k - 1]) - Cardinality(free[k])
  BY <1>3, <1>6
<1>8. MatchedCount(inv) = SumFunction(matched)
  <2>1. [k \in DOMAIN inv.pools |-> inv.pools[k].matched] = matched
    BY <1>7
  <2> HIDE DEF matched
  <2> QED BY <2>1 DEF MatchedCount, SumOver
<1>9. ReservedCount(inv) = SumFunction(counts)
  <2>1. [k \in DOMAIN inv.pools |-> inv.pools[k].pool.count] = counts
    BY <1>7
  <2> HIDE DEF counts
  <2> QED BY <2>1 DEF ReservedCount, SumOver
<1>10. UnusedReserved(inv) = SumFunction(unused)
  <2>1. [k \in DOMAIN inv.pools |-> Floor0(inv.pools[k].pool.count - inv.pools[k].matched)] = unused
    BY <1>7
  <2> HIDE DEF unused
  <2> QED BY <2>1 DEF UnusedReserved, SumOver
<1>11. /\ \A k \in 1 .. n : matched[k] \in 0 .. pools[k].count
       /\ SumFunction(matched) + Cardinality(free[n]) = Cardinality(running)
       /\ SumFunction(matched) = Cardinality(running \ free[n])
  <2>1. AreMatched(matched, free, pools)
    BY DEF AreMatched
  <2> HIDE DEF matched, n
  <2>2. AddsUp(matched, free, running, pools)
    BY <1>2, <1>3, <1>5, <2>1, MatchesAddUp
  <2> QED BY <2>2 DEF AddsUp, n
<1>12. ASSUME NEW f \in Assignments(inv)
       PROVE  Cardinality({i \in inv.running : f[i] # 0}) <= MatchedCount(inv)
  <2>1. /\ f \in [running -> {0} \cup 1 .. n]
        /\ \A i \in running : f[i] # 0 => Covers(inv.pools[f[i]].pool, i)
        /\ \A k \in 1 .. n : Cardinality({i \in running : f[i] = k}) <= inv.pools[k].pool.count
    BY <1>6, <1>7 DEF Assignments
  <2>2. \A i \in running : f[i] # 0 => Covers(pools[f[i]], i)
    <3> SUFFICES ASSUME NEW i \in running, f[i] # 0 PROVE Covers(pools[f[i]], i)
      OBVIOUS
    <3>1. f[i] \in 1 .. n
      BY <2>1
    <3> QED BY <1>7, <2>1, <3>1
  <2>3. \A k \in 1 .. n : Cardinality({i \in running : f[i] = k}) <= pools[k].count
    BY <1>7, <2>1
  <2>4. Cardinality({i \in running : f[i] # 0}) <= Cardinality(running \ free[n])
    BY <1>2, <1>3, <1>4, <1>5, <2>1, <2>2, <2>3, NobodyPlacesMore
  <2> QED BY <1>6, <1>8, <1>11, <2>4
<1>13. UnusedReserved(inv) = ReservedCount(inv) - MatchedCount(inv)
  <2>1. \A k \in 1 .. n : /\ unused[k] \in Int /\ matched[k] \in Int /\ counts[k] = unused[k] + matched[k]
    <3> SUFFICES ASSUME NEW k \in 1 .. n
                 PROVE  unused[k] \in Int /\ matched[k] \in Int /\ counts[k] = unused[k] + matched[k]
      OBVIOUS
    <3>1. matched[k] \in 0 .. pools[k].count /\ pools[k].count \in Nat
      BY <1>3, <1>11 DEF Counted
    <3>2. unused[k] = Floor0(pools[k].count - matched[k]) /\ counts[k] = pools[k].count
      OBVIOUS
    <3> HIDE DEF unused, matched, counts
    <3> QED BY <3>1, <3>2 DEF Floor0
  <2>2. DOMAIN unused = 1 .. n /\ DOMAIN matched = 1 .. n /\ DOMAIN counts = 1 .. n
    OBVIOUS
  <2>3. IsFiniteSet(1 .. n)
    <3>1. n \in Nat
      BY <1>3
    <3> QED BY <3>1, FS_Interval
  <2> HIDE DEF unused, matched, counts
  <2>4. /\ SumFunctionOnSet(unused, 1 .. n) \in Int /\ SumFunctionOnSet(matched, 1 .. n) \in Int
        /\ SumFunctionOnSet(counts, 1 .. n) = SumFunctionOnSet(unused, 1 .. n) + SumFunctionOnSet(matched, 1 .. n)
    <3>1. PICK T : T = 1 .. n
      OBVIOUS
    <3>2. IsFiniteSet(T) /\ \A x \in T : unused[x] \in Int /\ matched[x] \in Int /\ counts[x] = unused[x] + matched[x]
      <4> HIDE DEF n
      <4> QED BY <2>1, <2>3, <3>1
    <3>3. /\ SumFunctionOnSet(unused, T) \in Int /\ SumFunctionOnSet(matched, T) \in Int
          /\ SumFunctionOnSet(counts, T) = SumFunctionOnSet(unused, T) + SumFunctionOnSet(matched, T)
      BY <3>2, SumOfSums
    <3> QED BY <3>1, <3>3
  <2> QED BY <1>8, <1>9, <1>10, <2>2, <2>4 DEF SumFunction
<1>14. MatchedCount(inv) + Cardinality(inv.uncovered) = Cardinality(inv.running)
  BY <1>6, <1>8, <1>11
<1>15. BestMatch(inv)
  <2> HIDE DEF matched, counts, unused
  <2> QED BY <1>12, <1>13, <1>14 DEF BestMatch
<1> QED BY <1>15 DEF inv

LEMMA InstancesAreZoned == IsFiniteSet(InstanceEntries) /\ Zoned(InstanceEntries)
<1>1. ASSUME NEW state PROVE IsFiniteSet(ShownAs(state))
  <2> DEFINE show == [i \in DOMAIN InstanceOf |-> InstanceEntry(i, state)]
  <2>1. show \in Surjection(DOMAIN InstanceOf, ShownAs(state))
    BY DEF Surjection, ShownAs
  <2> HIDE DEF show
  <2> QED BY <2>1, ZonesAssumption, FS_Surjection
<1>2. IsFiniteSet(InstanceEntries)
  BY <1>1, FS_Union DEF InstanceEntries
<1>3. ASSUME NEW x \in InstanceEntries, NEW y \in InstanceEntries, x.az = y.az
      PROVE  x.region = y.region
  <2>1. PICK i \in DOMAIN InstanceOf : x.az = InstanceOf[i].az /\ x.region = InstanceOf[i].region
    BY DEF InstanceEntries, ShownAs, InstanceEntry
  <2>2. PICK j \in DOMAIN InstanceOf : y.az = InstanceOf[j].az /\ y.region = InstanceOf[j].region
    BY DEF InstanceEntries, ShownAs, InstanceEntry
  <2> QED BY <1>3, <2>1, <2>2, ZonesAssumption
<1> QED BY <1>2, <1>3 DEF Zoned

\* The inventory a pass goes by has the ends of the account's commitments, and its join is
\* the best there is.
LEMMA InventoryIsRight ==
    ASSUME IInv, job # None
    PROVE  InventoryRight(InventoryNow)
<1>1. CASE job.kept # None
  BY <1>1 DEF IInv, InventoryOK, InventoryNow
<1>2. CASE job.kept = None
  <2> DEFINE ss == [r \in DOMAIN Regions |-> Got("reserved", Regions[r])]
             reserved == FlattenSeq(ss)
             instances == UNION {Got("instances", r) : r \in Entries(Regions)}
             plans == Got("plans", BaseRegion)
  <2>1. InventoryNow = Join(instances, reserved, plans)
    BY <1>2 DEF InventoryNow
  <2>2. ASSUME NEW r \in Entries(Regions) PROVE Got("reserved", r) \in Seq(ReservationEntries)
    <3>1. CASE \E c \in DOMAIN job.got : c.op = "reserved" /\ c.region = r
      <4>1. r \in Covered("reserved")
        BY <3>1 DEF Covered
      <4>2. Told("reserved", Got("reserved", r), r, job.always, job.ever)
        BY <4>1, CoveredIsTold
      <4> QED BY <4>2 DEF Told
    <3>2. CASE \A c \in DOMAIN job.got : ~(c.op = "reserved" /\ c.region = r)
      <4>1. Got("reserved", r) = <<>>
        BY <3>2, CoveredIsTold
      <4>2. <<>> \in Seq(ReservationEntries)
        OBVIOUS
      <4> QED BY <4>1, <4>2
    <3> QED BY <3>1, <3>2
  <2>3. ss \in Seq(Seq(ReservationEntries))
    <3>1. Len(Regions) \in Nat /\ DOMAIN Regions = 1 .. Len(Regions)
          /\ \A r \in DOMAIN Regions : Regions[r] \in Entries(Regions)
      BY IdsAssumption DEF Entries
    <3>2. \A r \in DOMAIN Regions : Got("reserved", Regions[r]) \in Seq(ReservationEntries)
      BY <2>2, <3>1
    <3> QED BY <3>1, <3>2
  <2>4. reserved \in Seq(ReservationEntries)
    <3> HIDE DEF ss
    <3> QED BY <2>3, FlattenProperties
  <2>5. \A x \in plans : PlanEntry(x)
    <3>1. CASE \E c \in DOMAIN job.got : c.op = "plans" /\ c.region = BaseRegion
      <4>1. PICK c \in DOMAIN job.got : c.op = "plans" /\ c.region = BaseRegion
        BY <3>1
      <4> DEFINE calls == {x \in DOMAIN job.got : x.op = "plans" /\ x.region = BaseRegion}
      <4>2. PICK one \in calls : plans = job.got[one]
        BY <4>1 DEF Got
      <4> QED BY <4>2 DEF IInv, AnswersOK, Told
    <3>2. CASE \A c \in DOMAIN job.got : ~(c.op = "plans" /\ c.region = BaseRegion)
      <4>1. plans = {}
        BY <3>2, CoveredIsTold
      <4> QED BY <4>1
    <3> QED BY <3>1, <3>2
  <2>10. instances \subseteq InstanceEntries
    <3> SUFFICES ASSUME NEW r \in Entries(Regions) PROVE Got("instances", r) \subseteq InstanceEntries
      OBVIOUS
    <3>1. CASE \E c \in DOMAIN job.got : c.op = "instances" /\ c.region = r
      <4>1. r \in Covered("instances")
        BY <3>1 DEF Covered
      <4>2. Told("instances", Got("instances", r), r, job.always, job.ever)
        BY <4>1, CoveredIsTold
      <4> QED BY <4>2 DEF Told
    <3>2. CASE \A c \in DOMAIN job.got : ~(c.op = "instances" /\ c.region = r)
      <4>1. Got("instances", r) = {}
        BY <3>2, CoveredIsTold
      <4> QED BY <4>1
    <3> QED BY <3>1, <3>2
  <2> HIDE DEF ss, reserved, instances, plans
  <2>6. InventoryNow.reserved \subseteq Entries(reserved)
    BY <2>1 DEF Join
  <2>7. InventoryNow.allPlans \subseteq plans
    BY <2>1 DEF Join, SavingsPlans
  <2>8. Entries(reserved) \subseteq ReservationEntries
    BY <2>4 DEF Entries
  <2>9. \A x \in ReservationEntries : x.id \in DOMAIN ReservationOf /\ x.end = ReservationOf[x.id].end
    BY DEF ReservationEntries
  <2>11. EndsRight(InventoryNow)
    BY <2>5, <2>6, <2>7, <2>8, <2>9 DEF EndsRight
  <2>12. IsFiniteSet(instances) /\ Zoned(instances)
    BY <2>10, InstancesAreZoned, FS_Subset DEF Zoned
  <2>13. \A x \in ReservationEntries : x.count \in Nat
    BY ZonesAssumption DEF ReservationEntries
  <2>14. BestMatch(Join(instances, reserved, plans))
    BY <2>4, <2>12, <2>13, JoinIsBest
  <2> QED BY <2>1, <2>11, <2>14 DEF InventoryRight
<1> QED BY <1>1, <1>2


\* A warning is about a commitment that lapses, in the tier of the days it has left, and
\* every commitment of a tier has its warning.
LEMMA WarningsAreOfTheirTier ==
    ASSUME NEW inv, EndsRight(inv), NEW now
    PROVE  /\ \A rec \in Expiring(inv, now) :
                 LET tier == Tier(DaysLeft(EndOf(rec.id), now)) IN
                   rec.id \in Committed /\ EndOf(rec.id) \in Int /\ tier # None /\ rec.kind = ExpiryKind(tier)
           /\ \A c \in inv.reserved \cup inv.allPlans :
                 /\ c.id \in Committed /\ c.end = EndOf(c.id)
                 /\ LET tier == Tier(DaysLeft(EndOf(c.id), now)) IN
                      c.end # None /\ tier # None =>
                        \E rec \in Expiring(inv, now) : rec.id = c.id /\ rec.kind = ExpiryKind(tier)
<1> DEFINE tierOf(x) == Tier(DaysLeft(x.end, now))
           kind(x) == ExpiryKind(tierOf(x))
           due(items) == {x \in items : x.end # None /\ tierOf(x) # None}
<1>1. ASSUME NEW c \in inv.reserved \cup inv.allPlans PROVE c.id \in Committed /\ c.end = EndOf(c.id)
  BY EndOfEach DEF EndsRight, PlanEntry, Committed
<1>2. PICK f, g : Expiring(inv, now) =
         {Rec("reserved-instances", kind(r), r.id, f[r]) : r \in due(inv.reserved)}
           \cup {Rec("savings-plans", kind(p), p.id, g[p]) : p \in due(inv.allPlans)}
  <2> DEFINE onDemand(r) == InstanceQuote(r.type, r.region).amount * r.count * HOURS_PER_MONTH
             uplift(p) == (p.hourly * HOURS_PER_MONTH * SP_DISCOUNT_PCT) \div (100 - SP_DISCOUNT_PCT)
             f == [r \in due(inv.reserved) |-> (onDemand(r) * RI_DISCOUNT_PCT) \div 100]
             g == [p \in due(inv.allPlans) |-> uplift(p)]
             left == {Rec("reserved-instances", kind(r), r.id, (onDemand(r) * RI_DISCOUNT_PCT) \div 100) : r \in due(inv.reserved)}
             right == {Rec("savings-plans", kind(p), p.id, uplift(p)) : p \in due(inv.allPlans)}
  <2>1. Expiring(inv, now) = left \cup right
    BY DEF Expiring
  <2> HIDE DEF onDemand, uplift, due, kind
  <2>2. left = {Rec("reserved-instances", kind(r), r.id, f[r]) : r \in due(inv.reserved)}
    OBVIOUS
  <2>3. right = {Rec("savings-plans", kind(p), p.id, g[p]) : p \in due(inv.allPlans)}
    OBVIOUS
  <2>4. Expiring(inv, now) =
         {Rec("reserved-instances", kind(r), r.id, f[r]) : r \in due(inv.reserved)}
           \cup {Rec("savings-plans", kind(p), p.id, g[p]) : p \in due(inv.allPlans)}
    BY <2>1, <2>2, <2>3
  <2> HIDE DEF f, g
  <2> QED BY <2>4
<1>3. ASSUME NEW rec \in Expiring(inv, now)
      PROVE  \E x \in inv.reserved \cup inv.allPlans :
                x.end # None /\ tierOf(x) # None /\ rec.id = x.id /\ rec.kind = kind(x)
  <2> HIDE DEF kind, tierOf
  <2> QED BY <1>2, <1>3 DEF Rec
<1>4. ASSUME NEW c \in inv.reserved \cup inv.allPlans, c.end # None, tierOf(c) # None
      PROVE  \E rec \in Expiring(inv, now) : rec.id = c.id /\ rec.kind = kind(c)
  <2> HIDE DEF kind
  <2>1. CASE c \in inv.reserved
    <3>1. Rec("reserved-instances", kind(c), c.id, f[c]) \in Expiring(inv, now)
      BY <1>2, <1>4, <2>1
    <3> QED BY <3>1 DEF Rec
  <2>2. CASE c \in inv.allPlans
    <3>1. Rec("savings-plans", kind(c), c.id, g[c]) \in Expiring(inv, now)
      BY <1>2, <1>4, <2>2
    <3> QED BY <3>1 DEF Rec
  <2> QED BY <2>1, <2>2
<1>5. ASSUME NEW rec \in Expiring(inv, now)
      PROVE  LET tier == Tier(DaysLeft(EndOf(rec.id), now)) IN
               rec.id \in Committed /\ EndOf(rec.id) \in Int /\ tier # None /\ rec.kind = ExpiryKind(tier)
  <2>1. PICK x \in inv.reserved \cup inv.allPlans :
           x.end # None /\ tierOf(x) # None /\ rec.id = x.id /\ rec.kind = kind(x)
    BY <1>3
  <2>2. x.id \in Committed /\ x.end = EndOf(x.id)
    BY <1>1
  <2>3. EndOf(x.id) \in Int
    BY <2>1, <2>2, EndOfEach
  <2> QED BY <2>1, <2>2, <2>3
<1> QED BY <1>1, <1>4, <1>5

\* The calendar goes on: whoever is told of anew is told of the days there are now, and of
\* the others it was told before, in the tier it is still in.
LEMMA CalendarGoesOn ==
    ASSUME IInv, Finish
    PROVE  /\ heard' \in [Committed -> Int \cup {None}]
           /\ CalendarOK'
           /\ job.task = "expiry" =>
                 \A c \in {x \in InventoryNow.reserved \cup InventoryNow.allPlans : x.end # None} :
                    LET tier == Tier(DaysLeft(c.end, clock)) IN
                      tier # None => heard'[c.id] # None /\ Tier(heard'[c.id]) = tier
<1> DEFINE news == IF job.task = "expiry" THEN {r \in Recommendations : RecommendationKey(r) \notin told} ELSE {}
           named == {r.id : r \in news}
           days(c) == DaysLeft(EndOf(c), clock)
<1>1. /\ job # None /\ clock' = clock
      /\ told' = told \cup {RecommendationKey(r) : r \in news}
      /\ heard' = [c \in DOMAIN heard |-> IF c \in named THEN days(c) ELSE heard[c]]
  BY DEF Finish, Done
<1>2. heard \in [Committed -> Int \cup {None}] /\ clock \in Nat /\ None \notin Int
  BY NoneAssumption DEF IInv, TypeOK, Committed
<1>3. EndsRight(InventoryNow)
  BY <1>1, InventoryIsRight DEF InventoryRight
<1>4. job.task = "expiry" => Recommendations = Expiring(InventoryNow, clock)
  BY DEF Recommendations
<1>5. ASSUME NEW r \in news
      PROVE  /\ r.id \in Committed /\ EndOf(r.id) \in Int /\ Tier(days(r.id)) # None
             /\ r.kind = ExpiryKind(Tier(days(r.id)))
             /\ RecommendationKey(r)[2] = r.kind /\ RecommendationKey(r)[3] = r.id
  <2>1. r \in Expiring(InventoryNow, clock)
    BY <1>4
  <2>2. RecommendationKey(r)[2] = r.kind /\ RecommendationKey(r)[3] = r.id
    BY DEF RecommendationKey
  <2> HIDE DEF news
  <2> QED BY <1>3, <2>1, <2>2, WarningsAreOfTheirTier
<1>6. ASSUME NEW c \in Committed, EndOf(c) \in Int PROVE days(c) \in Int
  BY <1>2, <1>6, DaysOnlyPass
<1> HIDE DEF news
<1>7. \A c \in named : c \in Committed /\ EndOf(c) \in Int /\ days(c) \in Int /\ Tier(days(c)) # None
  BY <1>5, <1>6
<1> HIDE DEF named, days
<1>8. /\ heard' \in [Committed -> Int \cup {None}]
      /\ \A c \in Committed : heard'[c] = IF c \in named THEN days(c) ELSE heard[c]
  BY <1>1, <1>2, <1>7
<1>9. ASSUME NEW c \in Committed, heard'[c] # None PROVE EndOf(c) \in Int /\ heard'[c] >= days(c)
  <2>1. CASE c \in named
    BY <1>7, <1>8, <2>1
  <2>2. CASE c \notin named
    BY <1>8, <1>9, <2>2 DEF IInv, CalendarOK, days
  <2> QED BY <2>1, <2>2
<1>10. ASSUME NEW key \in told' PROVE SentFor(key)'
  <2>1. CASE key \in told
    <3> DEFINE c == key[3]
    <3>1. PICK t \in Tiers : key[2] = ExpiryKind(t) /\ Tier(heard[c]) \in Tiers /\ Tier(heard[c]) <= t
      BY <2>1 DEF IInv, CalendarOK, SentFor
    <3>2. c \in Committed /\ heard[c] # None /\ heard[c] \in Int /\ heard[c] >= days(c)
      BY <1>2, <2>1 DEF IInv, CalendarOK, SentFor, days
    <3> HIDE DEF c
    <3>3. CASE c \in named
      <4>1. heard'[c] = days(c) /\ days(c) \in Int /\ days(c) <= heard[c]
        BY <1>7, <1>8, <3>2, <3>3
      <4>2. Tier(heard[c]) # None
        BY <1>2, <3>1 DEF Tiers
      <4>3. Tier(days(c)) \in Tiers /\ Tier(days(c)) <= Tier(heard[c])
        BY <3>2, <4>1, <4>2, TiersTighten
      <4>4. Tier(days(c)) <= t
        BY <3>1, <4>3 DEF Tiers
      <4> QED BY <1>2, <3>1, <3>2, <4>1, <4>3, <4>4 DEF SentFor, c
    <3>4. CASE c \notin named
      <4>1. heard'[c] = heard[c]
        BY <1>8, <3>2, <3>4
      <4> QED BY <3>1, <3>2, <4>1 DEF SentFor, c
    <3> QED BY <3>3, <3>4
  <2>2. CASE key \notin told
    <3>1. PICK r \in news : key = RecommendationKey(r)
      BY <1>1, <2>2
    <3>2. key[3] = r.id /\ key[2] = ExpiryKind(Tier(days(r.id))) /\ r.id \in named
      BY <1>5, <3>1 DEF named, days
    <3>3. heard'[r.id] = days(r.id) /\ days(r.id) \in Int /\ Tier(days(r.id)) # None /\ r.id \in Committed
      BY <1>7, <1>8, <3>2
    <3>4. Tier(days(r.id)) \in Tiers /\ Tier(days(r.id)) <= Tier(days(r.id))
      BY <3>3, TiersTighten
    <3> QED BY <1>2, <3>2, <3>3, <3>4 DEF SentFor
  <2> QED BY <2>1, <2>2
<1>11. CalendarOK'
  BY <1>1, <1>9, <1>10 DEF CalendarOK, days
<1>12. ASSUME job.task = "expiry", NEW x \in InventoryNow.reserved \cup InventoryNow.allPlans, x.end # None,
              Tier(DaysLeft(x.end, clock)) # None
       PROVE  heard'[x.id] # None /\ Tier(heard'[x.id]) = Tier(DaysLeft(x.end, clock))
  <2> DEFINE c == x.id
             tier == Tier(days(c))
  <2>1. c \in Committed /\ x.end = EndOf(c) /\ EndOf(c) \in Int
    BY <1>3, <1>12, EndOfEach, WarningsAreOfTheirTier
  <2>2. tier = Tier(DaysLeft(x.end, clock)) /\ tier # None
    BY <1>12, <2>1 DEF days
  <2>3. PICK rec \in Recommendations : rec.id = c /\ rec.kind = ExpiryKind(tier)
    BY <1>3, <1>4, <1>12, <2>1, <2>2, WarningsAreOfTheirTier DEF days
  <2>4. days(c) \in Int
    BY <1>6, <2>1 DEF days
  <2> HIDE DEF c
  <2>5. tier \in Tiers
    BY <2>2, <2>4, TiersTighten
  <2>6. CASE c \in named
    BY <1>2, <1>8, <2>1, <2>2, <2>4, <2>6 DEF c
  <2>7. CASE c \notin named
    <3>1. RecommendationKey(rec) \in told
      BY <1>12, <2>3, <2>7 DEF named, news
    <3>2. SentFor(RecommendationKey(rec)) /\ RecommendationKey(rec)[3] = c /\ RecommendationKey(rec)[2] = ExpiryKind(tier)
      BY <2>3, <3>1 DEF IInv, CalendarOK, RecommendationKey
    <3>3. PICK t \in Tiers : /\ ExpiryKind(tier) = ExpiryKind(t) /\ heard[c] # None
                             /\ Tier(heard[c]) \in Tiers /\ Tier(heard[c]) <= t
      BY <3>2 DEF SentFor
    <3>4. t = tier
      BY <2>5, <3>3, TiersTighten
    <3>5. heard[c] \in Int /\ heard[c] >= days(c)
      BY <1>2, <2>1, <3>3 DEF IInv, CalendarOK, days
    <3>6. Tier(heard[c]) # None
      BY <1>2, <3>3 DEF Tiers
    <3>7. tier <= Tier(heard[c])
      BY <2>4, <3>5, <3>6, TiersTighten
    <3>8. Tier(heard[c]) = tier
      BY <2>5, <3>3, <3>4, <3>7 DEF Tiers
    <3> QED BY <1>8, <2>1, <2>2, <2>7, <3>3, <3>8 DEF c
  <2> QED BY <2>6, <2>7
<1> QED BY <1>8, <1>11, <1>12

LEMMA FinishStep ==
    ASSUME IInv, Finish
    PROVE  IInv'
<1>1. /\ job # None /\ job' = None /\ clock' = clock /\ world' = world /\ changes' = changes
      /\ memo' = IF job.task \in InventoryTasks /\ job.kept = None THEN [at |-> clock, inv |-> InventoryNow] ELSE memo
  BY DEF Finish, Done
<1>2. heard' \in [Committed -> Int \cup {None}] /\ CalendarOK'
  BY CalendarGoesOn
<1>3. InventoryRight(InventoryNow)
  BY <1>1, InventoryIsRight
<1>4. memo' # None => memo'.at \in 0 .. clock /\ InventoryRight(memo'.inv)
  BY <1>1, <1>3 DEF IInv, TypeOK, InventoryOK
<1>5. TypeOK' /\ CallsOK' /\ AnswersOK' /\ InventoryOK' /\ IsAccount(world)'
  BY <1>1, <1>2, <1>4 DEF IInv, TypeOK, CallsOK, AnswersOK, InventoryOK, Committed
<1> QED BY <1>2, <1>5 DEF IInv

LEMMA NextStep ==
    ASSUME IInv, [Next]_vars
    PROVE  IInv'
<1>1. CASE UNCHANGED vars
  <2>1. /\ clock' = clock /\ world' = world /\ job' = job /\ memo' = memo /\ told' = told
        /\ heard' = heard /\ changes' = changes
    BY <1>1 DEF vars
  <2>2. TypeOK' /\ CallsOK' /\ AnswersOK' /\ InventoryOK'
    BY <2>1 DEF IInv, TypeOK, CallsOK, AnswersOK, InventoryOK, Has, Live
  <2>3. IsAccount(world)' /\ CalendarOK'
    BY <2>1 DEF IInv, CalendarOK, SentFor
  <2> QED BY <2>2, <2>3 DEF IInv
<1>2. CASE Next
  BY <1>2, BeginStep, AnswerStep, FailStep, FinishStep, WaitStep, AccountSteps DEF Next
<1> QED BY <1>1, <1>2

\* A pass holds what it was answered, and the answers are true of what the account had all
\* along and at some moment: IInv is an invariant.
THEOREM PassesAreSound == Spec => []IInv
<1>1. Init => IInv
  BY StartStep
<1>2. IInv /\ [Next]_vars => IInv'
  BY NextStep
<1> QED BY <1>1, <1>2, PTL DEF Spec

\* No way to put the running instances under the reservations covers more of them than the
\* one the collectors of commitments go by, fresh or kept.
THEOREM NoMatchIsBetter == Spec => []MatchIsBest
<1>1. IInv => MatchIsBest
  BY InventoryIsRight DEF MatchIsBest, Done, InventoryRight
<1> QED BY <1>1, PassesAreSound, PTL

\* After every pass of the calendar, the last that was heard of a commitment is of the tier
\* it is in now.
THEOREM TighterTiersAreHeard == Spec => EscalationIsHeard
<1>1. IInv /\ Finish /\ job.task = "expiry" =>
         \A c \in {x \in InventoryNow.reserved \cup InventoryNow.allPlans : x.end # None} :
            LET tier == Tier(DaysLeft(c.end, clock)) IN
              tier # None => heard'[c.id] # None /\ Tier(heard'[c.id]) = tier
  BY CalendarGoesOn
<1> QED BY <1>1, PassesAreSound, PTL DEF EscalationIsHeard

----------------------------------------------------------------------------
(* Snapshots.                                                               *)

\* Whoever holds the second listing of a leg holds the first.
LEMMA FirstComesWithSecond ==
    ASSUME IInv, job # None
    PROVE  /\ Covered("snapshots") \subseteq Covered("volumes")
           /\ Covered("interfaces") \subseteq Covered("addresses")
<1>1. ASSUME NEW op \in DOMAIN Paired, NEW r \in Covered(op) PROVE r \in Covered(Paired[op])
  <2>1. PICK c \in DOMAIN job.got : c.op = op /\ c.region = r
    BY DEF Covered
  <2>2. Earlier(c) \in DOMAIN job.got
    BY <2>1 DEF IInv, CallsOK, Complete
  <2>3. Earlier(c).op = Paired[op] /\ Earlier(c).region = r
    BY <2>1 DEF Earlier
  <2> QED BY <2>2, <2>3 DEF Covered
<1>2. DOMAIN Paired = {"snapshots", "interfaces"} /\ Paired["snapshots"] = "volumes" /\ Paired["interfaces"] = "addresses"
  BY DEF Paired
<1> QED BY <1>1, <1>2

LEMMA OrphansHaveNoVolume == IInv => SnapshotsJudgedRight
<1> SUFFICES ASSUME IInv, Done, job.task = "snapshots", NEW rec \in Recommendations, rec.kind = "orphaned-snapshot"
             PROVE  /\ SnapshotOf[rec.id].source \in DOMAIN VolumeOf
                    /\ ~({rec.id, SnapshotOf[rec.id].source} \subseteq job.always)
  BY DEF SnapshotsJudgedRight
<1>1. job # None
  BY DEF Done
<1>2. PICK r \in Covered("snapshots") :
         rec \in StaleSnapshots(Got("snapshots", r), {v.id : v \in Got("volumes", r)}, clock)
  BY DEF Recommendations
<1> DEFINE live == {v.id : v \in Got("volumes", r)}
<1>3. PICK s \in Got("snapshots", r) : Orphaned(s, live) /\ rec.id = s.id
  <2> HIDE DEF live
  <2>1. rec \in StaleSnapshots(Got("snapshots", r), live, clock)
    BY <1>2 DEF live
  <2> QED BY <2>1 DEF StaleSnapshots, SnapshotRec, Rec
<1>4. SnapshotsTold(Got("snapshots", r), r) /\ VolumesTold(Got("volumes", r), r, job.always)
  BY <1>1, CoveredIsTold, FirstComesWithSecond DEF Told
<1> DEFINE source == SnapshotOf[s.id].source
<1>5. s.id \in Here(SnapshotOf, r) /\ s.source = source
  BY <1>4 DEF SnapshotsTold, SnapshotEntry
<1>6. source \in VolumeSources \ {Placeholder} /\ source \notin live
  BY <1>3, <1>5 DEF Orphaned
<1> HIDE DEF live
<1>7. source \in Here(VolumeOf, r)
  BY <1>5, <1>6, StorageAssumption DEF Here
<1>8. source \notin job.always
  BY <1>4, <1>6, <1>7 DEF VolumesTold, live
<1> QED BY <1>3, <1>7, <1>8 DEF Here

\* A snapshot offered as that of a deleted volume is one.
THEOREM NoLiveVolumesSnapshot == Spec => []OrphansAreOrphans
<1>1. IInv => OrphansAreOrphans
  BY OrphansHaveNoVolume DEF IInv, OrphansAreOrphans
<1> QED BY <1>1, PassesAreSound, PTL

----------------------------------------------------------------------------
(* Volumes.                                                                 *)

\* A rate is the table's where it has one, or the default's.
LEMMA RatesAreTheTables ==
    ASSUME NEW region, NEW path
    PROVE  \/ \E amount \in Nat :
                 /\ \A default : Rate(region, path, default).amount = amount
                 /\ Lookup(region, path).amount = amount
           \/ /\ \A default : Rate(region, path, default).amount = default
              /\ Lookup(region, path) = None
              /\ <<BaseRegion, path>> \notin DOMAIN Book
<1> DEFINE at == {r \in {region, BaseRegion} : <<r, path>> \in DOMAIN Book}
           where == IF region \in at THEN region ELSE BaseRegion
           quote == [amount |-> Book[<<where, path>>], region |-> where, approximate |-> where # region]
<1>1. Lookup(region, path) = IF at = {} THEN None ELSE quote
  BY DEF Lookup
<1>2. at # {} => quote.amount \in Nat /\ quote # None
  <2> SUFFICES ASSUME at # {} PROVE quote.amount \in Nat /\ quote # None
    OBVIOUS
  <2>1. <<where, path>> \in DOMAIN Book
    OBVIOUS
  <2>2. Book[<<where, path>>] \in Nat
    BY <2>1, BookAssumption
  <2>3. where \in {entry[1] : entry \in DOMAIN Book}
    <3> HIDE DEF where
    <3>1. where = <<where, path>>[1]
      OBVIOUS
    <3> QED BY <2>1, <3>1
  <2> HIDE DEF where
  <2>4. quote \in [amount : Nat, region : {entry[1] : entry \in DOMAIN Book}, approximate : BOOLEAN]
    BY <2>2, <2>3
  <2> QED BY <2>2, <2>4, BookAssumption
<1>3. <<BaseRegion, path>> \in DOMAIN Book => at # {}
  OBVIOUS
<1> HIDE DEF at, quote
<1>4. \A d : Rate(region, path, d).amount = IF at # {} THEN quote.amount ELSE d
  <2> SUFFICES ASSUME NEW d PROVE Rate(region, path, d).amount = IF at # {} THEN quote.amount ELSE d
    OBVIOUS
  <2>1. CASE at # {}
    BY <1>1, <1>2, <2>1 DEF Rate
  <2>2. CASE at = {}
    BY <1>1, <2>2 DEF Rate
  <2> QED BY <2>1, <2>2
<1>5. CASE at # {}
  <2>1. PICK amount \in Nat : amount = quote.amount
    BY <1>2, <1>5
  <2>2. (\A d : Rate(region, path, d).amount = amount) /\ Lookup(region, path).amount = amount
    BY <1>1, <1>4, <1>5, <2>1
  <2> QED BY <2>2
<1>6. CASE at = {}
  BY <1>1, <1>3, <1>4, <1>6
<1> QED BY <1>5, <1>6

LEMMA RatesAreWhole ==
    ASSUME NEW region, NEW path, NEW default \in Nat
    PROVE  Rate(region, path, default).amount \in Nat
BY RatesAreTheTables

LEMMA ProvisionedIsWhole ==
    ASSUME NEW region, NEW size \in Nat
    PROVE  /\ ProvisionedQuote("gp3", region, Gp2Performance(size)).amount \in Int
           /\ ProvisionedQuote("gp2", region, Gp2Performance(size)).amount = 0
<1> DEFINE performance == Gp2Performance(size)
<1>1. performance.iops \in Int /\ performance.throughput \in Int
  BY DEF Gp2Performance
<1>2. Gp3Free.iops \in Int /\ Gp3Free.throughput \in Int
  BY DEF Gp3Free
<1> HIDE DEF performance
<1> DEFINE billed(type) == IF type \in DOMAIN Provisioned THEN Provisioned[type] ELSE {}
           over(type, what) == performance[what] - IF type = "gp3" THEN Gp3Free[what] ELSE 0
           quote(type, what) == Lookup(region, ChargePath(what, type))
           charged(type) == {what \in billed(type) : over(type, what) > 0 /\ quote(type, what) # None}
           cost(type, what) == IF what \in charged(type) THEN quote(type, what).amount * over(type, what) ELSE 0
<1>3. \A type \in {"gp2", "gp3"} :
         ProvisionedQuote(type, region, performance).amount = cost(type, "iops") + cost(type, "throughput")
  BY DEF ProvisionedQuote
<1>4. charged("gp2") = {}
  BY DEF Provisioned
<1>5. ASSUME NEW what \in {"iops", "throughput"} PROVE over("gp3", what) \in Int
  BY <1>1, <1>2
<1> HIDE DEF over, billed
<1>6. ASSUME NEW what \in {"iops", "throughput"} PROVE cost("gp3", what) \in Int
  <2>1. CASE what \in charged("gp3")
    <3>1. quote("gp3", what).amount \in Int
      <4>1. PICK path : path = ChargePath(what, "gp3")
        OBVIOUS
      <4>2. Lookup(region, path) # None
        BY <2>1, <4>1
      <4>3. Lookup(region, path).amount \in Nat
        BY <4>2, RatesAreTheTables
      <4> QED BY <4>1, <4>3
    <3> HIDE DEF quote
    <3> QED BY <1>5, <3>1
  <2>2. CASE what \notin charged("gp3")
    BY <2>2
  <2> QED BY <2>1, <2>2
<1>7. cost("gp2", "iops") = 0 /\ cost("gp2", "throughput") = 0
  BY <1>4
<1> HIDE DEF cost
<1> QED BY <1>3, <1>6, <1>7 DEF performance

\* What a gp2 volume is said to save is what it costs less what a gp3 one of its performance does.
LEMMA SavingIsTheDifference ==
    ASSUME NEW size \in Nat, NEW region, NEW iops \in {None, Gp2Performance(size).iops},
           Gp3Saving(size, region, iops) > 0
    PROVE  EbsQuote("gp2", size, region, Gp2Performance(size)).amount - Gp3Saving(size, region, iops)
              = EbsQuote("gp3", size, region, Gp2Performance(size)).amount
<1> DEFINE base == Gp2Performance(size)
           gp2 == Rate(region, <<"ebs_gb_month", "gp2">>, EbsDefault).amount
           gp3 == Rate(region, <<"ebs_gb_month", "gp3">>, 80).amount
           extra == ProvisionedQuote("gp3", region, base).amount
<1>1. EbsDefault \in Nat
  BY RatesAreWhole DEF EbsDefault, BaseRate
<1>2. gp2 \in Nat /\ gp3 \in Nat /\ extra \in Int
  BY <1>1, RatesAreWhole, ProvisionedIsWhole
<1>3. Rate(region, <<"ebs_gb_month", "gp3">>, EbsDefault).amount = gp3
  <2>1. PICK path : path = <<"ebs_gb_month", "gp3">>
    OBVIOUS
  <2>2. <<BaseRegion, path>> \in DOMAIN Book
    BY <2>1, BookAssumption
  <2>3. Rate(region, path, EbsDefault).amount = Rate(region, path, 80).amount
    BY <2>2, RatesAreTheTables
  <2> QED BY <2>1, <2>3
<1>4. EbsQuote("gp2", size, region, base).amount = gp2 * size + 0
  BY ProvisionedIsWhole DEF EbsQuote
<1>5. EbsQuote("gp3", size, region, base).amount = gp3 * size + extra
  BY <1>3 DEF EbsQuote
<1>6. (IF iops = None THEN base ELSE [base EXCEPT !.iops = iops]) = base
  BY DEF Gp2Performance
<1>7. Gp3Saving(size, region, iops) = Floor0((gp2 - gp3) * size - extra)
  BY <1>6 DEF Gp3Saving
<1> HIDE DEF gp2, gp3, extra, base
<1>8. Gp3Saving(size, region, iops) = (gp2 - gp3) * size - extra
  BY <1>2, <1>7 DEF Floor0
<1>9. (gp2 - gp3) * size = gp2 * size - gp3 * size
  BY <1>2
<1>10. gp2 * size \in Int /\ gp3 * size \in Int
  BY <1>2
<1> QED BY <1>2, <1>4, <1>5, <1>8, <1>9, <1>10 DEF base

LEMMA SavingsAreTheDifference == IInv => MigrationPays
<1> DEFINE v(rec) == VolumeOf[rec.id]
           bill(rec, type) == EbsQuote(type, v(rec).size, v(rec).region, Gp2Performance(v(rec).size)).amount
<1> SUFFICES ASSUME IInv, Done, job.task = "waste", NEW rec \in Recommendations, rec.kind = "gp2-gp3"
             PROVE  bill(rec, "gp2") - rec.saving = bill(rec, "gp3")
  BY DEF MigrationPays
<1>1. PICK r \in Covered("volumes") : rec \in Waste(Got("volumes", r), r)
  BY DEF Recommendations
<1>2. PICK x \in Got("volumes", r) :
         x.type = "gp2" /\ Migration(x, r) > 0 /\ rec.id = x.id /\ rec.saving = Migration(x, r)
  BY <1>1 DEF Waste, Unattached, Gp2ToGp3, Rec
<1>3. VolumesTold(Got("volumes", r), r, job.always)
  BY CoveredIsTold DEF Told, Done
<1>4. /\ x.id \in DOMAIN VolumeOf /\ VolumeOf[x.id].region = r
      /\ x.type = VolumeOf[x.id].type /\ x.size = VolumeOf[x.id].size /\ x.iops = VolumeOf[x.id].iops
  BY <1>3 DEF VolumesTold, VolumeEntry, Here
<1> DEFINE iops == IF x.iops = 0 THEN None ELSE x.iops
<1>5. x.size \in Nat /\ iops \in {None, Gp2Performance(x.size).iops}
  BY <1>2, <1>4, StorageAssumption
<1>6. Migration(x, r) = Gp3Saving(x.size, r, iops)
  BY DEF Migration
<1> HIDE DEF iops
<1>7. EbsQuote("gp2", x.size, r, Gp2Performance(x.size)).amount - Migration(x, r)
         = EbsQuote("gp3", x.size, r, Gp2Performance(x.size)).amount
  BY <1>2, <1>5, <1>6, SavingIsTheDifference
<1> QED BY <1>2, <1>4, <1>7

\* Moving a volume to gp3 is said to save what it does save.
THEOREM MigrationSavesThat == Spec => []MigrationPays
<1>1. IInv => MigrationPays
  BY SavingsAreTheDifference
<1> QED BY <1>1, PassesAreSound, PTL

----------------------------------------------------------------------------
(* Addresses.                                                               *)

Own(here) == {a \in here : AddressOf[a].byoip}

\* What is billed in a region lies between what it paid for all along and what it ever paid for.
LEMMA BilledIsPaidFor ==
    ASSUME IInv, job # None, NEW r \in Covered("interfaces"), NEW here, here = Here(AddressOf, r),
           NEW billed, billed = Billable(Got("addresses", r), Got("interfaces", r))
    PROVE  /\ (here \ Own(here)) \cap job.always \subseteq billed
           /\ billed \subseteq ((here \ Own(here)) \cap job.ever) \cup (Own(here) \cap (job.ever \ job.always))
<1> DEFINE eips == Got("addresses", r)
           enis == Got("interfaces", r)
<1>1. AddressesTold(eips, r, job.always, job.ever) /\ InterfacesTold(enis, r, job.always, job.ever)
  BY CoveredIsTold, FirstComesWithSecond DEF Told
<1> HIDE DEF eips, enis
<1>2. billed = (Named({e.ip : e \in {x \in eips : ~x.byoip}}) \cup (UNION {PublicIps(eni) : eni \in enis})) \ Byoip(eips)
  BY DEF Billable, eips, enis
<1>3. here \subseteq DOMAIN AddressOf /\ None \notin here
  BY NoneAssumption DEF Here
<1>4. \A x \in eips : x.ip \in here \cap job.ever /\ x.byoip = AddressOf[x.ip].byoip
  BY <1>1 DEF AddressesTold, AddressEntry
<1>5. \A a \in here \cap job.always : AddressOf[a].elastic => \E x \in eips : x.ip = a
  <2> SUFFICES ASSUME NEW a \in here \cap job.always, AddressOf[a].elastic PROVE \E x \in eips : x.ip = a
    OBVIOUS
  <2>1. a \in {x.ip : x \in eips}
    BY <1>1 DEF AddressesTold
  <2> QED BY <2>1
<1>6. /\ \A eni \in enis : PublicIps(eni) \subseteq here \cap job.ever
      /\ \A a \in here \cap job.always : ~AddressOf[a].elastic => \E eni \in enis : a \in PublicIps(eni)
  BY <1>1 DEF InterfacesTold
<1>7. \A a \in here : AddressOf[a].byoip \in BOOLEAN /\ (AddressOf[a].byoip => AddressOf[a].elastic)
  BY <1>3, AddressAssumption
<1>8. \A a \in Byoip(eips) : a \in Own(here)
  BY <1>4 DEF Byoip, Named, Own
<1>9. ASSUME NEW a \in (here \ Own(here)) \cap job.always PROVE a \in billed
  <2>1. a \notin Byoip(eips) /\ ~AddressOf[a].byoip /\ a # None
    BY <1>3, <1>7, <1>8 DEF Own
  <2>2. CASE AddressOf[a].elastic
    <3>1. PICK x \in eips : x.ip = a
      BY <1>5, <2>2
    <3>2. ~x.byoip
      BY <1>4, <2>1, <3>1
    <3>3. a \in Named({e.ip : e \in {y \in eips : ~y.byoip}})
      BY <2>1, <3>1, <3>2 DEF Named
    <3> QED BY <1>2, <2>1, <3>3
  <2>3. CASE ~AddressOf[a].elastic
    <3>1. PICK eni \in enis : a \in PublicIps(eni)
      BY <1>6, <2>3
    <3> QED BY <1>2, <2>1, <3>1
  <2> QED BY <2>2, <2>3
<1>10. ASSUME NEW a \in billed
       PROVE  a \in ((here \ Own(here)) \cap job.ever) \cup (Own(here) \cap (job.ever \ job.always))
  <2>1. a \in here \cap job.ever
    <3>1. CASE a \in Named({e.ip : e \in {x \in eips : ~x.byoip}})
      BY <1>4, <3>1 DEF Named
    <3>2. CASE a \in UNION {PublicIps(eni) : eni \in enis}
      BY <1>6, <3>2
    <3> QED BY <1>2, <3>1, <3>2
  <2>2. ASSUME a \in Own(here), a \in job.always PROVE FALSE
    <3>1. AddressOf[a].byoip /\ AddressOf[a].elastic /\ a # None
      BY <1>3, <1>7, <2>1, <2>2 DEF Own
    <3>2. PICK x \in eips : x.ip = a
      BY <1>5, <2>1, <2>2, <3>1
    <3>3. x.byoip
      BY <1>4, <3>1, <3>2
    <3>4. a \in Byoip(eips)
      BY <3>1, <3>2, <3>3 DEF Byoip, Named
    <3> QED BY <1>2, <3>4
  <2> QED BY <2>1, <2>2
<1> QED BY <1>9, <1>10

\* The sum over the records of a region, which are one or none.
LEMMA SumOfOneRecord ==
    /\ SumOver(LAMBDA rec : rec.addresses, {}) = 0
    /\ \A x : x.addresses \in Nat => SumOver(LAMBDA rec : rec.addresses, {x}) = x.addresses
<1>1. \A S : SumOver(LAMBDA rec : rec.addresses, S) = SumFunctionOnSet([rec \in S |-> rec.addresses], S)
  BY DEF SumOver, SumFunction
<1>2. SumOver(LAMBDA rec : rec.addresses, {}) = 0
  BY <1>1, SumOfEmpty
<1>3. ASSUME NEW x, x.addresses \in Nat PROVE SumOver(LAMBDA rec : rec.addresses, {x}) = x.addresses
  <2> DEFINE f == [rec \in {x} |-> rec.addresses]
  <2>1. IsFiniteSet({x}) /\ {x} \ {x} = {}
    BY FS_Singleton
  <2>2. \A y \in {x} : f[y] \in Int
    BY <1>3
  <2>3. SumFunctionOnSet(f, {x}) = f[x] + SumFunctionOnSet(f, {})
    <3> HIDE DEF f
    <3> QED BY <2>1, <2>2, SumStep
  <2>4. SumFunctionOnSet(f, {x}) = x.addresses
    BY <1>3, <2>3, SumOfEmpty
  <2>5. SumOver(LAMBDA rec : rec.addresses, {x}) = SumFunctionOnSet(f, {x})
    BY <1>1
  <2> QED BY <2>4, <2>5
<1> QED BY <1>2, <1>3

LEMMA AddressesAreCountedOnce == IInv => AddressesCountedOnce
<1> DEFINE records(r) == {x \in Records : x.region = r}
           n(r) == SumOver(LAMBDA rec : rec.addresses, records(r))
           here(r) == Here(AddressOf, r)
<1> SUFFICES ASSUME IInv, Done, job.task = "ipv4_cost", NEW r \in Covered("interfaces")
             PROVE  /\ Cardinality((here(r) \ Own(here(r))) \cap job.always) <= n(r)
                    /\ n(r) <= Cardinality(((here(r) \ Own(here(r))) \cap job.ever)
                                             \cup (Own(here(r)) \cap (job.ever \ job.always)))
  BY DEF AddressesCountedOnce, Own
<1> DEFINE billed == Billable(Got("addresses", r), Got("interfaces", r))
           low == (here(r) \ Own(here(r))) \cap job.always
           high == ((here(r) \ Own(here(r))) \cap job.ever) \cup (Own(here(r)) \cap (job.ever \ job.always))
<1>1. low \subseteq billed /\ billed \subseteq high
  BY BilledIsPaidFor DEF Done
<1>2. high \subseteq DOMAIN AddressOf
  BY DEF Here, Own
<1> HIDE DEF low, high
<1>3. IsFiniteSet(high) /\ IsFiniteSet(billed)
  BY <1>1, <1>2, AddressAssumption, FS_Subset
<1>4. Cardinality(low) <= Cardinality(billed) /\ Cardinality(billed) <= Cardinality(high)
  BY <1>1, <1>3, FS_Subset
<1>5. Cardinality(billed) \in Nat
  BY <1>3, FS_CardinalityType
<1>6. n(r) = Cardinality(billed)
  <2> DEFINE amount == PublicIpv4DailyQuote(r).amount * Cardinality(billed)
             one == [service |-> "public_ipv4", region |-> r, start |-> clock, end |-> clock,
                     addresses |-> Cardinality(billed), amount |-> amount]
  <2>1. AddressRecords(Got("addresses", r), Got("interfaces", r), r, clock)
           = IF Cardinality(billed) > 0 THEN {one} ELSE {}
    BY DEF AddressRecords, If
  <2>2. \A q : \A x \in AddressRecords(Got("addresses", q), Got("interfaces", q), q, clock) : x.region = q
    BY DEF AddressRecords, If
  <2>3. records(r) = AddressRecords(Got("addresses", r), Got("interfaces", r), r, clock)
    BY <2>2 DEF Records
  <2>4. one.addresses = Cardinality(billed)
    OBVIOUS
  <2> HIDE DEF billed, one, records
  <2>5. CASE Cardinality(billed) > 0
    <3>1. records(r) = {one} /\ one.addresses \in Nat
      BY <1>5, <2>1, <2>3, <2>4, <2>5
    <3>2. SumOver(LAMBDA rec : rec.addresses, {one}) = one.addresses
      BY <3>1, SumOfOneRecord
    <3> QED BY <2>4, <3>1, <3>2
  <2>6. CASE Cardinality(billed) = 0
    <3>1. records(r) = {}
      BY <2>1, <2>3, <2>6
    <3>2. SumOver(LAMBDA rec : rec.addresses, {}) = 0
      BY SumOfOneRecord
    <3> QED BY <2>6, <3>1, <3>2
  <2> QED BY <1>5, <2>5, <2>6
<1> QED BY <1>4, <1>6 DEF low, high

\* A region is billed for each address it paid for, once.
THEOREM AddressesAreBilledOnce == Spec => []AddressesCountedOnce
<1>1. IInv => AddressesCountedOnce
  BY AddressesAreCountedOnce
<1> QED BY <1>1, PassesAreSound, PTL
=============================================================================
