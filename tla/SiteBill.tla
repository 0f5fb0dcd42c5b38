------------------------------ MODULE SiteBill -------------------------------
(***************************************************************************)
(* The rate card over the iron: the cards of                               *)
(* clont/finops/onprem/config.py, allocate of rates.py and the spend       *)
(* records of costs.py.                                                    *)
(*                                                                         *)
(* A card is a function from the lines that are set to money, in cents a   *)
(* month; weights are percentages.  A rate is a fraction in the code; here *)
(* it is what Share computes, money over a capacity, rounded down to the   *)
(* cent.  The hours of the month cancel between a rate and a cost and are  *)
(* left out; a day is HoursPerDay / HoursPerMonth of the month.            *)
(***************************************************************************)
EXTENDS SiteInventory

CONSTANTS
    CostLines  \* rates.COST_LINES; "capex" and "lifetime" are the other two

ASSUME LinesAssumption == IsFiniteSet(CostLines) /\ "capex" \notin CostLines /\ "lifetime" \notin CostLines

Hardware == {"amortization", "capex"}
HoursPerDay == 24
HoursPerMonth == 730

----------------------------------------------------------------------------
(* Faulty variants of the definitions below.                                *)

\* No line for the part of the pool nobody reserved.
NoHeadroom(priced) == 0

----------------------------------------------------------------------------
\* A card laid over another, line by line; hardware is one line in two spellings.
Over(own, base) ==
    LET dropped == IF DOMAIN own \cap Hardware = {} THEN {} ELSE Hardware \ DOMAIN own
    IN  [k \in (DOMAIN own \cup DOMAIN base) \ dropped |-> IF k \in DOMAIN own THEN own[k] ELSE base[k]]

\* What a pool costs a month.
PoolMonthly(card) ==
    LET total == Sum(LAMBDA k : card[k], DOMAIN card \cap CostLines)
                 + IF "capex" \in DOMAIN card /\ "lifetime" \in DOMAIN card /\ card["lifetime"] > 0
                   THEN card["capex"] \div card["lifetime"] ELSE 0
    IN  IF \/ DOMAIN card = {}
           \/ DOMAIN card \ (CostLines \cup {"capex", "lifetime"}) # {}
           \/ \E k \in DOMAIN card \ {"lifetime"} : card[k] < 0
           \/ "capex" \in DOMAIN card
              /\ ("lifetime" \notin DOMAIN card \/ card["lifetime"] <= 0)
           \/ total <= 0
        THEN Refused ELSE total

\* The flat card and the weights of one named cluster, or of a name never heard of.
\* A cluster is named <<datacenter, name>>, a bare name <<None, name>>.
PoolCard(config, name) ==
    IF name \in DOMAIN config.clusters
    THEN [card |-> Over(config.clusters[name].card, config.site),
          weights |-> IF config.clusters[name].weights = None THEN config.weights
                      ELSE config.clusters[name].weights]
    ELSE [card |-> Over(<<>>, config.site), weights |-> config.weights]

\* A qualified name wins over a bare one.
CardFor(config, pool) ==
    PoolCard(config, IF pool.key \in DOMAIN config.clusters THEN pool.key ELSE <<None, pool.name>>)

\* A configuration that is accepted: every card it names prices something.
ConfigValid(config) ==
    /\ \A w \in {config.weights} \cup {config.clusters[c].weights : c \in DOMAIN config.clusters} :
           w # None => w.cpu + w.ram + w.storage = 100
    /\ \A c \in IF DOMAIN config.clusters = {} THEN {<<None, None>>} ELSE DOMAIN config.clusters :
           PoolMonthly(PoolCard(config, c).card) # Refused

\* The part of the pool's money that n units of a dimension stand for.
Share(pool, weight, n, capacity) == (pool * weight * n) \div (100 * capacity)

Cost(money, weights, cap, use) ==
    Share(money, weights.cpu, use.vcpu, cap.vcpu) + Share(money, weights.ram, use.ram, cap.ram)
    + Share(money, weights.storage, use.disk, cap.storage)

\* A measured vm's row: its p95 and the disk it occupies; nothing measured is
\* everything reserved.  The p95 is in hundredths, and rounded up to a unit here.
UsedRow(vm, usage) ==
    IF vm.uid \in DOMAIN usage
    THEN [vcpu |-> (usage[vm.uid].vcpu + 99) \div 100, ram |-> (usage[vm.uid].ram + 99) \div 100,
          disk |-> vm.committed]
    ELSE Provisioned(vm)

\* One pool charged against its card; Refused when a divisor is missing.
Allocate(pool, priced, usage) ==
    LET money == PoolMonthly(priced.card)
        cap == Capacity(pool)
        charge(vm) == [provisioned |-> Cost(money, priced.weights, cap, Provisioned(vm)),
                       used |-> Cost(money, priced.weights, cap, UsedRow(vm, usage))]
        vms == [v \in {vm.uid : vm \in pool.vms} |-> charge(CHOOSE vm \in pool.vms : vm.uid = v)]
        total == Sum(LAMBDA v : vms[v].provisioned, DOMAIN vms)
        reserved(dim) == Sum(LAMBDA vm : Provisioned(vm)[dim], pool.vms)
    IN  IF money = Refused \/ 0 \in {cap.vcpu, cap.ram, cap.storage} THEN Refused
        ELSE [money |-> money, weights |-> priced.weights, cap |-> cap, vms |-> vms, total |-> total,
              headroom |-> money - total,
              reserved |-> [vcpu |-> reserved("vcpu"), ram |-> reserved("ram"),
                            storage |-> reserved("disk")]]

AllocatePool(config, pool, usage) == Allocate(pool, CardFor(config, pool), usage)

----------------------------------------------------------------------------
\* A day's share of a monthly figure, to the nearest cent.
DayCost(monthly) == (2 * monthly * HoursPerDay + HoursPerMonth) \div (2 * HoursPerMonth)

\* What a vm's line bills: what it reserved, never what it ran at.
Billed(priced, vm) == priced.vms[vm.uid].provisioned

\* What is billed to nobody: an overcommitted pool has none left.
HeadroomBilled(priced) == AtLeast(priced.headroom, 0)

\* A line per vm and one for the headroom.  A vm without a row carries no
\* measured keys at all, and the signed headroom rides along with the clamped one.
PoolRecords(pool, priced, usage) ==
    {[pool |-> pool.key, service |-> "vm", uid |-> vm.uid, cost |-> DayCost(Billed(priced, vm)),
      measured |-> IF vm.uid \in DOMAIN usage
                   THEN [used |-> priced.vms[vm.uid].used,
                         waste |-> priced.vms[vm.uid].provisioned - priced.vms[vm.uid].used]
                   ELSE None,
      headroom |-> None] : vm \in pool.vms}
    \cup {[pool |-> pool.key, service |-> "headroom", uid |-> None,
           cost |-> DayCost(HeadroomBilled(priced)), measured |-> None, headroom |-> priced.headroom]}

\* When the pass has nothing to say at all.
NothingPriced(results) ==
    results # <<>> /\ \A i \in DOMAIN results : results[i] = Refused

\* One pass of the cost collector: a pool that cannot be priced is skipped, a site
\* of which none can raises.
Collect(config, site) ==
    LET results == [i \in DOMAIN site.pools |-> AllocatePool(config, site.pools[i], site.usage)]
        priced == {i \in DOMAIN results : results[i] # Refused}
    IN  [raised |-> NothingPriced(results),
         lines |-> UNION {PoolRecords(site.pools[i], results[i], site.usage) : i \in priced}]
=============================================================================
