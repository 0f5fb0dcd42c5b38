------------------------------- MODULE Prices --------------------------------
(***************************************************************************)
(* What things cost by the table of clont/finops/aws/pricing.py.  An       *)
(* amount is a whole number of thousandths of a dollar, and a rate the     *)
(* table lacks is asked for again at the base region, and said to be       *)
(* approximate.  A quote is [amount, region, approximate].                 *)
(***************************************************************************)
EXTENDS Integers

CONSTANTS
    None,        \* what there is not
    Book,        \* <<region, path>> |-> rate: prices.json
    BaseRegion   \* base_region of prices.json

\* Amounts are whole, and the table has the rate of gp3 storage.
ASSUME BookAssumption ==
    /\ \A path \in DOMAIN Book : Book[path] \in Nat
    /\ <<BaseRegion, <<"ebs_gb_month", "gp3">>>> \in DOMAIN Book
    /\ None \notin [amount : Nat, region : {entry[1] : entry \in DOMAIN Book}, approximate : BOOLEAN]

HOURS_PER_MONTH == 730
HOURS_PER_DAY == 24

Floor0(x) == IF x < 0 THEN 0 ELSE x

Lookup(region, path) ==
    LET at == {r \in {region, BaseRegion} : <<r, path>> \in DOMAIN Book}
        where == IF region \in at THEN region ELSE BaseRegion
    IN IF at = {} THEN None
       ELSE [amount |-> Book[<<where, path>>], region |-> where, approximate |-> where # region]

Rate(region, path, default) ==
    LET quote == Lookup(region, path) IN
      IF quote # None THEN quote ELSE [amount |-> default, region |-> BaseRegion, approximate |-> TRUE]

BaseRate(path, default) == Rate(BaseRegion, path, default).amount

Times(quote, n) == [quote EXCEPT !.amount = @ * n]

----------------------------------------------------------------------------
(* Instances.  A type is [family, unit, times]: m5.2xlarge is twice an      *)
(* xlarge, and so is m5.metal-2xl.                                          *)

\* How many larges a size is worth, in sixteenths; a size nobody named is one.
SizeFactor(type) ==
    LET named == [nano |-> 1, micro |-> 2, small |-> 4, medium |-> 8, large |-> 16, xlarge |-> 32, metal |-> 512]
    IN IF type.unit \in DOMAIN named THEN named[type.unit] * type.times ELSE 16

FamilyDefaultHourly == BaseRate(<<"ec2_hourly", "m5", "large", 1>>, 96)

TypePath(type) == <<"ec2_hourly", type.family, type.unit, type.times>>

\* The quoted rate; else the family's large, scaled; else a general-purpose rate, scaled.
InstanceQuote(type, region) ==
    LET exact == Lookup(region, TypePath(type))
        large == Rate(region, <<"ec2_hourly", type.family, "large", 1>>, FamilyDefaultHourly)
    IN IF exact # None THEN exact
       ELSE [large EXCEPT !.amount = (@ * SizeFactor(type)) \div 16, !.approximate = TRUE]

----------------------------------------------------------------------------
(* Volumes and snapshots.                                                   *)

EbsDefault == BaseRate(<<"ebs_gb_month", "gp2">>, 100)

Provisioned == [gp3 |-> {"iops", "throughput"}, io1 |-> {"iops"}, io2 |-> {"iops"}]
Gp3Free == [iops |-> 3000, throughput |-> 125]
ChargePath(what, type) ==
    <<IF what = "iops" THEN "ebs_iops_month" ELSE "ebs_throughput_month", type>>

\* What the performance of a volume costs on top of its storage.
ProvisionedQuote(type, region, performance) ==
    LET billed == IF type \in DOMAIN Provisioned THEN Provisioned[type] ELSE {}
        over(what) == performance[what] - IF type = "gp3" THEN Gp3Free[what] ELSE 0
        charged == {what \in billed : over(what) > 0 /\ Lookup(region, ChargePath(what, type)) # None}
        quote(what) == Lookup(region, ChargePath(what, type))
        cost(what) == IF what \in charged THEN quote(what).amount * over(what) ELSE 0
    IN [amount |-> cost("iops") + cost("throughput"),
        region |-> IF "throughput" \in charged THEN quote("throughput").region
                   ELSE IF "iops" \in charged THEN quote("iops").region
                   ELSE IF region = None THEN BaseRegion ELSE region,
        approximate |-> region = None \/ \E what \in charged : quote(what).approximate]

EbsQuote(type, size, region, performance) ==
    LET quote == Rate(region, <<"ebs_gb_month", type>>, EbsDefault)
        extra == ProvisionedQuote(type, region, performance)
        known == <<BaseRegion, <<"ebs_gb_month", type>>>> \in DOMAIN Book
    IN [amount |-> quote.amount * size + extra.amount, region |-> quote.region,
        approximate |-> quote.approximate \/ extra.approximate \/ ~known]

SnapshotQuote(size, region) ==
    Times(Rate(region, <<"snapshot_gb_month">>, BaseRate(<<"snapshot_gb_month">>, 50)), size)

\* Three iops a GiB between 100 and 16 000; 250 MiB/s from 334 GiB on.
Gp2Performance(size) ==
    [iops |-> IF 3 * size < 100 THEN 100 ELSE IF 3 * size > 16000 THEN 16000 ELSE 3 * size,
     throughput |-> IF size >= 334 THEN 250 ELSE 128]

\* A faulty variant of Gp3Saving: the storage alone, as if the performance came free.
Gp3SavingStorage(size, region, iops) ==
    Floor0((Rate(region, <<"ebs_gb_month", "gp2">>, EbsDefault).amount
              - Rate(region, <<"ebs_gb_month", "gp3">>, 80).amount) * size)

\* ebs_gp2_to_gp3_quote: what a gp2 volume saves as a gp3 one of the same performance.
Gp3Saving(size, region, iops) ==
    LET gp2 == Rate(region, <<"ebs_gb_month", "gp2">>, EbsDefault)
        gp3 == Rate(region, <<"ebs_gb_month", "gp3">>, 80)
        base == Gp2Performance(size)
        extra == ProvisionedQuote("gp3", region, IF iops = None THEN base ELSE [base EXCEPT !.iops = iops])
    IN Floor0((gp2.amount - gp3.amount) * size - extra.amount)

----------------------------------------------------------------------------
(* Addresses, gateways and load balancers.                                  *)

EipHourly == BaseRate(<<"eip_hourly">>, 5)

\* The sku of an address in use where the table has it, else the idle one's.
Ipv4Hourly(region) ==
    LET has(key) == \E r \in {region, BaseRegion} : <<r, <<key>>>> \in DOMAIN Book
        default == BaseRate(<<"public_ipv4_hourly">>, EipHourly)
    IN IF has("public_ipv4_hourly") THEN Rate(region, <<"public_ipv4_hourly">>, default)
       ELSE IF has("eip_hourly") THEN Rate(region, <<"eip_hourly">>, default)
       ELSE [amount |-> default, region |-> BaseRegion, approximate |-> TRUE]

PublicIpv4Quote(region) == Times(Ipv4Hourly(region), HOURS_PER_MONTH)
PublicIpv4DailyQuote(region) == Times(Ipv4Hourly(region), HOURS_PER_DAY)

----------------------------------------------------------------------------
(* Commitments: percentages off the on-demand rate, on the safe share.      *)

SP_DISCOUNT_PCT == 20
RI_DISCOUNT_PCT == 25
COMMIT_SAFETY == 70

CommitmentMonthlySaving(uncovered, pct) == (((uncovered * COMMIT_SAFETY) \div 100) * pct * HOURS_PER_MONTH) \div 100
=============================================================================
