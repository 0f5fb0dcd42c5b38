------------------------------ MODULE Leftovers ------------------------------
(***************************************************************************)
(* What an account pays for and does not use, judged from plain listings:  *)
(* clont/finops/aws/waste.py, snapshots.py and public_ipv4.py.             *)
(*                                                                         *)
(* A volume is [id, type, size, iops, throughput, state], 0 where ec2 says *)
(* nothing; a snapshot [id, source, size, start]; an elastic ip            *)
(* [ip, allocation, associated, byoip]; an interface                       *)
(* [id, status, top, ips], where top is the address at its head or None    *)
(* and ips are its private ones, [primary, ip], with the public address    *)
(* of each or None.                                                        *)
(***************************************************************************)
EXTENDS Commitments

CONSTANTS
    VolumeSources,  \* the sources of snapshots that read "vol-..."
    Placeholder,    \* _AMI_PLACEHOLDER, one of them
    MaxAge          \* snapshot_max_age_days, in ticks

----------------------------------------------------------------------------
(* waste.py: volumes.                                                       *)

Performance(v) == [iops |-> v.iops, throughput |-> v.throughput]

Unattached(volumes, region) ==
    {Rec("ebs", "unattached-ebs", v.id, EbsQuote(v.type, v.size, region, Performance(v)).amount) :
        v \in {x \in volumes : x.state = "available"}}

\* In the place of an iops that is not told, what the size gives.
Migration(v, region) == Gp3Saving(v.size, region, IF v.iops = 0 THEN None ELSE v.iops)

Gp2ToGp3(volumes, region) ==
    {Rec("ebs", "gp2-gp3", v.id, Migration(v, region)) :
        v \in {x \in volumes : x.state = "in-use" /\ x.type = "gp2" /\ Migration(x, region) > 0}}

Waste(volumes, region) == Unattached(volumes, region) \cup Gp2ToGp3(volumes, region)

----------------------------------------------------------------------------
(* snapshots.py: the source is gone, or the age is over the limit.          *)

\* A faulty variant of Orphaned: every source that is not listed has been deleted.
OrphanedOfAnything(snap, live) == snap.source \notin live

Orphaned(snap, live) ==
    /\ snap.source \in VolumeSources
    /\ snap.source # Placeholder
    /\ snap.source \notin live

Old(snap, now) == snap.start # None /\ now - snap.start > MaxAge

\* Priced in no region: at the base region's rate.
SnapshotRec(kind, snap) == Rec("ebs", kind, snap.id, SnapshotQuote(snap.size, None).amount)

\* _classify, over a listing.
StaleSnapshots(snapshots, live, now) ==
    {SnapshotRec("orphaned-snapshot", s) : s \in {x \in snapshots : Orphaned(x, live)}}
      \cup {SnapshotRec("old-snapshot", s) : s \in {x \in snapshots : ~Orphaned(x, live) /\ Old(x, now)}}

----------------------------------------------------------------------------
(* public_ipv4.py: addresses.                                               *)

Named(ips) == ips \ {None}

PublicIps(eni) == Named({eni.top} \cup {p.ip : p \in eni.ips})
SecondaryIps(eni) ==
    LET primary == {p.ip : p \in {q \in eni.ips : q.primary}} \cup {eni.top}
    IN Named({p.ip : p \in {q \in eni.ips : ~q.primary}}) \ primary


IsUnattached(eni) == eni.status \in {"available", "detached"}
Byoip(eips) == Named({e.ip : e \in {x \in eips : x.byoip}})

\* A faulty variant of Billable: an address of one's own skipped among the elastic ones only.
BillableSkipped(eips, enis) ==
    Named({e.ip : e \in {x \in eips : ~x.byoip}}) \cup UNION {PublicIps(eni) : eni \in enis}

\* Every address that is charged, once.
Billable(eips, enis) ==
    (Named({e.ip : e \in {x \in eips : ~x.byoip}}) \cup UNION {PublicIps(eni) : eni \in enis}) \ Byoip(eips)

\* The record of one region, or none: the day's run rate.
AddressRecords(eips, enis, region, day) ==
    LET n == Cardinality(Billable(eips, enis)) IN
      If(n > 0, [service |-> "public_ipv4", region |-> region, start |-> day, end |-> day, addresses |-> n,
                 amount |-> PublicIpv4DailyQuote(region).amount * n])

AddressWaste(eips, enis, region) ==
    LET price == PublicIpv4Quote(region).amount
        own == Byoip(eips)
        loose == {eni \in enis : IsUnattached(eni) /\ PublicIps(eni) \ own # {}}
        extras(eni) == SecondaryIps(eni) \ own
        idle == {e \in eips : ~e.associated /\ ~e.byoip}
    IN {Rec("ec2", "unattached-eni-ip", <<eni.id>>, price) : eni \in loose}
         \cup (UNION {{Rec("ec2", "secondary-public-ip", <<eni.id, ip>>, price) : ip \in extras(eni)} : eni \in enis})
         \cup {Rec("ec2", "unassociated-eip", <<IF e.allocation # None THEN e.allocation ELSE e.ip>>, price) : e \in idle}
=============================================================================
