---------------------------- MODULE MCSavingsPass ----------------------------
(* A TLC instance of SavingsPass: two regions, the second of them priced at the rates of  *)
(* the first where the book has none.                                                     *)
EXTENDS SavingsPass

MCRegions == <<"us", "eu">>
MCBook ==
    <<"us", <<"ebs_gb_month", "gp2">>>> :> 100 @@ <<"us", <<"ebs_gb_month", "gp3">>>> :> 80
      @@ <<"us", <<"ebs_iops_month", "gp3">>>> :> 5 @@ <<"us", <<"ebs_throughput_month", "gp3">>>> :> 40
      @@ <<"eu", <<"ebs_gb_month", "gp2">>>> :> 119 @@ <<"eu", <<"ebs_gb_month", "gp3">>>> :> 95
      @@ <<"us", <<"snapshot_gb_month">>>> :> 50 @@ <<"us", <<"eip_hourly">>>> :> 5
      @@ <<"us", <<"ec2_hourly", "m5", "large", 1>>>> :> 96

\* A large one whose performance has its price, a small one that gp3 makes dearer, and one of gp3
\* with more of both than comes for nothing.
MCVolumeOf ==
    "v1" :> [region |-> "us", type |-> "gp2", size |-> 1500, iops |-> 4500, throughput |-> 0]
      @@ "v2" :> [region |-> "eu", type |-> "gp2", size |-> 4, iops |-> 0, throughput |-> 0]
      @@ "v3" :> [region |-> "eu", type |-> "gp3", size |-> 20, iops |-> 4000, throughput |-> 250]
MCSnapshotOf ==
    "s1" :> [region |-> "us", source |-> "v1", size |-> 1500]
      @@ "s2" :> [region |-> "us", source |-> "vol-ffffffff", size |-> 8]
      @@ "s3" :> [region |-> "eu", source |-> "copied", size |-> 8]
MCInterfaceOf ==
    "e1" :> [region |-> "us", status |-> "in-use"] @@ "e2" :> [region |-> "us", status |-> "available"]
MCAddressOf ==
    "a1" :> [region |-> "us", byoip |-> FALSE, elastic |-> TRUE, eni |-> "e1", primary |-> TRUE]
      @@ "a2" :> [region |-> "us", byoip |-> FALSE, elastic |-> FALSE, eni |-> "e1", primary |-> FALSE]
      @@ "a3" :> [region |-> "us", byoip |-> TRUE, elastic |-> TRUE, eni |-> "e2", primary |-> TRUE]

Large == [family |-> "m5", unit |-> "large", times |-> 1]
Huge == [family |-> "m5", unit |-> "metal", times |-> 24]
MCInstanceOf ==
    "i1" :> [type |-> Large, region |-> "us", az |-> "us-a", spot |-> FALSE]
      @@ "i2" :> [type |-> Large, region |-> "us", az |-> "us-b", spot |-> FALSE]
      @@ "i3" :> [type |-> Huge, region |-> "eu", az |-> "eu-a", spot |-> FALSE]
MCReservationOf ==
    "r1" :> [type |-> Large, region |-> "us", az |-> None, count |-> 1, end |-> 133]
      @@ "r2" :> [type |-> Large, region |-> "us", az |-> "us-a", count |-> 1, end |-> 40]
      @@ "r3" :> [type |-> Large, region |-> "us", az |-> "us-b", count |-> 0, end |-> None]
MCListing == <<"r1", "r2", "r3">>
MCPlanOf ==
    "p1" :> [type |-> "Compute", hourly |-> 200, end |-> 122] @@ "p2" :> [type |-> "SageMaker", hourly |-> 50, end |-> 9]

MCWorlds ==
    {[vol |-> "v1" :> "in-use" @@ "v2" :> "available" @@ "v3" :> "in-use", snaps |-> "s1" :> None @@ "s2" :> -200 @@ "s3" :> -10,
      ip |-> "a1" :> "used" @@ "a2" :> "used" @@ "a3" :> "idle", runs |-> {"i1", "i2"}],
     [vol |-> "v1" :> Gone @@ "v2" :> "in-use" @@ "v3" :> "available", snaps |-> "s1" :> -10 @@ "s2" :> None @@ "s3" :> None,
      ip |-> "a1" :> "idle" @@ "a2" :> None @@ "a3" :> "used", runs |-> {"i1", "i3"}]}
=============================================================================
