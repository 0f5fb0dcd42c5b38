---------------------------- MODULE MCBootstrap ------------------------------
(* TLC instances of Bootstrap: a payer, one of its members named in the file   *)
(* too, a second payer that shares a member, two sites and three clusters.     *)
EXTENDS Bootstrap

M(id, alias, status) == [id |-> id, alias |-> alias, status |-> status]

MCConfigured == <<"payer", "web", "lab">>
MCAccountOf == [a \in {"payer", "web", "lab"} |->
                  CASE a = "payer" -> "1" [] a = "web" -> "2" [] a = "lab" -> "9"]
MCPayers == {"payer", "lab"}

\* The web account goes by another name in the organization, staging is closed,
\* data is shared, and db is left out by the operator.
MCOrg == [p \in MCPayers |->
            IF p = "payer"
            THEN <<M("1", "acme", "ACTIVE"), M("2", "acme-web", "ACTIVE"), M("3", "data", "ACTIVE"),
                   M("4", "staging", "SUSPENDED"), M("5", "db", "ACTIVE")>>
            ELSE <<M("3", "shared-data", "ACTIVE"), M("6", "lab", "ACTIVE"), M("7", "edge", "ACTIVE")>>]
MCInclude == [p \in MCPayers |-> IF p = "lab" THEN {"3", "6", "7"} ELSE {}]
MCExclude == [p \in MCPayers |-> IF p = "payer" THEN {"5"} ELSE {}]

MCSites == <<"dc1", "dc2", "attic">>
MCClusters == <<[name |-> "k1", pricedBy |-> "dc1"], [name |-> "k2", pricedBy |-> "web"],
                [name |-> "k3", pricedBy |-> "dc2"]>>
=============================================================================
