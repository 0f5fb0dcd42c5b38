------------------------------- MODULE MCCycle -------------------------------
(* TLC instances of Cycle: one account with its spend, a regional fallback    *)
(* and Compute Optimizer agreeing on a finding, a site, and a cluster.        *)
EXTENDS Cycle

CONSTANTS cur, idle, optimizer, rds, site, cluster,
          spend, r1, r2, opt, health, fill, floor, split, claims,
          digest, i1, i2, down, full, rent, ns, claim

T(c, k) == [of |-> c, kind |-> k]

MCProviders == <<
    [finops |-> <<cur, optimizer, idle>>, monitoring |-> <<rds>>],
    [finops |-> <<site>>, monitoring |-> <<>>] >>
MCClusters == <<cluster>>

MCParts ==
    [t \in {T(cur, "costs"), T(optimizer, "recs"), T(idle, "recs"), T(rds, "health"),
            T(rds, "metrics"), T(site, "costs"), T(cluster, "namespaces"),
            T(cluster, "claims")} |->
        CASE t = T(cur, "costs") -> <<spend>>
          [] t = T(optimizer, "recs") -> <<opt>>
          [] t = T(idle, "recs") -> <<r1, r2>>
          [] t = T(rds, "health") -> <<health>>
          [] t = T(rds, "metrics") -> <<fill>>
          [] t = T(site, "costs") -> <<floor>>
          [] t = T(cluster, "namespaces") -> <<split>>
          [] t = T(cluster, "claims") -> <<claims>>]

MCFound ==
    [p \in {spend, r1, r2, opt, health, fill, floor, split, claims} |->
        CASE p = spend -> <<digest>>
          [] p = r1 -> <<i1>>
          [] p = r2 -> <<i2>>
          [] p = opt -> <<i1>>
          [] p = health -> <<down>>
          [] p = fill -> <<full>>
          [] p = floor -> <<rent>>
          [] p = split -> <<ns>>
          [] p = claims -> <<claim, i2>>]

MCRegional == {T(idle, "recs")}
MCPoisonable == {T(rds, "metrics")}
MCReplies == {<<down>>, <<down, rent>>}

=============================================================================
