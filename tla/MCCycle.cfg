CONSTANTS
    cur = cur
    idle = idle
    optimizer = optimizer
    rds = rds
    site = site
    cluster = cluster
    spend = spend
    r1 = r1
    r2 = r2
    opt = opt
    health = health
    fill = fill
    floor = floor
    split = split
    claims = claims
    digest = digest
    i1 = i1
    i2 = i2
    down = down
    full = full
    rent = rent
    ns = ns
    claim = claim
    Providers <- MCProviders
    Clusters <- MCClusters
    Parts <- MCParts
    Regional <- MCRegional
    Found <- MCFound
    Poison = poison
    Poisonable <- MCPoisonable
    Flaky = {cur, idle, rds, cluster}
    Replies <- MCReplies
    MemoKinds = {"costs", "recs", "metrics"}
    None = None
    MaxPoison = 1
SPECIFICATION FairSpec
INVARIANTS
    BatchIsWhole
    FoundAndToldOnce
PROPERTIES
    HealthyFindingsGoOut
