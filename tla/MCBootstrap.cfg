CONSTANTS
    Configured <- MCConfigured
    AccountOf <- MCAccountOf
    Payers <- MCPayers
    Org <- MCOrg
    Include <- MCInclude
    Exclude <- MCExclude
    Sites <- MCSites
    Connected = {"dc1", "dc2"}
    Kubernetes <- MCClusters
    MaxRefusals = 4
SPECIFICATION StartSpec
CHECK_DEADLOCK FALSE
INVARIANTS
    NoAccountTwice
    FleetIsUp
    GuestsAreSources
