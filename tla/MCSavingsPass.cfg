CONSTANTS
    None = None
    Gone = Gone
    Book <- MCBook
    BaseRegion = "us"
    PerDay = 2
    MinUtilization = 80
    MinCoverage = 70
    VolumeSources = {"v1", "v2", "vol-ffffffff"}
    Placeholder = "vol-ffffffff"
    MaxAge = 180
    Regions <- MCRegions
    VolumeOf <- MCVolumeOf
    SnapshotOf <- MCSnapshotOf
    AddressOf <- MCAddressOf
    InterfaceOf <- MCInterfaceOf
    InstanceOf <- MCInstanceOf
    ReservationOf <- MCReservationOf
    Listing <- MCListing
    PlanOf <- MCPlanOf
    Worlds <- MCWorlds
    Linger = 3
    Ttl = 1
    Steps = {1, 27, 60}
    MaxChanges = 3
SPECIFICATION Spec
CHECK_DEADLOCK FALSE
INVARIANTS
    OrphansAreOrphans
    AddressesCountedOnce
    MatchIsBest
    MigrationPays
PROPERTY
    EscalationIsHeard
