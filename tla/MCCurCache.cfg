CONSTANTS
    last = last
    this = this
    prod = prod
    dev = dev
    Accounts = {prod, dev}
    Kinds = {"collect", "recommendations"}
    Window <- MCWindow
    Refresh = 2
    Ttl <- MCTtl
    None = None
    Absent = Absent
    MaxTime = 4
    MaxFaults = 1
SPECIFICATION Spec
SYMMETRY MCSymmetry
INVARIANTS
    OwnWholeWindow
    DelayBounded
