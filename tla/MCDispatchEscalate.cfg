CONSTANTS
    budget = budget
    cert = cert
    EventKeys = {budget, cert}
    ChannelCount = 3
    Floor <- MCFloor
    RepeatAfter <- MCRepeatAfter
    Remote = {2, 3}
    Batches <- MCBatches
    None = None
    MaxTime = 2
    MaxFaults = 0
    HeardCap = 3
SPECIFICATION Spec
INVARIANTS
    EscalationTold
