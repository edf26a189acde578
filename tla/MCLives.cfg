SPECIFICATION Spec
CONSTANTS
    c1 = c1
    c2 = c2
    a = a
    b = b
    l1 = l1
    Channel = {c1}
    Participant = {a, b}
    Lock = {l1}
    SettleTimeout = 1
    PunishBlocks = 0
    RevealTimeout = 0
    Traffic = {"open", "close", "settle"}
    MaxNonce = 0
    MaxBlock = 7
    Delegation <- DisposeOnly
    TaskId = {1}
    MaxLag = 0
    MaxInflight = 1
    MaxCrashes = 0
    MaxFaults = 1
INVARIANT StartedOnTime
PROPERTY TriggerStarts
CHECK_DEADLOCK FALSE
