SPECIFICATION Spec
CONSTANTS
    c1 = c1
    c2 = c2
    a = a
    b = b
    l1 = l1
    Channel = {c1}
    Participant = {a, b}
    Lock = {l1}
    SettleTimeout = 3
    PunishBlocks = 0
    RevealTimeout = 2
    Traffic = {"close", "update"}
    MaxNonce = 1
    MaxBlock = 4
    Delegation <- OneAll
    TaskId = {1}
    MaxLag = 2
    MaxInflight = 1
    MaxCrashes = 1
    MaxFaults = 1
INVARIANTS TypeOK StartedAtMostOnce NeverRearmed NoMissedTrigger SettleIsMonitored UnlocksAfterUpdate SentInWindow
PROPERTY ImplementsLife
CHECK_DEADLOCK FALSE
