SPECIFICATION Spec
CONSTANTS
    c1 = c1
    c2 = c2
    a = a
    b = b
    l1 = l1
    Channel = {c1}
    Participant = {a, b}
    Lock = {l1}
    SettleTimeout = 2
    PunishBlocks = 0
    RevealTimeout = 1
    Traffic = {"close"}
    MaxNonce = 1
    MaxBlock = 4
    Delegation <- ProofOnly
    TaskId = {1, 2}
    MaxLag = 3
    MaxInflight = 1
    MaxCrashes = 0
    MaxFaults = 0
INVARIANT StoredMatchesChain
CHECK_DEADLOCK FALSE
