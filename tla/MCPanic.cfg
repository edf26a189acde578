SPECIFICATION Spec
CONSTANTS
    d1 = d1
    d2 = d2
    t1 = t1
    t2 = t2
    t3 = t3
    t4 = t4
    Delegate = {d1, d2}
    Fee <- UnequalFee
    Contents <- ProofOrUnlocks
    Transfer = {t1, t2, t3, t4}
    AmountOf <- LargeSecond
    Watched = {}
    MaxRequests = 2
    MaxCrashes = 0
    MaxFaults = 0
INVARIANTS NoOvercharge CommittedWithinDeposits
SYMMETRY Interchangeable
CHECK_DEADLOCK FALSE
