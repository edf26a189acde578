SPECIFICATION Spec
CONSTANTS
    d1 = d1
    d2 = d2
    t1 = t1
    t2 = t2
    t3 = t3
    t4 = t4
    Delegate = {d1}
    Fee <- UnitFee
    Contents <- SecretAndProof
    Transfer = {t1}
    AmountOf <- TwoEach
    Watched = {d1}
    MaxRequests = 1
    MaxCrashes = 0
    MaxFaults = 0
INVARIANT EnoughIsEnough
CHECK_DEADLOCK FALSE
