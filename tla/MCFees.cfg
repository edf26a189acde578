SPECIFICATION Spec
CONSTANTS
    d1 = d1
    d2 = d2
    t1 = t1
    t2 = t2
    t3 = t3
    t4 = t4
    Delegate = {d1}
    Fee <- UnitFee
    Contents <- SecretAndUnlock
    Transfer = {t1}
    AmountOf <- ThreeEach
    Watched = {d1}
    MaxRequests = 2
    MaxCrashes = 1
    MaxFaults = 1
INVARIANTS TypeOK NoOvercharge NoOvercredit CommittedWithinDeposits
CHECK_DEADLOCK FALSE
