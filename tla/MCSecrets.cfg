SPECIFICATION Spec
CONSTANTS
    k1 = k1
    k2 = k2
    s1 = s1
    Key = {k1, k2}
    Secret = {s1}
    Ask <- SharedSecret
    MaxBlock = 4
    MaxCrashes = 1
    MaxFaults = 1
INVARIANTS TypeOK TriedInTime NeverTriedEarly ChargedForOwn
PROPERTY DueIsTried
CHECK_DEADLOCK FALSE
