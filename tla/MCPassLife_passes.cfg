SPECIFICATION PassSpec
CONSTANTS
    Sales = {s1, s2}
    Grants = {g1}
    Washes = 1
    MaxGrants = 1
    MaxRenewals = 1
    MaxRiding = 1
    MaxUnderWay = 2
    NoCall = NoCall
    NoPass = NoPass
    NoRead = NoRead
CONSTRAINT Few
INVARIANTS
    OneLivePass
    WashesUsable
CHECK_DEADLOCK FALSE
SYMMETRY AnySale
