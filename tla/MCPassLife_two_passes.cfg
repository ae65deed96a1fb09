SPECIFICATION PassSpec
CONSTANTS
    Sales = {s1, s2}
    Grants = {}
    Washes = 1
    MaxGrants = 0
    MaxRenewals = 1
    MaxRiding = 1
    MaxUnderWay = 2
    NoCall = NoCall
    NoPass = NoPass
    NoRead = NoRead
CONSTRAINT Few
INVARIANT OneCarOnePass
CHECK_DEADLOCK FALSE
