SPECIFICATION DispatchSpec
CONSTANTS
    Cars = {1, 2, 3}
    v1 = v1
    v2 = v2
    Visits = {v1, v2}
    VisitOf <- TwoVisits
    Captains = {k1, k2}
    Manager = m
    Times = {t1, t2}
    Calls = {a1, a2}
    MaxMoves = 1
    MaxDisturbed = 1
    Nobody = Nobody
    NoTime = NoTime
    Unseen = Unseen
CONSTRAINT Few
INVARIANTS
    NeverDoubleBooked
    
    StartFollowsSlot
    OneTrip
PROPERTIES
    AllOrNothing
    NotYanked
    
CHECK_DEADLOCK FALSE
SYMMETRY Alike
