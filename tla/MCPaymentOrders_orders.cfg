SPECIFICATION OrdersSpec
CONSTANTS
    Docs = {d1, d2}
    Payments = {m1, m2}
    Requests = {r1, r2}
    Loop = loop
    Price = 1
    MaxDue = 1
    MaxKills = 0
    NoDoc = NoDoc
    NoPayment = NoPayment
    NoOne = NoOne
SYMMETRY Symmetry
CONSTRAINT TwoAtOnce
INVARIANTS
    PaymentCountsOnce
    
CHECK_DEADLOCK FALSE
