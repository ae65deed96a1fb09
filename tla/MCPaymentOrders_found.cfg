SPECIFICATION OrdersLiveSpec
CONSTANTS
    Docs = {d1}
    Payments = {m1}
    Requests = {r1}
    Loop = loop
    Price = 1
    MaxDue = 2
    MaxKills = 2
    NoDoc = NoDoc
    NoPayment = NoPayment
    NoOne = NoOne
INVARIANTS
    PaidMeansApplied
    
PROPERTY MoneyFound
CHECK_DEADLOCK FALSE
