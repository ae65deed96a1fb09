SPECIFICATION WalletSpec
CONSTANTS
    k1 = k1
    k2 = k2
    a1 = a1
    a2 = a2
    w1 = w1
    w2 = w2
    Nobody = Nobody
    Unseen = Unseen
    Captains = {k1, k2}
    Calls = {a1, a2}
    Withdrawals = {w1, w2}
    Prices = {2, 3}
    Pay <- Shares
    Penalty = 1
    Discounts = {1}
    AddOns = {1}
    Amounts = {1}
    Opening = 1
    MaxChanges = 1
CONSTRAINT Apart
CHECK_DEADLOCK FALSE
SYMMETRY Alike
INVARIANTS
    SharesAddUp
    WalletsFollowJobs
    DebitedOnce
