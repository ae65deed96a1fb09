SPECIFICATION LoopLiveSpec
CONSTANTS
    Procs = {a, b}
    NoOne = NoOne
    Rows = {i1}
    SweepOf <- FirstSweep
    LastSweep = 2
    LeaseTime = 9
    PassBudget = 7
    SweepBudget = 1
    SweepTimeout = 6
    ItemRenew = 1
    PauseTime = 6
    RetryTime = 3
    MaxDelay = 1
    Skew = 1
    MaxFaults = 2
INVARIANTS
    OneSweeper
    HeardOnce
PROPERTY AlwaysSwept
