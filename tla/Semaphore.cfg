SPECIFICATION FairSpec
CONSTANTS
    Threads = {t1, t2, t3}
    MaxUnits = 2
    Calls = 1
    ZeroCallers = {t1}
    PollingCount = 1
INVARIANTS
    UnitsConserved
    FailsOnlyIfEmpty
PROPERTIES
    TimedReturns
    AcquireReturns
