SPECIFICATION FairSpec
CONSTANTS
    t1 = t1
    t2 = t2
    t3 = t3
    Threads = {t1, t2, t3}
    Count = 4
    Share <- MCShare
    Droppers = {t2, t3}
    MaxRounds = 3
INVARIANTS
    CompletionBetween
PROPERTIES
    AllFinish
    ImplementsPhaseBarrier
