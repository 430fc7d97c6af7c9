SPECIFICATION FairSpec
CONSTANTS
    t1 = t1
    t2 = t2
    t3 = t3
    Threads = {t1, t2, t3}
    Count = 4
    Share <- MCShare
    Droppers = {t2, t3}
    DropsComplete = FALSE
    Half = 6
    MaxRounds = 4
INVARIANTS
    RearmFits
    NoEarlyRelease
    CountReset
PROPERTIES
    NoMissedPhase
    AllFinish
    ImplementsPhaseBarrier
