SPECIFICATION Spec
CONSTANTS
    t1 = t1
    t2 = t2
    t3 = t3
    Threads = {t1, t2}
    Count = 2
    Share <- UnitShare
    Droppers = {t1, t2}
    DropsComplete = TRUE
    Half = 6
    MaxRounds = 3
INVARIANTS
    CountReset
