SPECIFICATION FairSpec
CONSTANTS
    p1 = p1
    p2 = p2
    c1 = c1
    Producers <- MCProducers
    Then <- MCThen
    Finishers = {f1}
    Loop = Loop
    Noop = Noop
    Null = Null
    Rounds <- MCRounds
    JoinsFirst = FALSE
INVARIANTS
    FinishOverBeforeDestroy
