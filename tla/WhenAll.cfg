SPECIFICATION FairSpec
CONSTANTS
    c1 = c1
    c2 = c2
    Starter = Starter
    Stopper = Stopper
    Outer = Outer
    Inner = Inner
    OnStop = OnStop
    None = None
    Kinds = {"inline", "async", "eager"}
    ChildOrder <- MCChildOrder
    Threads <- MCThreads
    Callbacks <- MCCallbacks
    Sources <- MCSources
    SourceOf <- MCSourceOf
INVARIANTS
    CompletesRight
    NoTouchAfterCompletion
    DeadCallbackUntouched
    NoForgottenCallback
    OthersCancelled
PROPERTIES
    Completes
