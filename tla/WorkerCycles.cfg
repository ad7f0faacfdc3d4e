SPECIFICATION Spec

CONSTANTS
    l1 = l1
    l2 = l2
    l3 = l3
    Callers = {l1, l2, l3}
    Servers = {s1, s2}
    MaxWorkers = 1
    MaxCycles <- Daemon
    NoLimit = NoLimit

INVARIANTS
    TypeOK
    OneCycleAtATime
    GuardIsTrue
    FailsOnItsOwn
    FetchIsWhole

PROPERTIES
    EveryRunReturns
