SPECIFICATION Spec

CONSTANTS
    k1 = k1
    k2 = k2
    s1 = s1
    s2 = s2
    Keys = {k1}
    Servers = {s1}
    ServerOf <- OneKey
    Workers = {w1, w2, w3}
    NoKey = NoKey
    Free = Free
    Orphan = Orphan
    Done = Done
    PendingTTL = 2
    Window = 3
    MaxFetch = 1
    MaxCycle = 1
    Horizon = 4
    Faults = {"fetch", "crash", "refused", "unsure"}
    Watched = "chat"
    Grace = 0

SYMMETRY WorkerSymmetry

INVARIANTS
    DispatchInv
    ClaimHeld
    OneOwner
    NeverToldTwice
    SentWasTold

PROPERTIES
    SentSurvives
    ImplementsLease
