SPECIFICATION Spec

CONSTANTS
    k1 = k1
    k2 = k2
    s1 = s1
    s2 = s2
    Keys = {k1, k2}
    Servers = {s1, s2}
    ServerOf <- TwoServers
    Workers = {w1, w2}
    NoKey = NoKey
    Free = Free
    Orphan = Orphan
    Done = Done
    PendingTTL = 2
    Window = 3
    MaxFetch = 1
    MaxCycle = 1
    Horizon = 4
    Faults = {"refused"}
    Watched = "chat"
    Grace = 0

SYMMETRY WorkerSymmetry

INVARIANTS
    OncePerEpisode
