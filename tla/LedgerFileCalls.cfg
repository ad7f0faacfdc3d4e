SPECIFICATION FileSpec

CONSTANTS
    p1 = p1
    p2 = p2
    t1 = t1
    t2 = t2
    t3 = t3
    Keys = {k1}
    Processes = {p1, p2}
    Threads = {t1, t2, t3}
    ProcessOf <- SharedFirst
    Instants = {0}
    PendingTTL = 1
    Window = 1
    NoCall = NoCall
    Missing = Missing
    Torn = Torn
    Nobody = Nobody

INVARIANTS
    FileTypeOK
    NothingLost
    OneInside

PROPERTIES
    ImplementsCalls
    FlockIsFreed
