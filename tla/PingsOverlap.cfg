SPECIFICATION SmallSpec

CONSTANTS
    s1 = s1
    s2 = s2
    c1 = c1
    c2 = c2
    Pings = {p1, p2}
    Servers = {s1, s2}
    Confs = {c1, c2}
    ConfOf <- OwnConfs
    NameOf <- OwnNames
    OrderOf <- Sorted
    Inodes = {1, 2, 3, 4}
    Torn = Torn
    None = None
    Faults = {"kill", "io", "raise", "edit"}

SYMMETRY PingSymmetry

INVARIANTS
    ConfsReadable
    Settled

PROPERTIES
    EditsKept
