SPECIFICATION Spec

CONSTANTS
    Polls <- ManyPolls
    Junk = Junk
    Names <- HostsAndServices

INVARIANTS
    ProblemsAreAlerts
    HostIsItsOwn
    ItemsAreAlerts
    EachProblemOnce
