SPECIFICATION DaemonSpec

CONSTANTS
    DayLength = 12
    MaxLag = 2
    PollGap = 2
    None = None
    Cases <- AllCases
    Default <- DefaultTexts
    Unset = Unset
    Blank = Blank
    Other = Other
    Refused = Refused
    MaxRefusals = 1

INVARIANTS
    ShiftAlertIsHeard
    StartedInShift
    NoFlicker
    HoldRespected
    NothingOlderThanBoot
    CriticalIsHeard
    CardIsTrue
    NotToldAgain
