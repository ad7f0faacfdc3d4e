SPECIFICATION Spec

CONSTANTS
    w1 = w1
    w2 = w2
    Writers = {w1, w2}
    Messages <- WhatIsSaid
    Skews <- Timezones
    Faults = {"kill", "open"}
    MaxDay = 1
    MaxSaid = 3
    MaxCleans = 1

INVARIANTS
    DailyTypeOK
    WholeLines
    FollowsPrimary
    TodayIsFound
    RightDay
