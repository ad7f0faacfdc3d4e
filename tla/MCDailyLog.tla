----------------------------- MODULE MCDailyLog -----------------------------
(* Small instances of DailyLog.                                             *)
EXTENDS DailyLog, TLC

Split    == << <<"half">>, <<"rest", "end">> >>
Warning  == << <<"half", "rest", "end">> >>
Snapshot == << <<"words", "end", "end">> >>

CONSTANTS w1, w2

(* A process that logs and prints, and one whose lines come in parts.       *)
WhatIsSaid == (w1 :> {Warning, Snapshot}) @@ (w2 :> {Split})

Timezones == {-1, 0}
=============================================================================
