---------------------------- MODULE DaemonProofs ----------------------------
(***************************************************************************)
(* What the daemon promises, for every environment it boots with: the      *)
(* settings from_env accepts make a sound policy, the daemon is a filter   *)
(* applied poll after poll, so that what AlertFilter promises holds of it, *)
(* and the in-memory ledger and the cut at boot keep it from repeating     *)
(* itself.                                                                 *)
(*                                                                         *)
(* What the filter promises comes first, for every policy, problem and     *)
(* length of day.  All of it rests on one fact of arithmetic: the start    *)
(* the policy counts back from a reported duration is no earlier than the  *)
(* problem's own, and later by the drift at most (StartIsClose).           *)
(***************************************************************************)
EXTENDS Daemon, TLAPS

-----------------------------------------------------------------------------
(* Durations.                                                              *)

LEMMA DivMod ==
    ASSUME NEW a \in Nat, NEW n \in Nat \ {0}
    PROVE  /\ a \div n \in Nat
           /\ a % n \in 0 .. n - 1
           /\ a = n * (a \div n) + (a % n)
  OBVIOUS

LEMMA HoursOfDay ==
    ASSUME NEW age \in Nat
    PROVE  (age % DayLength) % 4 = age % 4
<1> DEFINE k == DayLength \div 4
           d == age \div DayLength
           r == age % DayLength
<1>1. DayLength \in Nat \ {0} /\ DayLength % 4 = 0
  BY FilterAssumption DEF Units
<1>2. k \in Nat /\ DayLength = 4 * k
  BY <1>1, DivMod
<1>3. d \in Nat /\ r \in Nat /\ age = DayLength * d + r
  BY <1>1, DivMod
<1>4. k * d \in Nat
  BY <1>2, <1>3
<1>5. DayLength * d = 4 * (k * d)
  BY <1>2, <1>3
<1> HIDE DEF k, d, r
<1>6. age = 4 * (k * d) + r
  BY <1>3, <1>5
<1>7. ASSUME NEW q \in Nat, age = 4 * q + r
      PROVE  r % 4 = age % 4
  BY <1>3, <1>7
<1>8. r % 4 = age % 4
  BY <1>4, <1>6, <1>7
<1> QED
  BY <1>8 DEF r

(* Nagios reports whole minutes, or seconds too: the duration read back is *)
(* the age, or a little less.                                              *)
Parsed(source, age) == ParseDuration(ReportedDuration(source, age))

LEMMA ParsedIsAge ==
    ASSUME NEW age \in Nat
    PROVE  /\ Parsed("to_seconds", age) = age
           /\ Parsed("to_minutes", age) = age - (age % 2)
<1> DEFINE d == age \div DayLength
           h == (age % DayLength) \div 4
           m == (age % 4) \div 2
           s == age % 2
<1>1. DayLength \in Nat \ {0}
  BY FilterAssumption
<1>2. /\ d \in Nat
      /\ age % DayLength \in Nat
      /\ age = DayLength * d + (age % DayLength)
  BY <1>1, DivMod
<1>3. /\ h \in Nat
      /\ age % DayLength = 4 * h + ((age % DayLength) % 4)
  <2>1. ASSUME NEW r \in Nat
        PROVE  r \div 4 \in Nat /\ r = 4 * (r \div 4) + (r % 4)
    OBVIOUS
  <2> QED
    BY <1>2, <2>1
<1>4. /\ age % 4 = 2 * m + s
      /\ m \in Nat
      /\ s \in Nat
  OBVIOUS
<1>5. DayLength * d \in Nat /\ d * DayLength = DayLength * d
  BY <1>1, <1>2
<1>6. ReportedDuration("to_seconds", age)
        = [unit \in {"d", "h", "m", "s"} |-> [d |-> d, h |-> h, m |-> m, s |-> s][unit]]
  BY DEF ReportedDuration, Units
<1>7. ReportedDuration("to_minutes", age)
        = [unit \in {"d", "h", "m"} |-> [d |-> d, h |-> h, m |-> m, s |-> s][unit]]
  BY DEF ReportedDuration, Units
<1> HIDE DEF d, h, m, s
<1>8. age = DayLength * d + 4 * h + 2 * m + s
  BY <1>2, <1>3, <1>4, <1>5, HoursOfDay
<1>9. Parsed("to_seconds", age) = d * DayLength + h * 4 + m * 2 + s * 1
  BY <1>6 DEF Parsed, ParseDuration, Amount, Units
<1>10. Parsed("to_minutes", age) = d * DayLength + h * 4 + m * 2 + 0 * 1
  BY <1>7 DEF Parsed, ParseDuration, Amount, Units
<1>11. Parsed("to_seconds", age) = age
  BY <1>3, <1>4, <1>5, <1>8, <1>9
<1>12. Parsed("to_minutes", age) = age - s
  BY <1>3, <1>4, <1>5, <1>8, <1>10
<1> QED
  BY <1>11, <1>12 DEF s

LEMMA ParsedIsNone ==
    ASSUME NEW age \in Nat
    PROVE  Parsed("unknown", age) = None
  BY DEF Parsed, ParseDuration, ReportedDuration

-----------------------------------------------------------------------------
(* What a fetch brought is the problem's age, a lag ago at most.           *)

FilterTypeOK ==
    /\ policy \in Policies
    /\ problem \in Problems
    /\ now \in Nat
    /\ boot \in Nat
    /\ boot <= now
    /\ polled \in Nat
    /\ shown \in {"nothing", "effective", "again", "withdrawn"}

ReportIsRecent ==
    report # None =>
        /\ report.at \in Nat
        /\ problem.since <= report.at
        /\ report.at <= now
        /\ now - report.at <= MaxLag
        /\ report.duration = ReportedDuration(problem.source, report.at - problem.since)

FilterInv == FilterTypeOK /\ ReportIsRecent

LEMMA InitFilterInv == Init => FilterInv
  BY DEF Init, FilterInv, FilterTypeOK, ReportIsRecent

LEMMA NextFilterInv ==
    ASSUME FilterInv, [Next]_vars
    PROVE  FilterInv'
<1> USE FilterAssumption DEF FilterInv, FilterTypeOK, ReportIsRecent
<1>1. problem.since \in Nat
  BY DEF Problems
<1>2. CASE Advance
  BY <1>1, <1>2 DEF Advance
<1>3. CASE Fetch
  <2>1. /\ report'.at = now
        /\ report'.duration = ReportedDuration(problem.source, now - problem.since)
    BY <1>3 DEF Fetch
  <2>2. UNCHANGED <<policy, problem, now, boot, polled, shown>> /\ problem.since <= now
    BY <1>3 DEF Fetch
  <2> QED
    BY <1>1, <2>1, <2>2
<1>4. CASE FetchNothing
  BY <1>4 DEF FetchNothing
<1>5. CASE Apply
  BY <1>5 DEF Apply
<1>6. CASE Restart
  BY <1>6 DEF Restart
<1>7. CASE UNCHANGED vars
  BY <1>7 DEF vars
<1> QED
  BY <1>2, <1>3, <1>4, <1>5, <1>6, <1>7 DEF Next

(* Every variable keeps its type, and what the policy judges is the age    *)
(* the problem had when it was fetched, at most MaxLag ago.                *)
THEOREM FilterTypes == Spec => []FilterInv
<1>1. Init => FilterInv
  BY InitFilterInv
<1>2. FilterInv /\ [Next]_vars => FilterInv'
  BY NextFilterInv
<1> QED
  BY <1>1, <1>2, PTL DEF Spec

Start == StartInstant(problem, report.duration, now)

LEMMA StartIsClose ==
    ASSUME FilterInv, report # None, Start # None
    PROVE  /\ Start \in Int
           /\ problem.since <= Start
           /\ Start <= problem.since + Drift
           /\ Drift \in Nat
<1> DEFINE age == report.at - problem.since
<1>1. /\ problem.since \in Nat
      /\ problem.source \in Sources
      /\ now \in Nat
      /\ report.at \in Nat
      /\ age \in Nat
      /\ now - report.at \in 0 .. MaxLag
      /\ MaxLag \in Nat
      /\ report.duration = ReportedDuration(problem.source, age)
  BY FilterAssumption DEF FilterInv, FilterTypeOK, ReportIsRecent, Problems
<1> HIDE DEF age
<1>2. CASE problem.source = "starts_at"
  BY <1>1, <1>2 DEF Start, StartInstant, Drift
<1>3. CASE problem.source # "starts_at"
  <2>1. /\ Drift = MaxLag + 1
        /\ Start = IF Parsed(problem.source, age) = None THEN None
                   ELSE now - Parsed(problem.source, age)
    BY <1>1, <1>3 DEF Start, StartInstant, Drift, Parsed, Units
  <2>2. /\ problem.source # "unknown"
        /\ Parsed(problem.source, age) # None
    BY <1>1, <2>1, ParsedIsNone
  <2>3. problem.source \in {"to_minutes", "to_seconds"}
    BY <1>1, <1>3, <2>2 DEF Sources
  <2>4. Parsed(problem.source, age) \in {age, age - (age % 2)}
    BY <1>1, <2>3, ParsedIsAge
  <2>5. /\ Parsed(problem.source, age) \in Int
        /\ Parsed(problem.source, age) <= age
        /\ age - 1 <= Parsed(problem.source, age)
    BY <1>1, <2>4
  <2>6. Start = now - Parsed(problem.source, age)
    BY <2>1, <2>2
  <2>7. now - age = problem.since + (now - report.at)
    BY <1>1 DEF age
  <2> QED
    BY <1>1, <2>1, <2>5, <2>6, <2>7
<1> QED
  BY <1>2, <1>3

-----------------------------------------------------------------------------
(* The verdicts.                                                           *)

LEMMA VerdictStart ==
    ASSUME FilterInv, Judged
    PROVE  /\ report # None
           /\ Start # None
           /\ ~ BeforeBoot(Start, boot)
           /\ Paging(problem)
           /\ Duration(Start, now) >= HoldSeconds(problem)
           /\ Duration(Start, now) < policy.max_duration
           /\ ~ OutOfWindow(Start, now)
<1>1. /\ report # None
      /\ Start # None
      /\ ~ BeforeBoot(Start, boot)
      /\ Paging(problem)
      /\ ~ (Duration(Start, now) < HoldSeconds(problem))
      /\ ~ (Duration(Start, now) >= policy.max_duration)
      /\ ~ OutOfWindow(Start, now)
  BY DEF Judged, IsFiltered, Start
<1>2. Duration(Start, now) \in Int
  BY <1>1, StartIsClose DEF Duration, FilterInv, FilterTypeOK
<1>3. HoldSeconds(problem) \in Nat \ {0} /\ policy.max_duration \in Nat
  BY DEF HoldSeconds, Hold, FilterInv, FilterTypeOK, Policies
<1> QED
  BY <1>1, <1>2, <1>3

LEMMA HoldIsRespected == FilterInv => HoldRespected
<1> SUFFICES ASSUME FilterInv, Judged
             PROVE  /\ now - problem.since >= HoldSeconds(problem)
                    /\ now - problem.since < policy.max_duration + Drift
  BY DEF HoldRespected
<1>1. /\ now \in Nat
      /\ problem.since \in Nat
      /\ HoldSeconds(problem) \in Nat
      /\ policy.max_duration \in Nat
  BY DEF HoldSeconds, Hold, FilterInv, FilterTypeOK, Policies, Problems
<1>2. /\ now - Start >= HoldSeconds(problem)
      /\ now - Start < policy.max_duration
  BY VerdictStart DEF Duration
<1> QED
  BY <1>1, <1>2, VerdictStart, StartIsClose

LEMMA NothingIsOlderThanBoot == FilterInv => NothingOlderThanBoot
<1> SUFFICES ASSUME FilterInv, Judged, ~ policy.window_enabled, ~ policy.allow_past
             PROVE  problem.since + Drift >= boot
  BY DEF NothingOlderThanBoot
<1>1. ~ (Start < boot)
  BY VerdictStart DEF BeforeBoot
<1>2. boot \in Nat /\ problem.since \in Nat
  BY DEF FilterInv, FilterTypeOK, Problems
<1> QED
  BY <1>1, <1>2, VerdictStart, StartIsClose

LEMMA StartIsInShift == FilterInv => StartedInShift
<1> SUFFICES ASSUME FilterInv, Judged, policy.window_enabled, ~ policy.allow_past
             PROVE  \E late \in 0 .. Drift :
                        LET began == problem.since + late
                        IN  Day(began) = Day(now) /\ InDailyWindow(began)
  BY DEF StartedInShift
<1>1. Day(Start) = Day(now) /\ InDailyWindow(Start)
  BY VerdictStart DEF OutOfWindow, StartsInWindowToday
<1>2. problem.since \in Nat
  BY DEF FilterInv, FilterTypeOK, Problems
<1> DEFINE late == Start - problem.since
<1>3. late \in 0 .. Drift /\ problem.since + late = Start
  BY <1>2, VerdictStart, StartIsClose
<1> HIDE DEF late
<1> QED
  BY <1>1, <1>3

(* No policy tells of a problem before it has lasted its hold, nor, but    *)
(* for the drift, once it has lasted the longest duration.                 *)
THEOREM HoldsAreRespected == Spec => []HoldRespected
  BY FilterTypes, HoldIsRespected, PTL

(* With the window off no policy tells of a problem older than the daemon, *)
(* but for the drift, however often it is started.                         *)
THEOREM OldProblemsAreSilent == Spec => []NothingOlderThanBoot
  BY FilterTypes, NothingIsOlderThanBoot, PTL

(* With the window on and no past alerts, what a policy tells of began in  *)
(* today's window, or the drift before it.                                 *)
THEOREM StartsAreInShift == Spec => []StartedInShift
  BY FilterTypes, StartIsInShift, PTL

-----------------------------------------------------------------------------
(* Nothing flickers: what has made a problem effective earlier in the day  *)
(* lasts for the day, and what takes it away again does too.               *)

Steady == policy.allow_past \/ problem.source = "starts_at"

(* What its duration is, or was reported to be, at an instant.             *)
Measured(t) ==
    IF problem.source = "starts_at" THEN t - problem.since
    ELSE Parsed(problem.source, t - problem.since)

WasEffective(t) ==
    /\ ~ Noise(problem)
    /\ Paging(problem)
    /\ problem.source # "unknown"
    /\ problem.since <= t
    /\ HoldSeconds(problem) <= Measured(t)
    /\ policy.window_enabled =>
         /\ Day(t) % 7 \in policy.weekdays
         /\ policy.window_start <= Time(t)
         /\ ~ policy.allow_past => StartsInWindowToday(problem.since, t)

IsGone(t) ==
    \/ policy.max_duration <= Measured(t)
    \/ policy.window_enabled /\ policy.window_end < Time(t)
    \/ ~ policy.window_enabled /\ ~ policy.allow_past /\ problem.since < boot

FlickerInv ==
    /\ FilterInv
    /\ polled <= now
    /\ report # None => polled <= report.at
    /\ Steady =>
         /\ shown # "again"
         /\ shown # "nothing" => Day(polled) = Day(now) /\ WasEffective(polled)
         /\ shown = "withdrawn" => IsGone(polled)

LEMMA DayTimes ==
    ASSUME NEW t \in Nat
    PROVE  /\ Day(t) \in Nat
           /\ Time(t) \in Nat
           /\ t = DayLength * Day(t) + Time(t)
<1>1. DayLength \in Nat \ {0}
  BY FilterAssumption
<1>2. /\ t \div DayLength \in Nat
      /\ t % DayLength \in 0 .. DayLength - 1
      /\ t = DayLength * (t \div DayLength) + (t % DayLength)
  BY <1>1, DivMod
<1> QED
  BY <1>1, <1>2 DEF Day, Time

LEMMA LaterThatDay ==
    ASSUME NEW t \in Nat, NEW u \in Nat, t <= u, Day(t) = Day(u)
    PROVE  Time(t) <= Time(u)
<1> DEFINE q == DayLength * Day(t)
<1>1. q \in Nat
  <2>1. DayLength \in Nat /\ Day(t) \in Nat
    BY FilterAssumption, DayTimes
  <2> QED
    BY <2>1
<1>2. /\ Time(t) \in Nat
      /\ Time(u) \in Nat
      /\ t = q + Time(t)
      /\ u = q + Time(u)
  BY DayTimes
<1> HIDE DEF q
<1> QED
  BY <1>1, <1>2

LEMMA MeasuredGrows ==
    ASSUME problem \in Problems, problem.source # "unknown",
           NEW t \in Nat, NEW u \in Nat, problem.since <= t, t <= u
    PROVE  /\ Measured(t) \in Int
           /\ Measured(u) \in Int
           /\ Measured(t) <= Measured(u)
<1> DEFINE a == t - problem.since
           b == u - problem.since
<1>1. /\ a \in Nat
      /\ b \in Nat
      /\ a <= b
      /\ problem.source \in {"starts_at", "to_seconds", "to_minutes"}
  BY DEF Problems, Sources
<1>2. /\ Parsed("to_seconds", a) = a /\ Parsed("to_minutes", a) = a - (a % 2)
      /\ Parsed("to_seconds", b) = b /\ Parsed("to_minutes", b) = b - (b % 2)
  BY <1>1, ParsedIsAge
<1>3. /\ Measured(t) = IF problem.source = "starts_at" THEN a ELSE Parsed(problem.source, a)
      /\ Measured(u) = IF problem.source = "starts_at" THEN b ELSE Parsed(problem.source, b)
  BY DEF Measured
<1> HIDE DEF a, b
<1> QED
  BY <1>1, <1>2, <1>3

LEMMA EffectIsLasting ==
    ASSUME FilterInv, NEW t \in Nat, NEW u \in Nat, t <= u, Day(t) = Day(u),
           WasEffective(t)
    PROVE  /\ WasEffective(u)
           /\ IsGone(t) => IsGone(u)
<1>1. Time(t) \in Nat /\ Time(u) \in Nat /\ Time(t) <= Time(u)
  BY DayTimes, LaterThatDay
<1>2. /\ problem \in Problems
      /\ problem.since \in Nat
      /\ HoldSeconds(problem) \in Nat
      /\ policy.max_duration \in Nat
      /\ policy.window_start \in Int
      /\ policy.window_end \in Int
  BY FilterAssumption
     DEF HoldSeconds, Hold, FilterInv, FilterTypeOK, Policies, Problems
<1>3. Measured(t) \in Int /\ Measured(u) \in Int /\ Measured(t) <= Measured(u)
  BY <1>2, MeasuredGrows DEF WasEffective
<1>4. StartsInWindowToday(problem.since, t) => StartsInWindowToday(problem.since, u)
  BY DEF StartsInWindowToday
<1>5. WasEffective(u)
  BY <1>1, <1>2, <1>3, <1>4 DEF WasEffective
<1>6. IsGone(t) => IsGone(u)
  BY <1>1, <1>2, <1>3 DEF IsGone
<1> QED
  BY <1>5, <1>6

(* A judgement measures the problem between the last poll and now.         *)
LEMMA JudgedMeasure ==
    ASSUME FlickerInv, report # None, problem.source # "unknown"
    PROVE  /\ Start # None
           /\ Duration(Start, now) \in Int
           /\ problem.since <= now
           /\ Duration(Start, now) <= Measured(now)
           /\ Measured(now) \in Int
           /\ problem.since <= polled => Measured(polled) <= Duration(Start, now)
<1> DEFINE age == report.at - problem.since
<1>1. /\ problem \in Problems
      /\ problem.since \in Nat
      /\ now \in Nat
      /\ polled \in Nat
      /\ report.at \in Nat
      /\ problem.since <= report.at
      /\ report.at <= now
      /\ polled <= report.at
      /\ polled <= now
      /\ age \in Nat
      /\ report.duration = ReportedDuration(problem.source, age)
  BY DEF FlickerInv, FilterInv, FilterTypeOK, ReportIsRecent, Problems
<1>2. /\ Measured(report.at) \in Int
      /\ Measured(now) \in Int
      /\ Measured(report.at) <= Measured(now)
  BY <1>1, MeasuredGrows
<1>3. problem.since <= polled =>
        /\ Measured(polled) \in Int
        /\ Measured(polled) <= Measured(report.at)
        /\ Measured(polled) <= Measured(now)
  BY <1>1, MeasuredGrows
<1>4. CASE problem.source = "starts_at"
  <2>1. Start = problem.since
    BY <1>4 DEF Start, StartInstant
  <2>2. Start # None /\ Duration(Start, now) = Measured(now)
    BY <1>1, <1>4, <2>1, FilterAssumption DEF Duration, Measured
  <2> QED
    BY <1>1, <1>2, <1>3, <2>2
<1>5. CASE problem.source # "starts_at"
  <2>1. Measured(report.at) = Parsed(problem.source, age)
    BY <1>5 DEF Measured
  <2>2. Start = IF Measured(report.at) = None THEN None ELSE now - Measured(report.at)
    BY <1>1, <1>5, <2>1 DEF Start, StartInstant, Parsed
  <2>3. Start = now - Measured(report.at) /\ Start # None
    BY <1>1, <1>2, <2>2, FilterAssumption
  <2>4. Duration(Start, now) = Measured(report.at)
    BY <1>1, <1>2, <2>3 DEF Duration
  <2> QED
    BY <1>1, <1>2, <1>3, <2>3, <2>4
<1> QED
  BY <1>4, <1>5

LEMMA KnownSource ==
    ASSUME FilterInv, Judged
    PROVE  problem.source # "unknown"
<1> SUFFICES ASSUME problem.source = "unknown"
             PROVE  FALSE
  OBVIOUS
<1>1. report # None /\ Start # None
  BY VerdictStart
<1>2. /\ report.at - problem.since \in Nat
      /\ report.duration = ReportedDuration("unknown", report.at - problem.since)
  BY <1>1 DEF FilterInv, FilterTypeOK, ReportIsRecent, Problems
<1>3. ParseDuration(report.duration) = None
  BY <1>2, ParsedIsNone DEF Parsed
<1> QED
  BY <1>1, <1>3 DEF Start, StartInstant

LEMMA JudgedIsEffective ==
    ASSUME FlickerInv, Steady, Judged
    PROVE  WasEffective(now) /\ ~ (shown = "withdrawn")
<1>1. /\ FilterInv
      /\ problem.source # "unknown"
      /\ report # None
      /\ Start # None
      /\ ~ BeforeBoot(Start, boot)
      /\ Paging(problem)
      /\ Duration(Start, now) >= HoldSeconds(problem)
      /\ Duration(Start, now) < policy.max_duration
      /\ ~ OutOfWindow(Start, now)
  BY KnownSource, VerdictStart DEF FlickerInv
<1>2. ~ Noise(problem)
  BY DEF Judged, IsFiltered
<1>3. /\ Duration(Start, now) \in Int
      /\ problem.since <= now
      /\ Duration(Start, now) <= Measured(now)
      /\ Measured(now) \in Int
      /\ problem.since <= polled => Measured(polled) <= Duration(Start, now)
  BY <1>1, JudgedMeasure
<1>4. /\ HoldSeconds(problem) \in Nat
      /\ policy.max_duration \in Nat
      /\ policy.window_start \in Int
      /\ policy.window_end \in Int
      /\ now \in Nat
      /\ polled \in Nat
      /\ polled <= now
      /\ problem \in Problems
  BY FilterAssumption
     DEF HoldSeconds, Hold, FlickerInv, FilterInv, FilterTypeOK, Policies
<1>5. ~ policy.allow_past => Start = problem.since
  BY DEF Steady, Start, StartInstant
<1>6. policy.window_enabled =>
        /\ InDailyWindow(now)
        /\ ~ policy.allow_past => StartsInWindowToday(problem.since, now)
  BY <1>1, <1>5 DEF OutOfWindow
<1>7. WasEffective(now)
  BY <1>1, <1>2, <1>3, <1>4, <1>6 DEF WasEffective, InDailyWindow
<1>8. ASSUME shown = "withdrawn"
      PROVE  FALSE
  <2>1. Day(polled) = Day(now) /\ WasEffective(polled) /\ IsGone(polled)
    BY <1>8 DEF FlickerInv
  <2>2. Time(polled) \in Nat /\ Time(now) \in Nat /\ Time(polled) <= Time(now)
    BY <1>4, <2>1, DayTimes, LaterThatDay
  <2>3. Measured(polled) \in Int /\ Measured(polled) <= Duration(Start, now)
    BY <1>3, <1>4, <2>1, MeasuredGrows DEF WasEffective
  <2>4. ~ (policy.max_duration <= Measured(polled))
    BY <1>1, <1>3, <1>4, <2>3
  <2>5. ~ (policy.window_enabled /\ policy.window_end < Time(polled))
    BY <1>4, <1>6, <2>2 DEF InDailyWindow
  <2>6. ~ (~ policy.window_enabled /\ ~ policy.allow_past /\ problem.since < boot)
    BY <1>1, <1>5 DEF BeforeBoot
  <2> QED
    BY <2>1, <2>4, <2>5, <2>6 DEF IsGone
<1> QED
  BY <1>7, <1>8

LEMMA FilteredIsGone ==
    ASSUME FlickerInv, Steady, report # None, ~ Judged, shown = "effective"
    PROVE  IsGone(now)
<1>1. Day(polled) = Day(now) /\ WasEffective(polled)
  BY DEF FlickerInv
<1>2. /\ FilterInv
      /\ HoldSeconds(problem) \in Nat
      /\ policy.max_duration \in Nat
      /\ policy.window_start \in Int
      /\ policy.window_end \in Int
      /\ now \in Nat
      /\ polled \in Nat
      /\ polled <= now
      /\ problem \in Problems
  BY FilterAssumption
     DEF HoldSeconds, Hold, FlickerInv, FilterInv, FilterTypeOK, Policies
<1>3. /\ Start # None
      /\ Duration(Start, now) \in Int
      /\ Duration(Start, now) <= Measured(now)
      /\ Measured(now) \in Int
      /\ Measured(polled) <= Duration(Start, now)
      /\ Measured(polled) \in Int
  BY <1>1, <1>2, JudgedMeasure, MeasuredGrows DEF WasEffective
<1>4. ~ (Duration(Start, now) < HoldSeconds(problem))
  BY <1>1, <1>2, <1>3 DEF WasEffective
<1>5. WasEffective(now)
  BY <1>1, <1>2, EffectIsLasting
<1>6. \/ BeforeBoot(Start, boot)
      \/ Duration(Start, now) >= policy.max_duration
      \/ OutOfWindow(Start, now)
  BY <1>3, <1>4, <1>5 DEF Judged, IsFiltered, Start, WasEffective
<1>7. ~ policy.allow_past => Start = problem.since
  BY DEF Steady, Start, StartInstant
<1>8. BeforeBoot(Start, boot) => IsGone(now)
  BY <1>7 DEF BeforeBoot, IsGone
<1>9. Duration(Start, now) >= policy.max_duration => IsGone(now)
  BY <1>2, <1>3 DEF IsGone
<1>10. ASSUME OutOfWindow(Start, now)
       PROVE  IsGone(now)
  <2>1. Time(now) \in Nat
    BY <1>2, DayTimes
  <2>2. policy.window_enabled /\ ~ InDailyWindow(now)
    BY <1>5, <1>7, <1>10 DEF OutOfWindow, WasEffective
  <2>3. ~ (Time(now) <= policy.window_end)
    BY <1>5, <2>2 DEF InDailyWindow, WasEffective
  <2> QED
    BY <1>2, <2>1, <2>2, <2>3 DEF IsGone
<1> QED
  BY <1>6, <1>8, <1>9, <1>10

LEMMA InitFlickerInv == Init => FlickerInv
<1> SUFFICES ASSUME Init PROVE FlickerInv
  OBVIOUS
<1>1. FilterInv
  BY InitFilterInv
<1> QED
  BY <1>1 DEF Init, FlickerInv

LEMMA NextFlickerInv ==
    ASSUME FlickerInv, [Next]_vars
    PROVE  FlickerInv'
<1>1. FilterInv /\ FilterInv'
  BY NextFilterInv DEF FlickerInv
<1>2. /\ now \in Nat
      /\ boot \in Nat
      /\ boot <= now
      /\ polled \in Nat
      /\ polled <= now
      /\ problem.since \in Nat
      /\ policy.max_duration \in Nat
  BY DEF FlickerInv, FilterInv, FilterTypeOK, Policies, Problems
<1>3. Steady /\ shown # "nothing" =>
        /\ Day(polled) = Day(now)
        /\ WasEffective(polled)
        /\ WasEffective(now)
        /\ IsGone(polled) => IsGone(now)
  BY <1>1, <1>2, EffectIsLasting DEF FlickerInv
<1> USE DEF FlickerInv
<1>4. CASE Advance
  <2>1. /\ now' = now + 1
        /\ UNCHANGED <<policy, problem, boot, report, polled>>
        /\ shown' = IF Day(now') = Day(now) THEN shown ELSE "nothing"
    BY <1>4 DEF Advance
  <2>2. /\ Steady' <=> Steady
        /\ WasEffective(polled)' <=> WasEffective(polled)
        /\ IsGone(polled)' <=> IsGone(polled)
    BY <2>1 DEF Steady, WasEffective, IsGone, Measured, HoldSeconds,
                StartsInWindowToday, InDailyWindow
  <2>3. polled' <= now'
    BY <1>2, <2>1
  <2>4. report' # None => polled' <= report'.at
    BY <2>1
  <2>5. shown' \in {shown, "nothing"} /\ (shown' # "nothing" => Day(now') = Day(now))
    BY <2>1
  <2>6. Steady' =>
          /\ shown' # "again"
          /\ shown' # "nothing" => Day(polled)' = Day(now)' /\ WasEffective(polled)'
          /\ shown' = "withdrawn" => IsGone(polled)'
    BY <2>1, <2>2, <2>5
  <2> QED
    BY <1>1, <2>3, <2>4, <2>6
<1>5. CASE Fetch
  <2>1. /\ report'.at = now
        /\ UNCHANGED <<policy, problem, now, boot, polled, shown>>
    BY <1>5 DEF Fetch
  <2>2. /\ Steady' <=> Steady
        /\ WasEffective(polled)' <=> WasEffective(polled)
        /\ IsGone(polled)' <=> IsGone(polled)
    BY <2>1 DEF Steady, WasEffective, IsGone, Measured, HoldSeconds,
                StartsInWindowToday, InDailyWindow
  <2> QED
    BY <1>1, <1>2, <2>1, <2>2
<1>6. CASE FetchNothing
  <2>1. /\ polled' = now
        /\ report' = None
        /\ UNCHANGED <<policy, problem, now, boot, shown>>
    BY <1>6 DEF FetchNothing
  <2>2. /\ Steady' <=> Steady
        /\ WasEffective(polled)' <=> WasEffective(now)
        /\ IsGone(polled)' <=> IsGone(now)
    BY <2>1 DEF Steady, WasEffective, IsGone, Measured, HoldSeconds,
                StartsInWindowToday, InDailyWindow
  <2> QED
    BY <1>1, <1>2, <1>3, <2>1, <2>2
<1>7. CASE Apply
  <2>1. /\ polled' = now
        /\ report # None
        /\ report' = None
        /\ UNCHANGED <<policy, problem, now, boot>>
    BY <1>7 DEF Apply
  <2>2. shown' = IF ~ Judged
                 THEN IF shown \in {"effective", "again"} THEN "withdrawn" ELSE shown
                 ELSE IF shown \in {"nothing", "effective"} THEN "effective" ELSE "again"
    BY <1>7 DEF Apply, Judged
  <2>3. /\ Steady' <=> Steady
        /\ WasEffective(polled)' <=> WasEffective(now)
        /\ IsGone(polled)' <=> IsGone(now)
    BY <2>1 DEF Steady, WasEffective, IsGone, Measured, HoldSeconds,
                StartsInWindowToday, InDailyWindow
  <2>4. Steady /\ Judged => WasEffective(now) /\ shown # "withdrawn"
    BY JudgedIsEffective
  <2>5. Steady /\ ~ Judged /\ shown = "effective" => IsGone(now)
    BY <2>1, FilteredIsGone
  <2>6. shown \in {"nothing", "effective", "again", "withdrawn"}
    BY <1>1 DEF FilterInv, FilterTypeOK
  <2>7. Steady =>
          /\ shown' # "again"
          /\ shown' # "nothing" => WasEffective(now)
          /\ shown' = "withdrawn" => IsGone(now)
    BY <1>3, <2>2, <2>4, <2>5, <2>6
  <2> QED
    BY <1>1, <1>2, <2>1, <2>3, <2>7
<1>8. CASE Restart
  <2>1. /\ boot' = now
        /\ report' = None
        /\ UNCHANGED <<policy, problem, now, polled, shown>>
    BY <1>8 DEF Restart
  <2>2. /\ Steady' <=> Steady
        /\ WasEffective(polled)' <=> WasEffective(polled)
        /\ IsGone(polled) => IsGone(polled)'
    BY <1>2, <2>1 DEF Steady, WasEffective, IsGone, Measured, HoldSeconds,
                      StartsInWindowToday, InDailyWindow
  <2> QED
    BY <1>1, <1>2, <2>1, <2>2
<1>9. CASE UNCHANGED vars
  <2>1. UNCHANGED <<policy, problem, now, boot, report, polled, shown>>
    BY <1>9 DEF vars
  <2>2. /\ Steady' <=> Steady
        /\ WasEffective(polled)' <=> WasEffective(polled)
        /\ IsGone(polled)' <=> IsGone(polled)
    BY <2>1 DEF Steady, WasEffective, IsGone, Measured, HoldSeconds,
                StartsInWindowToday, InDailyWindow
  <2> QED
    BY <1>1, <2>1, <2>2
<1> QED
  BY <1>4, <1>5, <1>6, <1>7, <1>8, <1>9 DEF Next

(* Under any policy that accepts past alerts, and of any problem dated by  *)
(* startsAt under any policy at all, a day has one stretch in which it is  *)
(* effective: time, the lag of a fetch, lost answers and restarts never    *)
(* bring back what the day has taken away.                                 *)
THEOREM NothingFlickers == Spec => []NoFlicker
<1>1. Init => FlickerInv
  BY InitFlickerInv
<1>2. FlickerInv /\ [Next]_vars => FlickerInv'
  BY NextFlickerInv
<1>3. FlickerInv => NoFlicker
  BY DEF FlickerInv, NoFlicker, Steady
<1> QED
  BY <1>1, <1>2, <1>3, PTL DEF Spec

-----------------------------------------------------------------------------
(* Settings.                                                               *)

LEMMA AcceptedFields ==
    ASSUME NEW env, FromEnv(env) # Refused
    PROVE  /\ FromEnv(env) = Fields(env)
           /\ \A name \in DOMAIN Fields(env) : Fields(env)[name] # Refused
           /\ ~ HoldTooLong(Fields(env))
  BY DEF FromEnv

LEMMA AcceptedNumber ==
    ASSUME NEW raw \in Int \cup {Blank, Other}, ParsePositive(raw) # Refused
    PROVE  ParsePositive(raw) \in Nat \ {0}
  BY DEF ParsePositive

LEMMA NumberText ==
    ASSUME NEW env, Readable(env), NEW name \in Numbers
    PROVE  /\ Text(env, name) \in Int \cup {Blank, Other}
           /\ TextOr(env, name) \in Int \cup {Blank, Other}
  BY DefaultAssumption DEF Readable, Text, TextOr

(* Whatever a readable environment says, from_env refuses it or makes a    *)
(* policy of it whose holds are positive and end before the longest        *)
(* duration, and a ledger with a positive window.                          *)
THEOREM AcceptedSettings ==
    ASSUME NEW env, Readable(env), FromEnv(env) # Refused
    PROVE  LET fields == FromEnv(env)
           IN  /\ PolicyOf(fields) \in Policies
               /\ fields.hold_fast < fields.max_duration
               /\ fields.hold_critical < fields.max_duration
               /\ fields.hold_warning < fields.max_duration
               /\ fields.dedup_window_minutes \in Nat \ {0}
               /\ fields.dedup_enabled \in BOOLEAN
<1> DEFINE fields == Fields(env)
<1>1. /\ FromEnv(env) = fields
      /\ \A name \in DOMAIN fields : fields[name] # Refused
      /\ ~ HoldTooLong(fields)
  BY AcceptedFields
<1>2. /\ fields.hold_fast \in Nat \ {0}
      /\ fields.hold_critical \in Nat \ {0}
      /\ fields.hold_warning \in Nat \ {0}
      /\ fields.max_duration \in Nat \ {0}
      /\ fields.dedup_window_minutes \in Nat \ {0}
  <2>1. /\ fields.hold_fast = ParsePositive(TextOr(env, "FILTER_HOLD_FAST_SECONDS"))
        /\ fields.hold_critical = ParsePositive(TextOr(env, "FILTER_HOLD_CRITICAL_SECONDS"))
        /\ fields.hold_warning = ParsePositive(TextOr(env, "FILTER_HOLD_WARNING_SECONDS"))
        /\ fields.max_duration = ParsePositive(TextOr(env, "FILTER_DURATION_MAX_SECONDS"))
        /\ fields.dedup_window_minutes = ParsePositive(Text(env, "DEDUP_WINDOW_MINUTES"))
    BY DEF Fields
  <2>2. /\ fields.hold_fast # Refused
        /\ fields.hold_critical # Refused
        /\ fields.hold_warning # Refused
        /\ fields.max_duration # Refused
        /\ fields.dedup_window_minutes # Refused
    BY <1>1 DEF Fields
  <2>3. {"FILTER_HOLD_FAST_SECONDS", "FILTER_HOLD_CRITICAL_SECONDS",
         "FILTER_HOLD_WARNING_SECONDS", "FILTER_DURATION_MAX_SECONDS",
         "DEDUP_WINDOW_MINUTES"} \subseteq Numbers
    BY DEF Numbers
  <2> HIDE DEF fields
  <2> QED
    BY <2>1, <2>2, <2>3, AcceptedNumber, NumberText
<1>3. /\ fields.window_start \in 0 .. DayLength - 1
      /\ fields.window_end \in 0 .. DayLength - 1
  <2>1. /\ fields.window_start = ParseHhmm(TextOr(env, "WINDOW_START"))
        /\ fields.window_end = ParseHhmm(TextOr(env, "WINDOW_END"))
    BY DEF Fields
  <2>2. fields.window_start # Refused /\ fields.window_end # Refused
    BY <1>1 DEF Fields
  <2> HIDE DEF fields
  <2> QED
    BY <2>1, <2>2 DEF ParseHhmm
<1>4. fields.weekdays \in SUBSET (0 .. 6)
  <2>1. fields.weekdays = ParseWeekdays(TextOr(env, "WINDOW_DAYS"))
    BY DEF Fields
  <2>2. fields.weekdays # Refused
    BY <1>1 DEF Fields
  <2>3. TextOr(env, "WINDOW_DAYS") \in (SUBSET (0 .. 6)) \cup {Other}
    BY DefaultAssumption DEF TextOr, Readable
  <2> HIDE DEF fields
  <2> QED
    BY <2>1, <2>2, <2>3, DefaultAssumption DEF ParseWeekdays
<1>5. /\ fields.window_enabled \in BOOLEAN
      /\ fields.allow_past \in BOOLEAN
      /\ fields.dedup_enabled \in BOOLEAN
  BY DEF Fields, ParseBool, AllowPast
<1>6. /\ fields.hold_fast < fields.max_duration
      /\ fields.hold_critical < fields.max_duration
      /\ fields.hold_warning < fields.max_duration
  <2> HIDE DEF fields
  <2> QED
    BY <1>1, <1>2 DEF HoldTooLong
<1>7. PolicyOf(fields) \in Policies
  <2> HIDE DEF fields
  <2> QED
    BY <1>2, <1>3, <1>4, <1>5 DEF PolicyOf, Policies
<1> QED
  BY <1>1, <1>2, <1>5, <1>6, <1>7

-----------------------------------------------------------------------------
(* The daemon is a filter applied poll after poll.                         *)

LEMMA DaemonInitIsInit == DaemonInit => Init
  BY DEF DaemonInit

LEMMA DaemonStepIsStep == [DaemonNext]_<<vars, daemonVars>> => [Next]_vars
<1> SUFFICES ASSUME [DaemonNext]_<<vars, daemonVars>> PROVE [Next]_vars
  OBVIOUS
<1>1. CASE PassTime
  BY <1>1 DEF PassTime, Next
<1>2. CASE FetchAlert
  BY <1>2 DEF FetchAlert, Next
<1>3. CASE MissAlert
  BY <1>3 DEF MissAlert, Next
<1>4. CASE KeepQuiet
  BY <1>4 DEF KeepQuiet, Next
<1>5. CASE Publish
  BY <1>5 DEF Publish, Next
<1>6. CASE PublishRefused
  BY <1>6 DEF PublishRefused, Next
<1>7. CASE AnswerLost
  BY <1>7 DEF AnswerLost, Next
<1>8. CASE RestartDaemon
  BY <1>8 DEF RestartDaemon, Next
<1>9. CASE UNCHANGED <<vars, daemonVars>>
  BY <1>9
<1> QED
  BY <1>1, <1>2, <1>3, <1>4, <1>5, <1>6, <1>7, <1>8, <1>9 DEF DaemonNext

(* What a process publishes is what its policy judges effective: whatever  *)
(* the ledger, the sinks and the restarts do, the daemon is a filter       *)
(* applied poll after poll, and every theorem of the filter holds of it.   *)
THEOREM DaemonImplementsFilter == DaemonSpec => Spec
  BY DaemonInitIsInit, DaemonStepIsStep, PTL DEF DaemonSpec, Spec

-----------------------------------------------------------------------------
(* Nothing is told again.                                                  *)

Tellings == {"nothing", "unanswered", "once", "again"}

DaemonTypeOK ==
    /\ settings.dedup_window_minutes \in Nat \ {0}
    /\ settings.dedup_enabled \in BOOLEAN
    /\ up \in BOOLEAN
    /\ claim = None \/ claim \in Nat
    /\ refusals \in Nat
    /\ heard \in [boot : Tellings, ever : Tellings]

(* The ledger knows of what the process has told and Chat has answered,    *)
(* and of nothing else.                                                    *)
ClaimIsTold ==
    Deduped => /\ heard.boot # "again"
               /\ heard.boot \in {"nothing", "unanswered"} <=> claim = None
               /\ heard.boot # "nothing" => heard.ever # "nothing"

ByBoot ==
    /\ Deduped
    /\ ~ policy.window_enabled
    /\ ~ policy.allow_past
    /\ "fetch" \notin faults
    /\ HoldSeconds(problem) > Drift

(* What another process told is too old for this one.                      *)
ToldIsOld ==
    ByBoot =>
        /\ heard.ever # "again"
        /\ heard.ever # "nothing" => problem.since + HoldSeconds(problem) <= now
        /\ heard.ever # "nothing" /\ heard.boot = "nothing"
             => problem.since + Drift < boot

DaemonInv == FilterInv /\ DaemonTypeOK /\ ClaimIsTold /\ ToldIsOld

LEMMA InitDaemonInv == DaemonInit => DaemonInv
<1> SUFFICES ASSUME DaemonInit PROVE DaemonInv
  OBVIOUS
<1>1. FilterInv
  BY DaemonInitIsInit, InitFilterInv
<1>2. PICK case \in Cases : BootsWith(FromEnv(Loaded(case.dotenv, case.environ)))
  BY DEF DaemonInit
<1>3. /\ settings = FromEnv(Loaded(case.dotenv, case.environ))
      /\ FromEnv(Loaded(case.dotenv, case.environ)) # Refused
  BY <1>2 DEF BootsWith
<1>4. /\ settings.dedup_window_minutes \in Nat \ {0}
      /\ settings.dedup_enabled \in BOOLEAN
  BY <1>3, AcceptedSettings, CasesAssumption
<1>5. /\ up = TRUE
      /\ claim = None
      /\ refusals = 0
      /\ heard = [boot |-> "nothing", ever |-> "nothing"]
  BY DEF DaemonInit
<1> QED
  BY <1>1, <1>4, <1>5 DEF DaemonInv, DaemonTypeOK, ClaimIsTold, ToldIsOld, Tellings

LEMMA FilterOfDaemon ==
    ASSUME DaemonInv, [DaemonNext]_<<vars, daemonVars>>
    PROVE  FilterInv'
  BY DaemonStepIsStep, NextFilterInv DEF DaemonInv

LEMMA Kinds ==
    ASSUME FilterInv
    PROVE  /\ now \in Nat
           /\ now # None
           /\ boot \in Nat
           /\ polled \in Nat
           /\ problem.since \in Nat
           /\ HoldSeconds(problem) \in Nat \ {0}
           /\ policy.max_duration \in Nat
           /\ Drift \in Nat
  BY FilterAssumption
     DEF FilterInv, FilterTypeOK, Problems, Policies, HoldSeconds, Hold, Drift, Units

LEMMA NextDaemonInv ==
    ASSUME DaemonInv, [DaemonNext]_<<vars, daemonVars>>
    PROVE  DaemonInv'
<1>1. FilterInv /\ FilterInv'
  BY FilterOfDaemon DEF DaemonInv
<1>2. /\ now \in Nat
      /\ now # None
      /\ boot \in Nat
      /\ problem.since \in Nat
      /\ HoldSeconds(problem) \in Nat \ {0}
      /\ Drift \in Nat
  BY <1>1, Kinds
<1> USE DEF DaemonInv
<1>3. ASSUME UNCHANGED <<policy, problem, boot, daemonVars>>, now' \in Nat, now <= now'
      PROVE  DaemonInv'
  <2>1. UNCHANGED <<policy, problem, boot, settings, faults, up, claim, refusals, heard>>
    BY <1>3 DEF daemonVars
  <2>2. HoldSeconds(problem)' = HoldSeconds(problem) /\ Drift' = Drift
    BY <2>1 DEF HoldSeconds, Drift
  <2>3. DaemonTypeOK' /\ ClaimIsTold'
    BY <2>1 DEF DaemonTypeOK, ClaimIsTold, Deduped
  <2>4. ToldIsOld'
    BY <1>2, <1>3, <2>1, <2>2 DEF ToldIsOld, ByBoot, Deduped
  <2> QED
    BY <1>1, <2>3, <2>4
<1>4. CASE PassTime
  BY <1>2, <1>3, <1>4 DEF PassTime, Advance
<1>5. CASE FetchAlert
  BY <1>2, <1>3, <1>5 DEF FetchAlert, Fetch
<1>6. CASE MissAlert
  <2>1. /\ UNCHANGED <<policy, problem, boot, now>>
        /\ UNCHANGED <<settings, faults, up, refusals>>
        /\ now < problem.since \/ "fetch" \in faults
        /\ claim' = IF Retired(FALSE, now) THEN None ELSE claim
        /\ heard' = IF claim # None /\ claim + settings.dedup_window_minutes <= now
                    THEN [heard EXCEPT !.boot = "nothing"] ELSE heard
    BY <1>6 DEF MissAlert, FetchNothing
  <2>2. HoldSeconds(problem)' = HoldSeconds(problem) /\ Drift' = Drift
    BY <2>1 DEF HoldSeconds, Drift
  <2>3. Retired(FALSE, now)
          <=> claim # None /\ claim + settings.dedup_window_minutes <= now
    BY <1>2 DEF Retired, DaemonTypeOK
  <2>4. heard' \in {heard, [heard EXCEPT !.boot = "nothing"]}
    BY <2>1
  <2>5. DaemonTypeOK'
    BY <2>1, <2>4 DEF DaemonTypeOK, Tellings
  <2>6. ClaimIsTold'
    BY <2>1, <2>3 DEF ClaimIsTold, Deduped, DaemonTypeOK
  <2>7. ToldIsOld'
    <3> SUFFICES ASSUME ByBoot'
                 PROVE  heard'.ever = "nothing"
      BY DEF ToldIsOld
    <3>1. ByBoot /\ now < problem.since
      BY <2>1, <2>2 DEF ByBoot, Deduped
    <3>2. heard.ever = "nothing"
      BY <1>2, <3>1 DEF ToldIsOld
    <3> QED
      BY <2>4, <3>2 DEF DaemonTypeOK
  <2> QED
    BY <1>1, <2>5, <2>6, <2>7
<1>7. CASE KeepQuiet
  BY <1>2, <1>3, <1>7 DEF KeepQuiet, Apply
<1>carried. ASSUME NEW as \in {"once", "unanswered"},
             UNCHANGED <<policy, problem, boot, now, settings, faults>>,
             Judged,
             Deduped => claim = None,
             heard' = Carried(as)
      PROVE  ToldIsOld'
  <2>1. HoldSeconds(problem)' = HoldSeconds(problem) /\ Drift' = Drift
    BY <1>carried DEF HoldSeconds, Drift
  <2>2. heard'.boot # "nothing"
    BY <1>carried DEF Carried
  <2> SUFFICES ASSUME ByBoot'
               PROVE  /\ heard'.ever # "again"
                      /\ problem.since + HoldSeconds(problem) <= now
    BY <1>carried, <2>1, <2>2 DEF ToldIsOld
  <2>3. ByBoot
    BY <1>carried, <2>1 DEF ByBoot, Deduped
  <2>4. problem.since + Drift >= boot
    BY <1>1, <1>carried, <2>3, NothingIsOlderThanBoot DEF NothingOlderThanBoot, ByBoot
  <2>5. now - problem.since >= HoldSeconds(problem)
    BY <1>1, <1>carried, HoldIsRespected DEF HoldRespected
  <2>6. heard.boot = "nothing" => heard.ever = "nothing"
    BY <1>2, <2>3, <2>4 DEF ToldIsOld
  <2>7. heard.ever # "again"
    BY <2>3 DEF ToldIsOld
  <2>8. heard'.ever # "again"
    BY <1>carried, <2>6, <2>7 DEF Carried
  <2> QED
    BY <1>2, <2>5, <2>8
<1>8. CASE Publish
  <2>1. /\ UNCHANGED <<policy, problem, boot, now>>
        /\ UNCHANGED <<settings, faults, up, refusals>>
        /\ Judged
        /\ Deduped => claim = None
        /\ claim' = IF Deduped THEN now ELSE None
        /\ heard' = Carried("once")
    BY <1>8 DEF Publish, Apply, Publishes, CanClaim
  <2>2. DaemonTypeOK'
    BY <1>2, <2>1 DEF DaemonTypeOK, Tellings, Carried
  <2>3. ClaimIsTold'
    BY <1>2, <2>1 DEF ClaimIsTold, Deduped, Carried
  <2>4. ToldIsOld'
    BY <2>1, <1>carried
  <2> QED
    BY <1>1, <2>2, <2>3, <2>4
<1>9. CASE PublishRefused
  <2>1. /\ UNCHANGED <<policy, problem, boot, now>>
        /\ UNCHANGED <<settings, faults, claim, heard>>
        /\ refusals' = refusals + 1
        /\ up' = Deduped
    BY <1>9 DEF PublishRefused, Apply
  <2>2. HoldSeconds(problem)' = HoldSeconds(problem) /\ Drift' = Drift
    BY <2>1 DEF HoldSeconds, Drift
  <2>3. DaemonTypeOK' /\ ClaimIsTold'
    BY <2>1 DEF DaemonTypeOK, ClaimIsTold, Deduped
  <2>4. ToldIsOld'
    BY <2>1, <2>2 DEF ToldIsOld, ByBoot, Deduped
  <2> QED
    BY <1>1, <2>3, <2>4
<1>10. CASE AnswerLost
  <2>1. /\ UNCHANGED <<policy, problem, boot, now>>
        /\ UNCHANGED <<settings, faults, claim>>
        /\ Judged
        /\ Deduped => claim = None
        /\ refusals' = refusals + 1
        /\ up' = Deduped
        /\ heard' = Carried("unanswered")
    BY <1>10 DEF AnswerLost, Apply, Publishes, CanClaim
  <2>2. DaemonTypeOK'
    BY <1>2, <2>1 DEF DaemonTypeOK, Tellings, Carried, Deduped
  <2>3. ClaimIsTold'
    BY <1>2, <2>1 DEF ClaimIsTold, Deduped, Carried
  <2>4. ToldIsOld'
    BY <2>1, <1>carried
  <2> QED
    BY <1>1, <2>2, <2>3, <2>4
<1>11. CASE RestartDaemon
  <2>1. /\ UNCHANGED <<policy, problem, now>>
        /\ UNCHANGED <<settings, faults, refusals>>
        /\ boot' = now
        /\ up' = TRUE
        /\ claim' = None
        /\ heard' = [heard EXCEPT !.boot = "nothing"]
    BY <1>11 DEF RestartDaemon, Restart
  <2>2. HoldSeconds(problem)' = HoldSeconds(problem) /\ Drift' = Drift
    BY <2>1 DEF HoldSeconds, Drift
  <2>3. DaemonTypeOK' /\ ClaimIsTold'
    BY <2>1 DEF DaemonTypeOK, ClaimIsTold, Deduped, Tellings
  <2>4. /\ heard'.ever = heard.ever
        /\ heard'.boot = "nothing"
    BY <2>1 DEF DaemonTypeOK
  <2>5. ToldIsOld'
    BY <1>2, <2>1, <2>2, <2>4 DEF ToldIsOld, ByBoot, Deduped
  <2> QED
    BY <1>1, <2>3, <2>5
<1>12. CASE UNCHANGED <<vars, daemonVars>>
  BY <1>2, <1>3, <1>12 DEF vars
<1> QED
  BY <1>4, <1>5, <1>6, <1>7, <1>8, <1>9, <1>10, <1>11, <1>12 DEF DaemonNext

THEOREM DaemonInvariant == DaemonSpec => []DaemonInv
<1>1. DaemonInit => DaemonInv
  BY InitDaemonInv
<1>2. DaemonInv /\ [DaemonNext]_<<vars, daemonVars>> => DaemonInv'
  BY NextDaemonInv
<1> QED
  BY <1>1, <1>2, PTL DEF DaemonSpec

(* With a ledger a process tells a problem once, and once more for each    *)
(* answer of Chat that was lost; and with the window off, while the        *)
(* monitors answer, no restart makes it told again: under every settings   *)
(* the daemon boots with and every problem.                                *)
THEOREM NothingIsToldAgain == DaemonSpec => []NotToldAgain
<1>1. DaemonInv => NotToldAgain
  BY DEF DaemonInv, ClaimIsTold, ToldIsOld, ByBoot, NotToldAgain
<1> QED
  BY <1>1, DaemonInvariant, PTL

-----------------------------------------------------------------------------
(* The message tells the truth.                                            *)

LEMMA WholeMinutes ==
    ASSUME NEW a \in Nat, NEW b \in Nat, a <= b
    PROVE  a \div Units.m <= b \div Units.m
<1>1. /\ a \div 2 \in Nat /\ a % 2 \in 0 .. 1 /\ a = 2 * (a \div 2) + (a % 2)
      /\ b \div 2 \in Nat /\ b % 2 \in 0 .. 1 /\ b = 2 * (b \div 2) + (b % 2)
  BY DivMod
<1>2. a \div 2 <= b \div 2
  BY <1>1
<1> QED
  BY <1>2 DEF Units

LEMMA JudgedCardIsTrue == FilterInv => CardIsTrue
<1> SUFFICES ASSUME FilterInv, Judged
             PROVE  /\ Start \in problem.since .. problem.since + Drift
                    /\ DefaultHolds =>
                         /\ GraceShown(problem) = HoldSeconds(problem)
                         /\ ElapsedShown(problem, report.duration, now)
                              >= GraceShown(problem) \div Units.m
  BY DEF CardIsTrue, StartShown, Start
<1>1. /\ Start \in Int
      /\ problem.since <= Start
      /\ Start <= problem.since + Drift
      /\ Drift \in Nat
      /\ now - Start >= HoldSeconds(problem)
  BY VerdictStart, StartIsClose DEF Duration
<1>2. /\ now \in Nat
      /\ problem.since \in Nat
      /\ HoldSeconds(problem) \in Nat \ {0}
  BY Kinds
<1>3. Start \in problem.since .. problem.since + Drift
  BY <1>1, <1>2
<1>4. ElapsedShown(problem, report.duration, now) = (now - Start) \div Units.m
  <2>1. Start # None /\ ~ (now < Start)
    BY <1>1, <1>2, FilterAssumption
  <2> QED
    BY <2>1 DEF ElapsedShown, StartShown, Start
<1>5. ASSUME DefaultHolds
      PROVE  GraceShown(problem) = HoldSeconds(problem)
  BY <1>5 DEF DefaultHolds, GraceShown, HoldSeconds
<1>6. HoldSeconds(problem) \div Units.m <= (now - Start) \div Units.m
  <2>1. now - Start \in Nat
    BY <1>1, <1>2
  <2> QED
    BY <1>1, <1>2, <2>1, WholeMinutes
<1>7. /\ HoldSeconds(problem) \div Units.m \in Int
      /\ (now - Start) \div Units.m \in Int
  BY <1>1, <1>2 DEF Units
<1> QED
  BY <1>3, <1>4, <1>5, <1>6, <1>7

(* The start, the elapsed time and the grace period a message shows are    *)
(* the problem's own, under every settings the daemon boots with.          *)
THEOREM CardsAreTrue == DaemonSpec => []CardIsTrue
<1>1. DaemonInv => CardIsTrue
  BY JudgedCardIsTrue DEF DaemonInv
<1> QED
  BY <1>1, DaemonInvariant, PTL

-----------------------------------------------------------------------------
(* What is due is heard.                                                   *)

(* What CriticalIsHeard and ShiftAlertIsHeard ask, but for the time.       *)
CriticalDue ==
    /\ ~ policy.window_enabled /\ Deduped
    /\ "fetch" \notin faults
    /\ problem.severity = "CRITICAL" /\ problem.source = "starts_at"
    /\ problem.marks \subseteq {"legacy", "falcon", "kubelet_cert", "pod_cpu",
                                "sre", "pod", "kube", "fast", "transient"}
    /\ boot <= problem.since
    /\ Patience <= policy.max_duration

Closes == Day(problem.since) * DayLength + policy.window_end

ShiftDue ==
    /\ policy.window_enabled
    /\ "fetch" \notin faults
    /\ ~ Noise(problem) /\ Paging(problem) /\ problem.source = "starts_at"
    /\ InDailyWindow(problem.since)
    /\ problem.since + Patience <= Closes
    /\ Patience <= policy.max_duration

PollsOften == polled <= now /\ now - polled <= PollGap

(* No poll has found it due, or its message was refused at every poll that *)
(* did.                                                                    *)
NotPolledDue == polled < problem.since + HoldSeconds(problem) + PollGap * refusals

HeardInv ==
    /\ DaemonInv
    /\ PollsOften
    /\ CriticalDue /\ heard.boot = "nothing" => NotPolledDue
    /\ ShiftDue /\ heard.ever = "nothing" => NotPolledDue

(* PollGap * refusals, and what one refusal more makes of it.              *)
LEMMA Waiting ==
    ASSUME DaemonInv
    PROVE  /\ PollGap \in Nat \ {0}
           /\ PollGap * refusals \in Nat
           /\ PollGap * (refusals + 1) = PollGap * refusals + PollGap
           /\ PollGap * (refusals + 2) = PollGap * refusals + PollGap + PollGap
           /\ Patience = HoldSeconds(problem) + PollGap * refusals + PollGap
<1>1. PollGap \in Nat \ {0} /\ refusals \in Nat
  BY FilterAssumption DEF DaemonInv, DaemonTypeOK
<1>2. HoldSeconds(problem) \in Nat
  BY Kinds DEF DaemonInv
<1>3. PollGap * refusals \in Nat
  BY <1>1
<1>4. /\ PollGap * (refusals + 1) = PollGap * refusals + PollGap
      /\ PollGap * (1 + refusals) = PollGap * refusals + PollGap
      /\ PollGap * (refusals + 2) = PollGap * refusals + PollGap + PollGap
  BY <1>1
<1> QED
  BY <1>1, <1>2, <1>3, <1>4 DEF Patience

LEMMA SameDay ==
    ASSUME NEW t \in Nat, NEW u \in Nat, t <= u,
           NEW w \in 0 .. DayLength - 1, u <= Day(t) * DayLength + w
    PROVE  /\ Day(u) = Day(t)
           /\ Time(t) <= Time(u)
           /\ Time(u) <= w
<1> DEFINE d == Day(t)
           e == Day(u)
<1>1. DayLength \in Nat \ {0}
  BY FilterAssumption
<1>2. /\ d \in Nat /\ Time(t) \in 0 .. DayLength - 1 /\ t = DayLength * d + Time(t)
      /\ e \in Nat /\ Time(u) \in 0 .. DayLength - 1 /\ u = DayLength * e + Time(u)
  <2>1. /\ t % DayLength \in 0 .. DayLength - 1
        /\ u % DayLength \in 0 .. DayLength - 1
    BY <1>1, DivMod
  <2>2. Time(t) \in 0 .. DayLength - 1 /\ Time(u) \in 0 .. DayLength - 1
    BY <2>1 DEF Time
  <2> QED
    BY <2>2, DayTimes
<1>3. d * DayLength = DayLength * d
  BY <1>1, <1>2
<1> HIDE DEF d, e
<1>4. DayLength * d \in Nat /\ DayLength * e \in Nat
  BY <1>1, <1>2
<1>5. ASSUME e < d PROVE FALSE
  <2>1. e + 1 <= d
    BY <1>2, <1>5
  <2>2. DayLength * (e + 1) <= DayLength * d
    BY <1>1, <1>2, <2>1
  <2>3. DayLength * (e + 1) = DayLength * e + DayLength
    BY <1>1, <1>2
  <2> QED
    BY <1>1, <1>2, <1>4, <2>2, <2>3
<1>6. ASSUME d < e PROVE FALSE
  <2>1. d + 1 <= e
    BY <1>2, <1>6
  <2>2. DayLength * (d + 1) <= DayLength * e
    BY <1>1, <1>2, <2>1
  <2>3. DayLength * (d + 1) = DayLength * d + DayLength
    BY <1>1, <1>2
  <2>4. u <= DayLength * d + w
    BY <1>3 DEF d
  <2> QED
    BY <1>1, <1>2, <1>4, <2>2, <2>3, <2>4
<1>7. d = e
  BY <1>2, <1>5, <1>6
<1>8. u <= DayLength * d + w
  BY <1>3 DEF d
<1>9. Time(t) <= Time(u) /\ Time(u) <= w
  BY <1>1, <1>2, <1>4, <1>7, <1>8
<1> QED
  BY <1>7, <1>9 DEF d, e

LEMMA ClosesIsInt ==
    ASSUME FilterInv
    PROVE  Closes \in Int
<1>1. /\ problem.since \in Nat
      /\ policy.window_end \in Int
      /\ DayLength \in Nat
  BY FilterAssumption DEF FilterInv, FilterTypeOK, Problems, Policies
<1>2. Day(problem.since) \in Nat
  BY <1>1, DayTimes
<1>3. Day(problem.since) * DayLength \in Nat
  BY <1>1, <1>2
<1> QED
  BY <1>1, <1>3 DEF Closes

(* A poll that finds a due problem judges it effective.                    *)
LEMMA DueIsJudged ==
    ASSUME HeardInv, report # None, CriticalDue \/ ShiftDue, NotPolledDue,
           problem.since + HoldSeconds(problem) <= now
    PROVE  Judged
<1> DEFINE k == PollGap * refusals
<1>1. /\ FilterInv
      /\ now \in Nat
      /\ polled \in Nat
      /\ problem.since \in Nat
      /\ HoldSeconds(problem) \in Nat
      /\ policy.max_duration \in Nat
      /\ problem.severity \in Severities
      /\ policy.window_start \in Int
      /\ policy.window_end \in 0 .. DayLength - 1
  BY Kinds DEF HeardInv, DaemonInv, FilterInv, FilterTypeOK, Problems, Policies
<1>2. /\ PollGap \in Nat
      /\ k \in Nat
      /\ Patience = HoldSeconds(problem) + k + PollGap
  BY Waiting DEF HeardInv
<1>3. polled < problem.since + HoldSeconds(problem) + k
  BY DEF NotPolledDue
<1> HIDE DEF k
<1>4. Patience <= policy.max_duration
  BY DEF CriticalDue, ShiftDue
<1>5. now < problem.since + Patience
  BY <1>1, <1>2, <1>3 DEF HeardInv, PollsOften
<1>6. problem.source = "starts_at" /\ Start = problem.since
  BY DEF CriticalDue, ShiftDue, Start, StartInstant
<1>7. problem.since # None
  BY <1>1, FilterAssumption
<1>8. /\ ~ (Duration(problem.since, now) < HoldSeconds(problem))
      /\ ~ (Duration(problem.since, now) >= policy.max_duration)
  <2>1. now - problem.since >= HoldSeconds(problem)
    BY <1>1
  <2>2. now - problem.since < policy.max_duration
    BY <1>1, <1>2, <1>4, <1>5
  <2> QED
    BY <1>1, <2>1, <2>2 DEF Duration
<1>9. ~ Noise(problem) /\ Paging(problem)
  <2>1. CASE CriticalDue
    BY <2>1 DEF CriticalDue, Noise, Paging, KubernetesNoise
  <2>2. CASE ShiftDue
    BY <2>2 DEF ShiftDue
  <2> QED
    BY <2>1, <2>2
<1>10. ~ BeforeBoot(problem.since, boot)
  <2>1. CASE CriticalDue
    BY <1>1, <2>1 DEF CriticalDue, BeforeBoot, FilterInv, FilterTypeOK
  <2>2. CASE ShiftDue
    BY <2>2 DEF ShiftDue, BeforeBoot
  <2> QED
    BY <2>1, <2>2
<1>11. ~ OutOfWindow(problem.since, now)
  <2>1. CASE CriticalDue
    BY <2>1 DEF CriticalDue, OutOfWindow
  <2>2. CASE ShiftDue
    <3>1. /\ InDailyWindow(problem.since)
          /\ problem.since + Patience <= Closes
      BY <2>2 DEF ShiftDue
    <3>2. Closes \in Int
      BY <1>1, ClosesIsInt
    <3>3. problem.since <= now /\ now <= Closes
      BY <1>1, <1>2, <1>5, <3>1, <3>2
    <3>4. /\ Day(now) = Day(problem.since)
          /\ Time(problem.since) <= Time(now)
          /\ Time(now) <= policy.window_end
      BY <1>1, <3>3, SameDay DEF Closes
    <3>5. Time(now) \in Nat /\ Time(problem.since) \in Nat
      BY <1>1, DayTimes
    <3>6. InDailyWindow(now)
      BY <1>1, <3>1, <3>4, <3>5 DEF InDailyWindow
    <3> QED
      BY <3>1, <3>4, <3>6 DEF OutOfWindow, StartsInWindowToday
  <2> QED
    BY <2>1, <2>2
<1> QED
  BY <1>6, <1>7, <1>8, <1>9, <1>10, <1>11 DEF Judged, IsFiltered, Start

LEMMA InitHeardInv == DaemonInit => HeardInv
<1> SUFFICES ASSUME DaemonInit PROVE HeardInv
  OBVIOUS
<1>1. DaemonInv
  BY InitDaemonInv
<1>2. /\ polled = 0
      /\ now = 0
  BY DEF DaemonInit, Init
<1>3. /\ problem.since \in Nat
      /\ HoldSeconds(problem) \in Nat \ {0}
      /\ PollGap \in Nat
      /\ PollGap * refusals \in Nat
  BY <1>1, Kinds, Waiting DEF DaemonInv
<1>4. PollsOften /\ NotPolledDue
  BY <1>2, <1>3 DEF PollsOften, NotPolledDue
<1> QED
  BY <1>1, <1>4 DEF HeardInv

LEMMA NextHeardInv ==
    ASSUME HeardInv, [DaemonNext]_<<vars, daemonVars>>
    PROVE  HeardInv'
<1>1. DaemonInv /\ DaemonInv'
  BY NextDaemonInv DEF HeardInv
<1>2. /\ FilterInv
      /\ now \in Nat
      /\ boot \in Nat
      /\ polled \in Nat
      /\ problem.since \in Nat
      /\ HoldSeconds(problem) \in Nat \ {0}
      /\ policy.max_duration \in Nat
  BY <1>1, Kinds DEF DaemonInv
<1>3. /\ PollGap \in Nat \ {0}
      /\ PollGap * refusals \in Nat
      /\ Patience = HoldSeconds(problem) + PollGap * refusals + PollGap
  BY <1>1, Waiting
<1>4. polled <= now /\ now - polled <= PollGap
  BY DEF HeardInv, PollsOften
<1>5. ASSUME UNCHANGED <<policy, problem, boot, polled, daemonVars>>, PollsOften'
      PROVE  HeardInv'
  <2>1. UNCHANGED <<policy, problem, boot, polled, settings, faults, refusals, heard>>
    BY <1>5 DEF daemonVars
  <2>2. (CriticalDue' <=> CriticalDue) /\ (NotPolledDue' <=> NotPolledDue)
    BY <2>1 DEF CriticalDue, NotPolledDue, Patience, HoldSeconds, Deduped
  <2>3. ShiftDue' <=> ShiftDue
    BY <2>1 DEF ShiftDue, Patience, HoldSeconds, InDailyWindow, Closes
  <2> QED
    BY <1>1, <1>5, <2>1, <2>2, <2>3 DEF HeardInv
<1>6. CASE PassTime
  <2>1. /\ now' = now + 1
        /\ now - polled < PollGap
        /\ UNCHANGED <<policy, problem, boot, polled, daemonVars>>
    BY <1>6 DEF PassTime, Advance
  <2>2. PollsOften'
    BY <1>2, <1>3, <1>4, <2>1 DEF PollsOften
  <2> QED
    BY <1>5, <2>1, <2>2
<1>7. CASE FetchAlert
  BY <1>4, <1>5, <1>7 DEF FetchAlert, Fetch, PollsOften
<1>8. ASSUME UNCHANGED <<policy, problem, boot, now, settings, faults>>,
             polled' = now,
             refusals' \in {refusals, refusals + 1},
             CriticalDue' /\ heard'.boot = "nothing" => NotPolledDue',
             ShiftDue' /\ heard'.ever = "nothing" => NotPolledDue'
      PROVE  HeardInv'
  BY <1>1, <1>2, <1>3, <1>8 DEF HeardInv, PollsOften
<1>9. CASE MissAlert
  <2>1. /\ UNCHANGED <<policy, problem, boot, now, settings, faults, refusals>>
        /\ polled' = now
        /\ now < problem.since \/ "fetch" \in faults
    BY <1>9 DEF MissAlert, FetchNothing
  <2>2. HoldSeconds(problem)' = HoldSeconds(problem)
    BY <2>1 DEF HoldSeconds
  <2>3. "fetch" \notin faults => NotPolledDue'
    BY <1>2, <1>3, <2>1, <2>2 DEF NotPolledDue
  <2>4. CriticalDue' \/ ShiftDue' => "fetch" \notin faults
    BY <2>1 DEF CriticalDue, ShiftDue
  <2> QED
    BY <1>8, <2>1, <2>3, <2>4
<1>10. CASE Apply /\ ~ Publishes /\ UNCHANGED daemonVars
  <2>1. /\ UNCHANGED <<policy, problem, boot, now, settings, faults, refusals, claim, heard>>
        /\ polled' = now
        /\ report # None
        /\ ~ Publishes
    BY <1>10 DEF Apply, daemonVars
  <2>2. CriticalDue' <=> CriticalDue
    BY <2>1 DEF CriticalDue, Patience, HoldSeconds, Deduped
  <2>3. ShiftDue' <=> ShiftDue
    BY <2>1 DEF ShiftDue, Patience, HoldSeconds, InDailyWindow, Closes
  <2>4. ASSUME \/ CriticalDue /\ heard.boot = "nothing"
               \/ ShiftDue /\ heard.ever = "nothing"
        PROVE  now < problem.since + HoldSeconds(problem)
    <3>1. NotPolledDue
      BY <2>4 DEF HeardInv
    <3>2. Deduped => claim = None
      BY <1>1, <2>4 DEF DaemonInv, ClaimIsTold
    <3>3. ~ Judged
      BY <2>1, <3>2 DEF Publishes, CanClaim
    <3> QED
      BY <1>2, <2>1, <2>4, <3>1, <3>3, DueIsJudged
  <2>5. now < problem.since + HoldSeconds(problem) => NotPolledDue'
    <3>1. HoldSeconds(problem)' = HoldSeconds(problem)
      BY <2>1 DEF HoldSeconds
    <3> QED
      BY <1>2, <1>3, <2>1, <3>1 DEF NotPolledDue
  <2>6. heard' = heard /\ refusals' = refusals
    BY <2>1
  <2>7. CriticalDue' /\ heard'.boot = "nothing" => NotPolledDue'
    BY <2>2, <2>4, <2>5, <2>6
  <2>8. ShiftDue' /\ heard'.ever = "nothing" => NotPolledDue'
    BY <2>3, <2>4, <2>5, <2>6
  <2>9. UNCHANGED <<policy, problem, boot, now, settings, faults>> /\ polled' = now
    BY <2>1
  <2> QED
    BY <1>8, <2>6, <2>7, <2>8, <2>9
<1>11. CASE KeepQuiet
  BY <1>10, <1>11 DEF KeepQuiet
<1>12. CASE Publish
  <2>1. /\ UNCHANGED <<policy, problem, boot, now, settings, faults, refusals>>
        /\ polled' = now
        /\ heard' = Carried("once")
    BY <1>12 DEF Publish, Apply
  <2>2. heard'.boot # "nothing" /\ heard'.ever # "nothing"
    BY <2>1 DEF Carried
  <2> QED
    BY <1>8, <2>1, <2>2
<1>13. CASE PublishRefused
  <2>1. /\ UNCHANGED <<policy, problem, boot, now, settings, faults, heard>>
        /\ polled' = now
        /\ refusals' = refusals + 1
        /\ refusals \in Nat
    BY <1>1, <1>13 DEF PublishRefused, Apply, DaemonInv, DaemonTypeOK
  <2>2. HoldSeconds(problem)' = HoldSeconds(problem)
    BY <2>1 DEF HoldSeconds
  <2>3. Patience' = Patience + PollGap
    BY <1>1, <1>2, <1>3, <2>1, <2>2, Waiting DEF Patience
  <2>4. Patience' <= policy.max_duration => Patience <= policy.max_duration
    BY <1>2, <1>3, <2>3
  <2>5. CriticalDue' => CriticalDue
    BY <2>1, <2>4 DEF CriticalDue, Deduped
  <2>6. ShiftDue' => ShiftDue
    <3>1. Closes' = Closes
      BY <2>1 DEF Closes
    <3>2. Closes \in Int
      BY <1>2, ClosesIsInt
    <3>3. problem.since + Patience' <= Closes => problem.since + Patience <= Closes
      BY <1>2, <1>3, <2>3, <3>2
    <3> QED
      BY <2>1, <2>4, <3>1, <3>3 DEF ShiftDue, InDailyWindow
  <2>7. NotPolledDue => NotPolledDue'
    <3>1. PollGap * refusals' = PollGap * refusals + PollGap
      BY <1>1, <2>1, Waiting
    <3> QED
      BY <1>2, <1>3, <1>4, <2>1, <2>2, <3>1 DEF NotPolledDue
  <2> QED
    BY <1>8, <2>1, <2>5, <2>6, <2>7 DEF HeardInv
<1>14. CASE AnswerLost
  <2>1. /\ UNCHANGED <<policy, problem, boot, now, settings, faults>>
        /\ polled' = now
        /\ refusals' = refusals + 1
        /\ heard' = Carried("unanswered")
    BY <1>14 DEF AnswerLost, Apply
  <2>2. heard'.boot # "nothing" /\ heard'.ever # "nothing"
    BY <2>1 DEF Carried
  <2> QED
    BY <1>8, <2>1, <2>2
<1>15. CASE RestartDaemon
  <2>1. /\ UNCHANGED <<policy, problem, now, polled, settings, faults, refusals>>
        /\ boot' = now
        /\ heard' = [heard EXCEPT !.boot = "nothing"]
    BY <1>15 DEF RestartDaemon, Restart
  <2>2. heard'.ever = heard.ever
    BY <1>1, <2>1 DEF DaemonInv, DaemonTypeOK
  <2>3. ShiftDue' <=> ShiftDue
    BY <2>1 DEF ShiftDue, Patience, HoldSeconds, InDailyWindow, Closes
  <2>4. NotPolledDue' <=> NotPolledDue
    BY <2>1 DEF NotPolledDue, HoldSeconds
  <2>5. CriticalDue' => NotPolledDue
    <3>1. CriticalDue' => now <= problem.since
      BY <2>1 DEF CriticalDue
    <3> QED
      BY <1>2, <1>3, <1>4, <3>1 DEF NotPolledDue
  <2>6. PollsOften'
    BY <1>4, <2>1 DEF PollsOften
  <2> QED
    BY <1>1, <2>2, <2>3, <2>4, <2>5, <2>6 DEF HeardInv
<1>16. CASE UNCHANGED <<vars, daemonVars>>
  BY <1>4, <1>5, <1>16 DEF vars, PollsOften
<1> QED
  BY <1>6, <1>7, <1>9, <1>11, <1>12, <1>13, <1>14, <1>15, <1>16 DEF DaemonNext

LEMMA HeardInvariant == DaemonSpec => []HeardInv
<1>1. DaemonInit => HeardInv
  BY InitHeardInv
<1>2. HeardInv /\ [DaemonNext]_<<vars, daemonVars>> => HeardInv'
  BY NextHeardInv
<1> QED
  BY <1>1, <1>2, PTL DEF DaemonSpec

(* By its patience a due problem has been polled.                          *)
LEMMA PolledByNow ==
    ASSUME HeardInv, NotPolledDue
    PROVE  now < problem.since + Patience
<1>1. /\ now \in Nat
      /\ polled \in Nat
      /\ problem.since \in Nat
      /\ HoldSeconds(problem) \in Nat
      /\ PollGap \in Nat
      /\ PollGap * refusals \in Nat
      /\ Patience = HoldSeconds(problem) + PollGap * refusals + PollGap
  BY Kinds, Waiting DEF HeardInv, DaemonInv
<1> QED
  BY <1>1 DEF HeardInv, PollsOften, NotPolledDue

(* A CRITICAL problem of a process's own time is heard, its hold and the   *)
(* polls Chat refused later, under every settings with the window off and  *)
(* a ledger.                                                               *)
THEOREM CriticalsAreHeard == DaemonSpec => []CriticalIsHeard
<1>1. HeardInv => CriticalIsHeard
  <2> SUFFICES ASSUME HeardInv, CriticalDue, now > problem.since + Patience,
                      heard.boot = "nothing"
               PROVE  FALSE
    BY DEF CriticalIsHeard, CriticalDue
  <2>1. now < problem.since + Patience
    BY PolledByNow DEF HeardInv
  <2>2. now \in Int /\ problem.since + Patience \in Int
    BY Kinds, Waiting DEF HeardInv, DaemonInv
  <2> QED
    BY <2>1, <2>2
<1> QED
  BY <1>1, HeardInvariant, PTL

(* A problem of the shift is heard before the window closes, with a ledger *)
(* or without and however often the daemon is started, under every         *)
(* settings with the window on.                                            *)
THEOREM ShiftAlertsAreHeard == DaemonSpec => []ShiftAlertIsHeard
<1>1. HeardInv => ShiftAlertIsHeard
  <2> SUFFICES ASSUME HeardInv, ShiftDue, now > Closes, heard.ever = "nothing"
               PROVE  FALSE
    BY DEF ShiftAlertIsHeard, ShiftDue, Closes
  <2>1. now < problem.since + Patience
    BY PolledByNow DEF HeardInv
  <2>2. problem.since + Patience <= Closes
    BY DEF ShiftDue
  <2>3. now \in Int /\ problem.since + Patience \in Int
    BY Kinds, Waiting DEF HeardInv, DaemonInv
  <2>4. Closes \in Int
    BY ClosesIsInt DEF HeardInv, DaemonInv
  <2> QED
    BY <2>1, <2>2, <2>3, <2>4
<1> QED
  BY <1>1, HeardInvariant, PTL
=============================================================================
