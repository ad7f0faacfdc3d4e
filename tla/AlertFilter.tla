----------------------------- MODULE AlertFilter -----------------------------
(***************************************************************************)
(* AlertFilterPolicy of alert_filter.py judging one problem, poll after    *)
(* poll, over a few days: the hold-down of alert_hold.py, the daily window *)
(* and its weekdays, the longest duration, the cut at the daemon's boot.   *)
(*                                                                         *)
(* Instants count units of local time (the policy localizes every instant  *)
(* to WINDOW_TIMEZONE) from the midnight that begins day 0.  Which regular *)
(* expressions an alert's texts match is data: its marks.                  *)
(***************************************************************************)
EXTENDS Integers

CONSTANTS
    DayLength,      \* units in a day, a multiple of an hour
    MaxLag,         \* longest time from a monitor's answer to clock.now()
    PollGap,        \* longest time between two judgements
    None

Units == [d |-> DayLength, h |-> 4, m |-> 2, s |-> 1]

ASSUME FilterAssumption ==
    /\ DayLength \in Nat \ {0} /\ DayLength % Units.h = 0
    /\ MaxLag \in Nat
    /\ PollGap \in Nat \ {0}
    /\ None \notin Int

Severities == {"CRITICAL", "WARNING", "INFO"}

Marks == {"status_error", "noise_name", "legacy",                     \* texts
          "falcon", "kubelet_cert", "pod_cpu", "sre", "pod", "kube",
          "fast", "transient",
          "acknowledged", "skip_state", "silenced", "inhibited"}      \* flags

(* How the monitor dates it: startsAt, a Nagios duration with or without   *)
(* its seconds, or not at all.                                             *)
Sources == {"starts_at", "to_minutes", "to_seconds", "unknown"}

(* Nothing orders the two ends of the window.                              *)
Policies ==
    [window_enabled : BOOLEAN, allow_past : BOOLEAN, weekdays : SUBSET (0 .. 6),
     window_start : 0 .. DayLength - 1, window_end : 0 .. DayLength - 1,
     hold_fast : Nat \ {0}, hold_critical : Nat \ {0}, hold_warning : Nat \ {0},
     max_duration : Nat \ {0}]

Problems ==
    [since : Nat, until : Nat, source : Sources, severity : Severities,
     marks : SUBSET Marks]

VARIABLES
    policy,    \* what the policy was built with
    problem,   \* the problem judged, and where the model's clock stops
    now,
    boot,      \* not_before: when the daemon was last started
    report,    \* the duration a fetch brought and its instant, or None
    polled,    \* when it was last judged
    shown      \* history: what today's judgements were, in their order

vars == <<policy, problem, now, boot, report, polled, shown>>

-----------------------------------------------------------------------------
(* The policy.                                                             *)

Day(t)  == t \div DayLength
Time(t) == t % DayLength

(* A duration names each unit at most once.                                *)
Amount(duration, unit) == IF unit \in DOMAIN duration THEN duration[unit] ELSE 0

(* Slip: hours and minutes swapped.                                        *)
ParseDurationSwapped(duration) ==
    IF DOMAIN duration = {} THEN None
    ELSE Amount(duration, "d") * Units.d + Amount(duration, "h") * Units.m
           + Amount(duration, "m") * Units.h + Amount(duration, "s") * Units.s

(* The amounts of the known units, summed; None when it names none.        *)
ParseDuration(duration) ==
    IF DOMAIN duration = {} THEN None
    ELSE Amount(duration, "d") * Units.d + Amount(duration, "h") * Units.h
           + Amount(duration, "m") * Units.m + Amount(duration, "s") * Units.s

(* A duration is counted back from `now`, whenever it was fetched.         *)
StartInstant(p, duration, at) ==
    IF p.source = "starts_at" THEN p.since
    ELSE LET parsed == ParseDuration(duration)
         IN  IF parsed = None THEN None ELSE at - parsed

InDailyWindow(t) ==
    /\ Day(t) % 7 \in policy.weekdays
    /\ policy.window_start <= Time(t) /\ Time(t) <= policy.window_end

(* Slip: the window of whatever day it started on.                         *)
StartsInAnyWindow(start, at) == InDailyWindow(start)

StartsInWindowToday(start, at) ==
    /\ Day(start) = Day(at)
    /\ InDailyWindow(start)

KubernetesNoise(p) ==
    /\ p.severity # "CRITICAL"
    /\ \/ p.marks \cap {"falcon", "kubelet_cert", "pod_cpu"} # {}
       \/ "sre" \notin p.marks /\ p.marks \cap {"pod", "kube"} # {}

(* What does not depend on the time. *)
Noise(p) ==
    \/ p.marks \cap {"acknowledged", "status_error", "noise_name",
                     "skip_state", "silenced", "inhibited"} # {}
    \/ p.severity # "CRITICAL" /\ "legacy" \in p.marks
    \/ KubernetesNoise(p)

Paging(p) == p.severity \in {"CRITICAL", "WARNING"}

(* Its type wins over its severity. *)
Hold(p, fast, critical, warning) ==
    IF "fast" \in p.marks THEN fast
    ELSE IF "transient" \in p.marks \/ p.severity # "CRITICAL" THEN warning
    ELSE critical

HoldSeconds(p) ==
    Hold(p, policy.hold_fast, policy.hold_critical, policy.hold_warning)

(* Slip: timedelta.seconds, which drops the days, for total_seconds(). *)
DurationOfDay(start, at) == (at - start) % DayLength

Duration(start, at) == at - start

(* Slips: the cut at boot whatever the window, and no cut at all.          *)
BeforeBootAlways(start, started) == ~ policy.allow_past /\ start < started

BeforeBootNever(start, started) == FALSE

BeforeBoot(start, started) ==
    ~ policy.allow_past /\ ~ policy.window_enabled /\ start < started

OutOfWindow(start, at) ==
    /\ policy.window_enabled
    /\ \/ ~ policy.allow_past /\ ~ StartsInWindowToday(start, at)
       \/ ~ InDailyWindow(at)

IsFiltered(p, duration, at, started) ==
    LET start == StartInstant(p, duration, at)
    IN  \/ Noise(p)
        \/ start = None
        \/ BeforeBoot(start, started)
        \/ ~ Paging(p)
        \/ Duration(start, at) < HoldSeconds(p)
        \/ Duration(start, at) >= policy.max_duration
        \/ OutOfWindow(start, at)

-----------------------------------------------------------------------------
(* The days it is applied in.                                              *)

(* The duration column of status.cgi. *)
ReportedDuration(source, age) ==
    LET amounts == [d |-> age \div Units.d, h |-> (age % Units.d) \div Units.h,
                    m |-> (age % Units.h) \div Units.m, s |-> age % Units.m]
        named   == CASE source = "to_minutes" -> {"d", "h", "m"}
                     [] source = "to_seconds" -> {"d", "h", "m", "s"}
                     [] OTHER                 -> {}
    IN  [unit \in named |-> amounts[unit]]

Init ==
    /\ policy \in Policies
    /\ problem \in Problems
    /\ now = 0
    /\ boot = 0
    /\ report = None
    /\ polled = 0
    /\ shown = "nothing"

Advance ==
    /\ now < problem.until
    /\ now - polled < PollGap
    /\ report # None => now - report.at < MaxLag
    /\ now' = now + 1
    /\ shown' = IF Day(now') = Day(now) THEN shown ELSE "nothing"
    /\ UNCHANGED <<policy, problem, boot, report, polled>>

(* fetch_all, once the problem is there. *)
Fetch ==
    /\ report = None
    /\ problem.since <= now
    /\ report' = [duration |-> ReportedDuration(problem.source, now - problem.since),
                  at |-> now]
    /\ UNCHANGED <<policy, problem, now, boot, polled, shown>>

(* A cycle that finds nothing to judge: it is not there yet, or the        *)
(* monitor did not answer.                                                 *)
FetchNothing ==
    /\ report = None
    /\ polled # now
    /\ polled' = now
    /\ UNCHANGED <<policy, problem, now, boot, report, shown>>

(* apply(raw_alerts, clock.now()). *)
Apply ==
    /\ report # None
    /\ LET filtered == IsFiltered(problem, report.duration, now, boot)
       IN  shown' = IF filtered
                    THEN IF shown \in {"effective", "again"} THEN "withdrawn" ELSE shown
                    ELSE IF shown \in {"nothing", "effective"} THEN "effective" ELSE "again"
    /\ report' = None
    /\ polled' = now
    /\ UNCHANGED <<policy, problem, now, boot>>

(* The daemon is started again: build_use_case reads the clock. *)
Restart ==
    /\ boot' = now
    /\ report' = None
    /\ UNCHANGED <<policy, problem, now, polled, shown>>

Next == Advance \/ Fetch \/ FetchNothing \/ Apply \/ Restart

Spec == Init /\ [][Next]_vars

-----------------------------------------------------------------------------
(* Properties.                                                             *)

Judged == report # None /\ ~ IsFiltered(problem, report.duration, now, boot)

(* How much later than it began a problem can seem to have begun: the time *)
(* since the fetch, and the seconds Nagios leaves out.                     *)
Drift == IF problem.source = "starts_at" THEN 0 ELSE MaxLag + Units.m - 1

(* Time alone makes a problem effective at most once a day: it does not    *)
(* flicker in and out of the effective alerts from cycle to cycle.  What   *)
(* can is a problem without startsAt that began about when the window      *)
(* opened, where its start has to lie in the window too.                   *)
NoFlicker ==
    policy.allow_past \/ problem.source = "starts_at" => shown # "again"

(* No problem is effective before it has lasted its hold, nor, but for the *)
(* drift, once it has lasted the longest duration.                         *)
HoldRespected ==
    Judged => /\ now - problem.since >= HoldSeconds(problem)
              /\ now - problem.since < policy.max_duration + Drift

(* Window on: an effective problem began in today's window, "precisa cair  *)
(* no mesmo intervalo hoje" (arquitetura), or so little before it that the *)
(* drift accounts for it.                                                  *)
StartedInShift ==
    policy.window_enabled /\ ~ policy.allow_past /\ Judged =>
        \E late \in 0 .. Drift :
            LET began == problem.since + late
            IN  Day(began) = Day(now) /\ InDailyWindow(began)

(* Window off: nothing older than the daemon is effective, restarts in the *)
(* middle of an episode included (engineering-python), but for the drift.  *)
NothingOlderThanBoot ==
    ~ policy.window_enabled /\ ~ policy.allow_past /\ Judged =>
        problem.since + Drift >= boot
=============================================================================
