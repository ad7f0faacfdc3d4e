------------------------------- MODULE Daemon -------------------------------
(***************************************************************************)
(* The daemon that main.py builds from the environment: AlertFilter judges *)
(* the problem, and PollMonitorsUseCase publishes it to stdout and Google  *)
(* Chat, through the in-memory ledger or, with DEDUP_ENABLED=false, with   *)
(* none.  The file ledger, which other processes share, is PollDispatch's. *)
(*                                                                         *)
(* The ledger of a process dies with it and has one user, so what a cycle  *)
(* does with the verdict is one step: claim, publish, confirm or release.  *)
(***************************************************************************)
EXTENDS AlertFilter

CONSTANTS
    Cases,      \* the environments, problems and faults, one per behaviour
    Default,
    Unset, Blank, Other, Refused,
    MaxRefusals \* how often publishing fails, the message refused or unanswered

INSTANCE Settings

ASSUME DefaultAssumption ==
    /\ \A name \in Numbers : Default[name] \in Int
    /\ Default.WINDOW_DAYS \in SUBSET (0 .. 6)

ASSUME CasesAssumption ==
    /\ MaxRefusals \in Nat
    /\ \A case \in Cases : /\ case.problem \in Problems
                           /\ case.faults \subseteq {"fetch", "refused", "unanswered"}
                           /\ Readable(Loaded(case.dotenv, case.environ))

VARIABLES
    settings,
    faults,    \* what goes wrong: monitors' answers lost, messages refused by
               \* Chat, its answers lost
    up,        \* the process is running
    claim,     \* the in-memory ledger: when the problem was claimed, or None
    refusals,  \* history: the publications that failed
    heard      \* history: whether Chat carried it, in this boot and ever

daemonVars == <<settings, faults, up, claim, refusals, heard>>

-----------------------------------------------------------------------------
(* build_use_case.                                                         *)

PolicyOf(fields) ==
    [window_enabled |-> fields.window_enabled, allow_past |-> fields.allow_past,
     weekdays |-> fields.weekdays,
     window_start |-> fields.window_start, window_end |-> fields.window_end,
     hold_fast |-> fields.hold_fast, hold_critical |-> fields.hold_critical,
     hold_warning |-> fields.hold_warning, max_duration |-> fields.max_duration]

(* _dispatch_ledger: a ledger unless deduplication is off.                 *)
Deduped == settings.dedup_enabled

(* _alert_sink: stdout, then Chat when it has a webhook.                   *)
HasChat == settings.gchat_webhook_url \notin {Unset, Blank}

(* A process that refuses its settings returns 1 at boot, and tells        *)
(* nothing however often it is started.                                    *)
BootsWith(fields) ==
    /\ fields # Refused
    /\ fields.dedup_ledger_path \in {Unset, Blank}
    /\ settings = fields
    /\ policy = PolicyOf(fields)

DaemonInit ==
    /\ \E case \in Cases :
         /\ BootsWith(FromEnv(Loaded(case.dotenv, case.environ)))
         /\ problem = case.problem
         /\ faults = case.faults
    /\ Init
    /\ up = TRUE
    /\ claim = None
    /\ refusals = 0
    /\ heard = [boot |-> "nothing", ever |-> "nothing"]

-----------------------------------------------------------------------------
(* in_memory_alert_dispatch_ledger.py.                                     *)

(* try_claim: any record refuses, however old.                             *)
CanClaim(at) == claim = None

(* Slip: whatever the fetch does not list is retired at once.              *)
RetiredAtOnce(listed, at) == claim # None /\ ~ listed

Retired(listed, at) ==
    /\ claim # None
    /\ ~ listed
    /\ claim <= at - settings.dedup_window_minutes

-----------------------------------------------------------------------------
(* The process.                                                            *)

PassTime == Advance /\ UNCHANGED daemonVars

FetchAlert == up /\ Fetch /\ UNCHANGED daemonVars

(* A fetch without it, a window or more after it was told, is what entitles *)
(* a problem to be told again.                                             *)
MissAlert ==
    /\ up
    /\ now < problem.since \/ "fetch" \in faults
    /\ FetchNothing
    /\ claim' = IF Retired(FALSE, now) THEN None ELSE claim
    /\ heard' = IF claim # None /\ claim + settings.dedup_window_minutes <= now
                THEN [heard EXCEPT !.boot = "nothing"] ELSE heard
    /\ UNCHANGED <<settings, faults, up, refusals>>

Publishes == Judged /\ (Deduped => CanClaim(now))

(* Filtered, or claimed before. *)
KeepQuiet == up /\ Apply /\ ~ Publishes /\ UNCHANGED daemonVars

(* The room hears of it.  A message whose answer is lost is repeated by     *)
(* right, which is no telling again.                                       *)
Carried(as) ==
    [boot |-> IF heard.boot \in {"nothing", "unanswered"} THEN as ELSE "again",
     ever |-> IF heard.ever = "nothing" THEN "once"
              ELSE IF heard.boot = "nothing" THEN "again"
              ELSE heard.ever]

(* Carried by stdout and Chat, and confirmed. *)
Publish ==
    /\ up
    /\ Apply
    /\ Publishes
    /\ claim' = IF Deduped THEN now ELSE None
    /\ heard' = Carried("once")
    /\ UNCHANGED <<settings, faults, up, refusals>>

(* Slip: the claim is not released.                                        *)
PublishRefusedKept ==
    /\ up
    /\ HasChat
    /\ "refused" \in faults /\ refusals < MaxRefusals
    /\ Apply
    /\ Publishes
    /\ refusals' = refusals + 1
    /\ up' = Deduped
    /\ claim' = IF Deduped THEN now ELSE None
    /\ UNCHANGED <<settings, faults, heard>>

(* Chat raises: the claim is released and the loop goes on.  Without a     *)
(* ledger nothing catches it: execute() raises, and run() returns 1.       *)
PublishRefused ==
    /\ up
    /\ HasChat
    /\ "refused" \in faults /\ refusals < MaxRefusals
    /\ Apply
    /\ Publishes
    /\ refusals' = refusals + 1
    /\ up' = Deduped
    /\ UNCHANGED <<settings, faults, claim, heard>>

(* Chat takes the message and its answer is lost: the same exception, and  *)
(* the claim is released although the room has heard.                      *)
AnswerLost ==
    /\ up
    /\ HasChat
    /\ "unanswered" \in faults /\ refusals < MaxRefusals
    /\ Apply
    /\ Publishes
    /\ refusals' = refusals + 1
    /\ up' = Deduped
    /\ heard' = Carried("unanswered")
    /\ UNCHANGED <<settings, faults, claim>>

(* The container's restart policy, after an exit or a death.               *)
RestartDaemon ==
    /\ Restart
    /\ up' = TRUE
    /\ claim' = None
    /\ heard' = [heard EXCEPT !.boot = "nothing"]
    /\ UNCHANGED <<settings, faults, refusals>>

DaemonNext ==
    \/ PassTime
    \/ FetchAlert
    \/ MissAlert
    \/ KeepQuiet
    \/ Publish
    \/ PublishRefused
    \/ AnswerLost
    \/ RestartDaemon

DaemonSpec == DaemonInit /\ [][DaemonNext]_<<vars, daemonVars>>

-----------------------------------------------------------------------------
(* alert_view.py: what the message says of the problem's time.             *)

(* Slip: the grace period goes by severity alone.                          *)
GraceShownBySeverity(p) ==
    IF p.severity = "CRITICAL" THEN Default.FILTER_HOLD_CRITICAL_SECONDS
                               ELSE Default.FILTER_HOLD_WARNING_SECONDS

(* sla_criticality: of the default holds, whatever the policy's are.       *)
GraceShown(p) ==
    Hold(p, Default.FILTER_HOLD_FAST_SECONDS, Default.FILTER_HOLD_CRITICAL_SECONDS,
         Default.FILTER_HOLD_WARNING_SECONDS)

(* started_instant, for "Inicio do alarme" and sla_elapsed.                *)
StartShown(p, duration, at) == StartInstant(p, duration, at)

(* Whole minutes.                                                          *)
ElapsedShown(p, duration, at) ==
    LET start == StartShown(p, duration, at)
    IN  IF start = None \/ at < start THEN None ELSE (at - start) \div Units.m

-----------------------------------------------------------------------------
(* Properties.                                                             *)

DefaultHolds ==
    /\ policy.hold_fast = Default.FILTER_HOLD_FAST_SECONDS
    /\ policy.hold_critical = Default.FILTER_HOLD_CRITICAL_SECONDS
    /\ policy.hold_warning = Default.FILTER_HOLD_WARNING_SECONDS

(* The message tells the truth of the problem: a start no earlier than its *)
(* own and late by the drift at most and, with the default holds, the      *)
(* grace period it was held for ("Criticidade SLA = Carencia do hold",     *)
(* nagstamon-alert-view), no longer than the time it says has elapsed.     *)
CardIsTrue ==
    Judged =>
        /\ StartShown(problem, report.duration, now) \in problem.since .. problem.since + Drift
        /\ DefaultHolds =>
             /\ GraceShown(problem) = HoldSeconds(problem)
             /\ ElapsedShown(problem, report.duration, now) >= GraceShown(problem) \div Units.m

(* How late the poll that tells a problem can be: one is due each PollGap, *)
(* and a message that failed waits for the next.  A hold that leaves no room   *)
(* for them before the longest duration can miss the problem altogether.   *)
Patience == HoldSeconds(problem) + PollGap * (1 + refusals)

(* Window on: a dated problem born in the shift, early enough for its hold *)
(* and for the polls it takes before the window closes, is heard by then,  *)
(* however often the daemon is restarted and with a ledger or without: the *)
(* window governs "para nao perder alertas nascidos no turno antes de um   *)
(* restart" (engineering-python).                                          *)
ShiftAlertIsHeard ==
    LET closes == Day(problem.since) * DayLength + policy.window_end
    IN  /\ policy.window_enabled
        /\ "fetch" \notin faults
        /\ ~ Noise(problem) /\ Paging(problem) /\ problem.source = "starts_at"
        /\ InDailyWindow(problem.since)
        /\ problem.since + Patience <= closes
        /\ Patience <= policy.max_duration
        /\ now > closes
        => heard.ever # "nothing"

(* Window off, with a ledger: a CRITICAL problem born while the daemon is  *)
(* up is heard, its hold and the polls it takes later, whatever kubernetes *)
(* or legacy pattern its texts match ("alertas CRITICAL nunca sao          *)
(* silenciados") and though Chat refuses messages ("o use case libera o    *)
(* fingerprint e o ciclo segue", arquitetura).  Without a ledger the       *)
(* refusal ends the process, and the next one finds the problem too old.   *)
CriticalIsHeard ==
    /\ ~ policy.window_enabled /\ Deduped
    /\ "fetch" \notin faults
    /\ problem.severity = "CRITICAL" /\ problem.source = "starts_at"
    /\ problem.marks \subseteq {"legacy", "falcon", "kubelet_cert", "pod_cpu",
                                "sre", "pod", "kube", "fast", "transient"}
    /\ boot <= problem.since
    /\ Patience <= policy.max_duration
    /\ now > problem.since + Patience
    => heard.boot # "nothing"

(* With a ledger a process tells a problem once for as long as the         *)
(* monitors list it, or stop listing it for less than a window from when   *)
(* it was told: once more for each answer of Chat that was lost, since the *)
(* claim of a message that Chat took was then released.  Nor does the      *)
(* ledger's loss cost anything with the window off: what it knew of began  *)
(* before the process that lost it, and the cut at boot silences it,       *)
(* unless its start seems later than it was.                               *)
NotToldAgain ==
    Deduped =>
        /\ heard.boot # "again"
        /\ /\ ~ policy.window_enabled /\ ~ policy.allow_past
           /\ "fetch" \notin faults
           /\ HoldSeconds(problem) > Drift
           => heard.ever # "again"
=============================================================================
