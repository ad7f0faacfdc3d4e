---------------------------- MODULE PollDispatch ----------------------------
(***************************************************************************)
(* The poll cycle of poll_monitors.py run by several worker processes that *)
(* share one ledger file: the daemon, and the one-shot worker the Docker   *)
(* smoke test starts beside it.                                            *)
(*                                                                         *)
(* A ledger call is one step: it runs under flock from load to os.replace, *)
(* and no other process reads or writes the file in between.  Everything   *)
(* else a cycle does is a step of its own, so the cycles of two workers    *)
(* interleave between any two calls, and a worker can die between any two. *)
(*                                                                         *)
(* The present is instant 0.  Tick moves every remembered instant one unit *)
(* further into the past, down to -Horizon, where older and oldest are no  *)
(* longer told apart: the comparisons of the ledger only ever look back    *)
(* PendingTTL or Window from an instant no older than MaxCycle.            *)
(***************************************************************************)
EXTENDS DispatchLedger

CONSTANTS
    Workers,    \* worker processes sharing DEDUP_LEDGER_PATH
    Servers,    \* configured monitors
    ServerOf,   \* the monitor that reports each key
    MaxFetch,   \* longest time from a monitor's answer to clock.now()
    MaxCycle,   \* longest time from clock.now() to the cycle's last call
    Horizon,    \* instants older than this are one
    Faults,     \* which faults of the environment happen
    NoKey,      \* the loop is at no alert
    Watched,    \* the sink whose output `seen` records
    Grace       \* how long a problem must stay clear for its episode to end

FaultKinds == {"fetch",     \* a monitor's answer is lost (fail-open: no alerts)
               "crash",     \* a worker dies, or a ledger write raises
               "refused",   \* a sink raises and nothing was delivered
               "unsure",    \* the POST raises after Chat took the message
               "read"}      \* the ledger file cannot be read (_load gives {})

ASSUME ModelAssumption ==
    /\ ServerOf \in [Keys -> Servers]
    /\ MaxFetch \in Nat \ {0}
    /\ MaxCycle \in Nat \ {0}
    /\ Horizon \in Nat
    /\ Horizon >= MaxFetch
    /\ Horizon >= PendingTTL + MaxCycle
    /\ Horizon >= Window + MaxCycle
    /\ Faults \subseteq FaultKinds
    /\ NoKey \notin Keys
    /\ Watched \in {"stdout", "chat"}
    /\ Grace \in Nat

VARIABLES
    problem,  \* what the monitors and the filter say of each key
    clearFor, \* how long it has been clear, up to Grace
    ledger,   \* the shared ledger file
    pc,       \* where each worker's execute() is
    now,      \* its local `now` (the instant of the fetch until it is read)
    raw,      \* keys of raw_alerts
    todo,     \* keys of `unique` the loop has not reached
    cur,      \* the alert the loop is at
    told,     \* history: Chat was told of the key and nothing has undone that
    seen      \* history: Watched carried the key in its present episode

vars == <<problem, clearFor, ledger, pc, now, raw, todo, cur, told, seen>>

Conditions == {"clear",    \* no monitor lists it
               "held",     \* listed, and suppressed by the filter
               "firing"}   \* listed, and effective

Owning  == {"printing", "posting", "confirming", "releasing"}
Running == {"reconciling", "claiming"} \cup Owning
Phases  == {"down", "idle", "fetched"} \cup Running

Past == (-Horizon) .. 0

PastStore == [Keys -> [status : {"absent", "pending", "sent"}, at : Past]]

TypeOK ==
    /\ problem \in [Keys -> Conditions]
    /\ clearFor \in [Keys -> 0 .. Grace]
    /\ ledger \in PastStore
    /\ pc \in [Workers -> Phases]
    /\ now \in [Workers -> Past]
    /\ raw \in [Workers -> SUBSET Keys]
    /\ todo \in [Workers -> SUBSET Keys]
    /\ cur \in [Workers -> Keys \cup {NoKey}]
    /\ told \in [Keys -> BOOLEAN]
    /\ seen \in [Keys -> BOOLEAN]

Init ==
    /\ problem \in [Keys -> Conditions]
    /\ clearFor = [k \in Keys |-> IF problem[k] = "clear" THEN Grace ELSE 0]
    /\ ledger = Empty
    /\ pc = [w \in Workers |-> "idle"]
    /\ now = [w \in Workers |-> 0]
    /\ raw = [w \in Workers |-> {}]
    /\ todo = [w \in Workers |-> {}]
    /\ cur = [w \in Workers |-> NoKey]
    /\ told = [k \in Keys |-> FALSE]
    /\ seen = [k \in Keys |-> FALSE]

-----------------------------------------------------------------------------
(* The environment.                                                        *)

(* A problem appears, resolves, or crosses the filter either way (hold     *)
(* elapsed, window opened or closed, acknowledged).  Its episode lasts     *)
(* until it has been clear for Grace.                                      *)
Change(k) ==
    \E c \in Conditions \ {problem[k]} :
        /\ problem' = [problem EXCEPT ![k] = c]
        /\ clearFor' = [clearFor EXCEPT ![k] = 0]
        /\ seen' = [seen EXCEPT ![k] = @ /\ ~ (c = "clear" /\ Grace = 0)]
        /\ UNCHANGED <<ledger, pc, now, raw, todo, cur, told>>

Older(t) == IF t > -Horizon THEN t - 1 ELSE t

Aged(record) ==
    IF record.status = "absent" THEN record
                                ELSE [record EXCEPT !.at = Older(record.at)]

(* Time passes.  MaxFetch and MaxCycle bound how long it can while a       *)
(* worker is in its cycle; the code itself enforces neither.               *)
Tick ==
    /\ \A w \in Workers :
         /\ pc[w] = "fetched" => now[w] > -MaxFetch
         /\ pc[w] \in Running => now[w] > -MaxCycle
    /\ now' = [w \in Workers |->
                 IF pc[w] \in {"down", "idle"} THEN now[w] ELSE Older(now[w])]
    /\ ledger' = [k \in Keys |-> Aged(ledger[k])]
    /\ clearFor' = [k \in Keys |-> IF problem[k] = "clear" /\ clearFor[k] < Grace
                                    THEN clearFor[k] + 1
                                    ELSE clearFor[k]]
    /\ seen' = [k \in Keys |->
                  seen[k] /\ ~ (problem[k] = "clear" /\ clearFor'[k] = Grace)]
    /\ UNCHANGED <<problem, pc, raw, todo, cur, told>>

-----------------------------------------------------------------------------
(* A worker's cycle: PollMonitorsUseCase.execute.                          *)

Goto(w, phase) == pc' = [pc EXCEPT ![w] = phase]

(* What _load returns: the records, or {} when reading the file fails.     *)
Loads == {ledger} \cup (IF "read" \in Faults THEN {Empty} ELSE {})

(* fetch_all: the alerts of the monitors that answered; a monitor that     *)
(* fails contributes none and nobody is told.  The filter runs on what was *)
(* fetched; a hold that elapses before the clock is read elapsed as well   *)
(* before the fetch, for all the ledger can tell.                          *)
Fetch(w) ==
    /\ pc[w] = "idle"
    /\ \E answered \in IF "fetch" \in Faults THEN SUBSET Servers ELSE {Servers} :
         LET listed == {k \in Keys : problem[k] # "clear" /\ ServerOf[k] \in answered}
         IN  /\ raw' = [raw EXCEPT ![w] = listed]
             /\ todo' = [todo EXCEPT ![w] = {k \in listed : problem[k] = "firing"}]
    /\ now' = [now EXCEPT ![w] = 0]
    /\ Goto(w, "fetched")
    /\ UNCHANGED <<problem, clearFor, ledger, cur, told, seen>>

(* now = clock.now(), once for the whole cycle.                            *)
ReadClock(w) ==
    /\ pc[w] = "fetched"
    /\ now' = [now EXCEPT ![w] = 0]
    /\ Goto(w, "reconciling")
    /\ UNCHANGED <<problem, clearFor, ledger, raw, todo, cur, told, seen>>

(* Slip: reconciling with the filtered alerts instead of the fetched ones. *)
ReconcileEffective(w) ==
    /\ pc[w] = "reconciling"
    /\ ledger' = Reconcile(ledger, todo[w], now[w])
    /\ told' = [k \in Keys |->
                  told[k] /\ ~ Retired(ledger[k], k \in todo[w], now[w])]
    /\ Goto(w, "claiming")
    /\ UNCHANGED <<problem, clearFor, now, raw, todo, cur, seen>>

(* reconcile_active, with every fetched key, filtered or not.  Retiring a  *)
(* sent record is what entitles its key to be told again.                  *)
ReconcileActive(w) ==
    /\ pc[w] = "reconciling"
    /\ \E records \in Loads :
         /\ ledger' = Reconcile(records, raw[w], now[w])
         /\ told' = [k \in Keys |->
                       told[k] /\ ~ Retired(records[k], k \in raw[w], now[w])]
    /\ Goto(w, "claiming")
    /\ UNCHANGED <<problem, clearFor, now, raw, todo, cur, seen>>

(* The loop takes an alert and claims it.                                  *)
Claim(w, k) ==
    /\ pc[w] = "claiming"
    /\ k \in todo[w]
    /\ todo' = [todo EXCEPT ![w] = @ \ {k}]
    /\ \E records \in Loads :
         \/ /\ CanClaim(records, k, now[w])
            /\ ledger' = TryClaim(records, k, now[w])
            /\ cur' = [cur EXCEPT ![w] = k]
            /\ Goto(w, "printing")
         \/ /\ ~ CanClaim(records, k, now[w])
            /\ UNCHANGED <<ledger, cur, pc>>
    /\ UNCHANGED <<problem, clearFor, now, raw, told, seen>>

(* A message about a problem that resolved meanwhile is of no episode.     *)
Carried(sink, k) ==
    [seen EXCEPT ![k] = @ \/ (sink = Watched /\ problem[k] # "clear")]

(* CompositeAlertSink.publish: stdout first.                               *)
PrintAlert(w, k) ==
    /\ pc[w] = "printing"
    /\ cur[w] = k
    /\ seen' = Carried("stdout", k)
    /\ Goto(w, "posting")
    /\ UNCHANGED <<problem, clearFor, ledger, now, raw, todo, cur, told>>

(* Then the POST to Google Chat, accepted and answered.                    *)
PostAlert(w, k) ==
    /\ pc[w] = "posting"
    /\ cur[w] = k
    /\ told' = [told EXCEPT ![k] = TRUE]
    /\ seen' = Carried("chat", k)
    /\ Goto(w, "confirming")
    /\ UNCHANGED <<problem, clearFor, ledger, now, raw, todo, cur>>

(* Slip: the sink swallows its own failure and the alert is confirmed.     *)
PublishSwallows(w) ==
    /\ pc[w] = "posting"
    /\ "refused" \in Faults
    /\ Goto(w, "confirming")
    /\ UNCHANGED <<problem, clearFor, ledger, now, raw, todo, cur, told, seen>>

(* A sink raises, so the claim will be released.  The message may have     *)
(* been taken all the same (a timeout on the answer): the release then     *)
(* entitles the key to be told again.                                      *)
PublishFails(w) ==
    /\ pc[w] \in {"printing", "posting"}
    /\ \/ /\ "refused" \in Faults
          /\ UNCHANGED <<told, seen>>
       \/ /\ "unsure" \in Faults
          /\ pc[w] = "posting"
          /\ told' = [told EXCEPT ![cur[w]] = FALSE]
          /\ seen' = Carried("chat", cur[w])
    /\ Goto(w, "releasing")
    /\ UNCHANGED <<problem, clearFor, ledger, now, raw, todo, cur>>

NextAlert(w) ==
    /\ cur' = [cur EXCEPT ![w] = NoKey]
    /\ Goto(w, "claiming")

ConfirmSent(w) ==
    /\ pc[w] = "confirming"
    /\ \E records \in Loads : ledger' = Confirm(records, cur[w], now[w])
    /\ NextAlert(w)
    /\ UNCHANGED <<problem, clearFor, now, raw, todo, told, seen>>

ReleaseClaim(w) ==
    /\ pc[w] = "releasing"
    /\ \E records \in Loads : ledger' = Release(records, cur[w])
    /\ NextAlert(w)
    /\ UNCHANGED <<problem, clearFor, now, raw, todo, told, seen>>

(* What leaving execute() forgets, by returning or by dying.               *)
Forget(w) ==
    /\ now' = [now EXCEPT ![w] = 0]
    /\ raw' = [raw EXCEPT ![w] = {}]
    /\ todo' = [todo EXCEPT ![w] = {}]
    /\ cur' = [cur EXCEPT ![w] = NoKey]

EndCycle(w) ==
    /\ pc[w] = "claiming"
    /\ todo[w] = {}
    /\ Forget(w)
    /\ Goto(w, "idle")
    /\ UNCHANGED <<problem, clearFor, ledger, told, seen>>

(* The process dies, or a ledger call raises: execute() propagates it, the *)
(* worker returns 1 and the process ends.  A claim left behind after the   *)
(* message was taken entitles the key to be told again: the claim lapses.  *)
Crash(w) ==
    /\ "crash" \in Faults
    /\ pc[w] # "down"
    /\ told' = IF pc[w] = "confirming" THEN [told EXCEPT ![cur[w]] = FALSE] ELSE told
    /\ Forget(w)
    /\ Goto(w, "down")
    /\ UNCHANGED <<problem, clearFor, ledger, seen>>

(* The container's restart policy, or the operator, starts it again.       *)
Restart(w) ==
    /\ pc[w] = "down"
    /\ Goto(w, "idle")
    /\ UNCHANGED <<problem, clearFor, ledger, now, raw, todo, cur, told, seen>>

Step(w) ==
    \/ Fetch(w)
    \/ ReadClock(w)
    \/ ReconcileActive(w)
    \/ \E k \in Keys : Claim(w, k)
    \/ \E k \in Keys : PrintAlert(w, k) \/ PostAlert(w, k)
    \/ PublishFails(w)
    \/ ConfirmSent(w)
    \/ ReleaseClaim(w)
    \/ EndCycle(w)

Next ==
    \/ \E k \in Keys : Change(k)
    \/ Tick
    \/ \E w \in Workers : Step(w)
    \/ \E w \in Workers : Crash(w)
    \/ \E w \in Workers : Restart(w)

Spec == Init /\ [][Next]_vars

-----------------------------------------------------------------------------
(* Safety.                                                                 *)

Owns(w) == pc[w] \in Owning

(* While a worker is between its claim and its confirm or release, the     *)
(* ledger holds exactly the claim it made: no other worker prunes it,      *)
(* releases it, confirms it or claims over it.                             *)
ClaimHeld == \A w \in Workers : Owns(w) => ledger[cur[w]] = Pending(now[w])

(* Two workers are never publishing the same problem at once.              *)
OneOwner ==
    \A v, w \in Workers : Owns(v) /\ Owns(w) /\ cur[v] = cur[w] => v = w

(* The room is not told again of a problem it was told of, unless a crash  *)
(* before the confirm, an unanswered POST or the retirement of the record  *)
(* came in between: "uma emissao por problema / fingerprint" (README).     *)
NeverToldTwice == \A w \in Workers : pc[w] = "posting" => ~ told[cur[w]]

(* A problem the ledger silences as sent is one the room was told of.      *)
SentWasTold == \A k \in Keys : ledger[k].status = "sent" => told[k]

(* Only a reconciliation takes a sent record away, by a worker whose fetch *)
(* did not list the key, and a whole window after the confirmation: never  *)
(* a release, a pruning or another worker's claim.                         *)
KeepsSent ==
    \A k \in Keys :
        ledger[k].status = "sent" /\ ledger'[k].status # "sent" =>
            \E w \in Workers : /\ pc[w] = "reconciling"
                               /\ k \notin raw[w]
                               /\ ledger[k].at <= now[w] - Window

(* Every step keeps the sent records in that sense.                        *)
SentSurvives == [][KeepsSent]_vars

(* The watched sink carries a problem once while the monitors keep         *)
(* reporting it: "emitido uma vez enquanto continuar ativo" (arquitetura). *)
OncePerEpisode ==
    \A w \in Workers :
        pc[w] = (IF Watched = "chat" THEN "posting" ELSE "printing")
          /\ problem[cur[w]] # "clear"
          => ~ seen[cur[w]]
-----------------------------------------------------------------------------
(* The inductive invariant behind them, for cycles shorter than the TTL    *)
(* and a ledger file that can be read.                                     *)

ShortCycles    == MaxCycle < PendingTTL
ReadableLedger == "read" \notin Faults

(* A claim is as old as its cycle, so it cannot expire under its holder.   *)
InTime == \A w \in Workers : pc[w] \in Running => now[w] >= -MaxCycle

AtAlert == \A w \in Workers : Owns(w) => cur[w] \in Keys

(* The room knows exactly of the problems that are recorded as sent or     *)
(* that their owner is about to record so.                                 *)
ToldIsRecorded ==
    \A k \in Keys :
        told[k] => \/ ledger[k].status = "sent"
                   \/ \E w \in Workers : pc[w] = "confirming" /\ cur[w] = k

ConfirmsTold == \A w \in Workers : pc[w] = "confirming" => told[cur[w]]

DispatchInv ==
    /\ TypeOK
    /\ InTime
    /\ AtAlert
    /\ ClaimHeld
    /\ OneOwner
    /\ ToldIsRecorded
    /\ ConfirmsTold
    /\ SentWasTold

-----------------------------------------------------------------------------
(* Liveness.                                                               *)

(* execute() is straight-line code: a worker that is up takes its next     *)
(* step.  Time passes.  A sink tried again and again accepts at last.      *)
(* Nothing is assumed of crashes, restarts or the problems themselves.     *)
FairSpec ==
    /\ Spec
    /\ WF_vars(Tick)
    /\ \A w \in Workers : WF_vars(Step(w))
    /\ \A w \in Workers, k \in Keys : /\ SF_vars(PrintAlert(w, k))
                                      /\ SF_vars(PostAlert(w, k))

(* From some point on no worker dies or is restarted, and one is up.       *)
Calm ==
    /\ \A w \in Workers : <>[](pc[w] = "down") \/ <>[](pc[w] # "down")
    /\ \E w \in Workers : <>[](pc[w] # "down")

(* A problem that keeps firing is told and stays recorded as sent: neither *)
(* a claim left by a crash nor refused messages silence it for ever.       *)
EveryProblemTold ==
    Calm => \A k \in Keys :
              <>[](problem[k] = "firing") => <>[](ledger[k].status = "sent")
=============================================================================
