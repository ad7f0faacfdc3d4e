----------------------------- MODULE WorkerLoop -----------------------------
(***************************************************************************)
(* run() of worker/main.py: boot, then cycle after cycle under the guard   *)
(* of cycle_guard.py, which also covers the sleep that follows a cycle.    *)
(* The daemon runs one such loop; run() takes the guard as a parameter, so *)
(* several loops of a process can share it, and then one that finds it     *)
(* busy skips its turn.                                                    *)
(*                                                                         *)
(* A cycle is the fetch of MonitorFetch and what PollDispatch makes of the *)
(* alerts, here one step that ends well or raises.                         *)
(***************************************************************************)
EXTENDS MonitorFetch

CONSTANTS
    MaxCycles,  \* --max-cycles of each loop
    NoLimit     \* the option left out

ASSUME LoopAssumption ==
    /\ NoLimit \notin Nat
    /\ MaxCycles \in [Callers -> Nat \cup {NoLimit}]

VARIABLES
    pc,      \* where each loop is in run()
    busy,    \* CycleGuard._busy
    rounds,  \* cycles_run, where there is a limit to compare it with
    code,    \* what run() returned
    got,     \* the monitors whose alerts the cycle goes on with
    broken   \* history: its boot, or a step of a cycle of its own, raised

loopVars == <<pc, busy, rounds, code, got, broken>>
vars == <<asked, task, chunk, pc, busy, rounds, code, got, broken>>

Inside == {"listing", "fetching", "dispatching", "sleeping"}
Places == {"booting", "entering", "waiting", "returned"} \cup Inside

Limited == {c \in Callers : MaxCycles[c] # NoLimit}

(* A limited loop makes at least one round and at most MaxCycles. *)
TypeOK ==
    /\ FetchTypeOK
    /\ pc \in [Callers -> Places]
    /\ busy \in BOOLEAN
    /\ rounds \in [Callers -> Nat]
    /\ \A c \in Limited : rounds[c] <= Max({1, MaxCycles[c]})
    /\ code \in [Callers -> {"none", "0", "1"}]
    /\ got \in [Callers -> SUBSET Servers]
    /\ broken \in [Callers -> BOOLEAN]

Init ==
    /\ FetchInit
    /\ pc = [c \in Callers |-> "booting"]
    /\ busy = FALSE
    /\ rounds = [c \in Callers |-> 0]
    /\ code = [c \in Callers |-> "none"]
    /\ got = [c \in Callers |-> {}]
    /\ broken = [c \in Callers |-> FALSE]

Goto(c, place) == pc' = [pc EXCEPT ![c] = place]

Return(c, value) ==
    /\ Goto(c, "returned")
    /\ code' = [code EXCEPT ![c] = value]

Break(c) == broken' = [broken EXCEPT ![c] = TRUE]

(* Settings, logging and the use case; whatever raises there ends run().   *)
Boot(c) ==
    /\ pc[c] = "booting"
    /\ \/ /\ Goto(c, "entering")
          /\ UNCHANGED <<code, broken>>
       \/ /\ Return(c, "1")
          /\ Break(c)
    /\ UNCHANGED <<busy, rounds, got>>
    /\ UNCHANGED fetchVars

(* Slip: a test of the flag that is not one step with its setting. *)
TryEnterAnyway(c) ==
    /\ pc[c] = "entering"
    /\ busy' = TRUE
    /\ Goto(c, "listing")
    /\ UNCHANGED <<rounds, code, got, broken>>
    /\ UNCHANGED fetchVars

TryEnter(c) ==
    /\ pc[c] = "entering"
    /\ ~ busy
    /\ busy' = TRUE
    /\ Goto(c, "listing")
    /\ UNCHANGED <<rounds, code, got, broken>>
    /\ UNCHANGED fetchVars

(* Slip: the last round told by equality. *)
LastRoundExact(c) == c \in Limited /\ rounds[c] + 1 = MaxCycles[c]

LastRound(c) == c \in Limited /\ rounds[c] + 1 >= MaxCycles[c]

(* The round that ends is the last one, or the loop sleeps before another. *)
EndRound(c, sleep) ==
    /\ rounds' = IF c \in Limited THEN [rounds EXCEPT ![c] = @ + 1] ELSE rounds
    /\ \/ /\ LastRound(c)
          /\ Return(c, "0")
       \/ /\ ~ LastRound(c)
          /\ Goto(c, sleep)
          /\ UNCHANGED code

(* Slip: a skipped turn that is not counted. *)
SkipUncounted(c) ==
    /\ pc[c] = "entering"
    /\ busy
    /\ Goto(c, "waiting")
    /\ UNCHANGED <<busy, rounds, code, got, broken>>
    /\ UNCHANGED fetchVars

(* A turn skipped because a cycle is in flight is a round as well. *)
Skip(c) ==
    /\ pc[c] = "entering"
    /\ busy
    /\ EndRound(c, "waiting")
    /\ UNCHANGED <<busy, got, broken>>
    /\ UNCHANGED fetchVars

Retry(c) ==
    /\ pc[c] = "waiting"
    /\ Goto(c, "entering")
    /\ UNCHANGED <<busy, rounds, code, got, broken>>
    /\ UNCHANGED fetchVars

(* Any exception of a cycle ends run(), and frees the guard on the way.    *)
Fail(c) ==
    /\ Return(c, "1")
    /\ busy' = FALSE
    /\ UNCHANGED <<rounds, got>>

(* list_enabled reads the .conf files anew in every cycle; listing the     *)
(* directory can raise.                                                    *)
ListEnabled(c) ==
    /\ pc[c] = "listing"
    /\ \/ /\ \E enabled \in SUBSET Servers : Submit(c, enabled)
          /\ Goto(c, "fetching")
          /\ UNCHANGED <<busy, rounds, code, got, broken>>
       \/ /\ Fail(c)
          /\ Break(c)
          /\ UNCHANGED fetchVars

EndFetchAll(c) ==
    /\ pc[c] = "fetching"
    /\ Joined(c)
    /\ \/ /\ ~ Raises(c)
          /\ got' = [got EXCEPT ![c] = Collected(c)]
          /\ Goto(c, "dispatching")
          /\ UNCHANGED <<busy, rounds, code>>
       \/ /\ Raises(c)
          /\ Fail(c)
    /\ UNCHANGED broken
    /\ UNCHANGED fetchVars

(* Slip: a loop that returns with the guard still busy. *)
DispatchKeepsGuard(c) ==
    /\ pc[c] = "dispatching"
    /\ EndRound(c, "sleeping")
    /\ UNCHANGED <<busy, got, broken>>
    /\ UNCHANGED fetchVars

(* The rest of execute(): only the ledger can raise out of it, or a sink   *)
(* when DEDUP_ENABLED is false.  A loop that sleeps keeps the guard; one   *)
(* that returns frees it.                                                  *)
Dispatch(c) ==
    /\ pc[c] = "dispatching"
    /\ \/ /\ EndRound(c, "sleeping")
          /\ busy' = ~ LastRound(c)
          /\ UNCHANGED <<got, broken>>
       \/ /\ Fail(c)
          /\ Break(c)
    /\ UNCHANGED fetchVars

Wake(c) ==
    /\ pc[c] = "sleeping"
    /\ busy' = FALSE
    /\ Goto(c, "entering")
    /\ UNCHANGED <<rounds, code, got, broken>>
    /\ UNCHANGED fetchVars

Run(c) ==
    \/ Boot(c) \/ TryEnter(c) \/ Skip(c) \/ Retry(c)
    \/ ListEnabled(c) \/ EndFetchAll(c) \/ Dispatch(c) \/ Wake(c)

Work(c, s) ==
    /\ StartFetch(c, s) \/ EndFetch(c, s)
    /\ UNCHANGED loopVars

Finished == (\A c \in Callers : pc[c] = "returned") /\ UNCHANGED vars

Next ==
    \/ \E c \in Callers : Run(c)
    \/ \E c \in Callers, s \in Servers : Work(c, s)
    \/ Finished

(* Loops and pool threads go on: a sleep ends, and so does a request.      *)
Spec ==
    /\ Init
    /\ [][Next]_vars
    /\ \A c \in Callers : WF_vars(Run(c))
    /\ \A c \in Callers, s \in Servers : WF_vars(Work(c, s))

-----------------------------------------------------------------------------
(* Properties.                                                             *)

(* "Um ciclo por vez no processo" (arquitetura), its sleep included.       *)
OneCycleAtATime ==
    \A c, d \in Callers : pc[c] \in Inside /\ pc[d] \in Inside => c = d

(* However a round ends, by returning 0 or 1 or by waking up, the guard is *)
(* busy exactly while a loop is inside: a loop that is gone leaves nobody  *)
(* skipping for ever.                                                      *)
GuardIsTrue == busy <=> \E c \in Callers : pc[c] \in Inside

(* No monitor ends the worker: run() returns 1 only when its boot, the     *)
(* configuration or the dispatch raised ("fail-open de fetch ... WARNING e *)
(* o ciclo segue", engineering-logging).                                   *)
FailsOnItsOwn == \A c \in Callers : code[c] = "1" => broken[c]

(* A cycle goes on with the alerts of every monitor that answered in it,   *)
(* whatever the others did and however few threads there were, and leaves  *)
(* no thread of its pool behind.                                           *)
FetchIsWhole ==
    \A c \in Callers :
        pc[c] = "dispatching" =>
            /\ got[c] = {s \in asked[c] : chunk[c][s] = "alerts"}
            /\ \A s \in Servers : task[c][s] \notin {"queued", "asking"}

(* With --max-cycles a loop returns, even one that only ever skips because *)
(* a daemon without a limit holds the guard whenever it looks.             *)
EveryRunReturns == \A c \in Limited : <>(pc[c] = "returned")
=============================================================================
