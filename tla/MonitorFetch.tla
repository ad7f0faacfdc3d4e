---------------------------- MODULE MonitorFetch ----------------------------
(***************************************************************************)
(* CompositeMonitorClient.fetch_all: one task per monitor on a pool of     *)
(* threads, and a caller that waits for all of them.  What a task does to  *)
(* get its alerts, from building the client to closing it, is one request  *)
(* with one outcome; the alerts of a monitor are not told apart.           *)
(***************************************************************************)
EXTENDS Naturals, FiniteSets, FiniteSetsExt

CONSTANTS
    Callers,     \* the threads that call fetch_all
    Servers,     \* the monitors that can be configured
    MaxWorkers   \* HTTP_MAX_WORKERS

ASSUME FetchAssumption == MaxWorkers \in Nat

VARIABLES
    asked,  \* the monitors each caller asked for
    task,   \* where the task of each of them is
    chunk   \* what it returned

fetchVars == <<asked, task, chunk>>

(* A task raises only if _fetch_one lets something through. *)
FetchTypeOK ==
    /\ asked \in [Callers -> SUBSET Servers]
    /\ task \in [Callers -> [Servers -> {"none", "queued", "asking", "done"}]]
    /\ chunk \in [Callers -> [Servers -> {"none", "alerts", "empty", "raised"}]]

FetchInit ==
    /\ asked = [c \in Callers |-> {}]
    /\ task = [c \in Callers |-> [s \in Servers |-> "none"]]
    /\ chunk = [c \in Callers |-> [s \in Servers |-> "none"]]

(* pool.map: the tasks of a new pool; without monitors there is no pool.   *)
Submit(c, servers) ==
    /\ asked' = [asked EXCEPT ![c] = servers]
    /\ task' = [task EXCEPT ![c] =
                  [s \in Servers |-> IF s \in servers THEN "queued" ELSE "none"]]
    /\ chunk' = [chunk EXCEPT ![c] = [s \in Servers |-> "none"]]

Threads(c) == Min({Max({1, MaxWorkers}), Cardinality(asked[c])})

Asking(c) == {s \in Servers : task[c][s] = "asking"}

(* A free thread takes a task off the queue.  The queue is in the order of *)
(* the configuration, which nothing here depends on.                       *)
StartFetch(c, s) ==
    /\ task[c][s] = "queued"
    /\ Cardinality(Asking(c)) < Threads(c)
    /\ task' = [task EXCEPT ![c][s] = "asking"]
    /\ UNCHANGED <<asked, chunk>>

(* How a request ends: answered with alerts; an HTTP error, a status other *)
(* than 200 or a payload of another shape, which the client logs; or an    *)
(* exception the client does not expect.                                   *)
Outcomes == {"answered", "failed", "unexpected"}

(* Slip: the clients' own handlers and no other. *)
ReturnedByClient(outcome) ==
    CASE outcome = "answered"   -> "alerts"
      [] outcome = "failed"     -> "empty"
      [] outcome = "unexpected" -> "raised"

(* _fetch_one is fail-open: no alerts, whatever the failure. *)
Returned(outcome) == IF outcome = "answered" THEN "alerts" ELSE "empty"

EndFetch(c, s) ==
    /\ task[c][s] = "asking"
    /\ task' = [task EXCEPT ![c][s] = "done"]
    /\ \E outcome \in Outcomes :
         chunk' = [chunk EXCEPT ![c][s] = Returned(outcome)]
    /\ UNCHANGED asked

(* Slip: the results that are there, as a timeout on the pool would give.  *)
JoinedAny(c) == asked[c] = {} \/ \E s \in asked[c] : task[c][s] = "done"

(* Leaving the `with` block waits for every task. *)
Joined(c) == \A s \in asked[c] : task[c][s] = "done"

(* What fetch_all returns, or whether iterating over the results raises.   *)
Collected(c) == {s \in asked[c] : chunk[c][s] = "alerts"}

Raises(c) == \E s \in asked[c] : chunk[c][s] = "raised"
=============================================================================
