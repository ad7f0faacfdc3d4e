---------------------------- MODULE LedgerCalls -----------------------------
(* The calls threads make of the ledger, and what each does to its records. *)
EXTENDS DispatchLedger

CONSTANTS
    Threads,   \* the threads that call the ledger
    Instants,  \* the instants they pass as `now`
    NoCall

Calls ==
    [kind : {"try_claim", "confirm", "release"}, key : Keys, now : Instants]
    \cup [kind : {"reconcile_active"}, active : SUBSET Keys, now : Instants]

ASSUME CallsAssumption == Instants \subseteq Int /\ NoCall \notin Calls

Denies(records, c) ==
    /\ c.kind = "try_claim"
    /\ ~ CanClaim(records, c.key, c.now)

(* The records a call dumps, given those it loaded. *)
Effect(records, c) ==
    CASE c.kind = "try_claim"        -> TryClaim(records, c.key, c.now)
      [] c.kind = "confirm"          -> Confirm(records, c.key, c.now)
      [] c.kind = "release"          -> Release(records, c.key)
      [] c.kind = "reconcile_active" -> Reconcile(records, c.active, c.now)
=============================================================================
