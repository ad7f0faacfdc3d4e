-------------------------- MODULE PollDispatchLease -------------------------
(* The poll cycle over the ledger file implements AlertLease. *)
EXTENDS PollDispatch

CONSTANTS Free, Orphan, Done

ASSUME LeaseAssumption ==
    /\ {Free, Orphan, Done} \cap Workers = {}
    /\ Free # Orphan /\ Free # Done /\ Orphan # Done

Holds(w, k) == Owns(w) /\ cur[w] = k

(* What a record says of a problem nobody holds. *)
ByRecord(status) ==
    IF status = "absent" THEN Free
    ELSE IF status = "pending" THEN Orphan
    ELSE Done

(* Who holds each problem: the worker between its claim and its confirm or *)
(* release, or what the record says.                                       *)
Lease ==
    [k \in Keys |->
       IF \E w \in Workers : Holds(w, k)
       THEN CHOOSE w \in Workers : Holds(w, k)
       ELSE ByRecord(ledger[k].status)]

Abstract == INSTANCE AlertLease WITH lease <- Lease

(* Under claims shorter than the TTL, every step of every worker, and of   *)
(* the environment, is a step of the lease or changes nothing of it.       *)
ImplementsLease == Abstract!Spec
=============================================================================
