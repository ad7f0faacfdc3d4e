--------------------------- MODULE DispatchLedger ---------------------------
(***************************************************************************)
(* The records of file_alert_dispatch_ledger.py as values, and each ledger *)
(* operation as a function from the loaded records to the dumped records.  *)
(*                                                                         *)
(* A store maps every fingerprint to its record; a fingerprint missing     *)
(* from the JSON object is Absent.  A record _load would drop (wrong shape *)
(* or unparsable `at`) is Absent too: the program never writes one.        *)
(* Instants and the two durations are integers in one unit of time.        *)
(***************************************************************************)
EXTENDS Integers

CONSTANTS
    Keys,        \* fingerprints: dedup_key = server/alertname/app/host
    PendingTTL,  \* PENDING_TTL_SECONDS
    Window       \* DEDUP_WINDOW_MINUTES

ASSUME DurationsAssumption ==
    /\ PendingTTL \in Nat \ {0}
    /\ Window \in Nat \ {0}

Absent     == [status |-> "absent",  at |-> 0]
Pending(t) == [status |-> "pending", at |-> t]
Sent(t)    == [status |-> "sent",    at |-> t]

Record == [status : {"absent", "pending", "sent"}, at : Int]
Store  == [Keys -> Record]

Empty == [k \in Keys |-> Absent]

-----------------------------------------------------------------------------

(* Slips the checks must catch: the TTL left out, the status misspelt.     *)
ExpiredAtOnce(record, now) ==
    /\ record.status = "pending"
    /\ record.at <= now

ExpiredMisspelt(record, now) ==
    /\ record.status = "claimed"
    /\ record.at <= now - PendingTTL

(* A claim whose holder has not confirmed or released it within the TTL.   *)
Expired(record, now) ==
    /\ record.status = "pending"
    /\ record.at <= now - PendingTTL

Prune(records, now) ==
    [k \in Keys |-> IF Expired(records[k], now) THEN Absent ELSE records[k]]

(* Slips: only sent records refuse a claim; an old sent record does not.   *)
CanClaimUnsent(records, k, now) == records[k].status # "sent"

CanClaimOldSent(records, k, now) ==
    \/ Prune(records, now)[k] = Absent
    \/ records[k].status = "sent" /\ records[k].at <= now - Window

(* try_claim returns False, and dumps nothing, for a key that survives the *)
(* pruning; it never looks at the window nor at a sent record's age.       *)
CanClaim(records, k, now) == Prune(records, now)[k] = Absent

(* Slip: the claim is recorded as sent before anything is published.       *)
TryClaimAsSent(records, k, now) == [Prune(records, now) EXCEPT ![k] = Sent(now)]

TryClaim(records, k, now) == [Prune(records, now) EXCEPT ![k] = Pending(now)]

(* confirm and release act on whatever record the key has by then.         *)
Confirm(records, k, now) == [records EXCEPT ![k] = Sent(now)]

Release(records, k) == [records EXCEPT ![k] = Absent]

(* Slip: a sent record is retired by its age alone.                        *)
RetiredByAge(record, isActive, now) ==
    /\ record.status = "sent"
    /\ record.at <= now - Window

(* A sent record is retired once the fetched alerts lack its key and its   *)
(* confirmation is a whole window old.                                     *)
Retired(record, isActive, now) ==
    /\ record.status = "sent"
    /\ ~ isActive
    /\ record.at <= now - Window

Reconcile(records, active, now) ==
    [k \in Keys |-> IF \/ Expired(records[k], now)
                       \/ Retired(records[k], k \in active, now)
                    THEN Absent
                    ELSE records[k]]
=============================================================================
