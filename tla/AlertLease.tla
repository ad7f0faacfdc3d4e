----------------------------- MODULE AlertLease -----------------------------
(***************************************************************************)
(* What the dispatch ledger promises, without instants, files or cycles:   *)
(* each problem is leased to at most one worker at a time; the room is     *)
(* told of it at most once before it is done with; and it is done with     *)
(* only once the room was told.                                            *)
(***************************************************************************)
CONSTANTS
    Keys,
    Workers,
    Free, Orphan, Done  \* what a lease is when no worker holds it

VARIABLES
    lease,  \* Free, the worker holding the claim, Orphan (it died) or Done
    told    \* the room was told, and the lease has not been undone since

vars == <<lease, told>>

Init ==
    /\ lease = [k \in Keys |-> Free]
    /\ told = [k \in Keys |-> FALSE]

(* An orphaned lease can lapse whenever a worker touches the ledger.       *)
Lapsed(S, leases) == [k \in Keys |-> IF k \in S THEN Free ELSE leases[k]]

Orphans == {k \in Keys : lease[k] = Orphan}

Acquire(w, k) ==
    /\ lease[k] \in {Free, Orphan}
    /\ \E S \in SUBSET Orphans :
         lease' = [Lapsed(S, lease) EXCEPT ![k] = w]
    /\ UNCHANGED told

Tell(w, k) ==
    /\ lease[k] = w
    /\ ~ told[k]
    /\ told' = [told EXCEPT ![k] = TRUE]
    /\ UNCHANGED lease

Finish(w, k) ==
    /\ lease[k] = w
    /\ told[k]
    /\ lease' = [lease EXCEPT ![k] = Done]
    /\ UNCHANGED told

(* Only a key the room is not known to have been told of goes back.        *)
Abandon(w, k) ==
    /\ lease[k] = w
    /\ ~ told[k]
    /\ lease' = [lease EXCEPT ![k] = Free]
    /\ UNCHANGED told

Die(w, k) ==
    /\ lease[k] = w
    /\ lease' = [lease EXCEPT ![k] = Orphan]
    /\ told' = [told EXCEPT ![k] = FALSE]

(* Orphans lapse, and finished problems may be told again: together, as    *)
(* one pass over the ledger does.                                          *)
Reclaim ==
    \E S \in SUBSET {k \in Keys : lease[k] \in {Orphan, Done}} :
        /\ lease' = Lapsed(S, lease)
        /\ told' = [k \in Keys |-> told[k] /\ k \notin S]

Next ==
    \/ \E w \in Workers, k \in Keys :
          \/ Acquire(w, k) \/ Tell(w, k) \/ Finish(w, k)
          \/ Abandon(w, k) \/ Die(w, k)
    \/ Reclaim

Spec == Init /\ [][Next]_vars
=============================================================================
