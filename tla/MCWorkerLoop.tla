---------------------------- MODULE MCWorkerLoop ----------------------------
(* A daemon, and two loops that share its guard, one told to run no cycle. *)
EXTENDS WorkerLoop, TLC

CONSTANTS l1, l2, l3

Daemon == (l1 :> NoLimit) @@ (l2 :> 2) @@ (l3 :> 0)
=============================================================================
