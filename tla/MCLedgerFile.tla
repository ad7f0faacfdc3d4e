---------------------------- MODULE MCLedgerFile ----------------------------
(* Ledger calls of two threads of one process, beside another process. *)
EXTENDS LedgerFile, TLC

CONSTANTS p1, p2, t1, t2, t3

SharedFirst == (t1 :> p1) @@ (t2 :> p1) @@ (t3 :> p2)
=============================================================================
