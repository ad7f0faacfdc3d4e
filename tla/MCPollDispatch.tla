--------------------------- MODULE MCPollDispatch ---------------------------
(* Small instances of the poll cycle, and of the lease it implements. *)
EXTENDS PollDispatchLease, TLC

CONSTANTS k1, k2, s1, s2

OneKey     == k1 :> s1
TwoServers == (k1 :> s1) @@ (k2 :> s2)

(* Workers are told apart by nothing but their name. *)
WorkerSymmetry == Permutations(Workers)
=============================================================================
