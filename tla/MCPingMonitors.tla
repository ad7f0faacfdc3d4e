--------------------------- MODULE MCPingMonitors ---------------------------
(* Small directories of .conf files, one monitor each, as the GUI writes    *)
(* them. *)
EXTENDS PingMonitors, FiniteSets, TLC

CONSTANTS s1, s2, c1, c2

OwnConfs == (s1 :> c1) @@ (s2 :> c2)
OwnNames == (c1 :> "core") @@ (c2 :> "am")
Sorted   == (c1 :> 1) @@ (c2 :> 2)

Edited == {c \in Files : Conf(c) # Torn /\ Conf(c).mine = "edited"}

Started == {p \in Pings : pc[p] # "idle"}

(* Three of them at most: one ping over two files, two that overlap over   *)
(* one, or one and the GUI. *)
Small == Cardinality(Files) + Cardinality(Started) + Cardinality(Edited) <= 3

(* Which inode a file has at first is all the same. *)
SmallSpec ==
    /\ Init
    /\ c1 \in Files
    /\ \A c \in Files : path[c] = OrderOf[c]
    /\ [][Next /\ Small']_vars

PingSymmetry == Permutations(Pings)
=============================================================================
