--------------------------- MODULE MCConnections ---------------------------
(* Four clients, all alike. *)
EXTENDS Connections, TLC

CONSTANTS c1, c2, c3, c4

MCConns == {c1, c2, c3, c4}
Clients == Permutations(MCConns)
=============================================================================
