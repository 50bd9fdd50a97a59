------------------------------ MODULE MCRelay ------------------------------
(* Small instances of Relay for TLC. *)
EXTENDS Relay

\* every size of request head the buffer can hold without being full
SomeRequests == 0 .. Cap - 1
=============================================================================
