------------------------------ MODULE MCBuffer ------------------------------
(* A small ring for TLC: two bytes, each the stop byte of one peek. *)
EXTENDS Buffer

CONSTANTS nl, nul

MCByte == {nl, nul}
=============================================================================
