------------------------------ MODULE MCRewind ------------------------------
(* States of a few bits, each saved state with one of them set. *)
EXTENDS Rewind

MCImages == {{b} : b \in Bits}
=============================================================================
