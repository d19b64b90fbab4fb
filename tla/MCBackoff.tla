------------------------------ MODULE MCBackoff ------------------------------
(* Values of the constants of Backoff for model checking. *)
EXTENDS Backoff

Attempts == -1 .. 11
=============================================================================
