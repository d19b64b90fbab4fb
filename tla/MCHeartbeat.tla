----------------------------- MODULE MCHeartbeat -----------------------------
(* Values of the constants of Heartbeat for model checking. *)
EXTENDS Heartbeat

CONSTANTS c1, c2, l1, l2, l3, thisInstall, otherInstall
=============================================================================
