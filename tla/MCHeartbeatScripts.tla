------------------------- MODULE MCHeartbeatScripts -------------------------
(* Values of the constants of HeartbeatScripts for model checking. *)
EXTENDS HeartbeatScripts, TLC

CONSTANTS s1, s2, c1, c2, p1, p2, p3

ScriptSymmetry == Permutations(Script) \cup Permutations(Config) \cup Permutations(Pid)
=============================================================================
