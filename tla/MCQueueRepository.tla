-------------------------- MODULE MCQueueRepository --------------------------
(* Values of the constants of QueueRepository and its refinement for model checking. *)
EXTENDS QueueRefinement, TLC

CONSTANTS t1, t2, p1, p2, b1, b2, b3

OneThread    == t1 :> p1
OneProcess   == t1 :> p1 @@ t2 :> p1
TwoProcesses == t1 :> p1 @@ t2 :> p2

OneEach      == {[maxEvents |-> 1, maxBytes |-> 100], [maxEvents |-> 2, maxBytes |-> 100]}
TwoEvents    == {[maxEvents |-> 2, maxBytes |-> 100]}
OneEvent     == {[maxEvents |-> 1, maxBytes |-> 100]}

(* Base delay 1, doubled once, then at its maximum; jitter of 1. *)
ShortDelays == <<{1}, {1, 2}>>
OneDelay    == <<{1}>>

BatchSymmetry  == Permutations(Batch)
ThreadSymmetry == Permutations(Batch) \cup Permutations(Thread)
=============================================================================
