------------------------------- MODULE Backoff -------------------------------
(***************************************************************************)
(* ComputeBackoffDelayMs: the delay doubles with every attempt up to a     *)
(* maximum, one iteration of the loop a step, and is then spread by a      *)
(* uniform jitter.  The random numbers are a choice.                       *)
(***************************************************************************)
EXTENDS Integers

CONSTANTS
    BaseDelay,      \* kBaseDelayMs
    MaxDelay,       \* kMaxDelayMs
    MinJitter,      \* the least jitter_span, 100
    AttemptCount    \* arguments it is called with

ASSUME BackoffAssumption ==
    /\ BaseDelay \in Nat /\ MaxDelay \in Nat /\ MinJitter \in Nat
    /\ BaseDelay <= MaxDelay
    /\ 4 * MinJitter <= MaxDelay
    /\ AttemptCount \subseteq Int

VARIABLES
    attempt,        \* clamped_attempt
    i,              \* the loop counter
    delay,
    result,         \* what is returned, 0 before
    pc              \* "loop" or "done"

vars == <<attempt, i, delay, result, pc>>

Least(a, b)    == IF a <= b THEN a ELSE b
Greatest(a, b) == IF a >= b THEN a ELSE b

\* Mutant: no max(1, ...).
InitUnclamped ==
    /\ attempt \in AttemptCount
    /\ i = 1
    /\ delay = BaseDelay
    /\ result = 0
    /\ pc = "loop"
Init ==
    /\ \E n \in AttemptCount : attempt = Greatest(1, n)
    /\ i = 1
    /\ delay = BaseDelay
    /\ result = 0
    /\ pc = "loop"

\* Mutant: <= for <.
DoubleOnceMore ==
    /\ pc = "loop"
    /\ i <= attempt
    /\ delay' = Least(MaxDelay, delay * 2)
    /\ i' = i + 1
    /\ UNCHANGED <<attempt, result, pc>>
Double ==
    /\ pc = "loop"
    /\ i < attempt
    /\ delay' = Least(MaxDelay, delay * 2)
    /\ i' = i + 1
    /\ UNCHANGED <<attempt, result, pc>>

\* Mutant: half for a quarter.
HalfJitter == Greatest(MinJitter, delay \div 2)
JitterSpan == Greatest(MinJitter, delay \div 4)

Jitter ==
    /\ pc = "loop"
    /\ i >= attempt
    /\ \E jitter \in -JitterSpan .. JitterSpan :
          result' = Greatest(BaseDelay, delay + jitter)
    /\ pc' = "done"
    /\ UNCHANGED <<attempt, i, delay>>

Next == Double \/ Jitter

Spec == Init /\ [][Next]_vars

-----------------------------------------------------------------------------
(* The variables keep their types, and the counter is within the loop's range. *)
TypeOK ==
    /\ attempt \in Nat \ {0}
    /\ i \in 1 .. attempt
    /\ delay \in Nat
    /\ result \in Nat
    /\ pc \in {"loop", "done"}

PowerOf2[n \in Nat] == IF n = 0 THEN 1 ELSE 2 * PowerOf2[n - 1]

(* The unjittered delay of an attempt. *)
Doubled(n) == Least(MaxDelay, BaseDelay * PowerOf2[n - 1])

(* The loop computes that closed form: capping in every iteration is the same *)
(* as capping once, and a count below 1 counts as 1.                          *)
DoublesUpToMax == pc = "done" => delay = Doubled(attempt)

(* A retry waits at least the base delay.  It may wait longer than MaxDelay,  *)
(* the jitter being added behind the cap, but by no more than a quarter.      *)
ResultBounded == pc = "done" => result \in BaseDelay .. MaxDelay + (MaxDelay \div 4)
=============================================================================
