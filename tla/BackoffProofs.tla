---------------------------- MODULE BackoffProofs ----------------------------
(***************************************************************************)
(* ComputeBackoffDelayMs returns a delay between the base delay and 5/4 of *)
(* the maximum, and its loop computes the capped power of two, whatever    *)
(* the constants and the attempt count.                                    *)
(***************************************************************************)
EXTENDS Backoff, WellFoundedInduction, TLAPS

-----------------------------------------------------------------------------
(* Powers of two.  A recursive function is a CHOOSE, and its equation holds   *)
(* once some function satisfies it: one that is put together from its         *)
(* restrictions to 0 .. m.                                                    *)

LEMMA LeastNatural ==
  ASSUME NEW T \in SUBSET Nat, NEW n \in T
  PROVE  \E x \in T : \A y \in T : x <= y
<1>1. T \subseteq Nat /\ T # {}
    OBVIOUS
<1>2. \E x \in T : \A y \in T : ~(<<y, x>> \in OpToRel(<, Nat))
    BY <1>1, NatLessThanWellFounded, WFMin, Zenon
<1>3. \A x, y \in Nat : <<y, x>> \in OpToRel(<, Nat) <=> y < x
    BY DEF OpToRel
<1>4. \E x \in T : \A y \in T : ~(y < x)
    BY <1>1, <1>2, <1>3, Zenon
<1> QED
    BY <1>1, <1>4

IsPower(m, g) == g[0] = 1 /\ \A k \in 1 .. m : g[k] = 2 * g[k - 1]

Power(m) == CHOOSE g \in [0 .. m -> Nat] : IsPower(m, g)

LEMMA SomePower == \A m \in Nat : \E g \in [0 .. m -> Nat] : IsPower(m, g)
<1> DEFINE Missing == {m \in Nat : ~\E g \in [0 .. m -> Nat] : IsPower(m, g)}
<1> SUFFICES ASSUME NEW n \in Missing
             PROVE  FALSE
    OBVIOUS
<1>1. PICK m \in Missing : \A k \in Missing : m <= k
    BY LeastNatural
<1>2. CASE m = 0
    <2>1. IsPower(0, [k \in 0 .. 0 |-> 1])
        BY DEF IsPower
    <2> QED
        BY <1>2, <2>1
<1>3. CASE m # 0
    <2>1. m \in Nat /\ m - 1 \in Nat /\ ~(m <= m - 1)
        BY <1>3
    <2>2. m - 1 \notin Missing
        BY <1>1, <2>1, Zenon
    <2>3. PICK g \in [0 .. m - 1 -> Nat] : IsPower(m - 1, g)
        BY <2>1, <2>2
    <2> DEFINE h == [k \in 0 .. m |-> IF k = m THEN 2 * g[m - 1] ELSE g[k]]
    <2>4. h \in [0 .. m -> Nat]
        BY <2>1, <2>3
    <2>5. IsPower(m, h)
        BY <1>3, <2>1, <2>3 DEF IsPower
    <2> QED
        BY <2>4, <2>5
<1> QED
    BY <1>2, <1>3

LEMMA OnePower ==
  ASSUME NEW m \in Nat, NEW n \in Nat,
         NEW g \in [0 .. m -> Nat], NEW h \in [0 .. n -> Nat],
         IsPower(m, g), IsPower(n, h)
  PROVE  \A k \in Nat : k <= m /\ k <= n => g[k] = h[k]
<1> DEFINE Differ == {k \in Nat : k <= m /\ k <= n /\ g[k] # h[k]}
<1> SUFFICES ASSUME NEW d \in Differ
             PROVE  FALSE
    OBVIOUS
<1>1. PICK k \in Differ : \A j \in Differ : k <= j
    BY LeastNatural
<1>2. CASE k = 0
    BY <1>2 DEF IsPower
<1>3. CASE k # 0
    <2>1. k \in 1 .. m /\ k \in 1 .. n /\ k - 1 \in Nat /\ k - 1 \notin Differ
        BY <1>1, <1>3
    <2>2. g[k - 1] = h[k - 1]
        BY <2>1
    <2> QED
        BY <2>1, <2>2 DEF IsPower
<1> QED
    BY <1>2, <1>3

LEMMA PowerEquation ==
  /\ PowerOf2 = [n \in Nat |-> IF n = 0 THEN 1 ELSE 2 * PowerOf2[n - 1]]
  /\ PowerOf2 \in [Nat -> Nat]
<1> DEFINE f == [n \in Nat |-> Power(n)[n]]
<1>1. \A n \in Nat : Power(n) \in [0 .. n -> Nat] /\ IsPower(n, Power(n))
    BY SomePower DEF Power
<1>2. f \in [Nat -> Nat]
    BY <1>1
<1>3. ASSUME NEW n \in Nat
      PROVE  f[n] = IF n = 0 THEN 1 ELSE 2 * f[n - 1]
    <2>1. CASE n = 0
        BY <1>1, <2>1 DEF IsPower
    <2>2. CASE n # 0
        <3>1. n - 1 \in Nat /\ n \in 1 .. n
            BY <2>2
        <3>2. Power(n)[n - 1] = Power(n - 1)[n - 1]
            <4>1. n - 1 <= n /\ n - 1 <= n - 1
                BY <3>1
            <4>2. /\ Power(n) \in [0 .. n -> Nat] /\ IsPower(n, Power(n))
                  /\ Power(n - 1) \in [0 .. n - 1 -> Nat] /\ IsPower(n - 1, Power(n - 1))
                BY <1>1, <3>1
            <4> QED
                BY <3>1, <4>1, <4>2, OnePower, Zenon
        <3>3. Power(n)[n] = 2 * Power(n)[n - 1]
            BY <1>1, <3>1 DEF IsPower
        <3> QED
            BY <2>2, <3>1, <3>2, <3>3
    <2> QED
        BY <2>1, <2>2
<1>4. f = [n \in Nat |-> IF n = 0 THEN 1 ELSE 2 * f[n - 1]]
    BY <1>3
<1> HIDE DEF f
<1>5. PowerOf2 = [n \in Nat |-> IF n = 0 THEN 1 ELSE 2 * PowerOf2[n - 1]]
    BY <1>4 DEF PowerOf2
<1>6. PowerOf2 \in [Nat -> Nat]
    <2> DEFINE Untyped == {n \in Nat : PowerOf2[n] \notin Nat}
    <2> SUFFICES ASSUME NEW d \in Untyped
                 PROVE  FALSE
        BY <1>5
    <2>1. PICK n \in Untyped : \A k \in Untyped : n <= k
        BY LeastNatural
    <2>2. n \in Nat /\ n # 0 => n - 1 \in Nat /\ ~(n <= n - 1)
        OBVIOUS
    <2>3. n \in Nat /\ n # 0 /\ PowerOf2[n] = 2 * PowerOf2[n - 1]
        BY <1>5
    <2>4. PowerOf2[n - 1] \in Nat
        BY <2>1, <2>2, <2>3, Zenon
    <2> QED
        BY <2>3, <2>4
<1> QED
    BY <1>5, <1>6

-----------------------------------------------------------------------------
(* The inductive invariant. *)

(* The loop keeps the delay between the base delay and the maximum, at the    *)
(* power of two that belongs to its counter; behind it the counter is there.  *)
DelayInRange == delay \in BaseDelay .. MaxDelay

AtCounter == delay = Doubled(i) /\ (pc = "done" => i = attempt)

IInv == TypeOK /\ DelayInRange /\ AtCounter /\ ResultBounded

(* Doubling and capping a capped delay is capping the doubled one. *)
LEMMA DoubledOnce ==
  ASSUME NEW n \in Nat \ {0}
  PROVE  Doubled(n + 1) = Least(MaxDelay, Doubled(n) * 2)
<1> DEFINE p == PowerOf2[n - 1]
           x == BaseDelay * p
<1>1. n - 1 \in Nat /\ n \in Nat /\ n # 0 /\ (n + 1) - 1 = n
    OBVIOUS
<1>2. p \in Nat /\ PowerOf2[n] = 2 * p
    BY <1>1, PowerEquation, Zenon
<1>3. BaseDelay \in Nat /\ MaxDelay \in Nat
    BY BackoffAssumption
<1>4. BaseDelay * PowerOf2[n] = 2 * x /\ x \in Nat
    <2> HIDE DEF p
    <2> QED
        BY <1>2, <1>3, SMT
<1>5. Doubled(n) = Least(MaxDelay, x) /\ Doubled(n + 1) = Least(MaxDelay, 2 * x)
    BY <1>1, <1>4 DEF Doubled
<1> HIDE DEF x
<1> QED
    BY <1>3, <1>4, <1>5, SMT DEF Least

LEMMA InitIInv == Init => IInv
<1> SUFFICES ASSUME Init
             PROVE  IInv
    OBVIOUS
<1>1. TypeOK /\ DelayInRange /\ ResultBounded
    BY BackoffAssumption, SMT
    DEF Init, TypeOK, DelayInRange, ResultBounded, Greatest
<1>2. PowerOf2[1 - 1] = 1
    BY PowerEquation
<1>3. AtCounter
    BY <1>2, BackoffAssumption, SMT DEF Init, AtCounter, Doubled, Least
<1> QED
    BY <1>1, <1>3 DEF IInv

LEMMA NextIInv == IInv /\ [Next]_vars => IInv'
<1> SUFFICES ASSUME IInv, [Next]_vars
             PROVE  IInv'
    OBVIOUS
<1> USE BackoffAssumption
<1>1. CASE Double
    <2>1. TypeOK' /\ DelayInRange' /\ ResultBounded'
        BY <1>1, SMT DEF IInv, TypeOK, DelayInRange, ResultBounded, Double, Least
    <2>2. /\ i \in Nat \ {0} /\ i' = i + 1 /\ pc' = "loop"
          /\ delay = Doubled(i) /\ delay' = Least(MaxDelay, delay * 2)
        BY <1>1 DEF IInv, TypeOK, AtCounter, Double
    <2>3. AtCounter'
        BY <2>2, DoubledOnce DEF AtCounter, Doubled
    <2> QED
        BY <2>1, <2>3 DEF IInv
<1>2. CASE Jitter
    <2>1. PICK jitter \in -JitterSpan .. JitterSpan : result' = Greatest(BaseDelay, delay + jitter)
        BY <1>2 DEF Jitter
    <2>2. JitterSpan \in Nat /\ 4 * JitterSpan <= MaxDelay
        BY SMT DEF IInv, TypeOK, DelayInRange, JitterSpan, Greatest
    <2>3. delay + JitterSpan <= MaxDelay + (MaxDelay \div 4)
        BY <2>2, SMT DEF IInv, TypeOK, DelayInRange
    <2>4. TypeOK' /\ DelayInRange' /\ ResultBounded'
        BY <1>2, <2>1, <2>2, <2>3, SMT
        DEF IInv, TypeOK, DelayInRange, ResultBounded, Jitter, Greatest
    <2>5. AtCounter'
        BY <1>2 DEF IInv, TypeOK, AtCounter, Doubled, Jitter
    <2> QED
        BY <2>4, <2>5 DEF IInv
<1>3. CASE UNCHANGED vars
    BY <1>3 DEF IInv, TypeOK, DelayInRange, AtCounter, Doubled, ResultBounded, vars
<1> QED
    BY <1>1, <1>2, <1>3 DEF Next

(* Every delay that is returned is within its bounds. *)
THEOREM BoundedResult == Spec => []ResultBounded
<1>1. IInv => ResultBounded
    BY DEF IInv
<1> QED
    BY InitIInv, NextIInv, <1>1, PTL DEF Spec

(* The counter stays within the loop's range, and the variables keep their    *)
(* types.                                                                     *)
THEOREM TypeCorrect == Spec => []TypeOK
<1>1. IInv => TypeOK
    BY DEF IInv
<1> QED
    BY InitIInv, NextIInv, <1>1, PTL DEF Spec

(* The loop computes the closed form, for every attempt count. *)
THEOREM ComputesDoubled == Spec => []DoublesUpToMax
<1>1. IInv => DoublesUpToMax
    BY DEF IInv, AtCounter, DoublesUpToMax
<1> QED
    BY InitIInv, NextIInv, <1>1, PTL DEF Spec
=============================================================================
