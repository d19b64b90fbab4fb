------------------------- MODULE BatchSelectionProofs -------------------------
(***************************************************************************)
(* What the loops of CreateUploadBatch take, for any rows and any limits:  *)
(* the rows claimed are those in the payload, they are within both limits, *)
(* no row overtakes an earlier one that could be sent, and where every     *)
(* payload parses they are those of the closed form in BatchClaim.         *)
(***************************************************************************)
EXTENDS BatchSelection, FiniteSetTheorems, WellFoundedInduction, TLAPS

-----------------------------------------------------------------------------
(* The inductive invariant. *)

Types ==
    /\ rows \in Seq(Eligible)
    /\ maxEvents \in Nat /\ maxBytes \in Nat
    /\ cursor \in 0 .. Len(rows)
    /\ pc \in {"fill", "trim", "claim", "empty"}

(* The rows taken are in the order of the rows and before the cursor. *)
InOrder ==
    /\ ids \in Seq(1 .. cursor)
    /\ Len(ids) <= maxEvents
    /\ \A j, k \in 1 .. Len(ids) : j < k => ids[j] < ids[k]

(* A row is passed over only because it cannot be sent. *)
CannotBeSent(i) == rows[i].size > maxBytes \/ ~rows[i].parses

PassedOver ==
    /\ pc = "fill" => \A i \in 1 .. cursor : i \in ToSet(ids) \/ CannotBeSent(i)
    /\ ids # <<>> => \A i \in 1 .. ids[Len(ids)] : i \in ToSet(ids) \/ CannotBeSent(i)

SelectionInv ==
    /\ Types
    /\ InOrder
    /\ PassedOver
    /\ ClaimedIsSent
    /\ WithinLimits

LEMMA InitSelection == Init => SelectionInv
<1> SUFFICES ASSUME Init
             PROVE  SelectionInv
    OBVIOUS
<1>1. rows \in Seq(Eligible)
    BY SelectionAssumption DEF Init
<1>2. Types
    BY <1>1, SelectionAssumption DEF Init, Types
<1>3. InOrder /\ PassedOver
    BY <1>2 DEF Init, Types, InOrder, PassedOver
<1> QED
    BY <1>2, <1>3 DEF Init, SelectionInv, ClaimedIsSent, WithinLimits

(* Taking a row. *)
LEMMA AppendFacts ==
  ASSUME NEW n \in Nat, NEW s \in Seq(1 .. n)
  PROVE  /\ Append(s, n + 1) \in Seq(1 .. n + 1)
         /\ Len(Append(s, n + 1)) = Len(s) + 1
         /\ Append(s, n + 1)[Len(s) + 1] = n + 1
         /\ \A j \in 1 .. Len(s) : Append(s, n + 1)[j] = s[j]
         /\ ToSet(Append(s, n + 1)) = ToSet(s) \cup {n + 1}
  BY DEF ToSet

(* Trimming one. *)
LEMMA FrontFacts ==
  ASSUME NEW S, NEW s \in Seq(S), s # <<>>
  PROVE  /\ Front(s) \in Seq(S)
         /\ Len(Front(s)) = Len(s) - 1
         /\ \A j \in 1 .. Len(s) - 1 : Front(s)[j] = s[j]
         /\ \A x \in ToSet(s) : x = s[Len(s)] \/ x \in ToSet(Front(s))
<1>1. Len(s) \in Nat \ {0} /\ DOMAIN s = 1 .. Len(s)
    OBVIOUS
<1>2. /\ Front(s) \in Seq(S)
      /\ Len(Front(s)) = Len(s) - 1
      /\ \A j \in 1 .. Len(s) - 1 : Front(s)[j] = s[j]
    BY <1>1, SMT DEF Front
<1>3. ASSUME NEW x \in ToSet(s)
      PROVE  x = s[Len(s)] \/ x \in ToSet(Front(s))
    <2>1. PICK j \in 1 .. Len(s) : s[j] = x
        BY <1>1 DEF ToSet
    <2>2. CASE j = Len(s)
        BY <2>1, <2>2
    <2>3. CASE j \in 1 .. Len(s) - 1
        <3>1. j \in DOMAIN Front(s) /\ Front(s)[j] = x
            BY <1>1, <1>2, <2>1, <2>3
        <3> QED
            BY <3>1 DEF ToSet
    <2>4. j = Len(s) \/ j \in 1 .. Len(s) - 1
        <3>1. \A n \in Nat : \A k \in 1 .. n : k = n \/ k \in 1 .. n - 1
            OBVIOUS
        <3> QED
            BY <1>1, <2>1, <3>1, Zenon
    <2> QED
        BY <2>2, <2>3, <2>4
<1> QED
    BY <1>2, <1>3

LEMMA NextSelection == SelectionInv /\ [Next]_vars => SelectionInv'
<1> SUFFICES ASSUME SelectionInv, [Next]_vars
             PROVE  SelectionInv'
    OBVIOUS
<1>0. /\ rows \in Seq(Eligible) /\ maxEvents \in Nat /\ maxBytes \in Nat /\ cursor \in 0 .. Len(rows)
      /\ ids \in Seq(1 .. cursor) /\ Len(ids) \in Nat
    BY DEF SelectionInv, Types, InOrder
<1>1. CASE SkipOversized
    <2>1. /\ cursor' = cursor + 1 /\ cursor < Len(rows) /\ ids = <<>>
          /\ rows[cursor + 1].size > maxBytes /\ pc = "fill"
          /\ UNCHANGED <<rows, maxEvents, maxBytes, ids, eventArray, pc>>
        BY <1>1 DEF SkipOversized, Skip, HasCandidate, Candidate
    <2>2. Types'
        BY <1>0, <2>1 DEF Types
    <2>3. InOrder'
        BY <1>0, <2>1 DEF InOrder
    <2>4. PassedOver'
        BY <1>0, <2>1 DEF SelectionInv, PassedOver, CannotBeSent
    <2> QED
        BY <2>1, <2>2, <2>3, <2>4 DEF SelectionInv, ClaimedIsSent, WithinLimits
<1>2. CASE Take
    <2>1. /\ cursor' = cursor + 1 /\ cursor < Len(rows) /\ Len(ids) < maxEvents /\ pc = "fill"
          /\ UNCHANGED <<rows, maxEvents, maxBytes, pc>>
        BY <1>2 DEF Take, HasCandidate
    <2>2. Types'
        BY <1>0, <2>1 DEF Types, SelectionInv
    <2>3. CASE Candidate.parses
        <3>1. ids' = Append(ids, cursor + 1) /\ eventArray' = Append(eventArray, cursor + 1)
            BY <1>2, <2>3 DEF Take
        <3>2. cursor \in Nat
            BY <1>0
        <3>3. /\ ids' \in Seq(1 .. cursor')
              /\ Len(ids') = Len(ids) + 1
              /\ ids'[Len(ids) + 1] = cursor + 1
              /\ \A j \in 1 .. Len(ids) : ids'[j] = ids[j]
              /\ ToSet(ids') = ToSet(ids) \cup {cursor + 1}
            BY <1>0, <2>1, <3>2, <3>1, AppendFacts
        <3>4. \A j \in 1 .. Len(ids) : ids[j] \in 1 .. cursor
            BY <1>0
        <3>5. ASSUME NEW j \in 1 .. Len(ids'), NEW k \in 1 .. Len(ids'), j < k
              PROVE  ids'[j] < ids'[k]
            <4>1. j \in 1 .. Len(ids) /\ ids'[j] = ids[j] /\ ids[j] \in 1 .. cursor
                BY <1>0, <3>3, <3>4, <3>5
            <4>2. CASE k = Len(ids) + 1
                BY <3>2, <3>3, <4>1, <4>2
            <4>3. CASE k \in 1 .. Len(ids)
                BY <3>3, <3>5, <4>1, <4>3 DEF SelectionInv, InOrder
            <4>4. k = Len(ids) + 1 \/ k \in 1 .. Len(ids)
                BY <1>0, <3>3
            <4> QED
                BY <4>2, <4>3, <4>4
        <3>6. InOrder'
            BY <1>0, <2>1, <3>3, <3>5 DEF InOrder
        <3>7. ids' # <<>> /\ ids'[Len(ids')] = cursor + 1 /\ ToSet(ids') = ToSet(ids) \cup {cursor + 1}
            <4>1. ids' # <<>>
                BY <1>0, <3>1
            <4> QED
                BY <3>3, <4>1
        <3>8. PassedOver'
            BY <1>0, <2>1, <3>7 DEF SelectionInv, PassedOver, CannotBeSent
        <3> QED
            BY <2>1, <2>2, <3>1, <3>6, <3>8 DEF SelectionInv, ClaimedIsSent, WithinLimits
    <2>4. CASE ~Candidate.parses
        <3>1. UNCHANGED <<ids, eventArray>> /\ ~rows[cursor + 1].parses
            BY <1>2, <2>4 DEF Take, Candidate
        <3>2. InOrder'
            BY <1>0, <2>1, <3>1 DEF SelectionInv, InOrder
        <3>3. PassedOver'
            BY <1>0, <2>1, <3>1 DEF SelectionInv, PassedOver, CannotBeSent
        <3> QED
            BY <2>1, <2>2, <3>1, <3>2, <3>3 DEF SelectionInv, ClaimedIsSent, WithinLimits
    <2> QED
        BY <2>3, <2>4
<1>3. CASE EndFill \/ EndTrim
    <2>1. /\ UNCHANGED <<rows, maxEvents, maxBytes, cursor, ids, eventArray>>
          /\ pc' \in {"trim", "claim", "empty"}
          /\ pc' = "claim" => ids # <<>> /\ PayloadBytes <= maxBytes
        BY <1>3 DEF EndFill, EndTrim
    <2>2. WithinLimits'
        BY <1>0, <2>1 DEF SelectionInv, InOrder, WithinLimits, PayloadBytes, SizeOf, ClaimedIsSent
    <2> QED
        BY <2>1, <2>2 DEF SelectionInv, Types, InOrder, PassedOver, CannotBeSent, ClaimedIsSent
<1>4. CASE Trim
    <2>1. /\ UNCHANGED <<rows, maxEvents, maxBytes, cursor, pc>> /\ pc = "trim" /\ ids # <<>>
          /\ ids' = Front(ids) /\ eventArray' = Front(eventArray)
        BY <1>4 DEF Trim
    <2>2. /\ ids' \in Seq(1 .. cursor) /\ Len(ids') = Len(ids) - 1
          /\ \A j \in 1 .. Len(ids) - 1 : ids'[j] = ids[j]
          /\ \A x \in ToSet(ids) : x = ids[Len(ids)] \/ x \in ToSet(ids')
        BY <1>0, <2>1, FrontFacts
    <2>3. InOrder'
        BY <1>0, <2>1, <2>2 DEF SelectionInv, InOrder
    <2>4. ASSUME ids' # <<>>, NEW i \in 1 .. ids'[Len(ids')]
          PROVE  i \in ToSet(ids') \/ CannotBeSent(i)
        <3>1. /\ Len(ids') \in 1 .. Len(ids) - 1 /\ ids'[Len(ids')] = ids[Len(ids')]
              /\ ids[Len(ids')] < ids[Len(ids)]
              /\ ids[Len(ids)] \in Nat /\ ids[Len(ids')] \in Nat
            BY <1>0, <2>1, <2>2, <2>4 DEF SelectionInv, InOrder
        <3>2. i \in 1 .. ids[Len(ids)] /\ i # ids[Len(ids)]
            BY <3>1
        <3> QED
            BY <2>1, <2>2, <3>2 DEF SelectionInv, PassedOver
    <2>5. PassedOver'
        BY <2>1, <2>4 DEF PassedOver, CannotBeSent
    <2> QED
        BY <2>1, <2>3, <2>5 DEF SelectionInv, Types, ClaimedIsSent, WithinLimits
<1>5. CASE UNCHANGED vars
    BY <1>5 DEF vars, SelectionInv, Types, InOrder, PassedOver, CannotBeSent, ClaimedIsSent,
                WithinLimits, SizeOf
<1> QED
    BY <1>1, <1>2, <1>3, <1>4, <1>5 DEF Next

-----------------------------------------------------------------------------
(* The size of a payload.  TotalSize adds in an order that is left to CHOOSE; *)
(* it is the sum in the order of the rows, which any row can be taken out of. *)

LEMMA LeastNatural ==
  ASSUME NEW T \in SUBSET Nat, NEW n \in T
  PROVE  \E x \in T : \A y \in T : x <= y
<1>1. T \subseteq Nat /\ T # {}
    OBVIOUS
<1>2. \E x \in T : \A y \in T : ~(<<y, x>> \in OpToRel(<, Nat))
    BY <1>1, NatLessThanWellFounded, WFMin, Zenon
<1>3. \A x, y \in Nat : <<y, x>> \in OpToRel(<, Nat) <=> y < x
    BY DEF OpToRel
<1>4. \E x \in T : \A y \in T : ~(y < x)
    BY <1>1, <1>2, <1>3, Zenon
<1> QED
    BY <1>1, <1>4

(* f[i] is the sum over the members of S up to i. *)
Adds(n, size, S, f) ==
    /\ f[0] = 0
    /\ \A i \in 1 .. n : f[i] = f[i - 1] + (IF i \in S THEN size[i] ELSE 0)

Sums(n, size, S) == CHOOSE f \in [0 .. n -> Nat] : Adds(n, size, S, f)

LEMMA SomeSums ==
  ASSUME NEW n \in Nat, NEW size, \A i \in 1 .. n : size[i] \in Nat, NEW S
  PROVE  Sums(n, size, S) \in [0 .. n -> Nat] /\ Adds(n, size, S, Sums(n, size, S))
<1> DEFINE Missing == {m \in Nat : m <= n /\ ~\E f \in [0 .. m -> Nat] : Adds(m, size, S, f)}
<1>1. Missing = {}
    <2> SUFFICES ASSUME NEW k \in Missing
                 PROVE  FALSE
        OBVIOUS
    <2>1. PICK m \in Missing : \A j \in Missing : m <= j
        BY LeastNatural
    <2>2. CASE m = 0
        <3>1. Adds(0, size, S, [j \in 0 .. 0 |-> 0])
            BY DEF Adds
        <3> QED
            BY <2>2, <3>1
    <2>3. CASE m # 0
        <3>1. m \in Nat /\ m - 1 \in Nat /\ m - 1 <= n /\ ~(m <= m - 1) /\ m \in 1 .. n
            BY <2>3
        <3>2. PICK f \in [0 .. m - 1 -> Nat] : Adds(m - 1, size, S, f)
            BY <2>1, <3>1
        <3> DEFINE x == f[m - 1] + (IF m \in S THEN size[m] ELSE 0)
                   g == [j \in 0 .. m |-> IF j = m THEN x ELSE f[j]]
        <3>3. x \in Nat
            BY <3>1, <3>2
        <3> HIDE DEF x
        <3>4. g \in [0 .. m -> Nat]
            BY <3>1, <3>2, <3>3
        <3>5. Adds(m, size, S, g)
            <4>1. g[0] = 0
                BY <3>1, <3>2 DEF Adds
            <4>2. ASSUME NEW j \in 1 .. m
                  PROVE  g[j] = g[j - 1] + (IF j \in S THEN size[j] ELSE 0)
                <5>1. CASE j = m
                    BY <3>1, <5>1 DEF x
                <5>2. CASE j # m
                    <6>1. j \in 1 .. m - 1
                        BY <3>1, <5>2
                    <6>2. g[j] = f[j] /\ g[j - 1] = f[j - 1]
                        BY <3>1, <6>1
                    <6> QED
                        BY <3>2, <6>1, <6>2 DEF Adds
                <5> QED
                    BY <5>1, <5>2
            <4> HIDE DEF g
            <4> QED
                BY <4>1, <4>2 DEF Adds
        <3> QED
            BY <3>4, <3>5
    <2> QED
        BY <2>2, <2>3
<1>2. \E f \in [0 .. n -> Nat] : Adds(n, size, S, f)
    BY <1>1
<1> QED
    BY <1>2 DEF Sums

(* A row less is its size less, from the row on. *)
LEMMA SumsWithout ==
  ASSUME NEW n \in Nat, NEW size, \A i \in 1 .. n : size[i] \in Nat, NEW S, NEW x \in S, x \in 1 .. n
  PROVE  Sums(n, size, S)[n] = size[x] + Sums(n, size, S \ {x})[n]
<1> DEFINE f == Sums(n, size, S)
           g == Sums(n, size, S \ {x})
           Right(m) == f[m] = g[m] + (IF x <= m THEN size[x] ELSE 0)
           Wrong == {m \in Nat : m <= n /\ ~Right(m)}
<1>1. /\ f \in [0 .. n -> Nat] /\ Adds(n, size, S, f)
      /\ g \in [0 .. n -> Nat] /\ Adds(n, size, S \ {x}, g)
    BY SomeSums
<1> HIDE DEF f, g
<1>2. Right(0)
    BY <1>1 DEF Adds
<1>3. ASSUME NEW m \in 1 .. n, Right(m - 1)
      PROVE  Right(m)
    <2>1. /\ f[m] = f[m - 1] + (IF m \in S THEN size[m] ELSE 0)
          /\ g[m] = g[m - 1] + (IF m \in S \ {x} THEN size[m] ELSE 0)
        BY <1>1 DEF Adds
    <2>2. f[m - 1] \in Nat /\ g[m - 1] \in Nat /\ size[m] \in Nat /\ size[x] \in Nat /\ m \in Nat
        BY <1>1
    <2>3. CASE m = x
        BY <1>3, <2>1, <2>2, <2>3
    <2>4. CASE m # x
        <3>1. m \in S <=> m \in S \ {x}
            BY <2>4
        <3>2. x <= m <=> x <= m - 1
            BY <2>2, <2>4
        <3> QED
            BY <1>3, <2>1, <2>2, <3>1, <3>2
    <2> QED
        BY <2>3, <2>4
<1> HIDE DEF Right
<1>4. Wrong = {}
    <2> SUFFICES ASSUME NEW k \in Wrong
                 PROVE  FALSE
        OBVIOUS
    <2>1. PICK m \in Wrong : \A j \in Wrong : m <= j
        BY LeastNatural
    <2>2. m \in Nat /\ m <= n /\ ~Right(m) /\ m # 0
        BY <1>2
    <2>3. m - 1 \in Nat /\ m - 1 <= n /\ ~(m <= m - 1) /\ m \in 1 .. n
        BY <2>2
    <2> QED
        BY <1>3, <2>1, <2>2, <2>3
<1>5. Right(n)
    BY <1>4
<1>6. f[n] \in Nat /\ g[n] \in Nat /\ size[x] \in Nat /\ x <= n
    BY <1>1
<1> QED
    BY <1>5, <1>6 DEF Right, f, g

LEMMA SumsOfNone ==
  ASSUME NEW n \in Nat, NEW size, \A i \in 1 .. n : size[i] \in Nat
  PROVE  Sums(n, size, {})[n] = 0
<1> DEFINE f == Sums(n, size, {})
           Wrong == {m \in Nat : m <= n /\ f[m] # 0}
<1>1. f \in [0 .. n -> Nat] /\ Adds(n, size, {}, f)
    BY SomeSums
<1> HIDE DEF f
<1>2. Wrong = {}
    <2> SUFFICES ASSUME NEW k \in Wrong
                 PROVE  FALSE
        OBVIOUS
    <2>1. PICK m \in Wrong : \A j \in Wrong : m <= j
        BY LeastNatural
    <2>2. m \in Nat /\ m <= n /\ f[m] # 0 /\ m # 0
        BY <1>1 DEF Adds
    <2>3. m - 1 \in Nat /\ m - 1 <= n /\ ~(m <= m - 1) /\ m \in 1 .. n
        BY <2>2
    <2>4. f[m] = f[m - 1] + 0 /\ f[m - 1] = 0
        BY <1>1, <2>1, <2>3 DEF Adds
    <2> QED
        BY <2>2, <2>4
<1> QED
    BY <1>2 DEF f

LEMMA TotalSizeIsSum ==
  ASSUME NEW n \in Nat, NEW size, \A i \in 1 .. n : size[i] \in Nat, NEW S \in SUBSET (1 .. n)
  PROVE  TotalSize(S, size) = Sums(n, size, S)[n]
<1> DEFINE Some(R) == CHOOSE x \in R : TRUE
           Loop1(g) == [R \in SUBSET S |-> IF R = {} THEN 0 ELSE size[Some(R)] + g[R \ {Some(R)}]]
           total == CHOOSE g : g = Loop1(g)
           sum == [R \in SUBSET S |-> Sums(n, size, R)[n]]
<1>1. TotalSize(S, size) = total[S]
    BY DEF TotalSize, MapThenSumSet, MapThenFoldSet
<1>2. ASSUME NEW R \in SUBSET S, R # {}
      PROVE  Some(R) \in R /\ Some(R) \in 1 .. n /\ R \ {Some(R)} \in SUBSET S
    BY <1>2
<1> HIDE DEF Some
<1>3. sum[{}] = 0
    BY SumsOfNone
<1>4. ASSUME NEW R \in SUBSET S, R # {}
      PROVE  sum[R] = size[Some(R)] + sum[R \ {Some(R)}]
    BY <1>2, <1>4, SumsWithout
<1>5. sum = Loop1(sum)
    <2> HIDE DEF sum
    <2>1. sum = [R \in SUBSET S |-> sum[R]]
        BY DEF sum
    <2> QED
        BY <1>3, <1>4, <2>1
<1> HIDE DEF sum
<1>6. total = Loop1(total)
    BY <1>5
<1> HIDE DEF total
<1>7. ASSUME NEW R \in SUBSET S
      PROVE  IsFiniteSet(R) /\ Cardinality(R) \in Nat
    <2>1. IsFiniteSet(1 .. n)
        BY FS_Interval
    <2> QED
        BY <2>1, FS_Subset, FS_CardinalityType
<1> DEFINE Wrong == {m \in Nat : \E R \in SUBSET S : Cardinality(R) = m /\ total[R] # sum[R]}
<1>8. total[S] = sum[S]
    <2> SUFFICES ASSUME total[S] # sum[S]
                 PROVE  FALSE
        OBVIOUS
    <2>1. Cardinality(S) \in Wrong
        BY <1>7
    <2>2. PICK m \in Wrong : \A k \in Wrong : m <= k
        BY <2>1, LeastNatural
    <2>3. PICK R \in SUBSET S : Cardinality(R) = m /\ total[R] # sum[R]
        OBVIOUS
    <2>4. R # {}
        BY <1>3, <1>6, <2>3
    <2> DEFINE Q == R \ {Some(R)}
    <2>5. Q \in SUBSET S /\ Cardinality(Q) = m - 1
        BY <1>2, <1>7, <2>3, <2>4, FS_RemoveElement
    <2>6. m - 1 \in Nat /\ ~(m <= m - 1)
        BY <1>7, <2>5
    <2>7. total[Q] = sum[Q]
        BY <2>2, <2>5, <2>6
    <2> QED
        BY <1>4, <1>6, <2>3, <2>4, <2>7
<1> QED
    BY <1>1, <1>8 DEF sum

(* What the proofs use of it. *)
LEMMA TotalSizeFacts ==
  ASSUME NEW n \in Nat, NEW size, \A i \in 1 .. n : size[i] \in Nat
  PROVE  /\ TotalSize({}, size) = 0
         /\ \A S \in SUBSET (1 .. n) : TotalSize(S, size) \in Nat
         /\ \A S \in SUBSET (1 .. n), x \in 1 .. n :
               x \notin S => TotalSize(S \cup {x}, size) = TotalSize(S, size) + size[x]
<1>1. TotalSize({}, size) = 0
    BY TotalSizeIsSum, SumsOfNone
<1>2. ASSUME NEW S \in SUBSET (1 .. n)
      PROVE  TotalSize(S, size) \in Nat
    <2>1. TotalSize(S, size) = Sums(n, size, S)[n]
        BY TotalSizeIsSum
    <2>2. Sums(n, size, S) \in [0 .. n -> Nat]
        BY SomeSums
    <2> QED
        BY <2>1, <2>2
<1>3. ASSUME NEW S \in SUBSET (1 .. n), NEW x \in 1 .. n, x \notin S
      PROVE  TotalSize(S \cup {x}, size) = TotalSize(S, size) + size[x]
    <2> DEFINE T == S \cup {x}
    <2>1. T \in SUBSET (1 .. n) /\ x \in T /\ T \ {x} = S
        BY <1>3
    <2> HIDE DEF T
    <2>2. /\ TotalSize(T, size) = Sums(n, size, T)[n]
          /\ TotalSize(S, size) = Sums(n, size, S)[n]
        BY <2>1, TotalSizeIsSum
    <2>3. Sums(n, size, T)[n] = size[x] + Sums(n, size, T \ {x})[n]
        BY <2>1, SumsWithout
    <2>4. TotalSize(T, size) = size[x] + TotalSize(S, size)
        BY <2>1, <2>2, <2>3
    <2> QED
        BY <1>2, <2>4 DEF T
<1> QED
    BY <1>1, <1>2, <1>3

(* More rows are no shorter payload. *)
LEMMA PayloadGrows ==
  ASSUME NEW n \in Nat, NEW size, \A i \in 1 .. n : size[i] \in Nat,
         NEW T \in SUBSET (1 .. n), NEW S \in SUBSET T
  PROVE  /\ TotalSize(S, size) <= TotalSize(T, size)
         /\ PayloadSize(S, size) <= PayloadSize(T, size)
         /\ Cardinality(S) <= Cardinality(T)
<1>1. ASSUME NEW R \in SUBSET (1 .. n)
      PROVE  IsFiniteSet(R) /\ Cardinality(R) \in Nat /\ TotalSize(R, size) \in Nat
    <2>1. IsFiniteSet(1 .. n)
        BY FS_Interval
    <2> QED
        BY <2>1, FS_Subset, FS_CardinalityType, TotalSizeFacts
<1>2. TotalSize(S, size) <= TotalSize(T, size)
    <2> DEFINE Less(R) == S \subseteq R /\ ~(TotalSize(S, size) <= TotalSize(R, size))
               Wrong == {m \in Nat : \E R \in SUBSET (1 .. n) : Cardinality(R) = m /\ Less(R)}
    <2> SUFFICES ASSUME Less(T)
                 PROVE  FALSE
        OBVIOUS
    <2>1. Cardinality(T) \in Wrong
        BY <1>1
    <2>2. PICK m \in Wrong : \A k \in Wrong : m <= k
        BY <2>1, LeastNatural
    <2>3. PICK R \in SUBSET (1 .. n) : Cardinality(R) = m /\ Less(R)
        OBVIOUS
    <2>4. TotalSize(S, size) \in Nat /\ TotalSize(R, size) \in Nat
        BY <1>1
    <2>5. PICK x \in R : x \notin S
        <3>1. S # R
            BY <2>3, <2>4
        <3> QED
            BY <2>3, <3>1
    <2> DEFINE Q == R \ {x}
    <2>6. Q \in SUBSET (1 .. n) /\ S \subseteq Q /\ x \notin Q /\ R = Q \cup {x} /\ x \in 1 .. n
        BY <2>3, <2>5
    <2>7. Cardinality(Q) = m - 1 /\ Cardinality(Q) \in Nat /\ ~(m <= m - 1)
        BY <1>1, <2>3, <2>5, <2>6, FS_RemoveElement
    <2> HIDE DEF Q
    <2>8. TotalSize(S, size) <= TotalSize(Q, size) /\ TotalSize(Q, size) \in Nat
        BY <1>1, <2>2, <2>6, <2>7
    <2>9. TotalSize(R, size) = TotalSize(Q, size) + size[x] /\ size[x] \in Nat
        BY <2>6, TotalSizeFacts
    <2> QED
        BY <2>3, <2>4, <2>8, <2>9
<1>3. S \in SUBSET (1 .. n) /\ Cardinality(S) <= Cardinality(T)
    BY <1>1, FS_Subset
<1>4. S # {} => Cardinality(S) # 0
    BY <1>1, <1>3, FS_EmptySet
<1>5. T # {} => Cardinality(T) # 0
    BY <1>1, FS_EmptySet
<1>6. PayloadSize(S, size) <= PayloadSize(T, size)
    BY <1>1, <1>2, <1>3, <1>4, <1>5, BatchOverheadAssumption DEF PayloadSize
<1> QED
    BY <1>2, <1>3, <1>6

-----------------------------------------------------------------------------
(* The closed form: the first loop has taken the candidates up to the cursor, *)
(* the second those up to some row behind which none is admissible.           *)

AllParse == \A i \in DOMAIN rows : rows[i].parses

CandidateRows == Candidates(DOMAIN rows, SizeOf, maxBytes)
UpTo(i)       == {j \in CandidateRows : j <= i}
Admissible(i) == Cardinality(UpTo(i)) <= maxEvents /\ PayloadSize(UpTo(i), SizeOf) <= maxBytes

TakenExactly(m) == ToSet(ids) = UpTo(m) /\ \A i \in CandidateRows : i > m => ~Admissible(i)

ExactInv ==
    AllParse =>
        /\ Cardinality(ToSet(ids)) = Len(ids)
        /\ pc = "fill" => ToSet(ids) = UpTo(cursor) /\ estimated = TotalSize(ToSet(ids), SizeOf)
        /\ pc # "fill" => \E m \in 0 .. Len(rows) : TakenExactly(m)
        /\ pc = "empty" => ids = <<>>

LEMMA CandidateFacts ==
  ASSUME Types
  PROVE  /\ Len(rows) \in Nat /\ DOMAIN rows = 1 .. Len(rows)
         /\ \A i \in 1 .. Len(rows) : SizeOf[i] = rows[i].size /\ SizeOf[i] \in Nat
         /\ CandidateRows \in SUBSET (1 .. Len(rows))
         /\ \A i \in 1 .. Len(rows) :
               i \in CandidateRows <=> \E f \in 1 .. Len(rows) : f <= i /\ rows[f].size <= maxBytes
<1>1. rows \in Seq(Eligible) /\ Len(rows) \in Nat /\ DOMAIN rows = 1 .. Len(rows)
    BY DEF Types
<1>2. \A i \in 1 .. Len(rows) : SizeOf[i] = rows[i].size /\ SizeOf[i] \in Nat
    <2>1. \A i \in 1 .. Len(rows) : rows[i] \in Eligible
        BY <1>1
    <2>2. \A e \in Eligible : e.size \in Nat
        BY SelectionAssumption DEF Eligible
    <2> QED
        BY <1>1, <2>1, <2>2 DEF SizeOf
<1> QED
    BY <1>1, <1>2 DEF CandidateRows, Candidates

LEMMA UpToFacts ==
  ASSUME Types, NEW i \in 0 .. Len(rows)
  PROVE  /\ UpTo(i) \in SUBSET (1 .. Len(rows)) /\ IsFiniteSet(UpTo(i))
         /\ Cardinality(UpTo(i)) \in Nat
         /\ \A j \in 0 .. Len(rows) : j <= i => UpTo(j) \subseteq UpTo(i)
<1>1. UpTo(i) \in SUBSET (1 .. Len(rows)) /\ Len(rows) \in Nat
    BY CandidateFacts DEF UpTo
<1>2. IsFiniteSet(UpTo(i)) /\ Cardinality(UpTo(i)) \in Nat
    <2>1. IsFiniteSet(1 .. Len(rows))
        BY <1>1, FS_Interval
    <2> QED
        BY <1>1, <2>1, FS_Subset, FS_CardinalityType
<1>3. ASSUME NEW j \in 0 .. Len(rows), j <= i
      PROVE  UpTo(j) \subseteq UpTo(i)
    <2>1. \A k \in CandidateRows : k \in Nat
        BY CandidateFacts
    <2> QED
        BY <1>3, <2>1 DEF UpTo
<1> QED
    BY <1>1, <1>2, <1>3

(* Nothing is admissible under a limit of zero. *)
LEMMA ZeroLimit ==
  ASSUME Types, maxEvents = 0 \/ maxBytes = 0, NEW i \in CandidateRows
  PROVE  ~Admissible(i)
<1>1. i \in 1 .. Len(rows) /\ i \in 0 .. Len(rows) /\ i \in UpTo(i)
    BY CandidateFacts DEF UpTo
<1>2. /\ UpTo(i) \in SUBSET (1 .. Len(rows)) /\ IsFiniteSet(UpTo(i))
      /\ Cardinality(UpTo(i)) \in Nat
    BY <1>1, UpToFacts
<1>3. Cardinality(UpTo(i)) # 0
    BY <1>1, <1>2, FS_EmptySet
<1>4. TotalSize(UpTo(i), SizeOf) \in Nat
    BY <1>2, CandidateFacts, TotalSizeFacts
<1>5. PayloadSize(UpTo(i), SizeOf) > 0
    BY <1>1, <1>2, <1>3, <1>4, BatchOverheadAssumption DEF PayloadSize
<1>6. PayloadSize(UpTo(i), SizeOf) \in Int
    BY <1>1, <1>2, <1>4, BatchOverheadAssumption DEF PayloadSize
<1> QED
    BY <1>2, <1>3, <1>5, <1>6 DEF Admissible

LEMMA InitExact == Init => ExactInv
<1> SUFFICES ASSUME Init
             PROVE  ExactInv
    OBVIOUS
<1>1. Types /\ ids = <<>> /\ cursor = 0 /\ estimated = 0
    BY InitSelection DEF Init, SelectionInv
<1>2. ToSet(ids) = {} /\ Len(ids) = 0
    BY <1>1 DEF ToSet
<1>3. UpTo(0) = {}
    BY <1>1, CandidateFacts DEF UpTo
<1>4. Cardinality({}) = 0 /\ TotalSize({}, SizeOf) = 0
    BY <1>1, FS_EmptySet, CandidateFacts, TotalSizeFacts
<1>5. CASE pc = "fill"
    BY <1>1, <1>2, <1>3, <1>4, <1>5 DEF ExactInv
<1>6. CASE pc # "fill"
    <2>1. maxEvents = 0 \/ maxBytes = 0
        BY <1>6 DEF Init
    <2>2. 0 \in 0 .. Len(rows)
        BY <1>1, CandidateFacts
    <2>3. \A i \in CandidateRows : ~Admissible(i)
        BY <1>1, <2>1, ZeroLimit
    <2>4. TakenExactly(0)
        BY <1>2, <1>3, <2>3 DEF TakenExactly
    <2> QED
        BY <1>1, <1>2, <1>4, <1>6, <2>2, <2>4 DEF ExactInv
<1> QED
    BY <1>5, <1>6

LEMMA NextExact == SelectionInv /\ ExactInv /\ [Next]_vars => ExactInv'
<1> SUFFICES ASSUME SelectionInv, ExactInv, [Next]_vars, AllParse'
             PROVE  ExactInv'
    BY DEF ExactInv
<1> DEFINE n == Len(rows)
           Settled == UNCHANGED <<rows, maxEvents, maxBytes>>
<1>1. /\ Types /\ ids \in Seq(1 .. cursor) /\ Len(ids) \in Nat
      /\ n \in Nat /\ cursor \in 0 .. n /\ DOMAIN rows = 1 .. n
      /\ maxEvents \in Nat /\ maxBytes \in Nat
    BY CandidateFacts DEF SelectionInv, Types, InOrder
<1>2. Settled
    BY DEF Next, SkipOversized, Skip, Take, EndFill, Trim, EndTrim, vars
<1>3. /\ CandidateRows' = CandidateRows /\ SizeOf' = SizeOf
      /\ \A i : UpTo(i)' = UpTo(i) /\ Admissible(i)' = Admissible(i)
    BY <1>2 DEF CandidateRows, UpTo, Admissible, SizeOf
<1>4. /\ AllParse
      /\ Cardinality(ToSet(ids)) = Len(ids)
      /\ pc = "fill" => ToSet(ids) = UpTo(cursor) /\ estimated = TotalSize(ToSet(ids), SizeOf)
      /\ pc # "fill" => \E m \in 0 .. n : TakenExactly(m)
      /\ pc = "empty" => ids = <<>>
    <2>1. AllParse
        BY <1>2 DEF AllParse
    <2> QED
        BY <2>1 DEF ExactInv
<1>5. ToSet(ids) \in SUBSET (1 .. n) /\ IsFiniteSet(ToSet(ids)) /\ (ids = <<>> <=> ToSet(ids) = {})
    <2>1. ToSet(ids) \subseteq 1 .. cursor
        BY <1>1 DEF ToSet
    <2>2. ToSet(ids) \in SUBSET (1 .. n) /\ IsFiniteSet(1 .. n)
        <3>1. 1 .. cursor \subseteq 1 .. n
            BY <1>1
        <3>2. IsFiniteSet(1 .. n)
            BY <1>1, FS_Interval
        <3> QED
            BY <2>1, <3>1, <3>2
    <2>3. ids # <<>> => ids[1] \in ToSet(ids)
        BY <1>1 DEF ToSet
    <2>4. ids = <<>> => ToSet(ids) = {}
        BY DEF ToSet
    <2> QED
        BY <2>2, <2>3, <2>4, FS_Subset
(* A row more. *)
<1>sum. ASSUME NEW S \in SUBSET (1 .. n), NEW x \in 1 .. n, x \notin S
      PROVE  TotalSize(S \cup {x}, SizeOf) = TotalSize(S, SizeOf) + SizeOf[x]
    <2>1. \A i \in 1 .. n : SizeOf[i] \in Nat
        BY <1>1, CandidateFacts
    <2>2. \A R \in SUBSET (1 .. n), y \in 1 .. n :
             y \notin R => TotalSize(R \cup {y}, SizeOf) = TotalSize(R, SizeOf) + SizeOf[y]
        <3> HIDE DEF n
        <3> QED
            BY <1>1, <2>1, TotalSizeFacts
    <2> QED
        BY <1>sum, <2>2
(* The row behind the cursor. *)
<1>6. ASSUME HasCandidate
      PROVE  /\ cursor + 1 \in 1 .. n /\ cursor + 1 \in Nat /\ cursor \in Nat
             /\ Candidate = rows[cursor + 1] /\ SizeOf[cursor + 1] = Candidate.size
             /\ Candidate.size \in Nat /\ Candidate.parses
             /\ cursor + 1 \notin ToSet(ids) /\ pc = "fill" /\ ToSet(ids) = UpTo(cursor)
             /\ ids # <<>> => cursor + 1 \in CandidateRows
             /\ cursor + 1 \in CandidateRows => UpTo(cursor + 1) = UpTo(cursor) \cup {cursor + 1}
             /\ cursor + 1 \notin CandidateRows => UpTo(cursor + 1) = UpTo(cursor)
    <2>1. pc = "fill" /\ cursor + 1 \in 1 .. n /\ cursor + 1 \in Nat /\ cursor \in Nat
        BY <1>1, <1>6 DEF HasCandidate
    <2>2. /\ Candidate = rows[cursor + 1] /\ SizeOf[cursor + 1] = Candidate.size
          /\ Candidate.size \in Nat /\ Candidate.parses
        BY <1>1, <1>4, <2>1, CandidateFacts DEF Candidate, AllParse
    <2>3. ToSet(ids) = UpTo(cursor) /\ cursor + 1 \notin UpTo(cursor)
        BY <1>4, <2>1 DEF UpTo
    <2>4. ASSUME ids # <<>>
          PROVE  cursor + 1 \in CandidateRows
        <3>1. PICK i \in CandidateRows : i <= cursor
            BY <1>5, <2>3, <2>4 DEF UpTo
        <3>2. PICK f \in 1 .. n : f <= i /\ rows[f].size <= maxBytes
            BY <1>1, <3>1, CandidateFacts
        <3>3. i \in Nat
            BY <1>1, <3>1, CandidateFacts
        <3>4. f <= cursor + 1
            BY <2>1, <3>1, <3>2, <3>3
        <3> QED
            BY <1>1, <2>1, <3>2, <3>4, CandidateFacts
    <2>5. \A i \in CandidateRows : i \in Nat /\ (i <= cursor + 1 <=> i <= cursor \/ i = cursor + 1)
        <3>1. \A i \in CandidateRows : i \in Nat
            BY <1>1, CandidateFacts
        <3> QED
            BY <2>1, <3>1
    <2>6. cursor + 1 \in CandidateRows => UpTo(cursor + 1) = UpTo(cursor) \cup {cursor + 1}
        <3> SUFFICES ASSUME cursor + 1 \in CandidateRows
                     PROVE  UpTo(cursor + 1) = UpTo(cursor) \cup {cursor + 1}
            OBVIOUS
        <3>1. \A i : i \in UpTo(cursor + 1) <=> i \in UpTo(cursor) \/ i = cursor + 1
            BY <2>5 DEF UpTo
        <3> QED
            BY <3>1
    <2>7. cursor + 1 \notin CandidateRows => UpTo(cursor + 1) = UpTo(cursor)
        BY <2>5 DEF UpTo
    <2> QED
        BY <2>1, <2>2, <2>3, <2>4, <2>6, <2>7
<1>7. CASE SkipOversized
    <2>1. /\ HasCandidate /\ ids = <<>> /\ Candidate.size > maxBytes
          /\ cursor' = cursor + 1 /\ UNCHANGED <<ids, estimated, pc>>
        BY <1>7 DEF SkipOversized, Skip
    <2>2. cursor + 1 \notin CandidateRows
        <3> SUFFICES ASSUME cursor + 1 \in CandidateRows
                     PROVE  FALSE
            OBVIOUS
        <3>1. PICK f \in 1 .. n : f <= cursor + 1 /\ rows[f].size <= maxBytes
            BY <1>1, <1>6, <2>1, CandidateFacts
        <3>2. f # cursor + 1
            BY <1>1, <1>6, <2>1, <3>1
        <3>3. f <= cursor /\ f <= f
            BY <1>1, <3>1, <3>2
        <3>4. f \in UpTo(cursor)
            BY <1>1, <3>1, <3>3, CandidateFacts DEF UpTo
        <3> QED
            BY <1>5, <1>6, <2>1, <3>4
    <2>3. UpTo(cursor') = ToSet(ids) /\ pc = "fill"
        BY <1>6, <2>1, <2>2
    <2>4. UpTo(cursor)' = UpTo(cursor')
        BY <1>3 DEF UpTo
    <2> QED
        BY <1>3, <1>4, <2>1, <2>3, <2>4 DEF ExactInv
<1>8. CASE Take
    <2>1. /\ HasCandidate /\ Fits /\ cursor' = cursor + 1 /\ UNCHANGED pc
          /\ ids' = Append(ids, cursor + 1) /\ estimated' = estimated + Candidate.size
        BY <1>6, <1>8 DEF Take
    <2>2. cursor + 1 \in CandidateRows
        <3>1. CASE ids # <<>>
            BY <1>6, <2>1, <3>1
        <3>2. CASE ids = <<>>
            <4>1. rows[cursor + 1].size <= maxBytes /\ cursor + 1 <= cursor + 1
                BY <1>6, <2>1, <3>2 DEF Fits
            <4> QED
                BY <1>1, <1>6, <2>1, <4>1, CandidateFacts
        <3> QED
            BY <3>1, <3>2
    <2>3. ToSet(ids') = ToSet(ids) \cup {cursor + 1} /\ Len(ids') = Len(ids) + 1
        BY <1>1, <1>6, <2>1, AppendFacts
    <2>4. ToSet(ids') = UpTo(cursor')
        BY <1>6, <2>1, <2>2, <2>3
    <2>5. Cardinality(ToSet(ids')) = Len(ids')
        <3>1. Cardinality(ToSet(ids) \cup {cursor + 1}) = Cardinality(ToSet(ids)) + 1
            BY <1>5, <1>6, <2>1, FS_AddElement
        <3> QED
            BY <1>4, <2>3, <3>1
    <2>6. estimated' = TotalSize(ToSet(ids'), SizeOf)
        <3>1. estimated = TotalSize(ToSet(ids), SizeOf)
            BY <1>4, <1>6, <2>1
        <3>2. TotalSize(ToSet(ids) \cup {cursor + 1}, SizeOf) = TotalSize(ToSet(ids), SizeOf) + SizeOf[cursor + 1]
            BY <1>sum, <1>5, <1>6, <2>1
        <3> QED
            BY <1>6, <2>1, <2>3, <3>1, <3>2
    <2>7. UpTo(cursor)' = UpTo(cursor') /\ TotalSize(ToSet(ids), SizeOf)' = TotalSize(ToSet(ids'), SizeOf)
        BY <1>3 DEF UpTo
    <2> QED
        BY <1>6, <2>1, <2>4, <2>5, <2>6, <2>7 DEF ExactInv
<1>9. CASE EndFill
    <2>1. /\ pc = "fill" /\ UNCHANGED <<ids, cursor>> /\ pc' \in {"trim", "empty"}
          /\ pc' = "empty" => ids = <<>>
          /\ \/ cursor = n
             \/ Len(ids) >= maxEvents
             \/ HasCandidate /\ ids # <<>> /\ ~Fits
        BY <1>9 DEF EndFill
    <2>2. ToSet(ids) = UpTo(cursor) /\ estimated = TotalSize(ToSet(ids), SizeOf)
        BY <1>4, <2>1
    <2>3. ASSUME NEW i \in CandidateRows, i > cursor
          PROVE  ~Admissible(i)
        <3>1. i \in 1 .. n /\ i \in 0 .. n /\ i \in UpTo(i) /\ i \notin UpTo(cursor) /\ i \in Nat /\ cursor <= i
            BY <1>1, <2>3, CandidateFacts DEF UpTo
        <3>2. /\ UpTo(i) \in SUBSET (1 .. n) /\ IsFiniteSet(UpTo(i)) /\ Cardinality(UpTo(i)) \in Nat
              /\ UpTo(cursor) \subseteq UpTo(i)
            BY <1>1, <3>1, UpToFacts
        <3>3. CASE cursor = n
            BY <1>1, <2>3, <3>1, <3>3
        <3>4. CASE Len(ids) >= maxEvents
            <4>1. Cardinality(UpTo(cursor)) # Cardinality(UpTo(i)) /\ Cardinality(UpTo(cursor)) <= Cardinality(UpTo(i))
                BY <3>1, <3>2, FS_Subset
            <4>2. Cardinality(UpTo(cursor)) = Len(ids)
                BY <1>4, <2>2
            <4> QED
                BY <1>1, <3>2, <3>4, <4>1, <4>2 DEF Admissible
        <3>5. CASE HasCandidate /\ ids # <<>> /\ ~Fits
            <4>1. estimated + Candidate.size > maxBytes
                <5>1. ~(estimated + Candidate.size <= maxBytes)
                    BY <3>5 DEF Fits
                <5>2. estimated \in Nat /\ Candidate.size \in Nat
                    BY <1>1, <1>5, <1>6, <2>2, <3>5, CandidateFacts, TotalSizeFacts
                <5> QED
                    BY <1>1, <5>1, <5>2
            <4> DEFINE T == UpTo(cursor + 1)
            <4>2. T = UpTo(cursor) \cup {cursor + 1} /\ cursor + 1 <= i /\ cursor + 1 \in 0 .. n
                BY <1>1, <1>6, <2>3, <3>1, <3>5
            <4>3. T \subseteq UpTo(i) /\ T # {}
                BY <3>1, <4>2, UpToFacts, <1>1
            <4>4. TotalSize(T, SizeOf) = estimated + Candidate.size
                <5>1. TotalSize(ToSet(ids) \cup {cursor + 1}, SizeOf) = TotalSize(ToSet(ids), SizeOf) + SizeOf[cursor + 1]
                    BY <1>sum, <1>5, <1>6, <3>5
                <5> QED
                    BY <1>6, <2>2, <3>5, <4>2, <5>1
            <4> HIDE DEF T
            <4>5. TotalSize(T, SizeOf) <= TotalSize(UpTo(i), SizeOf)
                BY <1>1, <3>2, <4>3, CandidateFacts, PayloadGrows
            <4>6. TotalSize(T, SizeOf) \in Nat /\ TotalSize(UpTo(i), SizeOf) \in Nat
                BY <1>1, <3>2, <4>3, CandidateFacts, TotalSizeFacts
            <4>7. UpTo(i) # {} /\ Cardinality(UpTo(i)) # 0
                BY <3>1, <3>2, FS_EmptySet
            <4>8. PayloadSize(UpTo(i), SizeOf) > maxBytes /\ PayloadSize(UpTo(i), SizeOf) \in Int
                BY <1>1, <3>2, <4>1, <4>4, <4>5, <4>6, <4>7, BatchOverheadAssumption DEF PayloadSize
            <4> QED
                BY <1>1, <4>8 DEF Admissible
        <3> QED
            BY <2>1, <3>3, <3>4, <3>5
    <2>4. TakenExactly(cursor)
        BY <2>2, <2>3 DEF TakenExactly
    <2>5. TakenExactly(cursor)'
        BY <1>3, <2>1, <2>4 DEF TakenExactly, UpTo
    <2>6. \E m \in 0 .. Len(rows)' : TakenExactly(m)'
        BY <1>1, <1>2, <2>1, <2>5
    <2> QED
        BY <1>4, <2>1, <2>6 DEF ExactInv
<1>10. CASE Trim
    <2>1. /\ pc = "trim" /\ ids # <<>> /\ PayloadBytes > maxBytes
          /\ ids' = Front(ids) /\ UNCHANGED <<cursor, pc>>
        BY <1>10 DEF Trim
    <2>2. PICK m \in 0 .. n : TakenExactly(m)
        BY <1>4, <2>1
    <2> DEFINE last == ids[Len(ids)]
    <2>3. /\ Len(ids) \in 1 .. Len(ids) /\ last \in ToSet(ids) /\ last \in 1 .. n
          /\ last \in Nat /\ last - 1 \in 0 .. n
        <3>1. Len(ids) \in 1 .. Len(ids)
            BY <1>1, <2>1
        <3>2. last \in ToSet(ids)
            BY <1>1, <3>1 DEF ToSet
        <3> QED
            BY <1>1, <1>5, <3>1, <3>2
    <2>4. ToSet(ids) = UpTo(m) /\ last \in CandidateRows /\ last <= m
        BY <2>2, <2>3 DEF TakenExactly, UpTo
    <2>5. \A i \in ToSet(ids) : i <= last
        <3>1. ASSUME NEW j \in 1 .. Len(ids)
              PROVE  ids[j] <= last
            <4>1. j = Len(ids) \/ j < Len(ids)
                BY <1>1
            <4>2. ids[j] \in Nat
                BY <1>1
            <4>3. j < Len(ids) => ids[j] < last
                BY <2>3 DEF SelectionInv, InOrder
            <4> QED
                BY <2>3, <4>1, <4>2, <4>3
        <3> QED
            BY <1>1, <3>1 DEF ToSet
    <2>6. UpTo(last) = ToSet(ids)
        <3>1. \A i \in CandidateRows : i \in Nat
            BY <1>1, CandidateFacts
        <3>2. \A i \in CandidateRows : i <= last => i <= m
            BY <1>1, <2>3, <2>4, <3>1
        <3> QED
            BY <2>4, <2>5, <3>2 DEF UpTo
    <2>7. ~Admissible(last)
        <3>1. PayloadSize(UpTo(last), SizeOf) > maxBytes
            BY <2>1, <2>6 DEF SelectionInv, ClaimedIsSent, PayloadBytes
        <3>2. TotalSize(UpTo(last), SizeOf) \in Nat
            BY <1>1, <1>5, <2>6, CandidateFacts, TotalSizeFacts
        <3>3. UpTo(last) # {} /\ Cardinality(UpTo(last)) \in Nat
            BY <1>1, <1>4, <2>3, <2>6
        <3>4. PayloadSize(UpTo(last), SizeOf) \in Int
            BY <3>2, <3>3, BatchOverheadAssumption DEF PayloadSize
        <3> QED
            BY <1>1, <3>1, <3>4 DEF Admissible
    <2>8. ToSet(ids') = ToSet(ids) \ {last}
        <3>1. /\ Front(ids) \in Seq(1 .. cursor) /\ Len(ids') = Len(ids) - 1
              /\ \A j \in 1 .. Len(ids) - 1 : ids'[j] = ids[j]
              /\ \A x \in ToSet(ids) : x = last \/ x \in ToSet(ids')
            BY <1>1, <2>1, FrontFacts
        <3>2. ASSUME NEW x \in ToSet(ids')
              PROVE  x \in ToSet(ids) /\ x # last
            <4>1. PICK j \in 1 .. Len(ids) - 1 : x = ids'[j]
                BY <2>1, <3>1, <3>2 DEF ToSet
            <4>2. j \in 1 .. Len(ids) /\ j < Len(ids) /\ x = ids[j]
                BY <1>1, <3>1, <4>1
            <4>3. ids[j] < last /\ ids[j] \in Nat
                BY <1>1, <2>3, <4>2 DEF SelectionInv, InOrder
            <4>4. x \in ToSet(ids)
                BY <1>1, <4>2 DEF ToSet
            <4> QED
                BY <2>3, <4>2, <4>3, <4>4
        <3> QED
            BY <3>1, <3>2
    <2>9. Len(ids') = Len(ids) - 1
        BY <1>1, <2>1, FrontFacts
    <2> HIDE DEF last
    <2>10. ToSet(ids') = UpTo(last - 1)
        <3>1. \A i \in CandidateRows : i \in Nat
            BY <1>1, CandidateFacts
        <3>2. \A i \in CandidateRows : i <= last - 1 <=> i <= last /\ i # last
            BY <2>3, <3>1
        <3> QED
            BY <2>6, <2>8, <3>2 DEF UpTo
    <2>11. \A i \in CandidateRows : i > last - 1 => ~Admissible(i)
        <3> SUFFICES ASSUME NEW i \in CandidateRows, i > last - 1
                     PROVE  ~Admissible(i)
            OBVIOUS
        <3>1. i \in Nat /\ i \in UpTo(i)
            BY <1>1, CandidateFacts DEF UpTo
        <3>2. CASE i > m
            BY <2>2, <3>2 DEF TakenExactly
        <3>3. CASE i <= m
            <4>1. i \in ToSet(ids)
                BY <2>4, <3>3 DEF UpTo
            <4>2. i = last
                BY <2>3, <2>5, <3>1, <4>1
            <4> QED
                BY <2>7, <4>2
        <3> QED
            BY <1>1, <3>1, <3>2, <3>3
    <2>12. \E k \in 0 .. Len(rows)' : TakenExactly(k)'
        <3> DEFINE k == last - 1
        <3>1. k \in 0 .. Len(rows)' /\ ToSet(ids') = UpTo(k) /\ \A i \in CandidateRows : i > k => ~Admissible(i)
            BY <1>2, <2>3, <2>10, <2>11
        <3> HIDE DEF k
        <3>2. PICK r \in 0 .. Len(rows)' : ToSet(ids') = UpTo(r) /\ \A i \in CandidateRows : i > r => ~Admissible(i)
            BY <3>1
        <3> QED
            BY <1>3, <3>2 DEF TakenExactly, UpTo
    <2>13. Cardinality(ToSet(ids')) = Len(ids')
        BY <1>4, <1>5, <2>3, <2>8, <2>9, FS_RemoveElement
    <2> QED
        BY <2>1, <2>12, <2>13 DEF ExactInv
<1>11. CASE EndTrim
    <2>1. /\ pc = "trim" /\ UNCHANGED <<ids, cursor>> /\ pc' \in {"claim", "empty"}
          /\ pc' = "empty" => ids = <<>>
        BY <1>11 DEF EndTrim
    <2>2. PICK m \in 0 .. n : TakenExactly(m)
        BY <1>4, <2>1
    <2>3. ToSet(ids') = UpTo(m) /\ \A i \in CandidateRows' : i > m => ~Admissible(i)'
        BY <1>3, <2>1, <2>2 DEF TakenExactly
    <2>4. \E k \in 0 .. Len(rows)' : TakenExactly(k)'
        BY <1>2, <1>3, <2>3 DEF TakenExactly, UpTo
    <2> QED
        BY <1>4, <2>1, <2>4 DEF ExactInv
<1>12. CASE UNCHANGED vars
    BY <1>12 DEF vars, ExactInv, AllParse, TakenExactly, Admissible, UpTo, CandidateRows, SizeOf
<1> QED
    BY <1>7, <1>8, <1>9, <1>10, <1>11, <1>12 DEF Next

LEMMA ExactGivesClaim == SelectionInv /\ ExactInv => ComputesClaim
<1> SUFFICES ASSUME SelectionInv, ExactInv, pc \in {"claim", "empty"}, AllParse
             PROVE  ToSet(ids) = ClaimedIds(DOMAIN rows, SizeOf, maxEvents, maxBytes)
    BY DEF ComputesClaim, AllParse
<1>1. ClaimedIds(DOMAIN rows, SizeOf, maxEvents, maxBytes) = {i \in CandidateRows : Admissible(i)}
    BY DEF ClaimedIds, CandidateRows, UpTo, Admissible
<1>2. Types /\ Len(rows) \in Nat /\ maxEvents \in Nat /\ maxBytes \in Nat
    BY CandidateFacts DEF SelectionInv, Types
<1>3. PICK m \in 0 .. Len(rows) : TakenExactly(m)
    BY DEF ExactInv
<1>4. ToSet(ids) = UpTo(m)
    BY <1>3 DEF TakenExactly
<1>5. ASSUME NEW i \in CandidateRows, Admissible(i)
      PROVE  i \in UpTo(m)
    <2>1. i \in Nat /\ m \in Nat /\ ~(i > m)
        BY <1>2, <1>3, <1>5, CandidateFacts DEF TakenExactly
    <2> QED
        BY <1>5, <2>1 DEF UpTo
<1>6. ASSUME NEW i \in UpTo(m)
      PROVE  i \in CandidateRows /\ Admissible(i)
    <2>1. i \in CandidateRows /\ i \in 0 .. Len(rows) /\ i <= m
        BY <1>2, <1>6, CandidateFacts DEF UpTo
    <2>2. /\ UpTo(i) \subseteq UpTo(m) /\ UpTo(m) \in SUBSET (1 .. Len(rows))
          /\ IsFiniteSet(UpTo(m)) /\ Cardinality(UpTo(m)) \in Nat
          /\ Cardinality(UpTo(i)) \in Nat /\ UpTo(i) \in SUBSET (1 .. Len(rows))
        BY <1>2, <1>3, <2>1, UpToFacts
    <2>3. pc = "claim"
        <3>1. ids = <<>> => ToSet(ids) = {}
            BY DEF ToSet
        <3> QED
            BY <1>4, <1>6, <3>1 DEF ExactInv
    <2>4. Cardinality(UpTo(m)) <= maxEvents /\ PayloadSize(UpTo(m), SizeOf) <= maxBytes
        <3>1. Cardinality(UpTo(m)) = Len(ids)
            BY <1>4 DEF ExactInv
        <3>2. Len(ids) <= maxEvents
            BY DEF SelectionInv, InOrder
        <3>3. PayloadSize(ToSet(ids), SizeOf) <= maxBytes
            BY <2>3 DEF SelectionInv, WithinLimits, ClaimedIsSent
        <3> QED
            BY <1>4, <3>1, <3>2, <3>3
    <2>5. Cardinality(UpTo(i)) <= Cardinality(UpTo(m))
        BY <2>2, FS_Subset
    <2>6. PayloadSize(UpTo(i), SizeOf) <= PayloadSize(UpTo(m), SizeOf)
        BY <1>2, <2>2, CandidateFacts, PayloadGrows
    <2>7. TotalSize(UpTo(i), SizeOf) \in Nat /\ TotalSize(UpTo(m), SizeOf) \in Nat
        BY <1>2, <2>2, CandidateFacts, TotalSizeFacts
    <2>8. PayloadSize(UpTo(i), SizeOf) \in Int /\ PayloadSize(UpTo(m), SizeOf) \in Int
        BY <2>2, <2>7, BatchOverheadAssumption DEF PayloadSize
    <2> QED
        BY <1>2, <2>1, <2>2, <2>4, <2>5, <2>6, <2>8 DEF Admissible
<1> QED
    BY <1>1, <1>4, <1>5, <1>6

-----
(* The theorems. *)

(* In every state of the loops the rows that will be marked as uploading are  *)
(* those whose events are in the payload.                                     *)
THEOREM SentIsClaimed == Spec => []ClaimedIsSent
<1>1. SelectionInv => ClaimedIsSent
    BY DEF SelectionInv
<1> QED
    BY InitSelection, NextSelection, <1>1, PTL DEF Spec

(* A batch has an event and respects both limits, its envelope and commas     *)
(* counted.                                                                   *)
THEOREM BatchWithinLimits == Spec => []WithinLimits
<1>1. SelectionInv => WithinLimits
    BY DEF SelectionInv
<1> QED
    BY InitSelection, NextSelection, <1>1, PTL DEF Spec

(* A row that could be sent is not overtaken by a later one, whatever is      *)
(* skipped in front of it and trimmed behind.                                 *)
THEOREM NoOvertaking == Spec => []FirstInFirstOut
<1>1. ASSUME SelectionInv, pc = "claim", NEW i \in DOMAIN rows, i < ids[Len(ids)]
      PROVE  i \in ToSet(ids) \/ rows[i].size > maxBytes \/ ~rows[i].parses
    <2>1. ids # <<>>
        BY <1>1 DEF SelectionInv, WithinLimits
    <2>2. rows \in Seq(Eligible) /\ ids \in Seq(1 .. cursor) /\ cursor \in 0 .. Len(rows)
        BY <1>1 DEF SelectionInv, Types, InOrder
    <2>3. i \in 1 .. ids[Len(ids)]
        BY <1>1, <2>1, <2>2
    <2> QED
        BY <1>1, <2>1, <2>3 DEF SelectionInv, PassedOver, CannotBeSent
<1>2. SelectionInv => FirstInFirstOut
    BY <1>1 DEF FirstInFirstOut
<1> QED
    BY InitSelection, NextSelection, <1>2, PTL DEF Spec

(* The two loops, with their estimate, their skipping and their trimming,     *)
(* compute the closed form that QueueRepository claims with: the longest      *)
(* prefix of the candidates that respects both limits.                        *)
THEOREM ComputesItsClaim == Spec => []ComputesClaim
<1>1. Init => SelectionInv /\ ExactInv
    BY InitSelection, InitExact
<1>2. SelectionInv /\ ExactInv /\ [Next]_vars => (SelectionInv /\ ExactInv)'
    BY NextSelection, NextExact
<1> QED
    BY <1>1, <1>2, ExactGivesClaim, PTL DEF Spec
=============================================================================
