------------------------ MODULE FountainRuntimeProofs ------------------------
(***************************************************************************)
(* Theorems about the runtime, for any number of host threads, heartbeat   *)
(* threads and texts, and arrays of any length: the filter computes what   *)
(* it is to, what is stored is of one moment, and logging a heartbeat in   *)
(* steps is the one step Heartbeat takes it for.                           *)
(***************************************************************************)
EXTENDS FountainRuntime, WellFoundedInduction, TLAPS

-----------------------------------------------------------------------------
(* The inductive invariant. *)

Fields ==
    {<<>>, PublicFields(<<IntervalField>>)} \cup {PublicFields(CopyFields(args)) : args \in FieldArrays}

Name == EventName \cup HeartbeatName \cup {DefaultName, EmptyText}

Envelope == [level : Level, event : Name, component : Name, app : AppMetadata \cup {EmptyText},
             install : InstallId \cup {EmptyText}, session : SessionId \cup {EmptyText},
             fields : Fields]

Frame == [args : FieldArrays \cup {<<>>, <<IntervalField>>}, envelope : Envelope]

Types ==
    /\ database \in Path \cup {NoPath}
    /\ session \in SessionId \cup {EmptyText}
    /\ app \in AppMetadata \cup {EmptyText}
    /\ name \in HeartbeatName \cup {DefaultName}
    /\ installId \in InstallId \cup {EmptyText}
    /\ at \in [Thread -> {"idle", "locking", "building", "identifying", "storing"}]
    /\ frame \in [Thread -> Frame]
    /\ pc \in [Caller -> {"idle", "spawn", "spawn_failed", "assign", "moving", "clearing", "join"}]
    /\ loop \in [Loop -> {"unborn", "starting", "waiting", "notified", "ended"}]
    /\ terminated \in BOOLEAN

(* A thread between the lock and the unlock of LogEvent. *)
Inside(t) == at[t] \in {"building", "identifying", "storing"}

(* It is alone there, and nobody moves the handle meanwhile. *)
MutexHeld ==
    /\ \A t, u \in Thread : Inside(t) /\ Inside(u) => t = u
    /\ \A t \in Thread : Inside(t) => HB!MutexFree

(* What it has read is still so. *)
UpToDate(t) ==
    /\ database # NoPath
    /\ at[t] \in {"identifying", "storing"} =>
          frame[t].envelope.app = app /\ frame[t].envelope.install = installId
    /\ at[t] = "storing" => frame[t].envelope.session = session

(* What a heartbeat's thread looked at is still so. *)
StillDue(l) ==
    /\ running /\ target \in {EmptyText, installId}
    /\ loop[l] \in {"waiting", "notified"}
    /\ frame[l].envelope.event = name /\ frame[l].envelope.component = name
    /\ frame[l].envelope.fields = PublicFields(<<IntervalField>>)

InFlight ==
    /\ \A t \in Thread : Inside(t) => UpToDate(t)
    /\ \A l \in Loop : Inside(l) => StillDue(l)

(* The fields of an envelope are those of the array it is built from. *)
FieldsRight ==
    \A t \in Thread : frame[t].envelope.fields = LastPublicValues(frame[t].args)

(* What was stored last is an envelope, in a database of the host's. *)
InsertType ==
    insert # NoInsert =>
        insert.by \in Thread /\ insert.path \in Path /\ insert.envelope \in Envelope

RuntimeInv ==
    /\ Types
    /\ InsertType
    /\ MutexHeld
    /\ InFlight
    /\ FieldsRight
    /\ StoresPublicFields
    /\ StoredOfOneMoment
    /\ HeartbeatTargeted
    /\ RowLimitReaches

-----------------------------------------------------------------------------
(* The fields.  Both loops over the array are folds, and a fold is a CHOOSE:  *)
(* its equations hold once some function on the sets of indexes satisfies     *)
(* them, and what it returns is shown by the least index that refutes it.     *)

LEMMA LeastNatural ==
  ASSUME NEW T \in SUBSET Nat, NEW n \in T
  PROVE  \E x \in T : \A y \in T : x <= y
<1>1. T \subseteq Nat /\ T # {}
    OBVIOUS
<1>2. \E x \in T : \A y \in T : ~(<<y, x>> \in OpToRel(<, Nat))
    BY <1>1, NatLessThanWellFounded, WFMin, Zenon
<1>3. \A x, y \in Nat : <<y, x>> \in OpToRel(<, Nat) <=> y < x
    BY DEF OpToRel
<1>4. \E x \in T : \A y \in T : ~(y < x)
    BY <1>1, <1>2, <1>3, Zenon
<1> QED
    BY <1>1, <1>4

LEMMA MaxFacts ==
  ASSUME NEW n \in Nat, NEW S \in SUBSET (1 .. n), S # {}
  PROVE  /\ Max(S) \in S
         /\ \A x \in S : Max(S) >= x
<1> DEFINE T == {n - x : x \in S}
<1>1. \E m \in S : \A x \in S : m >= x
    <2>1. PICK y \in S : TRUE
        OBVIOUS
    <2>2. T \in SUBSET Nat /\ n - y \in T
        BY <2>1
    <2>3. PICK t \in T : \A x \in T : t <= x
        BY <2>2, LeastNatural
    <2>4. PICK m \in S : t = n - m
        BY <2>3
    <2>5. ASSUME NEW x \in S
          PROVE  m >= x
        <3>1. n - m <= n - x
            BY <2>3, <2>4, <2>5
        <3> QED
            BY <3>1
    <2> QED
        BY <2>5
<1> QED
    BY <1>1 DEF Max

LEMMA MaxIs ==
  ASSUME NEW S \in SUBSET Nat, NEW m \in S, \A x \in S : m >= x
  PROVE  Max(S) = m
<1>1. Max(S) \in S /\ \A y \in S : Max(S) >= y
    BY DEF Max
<1>2. Max(S) \in Nat /\ m \in Nat /\ Max(S) >= m /\ m >= Max(S)
    BY <1>1
<1> QED
    BY <1>2

(* For each key the value at the last of the indexes in P. *)
LastValues(P, key, value) ==
    [k \in {key[i] : i \in P} |-> value[Max({i \in P : key[i] = k})]]

Put(json, key, value) == [k \in {key} \cup DOMAIN json |-> IF k = key THEN value ELSE json[k]]

(* With a later index its key has its value, and the others keep theirs. *)
LEMMA OneMore ==
  ASSUME NEW m \in Nat, NEW P \in SUBSET (1 .. m - 1), NEW key, NEW value
  PROVE  LastValues(P \cup {m}, key, value) = Put(LastValues(P, key, value), key[m], value[m])
<1> DEFINE Q == P \cup {m}
<1>1. DOMAIN LastValues(P, key, value) = {key[i] : i \in P}
    BY DEF LastValues
<1>2. {key[i] : i \in Q} = {key[m]} \cup {key[i] : i \in P}
    OBVIOUS
<1>3. Max({i \in Q : key[i] = key[m]}) = m
    <2> DEFINE S == {i \in Q : key[i] = key[m]}
    <2>1. m \in S /\ S \subseteq P \cup {m}
        OBVIOUS
    <2>2. \A x \in P \cup {m} : x \in Nat /\ m >= x
        OBVIOUS
    <2>3. S \in SUBSET Nat /\ m \in S /\ \A x \in S : m >= x
        BY <2>1, <2>2
    <2> HIDE DEF S
    <2>4. Max(S) = m
        BY <2>3, MaxIs
    <2> QED
        BY <2>4 DEF S
<1>4. ASSUME NEW k \in {key[i] : i \in P}, k # key[m]
      PROVE  {i \in Q : key[i] = k} = {i \in P : key[i] = k}
    BY <1>4
<1> QED
    BY <1>1, <1>2, <1>3, <1>4 DEF LastValues, Put

KeyOf(fields)   == [i \in DOMAIN fields |-> fields[i].key]
ValueOf(fields) == [i \in DOMAIN fields |-> fields[i].value]

(* A set of indexes without its greatest. *)
LEMMA WithoutMax ==
  ASSUME NEW n \in Nat, NEW S \in SUBSET (1 .. n), S # {}
  PROVE  /\ Max(S) \in 1 .. n
         /\ S \ {Max(S)} \in SUBSET (1 .. Max(S) - 1)
         /\ S = (S \ {Max(S)}) \cup {Max(S)}
<1> DEFINE m == Max(S)
<1>1. m \in S /\ \A x \in S : m >= x
    BY MaxFacts
<1> HIDE DEF m
<1>2. m \in 1 .. n /\ m \in Nat
    BY <1>1
<1>3. ASSUME NEW x \in S \ {m}
      PROVE  x \in 1 .. m - 1
    <2>1. x \in 1 .. n /\ m >= x /\ x # m
        BY <1>1
    <2> QED
        BY <1>2, <2>1
<1>4. m \in 1 .. n /\ S \ {m} \in SUBSET (1 .. m - 1) /\ S = (S \ {m}) \cup {m}
    BY <1>1, <1>2, <1>3
<1> QED
    BY <1>4 DEF m

(* The filter gives each key the value of its last uploadable field. *)
LEMMA PublicFieldsAre ==
  ASSUME NEW T, NEW t \in Seq(T)
  PROVE  PublicFields(t) = LastValues({i \in DOMAIN t : Uploadable(t[i])}, KeyOf(t), ValueOf(t))
<1> DEFINE n == Len(t)
           Shown(S) == {i \in S : Uploadable(t[i])}
           Loop1(g) == [S \in SUBSET (1 .. n) |->
                          IF S = {} THEN <<>> ELSE AddField(g[S \ {Max(S)}], t[Max(S)])]
           fold == CHOOSE g : g = Loop1(g)
           last == [S \in SUBSET (1 .. n) |-> LastValues(Shown(S), KeyOf(t), ValueOf(t))]
<1>1. n \in Nat /\ DOMAIN t = 1 .. n
    OBVIOUS
<1>2. PublicFields(t) = fold[1 .. n]
    BY <1>1 DEF PublicFields, FoldLeft, MapThenFoldSet
<1>3. last[{}] = <<>>
    BY DEF LastValues
<1>4. ASSUME NEW S \in SUBSET (1 .. n), S # {}
      PROVE  last[S] = AddField(last[S \ {Max(S)}], t[Max(S)])
    <2> DEFINE m == Max(S)
               R == S \ {m}
    <2>1. m \in 1 .. n /\ R \in SUBSET (1 .. m - 1) /\ R \in SUBSET (1 .. n) /\ S = R \cup {m}
        BY <1>1, <1>4, WithoutMax
    <2> HIDE DEF m, R
    <2>2. CASE Uploadable(t[m])
        <3>1. Shown(S) = Shown(R) \cup {m}
            <4>1. \A i : i \in S <=> i \in R \/ i = m
                BY <2>1
            <4>2. \A i : i \in Shown(S) <=> i \in Shown(R) \/ i = m
                BY <2>2, <4>1
            <4> HIDE DEF Shown
            <4> QED
                BY <4>2
        <3>2. Shown(R) \in SUBSET (1 .. m - 1) /\ m \in Nat
            <4>1. Shown(R) \subseteq R
                OBVIOUS
            <4>2. m \in Nat
                BY <1>1, <2>1
            <4> HIDE DEF Shown
            <4> QED
                BY <2>1, <4>1, <4>2
        <3>3. KeyOf(t)[m] = t[m].key /\ ValueOf(t)[m] = t[m].value
            BY <1>1, <2>1 DEF KeyOf, ValueOf
        <3> HIDE DEF Shown
        <3>4. /\ last[S] = LastValues(Shown(R) \cup {m}, KeyOf(t), ValueOf(t))
              /\ last[R] = LastValues(Shown(R), KeyOf(t), ValueOf(t))
            BY <2>1, <3>1
        <3> HIDE DEF last
        <3>5. LastValues(Shown(R) \cup {m}, KeyOf(t), ValueOf(t))
                = Put(LastValues(Shown(R), KeyOf(t), ValueOf(t)), KeyOf(t)[m], ValueOf(t)[m])
            BY <3>2, OneMore
        <3>6. last[S] = Put(last[R], t[m].key, t[m].value)
            BY <3>3, <3>4, <3>5
        <3> QED
            BY <2>2, <3>6 DEF AddField, Put, m, R
    <2>3. CASE ~Uploadable(t[m])
        <3>1. Shown(S) = Shown(R)
            BY <2>1, <2>3
        <3> QED
            BY <2>1, <2>3, <3>1 DEF AddField, m, R
    <2> QED
        BY <2>2, <2>3
<1>5. last = Loop1(last)
    <2> HIDE DEF last
    <2>1. DOMAIN last = SUBSET (1 .. n) /\ last = [S \in SUBSET (1 .. n) |-> last[S]]
        BY DEF last
    <2> QED
        BY <1>3, <1>4, <2>1
<1> HIDE DEF last, Shown
<1>6. fold = Loop1(fold)
    BY <1>5
<1> HIDE DEF fold
<1>7. ASSUME NEW S \in SUBSET (1 .. n)
      PROVE  fold[S] = last[S]
    <2> DEFINE Wrong == {m \in Nat : \E R \in SUBSET (1 .. n) : R \subseteq 1 .. m /\ fold[R] # last[R]}
    <2> SUFFICES ASSUME fold[S] # last[S]
                 PROVE  FALSE
        OBVIOUS
    <2>1. n \in Wrong
        BY <1>1, <1>7
    <2>2. PICK m \in Wrong : \A k \in Wrong : m <= k
        BY <2>1, LeastNatural
    <2>3. PICK R \in SUBSET (1 .. n) : R \subseteq 1 .. m /\ fold[R] # last[R]
        OBVIOUS
    <2>4. R # {}
        BY <1>3, <1>6, <2>3
    <2>5. /\ Max(R) \in 1 .. m /\ R \ {Max(R)} \in SUBSET (1 .. n)
          /\ R \ {Max(R)} \subseteq 1 .. m - 1
        BY <2>3, <2>4, WithoutMax
    <2>6. m - 1 \in Nat /\ ~(m <= m - 1)
        BY <2>5
    <2>7. fold[R \ {Max(R)}] = last[R \ {Max(R)}]
        BY <2>2, <2>5, <2>6
    <2> QED
        BY <1>4, <1>6, <2>3, <2>4, <2>7
<1>8. last[1 .. n] = LastValues(Shown(1 .. n), KeyOf(t), ValueOf(t))
    BY DEF last
<1> QED
    BY <1>1, <1>2, <1>7, <1>8 DEF Shown

(* The copy is taken field by field: some function copies every set of        *)
(* indexes, and the copy of a prefix is the one before and its last field.    *)

CopyLoop(t, m, g) ==
    [S \in SUBSET (1 .. m) |-> IF S = {} THEN <<>> ELSE CopyField(g[S \ {Max(S)}], t[Max(S)])]

LEMMA SomeCopy ==
  ASSUME NEW T, NEW t \in Seq(T), NEW n \in Nat
  PROVE  \E g : g = CopyLoop(t, n, g)
<1> DEFINE Missing == {m \in Nat : ~\E g : g = CopyLoop(t, m, g)}
<1> SUFFICES ASSUME n \in Missing
             PROVE  FALSE
    OBVIOUS
<1>1. PICK m \in Missing : \A k \in Missing : m <= k
    BY LeastNatural
<1>2. CASE m = 0
    <2> DEFINE g == [S \in SUBSET (1 .. 0) |-> <<>>]
    <2>1. \A S \in SUBSET (1 .. 0) : S = {}
        OBVIOUS
    <2>2. g = CopyLoop(t, 0, g)
        BY <2>1 DEF CopyLoop
    <2> QED
        BY <1>2, <2>2
<1>3. CASE m # 0
    <2>1. m \in Nat /\ m - 1 \in Nat /\ ~(m <= m - 1)
        BY <1>3
    <2>2. PICK g : g = CopyLoop(t, m - 1, g)
        BY <1>1, <2>1
    <2>3. \A S \in SUBSET (1 .. m - 1) :
             g[S] = IF S = {} THEN <<>> ELSE CopyField(g[S \ {Max(S)}], t[Max(S)])
        BY <2>2 DEF CopyLoop
    <2> DEFINE h == [S \in SUBSET (1 .. m) |-> IF m \in S THEN CopyField(g[S \ {m}], t[m]) ELSE g[S]]
    <2>4. ASSUME NEW S \in SUBSET (1 .. m)
          PROVE  h[S] = IF S = {} THEN <<>> ELSE CopyField(h[S \ {Max(S)}], t[Max(S)])
        <3>1. CASE S = {}
            BY <2>3, <3>1
        <3>2. CASE m \in S
            <4>1. S \in SUBSET Nat /\ \A x \in S : m >= x
                BY <2>1
            <4>2. Max(S) = m
                BY <3>2, <4>1, MaxIs
            <4>3. S \ {m} \in SUBSET (1 .. m) /\ m \notin S \ {m}
                OBVIOUS
            <4>4. h[S \ {m}] = g[S \ {m}]
                BY <4>3
            <4> QED
                BY <3>2, <4>2, <4>4
        <3>3. CASE S # {} /\ m \notin S
            <4>1. S \in SUBSET (1 .. m - 1)
                BY <2>1, <3>3
            <4>2. S \ {Max(S)} \in SUBSET (1 .. m) /\ m \notin S \ {Max(S)}
                BY <3>3
            <4>3. h[S] = g[S] /\ h[S \ {Max(S)}] = g[S \ {Max(S)}]
                BY <3>3, <4>2
            <4> QED
                BY <2>3, <3>3, <4>1, <4>3
        <3> QED
            BY <3>1, <3>2, <3>3
    <2>5. h = CopyLoop(t, m, h)
        <3>1. h = [S \in SUBSET (1 .. m) |-> h[S]]
            OBVIOUS
        <3> HIDE DEF h
        <3> QED
            BY <2>4, <3>1 DEF CopyLoop
    <2> QED
        BY <2>5
<1> QED
    BY <1>2, <1>3

Copied(t, n) == CHOOSE g : g = CopyLoop(t, n, g)

LEMMA CopyFieldsStep ==
  ASSUME NEW T, NEW t \in Seq(T)
  PROVE  LET prefix(i) == Copied(t, Len(t))[1 .. i]
         IN  /\ CopyFields(t) = prefix(Len(t))
             /\ prefix(0) = <<>>
             /\ \A i \in 1 .. Len(t) : prefix(i) = CopyField(prefix(i - 1), t[i])
<1> DEFINE n == Len(t)
           c == Copied(t, n)
<1>1. n \in Nat /\ DOMAIN t = 1 .. n
    OBVIOUS
<1>2. CopyFields(t) = c[1 .. n]
    BY <1>1 DEF CopyFields, Copied, CopyLoop, FoldLeft, MapThenFoldSet
<1>3. c = CopyLoop(t, n, c)
    BY <1>1, SomeCopy DEF Copied
<1> HIDE DEF c
<1>4. \A S \in SUBSET (1 .. n) : c[S] = IF S = {} THEN <<>> ELSE CopyField(c[S \ {Max(S)}], t[Max(S)])
    BY <1>3 DEF CopyLoop
<1>5. c[1 .. 0] = <<>>
    <2>1. 1 .. 0 = {} /\ {} \in SUBSET (1 .. n)
        OBVIOUS
    <2> QED
        BY <1>4, <2>1
<1>6. ASSUME NEW i \in 1 .. n
      PROVE  c[1 .. i] = CopyField(c[1 .. i - 1], t[i])
    <2>1. i \in Nat /\ 1 .. i \in SUBSET (1 .. n) /\ i \in 1 .. i /\ 1 .. i \in SUBSET Nat
        BY <1>1
    <2>2. Max(1 .. i) = i
        BY <2>1, MaxIs
    <2>3. (1 .. i) \ {i} = 1 .. i - 1
        BY <2>1
    <2> QED
        BY <1>4, <2>1, <2>2, <2>3
<1> QED
    BY <1>2, <1>5, <1>6 DEF c

(* With one more field, the filter puts its value, if it is uploadable. *)
LEMMA PublicFieldsStep ==
  ASSUME NEW T, NEW t \in Seq(T), NEW f \in T
  PROVE  PublicFields(Append(t, f)) = AddField(PublicFields(t), f)
<1> DEFINE n == Len(t)
           u == Append(t, f)
           P == {i \in 1 .. n : Uploadable(t[i])}
           Q == {i \in 1 .. n + 1 : Uploadable(u[i])}
<1>1. n \in Nat /\ n + 1 \in Nat /\ DOMAIN t = 1 .. n
    OBVIOUS
<1>2. u \in Seq(T) /\ DOMAIN u = 1 .. n + 1 /\ u[n + 1] = f /\ \A i \in 1 .. n : u[i] = t[i]
    OBVIOUS
<1> HIDE DEF u
<1>3. \A i \in 1 .. n : KeyOf(u)[i] = KeyOf(t)[i] /\ ValueOf(u)[i] = ValueOf(t)[i]
    BY <1>1, <1>2 DEF KeyOf, ValueOf
<1>4. KeyOf(u)[n + 1] = f.key /\ ValueOf(u)[n + 1] = f.value
    BY <1>1, <1>2 DEF KeyOf, ValueOf
<1>5. /\ PublicFields(t) = LastValues(P, KeyOf(t), ValueOf(t))
      /\ PublicFields(u) = LastValues(Q, KeyOf(u), ValueOf(u))
    BY <1>1, <1>2, PublicFieldsAre
<1>6. P \in SUBSET (1 .. n) /\ n = (n + 1) - 1
    BY <1>1
<1>7. LastValues(P, KeyOf(u), ValueOf(u)) = LastValues(P, KeyOf(t), ValueOf(t))
    <2> HIDE DEF P
    <2>1. \A i \in P : KeyOf(u)[i] = KeyOf(t)[i] /\ ValueOf(u)[i] = ValueOf(t)[i]
        BY <1>3, <1>6
    <2>2. {KeyOf(u)[i] : i \in P} = {KeyOf(t)[i] : i \in P}
        BY <2>1
    <2>3. ASSUME NEW k \in {KeyOf(t)[i] : i \in P}
          PROVE  ValueOf(u)[Max({i \in P : KeyOf(u)[i] = k})] = ValueOf(t)[Max({i \in P : KeyOf(t)[i] = k})]
        <3> DEFINE S == {i \in P : KeyOf(t)[i] = k}
        <3>1. S = {i \in P : KeyOf(u)[i] = k}
            BY <2>1
        <3>2. S # {} /\ S \in SUBSET (1 .. n) /\ S \subseteq P
            BY <1>6, <2>3
        <3>3. Max(S) \in P
            BY <1>1, <3>2, MaxFacts
        <3> QED
            BY <2>1, <3>1, <3>3
    <2> QED
        BY <2>2, <2>3 DEF LastValues
<1>8. CASE Uploadable(f)
    <2>1. \A i : i \in Q <=> i \in P \/ i = n + 1
        BY <1>1, <1>2, <1>8
    <2> HIDE DEF P, Q
    <2>2. Q = P \cup {n + 1}
        BY <2>1
    <2>3. LastValues(P \cup {n + 1}, KeyOf(u), ValueOf(u))
            = Put(LastValues(P, KeyOf(u), ValueOf(u)), f.key, f.value)
        BY <1>1, <1>4, <1>6, OneMore
    <2> QED
        BY <1>5, <1>7, <1>8, <2>2, <2>3 DEF AddField, Put, u
<1>9. CASE ~Uploadable(f)
    <2>1. \A i : i \in Q <=> i \in P
        BY <1>1, <1>2, <1>9
    <2> HIDE DEF P, Q
    <2>2. Q = P
        BY <2>1
    <2> QED
        BY <1>5, <1>7, <1>9, <2>2 DEF AddField, u
<1> QED
    BY <1>8, <1>9

(* What the host's array declares public, up to its n-th field. *)
Declared(args, n) ==
    {i \in 1 .. n : HasKey(args[i]) /\ args[i].privacy = "public" /\ args[i].type \in ValueType}

CopiedValueOf(args) == [i \in DOMAIN args |-> Copy(args[i]).value]

LEMMA CopyFacts ==
  ASSUME NEW f \in FountainLogField
  PROVE  /\ Copy(f) \in FountainLogField
         /\ Copy(f).key = f.key
         /\ Uploadable(Copy(f)) <=> f.privacy = "public" /\ f.type \in ValueType
         /\ Uploadable(Copy(f)) => Copy(f).value # NoText
  BY EnvelopeAssumption DEF Copy, Uploadable, FountainLogField, ValueType

(* Copied and filtered, an array of the host gives what it was to give. *)
LEMMA FilterIsRight ==
  ASSUME NEW args \in Seq(FountainLogField)
  PROVE  PublicFields(CopyFields(args))
           = LastValues(Declared(args, Len(args)), KeyOf(args), CopiedValueOf(args))
<1> DEFINE n == Len(args)
           prefix(i) == Copied(args, n)[1 .. i]
           Right(i) == /\ prefix(i) \in Seq(FountainLogField)
                       /\ PublicFields(prefix(i))
                            = LastValues(Declared(args, i), KeyOf(args), CopiedValueOf(args))
           Wrong == {i \in Nat : i <= n /\ ~Right(i)}
<1>1. n \in Nat /\ DOMAIN args = 1 .. n /\ \A i \in 1 .. n : args[i] \in FountainLogField
    OBVIOUS
<1>2. /\ CopyFields(args) = prefix(n)
      /\ prefix(0) = <<>>
      /\ \A i \in 1 .. n : prefix(i) = CopyField(prefix(i - 1), args[i])
    BY CopyFieldsStep, Zenon
<1> HIDE DEF prefix
<1>3. Right(0)
    <2>1. {i \in DOMAIN <<>> : Uploadable(<<>>[i])} = {} /\ Declared(args, 0) = {}
        BY DEF Declared
    <2>2. <<>> \in Seq(FountainLogField)
        OBVIOUS
    <2>3. PublicFields(<<>>) = LastValues({}, KeyOf(<<>>), ValueOf(<<>>))
        BY <2>1, <2>2, PublicFieldsAre
    <2>4. LastValues({}, KeyOf(<<>>), ValueOf(<<>>)) = LastValues({}, KeyOf(args), CopiedValueOf(args))
        BY DEF LastValues
    <2> QED
        BY <1>2, <2>1, <2>2, <2>3, <2>4
<1>4. ASSUME NEW i \in 1 .. n, Right(i - 1)
      PROVE  Right(i)
    <2> DEFINE f == args[i]
               P == Declared(args, i - 1)
    <2>1. f \in FountainLogField /\ i \in Nat /\ i - 1 \in Nat
        BY <1>1
    <2>2. KeyOf(args)[i] = f.key /\ CopiedValueOf(args)[i] = Copy(f).value
        BY <1>1 DEF KeyOf, CopiedValueOf
    <2>3. prefix(i) = IF HasKey(f) THEN Append(prefix(i - 1), Copy(f)) ELSE prefix(i - 1)
        BY <1>2 DEF CopyField
    <2>4. Copy(f) \in FountainLogField /\ prefix(i - 1) \in Seq(FountainLogField)
        BY <1>4, <2>1, CopyFacts
    <2>5. prefix(i) \in Seq(FountainLogField)
        BY <2>3, <2>4
    <2>6. PublicFields(Append(prefix(i - 1), Copy(f))) = AddField(PublicFields(prefix(i - 1)), Copy(f))
        BY <2>4, PublicFieldsStep
    <2>7. Copy(f).key = f.key
        BY <2>1, CopyFacts
    <2>8. CASE HasKey(f) /\ Uploadable(Copy(f))
        <3>1. \A j : j \in Declared(args, i) <=> j \in P \/ j = i
            BY <2>1, <2>8, CopyFacts DEF Declared
        <3>2. Declared(args, i) = P \cup {i} /\ P \in SUBSET (1 .. i - 1)
            BY <3>1 DEF Declared
        <3>3. LastValues(P \cup {i}, KeyOf(args), CopiedValueOf(args))
                = Put(LastValues(P, KeyOf(args), CopiedValueOf(args)), f.key, Copy(f).value)
            BY <2>1, <2>2, <3>2, OneMore
        <3>4. PublicFields(prefix(i)) = Put(PublicFields(prefix(i - 1)), f.key, Copy(f).value)
            BY <2>3, <2>8, <2>6, <2>7 DEF AddField, Put
        <3> QED
            BY <1>4, <2>5, <3>2, <3>3, <3>4
    <2>9. CASE ~(HasKey(f) /\ Uploadable(Copy(f)))
        <3>1. \A j : j \in Declared(args, i) <=> j \in P
            BY <2>1, <2>9, CopyFacts DEF Declared
        <3>2. Declared(args, i) = P
            BY <3>1 DEF Declared
        <3>3. PublicFields(prefix(i)) = PublicFields(prefix(i - 1))
            BY <2>3, <2>9, <2>6 DEF AddField
        <3> QED
            BY <1>4, <2>5, <3>2, <3>3
    <2> QED
        BY <2>8, <2>9
<1> HIDE DEF Right
<1>5. Right(n)
    <2> SUFFICES ASSUME ~Right(n)
                 PROVE  FALSE
        OBVIOUS
    <2>1. Wrong \in SUBSET Nat /\ n \in Wrong
        BY <1>1
    <2>2. PICK i \in Wrong : \A k \in Wrong : i <= k
        BY <2>1, LeastNatural
    <2>3. i \in Nat /\ i <= n /\ ~Right(i) /\ i # 0
        BY <1>3
    <2>4. i - 1 \in Nat /\ i - 1 <= n /\ ~(i <= i - 1) /\ i \in 1 .. n
        BY <1>1, <2>3
    <2>5. Right(i - 1)
        BY <2>2, <2>4
    <2> QED
        BY <1>4, <2>3, <2>4, <2>5
<1> QED
    BY <1>2, <1>5 DEF Right

LEMMA LastPublicValuesAre ==
  ASSUME NEW T, NEW args \in Seq(T)
  PROVE  LastPublicValues(args)
           = LastValues(Declared(args, Len(args)), KeyOf(args), CopiedValueOf(args))
<1> DEFINE n == Len(args)
           P == Declared(args, n)
<1>1. n \in Nat /\ DOMAIN args = 1 .. n
    OBVIOUS
<1>2. P = {i \in DOMAIN args : HasKey(args[i]) /\ args[i].privacy = "public" /\ args[i].type \in ValueType}
    BY <1>1 DEF Declared
<1>3. P \in SUBSET (1 .. n)
    BY DEF Declared
<1> HIDE DEF P
<1>4. \A i \in P : KeyOf(args)[i] = args[i].key
    BY <1>1, <1>3 DEF KeyOf
<1>5. {KeyOf(args)[i] : i \in P} = {args[i].key : i \in P}
    BY <1>4
<1>6. ASSUME NEW k \in {args[i].key : i \in P}
      PROVE  CopiedValueOf(args)[Max({i \in P : KeyOf(args)[i] = k})]
               = Copy(args[Max({i \in P : args[i].key = k})]).value
    <2> DEFINE S == {i \in P : args[i].key = k}
    <2>1. S = {i \in P : KeyOf(args)[i] = k}
        BY <1>4
    <2>2. S # {} /\ S \in SUBSET (1 .. n)
        BY <1>3, <1>6
    <2>3. Max(S) \in 1 .. n
        BY <1>1, <2>2, MaxFacts
    <2> QED
        BY <1>1, <2>1, <2>3 DEF CopiedValueOf
<1> QED
    BY <1>2, <1>5, <1>6 DEF LastPublicValues, LastValues, P

-----------------------------------------------------------------------------
(* The one field of a heartbeat, which is public. *)

LEMMA IntervalFields ==
  /\ PublicFields(<<IntervalField>>) = [k \in {"interval_seconds"} |-> "interval"]
  /\ LastPublicValues(<<IntervalField>>) = PublicFields(<<IntervalField>>)
<1> DEFINE t == <<IntervalField>>
           f == [k \in {"interval_seconds"} |-> "interval"]
<1>1. t \in Seq({IntervalField}) /\ DOMAIN t = 1 .. 1 /\ 1 .. 1 = {1} /\ Len(t) = 1 /\ t[1] = IntervalField
    OBVIOUS
<1>2. IntervalField.key = "interval_seconds" /\ IntervalField.value = "interval"
    BY DEF IntervalField
<1>3. Uploadable(IntervalField) /\ HasKey(IntervalField) /\ Copy(IntervalField) = IntervalField
    BY RuntimeAssumption DEF Uploadable, HasKey, Copy, IntervalField, ValueType
<1> HIDE DEF t
<1>4. Max({1}) = 1
    <2>1. {1} \in SUBSET Nat /\ 1 \in {1} /\ \A x \in {1} : 1 >= x
        OBVIOUS
    <2> QED
        BY <2>1, MaxIs
<1>5. ASSUME NEW key, NEW value, key[1] = "interval_seconds", value[1] = "interval"
      PROVE  LastValues({1}, key, value) = f
    <2>1. {key[i] : i \in {1}} = {"interval_seconds"} /\ {i \in {1} : key[i] = "interval_seconds"} = {1}
        BY <1>5
    <2> QED
        BY <1>4, <1>5, <2>1 DEF LastValues
<1>6. PublicFields(t) = f
    <2>1. {i \in DOMAIN t : Uploadable(t[i])} = {1}
        BY <1>1, <1>3
    <2>2. KeyOf(t)[1] = "interval_seconds" /\ ValueOf(t)[1] = "interval"
        BY <1>1, <1>2 DEF KeyOf, ValueOf
    <2>3. PublicFields(t) = LastValues({1}, KeyOf(t), ValueOf(t))
        BY <1>1, <2>1, PublicFieldsAre
    <2> QED
        BY <1>5, <2>2, <2>3
<1>7. LastPublicValues(t) = f
    <2>1. Declared(t, 1) = {1}
        BY <1>1, <1>3 DEF Declared, Uploadable
    <2>2. KeyOf(t)[1] = "interval_seconds" /\ CopiedValueOf(t)[1] = "interval"
        BY <1>1, <1>2, <1>3 DEF KeyOf, CopiedValueOf
    <2>3. LastPublicValues(t) = LastValues({1}, KeyOf(t), CopiedValueOf(t))
        BY <1>1, <2>1, LastPublicValuesAre
    <2> QED
        BY <1>5, <2>2, <2>3
<1> QED
    BY <1>6, <1>7 DEF t

LEMMA IntervalTexts ==
  DOMAIN PublicFields(<<IntervalField>>) \cup Range(PublicFields(<<IntervalField>>))
     = {"interval_seconds", "interval"}
<1> DEFINE f == [k \in {"interval_seconds"} |-> "interval"]
<1>1. DOMAIN f \cup Range(f) = {"interval_seconds", "interval"}
    BY DEF Range
<1> QED
    BY <1>1, IntervalFields

-----------------------------------------------------------------------------
(* The steps on a thread's frame. *)

LEMMA Threads == Caller \subseteq Thread /\ Loop \subseteq Thread /\ Logger \subseteq Thread
  BY RuntimeAssumption DEF Thread

LEMMA NoFrameType == NoEnvelope \in Envelope /\ NoFrame \in Frame
<1>1. NoEnvelope \in Envelope
    BY DEF NoEnvelope, Envelope, Level, Name, Fields
<1> QED
    BY <1>1 DEF NoFrame, Frame

(* What LogEvent and Timeout begin with. *)
LEMMA BeginType ==
  ASSUME NEW args \in FieldArrays \cup {<<IntervalField>>}, NEW level \in Level,
         NEW event \in Name, NEW fields \in Fields
  PROVE  LET v == [NoEnvelope EXCEPT !.level = level, !.event = event, !.component = event, !.fields = fields]
         IN  /\ [args |-> args, envelope |-> v] \in Frame
             /\ v.event = event /\ v.component = event /\ v.fields = fields
<1> DEFINE v == [NoEnvelope EXCEPT !.level = level, !.event = event, !.component = event, !.fields = fields]
<1>1. v \in Envelope /\ v.event = event /\ v.component = event /\ v.fields = fields
    BY NoFrameType DEF Envelope
<1> QED
    BY <1>1 DEF Frame

LEMMA MetadataType ==
  ASSUME NEW f \in Frame, NEW a \in AppMetadata \cup {EmptyText}, NEW i \in InstallId \cup {EmptyText}
  PROVE  [f EXCEPT !.envelope.app = a, !.envelope.install = i] \in Frame
<1> DEFINE e == [f.envelope EXCEPT !.app = a, !.install = i]
<1>1. f.envelope \in Envelope
    BY DEF Frame
<1>2. e \in Envelope
    BY <1>1 DEF Envelope
<1>3. [f EXCEPT !.envelope.app = a, !.envelope.install = i] = [f EXCEPT !.envelope = e]
    BY <1>1 DEF Frame, Envelope
<1> QED
    BY <1>2, <1>3 DEF Frame

LEMMA SessionType ==
  ASSUME NEW f \in Frame, NEW s \in SessionId \cup {EmptyText}
  PROVE  LET g == [f EXCEPT !.envelope.session = s]
         IN  /\ g \in Frame
             /\ g.envelope.session = s
             /\ g.envelope.app = f.envelope.app /\ g.envelope.install = f.envelope.install
             /\ g.envelope.event = f.envelope.event /\ g.envelope.component = f.envelope.component
             /\ g.envelope.fields = f.envelope.fields
<1> DEFINE e == [f.envelope EXCEPT !.session = s]
           g == [f EXCEPT !.envelope.session = s]
<1>1. f.envelope \in Envelope
    BY DEF Frame
<1>2. /\ e \in Envelope /\ e.session = s /\ e.app = f.envelope.app /\ e.install = f.envelope.install
      /\ e.event = f.envelope.event /\ e.component = f.envelope.component
      /\ e.fields = f.envelope.fields
    BY <1>1 DEF Envelope
<1>3. g = [f EXCEPT !.envelope = e]
    BY <1>1 DEF Frame, Envelope
<1>4. g \in Frame /\ g.envelope = e
    BY <1>2, <1>3 DEF Frame
<1> QED
    BY <1>2, <1>4

-----------------------------------------------------------------------------
(* Types. *)

LEMMA GotoType ==
  ASSUME Types, NEW t \in Thread, NEW f \in Frame,
         NEW l \in {"idle", "locking", "building", "identifying", "storing"}, Goto(t, l, f)
  PROVE  /\ at' \in [Thread -> {"idle", "locking", "building", "identifying", "storing"}]
         /\ frame' \in [Thread -> Frame]
         /\ at'[t] = l /\ frame'[t] = f
         /\ \A u \in Thread \ {t} : at'[u] = at[u] /\ frame'[u] = frame[u]
  BY DEF Goto, Types

LEMMA NextTypes == Types /\ [Next]_vars => Types'
<1> SUFFICES ASSUME Types, [Next]_vars
             PROVE  Types'
    OBVIOUS
<1> DEFINE Settled == /\ database \in Path \cup {NoPath} /\ session \in SessionId \cup {EmptyText}
                      /\ app \in AppMetadata \cup {EmptyText}
                      /\ name \in HeartbeatName \cup {DefaultName}
                      /\ installId \in InstallId \cup {EmptyText}
           Logs == /\ at \in [Thread -> {"idle", "locking", "building", "identifying", "storing"}]
                   /\ frame \in [Thread -> Frame]
           Calls == pc \in [Caller -> {"idle", "spawn", "spawn_failed", "assign",
                                       "moving", "clearing", "join"}]
           Loops == /\ loop \in [Loop -> {"unborn", "starting", "waiting", "notified", "ended"}]
                    /\ terminated \in BOOLEAN
<1>0. (Types <=> Settled /\ Logs /\ Calls /\ Loops) /\ (Types' <=> Settled' /\ Logs' /\ Calls' /\ Loops')
    BY DEF Types
<1>1. ASSUME NEW c \in Caller, Configure(c) \/ SetInstallId(c) \/ SetSessionId(c) \/ SetAppMetadata(c)
      PROVE  Types'
    BY <1>1 DEF Types, Configure, SetInstallId, SetSessionId, SetAppMetadata, logging, settings, heartbeat
<1>2. ASSUME NEW c \in Logger, LogEvent(c)
      PROVE  Types'
    <2>1. PICK level \in LogLevel, event \in EventName, args \in FieldArrays :
             Goto(c, "locking",
                  [args |-> args,
                   envelope |-> [NoEnvelope EXCEPT !.level = LevelToString(level), !.event = event,
                                                   !.component = event,
                                                   !.fields = PublicFields(CopyFields(args))]])
        BY <1>2 DEF LogEvent
    <2>2. /\ LevelToString(level) \in Level /\ event \in Name
          /\ PublicFields(CopyFields(args)) \in Fields
        BY DEF LevelToString, Level, Name, Fields
    <2>3. Logs'
        BY <2>1, <2>2, BeginType, GotoType, Threads
    <2> QED
        BY <1>0, <1>2, <2>3 DEF LogEvent, settings, heartbeat
<1>3. ASSUME NEW c \in Logger, Lock(c)
      PROVE  Types'
    <2>1. frame[c] \in Frame
        BY Threads DEF Types
    <2>2. Logs'
        BY <1>3, <2>1, NoFrameType, GotoType, Threads DEF Lock
    <2> QED
        BY <1>0, <1>3, <2>2 DEF Lock, settings, heartbeat
<1>4. ASSUME NEW t \in Thread, ReadMetadata(t) \/ ReadSession(t)
      PROVE  Types'
    <2>1. frame[t] \in Frame
        BY DEF Types
    <2>2. /\ [frame[t] EXCEPT !.envelope.app = app, !.envelope.install = installId] \in Frame
          /\ [frame[t] EXCEPT !.envelope.session = session] \in Frame
        BY <2>1, MetadataType, SessionType DEF Types
    <2>3. Logs'
        BY <1>4, <2>2, GotoType DEF ReadMetadata, ReadSession
    <2> QED
        BY <1>0, <1>4, <2>3 DEF ReadMetadata, ReadSession, settings, heartbeat
<1>5. ASSUME NEW t \in Thread, Store(t)
      PROVE  Logs' /\ UNCHANGED settings
    BY <1>5, NoFrameType, GotoType DEF Store
<1>6. ASSUME NEW c \in Logger, StoreEvent(c)
      PROVE  Types'
    BY <1>0, <1>5, <1>6, Threads DEF StoreEvent, settings, heartbeat
<1>7. ASSUME NEW l \in Loop, StoreHeartbeat(l)
      PROVE  Types'
    <2>1. Loops'
        BY <1>0, <1>7 DEF StoreHeartbeat
    <2> QED
        BY <1>0, <1>5, <1>7, <2>1, Threads DEF StoreHeartbeat, settings
<1>8. ASSUME NEW l \in Loop, Timeout(l)
      PROVE  Types'
    <2>1. /\ name \in Name /\ "info" \in Level /\ PublicFields(<<IntervalField>>) \in Fields
          /\ NoEnvelope.level = "info"
        BY DEF Types, Name, Level, Fields, NoEnvelope
    <2> DEFINE v == [NoEnvelope EXCEPT !.event = name, !.component = name,
                                       !.fields = PublicFields(<<IntervalField>>)]
           w == [NoEnvelope EXCEPT !.level = "info", !.event = name, !.component = name,
                                   !.fields = PublicFields(<<IntervalField>>)]
    <2>2. v = w
        BY NoFrameType, <2>1 DEF Envelope
    <2>3. [args |-> <<IntervalField>>, envelope |-> w] \in Frame
        BY <2>1, BeginType
    <2>4. Logs'
        BY <1>8, <2>2, <2>3, GotoType, Threads DEF Timeout
    <2> QED
        BY <1>0, <1>8, <2>4 DEF Timeout, settings, heartbeat
<1>9. ASSUME NEW c \in Driver, StartHeartbeat(c)
      PROVE  Types'
    <2>1. Settled' /\ Logs' /\ Loops'
        BY <1>0, <1>9 DEF StartHeartbeat, HB!StartHeartbeat, logging
    <2>2. Calls'
        BY <1>0, <1>9 DEF StartHeartbeat, HB!StartHeartbeat, HB!Goto
    <2> QED
        BY <1>0, <2>1, <2>2
<1>10. ASSUME NEW c \in Driver, SpawnFailed(c) \/ StopHeartbeat(c) \/ OtherSteps(c)
       PROVE  Types'
    <2>1. Settled' /\ Logs'
        BY <1>0, <1>10 DEF SpawnFailed, StopHeartbeat, OtherSteps, HeartbeatStep, settings, logging
    <2>2. Calls' /\ Loops'
        <3>1. CASE SpawnFailed(c)
            BY <1>0, <3>1 DEF SpawnFailed, HB!SpawnFailed, HB!Goto
        <3>2. CASE StopHeartbeat(c)
            BY <1>0, <3>2 DEF StopHeartbeat, HB!StopHeartbeat, HB!Goto, HB!Notified
        <3>3. CASE OtherSteps(c)
            BY <1>0, <3>3 DEF OtherSteps, HB!Spawn, HB!SpawnThrows, HB!Assign, HB!StopSteps,
                              HB!MoveRead, HB!MoveClear, HB!Join, HB!Goto
        <3> QED
            BY <1>10, <3>1, <3>2, <3>3
    <2> QED
        BY <1>0, <2>1, <2>2
<1>11. ASSUME NEW l \in Loop, EnterLoop(l) \/ WakeUp(l) \/ TimeoutSilent(l)
       PROVE  Types'
    <2>1. Settled' /\ Logs'
        BY <1>0, <1>11 DEF EnterLoop, WakeUp, TimeoutSilent, HeartbeatStep, settings, logging
    <2>2. Calls' /\ Loops'
        BY <1>0, <1>11 DEF EnterLoop, WakeUp, TimeoutSilent, HB!EnterLoop, HB!WakeUp, HB!Timeout,
                           HB!Proceed, HB!calls
    <2> QED
        BY <1>0, <2>1, <2>2
<1>12. CASE UNCHANGED vars
    BY <1>12 DEF Types, vars, settings, logging, heartbeat
<1> QED
    BY <1>1, <1>2, <1>3, <1>4, <1>6, <1>7, <1>8, <1>9, <1>10, <1>11, <1>12 DEF Next

-----------------------------------------------------------------------------
(* The mutex and what is read under it. *)

LEMMA InFlightStays == Types /\ MutexHeld /\ InFlight /\ [Next]_vars => MutexHeld' /\ InFlight'
<1> SUFFICES ASSUME Types, MutexHeld, InFlight, [Next]_vars
             PROVE  MutexHeld' /\ InFlight'
    OBVIOUS
<1>0. at \in [Thread -> {"idle", "locking", "building", "identifying", "storing"}]
      /\ frame \in [Thread -> Frame]
      /\ loop \in [Loop -> {"unborn", "starting", "waiting", "notified", "ended"}]
    BY DEF Types
(* Nobody is inside, or those who are see nothing change. *)
<1>1. ASSUME \A t \in Thread : ~Inside(t)'
      PROVE  MutexHeld' /\ InFlight'
    BY <1>1, Threads DEF MutexHeld, InFlight
<1>2. ASSUME UNCHANGED <<settings, running, target, installId>>,
             \A t \in Thread : Inside(t)' => at'[t] = at[t] /\ frame'[t] = frame[t],
             \A l \in Loop : Inside(l)' => loop'[l] = loop[l],
             \A t \in Thread : Inside(t) => HB!MutexFree'
      PROVE  MutexHeld' /\ InFlight'
    <2>1. \A t \in Thread : Inside(t)' => Inside(t)
        BY <1>2 DEF Inside
    <2>2. MutexHeld'
        BY <1>2, <2>1 DEF MutexHeld
    <2>3. ASSUME NEW t \in Thread, Inside(t)'
          PROVE  UpToDate(t)'
        <3>1. UpToDate(t)
            BY <2>1, <2>3 DEF InFlight
        <3> QED
            BY <1>2, <2>3, <3>1 DEF UpToDate, settings
    <2>4. ASSUME NEW l \in Loop, Inside(l)'
          PROVE  StillDue(l)'
        <3>1. StillDue(l) /\ l \in Thread
            BY <2>1, <2>4, Threads DEF InFlight
        <3> QED
            BY <1>2, <2>4, <3>1 DEF StillDue, settings
    <2> QED
        BY <2>2, <2>3, <2>4 DEF InFlight
(* A thread that moves while the others are outside. *)
<1>3. ASSUME NEW t \in Thread, HB!MutexFree, UNCHANGED <<settings, heartbeat>>,
             \A u \in Thread \ {t} : ~Inside(u)',
             UpToDate(t)', t \in Loop => StillDue(t)'
      PROVE  MutexHeld' /\ InFlight'
    <2>1. HB!MutexFree'
        BY <1>3 DEF heartbeat, HB!MutexFree
    <2> QED
        BY <1>3, <2>1, Threads DEF MutexHeld, InFlight
<1>4. ASSUME Free, UNCHANGED at
      PROVE  MutexHeld' /\ InFlight'
    BY <1>1, <1>4 DEF Free, Inside
<1>5. ASSUME NEW c \in Caller, Configure(c) \/ SetInstallId(c) \/ SetSessionId(c) \/ SetAppMetadata(c)
      PROVE  MutexHeld' /\ InFlight'
    BY <1>4, <1>5 DEF Configure, SetInstallId, SetSessionId, SetAppMetadata, logging
<1>6. ASSUME NEW c \in Driver, StartHeartbeat(c) \/ SpawnFailed(c) \/ StopHeartbeat(c)
      PROVE  MutexHeld' /\ InFlight'
    BY <1>4, <1>6 DEF StartHeartbeat, SpawnFailed, StopHeartbeat, HeartbeatStep, logging
<1>7. ASSUME NEW l \in Loop, EnterLoop(l) \/ WakeUp(l) \/ TimeoutSilent(l)
      PROVE  MutexHeld' /\ InFlight'
    BY <1>4, <1>7 DEF EnterLoop, WakeUp, TimeoutSilent, HeartbeatStep, logging
<1>8. ASSUME NEW c \in Driver, OtherSteps(c)
      PROVE  MutexHeld' /\ InFlight'
    <2>1. UNCHANGED <<settings, logging, running, target, installId>>
        BY <1>8 DEF OtherSteps, HeartbeatStep, HB!Spawn, HB!SpawnThrows, HB!Assign, HB!StopSteps,
                    HB!MoveRead, HB!MoveClear, HB!Join
    <2>2. \A l \in Loop : loop[l] \in {"waiting", "notified"} => loop'[l] = loop[l]
        BY <1>0, <1>8 DEF OtherSteps, HB!Spawn, HB!SpawnThrows, HB!Assign, HB!StopSteps,
                    HB!MoveRead, HB!MoveClear, HB!Join, HB!Unused, HB!Alive
    <2>3. HB!MutexFree => HB!MutexFree'
        BY <1>8 DEF OtherSteps, HB!Spawn, HB!SpawnThrows, HB!Assign, HB!StopSteps,
                    HB!MoveRead, HB!MoveClear, HB!Join, HB!MutexFree, HB!Goto, Types
    <2>4. \A t \in Thread : Inside(t)' => at'[t] = at[t] /\ frame'[t] = frame[t] /\ Inside(t)
        BY <2>1 DEF logging, Inside
    <2>5. \A l \in Loop : Inside(l)' => loop'[l] = loop[l]
        BY <2>2, <2>4, Threads DEF InFlight, StillDue
    <2> QED
        BY <1>2, <2>1, <2>3, <2>4, <2>5 DEF MutexHeld
<1>9. ASSUME NEW c \in Logger, LogEvent(c)
      PROVE  MutexHeld' /\ InFlight'
    <2>1. at'[c] = "locking" /\ \A u \in Thread \ {c} : at'[u] = at[u] /\ frame'[u] = frame[u]
        BY <1>0, <1>9, Threads DEF LogEvent, Goto
    <2>2. UNCHANGED <<settings, running, target, installId, loop, pc>>
        BY <1>9 DEF LogEvent, heartbeat
    <2> QED
        BY <1>2, <2>1, <2>2 DEF Inside, MutexHeld, HB!MutexFree
<1>10. ASSUME NEW c \in Logger, Lock(c)
       PROVE  MutexHeld' /\ InFlight'
    <2>1. HB!MutexFree /\ \A u \in Thread \ {c} : ~Inside(u)'
        BY <1>0, <1>10 DEF Lock, Free, Goto, Inside
    <2>2. UNCHANGED <<settings, heartbeat>>
        BY <1>10 DEF Lock
    <2>3. CASE database = NoPath
        <3>1. at'[c] = "idle"
            BY <1>0, <1>10, <2>3, Threads DEF Lock, Goto
        <3> QED
            BY <1>1, <2>1, <3>1 DEF Inside
    <2>4. CASE database # NoPath
        <3>1. at'[c] = "building"
            BY <1>0, <1>10, <2>4, Threads DEF Lock, Goto
        <3>2. UpToDate(c)'
            BY <2>2, <2>4, <3>1 DEF UpToDate, settings
        <3> QED
            BY <1>3, <2>1, <2>2, <3>2, Threads, RuntimeAssumption
    <2> QED
        BY <2>3, <2>4
<1>11. ASSUME NEW l \in Loop, Timeout(l)
       PROVE  MutexHeld' /\ InFlight'
    <2> DEFINE v == [NoEnvelope EXCEPT !.event = name, !.component = name,
                                       !.fields = PublicFields(<<IntervalField>>)]
    <2>1. /\ HB!MutexFree /\ running /\ database # NoPath /\ target \in {EmptyText, installId}
          /\ loop[l] \in {"waiting", "notified"} /\ UNCHANGED <<settings, heartbeat>>
        BY <1>11 DEF Timeout, Free, HB!Emits, HB!RolloutMatch
    <2>2. /\ at'[l] = "building" /\ frame'[l] = [args |-> <<IntervalField>>, envelope |-> v]
          /\ \A u \in Thread \ {l} : ~Inside(u)'
        BY <1>0, <1>11, Threads DEF Timeout, Free, Goto, Inside
    <2>3. v.event = name /\ v.component = name /\ v.fields = PublicFields(<<IntervalField>>)
        BY NoFrameType DEF Envelope
    <2>4. frame'[l].envelope = v
        BY <2>2
    <2>5. UpToDate(l)' /\ StillDue(l)'
        BY <2>1, <2>2, <2>3, <2>4 DEF UpToDate, StillDue, settings, heartbeat
    <2> QED
        BY <1>3, <2>1, <2>2, <2>5, Threads
<1>12. ASSUME NEW t \in Thread, ReadMetadata(t) \/ ReadSession(t)
       PROVE  MutexHeld' /\ InFlight'
    <2>1. /\ Inside(t) /\ HB!MutexFree /\ UpToDate(t) /\ (t \in Loop => StillDue(t))
          /\ \A u \in Thread \ {t} : ~Inside(u)
        BY <1>12 DEF ReadMetadata, ReadSession, Inside, MutexHeld, InFlight
    <2>2. UNCHANGED <<settings, heartbeat>> /\ \A u \in Thread \ {t} : ~Inside(u)'
        BY <1>0, <1>12, <2>1 DEF ReadMetadata, ReadSession, Goto, Inside
    <2>3. frame[t] \in Frame
        BY <1>0
    <2>4. CASE ReadMetadata(t)
        <3>1. /\ at'[t] = "identifying"
              /\ frame'[t] = [frame[t] EXCEPT !.envelope.app = app, !.envelope.install = installId]
            BY <1>0, <2>4 DEF ReadMetadata, Goto
        <3>2. /\ frame'[t].envelope.app = app /\ frame'[t].envelope.install = installId
              /\ frame'[t].envelope.event = frame[t].envelope.event
              /\ frame'[t].envelope.component = frame[t].envelope.component
              /\ frame'[t].envelope.fields = frame[t].envelope.fields
            <4> DEFINE e == [frame[t].envelope EXCEPT !.app = app, !.install = installId]
            <4>1. frame[t].envelope \in Envelope /\ DOMAIN frame[t] = {"args", "envelope"}
                BY <2>3 DEF Frame
            <4>2. /\ e.app = app /\ e.install = installId
                  /\ e.event = frame[t].envelope.event /\ e.component = frame[t].envelope.component
                  /\ e.fields = frame[t].envelope.fields
                BY <4>1 DEF Envelope
            <4>3. frame'[t].envelope = e
                BY <3>1, <4>1 DEF Envelope
            <4> QED
                BY <4>2, <4>3
        <3> QED
            BY <1>3, <2>1, <2>2, <3>1, <3>2 DEF UpToDate, StillDue, settings, heartbeat
    <2>5. CASE ReadSession(t)
        <3>1. /\ at[t] = "identifying" /\ at'[t] = "storing"
              /\ frame'[t] = [frame[t] EXCEPT !.envelope.session = session]
            BY <1>0, <2>5 DEF ReadSession, Goto
        <3>2. /\ frame'[t].envelope.session = session
              /\ frame'[t].envelope.app = frame[t].envelope.app
              /\ frame'[t].envelope.install = frame[t].envelope.install
              /\ frame'[t].envelope.event = frame[t].envelope.event
              /\ frame'[t].envelope.component = frame[t].envelope.component
              /\ frame'[t].envelope.fields = frame[t].envelope.fields
            BY <2>3, <3>1, SessionType DEF Types
        <3> QED
            BY <1>3, <2>1, <2>2, <3>1, <3>2 DEF UpToDate, StillDue, settings, heartbeat
    <2> QED
        BY <1>12, <2>4, <2>5
<1>13. ASSUME NEW c \in Logger, StoreEvent(c)
       PROVE  MutexHeld' /\ InFlight'
    <2>1. at'[c] = "idle" /\ \A u \in Thread \ {c} : at'[u] = at[u] /\ frame'[u] = frame[u]
        BY <1>0, <1>13, Threads DEF StoreEvent, Store, Goto
    <2>2. UNCHANGED <<settings, running, target, installId, loop, pc>>
        BY <1>13 DEF StoreEvent, Store, heartbeat
    <2> QED
        BY <1>2, <2>1, <2>2 DEF Inside, MutexHeld, HB!MutexFree
<1>14. ASSUME NEW l \in Loop, StoreHeartbeat(l)
       PROVE  MutexHeld' /\ InFlight'
    <2>1. /\ at'[l] = "idle"
          /\ \A u \in Thread \ {l} : at'[u] = at[u] /\ frame'[u] = frame[u]
          /\ \A m \in Loop \ {l} : loop'[m] = loop[m]
        BY <1>0, <1>14, Threads DEF StoreHeartbeat, Store, Goto
    <2>2. UNCHANGED <<settings, running, target, installId, pc>>
        BY <1>14 DEF StoreHeartbeat, Store
    <2> QED
        BY <1>2, <2>1, <2>2 DEF Inside, MutexHeld, HB!MutexFree
<1>15. CASE UNCHANGED vars
    <2>1. UNCHANGED <<settings, at, frame, running, target, installId, loop, pc>>
        BY <1>15 DEF vars, logging, heartbeat
    <2> QED
        BY <1>2, <2>1 DEF Inside, MutexHeld, HB!MutexFree
<1> QED
    BY <1>5, <1>6, <1>7, <1>8, <1>9, <1>10, <1>11, <1>12, <1>13, <1>14, <1>15 DEF Next

-----------------------------------------------------------------------------
(* The fields on the way. *)

LEMMA NoFields == LastPublicValues(<<>>) = <<>>
<1>1. <<>> \in Seq({}) /\ Len(<<>>) = 0
    OBVIOUS
<1>2. Declared(<<>>, 0) = {}
    BY DEF Declared
<1>3. LastPublicValues(<<>>) = LastValues({}, KeyOf(<<>>), CopiedValueOf(<<>>))
    BY <1>1, <1>2, LastPublicValuesAre
<1> QED
    BY <1>3 DEF LastValues

(* Reading the session id leaves them alone. *)
LEMMA SessionKeepsFields ==
  ASSUME NEW f \in Frame, NEW s
  PROVE  LET g == [f EXCEPT !.envelope.session = s]
         IN  g.args = f.args /\ g.envelope.fields = f.envelope.fields
<1> DEFINE e == [f.envelope EXCEPT !.session = s]
<1>1. f.envelope \in Envelope /\ DOMAIN f = {"args", "envelope"}
    BY DEF Frame
<1>2. e.fields = f.envelope.fields
    BY <1>1 DEF Envelope
<1>3. [f EXCEPT !.envelope.session = s] = [f EXCEPT !.envelope = e]
    BY <1>1 DEF Envelope, Frame
<1> HIDE DEF e
<1> QED
    BY <1>1, <1>2, <1>3

LEMMA NextFields == Types /\ FieldsRight /\ [Next]_vars => FieldsRight'
<1> SUFFICES ASSUME Types, FieldsRight, [Next]_vars
             PROVE  FieldsRight'
    OBVIOUS
<1>1. frame \in [Thread -> Frame] /\ Types'
    BY NextTypes DEF Types
<1>2. CASE UNCHANGED frame
    BY <1>2 DEF FieldsRight
<1>3. ASSUME NEW t \in Thread, NEW l, NEW f, Goto(t, l, f), f.envelope.fields = LastPublicValues(f.args)
      PROVE  FieldsRight'
    <2>1. frame'[t] = f /\ \A u \in Thread \ {t} : frame'[u] = frame[u]
        BY <1>1, <1>3 DEF Goto
    <2> QED
        BY <1>3, <2>1 DEF FieldsRight
<1>4. NoFrame.envelope.fields = LastPublicValues(NoFrame.args)
    BY NoFields DEF NoFrame, NoEnvelope
<1>5. ASSUME NEW t \in Thread, ReadMetadata(t) \/ ReadSession(t)
      PROVE  FieldsRight'
    <2>1. frame[t] \in Frame /\ frame[t].envelope.fields = LastPublicValues(frame[t].args)
        BY <1>1 DEF FieldsRight
    <2>2. CASE ReadMetadata(t)
        <3> DEFINE f == [frame[t] EXCEPT !.envelope.app = app, !.envelope.install = installId]
        <3>1. f.args = frame[t].args /\ f.envelope.fields = frame[t].envelope.fields
            <4> DEFINE e == [frame[t].envelope EXCEPT !.app = app, !.install = installId]
            <4>1. frame[t].envelope \in Envelope /\ DOMAIN frame[t] = {"args", "envelope"}
                BY <2>1 DEF Frame
            <4>2. e.fields = frame[t].envelope.fields
                BY <4>1 DEF Envelope
            <4>3. f.envelope = e /\ f.args = frame[t].args
                BY <4>1 DEF Envelope
            <4> QED
                BY <4>2, <4>3
        <3>2. Goto(t, "identifying", f)
            BY <2>2 DEF ReadMetadata
        <3> HIDE DEF f
        <3> QED
            BY <1>3, <2>1, <3>1, <3>2
    <2>3. CASE ReadSession(t)
        <3> DEFINE f == [frame[t] EXCEPT !.envelope.session = session]
        <3>1. f.args = frame[t].args /\ f.envelope.fields = frame[t].envelope.fields
            BY <2>1, SessionKeepsFields
        <3>2. Goto(t, "storing", f)
            BY <2>3 DEF ReadSession
        <3> HIDE DEF f
        <3> QED
            BY <1>3, <2>1, <3>1, <3>2
    <2> QED
        BY <1>5, <2>2, <2>3
<1>6. ASSUME NEW c \in Logger, LogEvent(c)
      PROVE  FieldsRight'
    <2>1. PICK level \in LogLevel, event \in EventName, args \in FieldArrays :
             Goto(c, "locking",
                  [args |-> args,
                   envelope |-> [NoEnvelope EXCEPT !.level = LevelToString(level), !.event = event,
                                                   !.component = event,
                                                   !.fields = PublicFields(CopyFields(args))]])
        BY <1>6 DEF LogEvent
    <2> DEFINE v == [NoEnvelope EXCEPT !.level = LevelToString(level), !.event = event,
                                       !.component = event,
                                       !.fields = PublicFields(CopyFields(args))]
    <2>2. v.fields = PublicFields(CopyFields(args))
        BY DEF NoEnvelope
    <2>3. args \in Seq(FountainLogField)
        BY RuntimeAssumption
    <2>4. PublicFields(CopyFields(args)) = LastPublicValues(args)
        BY <2>3, FilterIsRight, LastPublicValuesAre
    <2>5. Goto(c, "locking", [args |-> args, envelope |-> v])
        BY <2>1
    <2> HIDE DEF v
    <2> QED
        BY <1>3, <2>2, <2>4, <2>5, Threads
<1>7. ASSUME NEW c \in Logger, Lock(c)
      PROVE  FieldsRight'
    <2>1. Goto(c, "idle", NoFrame) \/ Goto(c, "building", frame[c])
        BY <1>7 DEF Lock
    <2> QED
        BY <1>3, <1>4, <2>1, Threads DEF FieldsRight
<1>8. ASSUME NEW t \in Thread, Store(t)
      PROVE  FieldsRight'
    BY <1>3, <1>4, <1>8 DEF Store
<1>9. ASSUME NEW l \in Loop, Timeout(l)
      PROVE  FieldsRight'
    <2> DEFINE v == [NoEnvelope EXCEPT !.event = name, !.component = name,
                                       !.fields = PublicFields(<<IntervalField>>)]
    <2>1. v.fields = PublicFields(<<IntervalField>>)
        BY DEF NoEnvelope
    <2>2. Goto(l, "building", [args |-> <<IntervalField>>, envelope |-> v])
        BY <1>9 DEF Timeout
    <2> HIDE DEF v
    <2> QED
        BY <1>3, <2>1, <2>2, IntervalFields, Threads
<1> QED
    BY <1>2, <1>5, <1>6, <1>7, <1>8, <1>9, Threads
    DEF Next, vars, logging, Configure, SetInstallId, SetSessionId, SetAppMetadata, StoreEvent,
        StoreHeartbeat, StartHeartbeat, SpawnFailed, StopHeartbeat, OtherSteps, EnterLoop, WakeUp,
        TimeoutSilent, HeartbeatStep

-----------------------------------------------------------------------------
(* What is stored. *)

(* Every level has a group. *)
LEMMA EveryLevelInGroup ==
  ASSUME NEW level \in Level
  PROVE  \E g \in DOMAIN SeverityGroups : level \in SeverityGroups[g]
<1>1. DOMAIN SeverityGroups = 1 .. 4
    BY DEF SeverityGroups
<1>2. /\ SeverityGroups[1] = {"debug", "info"} /\ SeverityGroups[2] = {"warning"}
      /\ SeverityGroups[3] = {"error"} /\ SeverityGroups[4] = {"fault"}
    BY DEF SeverityGroups
<1> QED
    BY <1>1, <1>2 DEF Level

(* The parts of the invariant about the row that was stored last. *)
Stored ==
    /\ InsertType
    /\ StoresPublicFields
    /\ StoredOfOneMoment
    /\ HeartbeatTargeted
    /\ RowLimitReaches

LEMMA InsertsRight ==
  ASSUME Types, InFlight, FieldsRight, Stored, [Next]_vars
  PROVE  Stored'
<1>1. ASSUME insert' = NoInsert
      PROVE  Stored'
    BY <1>1 DEF Stored, InsertType, StoresPublicFields, StoredOfOneMoment, HeartbeatTargeted,
                RowLimitReaches
<1>2. ASSUME NEW t \in Thread, Store(t), UNCHANGED <<running, target, installId>>
      PROVE  Stored'
    <2> DEFINE e == frame[t].envelope
    <2>1. at[t] = "storing" /\ UNCHANGED settings
        BY <1>2 DEF Store
    <2>2. UpToDate(t) /\ (t \in Loop => StillDue(t))
        BY <2>1 DEF InFlight, Inside
    <2>3. e \in Envelope
        BY DEF Types, Frame
    <2>4. e.level \in Level
        BY <2>3 DEF Envelope
    <2>5. ASSUME insert' = [by |-> t, path |-> database, args |-> frame[t].args, envelope |-> e]
          PROVE  Stored'
        <3>1. /\ insert'.by = t /\ insert'.path = database /\ insert'.envelope = e
              /\ insert'.args = frame[t].args
            BY <2>5
        <3>2. StoredOfOneMoment'
            BY <1>2, <2>1, <2>2, <3>1 DEF UpToDate, StoredOfOneMoment, settings
        <3>3. HeartbeatTargeted'
            BY <1>2, <2>1, <2>2, <3>1 DEF UpToDate, StillDue, HeartbeatTargeted, settings
        <3>4. RowLimitReaches'
            BY <2>4, <3>1, EveryLevelInGroup DEF RowLimitReaches
        <3>5. StoresPublicFields'
            BY <3>1 DEF FieldsRight, StoresPublicFields
        <3>6. InsertType'
            BY <2>2, <2>3, <3>1 DEF UpToDate, InsertType, Types
        <3> QED
            BY <3>2, <3>3, <3>4, <3>5, <3>6 DEF Stored
    <2> QED
        BY <1>1, <1>2, <2>5 DEF Store
<1>3. ASSUME NEW c \in Logger, StoreEvent(c)
      PROVE  Stored'
    BY <1>2, <1>3, Threads DEF StoreEvent, heartbeat
<1>4. ASSUME NEW l \in Loop, StoreHeartbeat(l)
      PROVE  Stored'
    BY <1>2, <1>4, Threads DEF StoreHeartbeat
<1>5. CASE UNCHANGED vars
    BY <1>5 DEF vars, settings, heartbeat, Stored, InsertType, StoresPublicFields,
                StoredOfOneMoment, HeartbeatTargeted, RowLimitReaches
<1> QED
    BY <1>1, <1>3, <1>4, <1>5
    DEF Next, Configure, SetInstallId, SetSessionId, SetAppMetadata, LogEvent, Lock, StartHeartbeat,
        SpawnFailed, StopHeartbeat, OtherSteps, ReadMetadata, ReadSession, EnterLoop, WakeUp,
        TimeoutSilent, Timeout, HeartbeatStep

LEMMA InitRuntime == Init => RuntimeInv
<1> SUFFICES ASSUME Init
             PROVE  RuntimeInv
    OBVIOUS
<1>1. Types
    BY NoFrameType DEF Init, Types
<1>2. \A t \in Thread : ~Inside(t)
    BY DEF Init, Inside
<1>3. MutexHeld /\ InFlight
    BY <1>2, Threads DEF MutexHeld, InFlight
<1>4. FieldsRight
    BY NoFields DEF Init, FieldsRight, NoFrame, NoEnvelope
<1> QED
    BY <1>1, <1>3, <1>4
    DEF Init, RuntimeInv, InsertType, StoresPublicFields, StoredOfOneMoment, HeartbeatTargeted,
        RowLimitReaches

LEMMA NextRuntime == RuntimeInv /\ [Next]_vars => RuntimeInv'
  BY NextTypes, InFlightStays, NextFields, InsertsRight DEF RuntimeInv, Stored

LEMMA RuntimeInvariant == Spec => []RuntimeInv
  BY InitRuntime, NextRuntime, PTL DEF Spec

(* No null pointer reaches the fields of an envelope. *)
LEMMA FieldTexts ==
  ASSUME NEW fields \in Fields
  PROVE  NoText \notin DOMAIN fields \cup Range(fields)
<1>1. CASE fields = <<>>
    <2>1. DOMAIN fields = {}
        BY <1>1
    <2> QED
        BY <2>1 DEF Range
<1>2. CASE fields = PublicFields(<<IntervalField>>)
    BY <1>2, IntervalTexts, RuntimeAssumption
<1>3. ASSUME NEW args \in FieldArrays, fields = PublicFields(CopyFields(args))
      PROVE  NoText \notin DOMAIN fields \cup Range(fields)
    <2> DEFINE n == Len(args)
               P == Declared(args, n)
               K == KeyOf(args)
               V == CopiedValueOf(args)
    <2>1. args \in Seq(FountainLogField) /\ n \in Nat /\ DOMAIN args = 1 .. n
        BY RuntimeAssumption
    <2>2. fields = LastValues(P, K, V)
        BY <1>3, <2>1, FilterIsRight
    <2>3. ASSUME NEW i \in P
          PROVE  i \in 1 .. n /\ K[i] # NoText /\ V[i] # NoText
        <3>1. i \in 1 .. n /\ HasKey(args[i]) /\ args[i].privacy = "public" /\ args[i].type \in ValueType
            BY DEF Declared
        <3>2. args[i] \in FountainLogField
            BY <2>1, <3>1
        <3>3. K[i] = args[i].key /\ V[i] = Copy(args[i]).value
            BY <2>1, <3>1 DEF KeyOf, CopiedValueOf
        <3> QED
            BY <3>1, <3>2, <3>3, CopyFacts DEF HasKey
    <2>4. P \in SUBSET (1 .. n)
        BY <2>3
    <2> HIDE DEF P, K, V
    <2>5. ASSUME NEW k \in {K[i] : i \in P}
          PROVE  k # NoText /\ V[Max({i \in P : K[i] = k})] # NoText
        <3> DEFINE S == {i \in P : K[i] = k}
        <3>1. S # {} /\ S \in SUBSET (1 .. n) /\ S \subseteq P
            BY <2>4, <2>5
        <3>2. Max(S) \in P
            BY <2>1, <3>1, MaxFacts
        <3> QED
            BY <2>3, <2>5, <3>2
    <2> QED
        BY <2>2, <2>5 DEF LastValues, Range
<1> QED
    BY <1>1, <1>2, <1>3 DEF Fields

LEMMA EnvelopeTexts ==
  ASSUME NEW e \in Envelope
  PROVE  NoText \notin Texts(e)
<1>1. /\ {e.event, e.component} \subseteq Name /\ e.app \in AppMetadata \cup {EmptyText}
      /\ e.install \in InstallId \cup {EmptyText} /\ e.session \in SessionId \cup {EmptyText}
      /\ e.fields \in Fields
    BY DEF Envelope
<1>2. NoText \notin {e.event, e.component, e.app, e.install, e.session}
    BY <1>1, RuntimeAssumption, EnvelopeAssumption DEF Name
<1> QED
    BY <1>1, <1>2, FieldTexts DEF Texts

(* What is configured, set and stored keeps its type, no null pointer gets    *)
(* into an envelope, and at most one thread is between its lock and its       *)
(* unlock.                                                                    *)
THEOREM TypeCorrect == Spec => []TypeOK
<1>1. ASSUME RuntimeInv
      PROVE  TypeOK
    <2>1. Types /\ MutexHeld
        BY <1>1 DEF RuntimeInv
    <2>2. ASSUME NEW t \in Thread
          PROVE  NoText \notin Texts(frame[t].envelope)
        <3>1. frame[t].envelope \in Envelope
            BY <2>1 DEF Types, Frame
        <3> QED
            BY <3>1, EnvelopeTexts
    <2>3. \A t, u \in Thread : {at[t], at[u]} \subseteq {"building", "identifying", "storing"} => t = u
        BY <2>1 DEF MutexHeld, Inside
    <2>4. insert # NoInsert => /\ insert.by \in Thread /\ insert.path \in Path
                               /\ NoText \notin Texts(insert.envelope)
        BY <1>1, EnvelopeTexts DEF RuntimeInv, InsertType
    <2> QED
        BY <2>1, <2>2, <2>3, <2>4 DEF Types, TypeOK
<1> QED
    BY <1>1, RuntimeInvariant, PTL

(* Whatever array the host passes, what is stored of it is, for each key, the *)
(* last value declared public, and nothing else.                              *)
THEOREM OnlyPublicFields == Spec => []StoresPublicFields
<1>1. RuntimeInv => StoresPublicFields
    BY DEF RuntimeInv
<1> QED
    BY <1>1, RuntimeInvariant, PTL

(* An envelope is of one moment: the metadata, the install id, the session id *)
(* and the database it is stored with were in force together, whatever the    *)
(* other threads configure while it is built.                                 *)
THEOREM OneMoment == Spec => []StoredOfOneMoment
<1>1. RuntimeInv => StoredOfOneMoment
    BY DEF RuntimeInv
<1> QED
    BY <1>1, RuntimeInvariant, PTL

(* A heartbeat is stored only while the heartbeat is on, with the install id  *)
(* it is rolled out to and the name the last start gave it.                   *)
THEOREM OnTarget == Spec => []HeartbeatTargeted
<1>1. RuntimeInv => HeartbeatTargeted
    BY DEF RuntimeInv
<1> QED
    BY <1>1, RuntimeInvariant, PTL

(* Whatever level the host passes, the stored event is in a group that the    *)
(* row limit deletes from.                                                    *)
THEOREM InReachOfLimit == Spec => []RowLimitReaches
<1>1. RuntimeInv => RowLimitReaches
    BY DEF RuntimeInv
<1> QED
    BY <1>1, RuntimeInvariant, PTL

-----------------------------------------------------------------------------
(* The heartbeat of the composition is Heartbeat. *)

(* A heartbeat dumps exactly when Heartbeat takes its strings for valid. *)
LEMMA DumpsWhenValid ==
  ASSUME RuntimeInv, NEW l \in Loop, at[l] = "storing"
  PROVE  Dumps(frame[l].envelope) <=> ({installId, session, app, name} \cap NotUtf8 = {})
<1> DEFINE e == frame[l].envelope
<1>1. UpToDate(l) /\ StillDue(l)
    BY Threads DEF RuntimeInv, InFlight, Inside
<1>2. /\ e.event = name /\ e.component = name /\ e.app = app /\ e.install = installId
      /\ e.session = session /\ e.fields = PublicFields(<<IntervalField>>)
    BY <1>1 DEF UpToDate, StillDue
<1>3. Texts(e) = {name, app, installId, session} \cup {"interval_seconds", "interval"}
    BY <1>2, IntervalTexts DEF Texts
<1> QED
    BY <1>3, RuntimeAssumption DEF Dumps

LEMMA TextsValid ==
  ASSUME Types', ~InvalidText
  PROVE  {installId', session', app', name'} \cap NotUtf8 = {}
  BY RuntimeAssumption, EnvelopeAssumption DEF Types

LEMMA HeartbeatSteps ==
  ASSUME RuntimeInv, [Next]_vars
  PROVE  [HB!Next]_(HB!vars)
<1>0. Types'
    BY NextTypes DEF RuntimeInv
<1>1. ASSUME NEW c \in Caller, Configure(c)
      PROVE  HB!Configure(c)
    BY <1>1 DEF Configure, Idle, Free, HB!Configure, HB!calls, heartbeat
<1>2. ASSUME NEW c \in Caller, SetInstallId(c) \/ SetSessionId(c) \/ SetAppMetadata(c)
      PROVE  HB!SetIdentity(c)
    <2>1. HB!Begin(c) /\ HB!MutexFree /\ installId' \in InstallId \cup {EmptyText}
        BY <1>0, <1>2 DEF SetInstallId, SetSessionId, SetAppMetadata, Idle, Free, Types
    <2>2. UNCHANGED <<running, target, database, handle, HB!calls, loop, beat, terminated>>
        BY <1>2 DEF SetInstallId, SetSessionId, SetAppMetadata, settings, heartbeat, HB!calls
    <2>3. ({installId', session', app', name'} \cap NotUtf8 = {}) \in HB!Validity
        BY <1>0, TextsValid, RuntimeAssumption DEF HB!Validity
    <2> QED
        BY <2>1, <2>2, <2>3 DEF HB!SetIdentity
<1>3. ASSUME UNCHANGED <<settings, heartbeat>>
      PROVE  UNCHANGED HB!vars
    BY <1>3 DEF settings, heartbeat, HB!vars, HB!calls
<1>4. ASSUME NEW l \in Loop, StoreHeartbeat(l)
      PROVE  HB!Timeout(l)
    <2>1. at[l] = "storing" /\ ~terminated /\ UNCHANGED settings
        BY <1>4 DEF StoreHeartbeat, Store
    <2>2. /\ HB!MutexFree /\ loop[l] \in {"waiting", "notified"}
          /\ running /\ database # NoPath /\ target \in {EmptyText, installId}
        BY <2>1, Threads DEF RuntimeInv, MutexHeld, InFlight, UpToDate, StillDue, Inside
    <2>3. HB!Emits
        BY <2>2 DEF HB!Emits, HB!RolloutMatch
    <2>4. Dumps(frame[l].envelope) <=> ({installId, session, app, name} \cap NotUtf8 = {})
        BY <2>1, DumpsWhenValid
    <2>5. HB!Proceed(l) /\ UNCHANGED <<running, target, installId, handle, pc, mine, overlapped>>
        BY <1>4 DEF StoreHeartbeat, HB!Proceed
    <2>6. /\ terminated' = (HB!Emits /\ ~({installId, session, app, name} \cap NotUtf8 = {}))
          /\ beat' = IF HB!Emits /\ ({installId, session, app, name} \cap NotUtf8 = {})
                     THEN ~beat ELSE beat
        <3>1. terminated = FALSE
            BY <2>1 DEF RuntimeInv, Types
        <3>2. CASE Dumps(frame[l].envelope)
            BY <1>4, <2>3, <2>4, <3>1, <3>2 DEF StoreHeartbeat
        <3>3. CASE ~Dumps(frame[l].envelope)
            BY <1>4, <2>3, <2>4, <3>3 DEF StoreHeartbeat
        <3> QED
            BY <3>2, <3>3
    <2> QED
        BY <2>1, <2>2, <2>5, <2>6 DEF HB!Timeout, HB!calls, settings
<1>5. ASSUME NEW c \in Driver, StartHeartbeat(c) \/ SpawnFailed(c) \/ StopHeartbeat(c) \/ OtherSteps(c)
      PROVE  HB!StartHeartbeat(c) \/ HB!StartSteps(c) \/ HB!StopHeartbeat(c) \/ HB!StopSteps(c)
    BY <1>5 DEF StartHeartbeat, SpawnFailed, StopHeartbeat, OtherSteps, HB!StartSteps
<1>6. ASSUME NEW l \in Loop, EnterLoop(l) \/ WakeUp(l) \/ TimeoutSilent(l)
      PROVE  HB!LoopSteps(l)
    BY <1>6 DEF EnterLoop, WakeUp, TimeoutSilent, HB!LoopSteps
<1>7. ASSUME NEW t \in Thread, ReadMetadata(t) \/ ReadSession(t)
      PROVE  UNCHANGED HB!vars
    BY <1>3, <1>7 DEF ReadMetadata, ReadSession
<1>8. ASSUME NEW c \in Logger, LogEvent(c) \/ Lock(c) \/ StoreEvent(c)
      PROVE  UNCHANGED HB!vars
    BY <1>3, <1>8 DEF LogEvent, Lock, StoreEvent, Store
<1>9. ASSUME NEW l \in Loop, Timeout(l)
      PROVE  UNCHANGED HB!vars
    BY <1>3, <1>9 DEF Timeout
<1>10. CASE UNCHANGED vars
    BY <1>3, <1>10 DEF vars
<1> QED
    BY <1>1, <1>2, <1>4, <1>5, <1>6, <1>7, <1>8, <1>9, <1>10, RuntimeAssumption
    DEF Next, HB!Next, HB!LoopSteps

(* Heartbeat is right to take a time-out, from the look at the flag to the    *)
(* end of the INSERT, for one step: the composition implements Heartbeat,     *)
(* whatever other threads log and set meanwhile.                              *)
THEOREM HeartbeatIsAtomic == Spec => HeartbeatAtomic
<1>1. Init => HB!Init
    BY RuntimeAssumption, EnvelopeAssumption DEF Init, HB!Init
<1> QED
    BY <1>1, RuntimeInvariant, HeartbeatSteps, PTL DEF Spec, HeartbeatAtomic, HB!Spec

=============================================================================
