------------------------ MODULE QueueRepositoryProofs ------------------------
(***************************************************************************)
(* Theorems about the event queue, for any number of threads, processes,   *)
(* events and batches, and for every value of its limits.                  *)
(***************************************************************************)
EXTENDS QueueRepository, FiniteSetTheorems, TLAPS

-----------------------------------------------------------------------------
(* The operations on the table keep its rows well formed. *)

Table == [Id -> Row]

LEMMA AbsentRowType == AbsentRow \in Row
  BY QueueAssumption DEF AbsentRow, Row, State

LEMMA NewRowType ==
  ASSUME now \in Nat, NEW level \in Level, NEW size \in Size
  PROVE  NewRow(level, size) \in Row
  BY QueueAssumption DEF NewRow, Row, State

LEMMA DeleteType ==
  ASSUME NEW q \in Table, NEW S
  PROVE  Delete(q, S) \in Table
  BY AbsentRowType DEF Delete, Table

LEMMA ClaimRowsType ==
  ASSUME now \in Nat, NEW q \in Table, NEW S, NEW b \in Batch
  PROVE  ClaimRows(q, S, b) \in Table
<1>1. now + StaleTimeout \in Nat
    BY QueueAssumption
<1> DEFINE claimed(i) == [q[i] EXCEPT !.state = "uploading", !.batch = b,
                                      !.nextAttempt = now + StaleTimeout]
<1>2. ASSUME NEW i \in Id
      PROVE  q[i] \in Row /\ claimed(i) \in Row
    BY <1>1 DEF Table, Row, State
<1> QED
    BY <1>2 DEF ClaimRows, Table

LEMMA ResetRowsType ==
  ASSUME NEW q \in Table, NEW S
  PROVE  ResetRows(q, S) \in Table
  BY DEF ResetRows, Table, Row, State

LEMMA BackoffDelaysType ==
  ASSUME NEW n \in Nat \ {0}
  PROVE  BackoffDelays(n) \subseteq Nat
<1>1. Len(BackoffTable) \in Nat \ {0} /\ BackoffTable \in [1 .. Len(BackoffTable) -> SUBSET Nat]
    BY QueueAssumption
<1>2. AtMost(n, Len(BackoffTable)) \in 1 .. Len(BackoffTable)
    BY <1>1 DEF AtMost
<1> QED
    BY <1>1, <1>2 DEF BackoffDelays

LEMMA DelayType ==
  ASSUME NEW f \in Frame, NEW delay \in Delay(f)
  PROVE  \A i \in f.selected : delay[i] \in Nat
<1> SUFFICES ASSUME NEW i \in f.selected
             PROVE  delay[i] \in Nat
    OBVIOUS
<1>1. f.attempts[i] + 1 \in Nat \ {0}
    BY DEF Frame
<1> QED
    BY <1>1, BackoffDelaysType DEF Delay

LEMMA FailRowsType ==
  ASSUME NEW q \in Table, NEW f \in Frame, NEW S \in SUBSET f.selected, NEW delay \in Delay(f)
  PROVE  FailRows(q, f, S, delay) \in Table
<1>1. ASSUME NEW r \in Row
      PROVE  DropRow(r) \in Row
    BY DEF Row, State, DropRow
<1>2. ASSUME NEW i \in S
      PROVE  f.attempts[i] + 1 \in Nat /\ f.at + delay[i] \in Nat
    BY DelayType DEF Frame
<1>3. ASSUME NEW r \in Row, NEW m \in Nat, NEW n \in Nat
      PROVE  RetryRow(r, m, n) \in Row
    BY DEF Row, State, RetryRow
<1> QED
    BY <1>1, <1>2, <1>3 DEF FailRows, Table

(* What a step does to the table and its durable copy. *)
LEMMA WriteEffect ==
  ASSUME NEW p, NEW q, Write(p, q)
  PROVE  queue' = q /\ committed' \in {committed, q} /\ wedged' = wedged
  BY DEF Write

LEMMA AttemptEffect ==
  ASSUME NEW p, NEW q, Attempt(p, q)
  PROVE  queue' \in {queue, q} /\ committed' \in {committed, q} /\ wedged' = wedged
  BY DEF Attempt, Write, tables

LEMMA CloseConnectionEffect ==
  ASSUME NEW p, CloseConnection(p)
  PROVE  queue' \in {queue, committed} /\ committed' = committed /\ wedged' \in {wedged, NoProc}
  BY DEF CloseConnection

(* The steps with a choice in them, with their choice named. *)
LEMMA ClaimStep ==
  ASSUME NEW t \in Thread, CreateUploadBatch(t)
  PROVE  \E b \in FreshBatch, S \in SUBSET Eligible(queue) :
            /\ wedged = NoProc
            /\ Write(ProcOf[t], ClaimRows(queue, S, b))
            /\ carried' = [carried EXCEPT ![b] = S]
            /\ deadline' = [deadline EXCEPT ![b] = now + StaleTimeout]
            /\ Goto(t, "copying", [IdleFrame EXCEPT !.batch = b])
<1>1. ASSUME NEW limit, NEW S \in Fetched(Claim(limit))
      PROVE  S \in SUBSET Eligible(queue)
    BY DEF Fetched, Claim, ClaimedIds, Candidates
<1> QED
    BY <1>1 DEF CreateUploadBatch, CanBegin

FailFrame(q, b, status, S) ==
    [IdleFrame EXCEPT
       !.batch = b, !.at = now, !.status = status, !.selected = S,
       !.attempts = [i \in Id |-> IF i \in S THEN q[i].attempts ELSE 0]]

LEMMA SelectStep ==
  ASSUME NEW t \in Thread, MarkUploadBatchFailed(t)
  PROVE  \E b \in handed, status \in HttpStatus :
         \E S \in SUBSET InBatch(View(ProcOf[t]), b) :
            /\ Report(b, status)
            /\ \/ UNCHANGED <<pc, frame>>
               \/ Goto(t, "failing", FailFrame(View(ProcOf[t]), b, status, S))
<1>1. ASSUME NEW R, NEW S \in Fetched(R)
      PROVE  S \in SUBSET R
    BY DEF Fetched
<1>2. PICK b \in handed, status \in HttpStatus : \E S \in Fetched(InBatch(View(ProcOf[t]), b)) :
          /\ Report(b, status)
          /\ \/ UNCHANGED <<pc, frame>>
             \/ Goto(t, "failing", FailFrame(View(ProcOf[t]), b, status, S))
    BY Zenon DEF MarkUploadBatchFailed, FailFrame
<1> QED
    BY <1>1, <1>2

LEMMA FailStep ==
  ASSUME NEW t \in Thread, FailBatch(t)
  PROVE  \/ UNCHANGED tables
         \/ \E delay \in Delay(frame[t]), S \in SUBSET frame[t].selected :
               /\ wedged = NoProc
               /\ \/ Write(ProcOf[t], FailRows(queue, frame[t], S, delay))
                  \/ /\ Faults \cap {"commit", "exception"} # {}
                     /\ Wedge(ProcOf[t], FailRows(queue, frame[t], S, delay))
  BY DEF FailBatch, CanBegin

-----------------------------------------------------------------------------
(* Type correctness.  A call that copies or fails a batch has its id; one *)
(* that prunes by age has a time the clock has shown.                     *)

CallOK ==
    \A t \in Thread :
        /\ pc[t] \in {"copying", "failing"} => frame[t].batch \in Batch
        /\ pc[t] = "prune_old" => frame[t].at <= peak

TypeInv == TypeOK /\ CallOK

LEMMA IdleFrameType == IdleFrame \in Frame
  BY DEF IdleFrame, Frame

LEMMA FailFrameFields ==
  ASSUME NEW q, NEW b, NEW status, NEW S
  PROVE  /\ FailFrame(q, b, status, S).batch = b
         /\ FailFrame(q, b, status, S).status = status
         /\ FailFrame(q, b, status, S).selected = S
         /\ S \subseteq Id => \A i \in S : FailFrame(q, b, status, S).attempts[i] = q[i].attempts
  BY DEF FailFrame, IdleFrame

LEMMA FailFrameType ==
  ASSUME now \in Nat, NEW q \in Table, NEW b \in Batch, NEW status \in HttpStatus, NEW S \in SUBSET Id
  PROVE  FailFrame(q, b, status, S) \in Frame
<1> DEFINE attempts == [i \in Id |-> IF i \in S THEN q[i].attempts ELSE 0]
<1>1. attempts \in [Id -> Nat]
    BY DEF Table, Row
<1>2. ASSUME NEW f \in Frame
      PROVE  /\ [f EXCEPT !.batch = b] \in Frame
             /\ [f EXCEPT !.at = now] \in Frame /\ [f EXCEPT !.status = status] \in Frame
             /\ [f EXCEPT !.selected = S] \in Frame
    BY DEF Frame
<1>3. ASSUME NEW f \in Frame
      PROVE  [f EXCEPT !.attempts = attempts] \in Frame
    BY <1>1 DEF Frame
<1> QED
    BY <1>2, <1>3, IdleFrameType DEF FailFrame

LEMMA GotoType ==
  ASSUME TypeInv, NEW t \in Thread, NEW l \in Label, NEW f \in Frame, Goto(t, l, f),
         peak' = peak,
         l \in {"copying", "failing"} => f.batch \in Batch,
         l = "prune_old" => f.at <= peak
  PROVE  pc' \in [Thread -> Label] /\ frame' \in [Thread -> Frame] /\ CallOK'
  BY DEF TypeInv, TypeOK, CallOK, Goto

LEMMA ReturnType ==
  ASSUME TypeInv, NEW t \in Thread, peak' = peak, Return(t)
  PROVE  pc' \in [Thread -> Label] /\ frame' \in [Thread -> Frame] /\ CallOK'
  BY GotoType, IdleFrameType DEF Return, Label

LEMMA AdvanceType ==
  ASSUME TypeInv, NEW t \in Thread, NEW excess \in Int, NEW g \in Nat,
         peak' = peak, Advance(t, excess, g)
  PROVE  pc' \in [Thread -> Label] /\ frame' \in [Thread -> Frame] /\ CallOK'
<1> DEFINE next == [IdleFrame EXCEPT !.excess = excess, !.group = g + 1]
<1>1. ASSUME NEW f \in Frame
      PROVE  [f EXCEPT !.excess = excess] \in Frame /\ [f EXCEPT !.group = g + 1] \in Frame
    BY DEF Frame
<1>2. next \in Frame
    BY <1>1, IdleFrameType
<1>3. CASE Return(t)
    BY <1>3, ReturnType
<1>4. CASE Goto(t, "select_victims", next)
    BY <1>2, <1>4, GotoType DEF Label
<1> QED
    BY <1>3, <1>4 DEF Advance

LEMMA SelectedFinite ==
  ASSUME NEW S \in SUBSET Id
  PROVE  Cardinality(S) \in Nat
<1>1. 1 \in Int /\ MaxEvents \in Int
    BY QueueAssumption
<1>2. IsFiniteSet(Id)
    BY <1>1, FS_Interval DEF Id
<1>3. IsFiniteSet(S)
    BY <1>2, FS_Subset
<1> QED
    BY <1>3, FS_CardinalityType

LEMMA InitType == Init => TypeInv
<1> SUFFICES ASSUME Init
             PROVE  TypeInv
    OBVIOUS
<1>1. queue \in [Id -> Row] /\ committed \in [Id -> Row]
    BY AbsentRowType DEF Init
<1>2. frame \in [Thread -> Frame] /\ pc \in [Thread -> Label]
    BY IdleFrameType DEF Init, Label
<1> QED
    BY <1>1, <1>2, QueueAssumption DEF Init, TypeInv, TypeOK, CallOK

LEMMA NextType == TypeInv /\ [Next]_vars => TypeInv'
<1> SUFFICES ASSUME TypeInv, [Next]_vars
             PROVE  TypeInv'
    OBVIOUS
<1>0. TypeOK /\ CallOK /\ queue \in Table /\ committed \in Table
    BY DEF TypeInv, TypeOK, Table
<1>1. ASSUME NEW t \in Thread, Configure(t)
      PROVE  TypeInv'
    <2>1. ProcOf[t] \in Proc
        BY QueueAssumption
    <2>2. queue' \in Table /\ committed' \in Table /\ wedged' \in Proc \cup {NoProc}
        BY <1>1, <1>0, CloseConnectionEffect DEF Configure, TypeOK
    <2> QED
        BY <1>1, <1>0, <2>1, <2>2 DEF Configure, history, TypeInv, TypeOK, CallOK, Table
<1>2. ASSUME NEW t \in Thread, InsertEvent(t)
      PROVE  TypeInv'
    <2>1. PICK level \in Level, size \in Size :
              Write(ProcOf[t], [queue EXCEPT ![nextId] = NewRow(level, size)])
        BY <1>2 DEF InsertEvent
    <2>2. [queue EXCEPT ![nextId] = NewRow(level, size)] \in Table
        BY <1>0, NewRowType DEF TypeOK, Table
    <2>3. queue' \in Table /\ committed' \in Table /\ wedged' = wedged
        BY <1>0, <2>1, <2>2, WriteEffect
    <2>4. nextId' \in 1 .. MaxEvents + 1
        BY <1>2, <1>0, QueueAssumption DEF InsertEvent, TypeOK, Id
    <2> QED
        BY <1>2, <1>0, <2>3, <2>4 DEF InsertEvent, history, TypeInv, TypeOK, CallOK, Table
<1>3. ASSUME NEW t \in Thread, CreateUploadBatch(t)
      PROVE  TypeInv'
    <2>2. PICK b \in FreshBatch, S \in SUBSET Eligible(queue) :
              /\ Write(ProcOf[t], ClaimRows(queue, S, b))
              /\ carried' = [carried EXCEPT ![b] = S]
              /\ deadline' = [deadline EXCEPT ![b] = now + StaleTimeout]
              /\ Goto(t, "copying", [IdleFrame EXCEPT !.batch = b])
        BY <1>3, ClaimStep
    <2>3. S \subseteq Id /\ b \in Batch /\ now \in Nat /\ now + StaleTimeout \in Nat
        BY <1>0, QueueAssumption DEF FreshBatch, TypeOK, Eligible
    <2>4. queue' \in Table /\ committed' \in Table /\ wedged' = wedged
        BY <1>0, <2>2, <2>3, ClaimRowsType, WriteEffect
    <2>5. [IdleFrame EXCEPT !.batch = b] \in Frame /\ [IdleFrame EXCEPT !.batch = b].batch = b
        BY <2>3, IdleFrameType DEF IdleFrame, Frame
    <2>6. pc' \in [Thread -> Label] /\ frame' \in [Thread -> Frame] /\ CallOK'
        BY <1>3, <2>2, <2>3, <2>5, GotoType DEF CreateUploadBatch, Label
    <2>7. carried' \in [Batch -> SUBSET Id] /\ deadline' \in [Batch -> Nat]
        BY <1>0, <2>2, <2>3 DEF TypeOK
    <2> QED
        BY <1>3, <1>0, <2>4, <2>6, <2>7 DEF CreateUploadBatch, TypeInv, TypeOK, Table
<1>4. ASSUME NEW t \in Thread, CreateUploadBatchThrows(t)
      PROVE  TypeInv'
    BY <1>4, <1>0, QueueAssumption
    DEF CreateUploadBatchThrows, Wedge, history, TypeInv, TypeOK, CallOK
<1>5. ASSUME NEW t \in Thread, MarkUploadBatchSucceeded(t)
      PROVE  TypeInv'
    <2>1. PICK b \in handed : /\ Report(b, 200)
                              /\ Attempt(ProcOf[t], Delete(queue, InBatch(queue, b)))
        BY <1>5 DEF MarkUploadBatchSucceeded
    <2>2. queue' \in Table /\ committed' \in Table /\ wedged' = wedged
        BY <1>0, <2>1, DeleteType, AttemptEffect
    <2>3. reported' \in [Batch -> SUBSET (HttpStatus \cup {200})]
        BY <1>0, <2>1 DEF TypeOK, Report
    <2> QED
        BY <1>5, <1>0, <2>2, <2>3 DEF MarkUploadBatchSucceeded, TypeInv, TypeOK, CallOK, Table
<1>6. ASSUME NEW t \in Thread, MarkUploadBatchFailed(t)
      PROVE  TypeInv'
    <2> DEFINE q == View(ProcOf[t])
    <2>1. PICK b \in handed, status \in HttpStatus : \E S \in SUBSET InBatch(q, b) :
              /\ Report(b, status)
              /\ \/ UNCHANGED <<pc, frame>>
                 \/ Goto(t, "failing", FailFrame(q, b, status, S))
        BY <1>6, SelectStep
    <2>2. PICK S \in SUBSET InBatch(q, b) :
              /\ Report(b, status)
              /\ \/ UNCHANGED <<pc, frame>>
                 \/ Goto(t, "failing", FailFrame(q, b, status, S))
        BY <2>1
    <2>3. b \in Batch /\ S \subseteq Id /\ q \in Table /\ now \in Nat
        BY <1>0 DEF TypeOK, InBatch, Rows, View
    <2>4. FailFrame(q, b, status, S) \in Frame
        BY <2>3, FailFrameType
    <2>5. FailFrame(q, b, status, S).batch = b
        BY <2>3, FailFrameFields
    <2>6. pc' \in [Thread -> Label] /\ frame' \in [Thread -> Frame] /\ CallOK'
        <3>1. CASE UNCHANGED <<pc, frame>>
            BY <1>0, <1>6, <3>1 DEF MarkUploadBatchFailed, TypeOK, CallOK
        <3>2. CASE Goto(t, "failing", FailFrame(q, b, status, S))
            BY <1>6, <2>3, <2>4, <2>5, <3>2, GotoType DEF MarkUploadBatchFailed, Label
        <3> QED
            BY <2>2, <3>1, <3>2
    <2>7. reported' \in [Batch -> SUBSET (HttpStatus \cup {200})]
        BY <1>0, <2>2 DEF TypeOK, Report
    <2> QED
        BY <1>6, <1>0, <2>6, <2>7 DEF MarkUploadBatchFailed, tables, TypeInv, TypeOK
<1>7. ASSUME NEW t \in Thread, RunMaintenance(t)
      PROVE  TypeInv'
    <2>1. queue' \in Table /\ committed' \in Table /\ wedged' = wedged
        BY <1>7, <1>0, ResetRowsType, AttemptEffect DEF RunMaintenance
    <2>2. [IdleFrame EXCEPT !.at = now] \in Frame /\ [IdleFrame EXCEPT !.at = now].at <= peak
        BY <1>0, IdleFrameType DEF IdleFrame, Frame, TypeOK
    <2>3. pc' \in [Thread -> Label] /\ frame' \in [Thread -> Frame] /\ CallOK'
        BY <1>7, <2>2, GotoType DEF RunMaintenance, Label
    <2> QED
        BY <1>7, <1>0, <2>1, <2>3 DEF RunMaintenance, history, TypeInv, TypeOK, Table
<1>8. ASSUME NEW t \in Thread, ReturnBatch(t)
      PROVE  TypeInv'
    <2>1. pc' \in [Thread -> Label] /\ frame' \in [Thread -> Frame] /\ CallOK'
        BY <1>8, ReturnType DEF ReturnBatch
    <2>2. handed' \subseteq Batch
        BY <1>8, <1>0 DEF ReturnBatch, TypeOK, CallOK
    <2> QED
        BY <1>8, <1>0, <2>1, <2>2 DEF ReturnBatch, tables, TypeInv, TypeOK
<1>9. ASSUME NEW t \in Thread, FailBatch(t)
      PROVE  TypeInv'
    <2> DEFINE f == frame[t]
    <2>1. f \in Frame /\ ProcOf[t] \in Proc
        BY <1>0, QueueAssumption DEF TypeOK
    <2>2. pc' \in [Thread -> Label] /\ frame' \in [Thread -> Frame] /\ CallOK'
        BY <1>9, ReturnType DEF FailBatch
    <2>3. queue' \in Table /\ committed' \in Table /\ wedged' \in Proc \cup {NoProc}
        <3>1. CASE UNCHANGED tables
            BY <1>0, <3>1 DEF tables, TypeOK
        <3>2. ASSUME NEW delay \in Delay(f), NEW S \in SUBSET f.selected,
                     \/ Write(ProcOf[t], FailRows(queue, f, S, delay))
                     \/ Wedge(ProcOf[t], FailRows(queue, f, S, delay))
              PROVE  queue' \in Table /\ committed' \in Table /\ wedged' \in Proc \cup {NoProc}
            BY <1>0, <2>1, <3>2, FailRowsType, WriteEffect DEF Wedge, TypeOK
        <3> QED
            BY <1>9, <3>1, <3>2, FailStep
    <2> QED
        BY <1>9, <1>0, <2>2, <2>3 DEF FailBatch, history, TypeInv, TypeOK, Table
<1>10. ASSUME NEW t \in Thread, PruneOld(t)
       PROVE  TypeInv'
    <2>1. queue' \in Table /\ committed' \in Table /\ wedged' = wedged
        BY <1>10, <1>0, DeleteType, AttemptEffect DEF PruneOld
    <2>2. frame[t] \in Frame
        BY <1>0 DEF TypeOK
    <2>3. pc' \in [Thread -> Label] /\ frame' \in [Thread -> Frame] /\ CallOK'
        BY <1>10, <2>2, GotoType DEF PruneOld, Label
    <2>4. expired' \subseteq Id
        BY <1>10, <1>0 DEF PruneOld, TypeOK, Rows
    <2> QED
        BY <1>10, <1>0, <2>1, <2>3, <2>4 DEF PruneOld, TypeInv, TypeOK, Table
<1>11. ASSUME NEW t \in Thread, PruneDropped(t)
       PROVE  TypeInv'
    <2>1. queue' \in Table /\ committed' \in Table /\ wedged' = wedged
        BY <1>11, <1>0, DeleteType, AttemptEffect DEF PruneDropped
    <2>2. frame[t] \in Frame
        BY <1>0 DEF TypeOK
    <2>3. pc' \in [Thread -> Label] /\ frame' \in [Thread -> Frame] /\ CallOK'
        BY <1>11, <2>2, GotoType DEF PruneDropped, Label
    <2> QED
        BY <1>11, <1>0, <2>1, <2>3 DEF PruneDropped, history, TypeInv, TypeOK, Table
<1>12. ASSUME NEW t \in Thread, CountRows(t)
       PROVE  TypeInv'
    <2> DEFINE count == Cardinality(Rows(View(ProcOf[t])))
    <2>1. count \in Nat /\ count - MaxQueueRows \in Int
        BY SelectedFinite, QueueAssumption DEF Rows
    <2>2. pc' \in [Thread -> Label] /\ frame' \in [Thread -> Frame] /\ CallOK'
        BY <1>12, <2>1, AdvanceType, ReturnType DEF CountRows
    <2> QED
        BY <1>12, <1>0, <2>2 DEF CountRows, tables, history, TypeInv, TypeOK
<1>13. ASSUME NEW t \in Thread, SelectVictims(t)
       PROVE  TypeInv'
    <2> DEFINE q == View(ProcOf[t])
               f == frame[t]
    <2>1. f \in Frame /\ f.excess \in Int /\ f.group \in Nat
        BY <1>0 DEF TypeOK, Frame
    <2>2. ASSUME NEW n, NEW V \in Oldest(q, Evictable(q, f.group), n),
                 peak' = peak, Goto(t, "delete_victims", [f EXCEPT !.selected = V])
          PROVE  pc' \in [Thread -> Label] /\ frame' \in [Thread -> Frame] /\ CallOK'
        <3>1. V \subseteq Id
            BY DEF Oldest, Evictable
        <3>2. [f EXCEPT !.selected = V] \in Frame
            BY <2>1, <3>1 DEF Frame
        <3> QED
            BY <2>2, <3>2, GotoType DEF Label
    <2>3. pc' \in [Thread -> Label] /\ frame' \in [Thread -> Frame] /\ CallOK'
        BY <1>13, <2>1, <2>2, AdvanceType DEF SelectVictims
    <2> QED
        BY <1>13, <1>0, <2>3 DEF SelectVictims, tables, history, TypeInv, TypeOK
<1>14. ASSUME NEW t \in Thread, DeleteVictims(t)
       PROVE  TypeInv'
    <2> DEFINE f == frame[t]
    <2>1. f.excess - Cardinality(f.selected) \in Int /\ f.group \in Nat
        BY <1>0, SelectedFinite DEF TypeOK, Frame
    <2>2. queue' \in Table /\ committed' \in Table /\ wedged' = wedged
        BY <1>14, <1>0, DeleteType, AttemptEffect DEF DeleteVictims
    <2>3. pc' \in [Thread -> Label] /\ frame' \in [Thread -> Frame] /\ CallOK'
        BY <1>14, <2>1, AdvanceType DEF DeleteVictims
    <2>4. evicted' \subseteq Id
        BY <1>14, <1>0 DEF DeleteVictims, TypeOK, Rows
    <2> QED
        BY <1>14, <1>0, <2>2, <2>3, <2>4 DEF DeleteVictims, TypeInv, TypeOK, Table
<1>15. ASSUME NEW p \in Proc, Crash(p)
       PROVE  TypeInv'
    <2>1. queue' \in Table /\ committed' \in Table /\ wedged' \in Proc \cup {NoProc}
        BY <1>15, <1>0, CloseConnectionEffect DEF Crash, TypeOK
    <2>2. pc' \in [Thread -> Label] /\ frame' \in [Thread -> Frame] /\ CallOK'
        BY <1>15, <1>0, IdleFrameType DEF Crash, TypeOK, CallOK, Label
    <2> QED
        BY <1>15, <1>0, <2>1, <2>2 DEF Crash, history, TypeInv, TypeOK, Table
<1>16. CASE Tick
    <2>1. now' \in Nat /\ peak' \in Nat /\ now' <= peak' /\ peak <= peak'
        BY <1>16, <1>0 DEF Tick, TypeOK
    <2>2. CallOK'
        BY <1>16, <1>0, <2>1 DEF Tick, CallOK, TypeOK, Frame
    <2> QED
        BY <1>16, <1>0, <2>1, <2>2 DEF Tick, tables, history, TypeInv, TypeOK
<1>17. CASE SetClockBack
    <2>1. now' \in Nat /\ now' <= now /\ peak' = peak
        BY <1>17, <1>0, QueueAssumption DEF SetClockBack, TypeOK, AtMost
    <2> QED
        BY <1>17, <1>0, <2>1 DEF SetClockBack, tables, history, TypeInv, TypeOK, CallOK
<1>18. CASE UNCHANGED vars
    BY <1>18, <1>0 DEF vars, tables, history, TypeInv, TypeOK, CallOK
<1> QED
    BY <1>1, <1>2, <1>3, <1>4, <1>5, <1>6, <1>7, <1>8, <1>9, <1>10, <1>11, <1>12, <1>13,
       <1>14, <1>15, <1>16, <1>17, <1>18
    DEF Next, Continue

(* Every variable keeps its type. *)
THEOREM TypeCorrect == Spec => []TypeOK
<1>1. TypeInv => TypeOK
    BY DEF TypeInv
<1> QED
    BY InitType, NextType, <1>1, PTL DEF Spec

-----------------------------------------------------------------------------
(* What is pruned by age is too old, whatever the clock has been set back to. *)

LEMMA PrunedTooOld ==
  ASSUME TypeInv, NEW t \in Thread, PruneOld(t), NEW i \in Rows(queue),
         queue'[i].state = "absent"
  PROVE  TooOld(i)
<1> DEFINE at == frame[t].at
<1>0. i \in Id /\ queue \in [Id -> Row] /\ frame[t] \in Frame
    BY DEF TypeInv, TypeOK, Rows
<1>1. queue[i].created \in Nat /\ at \in Nat /\ peak \in Nat /\ MaxEventAge \in Nat
    <2>1. queue[i] \in Row
        BY <1>0
    <2> QED
        BY <1>0, <2>1, QueueAssumption DEF TypeInv, TypeOK, Row, Frame
<1>2. at <= peak
    BY DEF TypeInv, CallOK, PruneOld
<1>3. queue' \in {queue, Delete(queue, Old(queue, at))}
    BY AttemptEffect DEF PruneOld
<1>4. i \in Old(queue, at)
    BY <1>3 DEF Delete, Rows
<1>5. queue[i].created < at - MaxEventAge
    BY <1>4 DEF Old
<1> QED
    BY <1>1, <1>2, <1>5 DEF TooOld

LEMMA PruneOldExpires ==
  ASSUME TypeInv, NEW t \in Thread, PruneOld(t)
  PROVE  expired' = expired \cup {i \in Rows(queue) : queue'[i].state = "absent"}
<1>1. \A i \in Rows(queue) : queue'[i].state = "absent" => TooOld(i)
    BY PrunedTooOld
<1>2. {i \in Rows(queue) : queue'[i].state = "absent" /\ TooOld(i)}
         = {i \in Rows(queue) : queue'[i].state = "absent"}
    BY <1>1
<1> QED
    BY <1>2 DEF PruneOld

-----------------------------------------------------------------------------
(* The durable table. *)

Durable == wedged = NoProc => queue = committed

LEMMA DurableStays ==
  ASSUME TypeInv, Durable, [Next]_vars
  PROVE  Durable'
<1>0. \A t \in Thread : ProcOf[t] \in Proc /\ ProcOf[t] # NoProc
    BY QueueAssumption
<1>1. ASSUME NEW t \in Thread, NEW q, Write(ProcOf[t], q) \/ Attempt(ProcOf[t], q)
      PROVE  Durable'
    BY <1>0, <1>1 DEF Write, Attempt, Durable, tables
<1>2. ASSUME NEW t \in Thread, NEW q, Wedge(ProcOf[t], q)
      PROVE  Durable'
    BY <1>0, <1>2 DEF Wedge, Durable
<1>3. ASSUME NEW p \in Proc, CloseConnection(p)
      PROVE  Durable'
    BY <1>3 DEF CloseConnection, Durable
<1>4. ASSUME UNCHANGED tables
      PROVE  Durable'
    BY <1>4 DEF tables, Durable
<1>5. ASSUME NEW t \in Thread, CreateUploadBatch(t)
      PROVE  Durable'
    BY <1>1, <1>5, ClaimStep
<1>6. ASSUME NEW t \in Thread, FailBatch(t)
      PROVE  Durable'
    BY <1>1, <1>2, <1>4, <1>6, FailStep
<1> QED
    BY <1>0, <1>1, <1>2, <1>3, <1>4, <1>5, <1>6
    DEF Next, Continue, Configure, InsertEvent, CreateUploadBatchThrows,
        MarkUploadBatchSucceeded, MarkUploadBatchFailed, RunMaintenance, ReturnBatch,
        PruneOld, PruneDropped, CountRows, SelectVictims, DeleteVictims, Crash,
        Tick, SetClockBack, vars

(* Only outside a transaction does a write become durable at once. *)
Commits == wedged = NoProc /\ committed' = queue'

LEMMA CommittedStep ==
  ASSUME TypeInv, [Next]_vars
  PROVE  committed' = committed \/ Commits
<1>1. ASSUME NEW p, NEW q, \/ CanWrite(p) /\ Write(p, q)
                           \/ Attempt(p, q)
                           \/ Wedge(p, q)
                           \/ CloseConnection(p)
      PROVE  committed' = committed \/ Commits
    BY <1>1 DEF CanWrite, Write, Attempt, Wedge, CloseConnection, Commits, tables
<1>2. ASSUME NEW t \in Thread, CreateUploadBatch(t)
      PROVE  committed' = committed \/ Commits
    BY <1>1, <1>2, ClaimStep DEF CanWrite
<1>3. ASSUME NEW t \in Thread, FailBatch(t)
      PROVE  committed' = committed \/ Commits
    BY <1>1, <1>3, FailStep DEF CanWrite, tables
<1>4. ASSUME UNCHANGED tables
      PROVE  committed' = committed
    BY <1>4 DEF tables
<1> QED
    BY <1>1, <1>2, <1>3, <1>4
    DEF Next, Continue, Configure, InsertEvent, CreateUploadBatchThrows,
        MarkUploadBatchSucceeded, MarkUploadBatchFailed, RunMaintenance, ReturnBatch,
        PruneOld, PruneDropped, CountRows, SelectVictims, DeleteVictims, Crash,
        Tick, SetClockBack, vars

-----------------------------------------------------------------------------
(* What a step may do with row i of the queue. *)

Untouched(i) == queue'[i] \in {queue[i], committed[i]}

Inserts(i) ==
    /\ i = nextId /\ nextId' = nextId + 1
    /\ \E level \in Level, size \in Size : queue'[i] = NewRow(level, size)

Claims(i) ==
    \E b \in FreshBatch, S \in SUBSET Eligible(queue) :
        /\ i \in S
        /\ queue'[i] = [queue[i] EXCEPT !.state = "uploading", !.batch = b,
                                        !.nextAttempt = now + StaleTimeout]
        /\ carried' = [carried EXCEPT ![b] = S]
        /\ deadline' = [deadline EXCEPT ![b] = now + StaleTimeout]

(* Delivered, too old, over the row limit, or rejected before. *)
Removes(i) ==
    /\ queue'[i] = AbsentRow
    /\ \/ queue[i].batch \in Batch /\ 200 \in reported'[queue[i].batch]
       \/ i \in expired' \cup evicted'
       \/ queue[i].state \in {"absent", "dropped"}

Resets(i) ==
    /\ i \in Stale(queue, now)
    /\ queue'[i] = [queue[i] EXCEPT !.state = "pending", !.batch = NoBatch]

Fails(i) ==
    /\ wedged = NoProc
    /\ queue[i].state # "absent"
    /\ \E t \in Thread :
          /\ pc[t] = "failing" /\ i \in frame[t].selected
          /\ IF IsPermanentFailure(frame[t].status)
             THEN queue'[i] = DropRow(queue[i])
             ELSE \E at \in Nat : queue'[i] = RetryRow(queue[i], frame[t].attempts[i] + 1, at)

LEMMA RowCases ==
  ASSUME TypeInv, [Next]_vars, NEW i \in Id
  PROVE  Untouched(i) \/ Inserts(i) \/ Claims(i) \/ Removes(i) \/ Resets(i) \/ Fails(i)
<1>0. TypeOK /\ queue \in Table /\ frame \in [Thread -> Frame]
    BY DEF TypeInv, TypeOK, Table
<1>1. ASSUME queue' \in {queue, committed}
      PROVE  Untouched(i)
    BY <1>1 DEF Untouched
<1>2. ASSUME NEW t \in Thread, InsertEvent(t)
      PROVE  Untouched(i) \/ Inserts(i)
    <2>1. PICK level \in Level, size \in Size :
              queue' = [queue EXCEPT ![nextId] = NewRow(level, size)]
        BY <1>2, WriteEffect DEF InsertEvent
    <2> QED
        BY <1>0, <1>2, <2>1 DEF Untouched, Inserts, Table, InsertEvent
<1>3. ASSUME NEW t \in Thread, CreateUploadBatch(t)
      PROVE  Untouched(i) \/ Claims(i)
    <2>1. PICK b \in FreshBatch, S \in SUBSET Eligible(queue) :
              /\ Write(ProcOf[t], ClaimRows(queue, S, b))
              /\ carried' = [carried EXCEPT ![b] = S]
              /\ deadline' = [deadline EXCEPT ![b] = now + StaleTimeout]
        BY <1>3, ClaimStep
    <2>2. queue' = ClaimRows(queue, S, b)
        BY <2>1, WriteEffect
    <2>3. CASE i \in S
        BY <2>1, <2>2, <2>3 DEF Claims, ClaimRows
    <2>4. CASE i \notin S
        BY <2>2, <2>4 DEF Untouched, ClaimRows
    <2> QED
        BY <2>3, <2>4
<1>4. ASSUME NEW t \in Thread,
             \/ MarkUploadBatchSucceeded(t) \/ PruneOld(t) \/ PruneDropped(t) \/ DeleteVictims(t)
      PROVE  Untouched(i) \/ Removes(i)
    <2>1. PICK S : Attempt(ProcOf[t], Delete(queue, S))
        BY <1>4 DEF MarkUploadBatchSucceeded, PruneOld, PruneDropped, DeleteVictims
    <2>2. CASE queue'[i] = queue[i]
        BY <2>2 DEF Untouched
    <2> SUFFICES ASSUME queue'[i] # queue[i]
                 PROVE  Removes(i)
        BY <2>2
    <2>3. queue'[i] = AbsentRow
        BY <2>1, AttemptEffect DEF Delete
    <2>4. CASE queue[i].state = "absent"
        BY <2>3, <2>4 DEF Removes
    <2>5. CASE i \in Rows(queue)
        <3>1. AbsentRow.state = "absent"
            BY DEF AbsentRow
        <3>2. PruneOld(t) \/ DeleteVictims(t) => i \in expired' \cup evicted'
            BY <2>3, <2>5, <3>1, PruneOldExpires DEF DeleteVictims
        <3>3. ASSUME MarkUploadBatchSucceeded(t)
              PROVE  queue[i].batch \in Batch /\ 200 \in reported'[queue[i].batch]
            <4>1. PICK b \in handed : /\ Report(b, 200)
                                      /\ Attempt(ProcOf[t], Delete(queue, InBatch(queue, b)))
                BY <3>3 DEF MarkUploadBatchSucceeded
            <4>2. i \in InBatch(queue, b)
                BY <4>1, AttemptEffect DEF Delete
            <4> QED
                BY <1>0, <4>1, <4>2 DEF InBatch, Report, TypeOK
        <3>4. PruneDropped(t) => queue[i].state = "dropped"
            BY AttemptEffect DEF PruneDropped, Dropped, Delete
        <3> QED
            BY <1>4, <2>3, <3>2, <3>3, <3>4 DEF Removes
    <2> QED
        BY <2>4, <2>5 DEF Rows
<1>5. ASSUME NEW t \in Thread, RunMaintenance(t)
      PROVE  Untouched(i) \/ Resets(i)
    <2>1. queue' \in {queue, ResetRows(queue, Stale(queue, now))}
        BY <1>5, AttemptEffect DEF RunMaintenance
    <2>2. CASE i \in Stale(queue, now) /\ queue' # queue
        BY <2>1, <2>2 DEF ResetRows, Resets
    <2>3. CASE i \notin Stale(queue, now) \/ queue' = queue
        BY <2>1, <2>3 DEF ResetRows, Untouched
    <2> QED
        BY <2>2, <2>3
<1>6. ASSUME NEW t \in Thread, FailBatch(t)
      PROVE  Untouched(i) \/ Fails(i)
    <2> DEFINE f == frame[t]
    <2>1. CASE UNCHANGED tables
        BY <2>1 DEF tables, Untouched
    <2>2. ASSUME NEW delay \in Delay(f), NEW S \in SUBSET f.selected, wedged = NoProc,
                 queue' = FailRows(queue, f, S, delay)
          PROVE  Untouched(i) \/ Fails(i)
        <3>1. CASE i \notin S \cap Rows(queue)
            BY <2>2, <3>1 DEF FailRows, Untouched
        <3>2. CASE i \in S \cap Rows(queue)
            <4>1. f.at + delay[i] \in Nat
                BY <1>0, <3>2, DelayType DEF Frame
            <4>2. /\ IsPermanentFailure(f.status) => queue'[i] = DropRow(queue[i])
                  /\ ~IsPermanentFailure(f.status) =>
                        queue'[i] = RetryRow(queue[i], f.attempts[i] + 1, f.at + delay[i])
                BY <2>2, <3>2 DEF FailRows
            <4> QED
                BY <1>6, <2>2, <3>2, <4>1, <4>2 DEF Fails, FailBatch, Rows
        <3> QED
            BY <3>1, <3>2
    <2> QED
        BY <1>6, <2>1, <2>2, FailStep, WriteEffect DEF Wedge
<1> QED
    BY <1>1, <1>2, <1>3, <1>4, <1>5, <1>6, CloseConnectionEffect
    DEF Next, Continue, Configure, CreateUploadBatchThrows, Wedge, MarkUploadBatchFailed,
        ReturnBatch, CountRows, SelectVictims, Crash, Tick, SetClockBack, vars, tables

-----------------------------------------------------------------------------
(* The rows of a batch.  The operations keep a table's claims owned; a claim *)
(* does because no row can name a batch id that was never used.              *)

OwnedIn(q, c) ==
    \A i \in Id : /\ (q[i].state = "uploading") <=> (q[i].batch # NoBatch)
                  /\ q[i].batch # NoBatch => i \in c[q[i].batch]

LEMMA DeleteOwned ==
  ASSUME NEW q \in Table, NEW c, OwnedIn(q, c), NEW S
  PROVE  OwnedIn(Delete(q, S), c)
  BY DEF OwnedIn, Delete, AbsentRow

LEMMA ResetRowsOwned ==
  ASSUME NEW q \in Table, NEW c, OwnedIn(q, c), NEW S
  PROVE  OwnedIn(ResetRows(q, S), c)
  BY DEF OwnedIn, ResetRows, Table, Row

LEMMA FailRowsOwned ==
  ASSUME NEW q \in Table, NEW c, OwnedIn(q, c), NEW f, NEW S, NEW delay
  PROVE  OwnedIn(FailRows(q, f, S, delay), c)
  BY DEF OwnedIn, FailRows, DropRow, RetryRow, Table, Row

LEMMA NewRowOwned ==
  ASSUME NEW q \in Table, NEW c, OwnedIn(q, c), NEW level, NEW size
  PROVE  OwnedIn([q EXCEPT ![nextId] = NewRow(level, size)], c)
  BY DEF OwnedIn, NewRow, Table

LEMMA ClaimRowsOwned ==
  ASSUME NEW c \in [Batch -> SUBSET Id], NEW q \in Table, OwnedIn(q, c),
         NEW b \in Batch, c[b] = {}, NEW S \in SUBSET Id
  PROVE  /\ OwnedIn(ClaimRows(q, S, b), [c EXCEPT ![b] = S])
         /\ OwnedIn(q, [c EXCEPT ![b] = S])
<1> DEFINE d == [c EXCEPT ![b] = S]
<1>1. ASSUME NEW i \in Id
      PROVE  q[i].batch # NoBatch => q[i].batch \in Batch \ {b}
    BY DEF OwnedIn, Table, Row
<1>2. \A a \in Batch \ {b} : d[a] = c[a]
    OBVIOUS
<1>3. d[b] = S /\ b # NoBatch
    BY QueueAssumption
<1>4. OwnedIn(q, d)
    BY <1>1, <1>2 DEF OwnedIn
<1>5. ASSUME NEW i \in S
      PROVE  /\ ClaimRows(q, S, b)[i].state = "uploading"
             /\ ClaimRows(q, S, b)[i].batch = b
    BY DEF ClaimRows, Table, Row
<1>6. ASSUME NEW i \in Id \ S
      PROVE  ClaimRows(q, S, b)[i] = q[i]
    BY DEF ClaimRows
<1>7. OwnedIn(ClaimRows(q, S, b), d)
    BY <1>3, <1>4, <1>5, <1>6 DEF OwnedIn
<1> QED
    BY <1>4, <1>7

LEMMA NextClaimsOwned == TypeInv /\ ClaimsOwned /\ [Next]_vars => ClaimsOwned'
<1> SUFFICES ASSUME TypeInv, ClaimsOwned, [Next]_vars
             PROVE  ClaimsOwned'
    OBVIOUS
<1>0. /\ queue \in Table /\ committed \in Table
      /\ OwnedIn(queue, carried) /\ OwnedIn(committed, carried)
    BY DEF TypeInv, TypeOK, ClaimsOwned, OwnedClaims, OwnedIn, Table
<1> SUFFICES OwnedIn(queue', carried') /\ OwnedIn(committed', carried')
    BY DEF ClaimsOwned, OwnedClaims, OwnedIn
<1>1. ASSUME NEW t \in Thread, Configure(t)
      PROVE  OwnedIn(queue', carried') /\ OwnedIn(committed', carried')
    BY <1>0, <1>1, CloseConnectionEffect DEF Configure, history
<1>2. ASSUME NEW t \in Thread, InsertEvent(t)
      PROVE  OwnedIn(queue', carried') /\ OwnedIn(committed', carried')
    BY <1>0, <1>2, NewRowOwned, WriteEffect DEF InsertEvent, history
<1>3. ASSUME NEW t \in Thread, CreateUploadBatch(t)
      PROVE  OwnedIn(queue', carried') /\ OwnedIn(committed', carried')
    <2>1. PICK b \in FreshBatch, S \in SUBSET Eligible(queue) :
              /\ Write(ProcOf[t], ClaimRows(queue, S, b))
              /\ carried' = [carried EXCEPT ![b] = S]
        BY <1>3, ClaimStep
    <2>2. b \in Batch /\ carried[b] = {} /\ S \in SUBSET Id /\ carried \in [Batch -> SUBSET Id]
        BY DEF FreshBatch, Eligible, TypeInv, TypeOK
    <2>3. OwnedIn(ClaimRows(queue, S, b), carried') /\ OwnedIn(queue, carried')
        BY <1>0, <2>1, <2>2, ClaimRowsOwned
    <2>4. OwnedIn(committed, carried')
        BY <1>0, <2>1, <2>2, ClaimRowsOwned
    <2> QED
        BY <2>1, <2>3, <2>4, WriteEffect
<1>4. ASSUME NEW t \in Thread, CreateUploadBatchThrows(t)
      PROVE  OwnedIn(queue', carried') /\ OwnedIn(committed', carried')
    BY <1>0, <1>4 DEF CreateUploadBatchThrows, Wedge, history
<1>5. ASSUME NEW t \in Thread, MarkUploadBatchSucceeded(t)
      PROVE  OwnedIn(queue', carried') /\ OwnedIn(committed', carried')
    BY <1>0, <1>5, DeleteOwned, AttemptEffect DEF MarkUploadBatchSucceeded
<1>6. ASSUME NEW t \in Thread, RunMaintenance(t)
      PROVE  OwnedIn(queue', carried') /\ OwnedIn(committed', carried')
    BY <1>0, <1>6, ResetRowsOwned, AttemptEffect DEF RunMaintenance, history
<1>7. ASSUME NEW t \in Thread, FailBatch(t)
      PROVE  OwnedIn(queue', carried') /\ OwnedIn(committed', carried')
    <2>1. UNCHANGED carried
        BY <1>7 DEF FailBatch, history
    <2> QED
        BY <1>0, <1>7, <2>1, FailStep, FailRowsOwned, WriteEffect DEF Wedge, tables
<1>8. ASSUME NEW t \in Thread, PruneOld(t) \/ PruneDropped(t) \/ DeleteVictims(t)
      PROVE  OwnedIn(queue', carried') /\ OwnedIn(committed', carried')
    <2>1. UNCHANGED carried
        BY <1>8 DEF PruneOld, PruneDropped, DeleteVictims, history
    <2>2. \E S : Attempt(ProcOf[t], Delete(queue, S))
        BY <1>8 DEF PruneOld, PruneDropped, DeleteVictims
    <2> QED
        BY <1>0, <2>1, <2>2, DeleteOwned, AttemptEffect
<1>9. ASSUME NEW p \in Proc, Crash(p)
      PROVE  OwnedIn(queue', carried') /\ OwnedIn(committed', carried')
    BY <1>0, <1>9, CloseConnectionEffect DEF Crash, history
<1>10. ASSUME UNCHANGED <<queue, committed, carried>>
       PROVE  OwnedIn(queue', carried') /\ OwnedIn(committed', carried')
    BY <1>0, <1>10
<1> QED
    BY <1>1, <1>2, <1>3, <1>4, <1>5, <1>6, <1>7, <1>8, <1>9, <1>10
    DEF Next, Continue, MarkUploadBatchFailed, ReturnBatch, CountRows, SelectVictims,
        Tick, SetClockBack, vars, tables, history

LEMMA InitClaimsOwned == Init => ClaimsOwned
<1> SUFFICES ASSUME Init
             PROVE  ClaimsOwned
    OBVIOUS
<1>1. \A i \in Id : queue[i] = AbsentRow /\ committed[i] = AbsentRow
    BY DEF Init
<1>2. AbsentRow.state = "absent" /\ AbsentRow.batch = NoBatch
    BY DEF AbsentRow
<1> QED
    BY <1>1, <1>2 DEF ClaimsOwned, OwnedClaims

(* An outcome reported by batch id reaches the rows of that batch only. *)
THEOREM ClaimsAlwaysOwned == Spec => []ClaimsOwned
  BY InitType, InitClaimsOwned, NextType, NextClaimsOwned, PTL DEF Spec
-----------------------------------------------------------------------------
(* The history only grows. *)

HistoryGrows ==
    /\ \A b \in Batch : carried[b] \subseteq carried'[b] /\ reported[b] \subseteq reported'[b]
    /\ expired \subseteq expired' /\ evicted \subseteq evicted'

LEMMA NextGrows == TypeInv /\ [Next]_vars => HistoryGrows
<1> SUFFICES ASSUME TypeInv, [Next]_vars
             PROVE  HistoryGrows
    OBVIOUS
<1>0. carried \in [Batch -> SUBSET Id] /\ reported \in [Batch -> SUBSET (HttpStatus \cup {200})]
    BY DEF TypeInv, TypeOK
<1>1. ASSUME NEW t \in Thread, CreateUploadBatch(t)
      PROVE  HistoryGrows
    BY <1>0, <1>1, ClaimStep DEF CreateUploadBatch, FreshBatch, HistoryGrows
<1>2. ASSUME NEW t \in Thread, MarkUploadBatchSucceeded(t)
      PROVE  HistoryGrows
    BY <1>0, <1>2 DEF MarkUploadBatchSucceeded, Report, HistoryGrows
<1>3. ASSUME NEW t \in Thread, MarkUploadBatchFailed(t)
      PROVE  HistoryGrows
    BY <1>0, <1>3 DEF MarkUploadBatchFailed, Report, HistoryGrows
<1>4. ASSUME NEW t \in Thread, PruneOld(t) \/ DeleteVictims(t)
      PROVE  HistoryGrows
    BY <1>4 DEF PruneOld, DeleteVictims, HistoryGrows
<1>5. ASSUME UNCHANGED <<carried, reported, expired, evicted>>
      PROVE  HistoryGrows
    BY <1>5 DEF HistoryGrows
<1> QED
    BY <1>1, <1>2, <1>3, <1>4, <1>5
    DEF Next, Continue, Configure, InsertEvent, CreateUploadBatchThrows, RunMaintenance,
        ReturnBatch, FailBatch, PruneDropped, CountRows, SelectVictims,
        Crash, Tick, SetClockBack, vars, history

-----------------------------------------------------------------------------
(* Reports of failure. *)

(* The frame of a call that fails a batch is filled once, when it reads the *)
(* rows of the batch it was told to have failed.                            *)
Selects(u) ==
    \E b \in handed, status \in HttpStatus : \E S \in SUBSET InBatch(View(ProcOf[u]), b) :
        /\ Report(b, status)
        /\ frame'[u] = FailFrame(View(ProcOf[u]), b, status, S)

LEMMA FailingCases ==
  ASSUME TypeInv, [Next]_vars, NEW u \in Thread, pc'[u] = "failing"
  PROVE  (pc[u] = "failing" /\ frame'[u] = frame[u]) \/ Selects(u)
<1>0. pc \in [Thread -> Label] /\ frame \in [Thread -> Frame]
    BY DEF TypeInv, TypeOK
<1>1. ASSUME NEW t \in Thread, NEW l \in Label, NEW f, Goto(t, l, f), l # "failing"
      PROVE  pc[u] = "failing" /\ frame'[u] = frame[u]
    BY <1>0, <1>1 DEF Goto
<1>2. ASSUME NEW t \in Thread, \/ Return(t)
                               \/ \E excess, g : Advance(t, excess, g)
      PROVE  pc[u] = "failing" /\ frame'[u] = frame[u]
    BY <1>1, <1>2 DEF Return, Advance, Label
<1>3. ASSUME NEW t \in Thread, MarkUploadBatchFailed(t)
      PROVE  (pc[u] = "failing" /\ frame'[u] = frame[u]) \/ Selects(u)
    <2>1. PICK b \in handed, status \in HttpStatus : \E S \in SUBSET InBatch(View(ProcOf[t]), b) :
              /\ Report(b, status)
              /\ \/ UNCHANGED <<pc, frame>>
                 \/ Goto(t, "failing", FailFrame(View(ProcOf[t]), b, status, S))
        BY <1>3, SelectStep
    <2>2. CASE UNCHANGED <<pc, frame>> \/ u # t
        BY <1>0, <2>1, <2>2 DEF Goto
    <2>3. CASE u = t
        BY <1>0, <2>1, <2>2, <2>3 DEF Goto, Selects
    <2> QED
        BY <2>2, <2>3
<1>4. ASSUME NEW t \in Thread,
             \/ CreateUploadBatch(t) \/ RunMaintenance(t) \/ ReturnBatch(t) \/ FailBatch(t)
             \/ PruneOld(t) \/ PruneDropped(t) \/ CountRows(t) \/ SelectVictims(t)
             \/ DeleteVictims(t)
      PROVE  pc[u] = "failing" /\ frame'[u] = frame[u]
    BY <1>1, <1>2, <1>4
    DEF CreateUploadBatch, RunMaintenance, ReturnBatch, FailBatch, PruneOld, PruneDropped,
        CountRows, SelectVictims, DeleteVictims, Label
<1>5. ASSUME NEW p \in Proc, Crash(p)
      PROVE  pc[u] = "failing" /\ frame'[u] = frame[u]
    BY <1>5 DEF Crash
<1> QED
    BY <1>3, <1>4, <1>5
    DEF Next, Continue, Configure, InsertEvent, CreateUploadBatchThrows,
        MarkUploadBatchSucceeded, Tick, SetClockBack, vars

(* What a call that fails a batch will do is justified by its report. *)
FailingReported ==
    \A t \in Thread : pc[t] = "failing" =>
        /\ frame[t].selected \subseteq carried[frame[t].batch]
        /\ frame[t].status \in reported[frame[t].batch]

LEMMA FailingStays ==
  ASSUME TypeInv, ClaimsOwned, FailingReported, [Next]_vars
  PROVE  FailingReported'
<1>0. /\ TypeOK /\ CallOK /\ OwnedClaims(queue) /\ OwnedClaims(committed) /\ HistoryGrows
    BY NextGrows DEF TypeInv, ClaimsOwned
<1> SUFFICES ASSUME NEW u \in Thread, pc'[u] = "failing"
             PROVE  /\ frame'[u].selected \subseteq carried'[frame'[u].batch]
                    /\ frame'[u].status \in reported'[frame'[u].batch]
    BY DEF FailingReported
<1>1. CASE pc[u] = "failing" /\ frame'[u] = frame[u]
    BY <1>0, <1>1 DEF FailingReported, HistoryGrows, CallOK
<1>2. CASE Selects(u)
    <2> DEFINE q == View(ProcOf[u])
    <2>1. PICK b \in handed, status \in HttpStatus : \E S \in SUBSET InBatch(q, b) :
              /\ Report(b, status)
              /\ frame'[u] = FailFrame(q, b, status, S)
        BY <1>2 DEF Selects
    <2>5. PICK S \in SUBSET InBatch(q, b) : frame'[u] = FailFrame(q, b, status, S)
        BY <2>1
    <2>2. b \in Batch /\ status \in reported'[b]
        BY <1>0, <2>1 DEF Report, TypeOK
    <2>3. OwnedClaims(q)
        BY <1>0 DEF View
    <2>4. S \subseteq carried[b]
        BY <2>2, <2>3, QueueAssumption DEF OwnedClaims, InBatch, Rows
    <2> QED
        BY <1>0, <2>2, <2>4, <2>5, FailFrameFields DEF HistoryGrows
<1> QED
    BY <1>1, <1>2, FailingCases
=============================================================================
