------------------------- MODULE QueueDeliveryProofs -------------------------
(***************************************************************************)
(* What becomes of an event, for any number of threads, events and         *)
(* batches, whatever faults.  First that it is accounted for: a row that   *)
(* is durable goes only for a reason, and is charged a failed attempt only *)
(* for a report, with any number of processes; as long as no transaction   *)
(* is left open (no COMMIT fails, no exception comes between BEGIN and     *)
(* COMMIT) the former is true of every event that was accepted.  Then that *)
(* it is in no two live batches at once, as long as one process uses the   *)
(* database.  With two, a report may fail rows that another process has    *)
(* meanwhile reset and claimed again: MarkUploadBatchFailed updates by id  *)
(* what it selected before its transaction.                                *)
(* Last that the row limit takes the right rows and is met.                *)
(***************************************************************************)
EXTENDS QueueRepositoryProofs

-----------------------------------------------------------------------------
(* A row goes only for a reason. *)

Rejected(i) == \E b \in Carriers(i) : reported[b] \cap {400, 422} # {}

(* PruneDropped deletes without looking at any batch: a row it finds must *)
(* have been rejected by a report.                                        *)
DroppedReported ==
    \A i \in Id : "dropped" \in {queue[i].state, committed[i].state} => Rejected(i)

ReportInv ==
    /\ TypeInv
    /\ ClaimsOwned
    /\ Durable
    /\ FailingReported
    /\ DroppedReported

LEMMA RejectedStays ==
  ASSUME HistoryGrows, NEW i \in Id, Rejected(i)
  PROVE  Rejected(i)'
  BY DEF HistoryGrows, Rejected, Carriers

LEMMA NewState ==
  ASSUME TypeInv, NEW i \in Id
  PROVE  /\ Inserts(i) \/ Resets(i) => queue'[i].state = "pending"
         /\ Claims(i) => queue'[i].state = "uploading"
         /\ Removes(i) => queue'[i].state = "absent"
<1>1. queue[i] \in Row
    BY DEF TypeInv, TypeOK
<1>2. AbsentRow.state = "absent"
    BY DEF AbsentRow
<1>3. \A level, size : NewRow(level, size).state = "pending"
    BY DEF NewRow
<1>4. Inserts(i) => queue'[i].state = "pending"
    BY <1>3 DEF Inserts
<1>5. Resets(i) => queue'[i].state = "pending"
    BY <1>1 DEF Resets, Row
<1>6. Claims(i) => queue'[i].state = "uploading"
    BY <1>1 DEF Claims, Row
<1> QED
    BY <1>2, <1>4, <1>5, <1>6 DEF Removes

LEMMA FailsState ==
  ASSUME ReportInv, NEW i \in Id, Fails(i)
  PROVE  queue'[i].state = "pending" \/ (queue'[i].state = "dropped" /\ Rejected(i))
<1>1. queue[i] \in Row
    BY DEF ReportInv, TypeInv, TypeOK
<1>2. PICK t \in Thread :
          /\ pc[t] = "failing" /\ i \in frame[t].selected
          /\ IF IsPermanentFailure(frame[t].status)
             THEN queue'[i] = DropRow(queue[i])
             ELSE \E at \in Nat : queue'[i] = RetryRow(queue[i], frame[t].attempts[i] + 1, at)
    BY DEF Fails
<1> DEFINE b == frame[t].batch
<1>3. b \in Batch /\ i \in carried[b] /\ frame[t].status \in reported[b]
    BY <1>2 DEF ReportInv, TypeInv, CallOK, FailingReported
<1>4. CASE IsPermanentFailure(frame[t].status)
    <2>1. Rejected(i)
        BY <1>3, <1>4 DEF Rejected, Carriers, IsPermanentFailure
    <2> QED
        BY <1>1, <1>2, <1>4, <2>1 DEF DropRow, Row
<1>5. CASE ~IsPermanentFailure(frame[t].status)
    BY <1>1, <1>2, <1>5 DEF RetryRow, Row
<1> QED
    BY <1>4, <1>5

LEMMA DroppedStays ==
  ASSUME ReportInv, HistoryGrows, [Next]_vars
  PROVE  DroppedReported'
<1>0. TypeInv /\ DroppedReported
    BY DEF ReportInv
<1>1. ASSUME NEW i \in Id, Rejected(i)
      PROVE  Rejected(i)'
    BY <1>1, RejectedStays
<1>2. ASSUME NEW i \in Id, queue'[i].state = "dropped"
      PROVE  Rejected(i)
    <2>1. CASE Untouched(i)
        BY <1>0, <1>2, <2>1 DEF Untouched, DroppedReported
    <2> QED
        BY <1>0, <1>2, <2>1, RowCases, NewState, FailsState
<1>3. ASSUME NEW i \in Id, committed'[i].state = "dropped"
      PROVE  Rejected(i)
    BY <1>0, <1>2, <1>3, CommittedStep DEF Commits, DroppedReported
<1> QED
    BY <1>1, <1>2, <1>3 DEF DroppedReported

LEMMA InitReport == Init => ReportInv
<1> SUFFICES ASSUME Init
             PROVE  ReportInv
    OBVIOUS
<1>1. \A i \in Id : queue[i].state = "absent" /\ committed[i].state = "absent"
    BY DEF Init, AbsentRow
<1>2. Durable /\ FailingReported /\ DroppedReported
    BY <1>1 DEF Init, Durable, FailingReported, DroppedReported
<1> QED
    BY <1>2, InitType, InitClaimsOwned DEF ReportInv

LEMMA NextReport == ReportInv /\ [Next]_vars => ReportInv'
  BY NextType, NextClaimsOwned, NextGrows, DurableStays, FailingStays, DroppedStays DEF ReportInv

LEMMA RowAccounted ==
  ASSUME ReportInv, [Next]_vars, NEW i \in Id,
         queue[i].state # "absent", wedged = NoProc
  PROVE  Accounted(i)'
<1>0. /\ TypeInv /\ HistoryGrows /\ DroppedReported /\ OwnedClaims(queue)
      /\ queue[i] = committed[i]
    BY NextGrows DEF ReportInv, Durable, ClaimsOwned
<1>1. CASE queue'[i].state # "absent"
    BY <1>1 DEF Accounted
<1>2. CASE Removes(i)
    <2>1. CASE i \in expired' \cup evicted'
        BY <2>1 DEF Accounted
    <2>2. CASE queue[i].batch \in Batch /\ 200 \in reported'[queue[i].batch]
        <3>1. i \in carried'[queue[i].batch]
            BY <1>0, <2>2, QueueAssumption DEF OwnedClaims, HistoryGrows
        <3> QED
            BY <2>2, <3>1 DEF Accounted, Carriers, Final
    <2>3. CASE queue[i].state = "dropped"
        <3>1. Rejected(i)'
            BY <1>0, <2>3, RejectedStays DEF DroppedReported
        <3> QED
            BY <3>1 DEF Rejected, Accounted, Carriers, Final
    <2> QED
        BY <1>2, <2>1, <2>2, <2>3 DEF Removes
<1> QED
    BY <1>0, <1>1, <1>2, RowCases, NewState, FailsState DEF Untouched

(* What is durable goes only when it was delivered or rejected, was too old, *)
(* or was over the row limit: no crash, no failed statement, COMMIT or       *)
(* exception and no other process loses it.                                  *)
THEOREM DurableAccounted == Spec => DurableNotLost
<1> DEFINE Kept(i) == i \in Rows(committed) \ Rows(committed)' => Accounted(i)'
<1>1. ReportInv /\ [Next]_vars => ReportInv' /\ [\A i \in Id : Kept(i)]_vars
    <2> SUFFICES ASSUME ReportInv, [Next]_vars, NEW i \in Id,
                        i \in Rows(committed) \ Rows(committed)'
                 PROVE  Accounted(i)'
        BY NextReport
    <2>1. wedged = NoProc
        BY CommittedStep DEF ReportInv, Commits, Rows
    <2>2. queue[i].state # "absent"
        BY <2>1 DEF ReportInv, Durable, Rows
    <2> QED
        BY <2>1, <2>2, RowAccounted
<1>2. (\A i \in Id : Kept(i)) <=> \A i \in Rows(committed) \ Rows(committed)' : Accounted(i)'
    BY DEF Rows
<1> QED
    BY InitReport, <1>1, <1>2, PTL DEF Spec, DurableNotLost

-----------------------------------------------------------------------------
(* Without an open transaction the table is the durable one, and no accepted *)
(* event is lost.                                                            *)

NoOpenTransaction == Faults \cap {"commit", "exception"} = {}

LossInv ==
    /\ ReportInv
    /\ wedged = NoProc
    /\ NoSilentLoss

LEMMA StaysUnwedged ==
  ASSUME NoOpenTransaction, TypeInv, wedged = NoProc, [Next]_vars
  PROVE  wedged' = NoProc
<1>1. ASSUME NEW p, NEW q, Write(p, q) \/ Attempt(p, q) \/ CloseConnection(p)
      PROVE  wedged' = NoProc
    BY <1>1 DEF Write, Attempt, CloseConnection, tables
<1>2. ASSUME NEW t \in Thread, CreateUploadBatch(t)
      PROVE  wedged' = NoProc
    BY <1>1, <1>2, ClaimStep
<1>3. ASSUME NEW t \in Thread, FailBatch(t)
      PROVE  wedged' = NoProc
    BY <1>1, <1>3, FailStep DEF NoOpenTransaction, tables
<1>4. ASSUME NEW t \in Thread
      PROVE  ~CreateUploadBatchThrows(t)
    BY DEF CreateUploadBatchThrows, NoOpenTransaction
<1>5. ASSUME UNCHANGED tables
      PROVE  wedged' = NoProc
    BY <1>5 DEF tables
<1> QED
    BY <1>1, <1>2, <1>3, <1>4, <1>5
    DEF Next, Continue, Configure, InsertEvent, MarkUploadBatchSucceeded,
        MarkUploadBatchFailed, RunMaintenance, ReturnBatch, PruneOld, PruneDropped,
        CountRows, SelectVictims, DeleteVictims, Crash, Tick, SetClockBack, vars

LEMMA OnlyInsertsNumber ==
  ASSUME TypeInv, [Next]_vars, nextId' # nextId
  PROVE  nextId \in Id /\ nextId' = nextId + 1 /\ queue'[nextId].state = "pending"
<1>1. PICK t \in Thread : InsertEvent(t)
    BY DEF Next, Continue, Configure, CreateUploadBatch, CreateUploadBatchThrows,
        MarkUploadBatchSucceeded, MarkUploadBatchFailed, RunMaintenance, ReturnBatch,
        FailBatch, PruneOld, PruneDropped, CountRows, SelectVictims, DeleteVictims,
        Crash, Tick, SetClockBack, vars
<1>2. PICK level \in Level, size \in Size :
          queue' = [queue EXCEPT ![nextId] = NewRow(level, size)]
    BY <1>1, WriteEffect DEF InsertEvent
<1> QED
    BY <1>1, <1>2 DEF InsertEvent, NewRow, TypeInv, TypeOK

LEMMA NextLoss == NoOpenTransaction /\ LossInv /\ [Next]_vars => LossInv'
<1> SUFFICES ASSUME NoOpenTransaction, LossInv, [Next]_vars
             PROVE  LossInv'
    OBVIOUS
<1>1. ReportInv' /\ wedged' = NoProc
    BY NextReport, StaysUnwedged DEF LossInv, ReportInv
<1>2. TypeInv /\ TypeOK /\ HistoryGrows /\ ReportInv /\ wedged = NoProc
    BY NextGrows DEF LossInv, ReportInv, TypeInv
<1>3. ASSUME NEW i \in 1 .. nextId - 1
      PROVE  Accounted(i)'
    <2>1. i \in Id /\ Accounted(i)
        BY <1>2, QueueAssumption DEF LossInv, NoSilentLoss, TypeOK, Id
    <2>2. CASE queue[i].state # "absent"
        BY <1>2, <2>1, <2>2, RowAccounted
    <2>3. CASE queue[i].state = "absent"
        BY <1>2, <2>1, <2>3 DEF Accounted, HistoryGrows, Carriers
    <2> QED
        BY <2>2, <2>3
<1>4. ASSUME NEW i \in 1 .. nextId' - 1
      PROVE  Accounted(i)'
    <2>1. i \in 1 .. nextId - 1 \/ (i = nextId /\ nextId' # nextId)
        BY <1>2, OnlyInsertsNumber DEF TypeOK
    <2>2. nextId' # nextId => queue'[nextId].state = "pending"
        BY <1>2, OnlyInsertsNumber
    <2> QED
        BY <1>3, <2>1, <2>2 DEF Accounted
<1> QED
    BY <1>1, <1>4 DEF LossInv, NoSilentLoss

LEMMA InitLoss == Init => LossInv
  BY InitReport DEF Init, LossInv, NoSilentLoss

(* No interleaving, crash, failed statement or lost lock makes an event that *)
(* was accepted disappear before its time.                                   *)
THEOREM NothingSilentlyLost ==
  ASSUME NoOpenTransaction
  PROVE  Spec => []NoSilentLoss
<1>1. LossInv => NoSilentLoss
    BY DEF LossInv
<1>2. LossInv /\ [Next]_vars => LossInv'
    BY NextLoss
<1> QED
    BY InitLoss, <1>1, <1>2, PTL DEF Spec

-----------------------------------------------------------------------------
(* A failed attempt is charged only for a report. *)

(* The batches of event i that were reported as failed for the time being. *)
Failed(i) == {b \in Carriers(i) : ~ (reported[b] \subseteq Final)}

FiniteCarriers == \A i \in Id : IsFiniteSet(Carriers(i))

(* What attempts a row shows are justified without the batch it is in, of   *)
(* which a report may be under way; and so are those a call that fails the  *)
(* batch has read, for which it will write one more.                        *)
RowsCharged ==
    \A i \in Id :
        /\ queue[i].attempts <= Cardinality(Failed(i) \ {queue[i].batch})
        /\ committed[i].attempts <= Cardinality(Failed(i) \ {committed[i].batch})

FailingCharged ==
    \A t \in Thread : pc[t] = "failing" =>
        \A i \in frame[t].selected :
            frame[t].attempts[i] <= Cardinality(Failed(i) \ {frame[t].batch})

ChargeInv ==
    /\ TypeInv
    /\ ClaimsOwned
    /\ FailingReported
    /\ FiniteCarriers
    /\ RowsCharged
    /\ FailingCharged

LEMMA CarriersStayFinite ==
  ASSUME TypeInv, FiniteCarriers, [Next]_vars
  PROVE  FiniteCarriers'
<1>1. carried \in [Batch -> SUBSET Id]
    BY DEF TypeInv, TypeOK
<1>2. CASE carried' = carried
    BY <1>2 DEF FiniteCarriers, Carriers
<1>3. ASSUME NEW t \in Thread, CreateUploadBatch(t)
      PROVE  FiniteCarriers'
    <2>1. PICK b \in FreshBatch, S \in SUBSET Eligible(queue) : carried' = [carried EXCEPT ![b] = S]
        BY <1>3, ClaimStep
    <2>2. ASSUME NEW i \in Id
          PROVE  IsFiniteSet(Carriers(i)')
        <3>1. IsFiniteSet(Carriers(i) \cup {b})
            BY FS_AddElement DEF FiniteCarriers
        <3>2. Carriers(i)' \subseteq Carriers(i) \cup {b}
            BY <1>1, <2>1 DEF Carriers
        <3> QED
            BY <3>1, <3>2, FS_Subset
    <2> QED
        BY <2>2 DEF FiniteCarriers
<1> QED
    BY <1>2, <1>3
    DEF Next, Continue, Configure, InsertEvent, CreateUploadBatchThrows,
        MarkUploadBatchSucceeded, MarkUploadBatchFailed, RunMaintenance, ReturnBatch,
        FailBatch, PruneOld, PruneDropped, CountRows, SelectVictims, DeleteVictims,
        Crash, Tick, SetClockBack, vars, history

(* A justified number of attempts stays so, also for another batch that has *)
(* not failed yet.                                                          *)
LEMMA ChargeStays ==
  ASSUME HistoryGrows, FiniteCarriers', NEW i \in Id, NEW n \in Nat, NEW b, NEW c,
         n <= Cardinality(Failed(i) \ {b}), c = b \/ c \notin Failed(i)
  PROVE  n <= Cardinality(Failed(i)' \ {c})
<1>1. Failed(i) \subseteq Failed(i)'
    BY DEF Failed, Carriers, HistoryGrows
<1>2. IsFiniteSet(Failed(i)' \ {c})
    <2>1. Failed(i)' \ {c} \subseteq Carriers(i)'
        BY DEF Failed
    <2>2. IsFiniteSet(Carriers(i)')
        BY DEF FiniteCarriers
    <2> QED
        BY <2>1, <2>2, FS_Subset
<1>3. Failed(i) \ {b} \subseteq Failed(i)' \ {c}
    BY <1>1
<1>4. /\ Cardinality(Failed(i) \ {b}) <= Cardinality(Failed(i)' \ {c})
      /\ Cardinality(Failed(i) \ {b}) \in Nat /\ Cardinality(Failed(i)' \ {c}) \in Nat
    BY <1>2, <1>3, FS_Subset, FS_CardinalityType
<1> QED
    BY <1>4

LEMMA RowsChargedStay ==
  ASSUME ChargeInv, HistoryGrows, FiniteCarriers', [Next]_vars
  PROVE  RowsCharged'
<1>0. /\ TypeInv /\ TypeOK /\ RowsCharged /\ OwnedClaims(queue)
      /\ \A i \in Id : queue[i] \in Row /\ committed[i] \in Row
    BY DEF ChargeInv, TypeInv, TypeOK, ClaimsOwned
<1>1. \A i \in Id : IsFiniteSet(Failed(i)' \ {NoBatch}) /\ NoBatch \notin Failed(i)
    <2>1. ASSUME NEW i \in Id
          PROVE  Failed(i)' \ {NoBatch} \subseteq Carriers(i)' /\ NoBatch \notin Failed(i)
        BY QueueAssumption DEF Failed, Carriers
    <2> QED
        BY <2>1, FS_Subset DEF FiniteCarriers
<1> DEFINE Charged(i, r) == r.attempts <= Cardinality(Failed(i)' \ {r.batch})
<1>2. ASSUME NEW i \in Id, NEW q \in {queue, committed}
      PROVE  Charged(i, q[i])
    <2>1. q[i].attempts \in Nat /\ q[i].attempts <= Cardinality(Failed(i) \ {q[i].batch})
        BY <1>0 DEF RowsCharged, Row
    <2> QED
        BY <2>1, ChargeStays
<1>3. ASSUME NEW i \in Id, NEW r, r.attempts = 0, r.batch = NoBatch
      PROVE  Charged(i, r)
    BY <1>1, <1>3, FS_CardinalityType
<1>4. ASSUME NEW i \in Id, NEW r, r.attempts = queue[i].attempts, r.batch \notin Failed(i)
      PROVE  Charged(i, r)
    <2>1. queue[i].attempts \in Nat /\ queue[i].attempts <= Cardinality(Failed(i) \ {queue[i].batch})
        BY <1>0 DEF RowsCharged, Row
    <2> QED
        BY <1>4, <2>1, ChargeStays
<1>5. ASSUME NEW i \in Id
      PROVE  Charged(i, queue'[i])
    <2>1. CASE Untouched(i)
        BY <1>2, <2>1 DEF Untouched
    <2>2. CASE Inserts(i)
        BY <1>3, <2>2 DEF Inserts, NewRow
    <2>3. CASE Claims(i)
        <3>1. PICK b \in FreshBatch : queue'[i].attempts = queue[i].attempts /\ queue'[i].batch = b
            BY <1>0, <2>3 DEF Claims, Row
        <3>2. b \notin Failed(i)
            BY DEF FreshBatch, Failed, Carriers
        <3> QED
            BY <1>4, <3>1, <3>2
    <2>4. CASE Removes(i)
        <3>1. AbsentRow.attempts = 0 /\ AbsentRow.batch = NoBatch
            BY DEF AbsentRow
        <3> QED
            BY <1>3, <2>4, <3>1 DEF Removes
    <2>5. CASE Resets(i)
        <3>1. queue'[i].attempts = queue[i].attempts /\ queue'[i].batch = NoBatch
            BY <1>0, <2>5 DEF Resets, Row
        <3> QED
            BY <1>1, <1>4, <3>1
    <2>6. CASE Fails(i)
        <3>1. PICK t \in Thread :
                  /\ pc[t] = "failing" /\ i \in frame[t].selected
                  /\ IF IsPermanentFailure(frame[t].status)
                     THEN queue'[i] = DropRow(queue[i])
                     ELSE \E at \in Nat : queue'[i] = RetryRow(queue[i], frame[t].attempts[i] + 1, at)
            BY <2>6 DEF Fails
        <3> DEFINE b == frame[t].batch
                   status == frame[t].status
                   n == frame[t].attempts[i]
        <3>2. CASE IsPermanentFailure(status)
            <4>1. queue'[i].attempts = queue[i].attempts /\ queue'[i].batch = NoBatch
                BY <1>0, <3>1, <3>2 DEF DropRow, Row
            <4> QED
                BY <1>1, <1>4, <4>1
        <3>3. CASE ~IsPermanentFailure(status)
            <4>1. queue'[i].attempts = n + 1 /\ queue'[i].batch = NoBatch
                BY <1>0, <3>1, <3>3 DEF RetryRow, Row
            <4>2. b \in Failed(i)
                <5>1. b \in Batch /\ i \in carried[b] /\ status \in reported[b]
                    BY <3>1 DEF ChargeInv, TypeInv, CallOK, FailingReported
                <5>2. status \in HttpStatus \cup {0} /\ 200 \notin HttpStatus
                    BY <1>0, <3>1, QueueAssumption DEF TypeOK, Frame
                <5> QED
                    BY <3>3, <5>1, <5>2 DEF Failed, Carriers, Final, IsPermanentFailure
            <4>3. n \in Nat /\ n <= Cardinality(Failed(i)' \ {b})
                <5>1. n \in Nat /\ n <= Cardinality(Failed(i) \ {b})
                    BY <1>0, <3>1 DEF ChargeInv, FailingCharged, TypeOK, Frame
                <5> QED
                    BY <5>1, ChargeStays
            <4>4. b \in Failed(i)' \ {NoBatch}
                BY <1>1, <4>2 DEF Failed, Carriers, HistoryGrows
            <4>5. /\ Cardinality((Failed(i)' \ {NoBatch}) \ {b}) = Cardinality(Failed(i)' \ {NoBatch}) - 1
                  /\ Cardinality(Failed(i)' \ {NoBatch}) \in Nat
                BY <1>1, <4>4, FS_RemoveElement, FS_CardinalityType
            <4>6. (Failed(i)' \ {NoBatch}) \ {b} = Failed(i)' \ {b}
                BY QueueAssumption DEF Failed, Carriers
            <4>7. Cardinality(Failed(i)' \ {b}) = Cardinality(Failed(i)' \ {NoBatch}) - 1
                BY <4>5, <4>6
            <4>8. n + 1 <= Cardinality(Failed(i)' \ {NoBatch})
                BY <4>3, <4>5, <4>7
            <4> QED
                BY <4>1, <4>8
        <3> QED
            BY <3>2, <3>3
    <2> QED
        BY <1>0, <2>1, <2>2, <2>3, <2>4, <2>5, <2>6, RowCases
<1>6. ASSUME NEW i \in Id
      PROVE  Charged(i, committed'[i])
    BY <1>0, <1>2, <1>5, CommittedStep DEF Commits
<1> QED
    BY <1>5, <1>6 DEF RowsCharged

LEMMA FailingChargedStays ==
  ASSUME ChargeInv, HistoryGrows, FiniteCarriers', [Next]_vars
  PROVE  FailingCharged'
<1>0. /\ TypeInv /\ TypeOK /\ RowsCharged
      /\ \A i \in Id : queue[i] \in Row /\ committed[i] \in Row
    BY DEF ChargeInv, TypeInv, TypeOK
<1> SUFFICES ASSUME NEW u \in Thread, pc'[u] = "failing", NEW i \in frame'[u].selected
             PROVE  frame'[u].attempts[i] <= Cardinality(Failed(i)' \ {frame'[u].batch})
    BY DEF FailingCharged
<1>1. CASE pc[u] = "failing" /\ frame'[u] = frame[u]
    <2>1. i \in Id /\ frame[u].attempts[i] \in Nat
        BY <1>0, <1>1 DEF TypeOK, Frame
    <2>2. frame[u].attempts[i] <= Cardinality(Failed(i) \ {frame[u].batch})
        BY <1>1 DEF ChargeInv, FailingCharged
    <2> QED
        BY <1>1, <2>1, <2>2, ChargeStays
<1>2. CASE Selects(u)
    <2> DEFINE q == View(ProcOf[u])
    <2>1. PICK b \in handed, status \in HttpStatus : \E S \in SUBSET InBatch(q, b) :
              frame'[u] = FailFrame(q, b, status, S)
        BY <1>2 DEF Selects
    <2>2. PICK S \in SUBSET InBatch(q, b) : frame'[u] = FailFrame(q, b, status, S)
        BY <2>1
    <2>3. S \subseteq Id
        BY DEF InBatch, Rows
    <2>4. i \in S /\ frame'[u].batch = b /\ frame'[u].attempts[i] = q[i].attempts
        BY <2>2, <2>3, FailFrameFields
    <2>5. i \in Id /\ q[i].batch = b /\ q[i].attempts \in Nat
        BY <1>0, <2>4 DEF InBatch, Rows, View, Row
    <2>6. q[i].attempts <= Cardinality(Failed(i) \ {q[i].batch})
        BY <1>0, <2>5 DEF RowsCharged, View
    <2> QED
        BY <2>4, <2>5, <2>6, ChargeStays
<1> QED
    BY <1>0, <1>1, <1>2, FailingCases

LEMMA InitCharge == Init => ChargeInv
<1> SUFFICES ASSUME Init
             PROVE  ChargeInv
    OBVIOUS
<1>1. TypeInv /\ ClaimsOwned
    BY InitType, InitClaimsOwned
<1>2. \A i \in Id : Carriers(i) = {} /\ Failed(i) = {}
    BY DEF Init, Carriers, Failed
<1>3. \A i \in Id : queue[i].attempts = 0 /\ committed[i].attempts = 0
    BY DEF Init, AbsentRow
<1>4. FiniteCarriers
    BY <1>2, FS_EmptySet DEF FiniteCarriers
<1>5. \A i \in Id : \A b : Cardinality(Failed(i) \ {b}) = 0
    BY <1>2, FS_EmptySet
<1>6. RowsCharged
    <2>1. ASSUME NEW i \in Id, NEW b
          PROVE  0 <= Cardinality(Failed(i) \ {b})
        BY <1>5
    <2> QED
        BY <1>3, <2>1 DEF RowsCharged
<1>7. FailingReported /\ FailingCharged
    BY DEF Init, FailingReported, FailingCharged
<1> QED
    BY <1>1, <1>4, <1>6, <1>7 DEF ChargeInv

LEMMA NextCharge == ChargeInv /\ [Next]_vars => ChargeInv'
<1> SUFFICES ASSUME ChargeInv, [Next]_vars
             PROVE  ChargeInv'
    OBVIOUS
<1>1. TypeInv' /\ ClaimsOwned' /\ HistoryGrows /\ FailingReported'
    BY NextType, NextClaimsOwned, NextGrows, FailingStays DEF ChargeInv
<1>2. FiniteCarriers'
    BY CarriersStayFinite DEF ChargeInv
<1> QED
    BY <1>1, <1>2, RowsChargedStay, FailingChargedStays DEF ChargeInv

(* A row is charged a failed attempt only for a batch it was in and that was *)
(* reported as failed for the time being, once for each: whatever fails, and *)
(* however late or often a report comes, and from any process.               *)
THEOREM AttemptsAccounted == Spec => []AttemptsJustified
<1>1. ChargeInv => AttemptsJustified
    <2> SUFFICES ASSUME ChargeInv, NEW i \in Id
                 PROVE  queue[i].attempts <= Cardinality(Failed(i))
        BY DEF AttemptsJustified, Failed
    <2>1. queue[i].attempts \in Nat /\ queue[i].attempts <= Cardinality(Failed(i) \ {queue[i].batch})
        <3>1. queue[i] \in Row
            BY DEF ChargeInv, TypeInv, TypeOK
        <3> QED
            BY <3>1 DEF ChargeInv, RowsCharged, Row
    <2>2. IsFiniteSet(Failed(i))
        BY FS_Subset DEF ChargeInv, FiniteCarriers, Failed
    <2>3. /\ Cardinality(Failed(i) \ {queue[i].batch}) <= Cardinality(Failed(i))
          /\ Cardinality(Failed(i) \ {queue[i].batch}) \in Nat /\ Cardinality(Failed(i)) \in Nat
        BY <2>2, FS_Subset, FS_CardinalityType
    <2> QED
        BY <2>1, <2>3
<1> QED
    BY InitCharge, NextCharge, <1>1, PTL DEF Spec

-----------------------------------------------------------------------------
(* One process: the inductive invariant. *)

SingleProcess == \A p, r \in Proc : p = r

(* What row r says of event i agrees with the batches the event was in: a   *)
(* row that may be claimed is in no live batch, and a claimed one in no     *)
(* live batch but its own, whose deadline it carries.                       *)
Exclusive(i, r) ==
    /\ r.state = "pending" => \A b \in Carriers(i) : Settled(b)
    /\ r.state = "uploading" => /\ \A b \in Carriers(i) \ {r.batch} : Settled(b)
                                /\ r.nextAttempt = deadline[r.batch]

AllExclusive == \A i \in Id : Exclusive(i, queue[i]) /\ Exclusive(i, committed[i])

(* AUTOINCREMENT ids are new. *)
Inserted ==
    \A i \in Id : i >= nextId =>
        /\ queue[i].state = "absent" /\ committed[i].state = "absent"
        /\ Carriers(i) = {}

(* FountainRuntime::mutex_. *)
OneAtATime == \A t, u \in Thread : pc[t] \notin Unlocked /\ pc[u] \notin Unlocked => t = u

(* Under the mutex the rows that were selected still name the batch. *)
FailingInBatch ==
    \A t \in Thread : pc[t] = "failing" /\ wedged = NoProc =>
        \A i \in frame[t].selected : queue[i].batch = frame[t].batch

DeliveryInv ==
    /\ TypeInv
    /\ ClaimsOwned
    /\ FailingReported
    /\ Inserted
    /\ OneAtATime
    /\ Durable
    /\ FailingInBatch
    /\ AllExclusive
    /\ NoDoubleDelivery

-----------------------------------------------------------------------------
(* The mutex. *)

LEMMA MutexStays ==
  ASSUME SingleProcess, TypeInv, OneAtATime, [Next]_vars
  PROVE  OneAtATime'
<1>0. pc \in [Thread -> Label] /\ frame \in [Thread -> Frame]
    BY DEF TypeInv, TypeOK
<1>1. \A t, u \in Thread : ProcOf[t] = ProcOf[u]
    BY QueueAssumption DEF SingleProcess
<1>2. ASSUME NEW t \in Thread,
             \A u \in Thread \ {t} : pc'[u] = pc[u],
             \/ pc'[t] \in Unlocked
             \/ pc[t] \notin Unlocked
             \/ Free(t)
      PROVE  OneAtATime'
    BY <1>1, <1>2 DEF OneAtATime, Free
<1>3. ASSUME NEW t \in Thread, NEW l, NEW f, Goto(t, l, f)
      PROVE  \A u \in Thread \ {t} : pc'[u] = pc[u]
    BY <1>0, <1>3 DEF Goto
<1>4. ASSUME NEW t \in Thread, \/ Return(t)
                               \/ \E excess, g : Advance(t, excess, g)
      PROVE  \A u \in Thread \ {t} : pc'[u] = pc[u]
    BY <1>3, <1>4 DEF Return, Advance
<1>5. ASSUME NEW t \in Thread,
             CreateUploadBatch(t) \/ MarkUploadBatchFailed(t) \/ RunMaintenance(t)
      PROVE  OneAtATime'
    <2>1. Free(t)
        BY <1>5 DEF CreateUploadBatch, MarkUploadBatchFailed, RunMaintenance, Enter
    <2>2. UNCHANGED pc \/ \E l, f : Goto(t, l, f)
        BY <1>5 DEF CreateUploadBatch, MarkUploadBatchFailed, RunMaintenance
    <2> QED
        BY <1>2, <1>3, <2>1, <2>2
<1>6. ASSUME NEW t \in Thread, ReturnBatch(t)
      PROVE  OneAtATime'
    <2>1. pc'[t] \in Unlocked
        BY <1>0, <1>6 DEF ReturnBatch, Return, Goto, Unlocked
    <2> QED
        BY <1>2, <1>4, <1>6, <2>1 DEF ReturnBatch
<1>7. ASSUME NEW t \in Thread,
             \/ FailBatch(t) \/ PruneOld(t) \/ PruneDropped(t) \/ CountRows(t)
             \/ SelectVictims(t) \/ DeleteVictims(t)
      PROVE  OneAtATime'
    <2>1. pc[t] \notin Unlocked
        BY <1>7 DEF FailBatch, PruneOld, PruneDropped, CountRows, SelectVictims,
                    DeleteVictims, Unlocked
    <2>2. \/ Return(t)
          \/ \E excess, g : Advance(t, excess, g)
          \/ \E l, f : Goto(t, l, f)
        BY <1>7 DEF FailBatch, PruneOld, PruneDropped, CountRows, SelectVictims, DeleteVictims
    <2> QED
        BY <1>2, <1>3, <1>4, <2>1, <2>2
<1>8. ASSUME NEW p \in Proc, Crash(p)
      PROVE  OneAtATime'
    BY <1>0, <1>8 DEF Crash, OneAtATime, Unlocked
<1>9. ASSUME UNCHANGED pc
      PROVE  OneAtATime'
    BY <1>9 DEF OneAtATime
<1> QED
    BY <1>5, <1>6, <1>7, <1>8, <1>9
    DEF Next, Continue, Configure, InsertEvent, CreateUploadBatchThrows,
        MarkUploadBatchSucceeded, Tick, SetClockBack, vars

-----------------------------------------------------------------------------
(* What a step that claims nothing may do with row i. *)

Benign(i, r) ==
    \/ r \in {queue[i], committed[i]}
    \/ r.state = "absent"
    \/ i >= nextId /\ i < nextId' /\ r.state = "pending"
    \/ /\ queue[i].state # "absent"
       /\ \/ r.state \notin {"pending", "uploading"}
          \/ r.state = "pending" /\ \A b \in Carriers(i) : Settled(b)

SomeClaim == \E t \in Thread : CreateUploadBatch(t)

LEMMA NoClaimKeeps ==
  ASSUME TypeInv, [Next]_vars, ~SomeClaim
  PROVE  carried' = carried
  BY DEF Next, Continue, SomeClaim, Configure, InsertEvent, CreateUploadBatchThrows,
         MarkUploadBatchSucceeded, MarkUploadBatchFailed, RunMaintenance, ReturnBatch,
         FailBatch, PruneOld, PruneDropped, CountRows, SelectVictims, DeleteVictims,
         Crash, Tick, SetClockBack, vars, history

LEMMA RowStep ==
  ASSUME DeliveryInv, [Next]_vars, ~SomeClaim, NEW i \in Id
  PROVE  Benign(i, queue'[i])
<1>0. /\ TypeInv /\ TypeOK /\ queue \in Table /\ OwnedClaims(queue) /\ Exclusive(i, queue[i])
      /\ now <= peak
    BY DEF DeliveryInv, TypeInv, TypeOK, Table, ClaimsOwned, AllExclusive
<1>1. CASE Untouched(i)
    BY <1>1 DEF Untouched, Benign
<1>2. CASE Inserts(i)
    BY <1>0, <1>2 DEF Inserts, Benign, NewRow, TypeOK
<1>3. CASE Claims(i)
    <2>1. PICK b \in FreshBatch, S \in SUBSET Eligible(queue) : i \in S /\ carried'[b] = S
        BY <1>0, <1>3 DEF Claims, FreshBatch, TypeOK
    <2>2. carried' = carried /\ carried[b] = {}
        BY <1>0, NoClaimKeeps DEF FreshBatch
    <2> QED
        BY <2>1, <2>2
<1>4. CASE Removes(i)
    <2>1. AbsentRow.state = "absent"
        BY DEF AbsentRow
    <2> QED
        BY <1>4, <2>1 DEF Removes, Benign
<1>5. CASE Resets(i)
    <2>1. queue'[i].state = "pending" /\ queue[i].state = "uploading"
        BY <1>0, <1>5 DEF Resets, Stale, Table, Row
    <2>2. queue[i].batch \in Batch
        BY <1>0, <2>1 DEF OwnedClaims, Table, Row
    <2>3. deadline[queue[i].batch] <= now
        BY <1>0, <1>5, <2>1 DEF Resets, Stale, Exclusive
    <2>4. deadline[queue[i].batch] <= peak
        BY <1>0, <2>2, <2>3 DEF TypeOK
    <2>5. \A b \in Carriers(i) : Settled(b)
        BY <1>0, <2>1, <2>4 DEF Exclusive, Settled
    <2> QED
        BY <2>1, <2>5 DEF Benign
<1>6. CASE Fails(i)
    <2>1. PICK t \in Thread :
              /\ pc[t] = "failing" /\ i \in frame[t].selected
              /\ IF IsPermanentFailure(frame[t].status)
                 THEN queue'[i] = DropRow(queue[i])
                 ELSE \E at \in Nat : queue'[i] = RetryRow(queue[i], frame[t].attempts[i] + 1, at)
        BY <1>6 DEF Fails
    <2> DEFINE b == frame[t].batch
    <2>2. queue[i].batch = b /\ b \in Batch /\ b # NoBatch
        BY <1>6, <2>1, QueueAssumption DEF Fails, DeliveryInv, FailingInBatch, TypeInv, CallOK
    <2>3. queue[i].state = "uploading"
        BY <1>0, <2>2 DEF OwnedClaims
    <2>4. Settled(b)
        BY <2>1 DEF DeliveryInv, FailingReported, Settled
    <2>5. \A c \in Carriers(i) : Settled(c)
        BY <1>0, <2>2, <2>3, <2>4 DEF Exclusive
    <2>6. queue'[i].state \in {"pending", "dropped"}
        BY <1>0, <2>1 DEF DropRow, RetryRow, Table, Row
    <2> QED
        BY <2>3, <2>5, <2>6 DEF Benign
<1> QED
    BY <1>0, <1>1, <1>2, <1>3, <1>4, <1>5, <1>6, RowCases

-----------------------------------------------------------------------------
(* A step that claims nothing keeps the claims exclusive. *)

LEMMA SettledStays ==
  ASSUME TypeInv, [Next]_vars, NEW b \in Batch, carried[b] # {}
  PROVE  deadline'[b] = deadline[b] /\ (Settled(b) => Settled(b)')
<1>0. TypeOK
    BY DEF TypeInv
<1>1. HistoryGrows
    BY NextGrows
<1>2. deadline'[b] = deadline[b]
    <2>1. ASSUME NEW t \in Thread, CreateUploadBatch(t)
          PROVE  deadline'[b] = deadline[b]
        <3>1. PICK c \in FreshBatch : deadline' = [deadline EXCEPT ![c] = now + StaleTimeout]
            BY <2>1, ClaimStep
        <3>2. c # b
            BY DEF FreshBatch
        <3> QED
            BY <1>0, <3>1, <3>2 DEF TypeOK
    <2> QED
        BY <2>1
        DEF Next, Continue, Configure, InsertEvent, CreateUploadBatchThrows,
            MarkUploadBatchSucceeded, MarkUploadBatchFailed, RunMaintenance, ReturnBatch,
            FailBatch, PruneOld, PruneDropped, CountRows, SelectVictims, DeleteVictims,
            Crash, Tick, SetClockBack, vars, history
<1>3. peak <= peak' /\ peak \in Nat /\ peak' \in Nat
    <2>1. peak' # peak => Tick
        BY DEF Next, Continue, Configure, InsertEvent, CreateUploadBatch, CreateUploadBatchThrows,
            MarkUploadBatchSucceeded, MarkUploadBatchFailed, RunMaintenance, ReturnBatch,
            FailBatch, PruneOld, PruneDropped, CountRows, SelectVictims, DeleteVictims,
            Crash, SetClockBack, vars
    <2> QED
        BY <1>0, <2>1 DEF Tick, TypeOK
<1>4. deadline[b] \in Nat
    BY <1>0 DEF TypeOK
<1> QED
    BY <1>1, <1>2, <1>3, <1>4 DEF Settled, HistoryGrows

LEMMA InsertedStays ==
  ASSUME DeliveryInv, [Next]_vars, ~SomeClaim
  PROVE  Inserted'
<1>1. nextId <= nextId' /\ nextId \in Int /\ nextId' \in Int
    <2>1. nextId' # nextId => \E t \in Thread : InsertEvent(t)
        BY DEF Next, Continue, Configure, CreateUploadBatch, CreateUploadBatchThrows,
            MarkUploadBatchSucceeded, MarkUploadBatchFailed, RunMaintenance, ReturnBatch,
            FailBatch, PruneOld, PruneDropped, CountRows, SelectVictims, DeleteVictims,
            Crash, Tick, SetClockBack, vars
    <2> QED
        BY <2>1 DEF InsertEvent, DeliveryInv, TypeInv, TypeOK
<1>2. ASSUME NEW i \in Id, i >= nextId'
      PROVE  /\ queue'[i].state = "absent" /\ committed'[i].state = "absent"
             /\ {b \in Batch : i \in carried'[b]} = {}
    <2>1. i >= nextId /\ ~ (i < nextId')
        BY <1>1, <1>2 DEF Id
    <2>2. queue[i].state = "absent" /\ committed[i].state = "absent" /\ Carriers(i) = {}
        BY <2>1 DEF DeliveryInv, Inserted
    <2>3. queue'[i].state = "absent"
        BY <2>1, <2>2, RowStep DEF Benign
    <2>4. committed'[i].state = "absent"
        BY <2>2, <2>3, CommittedStep DEF DeliveryInv, Commits
    <2> QED
        BY <2>2, <2>3, <2>4, NoClaimKeeps DEF Carriers, DeliveryInv
<1> QED
    BY <1>2 DEF Inserted, Carriers

LEMMA ExclusiveStays ==
  ASSUME DeliveryInv, [Next]_vars, ~SomeClaim
  PROVE  AllExclusive' /\ NoDoubleDelivery'
<1>1. TypeInv /\ OwnedClaims(queue) /\ OwnedClaims(committed) /\ carried' = carried
    BY NoClaimKeeps DEF DeliveryInv, ClaimsOwned
<1>2. ASSUME NEW i \in Id, NEW b \in Carriers(i)
      PROVE  b \in Batch /\ deadline'[b] = deadline[b] /\ (Settled(b) => Settled(b)')
    BY <1>1, SettledStays DEF Carriers
<1>3. ASSUME NEW i \in Id
      PROVE  Carriers(i)' = Carriers(i)
    BY <1>1 DEF Carriers
<1>4. ASSUME NEW i \in Id, NEW r, Exclusive(i, r), r.state = "uploading" => r.batch \in Carriers(i)
      PROVE  Exclusive(i, r)'
    BY <1>2, <1>3, <1>4 DEF Exclusive
<1>5. ASSUME NEW i \in Id, NEW q \in {queue, committed}
      PROVE  Exclusive(i, q[i]) /\ (q[i].state = "uploading" => q[i].batch \in Carriers(i))
    <2>1. q \in Table /\ OwnedClaims(q)
        BY <1>1 DEF TypeInv, TypeOK, Table
    <2>2. q[i].state = "uploading" => q[i].batch \in Batch /\ i \in carried[q[i].batch]
        BY <2>1 DEF OwnedClaims, Table, Row
    <2> QED
        BY <2>2 DEF Carriers, DeliveryInv, AllExclusive
<1>6. ASSUME NEW i \in Id
      PROVE  /\ queue'[i].state = "pending" => \A b \in Carriers(i)' : Settled(b)'
             /\ queue'[i].state = "uploading" =>
                   /\ \A b \in Carriers(i)' \ {queue'[i].batch} : Settled(b)'
                   /\ queue'[i].nextAttempt = deadline'[queue'[i].batch]
    <2>1. CASE queue'[i] \in {queue[i], committed[i]}
        BY <1>4, <1>5, <2>1 DEF Exclusive
    <2>2. CASE i >= nextId /\ queue'[i].state = "pending"
        BY <1>3, <2>2 DEF DeliveryInv, Inserted
    <2>3. CASE queue'[i].state \notin {"pending", "uploading"}
        BY <2>3
    <2>4. CASE queue'[i].state = "pending" /\ \A b \in Carriers(i) : Settled(b)
        BY <1>2, <1>3, <2>4
    <2> QED
        BY <2>1, <2>2, <2>3, <2>4, RowStep DEF Benign
<1>7. ASSUME NEW i \in Id
      PROVE  /\ committed'[i].state = "pending" => \A b \in Carriers(i)' : Settled(b)'
             /\ committed'[i].state = "uploading" =>
                   /\ \A b \in Carriers(i)' \ {committed'[i].batch} : Settled(b)'
                   /\ committed'[i].nextAttempt = deadline'[committed'[i].batch]
    <2>1. CASE committed' = committed
        BY <1>4, <1>5, <2>1 DEF Exclusive
    <2>2. CASE committed' = queue'
        BY <1>6, <2>2
    <2> QED
        BY <1>1, <2>1, <2>2, CommittedStep DEF Commits
<1>8. AllExclusive'
    BY <1>6, <1>7 DEF AllExclusive, Exclusive
<1>9. NoDoubleDelivery'
    BY <1>2, <1>3 DEF DeliveryInv, NoDoubleDelivery
<1> QED
    BY <1>8, <1>9

-----------------------------------------------------------------------------
(* A claim keeps them exclusive, because the rows it takes are in no live batch. *)

LEMMA ClaimExclusive ==
  ASSUME DeliveryInv, [Next]_vars, SomeClaim
  PROVE  Inserted' /\ AllExclusive' /\ NoDoubleDelivery'
<1>0. /\ TypeInv /\ TypeOK /\ queue \in Table /\ committed \in Table
      /\ carried \in [Batch -> SUBSET Id] /\ deadline \in [Batch -> Nat]
      /\ OwnedClaims(queue) /\ AllExclusive /\ Inserted
    BY DEF DeliveryInv, TypeInv, TypeOK, Table, ClaimsOwned
<1>1. PICK t \in Thread : CreateUploadBatch(t)
    BY DEF SomeClaim
<1>2. PICK b \in FreshBatch, S \in SUBSET Eligible(queue) :
          /\ wedged = NoProc
          /\ Write(ProcOf[t], ClaimRows(queue, S, b))
          /\ carried' = [carried EXCEPT ![b] = S]
          /\ deadline' = [deadline EXCEPT ![b] = now + StaleTimeout]
    BY <1>1, ClaimStep
<1>3. queue' = ClaimRows(queue, S, b) /\ committed' = queue'
    BY <1>2, QueueAssumption DEF Write
<1>4. /\ b \in Batch /\ carried[b] = {} /\ b # NoBatch
      /\ S \subseteq Id /\ \A i \in S : queue[i].state = "pending"
    BY QueueAssumption DEF FreshBatch, Eligible
<1>5. ASSUME NEW i \in Id
      PROVE  /\ b \notin Carriers(i)
             /\ i \in S => Carriers(i)' = Carriers(i) \cup {b}
             /\ i \notin S => Carriers(i)' = Carriers(i)
    BY <1>0, <1>2, <1>4 DEF Carriers
<1>6. ASSUME NEW i \in Id, NEW c \in Carriers(i)
      PROVE  c \in Batch /\ deadline'[c] = deadline[c] /\ (Settled(c) => Settled(c)')
    BY <1>0, SettledStays DEF Carriers
<1>7. ASSUME NEW i \in S
      PROVE  /\ queue'[i].state = "uploading" /\ queue'[i].batch = b
             /\ queue'[i].nextAttempt = deadline'[b]
             /\ \A c \in Carriers(i) : Settled(c)'
    <2>1. /\ queue'[i].state = "uploading" /\ queue'[i].batch = b
          /\ queue'[i].nextAttempt = now + StaleTimeout
        <3>1. i \in Id /\ queue[i] \in Row
            BY <1>0, <1>4 DEF Table
        <3>2. queue'[i] = [queue[i] EXCEPT !.state = "uploading", !.batch = b,
                                           !.nextAttempt = now + StaleTimeout]
            BY <1>3, <3>1 DEF ClaimRows
        <3> QED
            BY <3>1, <3>2 DEF Row
    <2>2. deadline'[b] = now + StaleTimeout
        BY <1>0, <1>2, <1>4
    <2>3. \A c \in Carriers(i) : Settled(c)
        BY <1>0, <1>4 DEF AllExclusive, Exclusive
    <2> QED
        BY <1>4, <1>6, <2>1, <2>2, <2>3
<1>8. ASSUME NEW i \in Id \ S
      PROVE  queue'[i] = queue[i] /\ Carriers(i)' = Carriers(i)
    BY <1>3, <1>5, <1>8 DEF ClaimRows
<1>9. ASSUME NEW i \in Id
      PROVE  /\ queue'[i].state = "pending" => \A c \in Carriers(i)' : Settled(c)'
             /\ queue'[i].state = "uploading" =>
                   /\ \A c \in Carriers(i)' \ {queue'[i].batch} : Settled(c)'
                   /\ queue'[i].nextAttempt = deadline'[queue'[i].batch]
    <2>1. CASE i \in S
        BY <1>5, <1>7, <2>1
    <2>2. CASE i \notin S
        <3>1. queue[i].state = "uploading" => queue[i].batch \in Carriers(i)
            BY <1>0 DEF OwnedClaims, Carriers, Table, Row
        <3> QED
            BY <1>0, <1>6, <1>8, <2>2, <3>1 DEF AllExclusive, Exclusive
    <2> QED
        BY <2>1, <2>2
<1>10. AllExclusive'
    BY <1>3, <1>9 DEF AllExclusive, Exclusive
<1>11. NoDoubleDelivery'
    <2>1. ASSUME NEW i \in Id, NEW c \in Carriers(i)', NEW d \in Carriers(i)', c # d
          PROVE  Settled(c)' \/ Settled(d)'
        <3>1. CASE i \in S
            BY <1>5, <1>7, <2>1, <3>1
        <3>2. CASE i \notin S
            BY <1>5, <1>6, <2>1, <3>2 DEF DeliveryInv, NoDoubleDelivery
        <3> QED
            BY <3>1, <3>2
    <2> QED
        BY <2>1 DEF NoDoubleDelivery
<1>12. Inserted'
    <2>1. nextId' = nextId
        BY <1>1 DEF CreateUploadBatch
    <2>2. ASSUME NEW i \in Id, i >= nextId
          PROVE  queue'[i].state = "absent" /\ Carriers(i)' = {}
        <3>1. queue[i].state = "absent" /\ Carriers(i) = {}
            BY <1>0, <2>2 DEF Inserted
        <3>2. i \notin S
            BY <1>4, <3>1
        <3> QED
            BY <1>8, <3>1, <3>2
    <2> QED
        BY <1>3, <2>1, <2>2 DEF Inserted
<1> QED
    BY <1>10, <1>11, <1>12

-----------------------------------------------------------------------------
(* While a call fails a batch, its process does nothing else to the table. *)

LEMMA FailingInBatchStays ==
  ASSUME SingleProcess, DeliveryInv, [Next]_vars
  PROVE  FailingInBatch'
<1>0. /\ TypeOK /\ OneAtATime /\ Durable /\ FailingInBatch
      /\ pc \in [Thread -> Label] /\ frame \in [Thread -> Frame]
    BY DEF DeliveryInv, TypeInv, TypeOK
<1> SUFFICES ASSUME NEW u \in Thread, pc'[u] = "failing", wedged' = NoProc
             PROVE  \A i \in frame'[u].selected : queue'[i].batch = frame'[u].batch
    BY DEF FailingInBatch
<1>1. ASSUME pc[u] = "failing", frame'[u] = frame[u], UNCHANGED <<queue, wedged>>
      PROVE  \A i \in frame'[u].selected : queue'[i].batch = frame'[u].batch
    BY <1>0, <1>1 DEF FailingInBatch
<1>2. ASSUME NEW t \in Thread, Free(t)
      PROVE  pc[u] # "failing"
    BY <1>2, QueueAssumption DEF SingleProcess, Free, Unlocked
<1>3. ASSUME NEW t \in Thread, MarkUploadBatchFailed(t)
      PROVE  \A i \in frame'[u].selected : queue'[i].batch = frame'[u].batch
    <2>1. queue' = queue /\ wedged = NoProc /\ View(ProcOf[t]) = queue
        BY <1>0, <1>3 DEF MarkUploadBatchFailed, tables, Durable, View
    <2>2. PICK b \in handed, status \in HttpStatus : \E S \in SUBSET InBatch(View(ProcOf[t]), b) :
              \/ UNCHANGED <<pc, frame>>
              \/ Goto(t, "failing", FailFrame(View(ProcOf[t]), b, status, S))
        BY <1>3, SelectStep
    <2>3. PICK S \in SUBSET InBatch(queue, b) :
              \/ UNCHANGED <<pc, frame>>
              \/ Goto(t, "failing", FailFrame(queue, b, status, S))
        BY <2>1, <2>2
    <2>4. pc[u] # "failing"
        BY <1>2, <1>3 DEF MarkUploadBatchFailed, Enter
    <2>5. frame'[u] = FailFrame(queue, b, status, S)
        BY <1>0, <2>3, <2>4 DEF Goto
    <2> QED
        BY <2>1, <2>5, FailFrameFields DEF InBatch
<1>4. ASSUME NEW t \in Thread, NEW l \in Label, NEW f, Goto(t, l, f), l # "failing"
      PROVE  u # t /\ pc[u] = "failing" /\ frame'[u] = frame[u]
    BY <1>0, <1>4 DEF Goto
<1>5. ASSUME NEW t \in Thread, \/ Return(t)
                               \/ \E excess, g : Advance(t, excess, g)
      PROVE  u # t /\ pc[u] = "failing" /\ frame'[u] = frame[u]
    BY <1>4, <1>5 DEF Return, Advance, Label
<1>6. ASSUME NEW t \in Thread,
             \/ FailBatch(t) \/ PruneOld(t) \/ PruneDropped(t) \/ CountRows(t)
             \/ SelectVictims(t) \/ DeleteVictims(t)
      PROVE  FALSE
    <2>1. pc[t] \notin Unlocked
        BY <1>6 DEF FailBatch, PruneOld, PruneDropped, CountRows, SelectVictims,
                    DeleteVictims, Unlocked
    <2>2. \/ Return(t)
          \/ \E excess, g : Advance(t, excess, g)
          \/ \E l \in Label : \E f : Goto(t, l, f) /\ l # "failing"
        BY <1>6 DEF FailBatch, PruneOld, PruneDropped, CountRows, SelectVictims,
                    DeleteVictims, Label
    <2>3. u # t /\ pc[u] = "failing"
        BY <1>4, <1>5, <2>2
    <2> QED
        BY <1>0, <2>1, <2>3 DEF OneAtATime, Unlocked
<1>7. ASSUME NEW t \in Thread, ReturnBatch(t)
      PROVE  pc[u] = "failing" /\ frame'[u] = frame[u] /\ UNCHANGED <<queue, wedged>>
    BY <1>5, <1>7 DEF ReturnBatch, tables
<1>8. ASSUME NEW t \in Thread, CreateUploadBatch(t) \/ RunMaintenance(t)
      PROVE  FALSE
    <2>1. Free(t) /\ \E l \in Label : \E f : Goto(t, l, f) /\ l # "failing"
        BY <1>8 DEF CreateUploadBatch, RunMaintenance, Enter, Label
    <2> QED
        BY <1>2, <1>4, <2>1
<1>9. ASSUME NEW t \in Thread,
             \/ Configure(t) \/ InsertEvent(t) \/ CreateUploadBatchThrows(t)
             \/ MarkUploadBatchSucceeded(t)
      PROVE  FALSE
    <2>1. Free(t) /\ pc' = pc
        BY <1>9 DEF Configure, InsertEvent, CreateUploadBatchThrows, MarkUploadBatchSucceeded, Enter
    <2> QED
        BY <1>2, <2>1
<1>10. ASSUME NEW p \in Proc, Crash(p)
       PROVE  FALSE
    <2>1. ProcOf[u] = p
        BY QueueAssumption DEF SingleProcess
    <2> QED
        BY <1>10, <2>1 DEF Crash
<1>11. ASSUME UNCHANGED <<pc, frame, queue, wedged>>
       PROVE  \A i \in frame'[u].selected : queue'[i].batch = frame'[u].batch
    BY <1>1, <1>11
<1> QED
    BY <1>1, <1>3, <1>6, <1>7, <1>8, <1>9, <1>10, <1>11
    DEF Next, Continue, Tick, SetClockBack, vars, tables

-----------------------------------------------------------------------------
(* The theorem. *)

LEMMA InitDelivery == Init => DeliveryInv
<1> SUFFICES ASSUME Init
             PROVE  DeliveryInv
    OBVIOUS
<1>1. TypeInv /\ ClaimsOwned
    BY InitType, InitClaimsOwned
<1>2. \A i \in Id : queue[i].state = "absent" /\ committed[i].state = "absent"
    BY DEF Init, AbsentRow
<1>3. \A i \in Id : Carriers(i) = {}
    BY DEF Init, Carriers
<1>4. Inserted /\ AllExclusive /\ NoDoubleDelivery
    BY <1>2, <1>3 DEF Inserted, AllExclusive, Exclusive, NoDoubleDelivery
<1>5. FailingReported /\ OneAtATime /\ Durable /\ FailingInBatch
    BY DEF Init, FailingReported, OneAtATime, Unlocked, Durable, FailingInBatch
<1> QED
    BY <1>1, <1>4, <1>5 DEF DeliveryInv

LEMMA NextDelivery == SingleProcess /\ DeliveryInv /\ [Next]_vars => DeliveryInv'
<1> SUFFICES ASSUME SingleProcess, DeliveryInv, [Next]_vars
             PROVE  DeliveryInv'
    OBVIOUS
<1>1. TypeInv' /\ ClaimsOwned'
    BY NextType, NextClaimsOwned DEF DeliveryInv
<1>2. FailingReported'
    BY FailingStays DEF DeliveryInv
<1>3. OneAtATime' /\ Durable'
    BY MutexStays, DurableStays DEF DeliveryInv
<1>4. FailingInBatch'
    BY FailingInBatchStays
<1>5. Inserted' /\ AllExclusive' /\ NoDoubleDelivery'
    BY InsertedStays, ExclusiveStays, ClaimExclusive
<1> QED
    BY <1>1, <1>2, <1>3, <1>4, <1>5 DEF DeliveryInv

(* An event is claimed again only when its earlier claims were answered or  *)
(* had become stale, whatever fails and whatever the other threads do.      *)
THEOREM ClaimsExclusive ==
  ASSUME SingleProcess
  PROVE  Spec => []NoDoubleDelivery
<1>1. DeliveryInv => NoDoubleDelivery
    BY DEF DeliveryInv
<1>2. DeliveryInv /\ [Next]_vars => DeliveryInv'
    BY NextDelivery
<1> QED
    BY InitDelivery, <1>1, <1>2, PTL DEF Spec

-----------------------------------------------------------------------------
(* The row limit.  A SELECT that ends early, or a DELETE that fails, is       *)
(* passed over and the next group takes its turn; and with a second process   *)
(* the table is not that of the SELECTs any more when the DELETE comes.       *)

NoStatementFails == "statement" \notin Faults

(* A row has a level that is in one of the groups. *)
LevelsKnown ==
    \A i \in Id : /\ queue[i].state # "absent" => queue[i].level \in Level
                  /\ committed[i].state # "absent" => committed[i].level \in Level

(* What t is still to delete, and that nothing less severe is left. *)
OverLimit(t) ==
    /\ frame[t].group \in 1 .. 4
    /\ frame[t].excess > 0
    /\ frame[t].excess = Cardinality(Rows(queue)) - MaxQueueRows
    /\ \A g \in 1 .. frame[t].group - 1 : Evictable(queue, g) = {}

Limiting(t) ==
    /\ pc[t] \notin Unlocked => ProcOf[t] \in configured
    /\ pc[t] \in {"select_victims", "delete_victims"} => OverLimit(t)
    /\ pc[t] = "delete_victims" =>
          frame[t].selected \in Oldest(queue, Evictable(queue, frame[t].group), frame[t].excess)

LimitInv ==
    /\ TypeInv
    /\ OneAtATime
    /\ Durable
    /\ LevelsKnown
    /\ \A t \in Thread : Limiting(t)

LEMMA Groups ==
  /\ Len(SeverityGroups) = 4 /\ DOMAIN SeverityGroups = 1 .. 4
  /\ \A level : \A g, h \in 1 .. 4 : level \in SeverityGroups[g] /\ level \in SeverityGroups[h] => g = h
  /\ \A level \in Level : \E g \in 1 .. 4 : level \in SeverityGroups[g]
<1>1. /\ Len(SeverityGroups) = 4 /\ DOMAIN SeverityGroups = 1 .. 4
      /\ SeverityGroups[1] = {"debug", "info"} /\ SeverityGroups[2] = {"warning"}
      /\ SeverityGroups[3] = {"error"} /\ SeverityGroups[4] = {"fault"}
    BY DEF SeverityGroups
<1>2. \A g \in 1 .. 4 : g = 1 \/ g = 2 \/ g = 3 \/ g = 4
    OBVIOUS
<1>3. \A level : \A g, h \in 1 .. 4 : level \in SeverityGroups[g] /\ level \in SeverityGroups[h] => g = h
    BY <1>1, <1>2
<1>4. \A level \in Level : \E g \in 1 .. 4 : level \in SeverityGroups[g]
    <2>1. 1 \in 1 .. 4 /\ 2 \in 1 .. 4 /\ 3 \in 1 .. 4 /\ 4 \in 1 .. 4
        OBVIOUS
    <2> QED
        BY <1>1, <2>1, QueueAssumption
<1> QED
    BY <1>1, <1>3, <1>4

LEMMA LevelsStayKnown ==
  ASSUME TypeInv, LevelsKnown, [Next]_vars
  PROVE  LevelsKnown'
<1>0. queue \in Table /\ committed \in Table
    BY DEF TypeInv, TypeOK, Table
<1>1. ASSUME NEW i \in Id, queue'[i].state # "absent"
      PROVE  queue'[i].level \in Level
    <2>1. CASE Untouched(i)
        BY <1>1, <2>1 DEF Untouched, LevelsKnown
    <2>2. CASE Inserts(i)
        BY <2>2 DEF Inserts, NewRow
    <2>3. CASE Removes(i)
        <3>1. AbsentRow.state = "absent"
            BY DEF AbsentRow
        <3> QED
            BY <1>1, <2>3, <3>1 DEF Removes
    <2>4. CASE Claims(i)
        <3>1. i \in Eligible(queue) /\ queue'[i].level = queue[i].level
            BY <1>0, <2>4 DEF Claims, Table, Row
        <3> QED
            BY <3>1 DEF Eligible, LevelsKnown
    <2>5. CASE Resets(i)
        <3>1. i \in Stale(queue, now) /\ queue'[i].level = queue[i].level
            BY <1>0, <2>5 DEF Resets, Table, Row
        <3> QED
            BY <3>1 DEF Stale, LevelsKnown
    <2>6. CASE Fails(i)
        <3>1. queue[i].state # "absent" /\ queue'[i].level = queue[i].level
            BY <1>0, <2>6 DEF Fails, DropRow, RetryRow, Table, Row
        <3> QED
            BY <3>1 DEF LevelsKnown
    <2> QED
        BY <2>1, <2>2, <2>3, <2>4, <2>5, <2>6, RowCases
<1>2. ASSUME NEW i \in Id, committed'[i].state # "absent"
      PROVE  committed'[i].level \in Level
    BY <1>1, <1>2, CommittedStep DEF Commits, LevelsKnown
<1> QED
    BY <1>1, <1>2 DEF LevelsKnown

(* Under the mutex only the caller inside, and the end of its process, does   *)
(* anything to the table.                                                     *)
LEMMA OnlyTheCaller ==
  ASSUME SingleProcess, TypeInv, OneAtATime, [Next]_vars, NEW u \in Thread, pc[u] \notin Unlocked
  PROVE  \/ FailBatch(u) \/ PruneOld(u) \/ PruneDropped(u)
         \/ CountRows(u) \/ SelectVictims(u) \/ DeleteVictims(u)
         \/ \E p \in Proc : Crash(p) /\ ProcOf[u] = p
         \/ pc'[u] = pc[u] /\ frame'[u] = frame[u] /\ UNCHANGED <<queue, configured, evicted>>
<1>0. pc \in [Thread -> Label] /\ frame \in [Thread -> Frame]
    BY DEF TypeInv, TypeOK
<1>1. ASSUME NEW t \in Thread
      PROVE  ~Free(t)
    BY <1>1, QueueAssumption DEF SingleProcess, Free
<1>2. ASSUME NEW t \in Thread, pc[t] \notin Unlocked
      PROVE  t = u
    BY <1>2 DEF OneAtATime
<1>3. ASSUME NEW t \in Thread,
             \/ Configure(t) \/ InsertEvent(t) \/ CreateUploadBatch(t) \/ CreateUploadBatchThrows(t)
             \/ MarkUploadBatchSucceeded(t) \/ MarkUploadBatchFailed(t) \/ RunMaintenance(t)
      PROVE  FALSE
    <2>1. Free(t)
        BY <1>3 DEF Configure, InsertEvent, CreateUploadBatch, CreateUploadBatchThrows,
                    MarkUploadBatchSucceeded, MarkUploadBatchFailed, RunMaintenance, Enter
    <2> QED
        BY <1>1, <2>1
<1>4. ASSUME NEW t \in Thread, ReturnBatch(t)
      PROVE  pc'[u] = pc[u] /\ frame'[u] = frame[u] /\ UNCHANGED <<queue, configured, evicted>>
    <2>1. t # u
        BY <1>4 DEF ReturnBatch, Unlocked
    <2> QED
        BY <1>0, <1>4, <2>1 DEF ReturnBatch, Return, Goto, tables
<1>5. ASSUME NEW t \in Thread,
             \/ FailBatch(t) \/ PruneOld(t) \/ PruneDropped(t) \/ CountRows(t)
             \/ SelectVictims(t) \/ DeleteVictims(t)
      PROVE  t = u
    <2>1. pc[t] \notin Unlocked
        BY <1>5 DEF FailBatch, PruneOld, PruneDropped, CountRows, SelectVictims,
                    DeleteVictims, Unlocked
    <2> QED
        BY <1>2, <2>1
<1>6. ASSUME NEW p \in Proc, Crash(p)
      PROVE  ProcOf[u] = p
    BY QueueAssumption DEF SingleProcess
<1> QED
    BY <1>3, <1>4, <1>5, <1>6
    DEF Next, Continue, Tick, SetClockBack, vars, tables, history

LEMMA Entering ==
  ASSUME TypeInv, [Next]_vars, NEW u \in Thread, pc[u] \in Unlocked, pc'[u] \notin Unlocked
  PROVE  pc'[u] \in {"failing", "prune_old"} /\ ProcOf[u] \in configured'
<1>0. pc \in [Thread -> Label] /\ frame \in [Thread -> Frame]
    BY DEF TypeInv, TypeOK
<1>1. ASSUME NEW t \in Thread, NEW l, NEW f, Goto(t, l, f)
      PROVE  u = t /\ pc'[u] = l
    BY <1>0, <1>1 DEF Goto
<1>2. ASSUME NEW t \in Thread, \/ Return(t)
                               \/ \E excess, g : Advance(t, excess, g)
      PROVE  u = t /\ pc'[u] \in {"idle", "select_victims"}
    BY <1>1, <1>2 DEF Return, Advance
<1>3. ASSUME NEW t \in Thread, MarkUploadBatchFailed(t)
      PROVE  pc'[u] \in {"failing", "prune_old"} /\ ProcOf[u] \in configured'
    <2>1. UNCHANGED pc \/ \E f : Goto(t, "failing", f)
        BY <1>3 DEF MarkUploadBatchFailed
    <2>2. ProcOf[t] \in configured /\ configured' = configured
        BY <1>3 DEF MarkUploadBatchFailed, Enter
    <2> QED
        BY <1>1, <2>1, <2>2
<1>4. ASSUME NEW t \in Thread, RunMaintenance(t)
      PROVE  pc'[u] \in {"failing", "prune_old"} /\ ProcOf[u] \in configured'
    <2>1. \E f : Goto(t, "prune_old", f)
        BY <1>4 DEF RunMaintenance
    <2>2. ProcOf[t] \in configured /\ configured' = configured
        BY <1>4 DEF RunMaintenance, Enter
    <2> QED
        BY <1>1, <2>1, <2>2
<1>5. ASSUME NEW t \in Thread, CreateUploadBatch(t) \/ ReturnBatch(t)
      PROVE  FALSE
    <2>1. \E l \in Unlocked : \E f : Goto(t, l, f)
        BY <1>5 DEF CreateUploadBatch, ReturnBatch, Return, Unlocked
    <2> QED
        BY <1>1, <2>1
<1>6. ASSUME NEW t \in Thread,
             \/ FailBatch(t) \/ PruneOld(t) \/ PruneDropped(t) \/ CountRows(t)
             \/ SelectVictims(t) \/ DeleteVictims(t)
      PROVE  FALSE
    <2>1. pc[t] \notin Unlocked
        BY <1>6 DEF FailBatch, PruneOld, PruneDropped, CountRows, SelectVictims,
                    DeleteVictims, Unlocked
    <2>2. \/ Return(t)
          \/ \E excess, g : Advance(t, excess, g)
          \/ \E l, f : Goto(t, l, f)
        BY <1>6 DEF FailBatch, PruneOld, PruneDropped, CountRows, SelectVictims, DeleteVictims
    <2>3. u = t
        BY <1>1, <1>2, <2>2
    <2> QED
        BY <2>1, <2>3
<1>7. ASSUME NEW p \in Proc, Crash(p)
      PROVE  FALSE
    BY <1>0, <1>7 DEF Crash, Unlocked
<1> QED
    BY <1>3, <1>4, <1>5, <1>6, <1>7
    DEF Next, Continue, Configure, InsertEvent, CreateUploadBatchThrows,
        MarkUploadBatchSucceeded, Tick, SetClockBack, vars

LEMMA ViewIsQueue ==
  ASSUME SingleProcess, TypeInv, Durable, NEW t \in Thread
  PROVE  View(ProcOf[t]) = queue /\ CanWrite(ProcOf[t])
<1>1. wedged \in {NoProc, ProcOf[t]}
    BY QueueAssumption DEF TypeInv, TypeOK, SingleProcess
<1> QED
    BY <1>1 DEF View, CanWrite, Durable

LEMMA DeleteRows ==
  ASSUME TypeInv, NEW V \in SUBSET Id
  PROVE  /\ Rows(Delete(queue, V)) = Rows(queue) \ V
         /\ \A g : Evictable(Delete(queue, V), g) = Evictable(queue, g) \ V
         /\ \A j \in Id \ V : Delete(queue, V)[j] = queue[j]
         /\ \A j \in V : Delete(queue, V)[j].state = "absent"
<1>1. AbsentRow.state = "absent"
    BY DEF AbsentRow
<1>2. \A j \in Id : Delete(queue, V)[j] = IF j \in V THEN AbsentRow ELSE queue[j]
    BY DEF Delete
<1>3. Rows(Delete(queue, V)) = Rows(queue) \ V
    BY <1>1, <1>2 DEF Rows
<1>4. \A g : Evictable(Delete(queue, V), g) = Evictable(queue, g) \ V
    BY <1>1, <1>2 DEF Evictable
<1> QED
    BY <1>1, <1>2, <1>3, <1>4

(* The number of rows a DELETE of victims leaves, and what it leaves of the   *)
(* group when there were too few in it.                                       *)
LEMMA VictimFacts ==
  ASSUME TypeInv, NEW t \in Thread, frame[t].group \in 1 .. 4, frame[t].excess \in Nat,
         frame[t].selected \in Oldest(queue, Evictable(queue, frame[t].group), frame[t].excess)
  PROVE  LET S == Evictable(queue, frame[t].group)
             V == frame[t].selected
         IN  /\ V \in SUBSET S /\ V \in SUBSET Id
             /\ Cardinality(V) \in Nat /\ Cardinality(V) <= frame[t].excess
             /\ Cardinality(Rows(queue)) \in Nat
             /\ Cardinality(Rows(queue) \ V) = Cardinality(Rows(queue)) - Cardinality(V)
             /\ Cardinality(V) # frame[t].excess => V = S
             /\ \A v \in V, s \in S \ V : queue[v].created <= queue[s].created
<1> DEFINE n == frame[t].excess
           V == frame[t].selected
           S == Evictable(queue, frame[t].group)
<1>1. /\ V \in SUBSET S /\ Cardinality(V) = AtMost(n, Cardinality(S))
      /\ \A v \in V, s \in S \ V : queue[v].created <= queue[s].created
    BY DEF Oldest
<1>2. S \in SUBSET Id /\ S \subseteq Rows(queue) /\ Rows(queue) \in SUBSET Id
    BY DEF Evictable, Rows
<1> HIDE DEF n, V, S
<1>3. IsFiniteSet(Id)
    <2>1. 1 \in Int /\ MaxEvents \in Int
        BY QueueAssumption
    <2> QED
        BY <2>1, FS_Interval DEF Id
<1>4. IsFiniteSet(S) /\ IsFiniteSet(Rows(queue))
    BY <1>2, <1>3, FS_Subset
<1>5. Cardinality(S) \in Nat /\ Cardinality(Rows(queue)) \in Nat /\ Cardinality(V) \in Nat
    BY <1>1, <1>2, SelectedFinite
<1>6. Cardinality(V) <= n /\ (Cardinality(V) # n => Cardinality(V) = Cardinality(S))
    BY <1>1, <1>5 DEF AtMost, n
<1>7. Cardinality(V) = Cardinality(S) => V = S
    BY <1>1, <1>4, FS_Subset
<1>8. Cardinality(Rows(queue) \ V) = Cardinality(Rows(queue)) - Cardinality(V)
    <2>1. Rows(queue) \cap V = V
        BY <1>1, <1>2
    <2>2. Cardinality(Rows(queue) \ V) = Cardinality(Rows(queue)) - Cardinality(Rows(queue) \cap V)
        BY <1>4, FS_Difference
    <2> QED
        BY <2>1, <2>2
<1> QED
    BY <1>1, <1>2, <1>5, <1>6, <1>7, <1>8 DEF n, V, S

(* What a DELETE of the row limit does. *)
LEMMA DeleteStep ==
  ASSUME SingleProcess, NoStatementFails, LimitInv, NEW t \in Thread, DeleteVictims(t)
  PROVE  /\ pc[t] = "delete_victims" /\ OverLimit(t)
         /\ queue' = Delete(queue, frame[t].selected)
         /\ frame[t].selected \in Oldest(queue, Evictable(queue, frame[t].group), frame[t].excess)
         /\ frame[t].excess \in Nat
<1>1. pc[t] = "delete_victims" /\ Attempt(ProcOf[t], Delete(queue, frame[t].selected))
    BY DEF DeleteVictims
<1>2. CanWrite(ProcOf[t]) /\ ~Contended(ProcOf[t])
    <2>1. configured \subseteq Proc /\ ProcOf[t] \in Proc
        BY QueueAssumption DEF LimitInv, TypeInv, TypeOK
    <2> QED
        BY <2>1, ViewIsQueue DEF LimitInv, SingleProcess, Contended
<1>3. queue' = Delete(queue, frame[t].selected)
    BY <1>1, <1>2, WriteEffect DEF Attempt, NoStatementFails
<1>4. Limiting(t) /\ frame[t] \in Frame
    BY DEF LimitInv, TypeInv, TypeOK
<1>5. frame[t].excess \in Int
    BY <1>4 DEF Frame
<1> QED
    BY <1>1, <1>3, <1>4, <1>5 DEF Limiting, OverLimit

(* Where the loop goes from a group. *)
LEMMA AdvanceFacts ==
  ASSUME TypeInv, NEW t \in Thread, NEW excess, NEW g \in 0 .. 4, Advance(t, excess, g)
  PROVE  \/ pc'[t] = "idle" /\ (excess = 0 \/ g = 4)
         \/ /\ pc'[t] = "select_victims" /\ excess # 0 /\ g # 4
            /\ frame'[t].excess = excess /\ frame'[t].group = g + 1
<1>0. pc \in [Thread -> Label] /\ frame \in [Thread -> Frame]
    BY DEF TypeInv, TypeOK
<1>1. CASE excess = 0 \/ g = 4
    BY <1>0, <1>1, Groups DEF Advance, Return, Goto
<1>2. CASE ~(excess = 0 \/ g = 4)
    <2> DEFINE f == [IdleFrame EXCEPT !.excess = excess, !.group = g + 1]
    <2>1. f.excess = excess /\ f.group = g + 1
        BY DEF IdleFrame
    <2> HIDE DEF f
    <2>2. pc'[t] = "select_victims" /\ frame'[t] = f
        BY <1>0, <1>2, Groups DEF Advance, Goto, f
    <2> QED
        BY <1>2, <2>1, <2>2
<1> QED
    BY <1>1, <1>2

LEMMA LimitingStays ==
  ASSUME SingleProcess, NoStatementFails, LimitInv, [Next]_vars, NEW u \in Thread
  PROVE  Limiting(u)'
<1>0. /\ TypeInv /\ OneAtATime /\ Durable /\ Limiting(u)
      /\ pc \in [Thread -> Label] /\ frame \in [Thread -> Frame]
      /\ View(ProcOf[u]) = queue
    BY ViewIsQueue DEF LimitInv, TypeInv, TypeOK
<1>1. CASE pc'[u] \in Unlocked
    BY <1>1 DEF Limiting, Unlocked
<1>2. CASE pc[u] \in Unlocked /\ pc'[u] \notin Unlocked
    BY <1>0, <1>2, Entering DEF Limiting
<1> SUFFICES ASSUME pc[u] \notin Unlocked, pc'[u] \notin Unlocked
             PROVE  Limiting(u)'
    BY <1>1, <1>2
<1>3. ProcOf[u] \in configured
    BY <1>0 DEF Limiting
<1>4. ASSUME FailBatch(u) \/ PruneOld(u) \/ PruneDropped(u)
      PROVE  Limiting(u)'
    <2>1. configured' = configured /\ pc'[u] \in {"idle", "prune_dropped", "count_rows"}
        BY <1>0, <1>4 DEF FailBatch, PruneOld, PruneDropped, Return, Goto
    <2> QED
        BY <1>3, <2>1 DEF Limiting
<1>5. ASSUME CountRows(u)
      PROVE  Limiting(u)'
    <2> DEFINE count == Cardinality(Rows(queue))
    <2>1. configured' = configured /\ queue' = queue
        BY <1>5 DEF CountRows, tables
    <2>2. ~Return(u)
        BY <1>0 DEF Return, Goto, Unlocked
    <2>3. ~(count <= MaxQueueRows) /\ Advance(u, count - MaxQueueRows, 0)
        BY <1>0, <1>5, <2>2 DEF CountRows, NoStatementFails
    <2>4. count \in Nat /\ MaxQueueRows \in Nat
        BY SelectedFinite, QueueAssumption DEF Rows
    <2>5. /\ pc'[u] = "select_victims" /\ frame'[u].excess = count - MaxQueueRows
          /\ frame'[u].group = 1
        <3>1. 0 \in 0 .. 4 /\ pc'[u] # "idle"
            BY DEF Unlocked
        <3>2. frame'[u].group = 0 + 1 /\ frame'[u].excess = count - MaxQueueRows /\ pc'[u] = "select_victims"
            BY <1>0, <2>3, <3>1, AdvanceFacts
        <3> QED
            BY <3>2
    <2>6. OverLimit(u)'
        BY <2>1, <2>3, <2>4, <2>5 DEF OverLimit
    <2> QED
        BY <1>3, <2>1, <2>5, <2>6 DEF Limiting
<1>6. ASSUME SelectVictims(u)
      PROVE  Limiting(u)'
    <2> DEFINE f == frame[u]
               S == Evictable(queue, f.group)
    <2>1. configured' = configured /\ queue' = queue /\ pc[u] = "select_victims"
        BY <1>6 DEF SelectVictims, tables
    <2>2. OverLimit(u) /\ f \in Frame
        BY <1>0, <2>1 DEF Limiting
    <2>3. CASE S = {} /\ Advance(u, f.excess, f.group)
        <3>1. f.group \in 0 .. 4
            BY <2>2 DEF OverLimit
        <3>2. /\ pc'[u] = "select_victims" /\ f.group # 4
              /\ frame'[u].excess = f.excess /\ frame'[u].group = f.group + 1
            BY <1>0, <2>3, <3>1, AdvanceFacts DEF Unlocked
        <3>3. \A g \in 1 .. f.group : Evictable(queue, g) = {}
            <4>1. \A g \in 1 .. f.group : g = f.group \/ g \in 1 .. f.group - 1
                BY <3>1
            <4> QED
                BY <2>2, <2>3, <4>1 DEF OverLimit
        <3>4. OverLimit(u)'
            <4>1. f.group + 1 \in 1 .. 4 /\ 1 .. (f.group + 1) - 1 = 1 .. f.group
                BY <2>2, <3>2 DEF OverLimit
            <4> QED
                BY <2>1, <2>2, <3>2, <3>3, <4>1 DEF OverLimit
        <3> QED
            BY <1>3, <2>1, <3>2, <3>4 DEF Limiting
    <2>4. CASE \E n \in 1 .. f.excess : \E V \in Oldest(queue, S, n) :
                   /\ n < f.excess => "statement" \in Faults
                   /\ Goto(u, "delete_victims", [f EXCEPT !.selected = V])
        <3>1. PICK n \in 1 .. f.excess : \E V \in Oldest(queue, S, n) :
                   /\ n < f.excess => "statement" \in Faults
                   /\ Goto(u, "delete_victims", [f EXCEPT !.selected = V])
            BY <2>4
        <3>2. n = f.excess
            <4>1. f.excess \in Int
                BY <2>2 DEF Frame
            <4> QED
                BY <3>1, <4>1 DEF NoStatementFails
        <3>3. PICK V \in Oldest(queue, S, f.excess) : Goto(u, "delete_victims", [f EXCEPT !.selected = V])
            BY <3>1, <3>2
        <3>4. pc'[u] = "delete_victims" /\ frame'[u] = [f EXCEPT !.selected = V]
            BY <1>0, <3>3 DEF Goto
        <3>5. frame'[u].excess = f.excess /\ frame'[u].group = f.group /\ frame'[u].selected = V
            BY <2>2, <3>4 DEF Frame
        <3>6. OverLimit(u)'
            BY <2>1, <2>2, <3>5 DEF OverLimit
        <3> QED
            BY <1>3, <2>1, <3>3, <3>4, <3>5, <3>6 DEF Limiting
    <2>5. \/ S = {} /\ Advance(u, f.excess, f.group)
          \/ \E n \in 1 .. f.excess : \E V \in Oldest(queue, S, n) :
                   /\ n < f.excess => "statement" \in Faults
                   /\ Goto(u, "delete_victims", [f EXCEPT !.selected = V])
        BY <1>0, <1>6 DEF SelectVictims, NoStatementFails
    <2> QED
        BY <2>3, <2>4, <2>5
<1>7. ASSUME DeleteVictims(u)
      PROVE  Limiting(u)'
    <2> DEFINE f == frame[u]
               S == Evictable(queue, f.group)
               V == f.selected
    <2>1. /\ OverLimit(u) /\ queue' = Delete(queue, V) /\ V \in Oldest(queue, S, f.excess)
          /\ f.excess \in Nat
        BY <1>7, DeleteStep
    <2>2. configured' = configured /\ Advance(u, f.excess - Cardinality(V), f.group)
        BY <1>7 DEF DeleteVictims
    <2>3. f.group \in 1 .. 4 /\ f.group \in 0 .. 4 /\ f.excess = Cardinality(Rows(queue)) - MaxQueueRows
        BY <2>1 DEF OverLimit
    <2>4. /\ V \in SUBSET S /\ V \in SUBSET Id /\ Cardinality(V) \in Nat /\ Cardinality(V) <= f.excess
          /\ Cardinality(Rows(queue)) \in Nat
          /\ Cardinality(Rows(queue) \ V) = Cardinality(Rows(queue)) - Cardinality(V)
          /\ Cardinality(V) # f.excess => V = S
        BY <1>0, <2>1, <2>3, VictimFacts
    <2>5. /\ pc'[u] = "select_victims" /\ f.excess - Cardinality(V) # 0 /\ f.group # 4
          /\ frame'[u].excess = f.excess - Cardinality(V) /\ frame'[u].group = f.group + 1
        BY <1>0, <2>2, <2>3, AdvanceFacts DEF Unlocked
    <2>6. Rows(queue') = Rows(queue) \ V /\ \A g : Evictable(queue', g) = Evictable(queue, g) \ V
        BY <1>0, <2>1, <2>4, DeleteRows
    <2>7. frame'[u].excess > 0 /\ frame'[u].excess = Cardinality(Rows(queue')) - MaxQueueRows
        BY <2>1, <2>3, <2>4, <2>5, <2>6, QueueAssumption
    <2>8. \A g \in 1 .. f.group : Evictable(queue', g) = {}
        <3>1. \A g \in 1 .. f.group : g = f.group \/ g \in 1 .. f.group - 1
            BY <2>3
        <3>2. V = S
            BY <2>1, <2>4, <2>5
        <3> QED
            BY <2>1, <2>6, <3>1, <3>2 DEF OverLimit
    <2>9. OverLimit(u)'
        <3>1. f.group + 1 \in 1 .. 4 /\ 1 .. (f.group + 1) - 1 = 1 .. f.group
            BY <2>3, <2>5
        <3> QED
            BY <2>5, <2>7, <2>8, <3>1 DEF OverLimit
    <2> QED
        BY <1>3, <2>2, <2>5, <2>9 DEF Limiting
<1>8. ASSUME NEW p \in Proc, Crash(p), ProcOf[u] = p
      PROVE  Limiting(u)'
    BY <1>8 DEF Crash, Unlocked
<1>9. ASSUME pc'[u] = pc[u], frame'[u] = frame[u], UNCHANGED <<queue, configured, evicted>>
      PROVE  Limiting(u)'
    BY <1>0, <1>9 DEF Limiting, OverLimit
<1> QED
    BY <1>0, <1>4, <1>5, <1>6, <1>7, <1>8, <1>9, OnlyTheCaller

LEMMA NextLimit == SingleProcess /\ NoStatementFails /\ LimitInv /\ [Next]_vars => LimitInv'
<1> SUFFICES ASSUME SingleProcess, NoStatementFails, LimitInv, [Next]_vars
             PROVE  LimitInv'
    OBVIOUS
<1>1. TypeInv' /\ OneAtATime' /\ Durable' /\ LevelsKnown'
    BY NextType, MutexStays, DurableStays, LevelsStayKnown DEF LimitInv
<1>2. \A t \in Thread : Limiting(t)'
    BY LimitingStays
<1> QED
    BY <1>1, <1>2 DEF LimitInv

LEMMA InitLimit == Init => LimitInv
<1> SUFFICES ASSUME Init
             PROVE  LimitInv
    OBVIOUS
<1>1. TypeInv
    BY InitType
<1>2. \A i \in Id : queue[i].state = "absent" /\ committed[i].state = "absent"
    BY DEF Init, AbsentRow
<1> QED
    BY <1>1, <1>2 DEF Init, LimitInv, OneAtATime, Durable, LevelsKnown, Limiting, Unlocked

(* The row limit takes no claimed row, stops at the limit, and takes none     *)
(* while a less severe, or an equally severe and older, row could go instead. *)
THEOREM EvictsTheRightRows ==
  ASSUME SingleProcess, NoStatementFails
  PROVE  Spec => EvictionSound
<1> DEFINE Right(i) ==
        /\ queue[i].state # "uploading"
        /\ Cardinality(Rows(queue')) >= MaxQueueRows
        /\ \A j \in Rows(queue') :
              queue[j].state # "uploading" =>
                  \/ Group(i) < Group(j)
                  \/ Group(i) = Group(j) /\ queue[i].created <= queue[j].created
<1>1. ASSUME LimitInv, [Next]_vars, NEW i \in evicted' \ evicted
      PROVE  Right(i)
    <2>1. PICK t \in Thread : DeleteVictims(t)
        BY <1>1
        DEF Next, Continue, Configure, InsertEvent, CreateUploadBatch, CreateUploadBatchThrows,
            MarkUploadBatchSucceeded, MarkUploadBatchFailed, RunMaintenance, ReturnBatch,
            FailBatch, PruneOld, PruneDropped, CountRows, SelectVictims, Crash, Tick,
            SetClockBack, vars, history
    <2> DEFINE f == frame[t]
               S == Evictable(queue, f.group)
               V == f.selected
    <2>2. /\ OverLimit(t) /\ queue' = Delete(queue, V) /\ V \in Oldest(queue, S, f.excess)
          /\ f.excess \in Nat /\ TypeInv
        BY <1>1, <2>1, DeleteStep DEF LimitInv
    <2>3. f.group \in 1 .. 4 /\ f.excess = Cardinality(Rows(queue)) - MaxQueueRows
        BY <2>2 DEF OverLimit
    <2>4. /\ V \in SUBSET S /\ V \in SUBSET Id /\ Cardinality(V) \in Nat /\ Cardinality(V) <= f.excess
          /\ Cardinality(Rows(queue)) \in Nat
          /\ Cardinality(Rows(queue) \ V) = Cardinality(Rows(queue)) - Cardinality(V)
          /\ \A v \in V, s \in S \ V : queue[v].created <= queue[s].created
        BY <2>2, <2>3, VictimFacts
    <2>5. /\ Rows(queue') = Rows(queue) \ V
          /\ \A j \in Id \ V : queue'[j] = queue[j]
        BY <2>2, <2>4, DeleteRows
    <2>6. i \in V
        <3>1. i \in Rows(queue) /\ queue'[i].state = "absent"
            BY <1>1, <2>1 DEF DeleteVictims
        <3> QED
            BY <2>5, <3>1 DEF Rows
    <2>7. /\ queue[i].state \in {"pending", "dropped"} /\ queue[i].level \in SeverityGroups[f.group]
        BY <2>4, <2>6 DEF Evictable
    <2>8. \A j, g : g \in 1 .. 4 /\ queue[j].level \in SeverityGroups[g] => Group(j) = g
        BY Groups DEF Group
    <2>9. Cardinality(Rows(queue')) >= MaxQueueRows
        BY <2>3, <2>4, <2>5, QueueAssumption
    <2>10. ASSUME NEW j \in Rows(queue'), queue[j].state # "uploading"
           PROVE  \/ Group(i) < Group(j)
                  \/ Group(i) = Group(j) /\ queue[i].created <= queue[j].created
        <3>1. j \in Id \ V /\ queue[j].state # "absent"
            BY <2>5, <2>10 DEF Rows
        <3>2. queue[j].state \in {"pending", "dropped"} /\ queue[j].level \in Level
            <4>1. queue[j].state \in State
                <5>1. queue[j] \in Row
                    BY <2>2, <3>1 DEF TypeInv, TypeOK
                <5> QED
                    BY <5>1 DEF Row
            <4> QED
                BY <1>1, <2>10, <3>1, <4>1 DEF State, LimitInv, LevelsKnown
        <3>3. PICK g \in 1 .. 4 : queue[j].level \in SeverityGroups[g]
            BY <3>2, Groups
        <3>4. j \in Evictable(queue, g)
            BY <3>1, <3>2, <3>3 DEF Evictable
        <3>5. Group(j) = g /\ Group(i) = f.group
            BY <2>3, <2>7, <2>8, <3>3
        <3>6. ~(g \in 1 .. f.group - 1)
            BY <2>2, <3>4 DEF OverLimit
        <3>7. g = f.group \/ f.group < g
            BY <2>3, <3>3, <3>6
        <3>8. g = f.group => queue[i].created <= queue[j].created
            BY <2>4, <2>6, <3>1, <3>4
        <3> QED
            BY <3>5, <3>7, <3>8
    <2> QED
        BY <2>7, <2>9, <2>10
<1>2. LimitInv /\ [Next]_vars => LimitInv' /\ [\A i \in evicted' \ evicted : Right(i)]_vars
    BY <1>1, NextLimit
<1> QED
    BY InitLimit, <1>2, PTL DEF Spec, EvictionSound

(* When maintenance comes to its end the table is within its limit, or all    *)
(* that is left in it is claimed.                                             *)
THEOREM EndsWithinLimit ==
  ASSUME SingleProcess, NoStatementFails
  PROVE  Spec => RowLimitEnforced
<1> DEFINE WithinLimit == \/ Cardinality(Rows(queue')) <= MaxQueueRows
                          \/ \A i \in Rows(queue') : queue'[i].state = "uploading"
           Ends(t) == /\ pc[t] \in {"count_rows", "select_victims", "delete_victims"}
                      /\ pc'[t] = "idle"
                      /\ configured' = configured
(* No row that may go is left in any group. *)
<1>1. ASSUME LimitInv, LimitInv', \A g \in 1 .. 4 : Evictable(queue', g) = {}, NEW i \in Rows(queue')
      PROVE  queue'[i].state = "uploading"
    <2>1. i \in Id /\ queue'[i].state # "absent" /\ queue'[i].state \in State /\ queue'[i].level \in Level
        <3>1. i \in Id /\ queue'[i].state # "absent"
            BY <1>1 DEF Rows
        <3>2. queue'[i] \in Row
            BY <1>1, <3>1 DEF LimitInv, TypeInv, TypeOK
        <3>3. queue'[i].level \in Level
            BY <1>1, <3>1 DEF LimitInv, LevelsKnown
        <3> QED
            BY <3>1, <3>2, <3>3 DEF Row
    <2>2. PICK g \in 1 .. 4 : queue'[i].level \in SeverityGroups[g]
        BY <2>1, Groups
    <2>3. i \notin Evictable(queue', g)
        BY <1>1
    <2> QED
        BY <2>1, <2>2, <2>3 DEF Evictable, State
<1>2. ASSUME LimitInv, LimitInv', [Next]_vars, NEW t \in Thread, Ends(t)
      PROVE  WithinLimit
    <2>0. /\ TypeInv /\ OneAtATime /\ Durable /\ Limiting(t)
          /\ pc \in [Thread -> Label] /\ frame \in [Thread -> Frame]
          /\ View(ProcOf[t]) = queue
        BY <1>2, ViewIsQueue DEF LimitInv, TypeInv, TypeOK
    <2> DEFINE f == frame[t]
               S == Evictable(queue, f.group)
               V == f.selected
    <2>1. CASE CountRows(t)
        <3>1. queue' = queue /\ Cardinality(Rows(queue)) \in Nat /\ MaxQueueRows \in Nat
            BY <2>1, SelectedFinite, QueueAssumption DEF CountRows, tables, Rows
        <3>2. CASE ~(Cardinality(Rows(queue)) <= MaxQueueRows)
            <4>1. Advance(t, Cardinality(Rows(queue)) - MaxQueueRows, 0)
                BY <2>0, <2>1, <3>2 DEF CountRows, NoStatementFails
            <4>2. 0 \in 0 .. 4 /\ 0 # 4 /\ Cardinality(Rows(queue)) - MaxQueueRows # 0
                BY <3>1, <3>2
            <4> QED
                BY <1>2, <2>0, <4>1, <4>2, AdvanceFacts
        <3> QED
            BY <3>1, <3>2
    <2>2. CASE SelectVictims(t)
        <3>1. queue' = queue /\ OverLimit(t) /\ f \in Frame
            BY <2>0, <2>2 DEF SelectVictims, Limiting, tables
        <3>2. S = {} /\ Advance(t, f.excess, f.group)
            <4>1. ~ \E g : Goto(t, "delete_victims", g)
                BY <1>2, <2>0 DEF Goto
            <4> QED
                BY <2>0, <2>2, <4>1 DEF SelectVictims, NoStatementFails
        <3>3. f.group = 4
            <4>1. f.group \in 0 .. 4 /\ f.excess # 0
                BY <3>1 DEF OverLimit, Frame
            <4> QED
                BY <1>2, <2>0, <3>2, <4>1, AdvanceFacts
        <3>4. \A g \in 1 .. 4 : Evictable(queue', g) = {}
            <4>1. \A g \in 1 .. 4 : g = 4 \/ g \in 1 .. 4 - 1
                OBVIOUS
            <4> QED
                BY <3>1, <3>2, <3>3, <4>1 DEF OverLimit
        <3> QED
            BY <1>1, <1>2, <3>4
    <2>3. CASE DeleteVictims(t)
        <3>1. /\ OverLimit(t) /\ queue' = Delete(queue, V) /\ V \in Oldest(queue, S, f.excess)
              /\ f.excess \in Nat
            BY <1>2, <2>3, DeleteStep
        <3>2. Advance(t, f.excess - Cardinality(V), f.group)
            BY <2>3 DEF DeleteVictims
        <3>3. f.group \in 1 .. 4 /\ f.group \in 0 .. 4 /\ f.excess = Cardinality(Rows(queue)) - MaxQueueRows
            BY <3>1 DEF OverLimit
        <3>4. /\ V \in SUBSET S /\ V \in SUBSET Id /\ Cardinality(V) \in Nat
              /\ Cardinality(Rows(queue)) \in Nat
              /\ Cardinality(Rows(queue) \ V) = Cardinality(Rows(queue)) - Cardinality(V)
              /\ Cardinality(V) # f.excess => V = S
            BY <2>0, <3>1, <3>3, VictimFacts
        <3>5. Rows(queue') = Rows(queue) \ V /\ \A g : Evictable(queue', g) = Evictable(queue, g) \ V
            BY <2>0, <3>1, <3>4, DeleteRows
        <3>6. CASE Cardinality(V) = f.excess
            BY <3>3, <3>4, <3>5, <3>6, QueueAssumption
        <3>7. CASE Cardinality(V) # f.excess
            <4>1. f.group = 4 /\ V = S
                BY <1>2, <2>0, <3>1, <3>2, <3>3, <3>4, <3>7, AdvanceFacts
            <4>2. \A g \in 1 .. 4 : g = 4 \/ g \in 1 .. 4 - 1
                OBVIOUS
            <4>3. \A g \in 1 .. 4 : Evictable(queue', g) = {}
                BY <3>1, <3>5, <4>1, <4>2 DEF OverLimit
            <4> QED
                BY <1>1, <1>2, <4>3
        <3> QED
            BY <3>6, <3>7
    <2>4. ASSUME NEW p \in Proc, Crash(p), ProcOf[t] = p
          PROVE  FALSE
        <3>1. p \in configured /\ configured' = configured \ {p}
            BY <1>2, <2>0, <2>4 DEF Limiting, Crash, Unlocked
        <3> QED
            BY <1>2, <3>1
    <2>5. pc[t] \notin Unlocked /\ pc'[t] # pc[t]
        BY <1>2 DEF Unlocked
    <2>6. ~(FailBatch(t) \/ PruneOld(t) \/ PruneDropped(t))
        BY <1>2 DEF FailBatch, PruneOld, PruneDropped
    <2> QED
        BY <1>2, <2>0, <2>1, <2>2, <2>3, <2>4, <2>5, <2>6, OnlyTheCaller
<1>3. LimitInv /\ [Next]_vars => LimitInv' /\ [\A t \in Thread : Ends(t) => WithinLimit]_vars
    BY <1>2, NextLimit
<1> QED
    BY InitLimit, <1>3, PTL DEF Spec, RowLimitEnforced
=============================================================================
