-------------------------- MODULE QueuePromiseProofs --------------------------
(***************************************************************************)
(* The table implements UploadQueue, for any number of threads, events and *)
(* batches, as long as one process uses the database and no transaction is *)
(* left open: every step of QueueRepository is, through the mapping of     *)
(* QueueRefinement, a step the promise allows or one that changes nothing  *)
(* it speaks of.                                                           *)
(***************************************************************************)
EXTENDS QueueRefinement, QueueDeliveryProofs

(* What the uploader has, or is about to get, is a batch with events in it. *)
HandedIssued ==
    /\ \A b \in handed : carried[b] # {}
    /\ \A t \in Thread : pc[t] = "copying" => carried[frame[t].batch] # {}

PromiseInv == DeliveryInv /\ LossInv /\ HandedIssued

-----------------------------------------------------------------------------
(* The mapping. *)

LEMMA PlaceFacts ==
  ASSUME TypeInv, ClaimsOwned, Inserted, NEW i \in Id
  PROVE  /\ queue[i].state = "pending" <=> PlaceOf(i) = "waiting"
         /\ queue[i].state = "dropped" <=> PlaceOf(i) = "rejected"
         /\ queue[i].state = "absent" <=> PlaceOf(i) \in {"new", "gone"}
         /\ PlaceOf(i) = "new" <=> i >= nextId
         /\ \A b \in Batch : PlaceOf(i) = b <=> queue[i].batch = b
<1>1. queue[i] \in Row /\ nextId \in Int /\ i \in Int
    BY QueueAssumption DEF TypeInv, TypeOK, Id
<1>2. (queue[i].state = "uploading") <=> (queue[i].batch # NoBatch)
    BY DEF ClaimsOwned, OwnedClaims
<1>3. queue[i].state = "uploading" => queue[i].batch \in Batch /\ PlaceOf(i) = queue[i].batch
    BY <1>1, <1>2 DEF Row, PlaceOf
<1>4. \A b \in Batch : b # NoBatch /\ b \notin {"new", "waiting", "rejected", "gone"}
    BY QueueAssumption, PlaceAssumption
<1>5. queue[i].state \in {"absent", "pending", "dropped", "uploading"}
    BY <1>1 DEF Row, State
<1>6. i >= nextId => queue[i].state = "absent"
    BY DEF Inserted
<1>7. CASE queue[i].state = "absent"
    BY <1>1, <1>2, <1>4, <1>7 DEF PlaceOf
<1>8. CASE queue[i].state = "pending"
    BY <1>1, <1>2, <1>4, <1>6, <1>8 DEF PlaceOf
<1>9. CASE queue[i].state = "dropped"
    BY <1>1, <1>2, <1>4, <1>6, <1>9 DEF PlaceOf
<1>10. CASE queue[i].state = "uploading"
    BY <1>1, <1>2, <1>3, <1>4, <1>6, <1>10
<1> QED
    BY <1>5, <1>7, <1>8, <1>9, <1>10

(* Rows that are moved to place p, and rows that stay. *)
LEMMA MoveStep ==
  ASSUME NEW S, NEW p,
         \A i \in Id : PlaceOf(i)' = IF i \in S THEN p ELSE PlaceOf(i)
  PROVE  Promise!Move(S, p)
  BY DEF Promise!Move

LEMMA AtPlace ==
  ASSUME NEW p
  PROVE  Promise!At(p) = {i \in Id : PlaceOf(i) = p}
  BY DEF Promise!At

(* The rows a batch has in the table are those leased to it. *)
LEMMA LeasedRows ==
  ASSUME TypeInv, ClaimsOwned, Inserted, NEW b \in Batch
  PROVE  Promise!At(b) = InBatch(queue, b)
<1>1. b # NoBatch
    BY QueueAssumption
<1>2. \A i \in Id : queue[i].batch # NoBatch <=> queue[i].state = "uploading"
    BY DEF ClaimsOwned, OwnedClaims
<1> QED
    BY <1>1, <1>2, PlaceFacts, AtPlace DEF InBatch, Rows

(* A step that leaves the rows and the row ids alone moves nothing. *)
LEMMA NothingMoves ==
  ASSUME queue' = queue, nextId' = nextId
  PROVE  UNCHANGED [i \in Id |-> PlaceOf(i)]
  BY DEF PlaceOf

(* Rows taken out of the table are gone, the others stay where they are. *)
LEMMA DeletedGone ==
  ASSUME TypeInv, ClaimsOwned, Inserted, NEW S, nextId' = nextId,
         queue' = Delete(queue, S)
  PROVE  Promise!Move(S \cap Rows(queue), "gone")
<1>1. ASSUME NEW i \in S \cap Rows(queue)
      PROVE  PlaceOf(i)' = "gone"
    <2>1. i \in Id /\ nextId \in Int /\ i \in Int /\ ~ (i >= nextId)
        BY QueueAssumption DEF Rows, Inserted, TypeInv, TypeOK, Id
    <2>2. queue'[i].state = "absent"
        BY <2>1 DEF Delete, AbsentRow
    <2> QED
        BY <2>1, <2>2 DEF PlaceOf
<1>2. ASSUME NEW i \in Id, i \notin S \cap Rows(queue)
      PROVE  PlaceOf(i)' = PlaceOf(i)
    <2>1. CASE i \in S
        <3>1. queue[i].state = "absent" /\ queue'[i].state = "absent"
            BY <1>2, <2>1 DEF Rows, Delete, AbsentRow
        <3> QED
            BY <3>1 DEF PlaceOf
    <2>2. CASE i \notin S
        <3>1. queue'[i] = queue[i]
            BY <2>2 DEF Delete
        <3> QED
            BY <3>1 DEF PlaceOf
    <2> QED
        BY <2>1, <2>2
<1> QED
    BY <1>1, <1>2, MoveStep

(* A report is an answer. *)
LEMMA ReportAnswers ==
  ASSUME TypeInv, NEW b \in Batch, NEW status, Report(b, status)
  PROVE  [c \in Batch |-> {AnswerOf(s) : s \in reported'[c]}]
            = [[c \in Batch |-> {AnswerOf(s) : s \in reported[c]}]
                  EXCEPT ![b] = @ \cup {AnswerOf(status)}]
<1> DEFINE answers == [c \in Batch |-> {AnswerOf(s) : s \in reported[c]}]
<1>1. ASSUME NEW c \in Batch
      PROVE  {AnswerOf(s) : s \in reported'[c]}
                = IF c = b THEN answers[b] \cup {AnswerOf(status)} ELSE answers[c]
    <2>1. reported'[c] = IF c = b THEN reported[b] \cup {status} ELSE reported[c]
        BY DEF Report, TypeInv, TypeOK
    <2> QED
        BY <2>1
<1> QED
    BY <1>1

LEMMA NothingSeen ==
  ASSUME UNCHANGED <<queue, nextId, carried, reported, deadline, peak, expired, evicted>>
  PROVE  UNCHANGED Promise!vars
<1>1. UNCHANGED [i \in Id |-> PlaceOf(i)]
    BY NothingMoves
<1> QED
    BY <1>1 DEF Promise!vars

-----------------------------------------------------------------------------
(* The steps, one by one. *)

LEMMA InsertAccepts ==
  ASSUME PromiseInv, NEW t \in Thread, InsertEvent(t)
  PROVE  Promise!Next
<1>0. /\ TypeInv /\ ClaimsOwned /\ Inserted /\ queue \in Table
    BY DEF PromiseInv, DeliveryInv, TypeInv, TypeOK, Table
<1>1. PICK e \in Id : e = nextId /\ e \in Int /\ nextId' = e + 1
    BY DEF InsertEvent, Id
<1>2. PICK level \in Level, size \in Size : queue' = [queue EXCEPT ![e] = NewRow(level, size)]
    BY <1>1, WriteEffect DEF InsertEvent
<1>3. PlaceOf(e) = "new"
    BY <1>0, <1>1, PlaceFacts
<1>4. PlaceOf(e)' = "waiting"
    <2>1. queue'[e].state = "pending"
        BY <1>0, <1>1, <1>2 DEF NewRow, Table
    <2> QED
        BY <2>1 DEF PlaceOf
<1>5. ASSUME NEW i \in Id, i # e
      PROVE  PlaceOf(i)' = PlaceOf(i)
    <2>1. queue'[i] = queue[i] /\ i \in Int
        BY <1>0, <1>2, <1>5 DEF Table, Id
    <2>2. i < nextId' <=> i < nextId
        BY <1>1, <1>5, <2>1
    <2> QED
        BY <2>1, <2>2 DEF PlaceOf
<1>6. Promise!Move({e}, "waiting")
    BY <1>4, <1>5, MoveStep
<1>7. UNCHANGED <<carried, reported, deadline, peak, expired, evicted>>
    BY DEF InsertEvent, history
<1>8. Promise!Accept(e)
    BY <1>3, <1>6, <1>7 DEF Promise!Accept
<1> QED
    BY <1>8 DEF Promise!Next

LEMMA ClaimLeases ==
  ASSUME PromiseInv, NEW t \in Thread, CreateUploadBatch(t)
  PROVE  Promise!Next
<1>0. /\ TypeInv /\ ClaimsOwned /\ Inserted /\ queue \in Table
      /\ carried \in [Batch -> SUBSET Id] /\ deadline \in [Batch -> Nat]
    BY DEF PromiseInv, DeliveryInv, TypeInv, TypeOK, Table
<1>1. PICK b \in FreshBatch, S \in SUBSET Eligible(queue) :
          /\ S # {}
          /\ Write(ProcOf[t], ClaimRows(queue, S, b))
          /\ carried' = [carried EXCEPT ![b] = S]
          /\ deadline' = [deadline EXCEPT ![b] = now + StaleTimeout]
    <2>1. ASSUME NEW limit, NEW S \in Fetched(Claim(limit))
          PROVE  S \in SUBSET Eligible(queue)
        BY DEF Fetched, Claim, ClaimedIds, Candidates
    <2> QED
        BY <2>1 DEF CreateUploadBatch
<1>2. /\ UNCHANGED <<nextId, reported, peak, expired, evicted>>
      /\ queue' = ClaimRows(queue, S, b)
    BY <1>1, WriteEffect DEF CreateUploadBatch
<1>3. b \in Batch /\ carried[b] = {} /\ S \subseteq Id
    BY DEF FreshBatch, Eligible
<1>4. S \subseteq Promise!At("waiting")
    <2>1. \A i \in S : PlaceOf(i) = "waiting"
        BY <1>0, <1>3, PlaceFacts DEF Eligible
    <2> QED
        BY <1>3, <2>1, AtPlace
<1>5. Promise!Move(S, b)
    <2>1. ASSUME NEW i \in S
          PROVE  PlaceOf(i)' = b
        <3>1. queue'[i].state = "uploading" /\ queue'[i].batch = b
            BY <1>0, <1>2, <1>3 DEF ClaimRows, Table, Row
        <3> QED
            BY <3>1 DEF PlaceOf
    <2>2. ASSUME NEW i \in Id, i \notin S
          PROVE  PlaceOf(i)' = PlaceOf(i)
        <3>1. queue'[i] = queue[i]
            BY <1>2, <2>2 DEF ClaimRows
        <3> QED
            BY <1>2, <3>1 DEF PlaceOf
    <2> QED
        BY <2>1, <2>2, MoveStep
<1>6. {c \in Batch : carried'[c] # {} /\ deadline'[c] <= peak'}
        \in {{c \in Batch : carried[c] # {} /\ deadline[c] <= peak},
             {c \in Batch : carried[c] # {} /\ deadline[c] <= peak} \cup {b}}
    <2>1. ASSUME NEW c \in Batch, c # b
          PROVE  carried'[c] = carried[c] /\ deadline'[c] = deadline[c]
        BY <1>0, <1>1, <2>1
    <2> QED
        BY <1>2, <1>3, <2>1
<1>7. Promise!Lease(b, S)
    BY <1>1, <1>2, <1>3, <1>4, <1>5, <1>6 DEF Promise!Lease, Promise!Issued
<1> QED
    BY <1>3, <1>7 DEF Promise!Next

LEMMA SuccessDelivers ==
  ASSUME PromiseInv, NEW t \in Thread, MarkUploadBatchSucceeded(t)
  PROVE  Promise!Next
<1>0. TypeInv /\ ClaimsOwned /\ Inserted
    BY DEF PromiseInv, DeliveryInv
<1>1. PICK b \in handed : /\ Report(b, 200)
                          /\ Attempt(ProcOf[t], Delete(queue, InBatch(queue, b)))
    BY DEF MarkUploadBatchSucceeded
<1>2. b \in Batch /\ b \in Promise!Issued
    BY DEF PromiseInv, HandedIssued, DeliveryInv, TypeInv, TypeOK, Promise!Issued
<1>3. UNCHANGED <<nextId, carried, deadline, peak, expired, evicted>>
    BY DEF MarkUploadBatchSucceeded
<1>4. AnswerOf(200) = "delivered"
    BY DEF AnswerOf
<1>5. [c \in Batch |-> {AnswerOf(s) : s \in reported'[c]}]
        = [[c \in Batch |-> {AnswerOf(s) : s \in reported[c]}] EXCEPT ![b] = @ \cup {"delivered"}]
    BY <1>0, <1>1, <1>2, <1>4, ReportAnswers
<1>6. CASE queue' = queue
    <2>1. UNCHANGED [i \in Id |-> PlaceOf(i)]
        BY <1>3, <1>6, NothingMoves
    <2>2. Promise!Reply(b, "delivered")
        BY <1>2, <1>3, <1>5, <2>1 DEF Promise!Reply
    <2> QED
        BY <1>2, <2>2 DEF Promise!Next, Promise!Answer
<1>7. CASE queue' = Delete(queue, InBatch(queue, b))
    <2>1. InBatch(queue, b) \cap Rows(queue) = Promise!At(b)
        BY <1>0, <1>2, LeasedRows DEF InBatch
    <2>2. Promise!Move(Promise!At(b), "gone")
        BY <1>0, <1>3, <1>7, <2>1, DeletedGone
    <2>3. Promise!Deliver(b)
        BY <1>2, <1>3, <1>5, <2>2 DEF Promise!Deliver
    <2> QED
        BY <1>2, <2>3 DEF Promise!Next
<1> QED
    BY <1>1, <1>6, <1>7, AttemptEffect

LEMMA FailureReplies ==
  ASSUME PromiseInv, NEW t \in Thread, MarkUploadBatchFailed(t)
  PROVE  Promise!Next
<1>1. PICK b \in handed, status \in HttpStatus : Report(b, status)
    BY SelectStep
<1>2. TypeInv /\ b \in Batch /\ b \in Promise!Issued
    BY DEF PromiseInv, HandedIssued, DeliveryInv, TypeInv, TypeOK, Promise!Issued
<1>3. UNCHANGED <<queue, nextId, carried, deadline, peak, expired, evicted>>
    BY DEF MarkUploadBatchFailed, tables
<1>4. UNCHANGED [i \in Id |-> PlaceOf(i)]
    BY <1>3, NothingMoves
<1>5. [c \in Batch |-> {AnswerOf(s) : s \in reported'[c]}]
        = [[c \in Batch |-> {AnswerOf(s) : s \in reported[c]}]
              EXCEPT ![b] = @ \cup {AnswerOf(status)}]
    BY <1>1, <1>2, ReportAnswers
<1>6. Promise!Reply(b, AnswerOf(status))
    BY <1>2, <1>3, <1>4, <1>5 DEF Promise!Reply
<1>7. AnswerOf(status) \in Promise!Answer
    BY DEF AnswerOf, Promise!Answer
<1> QED
    BY <1>2, <1>6, <1>7 DEF Promise!Next

LEMMA FailRejectsOrRetries ==
  ASSUME NoOpenTransaction, PromiseInv, NEW t \in Thread, FailBatch(t)
  PROVE  [Promise!Next]_(Promise!vars)
<1> DEFINE f == frame[t]
           b == f.batch
<1>0. /\ TypeInv /\ ClaimsOwned /\ Inserted /\ queue \in Table /\ b \in Batch
      /\ UNCHANGED <<nextId, carried, reported, deadline, peak, expired, evicted>>
    BY DEF PromiseInv, DeliveryInv, TypeInv, TypeOK, CallOK, Table, FailBatch, history
<1>1. CASE UNCHANGED tables
    BY <1>0, <1>1, NothingSeen DEF tables
<1>2. ASSUME NEW delay, NEW S \in SUBSET f.selected, wedged = NoProc,
             queue' = FailRows(queue, f, S, delay)
      PROVE  Promise!Next
    <2> DEFINE R == S \cap Rows(queue)
               p == IF IsPermanentFailure(f.status) THEN "rejected" ELSE "waiting"
    <2>1. R \subseteq Promise!At(b)
        <3>1. \A i \in R : queue[i].batch = b
            BY <1>2 DEF PromiseInv, DeliveryInv, FailingInBatch, FailBatch
        <3>2. R \subseteq InBatch(queue, b)
            BY <3>1 DEF InBatch
        <3> QED
            BY <1>0, <3>2, LeasedRows
    <2>2. Promise!Move(R, p)
        <3>1. ASSUME NEW i \in R
              PROVE  PlaceOf(i)' = p
            <4>1. queue'[i].state = IF IsPermanentFailure(f.status) THEN "dropped" ELSE "pending"
                BY <1>0, <1>2 DEF FailRows, DropRow, RetryRow, Rows, Table, Row
            <4> QED
                BY <4>1 DEF PlaceOf
        <3>2. ASSUME NEW i \in Id, i \notin R
              PROVE  PlaceOf(i)' = PlaceOf(i)
            <4>1. queue'[i] = queue[i]
                BY <1>2, <3>2 DEF FailRows
            <4> QED
                BY <1>0, <4>1 DEF PlaceOf
        <3> QED
            BY <3>1, <3>2, MoveStep
    <2>3. /\ f.status \in reported[b]
          /\ f.status # 200
        BY QueueAssumption DEF PromiseInv, DeliveryInv, FailingReported, FailBatch,
                               TypeInv, TypeOK, Frame
    <2>4. AnswerOf(f.status) = IF IsPermanentFailure(f.status) THEN "rejected" ELSE "failed"
        BY <2>3 DEF AnswerOf
    <2>5. AnswerOf(f.status) \in [c \in Batch |-> {AnswerOf(s) : s \in reported[c]}][b]
        BY <1>0, <2>3
    <2>6. Promise!Reject(b, R) \/ Promise!Retry(b, R)
        BY <1>0, <2>1, <2>2, <2>4, <2>5 DEF Promise!Reject, Promise!Retry
    <2>7. R \in SUBSET Id
        BY DEF Rows
    <2> QED
        BY <1>0, <2>6, <2>7 DEF Promise!Next
<1> QED
    BY <1>1, <1>2, FailStep, WriteEffect DEF NoOpenTransaction

LEMMA MaintenanceTakesBack ==
  ASSUME PromiseInv, NEW t \in Thread, RunMaintenance(t)
  PROVE  [Promise!Next]_(Promise!vars)
<1>0. /\ TypeInv /\ ClaimsOwned /\ Inserted /\ queue \in Table /\ now <= peak
      /\ now \in Nat /\ peak \in Nat /\ deadline \in [Batch -> Nat]
      /\ UNCHANGED <<nextId, carried, reported, deadline, peak, expired, evicted>>
    BY DEF PromiseInv, DeliveryInv, TypeInv, TypeOK, Table, RunMaintenance, history
<1>1. CASE queue' = queue
    BY <1>0, <1>1, NothingSeen
<1>2. CASE queue' = ResetRows(queue, Stale(queue, now))
    <2> DEFINE S == Stale(queue, now)
    <2>1. ASSUME NEW i \in S
          PROVE  /\ PlaceOf(i) \in Batch /\ carried[PlaceOf(i)] # {}
                 /\ deadline[PlaceOf(i)] <= peak
        <3>1. i \in Id /\ queue[i].state = "uploading" /\ queue[i].nextAttempt <= now
            BY DEF Stale
        <3>2. queue[i].batch \in Batch /\ i \in carried[queue[i].batch]
            BY <1>0, <3>1 DEF ClaimsOwned, OwnedClaims, Table, Row
        <3>3. PlaceOf(i) = queue[i].batch
            BY <1>0, <3>1, <3>2, PlaceFacts
        <3>4. deadline[queue[i].batch] <= now
            BY <3>1 DEF PromiseInv, DeliveryInv, AllExclusive, Exclusive
        <3> QED
            BY <1>0, <3>2, <3>3, <3>4
    <2>2. Promise!Move(S, "waiting")
        <3>1. ASSUME NEW i \in S
              PROVE  PlaceOf(i)' = "waiting"
            <4>1. queue'[i].state = "pending"
                BY <1>0, <1>2 DEF ResetRows, Stale, Table, Row
            <4> QED
                BY <4>1 DEF PlaceOf
        <3>2. ASSUME NEW i \in Id, i \notin S
              PROVE  PlaceOf(i)' = PlaceOf(i)
            <4>1. queue'[i] = queue[i]
                BY <1>2, <3>2 DEF ResetRows
            <4> QED
                BY <1>0, <4>1 DEF PlaceOf
        <3> QED
            BY <3>1, <3>2, MoveStep
    <2>3. S \in SUBSET Id
        BY DEF Stale
    <2>4. Promise!TakeBack(S)
        BY <1>0, <2>1, <2>2, <2>3 DEF Promise!TakeBack
    <2> QED
        BY <2>3, <2>4 DEF Promise!Next
<1> QED
    BY <1>1, <1>2, AttemptEffect DEF RunMaintenance

LEMMA PruneForgets ==
  ASSUME PromiseInv, NEW t \in Thread, PruneDropped(t)
  PROVE  [Promise!Next]_(Promise!vars)
<1>0. /\ TypeInv /\ ClaimsOwned /\ Inserted
      /\ UNCHANGED <<nextId, carried, reported, deadline, peak, expired, evicted>>
    BY DEF PromiseInv, DeliveryInv, PruneDropped, history
<1>1. CASE queue' = queue
    BY <1>0, <1>1, NothingSeen
<1>2. CASE queue' = Delete(queue, Dropped(queue))
    <2> DEFINE S == Dropped(queue)
    <2>1. S \cap Rows(queue) = S /\ S \in SUBSET Id
        BY DEF Dropped, Rows
    <2>2. Promise!Move(S, "gone")
        BY <1>0, <1>2, <2>1, DeletedGone
    <2>3. S \subseteq Promise!At("rejected")
        <3>1. \A i \in S : i \in Id /\ PlaceOf(i) = "rejected"
            BY <1>0, PlaceFacts DEF Dropped
        <3> QED
            BY <3>1, AtPlace
    <2>4. Promise!Forget(S)
        BY <1>0, <2>2, <2>3 DEF Promise!Forget
    <2> QED
        BY <2>1, <2>4 DEF Promise!Next
<1> QED
    BY <1>1, <1>2, AttemptEffect DEF PruneDropped

(* Rows that are removed for their age or by the limit are discarded. *)
LEMMA RemovalDiscards ==
  ASSUME PromiseInv, NEW t, NEW S, Attempt(t, Delete(queue, S)),
         expired' \cup evicted'
            = expired \cup evicted \cup {i \in Rows(queue) : queue'[i].state = "absent"},
         UNCHANGED <<nextId, carried, reported, deadline, peak>>
  PROVE  [Promise!Next]_(Promise!vars)
<1>0. TypeInv /\ ClaimsOwned /\ Inserted
    BY DEF PromiseInv, DeliveryInv
<1> DEFINE R == {i \in Rows(queue) : queue'[i].state = "absent"}
<1>1. CASE queue' = queue
    <2>1. R = {}
        BY <1>1 DEF Rows
    <2>2. UNCHANGED [i \in Id |-> PlaceOf(i)]
        BY <1>1, NothingMoves
    <2> QED
        BY <2>1, <2>2 DEF Promise!vars
<1>2. CASE queue' = Delete(queue, S)
    <2>1. R = S \cap Rows(queue) /\ R \in SUBSET Id
        BY <1>2 DEF Rows, Delete, AbsentRow
    <2>2. Promise!Move(R, "gone")
        BY <1>0, <1>2, <2>1, DeletedGone
    <2>3. R \cap (Promise!At("new") \cup Promise!At("gone")) = {}
        <3>1. \A i \in R : PlaceOf(i) \notin {"new", "gone"}
            BY <1>0, <2>1, PlaceFacts DEF Rows
        <3> QED
            BY <3>1, AtPlace
    <2>4. Promise!Discard(R)
        BY <2>2, <2>3 DEF Promise!Discard
    <2> QED
        BY <2>1, <2>4 DEF Promise!Next
<1> QED
    BY <1>1, <1>2, AttemptEffect

LEMMA TickLapses ==
  ASSUME PromiseInv, Tick
  PROVE  Promise!Next
<1>0. /\ peak <= peak' /\ peak \in Nat /\ peak' \in Nat /\ deadline \in [Batch -> Nat]
      /\ UNCHANGED <<queue, nextId, carried, reported, deadline, expired, evicted>>
    BY DEF PromiseInv, DeliveryInv, TypeInv, TypeOK, Tick, tables, history
<1>1. PICK L \in SUBSET Batch : L = {b \in Batch : carried[b] # {} /\ deadline[b] <= peak'}
    OBVIOUS
<1>2. {b \in Batch : carried'[b] # {} /\ deadline'[b] <= peak'}
        = {b \in Batch : carried[b] # {} /\ deadline[b] <= peak} \cup L
    BY <1>0, <1>1
<1>3. UNCHANGED [i \in Id |-> PlaceOf(i)]
    BY <1>0, NothingMoves
<1>4. Promise!Lapse(L)
    BY <1>0, <1>1, <1>2, <1>3 DEF Promise!Lapse, Promise!Issued
<1> QED
    BY <1>1, <1>4 DEF Promise!Next

-----------------------------------------------------------------------------
(* The invariant. *)

LEMMA HandedIssuedStays ==
  ASSUME TypeInv, HandedIssued, [Next]_vars
  PROVE  HandedIssued'
<1>0. /\ handed \subseteq Batch /\ CallOK
      /\ pc \in [Thread -> Label] /\ frame \in [Thread -> Frame]
      /\ carried \in [Batch -> SUBSET Id]
    BY DEF TypeInv, TypeOK
<1>1. \A b \in Batch : carried[b] # {} => carried'[b] # {}
    BY NextGrows DEF HistoryGrows
<1>2. \A b \in handed' : carried'[b] # {}
    <2>1. ASSUME NEW t \in Thread, ReturnBatch(t)
          PROVE  \A b \in handed' : carried'[b] # {}
        BY <1>0, <1>1, <2>1 DEF ReturnBatch, HandedIssued, CallOK
    <2>2. CASE handed' = handed
        BY <1>0, <1>1, <2>2 DEF HandedIssued
    <2> QED
        BY <2>1, <2>2
        DEF Next, Continue, Configure, InsertEvent, CreateUploadBatch, CreateUploadBatchThrows,
            MarkUploadBatchSucceeded, MarkUploadBatchFailed, RunMaintenance, FailBatch,
            PruneOld, PruneDropped, CountRows, SelectVictims, DeleteVictims, Crash,
            Tick, SetClockBack, vars, history
<1>3. ASSUME NEW u \in Thread, pc'[u] = "copying"
      PROVE  carried'[frame'[u].batch] # {}
    <2>1. CASE pc[u] = "copying" /\ frame'[u] = frame[u]
        BY <1>0, <1>1, <2>1 DEF HandedIssued, CallOK
    <2>2. ASSUME NEW t \in Thread, NEW l \in Label, NEW f, Goto(t, l, f), l # "copying"
          PROVE  pc[u] = "copying" /\ frame'[u] = frame[u]
        BY <1>0, <1>3, <2>2 DEF Goto
    <2>3. ASSUME NEW t \in Thread, \/ Return(t)
                                   \/ \E excess, g : Advance(t, excess, g)
          PROVE  pc[u] = "copying" /\ frame'[u] = frame[u]
        BY <2>2, <2>3 DEF Return, Advance, Label
    <2>4. ASSUME NEW t \in Thread, CreateUploadBatch(t)
          PROVE  carried'[frame'[u].batch] # {}
        <3>1. PICK b \in FreshBatch, S \in SUBSET Eligible(queue) :
                  /\ S # {}
                  /\ carried' = [carried EXCEPT ![b] = S]
                  /\ Goto(t, "copying", [IdleFrame EXCEPT !.batch = b])
            <4>1. ASSUME NEW limit, NEW S \in Fetched(Claim(limit))
                  PROVE  S \in SUBSET Eligible(queue)
                BY DEF Fetched, Claim, ClaimedIds, Candidates
            <4> QED
                BY <2>4, <4>1 DEF CreateUploadBatch
        <3>2. CASE u = t
            <4>1. frame'[u].batch = b /\ b \in Batch
                BY <1>0, <3>1, <3>2 DEF Goto, IdleFrame, FreshBatch
            <4> QED
                BY <1>0, <3>1, <4>1
        <3>3. CASE u # t
            BY <1>0, <1>3, <2>1, <3>1, <3>3 DEF Goto
        <3> QED
            BY <3>2, <3>3
    <2>5. ASSUME NEW t \in Thread,
                 \/ MarkUploadBatchFailed(t) \/ RunMaintenance(t) \/ ReturnBatch(t)
                 \/ FailBatch(t) \/ PruneOld(t) \/ PruneDropped(t) \/ CountRows(t)
                 \/ SelectVictims(t) \/ DeleteVictims(t)
          PROVE  pc[u] = "copying" /\ frame'[u] = frame[u]
        <3>1. \/ Return(t)
              \/ \E excess, g : Advance(t, excess, g)
              \/ \E l \in Label : \E f : Goto(t, l, f) /\ l # "copying"
              \/ UNCHANGED <<pc, frame>>
            BY <2>5
            DEF MarkUploadBatchFailed, RunMaintenance, ReturnBatch, FailBatch, PruneOld,
                PruneDropped, CountRows, SelectVictims, DeleteVictims, Label
        <3> QED
            BY <1>3, <2>2, <2>3, <3>1
    <2>6. ASSUME NEW p \in Proc, Crash(p)
          PROVE  pc[u] = "copying" /\ frame'[u] = frame[u]
        BY <1>3, <2>6 DEF Crash
    <2>7. ASSUME UNCHANGED <<pc, frame>>
          PROVE  pc[u] = "copying" /\ frame'[u] = frame[u]
        BY <1>3, <2>7
    <2> QED
        BY <2>1, <2>4, <2>5, <2>6, <2>7
        DEF Next, Continue, Configure, InsertEvent, CreateUploadBatchThrows,
            MarkUploadBatchSucceeded, Tick, SetClockBack, vars
<1> QED
    BY <1>2, <1>3 DEF HandedIssued

LEMMA InitPromise == Init => PromiseInv /\ Promise!Init
<1> SUFFICES ASSUME Init
             PROVE  PromiseInv /\ Promise!Init
    OBVIOUS
<1>1. HandedIssued
    BY DEF Init, HandedIssued
<1>2. \A i \in Id : PlaceOf(i) = "new"
    <2>1. ASSUME NEW i \in Id
          PROVE  queue[i].state = "absent" /\ ~ (i < nextId)
        <3>1. AbsentRow.state = "absent"
            BY DEF AbsentRow
        <3> QED
            BY <3>1 DEF Init, Id
    <2> QED
        BY <2>1 DEF PlaceOf
<1>3. Promise!Init
    BY <1>2 DEF Promise!Init, Init
<1> QED
    BY <1>1, <1>3, InitDelivery, InitLoss DEF PromiseInv

LEMMA NextPromise ==
  SingleProcess /\ NoOpenTransaction /\ PromiseInv /\ [Next]_vars
    => PromiseInv' /\ [Promise!Next]_(Promise!vars)
<1> SUFFICES ASSUME SingleProcess, NoOpenTransaction, PromiseInv, [Next]_vars
             PROVE  PromiseInv' /\ [Promise!Next]_(Promise!vars)
    OBVIOUS
<1>1. PromiseInv'
    BY NextDelivery, NextLoss, HandedIssuedStays DEF PromiseInv, DeliveryInv
<1>2. ASSUME NEW p, CloseConnection(p),
             UNCHANGED <<nextId, carried, reported, deadline, peak, expired, evicted>>
      PROVE  [Promise!Next]_(Promise!vars)
    <2>1. queue = committed
        BY DEF PromiseInv, LossInv, DeliveryInv, Durable
    <2>2. queue' = queue
        BY <1>2, <2>1 DEF CloseConnection
    <2> QED
        BY <1>2, <2>2, NothingSeen
<1>3. ASSUME NEW t \in Thread, PruneOld(t) \/ DeleteVictims(t)
      PROVE  [Promise!Next]_(Promise!vars)
    <2>1. expired' \cup evicted'
             = expired \cup evicted \cup {i \in Rows(queue) : queue'[i].state = "absent"}
        BY <1>3, PruneOldExpires DEF PromiseInv, DeliveryInv, PruneOld, DeleteVictims
    <2> QED
        BY <1>3, <2>1, RemovalDiscards DEF PruneOld, DeleteVictims
<1>4. ASSUME NEW t \in Thread
      PROVE  ~ CreateUploadBatchThrows(t)
    BY DEF CreateUploadBatchThrows, NoOpenTransaction
<1>5. ASSUME UNCHANGED <<queue, nextId, carried, reported, deadline, peak, expired, evicted>>
      PROVE  [Promise!Next]_(Promise!vars)
    BY <1>5, NothingSeen
<1>6. ASSUME NEW t \in Thread, \/ Configure(t) \/ ReturnBatch(t) \/ CountRows(t) \/ SelectVictims(t)
      PROVE  [Promise!Next]_(Promise!vars)
    BY <1>2, <1>5, <1>6
    DEF Configure, ReturnBatch, CountRows, SelectVictims, tables, history
<1>7. ASSUME NEW p \in Proc, Crash(p)
      PROVE  [Promise!Next]_(Promise!vars)
    BY <1>2, <1>7 DEF Crash, history
<1>8. ASSUME SetClockBack \/ UNCHANGED vars
      PROVE  [Promise!Next]_(Promise!vars)
    BY <1>5, <1>8 DEF SetClockBack, vars, tables, history
<1>9. [Promise!Next]_(Promise!vars)
    BY <1>3, <1>4, <1>6, <1>7, <1>8, InsertAccepts, ClaimLeases, SuccessDelivers,
       FailureReplies, FailRejectsOrRetries, MaintenanceTakesBack, PruneForgets, TickLapses
    DEF Next, Continue
<1> QED
    BY <1>1, <1>9

(* The table keeps the promise of the queue: whatever threads interleave,    *)
(* crash or fail, events are leased, answered for and given up as UploadQueue *)
(* says and in no other way.                                                 *)
THEOREM TableKeepsPromise ==
  ASSUME SingleProcess, NoOpenTransaction
  PROVE  Spec => KeepsPromise
<1>1. PromiseInv /\ [Next]_vars => PromiseInv' /\ [Promise!Next]_(Promise!vars)
    BY NextPromise
<1> QED
    BY InitPromise, <1>1, PTL DEF Spec, KeepsPromise, Promise!Spec

-----------------------------------------------------------------------------
(* What the promise says of rejected events, said of the table. *)

LEMMA RejectedUntilGone ==
  ASSUME [Promise!Next]_(Promise!vars), NEW i \in Id, PlaceOf(i) = "rejected"
  PROVE  PlaceOf(i)' \in {"rejected", "gone"}
<1> DEFINE place == [j \in Id |-> PlaceOf(j)]
<1>1. place[i] = "rejected" /\ place'[i] = PlaceOf(i)'
    OBVIOUS
<1>2. "rejected" \notin Batch
    BY PlaceAssumption
<1>3. ASSUME NEW S, NEW p, Promise!Move(S, p), i \notin S \/ p = "gone"
      PROVE  place'[i] \in {"rejected", "gone"}
    BY <1>1, <1>3 DEF Promise!Move
<1>4. ASSUME NEW p, p # "rejected"
      PROVE  i \notin Promise!At(p)
    BY <1>1, <1>4 DEF Promise!At
<1>5. ASSUME NEW e \in Id, Promise!Accept(e)
      PROVE  place'[i] \in {"rejected", "gone"}
    BY <1>1, <1>3, <1>5 DEF Promise!Accept
<1>6. ASSUME NEW b \in Batch, NEW S \in SUBSET Id,
             \/ Promise!Lease(b, S) \/ Promise!Reject(b, S) \/ Promise!Retry(b, S)
      PROVE  place'[i] \in {"rejected", "gone"}
    BY <1>2, <1>3, <1>4, <1>6 DEF Promise!Lease, Promise!Reject, Promise!Retry
<1>7. ASSUME NEW b \in Batch, Promise!Deliver(b)
      PROVE  place'[i] \in {"rejected", "gone"}
    BY <1>3, <1>7 DEF Promise!Deliver
<1>8. ASSUME NEW S \in SUBSET Id, Promise!TakeBack(S)
      PROVE  place'[i] \in {"rejected", "gone"}
    BY <1>1, <1>2, <1>3, <1>8 DEF Promise!TakeBack
<1>9. ASSUME NEW S \in SUBSET Id, Promise!Forget(S) \/ Promise!Discard(S)
      PROVE  place'[i] \in {"rejected", "gone"}
    BY <1>3, <1>9 DEF Promise!Forget, Promise!Discard
<1>10. ASSUME place' = place
       PROVE  place'[i] \in {"rejected", "gone"}
    BY <1>1, <1>10
<1>11. ASSUME NEW b, NEW a, Promise!Reply(b, a)
       PROVE  place' = place
    BY <1>11 DEF Promise!Reply
<1>12. ASSUME NEW L, Promise!Lapse(L)
       PROVE  place' = place
    BY <1>12 DEF Promise!Lapse
<1>13. ASSUME UNCHANGED Promise!vars
       PROVE  place' = place
    BY <1>13 DEF Promise!vars
<1> QED
    BY <1>1, <1>5, <1>6, <1>7, <1>8, <1>9, <1>10, <1>11, <1>12, <1>13 DEF Promise!Next

LEMMA DroppedStep ==
  ASSUME PromiseInv, PromiseInv', [Promise!Next]_(Promise!vars),
         NEW i \in Id, queue[i].state = "dropped"
  PROVE  queue'[i].state \in {"dropped", "absent"}
<1>1. PlaceOf(i) = "rejected"
    BY PlaceFacts DEF PromiseInv, DeliveryInv
<1>2. PlaceOf(i)' \in {"rejected", "gone"}
    BY <1>1, RejectedUntilGone
<1>3. queue'[i] \in Row /\ (queue'[i].state = "uploading" => queue'[i].batch # NoBatch)
    BY DEF PromiseInv, DeliveryInv, TypeInv, TypeOK, ClaimsOwned, OwnedClaims
<1>4. queue'[i].state = "uploading" => PlaceOf(i)' \in Batch
    BY <1>3 DEF PlaceOf, Row
<1>5. queue'[i].state = "pending" => PlaceOf(i)' = "waiting"
    BY DEF PlaceOf
<1> QED
    BY <1>2, <1>3, <1>4, <1>5, PlaceAssumption DEF Row, State

(* A permanently rejected event is never put back into the queue, by no late *)
(* report, reset or crash.                                                   *)
THEOREM RejectedForGood ==
  ASSUME SingleProcess, NoOpenTransaction
  PROVE  Spec => DroppedIsFinal
<1> DEFINE Allowed(i) == queue[i].state = "dropped" => queue'[i].state \in {"dropped", "absent"}
<1>1. PromiseInv /\ [Next]_vars => PromiseInv' /\ [\A i \in Id : Allowed(i)]_vars
    BY NextPromise, DroppedStep
<1> QED
    BY InitPromise, <1>1, PTL DEF Spec, DroppedIsFinal
=============================================================================
