--------------------------- MODULE QueueRepository ---------------------------
(***************************************************************************)
(* The event queue of Fountain: the SQLite table fountain_event_queue, the *)
(* operations of QueueRepository on it, and the FountainRuntime and C ABI  *)
(* calls that run them from the threads of one or more processes.          *)
(*                                                                         *)
(* What one SQLite transaction does is one action; an operation that makes *)
(* several (MarkUploadBatchFailed, RunMaintenance) is one action for each, *)
(* with a program counter per thread, so that a crash, the clock, and the  *)
(* other processes come in between.  FountainRuntime::mutex_ is held while *)
(* a thread is inside such an operation (Free).                            *)
(*                                                                         *)
(* A failed statement that changes nothing and ends the call is a          *)
(* stuttering step; one after which the call goes on is modelled (Attempt).*)
(*                                                                         *)
(* A definition marked as a mutant is a faulty variant of the one after it *)
(* that no specification here uses: it shows what a property would notice. *)
(***************************************************************************)
EXTENDS Integers, FiniteSets, Sequences, BatchClaim, Severity

CONSTANTS
    Thread,             \* threads that call the C ABI
    Proc,               \* processes that have the database file open
    ProcOf,             \* [Thread -> Proc]
    NoProc,
    Batch,              \* batch ids GenerateUuidV4 may return (bound on claims)
    NoBatch,            \* a NULL batch_id
    MaxEvents,          \* bound: events ever inserted
    MaxNow,             \* bound: last value of the clock
    MaxClockStep,       \* how far the wall clock may be set back at once
    StaleTimeout,       \* kUploadingStaleTimeoutMs
    MaxEventAge,        \* kMaxEventAgeMs
    MaxQueueRows,       \* kMaxQueueRows
    MaxEventPayload,    \* kMaxEventPayloadBytes
    MaxBatchPayload,    \* kDefaultMaxBatchPayloadBytes
    BackoffTable,       \* what ComputeBackoffDelayMs may return, by attempt
    Level,              \* levels the host logs at
    Size,               \* sizes of the event envelopes the host logs
    Limit,              \* [maxEvents, maxBytes] the uploader asks for
    HttpStatus,         \* statuses the uploader reports on failure
    Faults              \* what may go wrong, see below

Fault == {"statement",  \* a statement fails, changing nothing; a SELECT ends early
          "commit",     \* COMMIT fails and leaves the transaction open
          "exception",  \* a C++ exception leaves an open transaction behind
          "alloc",      \* malloc fails while the batch is copied for the caller
          "open"}       \* the database cannot be opened

Id    == 1 .. MaxEvents
State == {"absent", "pending", "uploading", "dropped"}

ASSUME QueueAssumption ==
    /\ ProcOf \in [Thread -> Proc]
    /\ NoProc \notin Proc
    /\ NoBatch \notin Batch
    /\ {MaxEvents, MaxNow, MaxClockStep, MaxEventAge, MaxQueueRows} \subseteq Nat
    /\ {MaxEventPayload, MaxBatchPayload} \subseteq Nat
    /\ StaleTimeout \in Nat \ {0}
    /\ BackoffTable \in Seq(SUBSET Nat) /\ BackoffTable # <<>>
    /\ Level \subseteq {"debug", "info", "warning", "error", "fault"}
    /\ Size \subseteq Nat
    /\ Limit \subseteq [maxEvents : Nat, maxBytes : Nat]
    /\ HttpStatus \subseteq Int \ {200}
    /\ Faults \subseteq Fault

VARIABLES
    now,        \* NowMs(), the wall clock
    peak,       \* the latest time the clock ever showed
    queue,      \* the table, as the process with the open transaction sees it
    committed,  \* the table that is durable and that the others see
    wedged,     \* process whose connection is stuck in an open transaction
    nextId,     \* next AUTOINCREMENT id
    configured, \* processes with configured_ = true
    pc,         \* where each thread is in its operation
    frame,      \* the locals of that operation
    carried,    \* history: the events each batch was given
    deadline,   \* history: when each batch's claim becomes stale
    handed,     \* history: batches the uploader got
    reported,   \* history: what the uploader reported of each batch, see below
    expired,    \* history: events removed when they were too old
    evicted     \* history: events removed by the row limit

tables  == <<queue, committed, wedged>>
history == <<carried, deadline, handed, reported, expired, evicted>>
vars    == <<now, peak, tables, nextId, configured, pc, frame, history>>

Row == [state : State, created : Nat, nextAttempt : Nat, level : Level \cup {""},
        size : Nat, attempts : Nat, batch : Batch \cup {NoBatch}]

AbsentRow == [state |-> "absent", created |-> 0, nextAttempt |-> 0, level |-> "",
              size |-> 0, attempts |-> 0, batch |-> NoBatch]

IdleFrame == [batch |-> NoBatch, at |-> 0, status |-> 0, selected |-> {},
              attempts |-> [i \in Id |-> 0], excess |-> 0, group |-> 1]

-----------------------------------------------------------------------------
(* The table. *)

Rows(q) == {i \in Id : q[i].state # "absent"}

\* Mutant: the batch id is not compared.
InAnyBatch(q, b) == {i \in Rows(q) : q[i].batch # NoBatch}
InBatch(q, b) == {i \in Rows(q) : q[i].batch = b}

(* The rows a statement of process p reads. *)
View(p) == IF wedged = p THEN queue ELSE committed

(* A BEGIN succeeds only outside a transaction, any other write also inside *)
(* one's own: Fountain sets no busy timeout, so a second writer fails.      *)
CanBegin    == wedged = NoProc
CanWrite(p) == wedged \in {NoProc, p}

(* The other writer may also be in the middle of a transaction that is one step *)
(* here: a process that shares the file may be refused at any time.             *)
Contended(p) == configured \ {p} # {}

(* The rows of S that a SELECT delivers before Step() is false, which is taken *)
(* for the end of the result whether it is that or an error.                   *)
Fetched(S) == IF "statement" \in Faults THEN SUBSET S ELSE {S}

(* A write of p that succeeds: durable unless it lands in an open transaction. *)
Write(p, q) ==
    /\ queue' = q
    /\ committed' = IF wedged = p THEN committed ELSE q
    /\ UNCHANGED wedged

(* A statement of p that writes q, or whose failure is passed over. *)
Attempt(p, q) ==
    \/ CanWrite(p) /\ Write(p, q)
    \/ (~CanWrite(p) \/ Contended(p) \/ "statement" \in Faults) /\ UNCHANGED tables

(* A transaction of p that is left open with the effects q. *)
Wedge(p, q) ==
    /\ queue' = q
    /\ wedged' = p
    /\ UNCHANGED committed

(* p's connection is gone, and with it the transaction it had open. *)
CloseConnection(p) ==
    /\ wedged' = IF wedged = p THEN NoProc ELSE wedged
    /\ queue' = IF wedged = p THEN committed ELSE queue
    /\ UNCHANGED committed

-----------------------------------------------------------------------------
(* The runtime. *)

Unlocked == {"idle", "copying"}

(* t can take FountainRuntime::mutex_ of its process. *)
Free(t) == \A u \in Thread : ProcOf[u] = ProcOf[t] => pc[u] \in Unlocked

(* t enters a call that the runtime does not turn away. *)
Enter(t) == pc[t] = "idle" /\ Free(t) /\ ProcOf[t] \in configured

Goto(t, l, f) ==
    /\ pc' = [pc EXCEPT ![t] = l]
    /\ frame' = [frame EXCEPT ![t] = f]

Return(t) == Goto(t, "idle", IdleFrame)

Configure(t) ==
    /\ pc[t] = "idle" /\ Free(t)
    /\ CloseConnection(ProcOf[t])
    /\ \/ configured' = configured \cup {ProcOf[t]}
       \/ "open" \in Faults /\ configured' = configured \ {ProcOf[t]}
    /\ UNCHANGED <<now, peak, nextId, pc, frame, history>>

NewRow(level, size) ==
    [state |-> "pending", created |-> now, nextAttempt |-> 0, level |-> level,
     size |-> size, attempts |-> 0, batch |-> NoBatch]

(* LogEvent: too large an event, like an INSERT that fails, is silently dropped. *)
InsertEvent(t) ==
    /\ Enter(t)
    /\ CanWrite(ProcOf[t])
    /\ nextId \in Id
    /\ \E level \in Level, size \in Size :
          /\ size <= MaxEventPayload
          /\ Write(ProcOf[t], [queue EXCEPT ![nextId] = NewRow(level, size)])
    /\ nextId' = nextId + 1
    /\ UNCHANGED <<now, peak, configured, pc, frame, history>>

-----------------------------------------------------------------------------
(* Claiming a batch. *)

\* Mutant: dropped rows are not left out.
EligibleOrDropped(q) == {i \in Id : q[i].state \in {"pending", "dropped"} /\ q[i].nextAttempt <= now}
Eligible(q) == {i \in Id : q[i].state = "pending" /\ q[i].nextAttempt <= now}

(* The batch ids no row and no caller has seen: UUIDs are taken not to collide. *)
FreshBatch == {b \in Batch : carried[b] = {}}

\* Mutant: the stale timeout is forgotten.
ClaimStaleAtOnce(q, S, b) ==
    [i \in Id |-> IF i \in S
                  THEN [q[i] EXCEPT !.state = "uploading", !.batch = b, !.nextAttempt = now]
                  ELSE q[i]]
\* Mutant: it is taken off instead of added.
ClaimInThePast(q, S, b) ==
    [i \in Id |-> IF i \in S
                  THEN [q[i] EXCEPT !.state = "uploading", !.batch = b,
                                    !.nextAttempt = now - StaleTimeout]
                  ELSE q[i]]
ClaimRows(q, S, b) ==
    [i \in Id |-> IF i \in S
                  THEN [q[i] EXCEPT !.state = "uploading", !.batch = b,
                                    !.nextAttempt = now + StaleTimeout]
                  ELSE q[i]]

AtMost(m, n) == IF m <= n THEN m ELSE n

(* The rows CreateUploadBatch takes, none when a limit is zero. *)
Claim(limit) ==
    ClaimedIds(Eligible(queue), [i \in Id |-> queue[i].size],
               limit.maxEvents, AtMost(limit.maxBytes, MaxBatchPayload))

(* The whole transaction; a failure in it ends in ROLLBACK and stutters. *)
CreateUploadBatch(t) ==
    /\ Enter(t)
    /\ CanBegin
    /\ \E limit \in Limit, b \in FreshBatch :
       \E S \in Fetched(Claim(limit)) :
          /\ S # {}
          /\ \A i \in S, j \in Claim(limit) : j < i => j \in S
          /\ Write(ProcOf[t], ClaimRows(queue, S, b))
          /\ carried' = [carried EXCEPT ![b] = S]
          /\ deadline' = [deadline EXCEPT ![b] = now + StaleTimeout]
          /\ Goto(t, "copying", [IdleFrame EXCEPT !.batch = b])
    /\ UNCHANGED <<now, peak, nextId, configured, handed, reported, expired, evicted>>

(* An exception between BEGIN and COMMIT is caught at the C ABI, which does *)
(* not end the transaction.                                                 *)
CreateUploadBatchThrows(t) ==
    /\ "exception" \in Faults
    /\ Enter(t)
    /\ CanBegin
    /\ Eligible(queue) # {}
    /\ Wedge(ProcOf[t], queue)
    /\ UNCHANGED <<now, peak, nextId, configured, pc, frame, history>>

(* FountainCreateUploadBatch copies the batch for its caller, lock released; *)
(* when a copy fails the claim stays and nobody knows the batch id.          *)
ReturnBatch(t) ==
    /\ pc[t] = "copying"
    /\ \/ handed' = handed \cup {frame[t].batch}
       \/ "alloc" \in Faults /\ UNCHANGED handed
    /\ Return(t)
    /\ UNCHANGED <<now, peak, tables, nextId, configured,
                   carried, deadline, reported, expired, evicted>>

-----------------------------------------------------------------------------
(* Reporting what became of a batch.  The uploader may report any batch it   *)
(* ever got, late, more than once, and from any process.                     *)

(* The history of a batch: the statuses reported for it, 200 for a success. *)
Report(b, status) == reported' = [reported EXCEPT ![b] = @ \cup {status}]

\* Mutant: every error status is permanent.
EveryErrorPermanent(status) == status >= 400
IsPermanentFailure(status) == status \in {400, 422}

Delete(q, S) == [i \in Id |-> IF i \in S THEN AbsentRow ELSE q[i]]

MarkUploadBatchSucceeded(t) ==
    /\ Enter(t)
    /\ \E b \in handed :
          /\ Report(b, 200)
          /\ Attempt(ProcOf[t], Delete(queue, InBatch(queue, b)))
    /\ UNCHANGED <<now, peak, nextId, configured, pc, frame,
                   carried, deadline, handed, expired, evicted>>

(* The SELECT of MarkUploadBatchFailed, outside its transaction. *)
MarkUploadBatchFailed(t) ==
    /\ Enter(t)
    /\ \E b \in handed, status \in HttpStatus :
       LET q == View(ProcOf[t]) IN
       \E S \in Fetched(InBatch(q, b)) :
          /\ Report(b, status)
          /\ IF S = {} THEN UNCHANGED <<pc, frame>>
             ELSE Goto(t, "failing",
                       [IdleFrame EXCEPT
                          !.batch = b, !.at = now, !.status = status, !.selected = S,
                          !.attempts = [i \in Id |-> IF i \in S THEN q[i].attempts ELSE 0]])
    /\ UNCHANGED <<now, peak, tables, nextId, configured,
                   carried, deadline, handed, expired, evicted>>

(* The delay no longer grows from some attempt on: the table's last entry. *)
BackoffDelays(n) == BackoffTable[AtMost(n, Len(BackoffTable))]

(* The two UPDATEs by id, and the loop over the rows S with a delay for each. *)
DropRow(r) == [r EXCEPT !.state = "dropped", !.batch = NoBatch, !.nextAttempt = 0]

\* Mutant: batch_id is not reset.
RetryInBatch(r, attempts, at) == [r EXCEPT !.state = "pending", !.attempts = attempts, !.nextAttempt = at]
RetryRow(r, attempts, at) ==
    [r EXCEPT !.state = "pending", !.batch = NoBatch, !.attempts = attempts, !.nextAttempt = at]

FailRows(q, f, S, delay) ==
    [i \in Id |-> IF i \notin S \cap Rows(q) THEN q[i]
                  ELSE IF IsPermanentFailure(f.status) THEN DropRow(q[i])
                  ELSE RetryRow(q[i], f.attempts[i] + 1, f.at + delay[i])]

Delay(f) == {d \in [f.selected -> UNION {BackoffDelays(f.attempts[i] + 1) : i \in f.selected}] :
                \A i \in f.selected : d[i] \in BackoffDelays(f.attempts[i] + 1)}

(* The transaction of MarkUploadBatchFailed: it commits, or its COMMIT fails   *)
(* unnoticed, or an exception (a random_device per row) leaves it half done,   *)
(* or, BEGIN or an UPDATE failing, it does nothing.                            *)
FailBatch(t) ==
    /\ pc[t] = "failing"
    /\ \/ /\ CanBegin
          /\ \E delay \in Delay(frame[t]) :
                \/ Write(ProcOf[t], FailRows(queue, frame[t], frame[t].selected, delay))
                \/ /\ "commit" \in Faults
                   /\ Wedge(ProcOf[t], FailRows(queue, frame[t], frame[t].selected, delay))
                \/ /\ "exception" \in Faults
                   /\ \E S \in SUBSET frame[t].selected :
                         S # frame[t].selected /\ Wedge(ProcOf[t], FailRows(queue, frame[t], S, delay))
       \/ /\ ~CanBegin \/ Contended(ProcOf[t]) \/ "statement" \in Faults
          /\ UNCHANGED tables
    /\ Return(t)
    /\ UNCHANGED <<now, peak, nextId, configured, history>>

-----------------------------------------------------------------------------
(* RunMaintenance: one autocommit statement after the other. *)

\* Mutant: the comparison is turned round.
ClaimedLater(q, at) == {i \in Id : q[i].state = "uploading" /\ q[i].nextAttempt >= at}
Stale(q, at) == {i \in Id : q[i].state = "uploading" /\ q[i].nextAttempt <= at}
\* Mutant: the age is left out, every row from before is pruned.
OlderThanNow(q, at) == {i \in Rows(q) : q[i].created < at}
Old(q, at) == {i \in Rows(q) : q[i].created < at - MaxEventAge}

Dropped(q) == {i \in Id : q[i].state = "dropped"}

\* Mutant: batch_id is not reset.
ResetInBatch(q, S) ==
    [i \in Id |-> IF i \in S THEN [q[i] EXCEPT !.state = "pending"] ELSE q[i]]
\* Mutant: the reset counts as a failed attempt.
ResetAsFailed(q, S) ==
    [i \in Id |-> IF i \in S
                  THEN [q[i] EXCEPT !.state = "pending", !.batch = NoBatch, !.attempts = @ + 1]
                  ELSE q[i]]
ResetRows(q, S) ==
    [i \in Id |-> IF i \in S THEN [q[i] EXCEPT !.state = "pending", !.batch = NoBatch]
                  ELSE q[i]]

RunMaintenance(t) ==
    /\ Enter(t)
    /\ Attempt(ProcOf[t], ResetRows(queue, Stale(queue, now)))
    /\ Goto(t, "prune_old", [IdleFrame EXCEPT !.at = now])
    /\ UNCHANGED <<now, peak, nextId, configured, history>>

(* For the history: an event is too old by the latest time the clock has shown, *)
(* whatever it showed when maintenance began.                                   *)
TooOld(i) == queue[i].created + MaxEventAge < peak

PruneOld(t) ==
    /\ pc[t] = "prune_old"
    /\ Attempt(ProcOf[t], Delete(queue, Old(queue, frame[t].at)))
    /\ expired' = expired \cup {i \in Rows(queue) : queue'[i].state = "absent" /\ TooOld(i)}
    /\ Goto(t, "prune_dropped", frame[t])
    /\ UNCHANGED <<now, peak, nextId, configured,
                   carried, deadline, handed, reported, evicted>>

PruneDropped(t) ==
    /\ pc[t] = "prune_dropped"
    /\ Attempt(ProcOf[t], Delete(queue, Dropped(queue)))
    /\ Goto(t, "count_rows", frame[t])
    /\ UNCHANGED <<now, peak, nextId, configured, history>>

(* The loop over the severity groups goes on behind group g. *)
\* Mutant: the last group is left out.
AdvanceTooShort(t, excess, g) ==
    IF excess = 0 \/ g = Len(SeverityGroups) - 1
    THEN Return(t)
    ELSE Goto(t, "select_victims", [IdleFrame EXCEPT !.excess = excess, !.group = g + 1])
Advance(t, excess, g) ==
    IF excess = 0 \/ g = Len(SeverityGroups)
    THEN Return(t)
    ELSE Goto(t, "select_victims", [IdleFrame EXCEPT !.excess = excess, !.group = g + 1])

CountRows(t) ==
    /\ pc[t] = "count_rows"
    /\ LET count == Cardinality(Rows(View(ProcOf[t]))) IN
       \/ IF count <= MaxQueueRows THEN Return(t)
          ELSE Advance(t, count - MaxQueueRows, 0)
       \/ "statement" \in Faults /\ Return(t)
    /\ UNCHANGED <<now, peak, tables, nextId, configured, history>>

Evictable(q, g) == {i \in Id : /\ q[i].state \in {"pending", "dropped"}
                               /\ q[i].level \in SeverityGroups[g]}

(* ORDER BY created_at_ms LIMIT n: which of two equally old rows comes first *)
(* is SQLite's choice.                                                       *)
\* Mutant: ORDER BY ... DESC.
Newest(q, S, n) ==
    {V \in SUBSET S : /\ Cardinality(V) = AtMost(n, Cardinality(S))
                      /\ \A v \in V, s \in S \ V : q[v].created >= q[s].created}
Oldest(q, S, n) ==
    {V \in SUBSET S : /\ Cardinality(V) = AtMost(n, Cardinality(S))
                      /\ \A v \in V, s \in S \ V : q[v].created <= q[s].created}

SelectVictims(t) ==
    /\ pc[t] = "select_victims"
    /\ LET q == View(ProcOf[t])
           f == frame[t]
           S == Evictable(q, f.group)
       IN \/ /\ S # {}
             /\ \E n \in 1 .. f.excess : \E V \in Oldest(q, S, n) :
                   /\ n < f.excess => "statement" \in Faults
                   /\ Goto(t, "delete_victims", [f EXCEPT !.selected = V])
          \/ (S = {} \/ "statement" \in Faults) /\ Advance(t, f.excess, f.group)
    /\ UNCHANGED <<now, peak, tables, nextId, configured, history>>

(* The DELETE's result is not looked at: excess goes down even when it failed. *)
DeleteVictims(t) ==
    /\ pc[t] = "delete_victims"
    /\ LET f == frame[t] IN
       /\ Attempt(ProcOf[t], Delete(queue, f.selected))
       /\ evicted' = evicted \cup {i \in Rows(queue) : queue'[i].state = "absent"}
       /\ Advance(t, f.excess - Cardinality(f.selected), f.group)
    /\ UNCHANGED <<now, peak, nextId, configured,
                   carried, deadline, handed, reported, expired>>

-----------------------------------------------------------------------------
(* The environment. *)

(* Process p dies: its connection, its threads and their locals are gone. *)
Crash(p) ==
    /\ CloseConnection(p)
    /\ configured' = configured \ {p}
    /\ pc' = [t \in Thread |-> IF ProcOf[t] = p THEN "idle" ELSE pc[t]]
    /\ frame' = [t \in Thread |-> IF ProcOf[t] = p THEN IdleFrame ELSE frame[t]]
    /\ UNCHANGED <<now, peak, nextId, history>>

Tick ==
    /\ now < MaxNow
    /\ now' = now + 1
    /\ peak' = IF now' > peak THEN now' ELSE peak
    /\ UNCHANGED <<tables, nextId, configured, pc, frame, history>>

(* NowMs() reads system_clock, which the user or NTP may set back. *)
SetClockBack ==
    /\ \E step \in 1 .. AtMost(MaxClockStep, now) : now' = now - step
    /\ UNCHANGED <<peak, tables, nextId, configured, pc, frame, history>>

-----------------------------------------------------------------------------
(* The specification. *)

Init ==
    /\ now = 0
    /\ peak = 0
    /\ queue = [i \in Id |-> AbsentRow]
    /\ committed = queue
    /\ wedged = NoProc
    /\ nextId = 1
    /\ configured = {}
    /\ pc = [t \in Thread |-> "idle"]
    /\ frame = [t \in Thread |-> IdleFrame]
    /\ carried = [b \in Batch |-> {}]
    /\ deadline = [b \in Batch |-> 0]
    /\ handed = {}
    /\ reported = [b \in Batch |-> {}]
    /\ expired = {}
    /\ evicted = {}

(* The rest of an operation that has begun. *)
Continue(t) ==
    \/ ReturnBatch(t)
    \/ FailBatch(t)
    \/ PruneOld(t)
    \/ PruneDropped(t)
    \/ CountRows(t)
    \/ SelectVictims(t)
    \/ DeleteVictims(t)

Next ==
    \/ \E t \in Thread : \/ Configure(t)
                         \/ InsertEvent(t)
                         \/ CreateUploadBatch(t)
                         \/ CreateUploadBatchThrows(t)
                         \/ MarkUploadBatchSucceeded(t)
                         \/ MarkUploadBatchFailed(t)
                         \/ RunMaintenance(t)
                         \/ Continue(t)
    \/ \E p \in Proc : Crash(p)
    \/ Tick
    \/ SetClockBack

Spec == Init /\ [][Next]_vars

-----------------------------------------------------------------------------
(* Properties. *)

Label == {"idle", "copying", "failing", "prune_old", "prune_dropped",
          "count_rows", "select_victims", "delete_victims"}

Frame == [batch : Batch \cup {NoBatch}, at : Nat, status : HttpStatus \cup {0},
          selected : SUBSET Id, attempts : [Id -> Nat], excess : Int, group : Nat]

(* Every variable keeps its type: all rows are well formed, in the durable  *)
(* table as in the one an open transaction sees.                            *)
TypeOK ==
    /\ now \in Nat /\ peak \in Nat /\ now <= peak
    /\ queue \in [Id -> Row] /\ committed \in [Id -> Row]
    /\ wedged \in Proc \cup {NoProc}
    /\ nextId \in 1 .. MaxEvents + 1
    /\ configured \subseteq Proc
    /\ pc \in [Thread -> Label]
    /\ frame \in [Thread -> Frame]
    /\ carried \in [Batch -> SUBSET Id]
    /\ deadline \in [Batch -> Nat]
    /\ handed \subseteq Batch
    /\ reported \in [Batch -> SUBSET (HttpStatus \cup {200})]
    /\ expired \subseteq Id /\ evicted \subseteq Id

(* A row is uploading exactly when it names a batch, and that batch was given *)
(* that event when it was claimed: an outcome reported by batch id reaches     *)
(* rows of that batch only.                                                    *)
OwnedClaims(q) ==
    \A i \in Id : /\ (q[i].state = "uploading") <=> (q[i].batch # NoBatch)
                  /\ q[i].batch # NoBatch => i \in carried[q[i].batch]
ClaimsOwned == OwnedClaims(queue) /\ OwnedClaims(committed)

Carriers(i) == {b \in Batch : i \in carried[b]}

(* An event that was accepted leaves the queue only when a batch it was in    *)
(* was reported as delivered or as permanently rejected, when it is too old,  *)
(* or through the row limit: no interleaving, crash or failed statement loses *)
(* it.                                                                        *)
Final == {200, 400, 422}
Accounted(i) ==
    \/ queue[i].state # "absent"
    \/ i \in expired \cup evicted
    \/ \E b \in Carriers(i) : reported[b] \cap Final # {}
NoSilentLoss == \A i \in 1 .. nextId - 1 : Accounted(i)

(* What is durable is lost no more than that, whatever becomes of an open     *)
(* transaction: a row goes from the committed table only when accounted for.  *)
DurableNotLost ==
    [][\A i \in Rows(committed) \ Rows(committed)' : Accounted(i)']_vars

(* A row in the queue has been charged a failed attempt only for a batch it *)
(* was in and that the uploader reported as failed for the time being: one  *)
(* report is not counted twice, a stale reset or a crash is not counted.    *)
AttemptsJustified ==
    \A i \in Id : queue[i].attempts <=
        Cardinality({b \in Carriers(i) : ~ (reported[b] \subseteq Final)})

(* The claim of a batch is over once its outcome is reported or its time is up. *)
Settled(b) == reported[b] # {} \/ deadline[b] <= peak

(* An event is never in two batches the uploader may rightly work on at once: *)
(* it is claimed again only when the earlier claim was answered or had become *)
(* stale.                                                                     *)
NoDoubleDelivery ==
    \A i \in Id : \A b, c \in Carriers(i) : b # c => Settled(b) \/ Settled(c)

(* A permanently rejected event is never put back: the only way on from       *)
(* dropped is out of the table.                                               *)
DroppedIsFinal ==
    [][\A i \in Id : queue[i].state = "dropped" => queue'[i].state \in {"dropped", "absent"}]_vars

Group(i) == CHOOSE g \in DOMAIN SeverityGroups : queue[i].level \in SeverityGroups[g]

(* The row limit removes no claimed row, no row while the table is within the *)
(* limit, and none while a less severe, or an equally severe and older, row   *)
(* could go instead.                                                          *)
EvictionSound ==
    [][\A i \in evicted' \ evicted :
          /\ queue[i].state # "uploading"
          /\ Cardinality(Rows(queue')) >= MaxQueueRows
          /\ \A j \in Rows(queue') :
                queue[j].state # "uploading" =>
                    \/ Group(i) < Group(j)
                    \/ Group(i) = Group(j) /\ queue[i].created <= queue[j].created]_vars

(* When maintenance comes to its end the table is within its limit, or all  *)
(* that is left in it is claimed.                                           *)
RowLimitEnforced ==
    [][\A t \in Thread :
          (/\ pc[t] \in {"count_rows", "select_victims", "delete_victims"}
           /\ pc'[t] = "idle"
           /\ configured' = configured)
          => \/ Cardinality(Rows(queue')) <= MaxQueueRows
             \/ \A i \in Rows(queue') : queue'[i].state = "uploading"]_vars

-----------------------------------------------------------------------------
(* Liveness.  Time passes.  Nothing in the library runs maintenance, and the  *)
(* UPDATE of a call that does may be refused: that the host calls again and   *)
(* again, and gets through again and again, is the premise of what follows.   *)
Fairness == WF_vars(Tick)
LiveSpec == Spec /\ Fairness

(* A call of maintenance whose stale reset was not refused. *)
ResetWritten(t) ==
    RunMaintenance(t) /\ committed' = ResetRows(committed, Stale(committed, now))

(* If stale resets get through again and again, from whatever process, no     *)
(* claim lasts for ever: the rows of a batch that nobody can report any more, *)
(* its process having died or its copy having failed, come back.              *)
ClaimsEnd ==
    []<><<\E t \in Thread : ResetWritten(t)>>_vars =>
        \A i \in Id : (committed[i].state = "uploading" /\ committed[i].nextAttempt <= MaxNow)
                      ~> committed[i].state # "uploading"
=============================================================================
