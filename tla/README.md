# A TLA+ model of Fountain

Fountain (`src/`) is a C++ library that keeps structured events of a macOS
application in a SQLite table until an uploader (Piston) has delivered them. The
host calls a C ABI; one process-wide `FountainRuntime`, guarded by one mutex,
owns a `QueueRepository` on the database file and a background heartbeat thread.
This directory models the parts of it that keep state and that several threads,
processes and crashes act on, checks them with TLC and proves theorems about
them with TLAPS. Paths in this file are relative to the repository.

## 1. Inventory

| part | state | operations | what is hard about it |
|---|---|---|---|
| Event queue, `src/queue_repository.cpp` | table `fountain_event_queue`: id, batch_id, created_at_ms, next_attempt_at_ms, level, payload, attempt_count, state | InsertEvent, CreateUploadBatch, MarkUploadBatchSucceeded, MarkUploadBatchFailed, RunMaintenance (stale reset, prune by age, prune dropped, row limit) | claims that outlive their process, late and repeated reports, maintenance in several statements, a SELECT outside its transaction, statements whose failure is ignored, transactions left open |
| Runtime, `src/fountain_runtime.cpp` | `mutex_`, `configured_`, identity, metadata | Configure, setters, the queue operations | what is done inside and outside the mutex |
| Heartbeat, `src/fountain_runtime.cpp` | `heartbeat_running_`, `heartbeat_thread_`, condition variable, configuration | StartHeartbeat, StopHeartbeat, HeartbeatLoop | thread handle assigned outside the mutex, one flag for all loops, no handler around the loop |
| C ABI, `src/fountain_c_api.cpp` | none | argument checks, copies of a batch, exceptions swallowed | a claim that is committed before its id is with the caller |
| Backoff, `src/backoff.cpp` | none | ComputeBackoffDelayMs | cap, jitter, attempt counts below 1 |
| SQLite wrappers, `src/sqlite/` | connection, statement | Exec, Prepare, Step | end of a result and an error look alike; no busy timeout |
| Identifiers and time | none | GenerateUuidV4, NowMs | wall clock may go back, UUIDs of 32 bit entropy |
| Event envelope, `src/event_json_nlohmann.cpp` | none | BuildEventEnvelope, CopyFields | only public fields may reach the payload, whatever keys and types come along; throws on invalid UTF-8 |
| Heartbeat scripts, `05_` to `07_*.sh`, `heartbeat_runner.cpp` | state file, archive, pid file, runner process | start, verify, stop | scripts that overlap or die, stop in two moves, signals before the handlers, reuse of process ids |

How they interact: the host's threads call the C ABI, which takes the mutex for
each call of the runtime; the runtime calls the repository with the mutex held;
the heartbeat thread takes the same mutex and logs through the same repository.
Two processes meet in the database file only. The uploader is a caller: it claims
a batch, sends it, and reports by batch id, at any later time or never.

What makes the parts correct:

* queue: an accepted event stays until it was delivered, rejected for good, too
  old or over the limit; it is in one live batch at most; only reports of its own
  batches touch it; attempts are counted as reported; a claim that nobody answers is
  over once maintenance gets its reset through; the row limit removes the right rows;
* batch selection: payload and claimed rows agree, both limits hold, no overtaking;
* heartbeat: one thread while it is on, none when it is off, calls return, it keeps
  beating, and it never takes the host down;
* backoff: delays between the base delay and a bound;
* envelope: exactly the fields declared public, of one moment, and for heartbeats of the right install;
* scripts: one runner at most, reachable through the pid file; a state file that
  tells the truth and a configuration that is not lost.

The hazards behind these properties are listed, at their lines, in `PROJECT.json`.

## 2. Modules

| module | models |
|---|---|
| `UploadQueue` | what the queue promises: events, leases, answers, and nothing else |
| `QueueRepository` | the table, every operation on it with the runtime and C ABI calls around it, crashes, faults, the clock |
| `QueueRefinement` | how the table keeps the promise |
| `Severity` | the groups of levels that the row limit goes through |
| `BatchClaim` | which rows CreateUploadBatch takes, as a closed form over ids and sizes |
| `BatchSelection` | the two loops of CreateUploadBatch that compute it, one iteration a step |
| `QueueRepositoryProofs` | types and ownership of claims in `QueueRepository`, and what its steps do to a row |
| `QueueDeliveryProofs` | what becomes of an event: losses, charges, exclusive claims, the row limit |
| `QueuePromiseProofs` | that the table implements `UploadQueue` |
| `BatchSelectionProofs` | what the loops of `BatchSelection` take, the closed form included |
| `Heartbeat`, `HeartbeatProofs` | StartHeartbeat, StopHeartbeat, HeartbeatLoop, and their safety |
| `EventEnvelope` | CopyFields, the privacy filter, LevelToString, what dump() and the size limit refuse |
| `FountainRuntime` | the C ABI and the runtime over one mutex: configuration, setters, LogEvent in steps, composed with `Heartbeat` |
| `FountainRuntimeProofs` | theorems about `FountainRuntime` and the filter of `EventEnvelope` |
| `HeartbeatScripts`, `HeartbeatScriptsProofs` | the start, verify and stop scripts, the runner, their files, and what these promise |
| `Backoff`, `BackoffProofs` | ComputeBackoffDelayMs, what it computes and the bound on what it returns |
| `MCQueueRepository`, `MCHeartbeat`, `MCFountainRuntime`, `MCHeartbeatScripts`, `MCBackoff` | values of the constants for TLC |

### QueueRepository

A row is a record of the columns the behaviour depends on; an event is its level
and the size of its envelope. `queue` is the table as the process in an open
transaction sees it, `committed` the durable table that the others see; the two
differ only while `wedged` names a process whose connection is stuck in a
transaction. One action is what one SQLite transaction or autocommit statement
does, so `CreateUploadBatch` and `MarkUploadBatchSucceeded` are single steps and
`MarkUploadBatchFailed` (SELECT, then transaction) and `RunMaintenance` (reset,
two prunes, count, SELECT and DELETE per severity group) are several, held
together by `pc`, the locals in `frame` and the mutex (`Free`: no thread of the
process is inside such an operation). The claim is handed to the caller in a step of its own,
`ReturnBatch`, without the mutex. A statement that fails and ends its call
changes nothing and is no step; one after which the code goes on is `Attempt`.
A process that shares the file with another configured one may be refused any write
whose transaction is one step here (`Contended`: Fountain sets no busy timeout).
The constant `Faults` says which other failures a run allows:

* `"statement"`: a statement fails without effect, or a SELECT ends early, which
  `Statement::Step` cannot be told from its end. A COMMIT that fails and rolls back is the same;
* `"commit"`: the COMMIT of MarkUploadBatchFailed fails with the transaction still open
  (SQLite's SQLITE_BUSY, possible where the file is not in WAL mode, which
  `PRAGMA journal_mode=WAL` does not report as an error);
* `"exception"`: an exception between BEGIN and COMMIT, caught at the C ABI without a ROLLBACK;
* `"alloc"`: the copy of the batch for the caller fails after the claim was committed;
* `"open"`: Configure cannot open the database.

`Crash` ends a process at any step, `Tick` and `SetClockBack` move the wall
clock. Variables called history in the module (`carried`, `deadline`, `handed`,
`reported`, `expired`, `evicted`) record what happened and guard nothing, except
that only a batch that was handed over is reported and that batch ids are fresh.
`expired` takes in of what pruning removes only the rows that are too old by the latest
time the clock has shown (`TooOld`): a row that is pruned before its time counts as lost.

Not in this module: the event's name, component and fields (see `EventEnvelope`), `last_error`, other
database paths (Configure reopens the same file), collisions of UUIDs, power
failure (as opposed to the death of a process), and the SQLite time-outs that
Fountain does not set. The clock is read in the same step as the transaction in CreateUploadBatch, and
at the first statement in the operations that have several. A row id that a
rollback takes back is not given out again in the model; no list of ids outlives
the rollback, so nothing can tell the difference. ORDER BY created_at_ms leaves the order of
equally old rows open, and so does `Oldest`.

### UploadQueue and QueueRefinement

`UploadQueue` has no table, clock, thread or crash: an event is new, waiting, leased to
one batch, rejected, or gone; only what was answered for the batch it is leased to moves
it, a lease is taken back only when it lapsed, and giving an event up is recorded. The
mapping (`Promise`) reads the place of an event from the columns state and batch_id, the
answers from the reports made so far, and the lapsed leases from the deadlines that the
latest time seen has passed. `KeepsPromise` holds for one process without open
transactions, whatever its threads, crashes and late reports do. An answer and its effect
are two steps of the promise, since a failure report is two in the code.

### BatchClaim and BatchSelection

`ClaimedIds` is the longest prefix of the eligible rows, leading rows that are too
large left out, within both limits, envelope and commas included. `BatchSelection`
runs the loops of the code over every short sequence of rows; `ComputesClaim` says that
the closed form, which `QueueRepository` uses, is what they compute. Rows that are
not JSON, which LogEvent never stores, are included to fire the branch that takes
them out again.

### Heartbeat

`mutex_` is held across steps only by a stop that moves the handle. `running` is
`heartbeat_running_`, `handle` is `heartbeat_thread_`, `mine` the local
`std::thread` of a start or a stop. `std::thread`'s move is a read and a clear,
between which the unsynchronised assignment of a start may fall; an assignment to a joinable
handle terminates. A wait ends by notification or time-out, at any time. `beat` flips
with every heartbeat logged. `valid` says whether the strings a heartbeat is made of are
UTF-8; the envelope of one that is not throws in the loop, where nothing catches it. (An
allocation that fails there would do the same and is left out.) `overlapped`
records that two calls to start or stop were under way at once: most properties are
promised without that, `NoSharedHandle` and `LoopsEnd` also with it.

### EventEnvelope and FountainRuntime

A text is a model of what matters about it: null, empty, not UTF-8, too long, or fine; an
array of fields is a sequence of records whose privacy, type and key may be out of
range. `PublicFields` folds over the array as the code does, `LastPublicValues` says what
that is to compute. `FountainRuntime` takes a LogEvent apart: the fields are copied
before the mutex is asked for (`LogEvent`), then follow the look at `configured_`
(`Lock`), the reads of metadata and install id, of the session id, and dump, limit and
INSERT (`Store`), while `at` says that the mutex is held. A time-out of the heartbeat
runs through the same steps. Everything else about the heartbeat are the actions of
`Heartbeat`, instantiated with `configured` and `valid` as state functions of the
runtime; that its one-step `Timeout` is what these steps amount to is the property
`HeartbeatAtomic`, not an assumption. `insert` is the row the last step inserted; what
becomes of it is `QueueRepository`'s part. An INSERT may fail, and nobody notices.

### HeartbeatScripts

A step is what a script does up to the next command others can see. `state`, `archive` and
`pidFile` are files, replaced by `mv`; `proc` is the process table, where a pid that is free may be
taken by an unrelated process; `pc` and `local` are the scripts. The state file is read
twice, for its mark and for the rest (the code opens it once a value). A runner that is
"booting" has no signal handlers yet. Scripts die between any two steps, runners at any
time, and the system restarts. `incidents` records what the properties except:
changing scripts that overlapped, a start that died before it wrote the pid of its runner
("orphan"), a stop that died between its two moves ("no_state"), another half done script.

### Backoff

One iteration of the loop a step, the jitter a choice. `QueueRepository` takes the
delays from a table, so that no theorem about the queue depends on their size.

## 3. Runs

`tlc -config <run>.cfg <module>`; each takes at most three minutes with two workers.

| run | instance | question |
|---|---|---|
| `queue_threads` | 1 process, 2 threads, 1 event, 3 batches, clock 0..2 and back | safety under crashes, lost batches, late reports and clock steps, and the abstract promise |
| `queue_faults` | 1 thread, 2 events, 2 batches, all faults | what survives failing statements and open transactions |
| `queue_processes` | 2 processes, 1 event, 2 batches, writes refused while the other writes; time passes | attempts are charged rightly without the mutex; claims end if stale resets get through |
| `queue_limit` | 4 events of 3 levels, limit 2, 1 batch | the row limit |
| `batch_selection` | up to 4 rows of 4 sizes, 16 pairs of limits | the loops of CreateUploadBatch |
| `heartbeat_callers` | 2 callers, 2 threads, 2 install ids, fair | start and stop, without and with overlap |
| `runtime` | 1 driver, 1 logger, 1 loop, 65 arrays of up to 2 of 8 fields, 2 values of each setting | the filter, what the mutex protects, the composition |
| `heartbeat_scripts` | 2 scripts, 2 configurations, 2 pids | what the files promise |
| `backoff` | attempts -1..11, saturating at 8 | the delay |

Why the bounds are enough: a claim conflict needs an event, the claim that is answered late, the one that
follows and the one that is hit, hence three batches; a stale timeout of 1 and a clock of three values allow a
claim, its reset and a second claim at different times; two events are needed for a batch that is failed in
part; four events of two severity groups and more make the limit of two pass from one group to the next, with
ties in age. Two fields are enough for a key to be given twice in every order; one logger and one loop, each
with a setter between any two of its steps, for every conflict the mutex prevents. Two scripts and two pids are
a start that overlaps a stop or another start, with the old and the new runner; a third of either would only
repeat an incident that is excepted. Batches and threads, and scripts, configurations and pids, are
interchangeable and declared symmetric in the runs without liveness. The deadlock check is off only where the
modelled computation ends (`batch_selection`, `backoff`) or the host may have been terminated.

Three runs show a disagreement between documentation and code, with the shortest behaviour:

* `queue_lost_events` (README.md:20, durable queueing): an exception inside
  CreateUploadBatch's transaction, such as `std::random_device` failing in
  GenerateUuidV4, is swallowed with the transaction open. Events logged from then
  on are rolled back when the process ends or configures again.
* `heartbeat_start_stop_race` (docs/swift-interop.md:43, internally synchronized):
  a stop between the mutex and the assignment of a start leaves a joinable handle;
  the next start terminates the host.
* `heartbeat_throws` (docs/swift-interop.md:42, logging failures never crash): the
  loop has no handler; an install id that is not UTF-8 makes the first heartbeat terminate the host.

A further one is in the exceptions of `StopReturns`: a start that follows another thread's stop before the
old loop has looked at the flag revives that loop, and the stop, in `join`, waits until
the heartbeat is stopped again, while two loops beat (fountain_runtime.cpp:163; docs/swift-interop.md:43). No
property covers it; with the exception of overlap taken out of `StopReturns`, TLC finds this behaviour.

`HeartbeatScripts` shows what no document speaks of: overlapping starts leave two runners, a start killed
before line 122 leaves one that no script finds, and both, like the pid file that
outlives its process, stay until an operator looks.

`queue_faults` and `queue_processes` list only what their instances reach best; that claims stay owned and
exclusive under all faults, and that claims are owned and nothing is lost with any number of processes, is
proved (section 4).

Two processes are not promised anything by the documentation. The model shows what
they would break, and therefore `queue_processes` does not check it: with the SELECT of
MarkUploadBatchFailed outside its transaction, `NoDoubleDelivery` fails (a late
failure report frees a row that another batch has by then) and so does
`DroppedIsFinal` (one process drops an event, the other's older SELECT puts it back).

Fairness. `QueueRepository!Fairness` is that time passes (`Tick`), and nothing else: the library never runs
maintenance by itself. heartbeat_runner.cpp does not call it, main.cpp:37 calls it once, README.md:73 only
lists it. What ends a claim that nobody will report is therefore the host, and `ClaimsEnd` has that as its
premise: if stale resets get through again and again (`ResetWritten`), from whatever process, then every such
claim is over some time. Calls are not enough. A reset that the other process's writes make fail is ignored
(queue_repository.cpp:248), so that maintenance may run for ever without one that is written; with the premise
weakened to calls TLC finds that behaviour. Crashes are not limited, calls may stop in the middle, and nothing
has to configure a process again. In this run the clock is not set back, since one that is set back for ever
never reaches a deadline. `Heartbeat` assumes that threads that can run do and that intervals pass.
`FountainRuntime` and `HeartbeatScripts` are checked for safety only: a std::mutex promises no turn, and nothing
runs the scripts.

Each property of a passing run has a mutant in `PROJECT.json`: a definition
of the module, marked as one there, that changes the code's definition the way a
slip would and makes TLC report the property as violated.

## 4. Proofs

Every safety property that a passing run checks, the invariants and the action properties, is a theorem as well:
for any number of threads, processes, events, batches, scripts, pids, texts and fields, every limit and delay
the named assumptions of the modules allow, and steps of any length. Only liveness is left to TLC. Two
hypotheses on constants appear in theorems: `SingleProcess` (one process uses the database) and
`NoOpenTransaction` (neither fault that leaves a transaction open); a third, `NoStatementFails`, is the row
limit's. Section 3 says what breaks without the first two.

In each module the theorems follow from one inductive invariant, whose parts are named definitions; `Init`
implies it, every action keeps it, and it implies the property.

### The queue

| theorem | property | hypotheses |
|---|---|---|
| `QueueRepositoryProofs!TypeCorrect` | `TypeOK` | |
| `QueueRepositoryProofs!ClaimsAlwaysOwned` | `ClaimsOwned` | |
| `QueueDeliveryProofs!DurableAccounted` | `DurableNotLost` | |
| `QueueDeliveryProofs!AttemptsAccounted` | `AttemptsJustified` | |
| `QueueDeliveryProofs!NothingSilentlyLost` | `NoSilentLoss` | no open transaction |
| `QueueDeliveryProofs!ClaimsExclusive` | `NoDoubleDelivery` | one process |
| `QueueDeliveryProofs!EvictsTheRightRows` | `EvictionSound` | one process, no failing statement |
| `QueueDeliveryProofs!EndsWithinLimit` | `RowLimitEnforced` | one process, no failing statement |
| `QueuePromiseProofs!TableKeepsPromise` | `KeepsPromise` | one process, no open transaction |
| `QueuePromiseProofs!RejectedForGood` | `DroppedIsFinal` | one process, no open transaction |

* `TypeOK` is not inductive alone: ReturnBatch and FailBatch use the batch id in the locals of their call, which
  the invariant must say is one; it also says that a call that prunes by age has a time the clock has shown
  (`CallOK`). From that follows that what is pruned is too old even if the clock is set back in the middle of
  maintenance (`PrunedTooOld`), which the theorems about loss and about the promise need.
* `ClaimsOwned` is: a claim's batch id is new, so no row can name it already, and every other operation that
  takes a row out of "uploading" also clears its batch id, in the table and in its durable copy.
* Loss (`ReportInv`, `LossInv`). A dropped row was rejected by a report of a batch it was in (`DroppedReported`:
  pruning looks at the state only), in both tables, and a call about to fail rows has a report of their batch
  behind it (`FailingReported`). With that a row leaves the durable table for a reason whatever fails, and the
  table threads see as long as no transaction is open. `RowCases` says what a step may do with a row,
  `NextGrows` that the history only grows.
* Attempts (`ChargeInv`). The charge a call has read is at most the number of failed batches without the one it
  is reporting (`FailingCharged`), or the report that is already made would be counted twice.
* Exclusive claims (`DeliveryInv`). Of each row, in both tables: a pending one is in no live batch and a claimed
  one in none but its own, whose deadline it carries (`Exclusive`); at most one thread is inside an operation
  (`OneAtATime`); without an open transaction the two tables agree (`Durable`); the rows a call is about to fail
  still name its batch (`FailingInBatch`, which is what the mutex is needed for); and row ids are new
  (`Inserted`).
* The row limit (`LimitInv`). Between CountRows and the last DELETE the excess in the locals is what the table
  is over its limit, and no group below the one at hand has a row left that could go (`OverLimit`); it needs the
  mutex, and that every row's level is in a group (`LevelsKnown`). A statement that fails is passed over by the
  code and the next, more severe group pays for it, hence `NoStatementFails`.
* The promise (`PromiseInv`: both invariants above, and that a batch that was handed over has events in it). One
  lemma per kind of step says which action of `UploadQueue` it is, or that nothing changes that the promise
  speaks of.

### The loops of CreateUploadBatch

`BatchSelectionProofs`: `SentIsClaimed`, `BatchWithinLimits`, `NoOvertaking`, and `ComputesItsClaim`, that the
two loops compute `ClaimedIds` for rows of any number and size. `SelectionInv` says that the rows taken are in
order, before the cursor, and that what was passed over could not be sent. `ExactInv` says which rows they are:
in the first loop the candidates up to the cursor, with the estimate being their sizes' sum, and from then on
the candidates up to some row behind which none is admissible, which trimming the last one keeps because a
payload only grows with its rows (`PayloadGrows`). The step from one loop to the other is where the estimate,
which leaves out envelope and commas, must not have stopped too early. `ComputesItsClaim` needs the envelope not
to be empty (`BatchOverheadAssumption`): with an overhead of 0 and a byte limit of 0 the closed form would take
an event of size 0, the code none.

### The heartbeat

`HeartbeatProofs`: `TypeCorrect`, `HandleNotShared`, `OneLoop`, `HostLives`. However calls overlap, a
std::thread is in the hand of one caller at most, since only one holds the mutex in the middle of a move
(`OneHolder`, `HandleInHand`). Until calls overlap, the invariant (`Sequential`) says for each point of a call
what flag, handle and threads are (`Alone`), and between calls that they agree (`Quiet`).

### The runtime and the filter

`FountainRuntimeProofs`: `TypeCorrect`, which leaves the types of the heartbeat's variables to `Heartbeat`
(`HeartbeatIsAtomic` with `HeartbeatProofs!TypeCorrect`); `OneMoment` and `OnTarget` from mutual exclusion (`MutexHeld`) and what it protects
(`InFlight`: what a thread inside has read is still so, what a heartbeat's thread looked at is still due);
`InReachOfLimit`, by the groups `QueueRepository` evicts by (`Severity`); `OnlyPublicFields` for arrays of any length; and `HeartbeatIsAtomic`, that every step is one
of `Heartbeat`'s or a stutter. The last rests on the assumptions that host and heartbeat threads differ, and
that the interval's field and the default name are UTF-8, which are literals in the code.

### The scripts

`HeartbeatScriptsProofs`: all seven invariants. `ScriptsInv` adds what a script that changes files knows of them
while nobody overlaps (`FilesKnown`), which runners that nobody told to stop there can be at each of its steps
(`RunnersKnown`), and, for `VerifiedRunner`, that as long as nothing went wrong the pid file leads to the runner
an enabled state file speaks of (`RunnerCurrent`).

### Backoff

`BackoffProofs`: `BoundedResult` needs that the loop keeps the delay between base and maximum (`DelayInRange`),
and the assumption that the least jitter is at most a quarter of the maximum (100 ms and 30 minutes in the
code). `ComputesDoubled`: before round i the delay is the capped (i-1)-th double (`AtCounter`).

### Data of any length

The library's induction theorems cannot be instantiated by the provers, so what a fold or a recursive function
computes is shown in two steps. A recursive function is a CHOOSE, so its equation holds once one function
satisfies it: one is exhibited, put together from restrictions to initial segments (`PowerEquation`,
`TotalSizeIsSum`, `FilterIsRight`). What it computes then follows from the least natural number for which it
does not (`LeastNatural`, from the well-foundedness of < on the naturals).

### What proving found

* `HeartbeatScripts!TypeOK` had a conjunct that, by the precedence of its operators, said less than it meant;
  TLC could not notice.
* `ComputesClaim` is false where the envelope may be empty, which `BatchOverheadAssumption` now excludes.
* `FountainRuntime` relied on assumptions its instance happened to satisfy; `RuntimeAssumption` states them.

Only model-checked: liveness (`ClaimsEnd`, `StopReturns`, `KeepsBeating`, `LoopsEnd`), since TLAPS does not reason about
fairness and ENABLED here, and the three violations of section 3.

## 5. Not modelled

* The vendored nlohmann/json under `.build/` is more than nine tenths of the lines of the repository. It is a
  library, with no behaviour of Fountain's; what the envelope needs of it is modelled.
* Scripts 00 to 04 and the Makefile check and build the repository. They keep no state and run alone.
* `examples/cpp_basic/main.cpp` makes one call after the other.
* Power failure: with synchronous=NORMAL the last commits may be undone. Nothing in the
  code answers to that, and every property about what was promised since would be void.
* Collisions of UUIDs, which are a matter of probability; the memory of a batch, which is the caller's;
  JSON text, SQL text, bindings, `last_error`.

## 6. Plan

The parts that keep state are modelled, and their safety properties are proved. What is left:

1. The safety half of the liveness properties: what each helpful step of `ClaimsEnd` and `StopReturns` does (a
  reset that is written frees every stale row, a join that can go on does), as action properties and theorems.
2. `DroppedIsFinal` and `KeepsPromise` with open transactions, for the durable table.
3. Which part of the promise two processes keep: a refinement of a weaker `UploadQueue`, whose leases may be
  taken back by a late report.
