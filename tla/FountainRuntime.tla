--------------------------- MODULE FountainRuntime ---------------------------
(***************************************************************************)
(* The runtime behind the C ABI: host threads that configure it, set the   *)
(* identity and the metadata, log events and drive the heartbeat, and the  *)
(* heartbeat threads, which log through the same code under the same       *)
(* mutex.                                                                  *)
(*                                                                         *)
(* Logging takes the parts of the envelope one after the other, with the   *)
(* mutex held: what it checks and what it reads must not change in         *)
(* between.  Starting, stopping and looping are the actions of Heartbeat,  *)
(* whose Timeout is here the steps it consists of.  Of the repository only *)
(* the call of InsertEvent is seen.                                        *)
(***************************************************************************)
EXTENDS EventEnvelope, Severity

CONSTANTS
    Caller,         \* threads of the host
    Driver,         \* those of them that start and stop the heartbeat
    Logger,         \* those of them that log
    Loop,           \* threads HeartbeatLoop may run in
    NoLoop,
    InstallId,
    SessionId,
    AppMetadata,    \* the six strings in one
    HeartbeatName,  \* event names a start may give the heartbeat
    DefaultName,    \* "fountain.heartbeat"
    EventName,
    LogLevel,       \* the levels of logged events, in range or not
    FieldArrays,    \* the arrays of fields
    Path,           \* database paths
    NoPath,
    NoInsert,
    InvalidText,    \* whether some of these texts are not UTF-8
    SpawnMayFail

ASSUME RuntimeAssumption ==
    /\ Driver \cup Logger \subseteq Caller
    /\ InstallId \cup SessionId \cup (AppMetadata \ {EmptyText}) \cup HeartbeatName
          \cup {DefaultName} \cup EventName \subseteq Text
    /\ Caller \cap Loop = {}
    /\ DefaultName \notin NotUtf8
    /\ {"interval_seconds", "interval"} \cap (NotUtf8 \cup {NoText, EmptyText}) = {}
    /\ NoLoop \notin Loop
    /\ SpawnMayFail \in BOOLEAN
    /\ InvalidText \in BOOLEAN
    /\ InvalidText \/ (InstallId \cup SessionId \cup AppMetadata \cup HeartbeatName) \cap NotUtf8 = {}
    /\ FieldArrays \subseteq Seq(FountainLogField)
    /\ NoPath \notin Path

VARIABLES
    database,       \* the path it is configured for, NoPath if it is not
    session,        \* identity_.session_id
    app,            \* app_metadata_
    name,           \* heartbeat_event_name_
    at,             \* where each thread is in LogEvent
    frame,          \* the event it logs, and its envelope as far as it is built
    insert,         \* the row the last step inserted, if it did
    \* of Heartbeat
    running, target, installId, handle, pc, mine, overlapped, loop, beat, terminated

logging   == <<at, frame>>
settings  == <<database, session, app, name>>
heartbeat == <<running, target, installId, handle, pc, mine, overlapped, loop, beat, terminated>>
vars      == <<settings, logging, insert, heartbeat>>

HB == INSTANCE Heartbeat WITH
    NoInstallId <- EmptyText,
    configured  <- (database # NoPath),
    valid       <- ({installId, session, app, name} \cap NotUtf8 = {})

Thread == Caller \cup Loop

(* A thread that logs holds the mutex from its lock on. *)
Free == HB!MutexFree /\ \A t \in Thread : at[t] \in {"idle", "locking"}

(* A thread that is in no call of the C ABI. *)
Idle(c) == HB!Begin(c) /\ at[c] = "idle"

NoEnvelope == [level |-> "info", event |-> EmptyText, component |-> EmptyText, app |-> EmptyText,
               install |-> EmptyText, session |-> EmptyText, fields |-> <<>>]
NoFrame    == [args |-> <<>>, envelope |-> NoEnvelope]

-----------------------------------------------------------------------------
(* Configuration.  A null pointer for a path, an install or a session id      *)
(* leaves everything as it is; null metadata are empty.                       *)

(* The old database is closed first; opening the new one may fail. *)
Configure(c) ==
    /\ Idle(c) /\ Free
    /\ \E path \in Path : database' \in {path, NoPath}
    /\ insert' = NoInsert
    /\ UNCHANGED <<session, app, name, logging, heartbeat>>

\* Mutant: without the mutex.
SetInstallIdUnlocked(c) ==
    /\ Idle(c)
    /\ installId' \in InstallId \cup {EmptyText}
    /\ insert' = NoInsert
    /\ UNCHANGED <<settings, logging, running, target, handle, pc, mine, overlapped, loop, beat, terminated>>
SetInstallId(c) ==
    /\ Idle(c) /\ Free
    /\ installId' \in InstallId \cup {EmptyText}
    /\ insert' = NoInsert
    /\ UNCHANGED <<settings, logging, running, target, handle, pc, mine, overlapped, loop, beat, terminated>>

\* Mutant: without the mutex.
SetSessionIdUnlocked(c) ==
    /\ Idle(c)
    /\ session' \in SessionId \cup {EmptyText}
    /\ insert' = NoInsert
    /\ UNCHANGED <<database, app, name, logging, heartbeat>>
SetSessionId(c) ==
    /\ Idle(c) /\ Free
    /\ session' \in SessionId \cup {EmptyText}
    /\ insert' = NoInsert
    /\ UNCHANGED <<database, app, name, logging, heartbeat>>

SetAppMetadata(c) ==
    /\ Idle(c) /\ Free
    /\ app' \in AppMetadata \cup {EmptyText}
    /\ insert' = NoInsert
    /\ UNCHANGED <<database, session, name, logging, heartbeat>>

-----------------------------------------------------------------------------
(* Logging. *)

Goto(t, l, f) ==
    /\ at' = [at EXCEPT ![t] = l]
    /\ frame' = [frame EXCEPT ![t] = f]

(* FountainLogEvent copies the fields before it asks for the mutex.  Without *)
(* a name or a component it does nothing.                                    *)
LogEvent(c) ==
    /\ Idle(c)
    /\ \E level \in LogLevel, event \in EventName, args \in FieldArrays :
          Goto(c, "locking",
               [args |-> args,
                envelope |-> [NoEnvelope EXCEPT !.level = LevelToString(level),
                                                !.event = event,
                                                !.component = event,
                                                !.fields = PublicFields(CopyFields(args))]])
    /\ insert' = NoInsert
    /\ UNCHANGED <<settings, heartbeat>>

Lock(c) ==
    /\ ~terminated /\ at[c] = "locking" /\ Free
    /\ IF database = NoPath THEN Goto(c, "idle", NoFrame) ELSE Goto(c, "building", frame[c])
    /\ insert' = NoInsert
    /\ UNCHANGED <<settings, heartbeat>>

ReadMetadata(t) ==
    /\ ~terminated /\ at[t] = "building"
    /\ Goto(t, "identifying", [frame[t] EXCEPT !.envelope.app = app, !.envelope.install = installId])
    /\ insert' = NoInsert
    /\ UNCHANGED <<settings, heartbeat>>

ReadSession(t) ==
    /\ ~terminated /\ at[t] = "identifying"
    /\ Goto(t, "storing", [frame[t] EXCEPT !.envelope.session = session])
    /\ insert' = NoInsert
    /\ UNCHANGED <<settings, heartbeat>>

(* dump(), the limit, and an INSERT whose result nobody looks at. *)
Store(t) ==
    LET envelope == frame[t].envelope IN
    /\ ~terminated /\ at[t] = "storing"
    /\ insert' \in {NoInsert} \cup
          (IF Dumps(envelope) /\ Fits(envelope)
           THEN {[by |-> t, path |-> database, args |-> frame[t].args, envelope |-> envelope]}
           ELSE {})
    /\ Goto(t, "idle", NoFrame)
    /\ UNCHANGED settings

(* What dump() throws at a caller ends at the C ABI, at the heartbeat the host. *)
StoreEvent(c) == Store(c) /\ UNCHANGED heartbeat

StoreHeartbeat(l) ==
    /\ Store(l)
    /\ loop' = [loop EXCEPT ![l] = IF running THEN "waiting" ELSE "ended"]
    /\ IF Dumps(frame[l].envelope)
       THEN beat' = ~beat /\ UNCHANGED terminated
       ELSE terminated' = TRUE /\ UNCHANGED beat
    /\ UNCHANGED <<running, target, installId, handle, pc, mine, overlapped>>

-----------------------------------------------------------------------------
(* The heartbeat. *)

HeartbeatStep == UNCHANGED <<settings, logging, installId>> /\ insert' = NoInsert

StartHeartbeat(c) ==
    /\ Idle(c) /\ Free
    /\ name' \in HeartbeatName \cup {DefaultName}
    /\ insert' = NoInsert
    /\ UNCHANGED <<database, session, app, logging, installId>>
    /\ HB!StartHeartbeat(c)

SpawnFailed(c) == Free /\ HeartbeatStep /\ HB!SpawnFailed(c)

\* Mutant: without the mutex.
StopHeartbeatUnlocked(c) == Idle(c) /\ HeartbeatStep /\ HB!StopHeartbeat(c)
StopHeartbeat(c) == Idle(c) /\ Free /\ HeartbeatStep /\ HB!StopHeartbeat(c)

(* The steps of a start or a stop that need no mutex or have it. *)
OtherSteps(c) ==
    /\ HeartbeatStep
    /\ \/ HB!Spawn(c)
       \/ HB!SpawnThrows(c)
       \/ HB!Assign(c)
       \/ HB!StopSteps(c)

EnterLoop(l) == Free /\ HeartbeatStep /\ HB!EnterLoop(l)
WakeUp(l)    == Free /\ HeartbeatStep /\ HB!WakeUp(l)

(* The interval is over and there is nothing to log. *)
TimeoutSilent(l) == Free /\ ~HB!Emits /\ HeartbeatStep /\ HB!Timeout(l)

IntervalField ==
    [key |-> "interval_seconds", privacy |-> "public", type |-> "int64", value |-> "interval"]

Timeout(l) ==
    /\ ~terminated /\ Free
    /\ loop[l] \in {"waiting", "notified"}
    /\ HB!Emits
    /\ Goto(l, "building",
            [args |-> <<IntervalField>>,
             envelope |-> [NoEnvelope EXCEPT !.event = name, !.component = name,
                                             !.fields = PublicFields(<<IntervalField>>)]])
    /\ insert' = NoInsert
    /\ UNCHANGED <<settings, heartbeat>>

-----------------------------------------------------------------------------
Init ==
    /\ database = NoPath
    /\ session = EmptyText
    /\ app = EmptyText
    /\ name = DefaultName
    /\ at = [t \in Thread |-> "idle"]
    /\ frame = [t \in Thread |-> NoFrame]
    /\ insert = NoInsert
    /\ running = FALSE
    /\ target = EmptyText
    /\ installId = EmptyText
    /\ handle = NoLoop
    /\ pc = [c \in Caller |-> "idle"]
    /\ mine = [c \in Caller |-> NoLoop]
    /\ overlapped = FALSE
    /\ loop = [l \in Loop |-> "unborn"]
    /\ beat = FALSE
    /\ terminated = FALSE

Next ==
    \/ \E c \in Caller : \/ Configure(c)
                         \/ SetInstallId(c)
                         \/ SetSessionId(c)
                         \/ SetAppMetadata(c)
    \/ \E c \in Logger : LogEvent(c) \/ Lock(c) \/ StoreEvent(c)
    \/ \E c \in Driver : \/ StartHeartbeat(c)
                         \/ SpawnFailed(c)
                         \/ StopHeartbeat(c)
                         \/ OtherSteps(c)
    \/ \E t \in Thread : ReadMetadata(t) \/ ReadSession(t)
    \/ \E l \in Loop : \/ EnterLoop(l)
                       \/ WakeUp(l)
                       \/ TimeoutSilent(l)
                       \/ Timeout(l)
                       \/ StoreHeartbeat(l)

Spec == Init /\ [][Next]_vars

-----------------------------------------------------------------------------
(* Properties. *)

(* What is configured, set and stored keeps its type; no null pointer gets    *)
(* into an envelope, and at most one thread is between its lock and its       *)
(* unlock.  (Heartbeat!TypeOK types the variables of the heartbeat: its       *)
(* specification holds of the composition, says HeartbeatAtomic.)             *)
TypeOK ==
    /\ database \in Path \cup {NoPath}
    /\ session \in SessionId \cup {EmptyText}
    /\ app \in AppMetadata \cup {EmptyText}
    /\ name \in HeartbeatName \cup {DefaultName}
    /\ installId \in InstallId \cup {EmptyText}
    /\ at \in [Thread -> {"idle", "locking", "building", "identifying", "storing"}]
    /\ insert # NoInsert => /\ insert.by \in Thread /\ insert.path \in Path
                            /\ NoText \notin Texts(insert.envelope)
    /\ \A t \in Thread : NoText \notin Texts(frame[t].envelope)
    /\ \A t, u \in Thread :
          {at[t], at[u]} \subseteq {"building", "identifying", "storing"} => t = u

(* A stored event has exactly the fields the host declared public in the      *)
(* array it passed, with the last such value of each key: a private or        *)
(* forbidden value is in no stored envelope, under whatever key it came, and  *)
(* takes no public value away.                                                *)
StoresPublicFields ==
    insert # NoInsert => insert.envelope.fields = LastPublicValues(insert.args)

(* An envelope is of one moment: the metadata, the install and the session id *)
(* in it were in force together, when it was stored, in the database the      *)
(* runtime was last configured for; after a Configure that failed there is    *)
(* none.                                                                      *)
StoredOfOneMoment ==
    insert # NoInsert =>
        /\ insert.path = database /\ database # NoPath
        /\ insert.envelope.app = app
        /\ insert.envelope.install = installId
        /\ insert.envelope.session = session

(* A heartbeat is stored only while the heartbeat is on, it carries the       *)
(* install id it is rolled out to, although the id is checked first and read  *)
(* later, and the name the last start gave it.                                *)
HeartbeatTargeted ==
    insert # NoInsert /\ insert.by \in Loop =>
        /\ running /\ target \in {EmptyText, insert.envelope.install}
        /\ insert.envelope.event = name

(* The level of a stored event is in one of the groups the row limit deletes  *)
(* from, so that no event is out of its reach.                                *)
RowLimitReaches ==
    insert # NoInsert =>
        \E g \in DOMAIN SeverityGroups : insert.envelope.level \in SeverityGroups[g]

(* Heartbeat is right to take a time-out, from the look at the flag to the    *)
(* end of the INSERT, for one step: whatever the other threads log and set    *)
(* meanwhile, its specification holds of the composition.                     *)
HeartbeatAtomic == HB!Spec
=============================================================================
