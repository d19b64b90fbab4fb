------------------------------ MODULE Heartbeat ------------------------------
(***************************************************************************)
(* The background heartbeat of FountainRuntime: StartHeartbeat and         *)
(* StopHeartbeat called by the host's threads, and the thread they spawn,  *)
(* HeartbeatLoop.                                                          *)
(*                                                                         *)
(* heartbeat_running_ and the configuration are guarded by mutex_.  The    *)
(* std::thread object heartbeat_thread_ is not: StartHeartbeat assigns it  *)
(* after it has released the mutex, while StopHeartbeat moves from it with *)
(* the mutex held.  The two may race; a move is therefore the two steps it *)
(* is, a read and a clear, and the assignment falls anywhere among them.   *)
(* An assignment to a joinable std::thread calls std::terminate.           *)
(***************************************************************************)
EXTENDS Naturals, FiniteSets

CONSTANTS
    Caller,         \* threads of the host that call the C ABI
    Loop,           \* threads HeartbeatLoop may run in (bound on those alive)
    NoLoop,         \* a std::thread that is not joinable
    InstallId,      \* install ids the host sets
    NoInstallId,    \* the empty string
    InvalidText,    \* whether the host may pass strings that are not UTF-8
    SpawnMayFail    \* whether the constructor of std::thread may throw

ASSUME HeartbeatAssumption ==
    /\ NoLoop \notin Loop
    /\ NoInstallId \notin InstallId
    /\ InvalidText \in BOOLEAN
    /\ SpawnMayFail \in BOOLEAN

VARIABLES
    running,        \* heartbeat_running_
    target,         \* heartbeat_target_install_id_
    installId,      \* identity_.install_id
    valid,          \* the strings that go into a heartbeat are UTF-8
    configured,     \* configured_
    handle,         \* heartbeat_thread_
    pc,             \* where each caller is in Start- or StopHeartbeat
    mine,           \* its local std::thread: the one to assign or to join
    overlapped,     \* history: two such calls were under way at once
    loop,           \* what each heartbeat thread is doing
    beat,           \* flips whenever a heartbeat is logged
    terminated      \* std::terminate was called: the host is gone

calls == <<pc, mine, overlapped>>
vars  == <<running, target, installId, valid, configured, handle, calls, loop, beat, terminated>>

Target == InstallId \cup {NoInstallId}

(* Only a caller that moves the handle stays in the critical section for more *)
(* than a step.                                                               *)
MutexFree == \A c \in Caller : pc[c] \notin {"moving", "clearing"}

Begin(c) == ~terminated /\ pc[c] = "idle"

Goto(c, l, h) ==
    /\ pc' = [pc EXCEPT ![c] = l]
    /\ mine' = [mine EXCEPT ![c] = h]
    /\ overlapped' = (overlapped \/ \E d \in Caller \ {c} : pc[d] # "idle")

Alive(l) == loop[l] \notin {"unborn", "ended"}

(* A thread may be new, or one that was joined or abandoned. *)
Unused(l) == ~Alive(l) /\ l # handle /\ \A c \in Caller : mine[c] # l

-----------------------------------------------------------------------------
(* The rest of the runtime, as far as the heartbeat looks at it. *)

Configure(c) ==
    /\ Begin(c) /\ MutexFree
    /\ configured' \in BOOLEAN
    /\ UNCHANGED <<running, target, installId, valid, handle, calls, loop, beat, terminated>>

Validity == IF InvalidText THEN BOOLEAN ELSE {TRUE}

(* SetInstallId, SetSessionId, SetAppMetadata *)
SetIdentity(c) ==
    /\ Begin(c) /\ MutexFree
    /\ installId' \in InstallId \cup {NoInstallId}
    /\ valid' \in Validity
    /\ UNCHANGED <<running, target, configured, handle, calls, loop, beat, terminated>>

-----------------------------------------------------------------------------
(* StartHeartbeat.  While the heartbeat runs it returns false, a stutter. *)

StartHeartbeat(c) ==
    /\ Begin(c) /\ MutexFree
    /\ ~running
    /\ running' = TRUE
    /\ target' \in Target
    /\ valid' \in Validity
    /\ Goto(c, "spawn", NoLoop)
    /\ UNCHANGED <<installId, configured, handle, loop, beat, terminated>>

(* std::thread(&HeartbeatLoop): the thread is off before it is assigned. *)
Spawn(c) ==
    /\ ~terminated /\ pc[c] = "spawn"
    /\ \E l \in Loop :
          /\ Unused(l)
          /\ loop' = [loop EXCEPT ![l] = "starting"]
          /\ Goto(c, "assign", l)
    /\ UNCHANGED <<running, target, installId, valid, configured, handle, beat, terminated>>

\* Mutant: the exception is swallowed.
SpawnThrowsUnnoticed(c) ==
    /\ ~terminated /\ pc[c] = "spawn" /\ SpawnMayFail
    /\ Goto(c, "assign", NoLoop)
    /\ UNCHANGED <<running, target, installId, valid, configured, handle, loop, beat, terminated>>
SpawnThrows(c) ==
    /\ ~terminated /\ pc[c] = "spawn" /\ SpawnMayFail
    /\ Goto(c, "spawn_failed", NoLoop)
    /\ UNCHANGED <<running, target, installId, valid, configured, handle, loop, beat, terminated>>

(* The catch block; the C ABI swallows the exception and returns false. *)
\* Mutant: the flag is not taken back.
SpawnFailedStillRunning(c) ==
    /\ ~terminated /\ pc[c] = "spawn_failed" /\ MutexFree
    /\ Goto(c, "idle", NoLoop)
    /\ UNCHANGED <<running, target, installId, valid, configured, handle, loop, beat, terminated>>
SpawnFailed(c) ==
    /\ ~terminated /\ pc[c] = "spawn_failed" /\ MutexFree
    /\ running' = FALSE
    /\ Goto(c, "idle", NoLoop)
    /\ UNCHANGED <<target, installId, valid, configured, handle, loop, beat, terminated>>

Assign(c) ==
    /\ ~terminated /\ pc[c] = "assign"
    /\ terminated' = (handle # NoLoop)
    /\ handle' = IF handle = NoLoop THEN mine[c] ELSE handle
    /\ Goto(c, "idle", NoLoop)
    /\ UNCHANGED <<running, target, installId, valid, configured, loop, beat>>

-----------------------------------------------------------------------------
(* StopHeartbeat. *)

(* notify_all: the waiting loops are to look at their predicate. *)
Notified == [l \in Loop |-> IF loop[l] = "waiting" THEN "notified" ELSE loop[l]]

(* With nothing running and nothing to join, it returns at once. *)
StopHeartbeat(c) ==
    /\ Begin(c) /\ MutexFree
    /\ running \/ handle # NoLoop
    /\ running' = FALSE
    /\ loop' = IF running THEN Notified ELSE loop
    /\ Goto(c, "moving", NoLoop)
    /\ UNCHANGED <<target, installId, valid, configured, handle, beat, terminated>>

MoveRead(c) ==
    /\ ~terminated /\ pc[c] = "moving"
    /\ Goto(c, "clearing", handle)
    /\ UNCHANGED <<running, target, installId, valid, configured, handle, loop, beat, terminated>>

\* Mutant: the handle is not cleared.
CopyHandle(c) ==
    /\ ~terminated /\ pc[c] = "clearing"
    /\ IF mine[c] = NoLoop THEN Goto(c, "idle", NoLoop) ELSE Goto(c, "join", mine[c])
    /\ UNCHANGED <<running, target, installId, valid, configured, handle, loop, beat, terminated>>
MoveClear(c) ==
    /\ ~terminated /\ pc[c] = "clearing"
    /\ handle' = NoLoop
    /\ IF mine[c] = NoLoop THEN Goto(c, "idle", NoLoop) ELSE Goto(c, "join", mine[c])
    /\ UNCHANGED <<running, target, installId, valid, configured, loop, beat, terminated>>

Join(c) ==
    /\ ~terminated /\ pc[c] = "join" /\ loop[mine[c]] = "ended"
    /\ Goto(c, "idle", NoLoop)
    /\ UNCHANGED <<running, target, installId, valid, configured, handle, loop, beat, terminated>>

-----------------------------------------------------------------------------
(* HeartbeatLoop, which holds the mutex except while it waits. *)

(* What it does when it has the mutex and nothing to log: wait, or return. *)
\* Mutant: while (true).
ProceedForever(l) == loop' = [loop EXCEPT ![l] = "waiting"]
Proceed(l) == loop' = [loop EXCEPT ![l] = IF running THEN "waiting" ELSE "ended"]

EnterLoop(l) ==
    /\ ~terminated /\ MutexFree
    /\ loop[l] = "starting"
    /\ Proceed(l)
    /\ UNCHANGED <<running, target, installId, valid, configured, handle, calls, beat, terminated>>

(* wait_for, woken by notify_all, looks at its predicate and may wait on. *)
WakeUp(l) ==
    /\ ~terminated /\ MutexFree
    /\ loop[l] = "notified"
    /\ Proceed(l)
    /\ UNCHANGED <<running, target, installId, valid, configured, handle, calls, beat, terminated>>

\* Mutant: the empty target is forgotten.
RolloutMatchNeedsTarget == installId # NoInstallId /\ installId = target
RolloutMatch == target = NoInstallId \/ (installId # NoInstallId /\ installId = target)

Emits == running /\ configured /\ RolloutMatch

(* The interval is over.  LogEventLocked builds the envelope, and nlohmann's  *)
(* dump() throws on a string that is not UTF-8: here nothing catches it.      *)
Timeout(l) ==
    /\ ~terminated /\ MutexFree
    /\ loop[l] \in {"waiting", "notified"}
    /\ terminated' = (Emits /\ ~valid)
    /\ beat' = IF Emits /\ valid THEN ~beat ELSE beat
    /\ Proceed(l)
    /\ UNCHANGED <<running, target, installId, valid, configured, handle, calls>>

-----------------------------------------------------------------------------
Init ==
    /\ running = FALSE
    /\ target = NoInstallId
    /\ installId = NoInstallId
    /\ valid = TRUE
    /\ configured = FALSE
    /\ handle = NoLoop
    /\ pc = [c \in Caller |-> "idle"]
    /\ mine = [c \in Caller |-> NoLoop]
    /\ overlapped = FALSE
    /\ loop = [l \in Loop |-> "unborn"]
    /\ beat = FALSE
    /\ terminated = FALSE

StartSteps(c) == Spawn(c) \/ SpawnThrows(c) \/ SpawnFailed(c) \/ Assign(c)
StopSteps(c)  == MoveRead(c) \/ MoveClear(c) \/ Join(c)
LoopSteps(l)  == EnterLoop(l) \/ WakeUp(l) \/ Timeout(l)

Next ==
    \/ \E c \in Caller : \/ Configure(c)
                         \/ SetIdentity(c)
                         \/ StartHeartbeat(c)
                         \/ StartSteps(c)
                         \/ StopHeartbeat(c)
                         \/ StopSteps(c)
    \/ \E l \in Loop : LoopSteps(l)

Spec == Init /\ [][Next]_vars

(* Threads that can run do, and the interval of a waiting loop passes. *)
Fairness ==
    /\ \A c \in Caller : WF_vars(StartSteps(c)) /\ WF_vars(StopSteps(c))
    /\ \A l \in Loop : WF_vars(LoopSteps(l))
LiveSpec == Spec /\ Fairness

-----------------------------------------------------------------------------
(* Properties. *)

(* The variables keep their types, and a caller that is to assign or to join a *)
(* thread has one.                                                             *)
TypeOK ==
    /\ running \in BOOLEAN /\ configured \in BOOLEAN /\ valid \in Validity
    /\ beat \in BOOLEAN /\ terminated \in BOOLEAN /\ overlapped \in BOOLEAN
    /\ target \in Target /\ installId \in Target
    /\ handle \in Loop \cup {NoLoop}
    /\ pc \in [Caller -> {"idle", "spawn", "spawn_failed", "assign",
                          "moving", "clearing", "join"}]
    /\ mine \in [Caller -> Loop \cup {NoLoop}]
    /\ \A c \in Caller : pc[c] \in {"assign", "join"} => mine[c] \in Loop
    /\ loop \in [Loop -> {"unborn", "starting", "waiting", "notified", "ended"}]

(* No call to start or stop the heartbeat, and no heartbeat, ends the host. *)
NeverTerminates == ~terminated

(* As long as no two of its threads start or stop the heartbeat at once, and  *)
(* the strings it passes are UTF-8, the host lives.                           *)
TerminatesOnlyByRace == terminated => overlapped \/ ~valid

(* With all calls returned, a heartbeat thread is alive exactly when the      *)
(* heartbeat is on, and then it is the only one and the handle refers to it:  *)
(* none is left behind by a stop, none is missing after a failed start.       *)
OneLoopWhileRunning ==
    ~overlapped /\ (\A c \in Caller : pc[c] = "idle") =>
        {l \in Loop : Alive(l)} = IF running THEN {handle} ELSE {}

(* Each thread is referred to by one std::thread object only, so that none is *)
(* joined twice; a stop between its read and its clear refers to it as well.  *)
(* This holds however the calls overlap.                                      *)
NoSharedHandle ==
    \A c \in Caller :
        mine[c] # NoLoop =>
            /\ mine[c] = handle => pc[c] = "clearing"
            /\ \A d \in Caller \ {c} : mine[c] # mine[d]

(* StopHeartbeat comes back.  (A start that overlaps it may set the thread it *)
(* waits for going again, and the stop then waits for ever.)                  *)
StopReturns ==
    \A c \in Caller : pc[c] = "join" ~> (pc[c] = "idle" \/ overlapped \/ terminated)

(* While the heartbeat stays on, configured and rolled out to this install,   *)
(* heartbeats keep coming.                                                    *)
KeepsBeating ==
    <>[](/\ running /\ configured /\ target \in {NoInstallId, installId}
         /\ ~overlapped /\ ~terminated)
        => []<><<beat' # beat>>_vars

(* Once the heartbeat stays off, its threads end, those that a race has made  *)
(* unreachable included.                                                      *)
LoopsEnd == \A l \in Loop : Alive(l) ~> (~Alive(l) \/ running \/ terminated)
=============================================================================
