--------------------------- MODULE HeartbeatScripts ---------------------------
(***************************************************************************)
(* The operator's scripts 05_start_heartbeat.sh, 06_verify_heartbeat.sh    *)
(* and 07_stop_heartbeat.sh, the heartbeat_runner processes they start and *)
(* signal, and the state file, the pid file, the archive and the database  *)
(* they meet in.                                                           *)
(*                                                                         *)
(* A script is a sequence of commands under set -e; one step is the        *)
(* commands up to the next that others can see or that sees others.  Files *)
(* are replaced by mv, but a reader opens the state file once for every    *)
(* value it takes.  Scripts may run at the same time and may be killed     *)
(* between any two steps; nothing locks and no trap cleans up.  The pid    *)
(* file is never removed, and the system may give the pid of a process     *)
(* that is gone to another one.                                            *)
(***************************************************************************)
EXTENDS FiniteSets, Naturals

CONSTANTS
    Script,         \* invocations that may be under way at once
    Config,         \* what a start may be asked for: install id, interval, ...
    NoConfig,
    Pid,            \* process ids
    NoPid           \* no pid file

ASSUME ScriptsAssumption ==
    /\ NoConfig \notin Config
    /\ NoPid \notin Pid

VARIABLES
    state,          \* the state file
    archive,        \* the state file that was moved to the archive last
    pidFile,        \* the pid file
    proc,           \* the processes by pid
    logged,         \* the database has heartbeat events
    pc,             \* where each script is
    local,          \* what it has read or been told
    written,        \* history: the configuration the last start wrote
    incidents       \* history: what went wrong among the scripts, see below

files   == <<state, archive, pidFile, logged>>
scripts == <<pc, local>>
history == <<written, incidents>>
vars    == <<files, proc, scripts, history>>

NoFile    == [enabled |-> FALSE, config |-> NoConfig]
StateFile == [enabled : BOOLEAN, config : Config \cup {NoConfig}]

Gone   == [is |-> "gone", config |-> NoConfig]
Other  == [is |-> "other", config |-> NoConfig]

(* kill -0 *)
Alive(p) == p # NoPid /\ proc[p].is # "gone"

(* A runner that nobody has asked to stop. *)
Running(p) == proc[p].is \in {"booting", "beating"}

(* SIGTERM: the handlers are installed only after the runner has configured   *)
(* the library, started the heartbeat and logged a first event; before, as in *)
(* a process that is no runner, the signal is death.                          *)
\* Mutant: a booting runner survives it.
AfterSignalIgnored(r) == CASE r.is = "beating" -> [r EXCEPT !.is = "stopping"]
                           [] r.is \in {"stopping", "booting"} -> r
                           [] OTHER -> Gone
AfterSignal(r) == CASE r.is = "beating"  -> [r EXCEPT !.is = "stopping"]
                    [] r.is = "stopping" -> r
                    [] OTHER             -> Gone

IdleLocal == [config |-> NoConfig, enabled |-> FALSE, pid |-> NoPid]

(* The scripts that change something; verification only looks. *)
Changing == {"start_kill", "start_write", "start_spawn", "start_pid",
             "stop_read", "stop_kill", "stop_archive", "stop_write"}
Label == Changing \cup {"idle", "verify_read", "verify_events"}

(* Script s goes on to l.  A changing script that begins while another is    *)
(* under way is an incident.                                                 *)
Goto(s, l, v) ==
    /\ pc' = [pc EXCEPT ![s] = l]
    /\ local' = [local EXCEPT ![s] = v]
    /\ incidents' = incidents \cup
          IF l \in Changing /\ \E u \in Script \ {s} : pc[u] \in Changing
          THEN {"overlap"} ELSE {}

Return(s) == Goto(s, "idle", IdleLocal)

(* kill -0 and kill of the process the pid file named: a process that ends in *)
(* between makes kill fail, and set -e ends the script.                       *)
KillRecorded(s, next) ==
    LET p  == local[s].pid
        on == [local[s] EXCEPT !.pid = NoPid]
    IN
    \/ /\ Alive(p)
       /\ proc' = [proc EXCEPT ![p] = AfterSignal(@)]
       /\ Goto(s, next, on)
    \/ ~Alive(p) /\ Goto(s, next, on) /\ UNCHANGED proc
    \/ Alive(p) /\ proc' = [proc EXCEPT ![p] = Gone] /\ Return(s)

-----------------------------------------------------------------------------
(* 05_start_heartbeat.sh *)

StartReadPid(s) ==
    /\ pc[s] = "idle"
    /\ \E c \in Config :
          Goto(s, "start_kill", [IdleLocal EXCEPT !.config = c, !.pid = pidFile])
    /\ UNCHANGED <<files, proc, written>>

StartKill(s) ==
    /\ pc[s] = "start_kill"
    /\ KillRecorded(s, "start_write")
    /\ UNCHANGED <<files, written>>

StartWriteState(s) ==
    /\ pc[s] = "start_write"
    /\ state' = [enabled |-> TRUE, config |-> local[s].config]
    /\ written' = local[s].config
    /\ Goto(s, "start_spawn", local[s])
    /\ UNCHANGED <<archive, pidFile, logged, proc>>

(* nohup runner & *)
StartSpawn(s) ==
    /\ pc[s] = "start_spawn"
    /\ \E p \in Pid :
          /\ ~Alive(p)
          /\ proc' = [proc EXCEPT ![p] = [is |-> "booting", config |-> local[s].config]]
          /\ Goto(s, "start_pid", [local[s] EXCEPT !.pid = p])
    /\ UNCHANGED <<files, written>>

\* Mutant: a pid file that is there is kept.
StartKeepsPid(s) ==
    /\ pc[s] = "start_pid"
    /\ pidFile' = IF pidFile = NoPid THEN local[s].pid ELSE pidFile
    /\ Return(s)
    /\ UNCHANGED <<state, archive, logged, proc, written>>
(* The check behind it, whether the runner lives, decides the exit code only. *)
StartWritePid(s) ==
    /\ pc[s] = "start_pid"
    /\ pidFile' = local[s].pid
    /\ Return(s)
    /\ UNCHANGED <<state, archive, logged, proc, written>>

-----------------------------------------------------------------------------
(* Reading the state file, value by value: whether it is enabled first.  A    *)
(* script ends when there is no file (any more).                              *)
ReadEnabled(s, next) ==
    /\ state # NoFile
    /\ Goto(s, next, [IdleLocal EXCEPT !.enabled = state.enabled])
    /\ UNCHANGED <<files, proc, written>>

-----------------------------------------------------------------------------
(* 07_stop_heartbeat.sh *)

StopBegin(s) == pc[s] = "idle" /\ ReadEnabled(s, "stop_read")

\* Mutant: no set -e, a missing file gives empty values.
StopReadsOn(s) ==
    /\ pc[s] = "stop_read"
    /\ Goto(s, "stop_kill", [local[s] EXCEPT !.config = state.config, !.pid = pidFile])
    /\ UNCHANGED <<files, proc, written>>
StopRead(s) ==
    /\ pc[s] = "stop_read"
    /\ IF state = NoFile THEN Return(s)
       ELSE Goto(s, "stop_kill", [local[s] EXCEPT !.config = state.config, !.pid = pidFile])
    /\ UNCHANGED <<files, proc, written>>

\* Mutant: kill -0 only.
StopOnlyLooks(s) ==
    /\ pc[s] = "stop_kill"
    /\ Goto(s, "stop_archive", [local[s] EXCEPT !.pid = NoPid])
    /\ UNCHANGED <<files, proc, written>>
(* The recorded process gets its signal also when the state is disabled already. *)
StopKill(s) ==
    /\ pc[s] = "stop_kill"
    /\ KillRecorded(s, "stop_archive")
    /\ UNCHANGED <<files, written>>

\* Mutant: the file is archived before the mark is looked at.
AlreadyStoppedArchives(s) ==
    /\ pc[s] = "stop_archive"
    /\ ~local[s].enabled
    /\ archive' = state /\ state' = NoFile
    /\ Return(s)
    /\ UNCHANGED <<pidFile, logged, proc, written>>
AlreadyStopped(s) ==
    /\ pc[s] = "stop_archive"
    /\ ~local[s].enabled
    /\ Return(s)
    /\ UNCHANGED <<files, proc, written>>

\* Mutant: the state file is removed, not moved.
StopRemoves(s) ==
    /\ pc[s] = "stop_archive"
    /\ local[s].enabled
    /\ state' = NoFile
    /\ IF state = NoFile THEN Return(s) ELSE Goto(s, "stop_write", local[s])
    /\ UNCHANGED <<archive, pidFile, logged, proc, written>>
(* mv into a directory named for the second.  Earlier archives stay, except one *)
(* of the same second, which is overwritten: only the last can be relied on.    *)
StopArchive(s) ==
    /\ pc[s] = "stop_archive"
    /\ local[s].enabled
    /\ IF state = NoFile
       THEN Return(s) /\ UNCHANGED <<state, archive>>
       ELSE /\ archive' = state
            /\ state' = NoFile
            /\ Goto(s, "stop_write", local[s])
    /\ UNCHANGED <<pidFile, logged, proc, written>>

\* Mutant: the mark is taken over with the rest.
StopStaysEnabled(s) ==
    /\ pc[s] = "stop_write"
    /\ state' = [enabled |-> local[s].enabled, config |-> local[s].config]
    /\ Return(s)
    /\ UNCHANGED <<archive, pidFile, logged, proc, written>>
StopWriteState(s) ==
    /\ pc[s] = "stop_write"
    /\ state' = [enabled |-> FALSE, config |-> local[s].config]
    /\ Return(s)
    /\ UNCHANGED <<archive, pidFile, logged, proc, written>>

-----------------------------------------------------------------------------
(* 06_verify_heartbeat.sh *)

VerifyBegin(s) == pc[s] = "idle" /\ ReadEnabled(s, "verify_read")

(* Enabled, for the install id that is expected, if any, and the recorded     *)
(* process alive.                                                             *)
VerifyRead(s) ==
    /\ pc[s] = "verify_read"
    /\ \E expected \in Config \cup {NoConfig} :
          IF /\ state # NoFile /\ local[s].enabled
             /\ expected \in {NoConfig, state.config}
             /\ Alive(pidFile)
          THEN Goto(s, "verify_events", [local[s] EXCEPT !.config = state.config, !.pid = pidFile])
          ELSE Return(s)
    /\ UNCHANGED <<files, proc, written>>

(* It passes when there are events of the name, whoever logged them. *)
Passes(s) == pc[s] = "verify_events" /\ logged

VerifyEvents(s) ==
    /\ pc[s] = "verify_events"
    /\ Return(s)
    /\ UNCHANGED <<files, proc, written>>

-----------------------------------------------------------------------------
(* heartbeat_runner.  While it boots it configures the library, starts the     *)
(* heartbeat and logs a first event, which may be dropped; or it fails.        *)

RunnerBoots(p) ==
    /\ proc[p].is = "booting"
    /\ \/ proc' = [proc EXCEPT ![p].is = "beating"]
       \/ proc' = [proc EXCEPT ![p] = Gone]
    /\ UNCHANGED <<files, scripts, history>>

Beat(p) ==
    /\ proc[p].is \in {"booting", "beating", "stopping"}
    /\ logged' = TRUE
    /\ UNCHANGED <<state, archive, pidFile, proc, scripts, history>>

(* The main loop sees the flag, StopHeartbeat returns, main returns. *)
RunnerEnds(p) ==
    /\ proc[p].is = "stopping"
    /\ proc' = [proc EXCEPT ![p] = Gone]
    /\ UNCHANGED <<files, scripts, history>>

-----------------------------------------------------------------------------
(* The system around them. *)

RunnerDies(p) ==
    /\ Running(p)
    /\ proc' = [proc EXCEPT ![p] = Gone]
    /\ UNCHANGED <<files, scripts, history>>

OtherProcess(p) ==
    /\ \/ proc[p] = Gone  /\ proc' = [proc EXCEPT ![p] = Other]
       \/ proc[p] = Other /\ proc' = [proc EXCEPT ![p] = Gone]
    /\ UNCHANGED <<files, scripts, history>>

(* What a script killed at l leaves half done: a runner whose pid is in no file, *)
(* no state file, or something less.                                             *)
HalfDone(l) == CASE l = "start_pid"  -> {"orphan"}
                 [] l = "stop_write" -> {"no_state"}
                 [] l \in Changing \ {"start_pid", "stop_write"} -> {"half_done"}
                 [] OTHER            -> {}

ScriptDies(s) ==
    /\ pc[s] # "idle"
    /\ pc' = [pc EXCEPT ![s] = "idle"]
    /\ local' = [local EXCEPT ![s] = IdleLocal]
    /\ incidents' = incidents \cup HalfDone(pc[s])
    /\ UNCHANGED <<files, proc, written>>

(* The files survive a restart of the system, no process does. *)
Reboot ==
    /\ proc' = [p \in Pid |-> Gone]
    /\ pc' = [s \in Script |-> "idle"]
    /\ local' = [s \in Script |-> IdleLocal]
    /\ incidents' = incidents \cup
          ((UNION {HalfDone(pc[s]) : s \in Script}) \ {"orphan"})
    /\ UNCHANGED <<files, written>>

-----------------------------------------------------------------------------
Init ==
    /\ state = NoFile
    /\ archive = NoFile
    /\ pidFile = NoPid
    /\ proc = [p \in Pid |-> Gone]
    /\ logged = FALSE
    /\ pc = [s \in Script |-> "idle"]
    /\ local = [s \in Script |-> IdleLocal]
    /\ written = NoConfig
    /\ incidents = {}

Begin(s) == StartReadPid(s) \/ StopBegin(s) \/ VerifyBegin(s)

Continue(s) ==
    \/ StartKill(s)
    \/ StartWriteState(s)
    \/ StartSpawn(s)
    \/ StartWritePid(s)
    \/ StopRead(s)
    \/ StopKill(s)
    \/ AlreadyStopped(s)
    \/ StopArchive(s)
    \/ StopWriteState(s)
    \/ VerifyRead(s)
    \/ VerifyEvents(s)

Next ==
    \/ \E s \in Script : Begin(s) \/ Continue(s) \/ ScriptDies(s)
    \/ \E p \in Pid : \/ RunnerBoots(p)
                      \/ Beat(p)
                      \/ RunnerEnds(p)
                      \/ RunnerDies(p)
                      \/ OtherProcess(p)
    \/ Reboot

Spec == Init /\ [][Next]_vars

-----------------------------------------------------------------------------
(* Properties. *)

(* The files, processes and scripts keep their types: a state file that is    *)
(* there has a configuration, a runner has one, a script about to write has.  *)
TypeOK ==
    /\ state \in StateFile
    /\ state # NoFile => state.config # NoConfig
    /\ archive \in StateFile
    /\ pidFile \in Pid \cup {NoPid}
    /\ proc \in [Pid -> [is : {"gone", "other", "booting", "beating", "stopping"},
                         config : Config \cup {NoConfig}]]
    /\ logged \in BOOLEAN
    /\ pc \in [Script -> Label]
    /\ \A s \in Script : pc[s] \in {"start_write", "start_spawn", "stop_write"}
                            => local[s].config \in Config
    /\ written \in Config \cup {NoConfig}
    /\ incidents \subseteq {"overlap", "orphan", "no_state", "half_done"}

Disturbed == incidents \cap {"overlap", "orphan"} # {}

(* However scripts and runners die, pids are reused and the system restarts:  *)
(* there is at most one runner that was not told to stop, unless two changing *)
(* scripts overlapped or a start died between its runner and its pid file.    *)
AtMostOneRunner ==
    ~Disturbed => Cardinality({p \in Pid : Running(p)}) <= 1

(* A state file that says the heartbeat is disabled is right.  *)
DisabledMeansStopped ==
    ~Disturbed /\ state # NoFile /\ ~state.enabled
        => \A p \in Pid : ~Running(p)

(* A runner that was not told to stop can be reached: its pid is in the pid   *)
(* file, or the start that made it is about to write it there.                *)
RunnersReachable ==
    ~Disturbed =>
        \A p \in Pid : Running(p) =>
            p = pidFile \/ \E s \in Script : pc[s] = "start_pid" /\ local[s].pid = p

(* The last configuration asked for is never lost, whatever dies: the state   *)
(* file has it, or the archive while (or since) a stop is between its moves.  *)
ConfigurationKept ==
    written # NoConfig /\ "overlap" \notin incidents =>
        IF state # NoFile THEN state.config = written
        ELSE archive = [enabled |-> TRUE, config |-> written]

(* There is a state file from the first start on, except between the moves of *)
(* a stop and after a stop that died there, even with scripts that overlap.   *)
StateFileStays ==
    state = NoFile =>
        \/ written = NoConfig
        \/ "no_state" \in incidents
        \/ \E s \in Script : pc[s] = "stop_write"

(* A verification that passes tells the truth about the process, when no      *)
(* other script overlapped or was killed, the files are still what it read    *)
(* and that process is a runner: it runs with the configuration the state     *)
(* file names and was not told to stop.                                       *)
VerifiedRunner ==
    \A s \in Script :
        (/\ Passes(s) /\ incidents = {}
         /\ pidFile = local[s].pid /\ state = [enabled |-> TRUE, config |-> local[s].config]
         /\ \A u \in Script : pc[u] \notin Changing
         /\ proc[local[s].pid].is \notin {"gone", "other"})
        => Running(pidFile) /\ proc[pidFile].config = state.config
=============================================================================
