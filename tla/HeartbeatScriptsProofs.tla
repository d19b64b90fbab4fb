------------------------ MODULE HeartbeatScriptsProofs ------------------------
(***************************************************************************)
(* Theorems about the operator's heartbeat scripts, for any number of      *)
(* scripts, configurations and process ids, however scripts and runners    *)
(* die, pids are reused and the system restarts.                           *)
(***************************************************************************)
EXTENDS HeartbeatScripts, FiniteSetTheorems, TLAPS

-----------------------------------------------------------------------------
(* The inductive invariant. *)

Local == [config : Config \cup {NoConfig}, enabled : BOOLEAN, pid : Pid \cup {NoPid}]

(* What a script carries has been read from a file that was there. *)
LocalOK ==
    /\ local \in [Script -> Local]
    /\ \A s \in Script :
          /\ pc[s] \in {"start_kill", "start_write", "start_spawn", "start_pid",
                        "stop_kill", "stop_archive", "stop_write"}
                => local[s].config \in Config
          /\ pc[s] \in {"start_pid", "verify_events"} => local[s].pid \in Pid

(* One changing script at a time. *)
OneChanging ==
    "overlap" \notin incidents =>
        \A s, u \in Script : {pc[s], pc[u]} \subseteq Changing => s = u

(* The changing script knows the files, which nobody else touches. *)
FileKnown(s) ==
    /\ pc[s] \in {"start_kill", "stop_kill"} => local[s].pid = pidFile
    /\ pc[s] \in {"start_spawn", "start_pid"} =>
          state = [enabled |-> TRUE, config |-> local[s].config]
    /\ pc[s] \in {"stop_read", "stop_kill", "stop_archive"} =>
          state # NoFile /\ local[s].enabled = state.enabled
    /\ pc[s] \in {"stop_kill", "stop_archive"} => local[s].config = state.config
    /\ pc[s] = "stop_write" =>
          state = NoFile /\ archive = [enabled |-> TRUE, config |-> local[s].config]
FilesKnown == "overlap" \notin incidents => \A s \in Script : FileKnown(s)

(* Which runners that nobody told to stop there can be. *)
RunnersKnown ==
    ~Disturbed =>
        /\ \A s \in Script : \A p \in Pid :
              Running(p) =>
                  /\ pc[s] \notin {"start_write", "start_spawn", "stop_archive", "stop_write"}
                  /\ pc[s] = "start_pid" => p = local[s].pid
        /\ (\A s \in Script : pc[s] # "start_pid") => \A p \in Pid : Running(p) => p = pidFile

(* A runner under pid p, if there is one, is that of the state file. *)
Current(p) ==
    p # NoPid /\ proc[p].is \notin {"gone", "other"} => Running(p) /\ proc[p].config = state.config

(* As long as nothing went wrong, the pid file leads to the runner that an    *)
(* enabled state file speaks of, until a script is about to change something. *)
RunnerCurrent ==
    incidents = {} =>
        /\ \A s \in Script : pc[s] = "start_pid" => Current(local[s].pid)
        /\ state.enabled /\ (\A s \in Script : pc[s] \in Changing =>
                                 pc[s] \in {"start_kill", "stop_read", "stop_kill"})
              => Current(pidFile)

ScriptsInv ==
    /\ TypeOK
    /\ LocalOK
    /\ OneChanging
    /\ FilesKnown
    /\ RunnersKnown
    /\ DisabledMeansStopped
    /\ ConfigurationKept
    /\ StateFileStays
    /\ RunnerCurrent

-----------------------------------------------------------------------------
(* What the steps have in common. *)

Process == [is : {"gone", "other", "booting", "beating", "stopping"},
            config : Config \cup {NoConfig}]

LEMMA GotoEffect ==
  ASSUME TypeOK, LocalOK, NEW s \in Script, NEW l, NEW v, Goto(s, l, v)
  PROVE  /\ pc'[s] = l /\ local'[s] = v
         /\ \A u \in Script \ {s} : pc'[u] = pc[u] /\ local'[u] = local[u]
         /\ incidents \subseteq incidents' /\ incidents' \subseteq incidents \cup {"overlap"}
         /\ "overlap" \notin incidents' /\ l \in Changing
              => \A u \in Script \ {s} : pc[u] \notin Changing
  BY DEF Goto, TypeOK, LocalOK

LEMMA GotoType ==
  ASSUME TypeOK, LocalOK, NEW s \in Script, NEW l \in Label, NEW v \in Local, Goto(s, l, v),
         l \in {"start_kill", "start_write", "start_spawn", "start_pid",
                "stop_kill", "stop_archive", "stop_write"} => v.config \in Config,
         l \in {"start_pid", "verify_events"} => v.pid \in Pid
  PROVE  pc' \in [Script -> Label] /\ LocalOK' /\ incidents' \subseteq {"overlap", "orphan", "no_state", "half_done"}
  BY DEF Goto, TypeOK, LocalOK

LEMMA IdleLocalType == IdleLocal \in Local
  BY DEF IdleLocal, Local

(* After the kill the recorded process is not running, and no other has been *)
(* touched.                                                                  *)
LEMMA KillEffect ==
  ASSUME TypeOK, LocalOK, NEW s \in Script, NEW next, KillRecorded(s, next)
  PROVE  /\ proc' \in [Pid -> Process]
         /\ \A p \in Pid : Running(p)' => Running(p) /\ p # local[s].pid
         /\ \A p \in Pid : p # local[s].pid => proc'[p] = proc[p]
         /\ \/ Goto(s, next, [local[s] EXCEPT !.pid = NoPid])
            \/ Return(s) /\ local[s].pid \in Pid /\ proc'[local[s].pid].is = "gone"
<1> DEFINE q == local[s].pid
<1>1. q \in Pid \cup {NoPid} /\ proc \in [Pid -> Process]
    BY DEF LocalOK, Local, TypeOK, Process
<1>2. CASE Alive(q) /\ proc' = [proc EXCEPT ![q] = AfterSignal(@)]
                    /\ Goto(s, next, [local[s] EXCEPT !.pid = NoPid])
    <2>1. q \in Pid /\ AfterSignal(proc[q]) \in Process /\ AfterSignal(proc[q]).is \in {"stopping", "gone"}
        BY <1>1, <1>2 DEF Alive, AfterSignal, Gone, Process
    <2> QED
        BY <1>1, <1>2, <2>1 DEF Running
<1>3. CASE ~Alive(q) /\ UNCHANGED proc /\ Goto(s, next, [local[s] EXCEPT !.pid = NoPid])
    BY <1>1, <1>3, ScriptsAssumption DEF Alive, Running
<1>4. CASE Alive(q) /\ proc' = [proc EXCEPT ![q] = Gone] /\ Return(s)
    BY <1>1, <1>4 DEF Alive, Running, Gone, Process
<1> QED
    BY <1>2, <1>3, <1>4 DEF KillRecorded

-----------------------------------------------------------------------------
(* Types. *)

LEMMA NextType ==
  ASSUME TypeOK, LocalOK, [Next]_vars
  PROVE  TypeOK' /\ LocalOK'
<1>0. /\ local \in [Script -> Local] /\ pc \in [Script -> Label]
      /\ proc \in [Pid -> Process] /\ \A s \in Script : local[s] \in Local
    BY DEF LocalOK, TypeOK, Process
<1> DEFINE PcOK == /\ pc' \in [Script -> Label] /\ LocalOK'
                   /\ incidents' \subseteq {"overlap", "orphan", "no_state", "half_done"}
           FilesOK == /\ state' \in StateFile /\ (state' # NoFile => state'.config # NoConfig)
                      /\ archive' \in StateFile /\ pidFile' \in Pid \cup {NoPid}
                      /\ logged' \in BOOLEAN /\ written' \in Config \cup {NoConfig}
<1>1. ASSUME PcOK, FilesOK, proc' \in [Pid -> Process]
      PROVE  TypeOK' /\ LocalOK'
    BY <1>1 DEF TypeOK, LocalOK, Process
<1>2. ASSUME UNCHANGED <<files, written>>
      PROVE  FilesOK
    BY <1>2 DEF files, TypeOK
<1>3. ASSUME NEW s \in Script, Return(s)
      PROVE  PcOK
    BY <1>3, GotoType, IdleLocalType DEF Return, Label
<1>4. ASSUME NEW s \in Script, StartReadPid(s)
      PROVE  TypeOK' /\ LocalOK'
    <2>1. PICK c \in Config : Goto(s, "start_kill", [IdleLocal EXCEPT !.config = c, !.pid = pidFile])
        BY <1>4 DEF StartReadPid
    <2>2. [IdleLocal EXCEPT !.config = c, !.pid = pidFile] \in Local
        BY DEF IdleLocal, Local, TypeOK
    <2>3. [IdleLocal EXCEPT !.config = c, !.pid = pidFile].config = c
        BY DEF IdleLocal
    <2>4. PcOK
        BY <2>1, <2>2, <2>3, GotoType DEF Label, Changing
    <2> QED
        BY <1>0, <1>1, <1>2, <1>4, <2>4 DEF StartReadPid
<1>5. ASSUME NEW s \in Script, NEW l \in {"stop_read", "verify_read"}, ReadEnabled(s, l)
      PROVE  TypeOK' /\ LocalOK'
    <2>1. [IdleLocal EXCEPT !.enabled = state.enabled] \in Local
        BY DEF IdleLocal, Local, TypeOK, StateFile
    <2>2. PcOK
        BY <1>5, <2>1, GotoType DEF ReadEnabled, Label, Changing
    <2> QED
        BY <1>0, <1>1, <1>2, <1>5, <2>2 DEF ReadEnabled
<1>6. ASSUME NEW s \in Script, NEW l \in {"start_write", "stop_archive"}, KillRecorded(s, l),
             pc[s] \in {"start_kill", "stop_kill"}, UNCHANGED <<files, written>>
      PROVE  TypeOK' /\ LocalOK'
    <2>1. /\ [local[s] EXCEPT !.pid = NoPid] \in Local
          /\ [local[s] EXCEPT !.pid = NoPid].config = local[s].config /\ local[s].config \in Config
        BY <1>0, <1>6 DEF Local, LocalOK
    <2>2. PcOK
        BY <1>3, <1>6, <2>1, KillEffect, GotoType DEF Label, Changing
    <2> QED
        BY <1>1, <1>2, <1>6, <2>2, KillEffect
<1>7. ASSUME NEW s \in Script, StartWriteState(s)
      PROVE  TypeOK' /\ LocalOK'
    <2>1. local[s] \in Local /\ local[s].config \in Config
        BY <1>0, <1>7 DEF StartWriteState, LocalOK
    <2>2. PcOK
        BY <1>7, <2>1, GotoType DEF StartWriteState, Label, Changing
    <2>3. FilesOK
        BY <1>7, <2>1, ScriptsAssumption DEF StartWriteState, TypeOK, StateFile
    <2> QED
        BY <1>0, <1>1, <1>7, <2>2, <2>3 DEF StartWriteState
<1>8. ASSUME NEW s \in Script, StartSpawn(s)
      PROVE  TypeOK' /\ LocalOK'
    <2>1. PICK p \in Pid : /\ proc' = [proc EXCEPT ![p] = [is |-> "booting", config |-> local[s].config]]
                           /\ Goto(s, "start_pid", [local[s] EXCEPT !.pid = p])
        BY <1>8 DEF StartSpawn
    <2>2. /\ local[s].config \in Config
          /\ [local[s] EXCEPT !.pid = p] \in Local
          /\ [local[s] EXCEPT !.pid = p].config = local[s].config
          /\ [local[s] EXCEPT !.pid = p].pid = p
        BY <1>0, <1>8 DEF StartSpawn, LocalOK, Local
    <2>3. PcOK
        BY <2>1, <2>2, GotoType DEF Label, Changing
    <2>4. proc' \in [Pid -> Process]
        BY <1>0, <2>1, <2>2 DEF Process
    <2> QED
        BY <1>1, <1>2, <1>8, <2>3, <2>4 DEF StartSpawn
<1>9. ASSUME NEW s \in Script, StartWritePid(s)
      PROVE  TypeOK' /\ LocalOK'
    <2>1. FilesOK
        BY <1>0, <1>9 DEF StartWritePid, TypeOK, Local
    <2> QED
        BY <1>0, <1>1, <1>3, <1>9, <2>1 DEF StartWritePid
<1>10. ASSUME NEW s \in Script, StopRead(s)
       PROVE  TypeOK' /\ LocalOK'
    <2>1. CASE state = NoFile
        BY <1>0, <1>1, <1>2, <1>3, <1>10, <2>1 DEF StopRead
    <2>2. CASE state # NoFile
        <3> DEFINE v == [local[s] EXCEPT !.config = state.config, !.pid = pidFile]
        <3>1. v \in Local /\ v.config = state.config /\ state.config \in Config
            BY <1>0, <2>2 DEF TypeOK, StateFile, Local
        <3>2. Goto(s, "stop_kill", v)
            BY <1>10, <2>2 DEF StopRead
        <3>3. PcOK
            BY <3>1, <3>2, GotoType DEF Label, Changing
        <3> QED
            BY <1>0, <1>1, <1>2, <1>10, <3>3 DEF StopRead
    <2> QED
        BY <2>1, <2>2
<1>11. ASSUME NEW s \in Script, AlreadyStopped(s) \/ VerifyEvents(s)
       PROVE  TypeOK' /\ LocalOK'
    BY <1>0, <1>1, <1>2, <1>3, <1>11 DEF AlreadyStopped, VerifyEvents
<1>12. ASSUME NEW s \in Script, StopArchive(s)
       PROVE  TypeOK' /\ LocalOK'
    <2>1. FilesOK
        <3>1. NoFile \in StateFile
            BY DEF NoFile, StateFile
        <3> QED
            BY <1>12, <3>1 DEF StopArchive, TypeOK
    <2>2. local[s] \in Local /\ local[s].config \in Config
        BY <1>0, <1>12 DEF StopArchive, LocalOK
    <2>3. PcOK
        BY <1>3, <1>12, <2>2, GotoType DEF StopArchive, Label, Changing
    <2> QED
        BY <1>0, <1>1, <1>12, <2>1, <2>3 DEF StopArchive
<1>13. ASSUME NEW s \in Script, StopWriteState(s)
       PROVE  TypeOK' /\ LocalOK'
    <2>1. local[s].config \in Config
        BY <1>13 DEF StopWriteState, LocalOK
    <2>2. FilesOK
        BY <1>13, <2>1, ScriptsAssumption DEF StopWriteState, TypeOK, StateFile
    <2> QED
        BY <1>0, <1>1, <1>3, <1>13, <2>2 DEF StopWriteState
<1>14. ASSUME NEW s \in Script, VerifyRead(s)
       PROVE  TypeOK' /\ LocalOK'
    <2> DEFINE v == [local[s] EXCEPT !.config = state.config, !.pid = pidFile]
    <2>1. Return(s) \/ (Goto(s, "verify_events", v) /\ pidFile # NoPid)
        BY <1>14 DEF VerifyRead, Alive
    <2>2. v \in Local /\ v.pid = pidFile
        BY <1>0 DEF TypeOK, StateFile, Local
    <2>3. PcOK
        <3>1. CASE Return(s)
            BY <1>3, <3>1
        <3>2. CASE Goto(s, "verify_events", v) /\ pidFile # NoPid
            BY <2>2, <3>2, GotoType DEF Label, TypeOK
        <3> QED
            BY <2>1, <3>1, <3>2
    <2> QED
        BY <1>0, <1>1, <1>2, <1>14, <2>3 DEF VerifyRead
<1>15. ASSUME NEW s \in Script, ScriptDies(s)
       PROVE  TypeOK' /\ LocalOK'
    <2>1. PcOK
        BY <1>0, <1>15, IdleLocalType DEF ScriptDies, HalfDone, Label, LocalOK, TypeOK
    <2> QED
        BY <1>0, <1>1, <1>2, <1>15, <2>1 DEF ScriptDies
<1>16. ASSUME NEW p \in Pid,
              RunnerBoots(p) \/ RunnerEnds(p) \/ RunnerDies(p) \/ OtherProcess(p) \/ Beat(p)
       PROVE  TypeOK' /\ LocalOK'
    <2>1. proc' \in [Pid -> Process]
        BY <1>0, <1>16 DEF RunnerBoots, RunnerEnds, RunnerDies, OtherProcess, Beat, Process, Gone, Other
    <2>2. FilesOK
        BY <1>16 DEF RunnerBoots, RunnerEnds, RunnerDies, OtherProcess, Beat, files, history, TypeOK
    <2>3. PcOK
        BY <1>0, <1>16
        DEF RunnerBoots, RunnerEnds, RunnerDies, OtherProcess, Beat, scripts, history, TypeOK, LocalOK
    <2> QED
        BY <1>1, <2>1, <2>2, <2>3
<1>17. CASE Reboot
    <2>1. PcOK
        BY <1>17, IdleLocalType DEF Reboot, HalfDone, Label, LocalOK, TypeOK
    <2>2. proc' \in [Pid -> Process]
        BY <1>17 DEF Reboot, Process, Gone
    <2> QED
        BY <1>1, <1>2, <1>17, <2>1, <2>2 DEF Reboot
<1>18. CASE UNCHANGED vars
    BY <1>18 DEF vars, files, scripts, history, TypeOK, LocalOK
<1> QED
    BY <1>4, <1>5, <1>6, <1>7, <1>8, <1>9, <1>10, <1>11, <1>12, <1>13, <1>14, <1>15, <1>16,
       <1>17, <1>18
    DEF Next, Begin, Continue, StopBegin, VerifyBegin, StartKill, StopKill

-----------------------------------------------------------------------------
(* One changing script, and what it knows of the files. *)

LEMMA ScriptGoes ==
  ASSUME NEW s \in Script, Begin(s) \/ Continue(s)
  PROVE  \E l, v : Goto(s, l, v)
  BY DEF Begin, Continue, StartReadPid, StopBegin, VerifyBegin, ReadEnabled, StartKill,
         StartWriteState, StartSpawn, StartWritePid, StopRead, StopKill, AlreadyStopped, StopArchive,
         StopWriteState, VerifyRead, VerifyEvents, KillRecorded, Return

(* The steps that are not a script's own leave the scripts where they are, or *)
(* idle.                                                                      *)
LEMMA OthersLeaveScripts ==
  ASSUME TypeOK, LocalOK, [Next]_vars
  PROVE  \/ \E s \in Script : Begin(s) \/ Continue(s)
         \/ /\ \A u \in Script : \/ pc'[u] = pc[u] /\ local'[u] = local[u]
                                 \/ pc'[u] = "idle"
            /\ incidents \subseteq incidents'
            /\ UNCHANGED <<state, archive, pidFile, written>>
  BY DEF Next, vars, files, scripts, history, ScriptDies, Reboot, RunnerBoots, Beat, RunnerEnds,
         RunnerDies, OtherProcess, TypeOK, LocalOK

(* What went wrong is not forgotten. *)
LEMMA IncidentsStay ==
  ASSUME TypeOK, LocalOK, [Next]_vars
  PROVE  incidents \subseteq incidents'
  BY ScriptGoes, GotoEffect, OthersLeaveScripts

LEMMA OneChangingStays ==
  ASSUME TypeOK, LocalOK, OneChanging, [Next]_vars
  PROVE  OneChanging'
<1> SUFFICES ASSUME "overlap" \notin incidents',
                    NEW t \in Script, NEW u \in Script, {pc'[t], pc'[u]} \subseteq Changing
             PROVE  t = u
    BY DEF OneChanging
<1>1. ASSUME NEW s \in Script, Begin(s) \/ Continue(s)
      PROVE  t = u
    <2>1. PICK l, v : Goto(s, l, v)
        BY <1>1, ScriptGoes
    <2>2. /\ \A w \in Script \ {s} : pc'[w] = pc[w]
          /\ "overlap" \notin incidents
          /\ pc'[s] \in Changing => \A w \in Script \ {s} : pc[w] \notin Changing
        BY <2>1, GotoEffect
    <2> QED
        BY <2>2 DEF OneChanging
<1>2. CASE \A w \in Script : pc'[w] = pc[w] \/ pc'[w] = "idle"
    BY <1>2, IncidentsStay DEF OneChanging, Changing
<1> QED
    BY <1>1, <1>2, OthersLeaveScripts

(* While a changing script makes a step, no other is changing anything. *)
LEMMA Exclusive ==
  ASSUME TypeOK, LocalOK, OneChanging, NEW s \in Script, pc[s] \in Changing,
         NEW l, NEW v, Goto(s, l, v), "overlap" \notin incidents'
  PROVE  \A u \in Script \ {s} : pc[u] \notin Changing /\ pc'[u] \notin Changing
  BY GotoEffect DEF OneChanging

LEMMA FilesKnownStays ==
  ASSUME TypeOK, LocalOK, OneChanging, FilesKnown, [Next]_vars
  PROVE  FilesKnown'
<1> SUFFICES ASSUME "overlap" \notin incidents', NEW t \in Script
             PROVE  FileKnown(t)'
    BY DEF FilesKnown
<1>0. ASSUME pc'[t] \notin Changing
      PROVE  FileKnown(t)'
    BY <1>0 DEF FileKnown, Changing
<1>1. ASSUME "overlap" \notin incidents, UNCHANGED <<state, archive, pidFile>>,
             pc'[t] = pc[t], local'[t] = local[t]
      PROVE  FileKnown(t)'
    BY <1>1 DEF FilesKnown, FileKnown
<1>2. ASSUME NEW s \in Script, Begin(s) \/ Continue(s)
      PROVE  FileKnown(t)'
    <2>1. PICK l, v : Goto(s, l, v)
        BY <1>2, ScriptGoes
    <2>2. /\ "overlap" \notin incidents
          /\ t # s => pc'[t] = pc[t] /\ local'[t] = local[t]
          /\ t # s /\ pc[s] \in Changing => pc'[t] \notin Changing
        BY <2>1, GotoEffect, Exclusive
    <2>3. FileKnown(s) /\ local[s] \in Local /\ state \in StateFile
        BY <2>2 DEF FilesKnown, LocalOK, TypeOK
    <2>4. CASE t # s
        <3>1. pc[s] \in Changing \/ UNCHANGED <<state, archive, pidFile>>
            BY <1>2 DEF Begin, Continue, Changing, files, StartReadPid, StopBegin, VerifyBegin,
                   ReadEnabled, StartKill, StartWriteState, StartSpawn, StartWritePid, StopRead, StopKill,
                   AlreadyStopped, StopArchive, StopWriteState, VerifyRead, VerifyEvents
        <3> QED
            BY <1>0, <1>1, <2>2, <2>4, <3>1
    <2>5. CASE t = s /\ pc'[s] \in Changing
        <3>1. CASE StartReadPid(s)
            <4>1. PICK c : Goto(s, "start_kill", [IdleLocal EXCEPT !.config = c, !.pid = pidFile])
                BY <3>1 DEF StartReadPid
            <4> DEFINE w == [IdleLocal EXCEPT !.config = c, !.pid = pidFile]
            <4>2. w.pid = pidFile
                BY DEF IdleLocal
            <4>3. pc'[s] = "start_kill" /\ local'[s] = w
                BY <4>1, GotoEffect
            <4> QED
                BY <2>5, <3>1, <4>2, <4>3 DEF FileKnown, StartReadPid, files
        <3>2. CASE StopBegin(s)
            BY <2>5, <3>2, GotoEffect DEF StopBegin, ReadEnabled, FileKnown, IdleLocal, files
        <3>3. CASE VerifyBegin(s) \/ VerifyRead(s) \/ VerifyEvents(s) \/ StartWritePid(s)
                   \/ AlreadyStopped(s) \/ StopWriteState(s)
            BY <2>5, <3>3, GotoEffect
            DEF VerifyBegin, VerifyRead, VerifyEvents, StartWritePid, AlreadyStopped, StopWriteState,
                ReadEnabled, Return, Changing
        <3>4. CASE StartKill(s)
            <4>1. pc'[s] = "start_write"
                BY <2>5, <3>4, GotoEffect DEF StartKill, KillRecorded, Return, Changing
            <4> QED
                BY <2>5, <4>1 DEF FileKnown
        <3>5. CASE StartWriteState(s)
            <4>1. pc'[s] = "start_spawn" /\ local'[s] = local[s]
                BY <3>5, GotoEffect DEF StartWriteState
            <4> QED
                BY <2>5, <3>5, <4>1 DEF StartWriteState, FileKnown
        <3>6. CASE StartSpawn(s)
            <4>1. PICK p : Goto(s, "start_pid", [local[s] EXCEPT !.pid = p])
                BY <3>6 DEF StartSpawn
            <4>2. pc'[s] = "start_pid" /\ local'[s].config = local[s].config /\ state' = state
                BY <2>3, <3>6, <4>1, GotoEffect DEF StartSpawn, files, Local
            <4> QED
                BY <2>3, <2>5, <3>6, <4>2 DEF FileKnown, StartSpawn
        <3>7. CASE StopRead(s)
            <4> DEFINE w == [local[s] EXCEPT !.config = state.config, !.pid = pidFile]
            <4>1. state # NoFile /\ Goto(s, "stop_kill", w)
                BY <2>5, <3>7, GotoEffect DEF StopRead, Return, Changing
            <4>2. w.config = state.config /\ w.pid = pidFile /\ w.enabled = local[s].enabled
                BY <2>3 DEF Local
            <4>3. pc'[s] = "stop_kill" /\ local'[s] = w
                BY <4>1, GotoEffect
            <4> QED
                BY <2>3, <2>5, <3>7, <4>1, <4>2, <4>3 DEF FileKnown, StopRead, files
        <3>8. CASE StopKill(s)
            <4> DEFINE w == [local[s] EXCEPT !.pid = NoPid]
            <4>1. Goto(s, "stop_archive", w)
                BY <2>5, <3>8, GotoEffect DEF StopKill, KillRecorded, Return, Changing
            <4>2. w.config = local[s].config /\ w.enabled = local[s].enabled
                BY <2>3 DEF Local
            <4>3. pc'[s] = "stop_archive" /\ local'[s] = w
                BY <4>1, GotoEffect
            <4> QED
                BY <2>3, <2>5, <3>8, <4>2, <4>3 DEF FileKnown, StopKill, files
        <3>9. CASE StopArchive(s)
            <4>1. /\ archive' = state /\ state' = NoFile /\ Goto(s, "stop_write", local[s])
                  /\ pc[s] = "stop_archive" /\ local[s].enabled
                BY <2>5, <3>9, GotoEffect DEF StopArchive, Return, Changing
            <4>2. pc'[s] = "stop_write" /\ local'[s] = local[s]
                BY <4>1, GotoEffect
            <4>3. state.enabled /\ state.config = local[s].config /\ state.enabled \in BOOLEAN
                BY <2>3, <4>1 DEF FileKnown, StateFile
            <4>4. state = [enabled |-> TRUE, config |-> local[s].config]
                BY <2>3, <4>3 DEF StateFile
            <4> QED
                BY <2>5, <4>1, <4>2, <4>4 DEF FileKnown
        <3> QED
            BY <1>2, <3>1, <3>2, <3>3, <3>4, <3>5, <3>6, <3>7, <3>8, <3>9 DEF Begin, Continue
    <2> QED
        BY <1>0, <2>4, <2>5
<1> QED
    BY <1>0, <1>1, <1>2, OthersLeaveScripts DEF Changing

-----------------------------------------------------------------------------
(* The runners. *)

(* No runner is there that nobody told to stop. *)
Quiet == {"start_write", "start_spawn", "stop_archive", "stop_write"}

(* Only StartSpawn makes a runner. *)
LEMMA RunnersOnlySpawned ==
  ASSUME TypeOK, LocalOK, [Next]_vars
  PROVE  \/ \E s \in Script : StartSpawn(s)
         \/ \A p \in Pid : Running(p)' => Running(p)
<1>1. proc \in [Pid -> Process]
    BY DEF TypeOK, Process
<1>2. ASSUME NEW s \in Script, StartKill(s) \/ StopKill(s)
      PROVE  \A p \in Pid : Running(p)' => Running(p)
    BY <1>2, KillEffect DEF StartKill, StopKill
<1>3. ASSUME NEW p \in Pid, RunnerBoots(p) \/ Beat(p) \/ RunnerEnds(p) \/ RunnerDies(p) \/ OtherProcess(p)
      PROVE  \A q \in Pid : Running(q)' => Running(q)
    BY <1>1, <1>3 DEF RunnerBoots, Beat, RunnerEnds, RunnerDies, OtherProcess, Running, Gone, Other, Process
<1>4. ASSUME Reboot
      PROVE  \A q \in Pid : Running(q)' => Running(q)
    BY <1>4 DEF Reboot, Running, Gone
<1>5. ASSUME UNCHANGED proc
      PROVE  \A q \in Pid : Running(q)' => Running(q)
    BY <1>5 DEF Running
<1>6. \/ \E s \in Script : StartSpawn(s) \/ StartKill(s) \/ StopKill(s)
      \/ \E p \in Pid : RunnerBoots(p) \/ Beat(p) \/ RunnerEnds(p) \/ RunnerDies(p) \/ OtherProcess(p)
      \/ Reboot
      \/ UNCHANGED proc
    BY DEF Next, vars, Begin, Continue, StartReadPid, StopBegin, VerifyBegin, ReadEnabled,
           StartWriteState, StartWritePid, StopRead, AlreadyStopped, StopArchive,
           StopWriteState, VerifyRead, VerifyEvents, ScriptDies
<1> QED
    BY <1>2, <1>3, <1>4, <1>5, <1>6

(* Where a step takes the scripts. *)
LEMMA ScriptMoves ==
  ASSUME TypeOK, LocalOK, [Next]_vars
  PROVE  \/ \E s \in Script : StartSpawn(s) \/ StartWritePid(s) \/ StartKill(s) \/ StopKill(s)
         \/ "orphan" \in incidents'
         \/ Reboot
         \/ /\ pidFile' = pidFile
            /\ \A u \in Script :
                  /\ pc'[u] \in Quiet => pc[u] \in Quiet
                  /\ pc[u] = "start_pid" <=> pc'[u] = "start_pid"
                  /\ pc'[u] = "start_pid" => local'[u] = local[u]
<1> DEFINE Calm == /\ pidFile' = pidFile
                   /\ \A u \in Script :
                         /\ pc'[u] \in Quiet => pc[u] \in Quiet
                         /\ pc[u] = "start_pid" <=> pc'[u] = "start_pid"
                         /\ pc'[u] = "start_pid" => local'[u] = local[u]
<1>1. ASSUME NEW s \in Script, NEW l, NEW v, Goto(s, l, v), pidFile' = pidFile,
             pc[s] # "start_pid", l # "start_pid", l \in Quiet => pc[s] \in Quiet
      PROVE  Calm
    BY <1>1, GotoEffect
<1>2. ASSUME NEW s \in Script,
             \/ StartReadPid(s) \/ StopBegin(s) \/ VerifyBegin(s) \/ StartWriteState(s)
             \/ StopRead(s) \/ AlreadyStopped(s) \/ StopArchive(s) \/ StopWriteState(s)
             \/ VerifyRead(s) \/ VerifyEvents(s)
      PROVE  Calm
    <2>1. CASE StartReadPid(s)
        BY <1>1, <2>1 DEF StartReadPid, files, Quiet
    <2>2. CASE StopBegin(s) \/ VerifyBegin(s)
        BY <1>1, <2>2 DEF StopBegin, VerifyBegin, ReadEnabled, files, Quiet
    <2>3. CASE StartWriteState(s) \/ AlreadyStopped(s) \/ StopWriteState(s) \/ VerifyEvents(s)
        BY <1>1, <2>3
        DEF StartWriteState, AlreadyStopped, StopWriteState, VerifyEvents, Return, files, Quiet
    <2>4. CASE StopRead(s)
        BY <1>1, <2>4 DEF StopRead, Return, files, Quiet
    <2>5. CASE StopArchive(s)
        BY <1>1, <2>5 DEF StopArchive, Return, Quiet
    <2>6. CASE VerifyRead(s)
        BY <1>1, <2>6 DEF VerifyRead, Return, files, Quiet
    <2> QED
        BY <1>2, <2>1, <2>2, <2>3, <2>4, <2>5, <2>6
<1>3. ASSUME NEW s \in Script, ScriptDies(s)
      PROVE  "orphan" \in incidents' \/ Calm
    BY <1>3 DEF ScriptDies, HalfDone, Quiet, TypeOK, LocalOK, files
<1>4. ASSUME UNCHANGED <<pidFile, pc, local>>
      PROVE  Calm
    BY <1>4
<1>5. \/ \E s \in Script : Begin(s) \/ Continue(s) \/ ScriptDies(s)
      \/ Reboot
      \/ UNCHANGED <<pidFile, pc, local>>
    BY DEF Next, vars, files, scripts, history, RunnerBoots, Beat, RunnerEnds, RunnerDies, OtherProcess
<1> QED
    BY <1>2, <1>3, <1>4, <1>5 DEF Begin, Continue

LEMMA RunnersKnownStays ==
  ASSUME TypeOK, LocalOK, OneChanging, FilesKnown, RunnersKnown, [Next]_vars
  PROVE  RunnersKnown'
<1> SUFFICES ASSUME ~Disturbed'
             PROVE  RunnersKnown'
    BY DEF RunnersKnown
<1>0. local \in [Script -> Local] /\ proc \in [Pid -> Process]
    BY DEF LocalOK, TypeOK, Process
<1>1. /\ ~Disturbed /\ "overlap" \notin incidents' /\ "overlap" \notin incidents
      /\ "orphan" \notin incidents'
    BY IncidentsStay DEF Disturbed
<1>2. /\ \A s \in Script : \A p \in Pid :
            Running(p) => pc[s] \notin Quiet /\ (pc[s] = "start_pid" => p = local[s].pid)
      /\ (\A s \in Script : pc[s] # "start_pid") => \A p \in Pid : Running(p) => p = pidFile
    BY <1>1 DEF RunnersKnown, Quiet
<1>3. ASSUME \A p \in Pid : Running(p)' => FALSE
      PROVE  RunnersKnown'
    BY <1>3 DEF RunnersKnown
<1>4. ASSUME NEW s \in Script, StartKill(s) \/ StopKill(s)
      PROVE  RunnersKnown'
    <2>1. /\ pc[s] \in {"start_kill", "stop_kill"} /\ pidFile' = pidFile
          /\ local[s].pid = pidFile
        BY <1>1, <1>4 DEF StartKill, StopKill, files, FilesKnown, FileKnown
    <2>2. PICK next \in {"start_write", "stop_archive"} : KillRecorded(s, next)
        BY <1>4 DEF StartKill, StopKill
    <2>3. /\ \A p \in Pid : Running(p)' => Running(p) /\ p # local[s].pid
          /\ \E l, v : Goto(s, l, v)
        BY <2>2, KillEffect DEF Return
    <2>4. \A u \in Script : pc[u] # "start_pid"
        BY <1>1, <2>1 DEF OneChanging, Changing
    <2> QED
        BY <1>2, <1>3, <2>1, <2>3, <2>4
<1>5. ASSUME NEW s \in Script, StartSpawn(s)
      PROVE  RunnersKnown'
    <2>1. PICK p \in Pid : /\ proc' = [proc EXCEPT ![p] = [is |-> "booting", config |-> local[s].config]]
                           /\ Goto(s, "start_pid", [local[s] EXCEPT !.pid = p])
        BY <1>5 DEF StartSpawn
    <2> DEFINE v == [local[s] EXCEPT !.pid = p]
    <2>2. v.pid = p
        BY <1>0 DEF Local
    <2>3. pc'[s] = "start_pid" /\ local'[s] = v
        BY <2>1, GotoEffect
    <2>4. pc[s] = "start_spawn" /\ \A u \in Script \ {s} : pc'[u] \notin Changing
        BY <1>1, <1>5, <2>1, Exclusive DEF StartSpawn, Changing
    <2>5. \A q \in Pid : Running(q)' => q = p
        BY <1>0, <1>2, <2>1, <2>4 DEF Running, Quiet
    <2> QED
        BY <2>2, <2>3, <2>4, <2>5 DEF RunnersKnown, Changing
<1>6. ASSUME NEW s \in Script, StartWritePid(s)
      PROVE  RunnersKnown'
    <2>1. pc'[s] = "idle" /\ pc[s] = "start_pid" /\ pidFile' = local[s].pid /\ proc' = proc
        BY <1>6, GotoEffect DEF StartWritePid, Return
    <2>2. \A u \in Script \ {s} : pc'[u] \notin Changing
        BY <1>1, <1>6, Exclusive DEF StartWritePid, Return, Changing
    <2>3. \A q \in Pid : Running(q)' => q = pidFile'
        BY <1>2, <2>1 DEF Running
    <2> QED
        BY <2>1, <2>2, <2>3 DEF RunnersKnown, Changing
<1>7. ASSUME Reboot
      PROVE  RunnersKnown'
    BY <1>3, <1>7 DEF Reboot, Running, Gone
<1>8. ASSUME \A p \in Pid : Running(p)' => Running(p), pidFile' = pidFile,
             \A u \in Script : /\ pc'[u] \in Quiet => pc[u] \in Quiet
                               /\ pc[u] = "start_pid" <=> pc'[u] = "start_pid"
                               /\ pc'[u] = "start_pid" => local'[u] = local[u]
      PROVE  RunnersKnown'
    BY <1>2, <1>8 DEF RunnersKnown, Quiet
<1> QED
    BY <1>1, <1>4, <1>5, <1>6, <1>7, <1>8, RunnersOnlySpawned, ScriptMoves

-----------------------------------------------------------------------------
(* The files against the runners and the history. *)

(* Three steps change the state file. *)
LEMMA StateSteps ==
  ASSUME [Next]_vars
  PROVE  \/ \E s \in Script : StartWriteState(s) \/ StopArchive(s) \/ StopWriteState(s)
         \/ UNCHANGED <<state, archive, written>>
  BY DEF Next, vars, files, history, Begin, Continue, StartReadPid, StopBegin, VerifyBegin, ReadEnabled,
         StartKill, StartSpawn, StartWritePid, StopRead, StopKill, AlreadyStopped, VerifyRead,
         VerifyEvents, ScriptDies, Reboot, RunnerBoots, Beat, RunnerEnds, RunnerDies, OtherProcess

(* What the two stop steps find, when no script overlapped with them. *)
LEMMA StopFinds ==
  ASSUME TypeOK, LocalOK, FilesKnown, "overlap" \notin incidents, NEW s \in Script
  PROVE  /\ StopArchive(s) => /\ archive' = [enabled |-> TRUE, config |-> state.config]
                              /\ state # NoFile /\ state' = NoFile /\ written' = written
         /\ StopWriteState(s) => /\ state = NoFile
                                 /\ archive = [enabled |-> TRUE, config |-> local[s].config]
<1>1. FileKnown(s) /\ state \in StateFile
    BY DEF FilesKnown, TypeOK
<1>2. ASSUME StopArchive(s)
      PROVE  /\ archive' = [enabled |-> TRUE, config |-> state.config]
             /\ state # NoFile /\ state' = NoFile /\ written' = written
    <2>1. state # NoFile /\ local[s].enabled = state.enabled /\ local[s].enabled
        BY <1>1, <1>2 DEF StopArchive, FileKnown
    <2>2. state = [enabled |-> TRUE, config |-> state.config]
        BY <1>1, <2>1 DEF StateFile
    <2> QED
        BY <1>2, <2>1, <2>2 DEF StopArchive
<1>3. ASSUME StopWriteState(s)
      PROVE  state = NoFile /\ archive = [enabled |-> TRUE, config |-> local[s].config]
    BY <1>1, <1>3 DEF StopWriteState, FileKnown
<1> QED
    BY <1>2, <1>3

(* A state file that a script writes is one. *)
LEMMA FileWritten ==
  ASSUME NEW e, NEW c \in Config
  PROVE  [enabled |-> e, config |-> c] # NoFile
  BY ScriptsAssumption DEF NoFile

LEMMA DisabledStays ==
  ASSUME TypeOK, LocalOK, FilesKnown, RunnersKnown, DisabledMeansStopped, [Next]_vars
  PROVE  DisabledMeansStopped'
<1> SUFFICES ASSUME ~Disturbed', state' # NoFile, ~state'.enabled, NEW p \in Pid
             PROVE  ~Running(p)'
    BY DEF DisabledMeansStopped
<1>1. ~Disturbed /\ "overlap" \notin incidents
    BY IncidentsStay DEF Disturbed
<1>2. ASSUME NEW s \in Script, StartSpawn(s)
      PROVE  FALSE
    BY <1>1, <1>2 DEF StartSpawn, files, FilesKnown, FileKnown
<1>3. ASSUME NEW s \in Script, StartWriteState(s) \/ StopArchive(s) \/ StopWriteState(s)
      PROVE  ~Running(p)'
    <2>1. proc' = proc /\ pc[s] \in Quiet
        BY <1>3 DEF StartWriteState, StopArchive, StopWriteState, Quiet
    <2> QED
        BY <1>1, <2>1 DEF RunnersKnown, Quiet, Running
<1>4. CASE UNCHANGED state
    BY <1>1, <1>2, <1>4, RunnersOnlySpawned DEF DisabledMeansStopped
<1> QED
    BY <1>3, <1>4, StateSteps

LEMMA ConfigurationStays ==
  ASSUME TypeOK, LocalOK, FilesKnown, ConfigurationKept, [Next]_vars
  PROVE  ConfigurationKept'
<1> SUFFICES ASSUME written' # NoConfig, "overlap" \notin incidents'
             PROVE  IF state' # NoFile THEN state'.config = written'
                    ELSE archive' = [enabled |-> TRUE, config |-> written']
    BY DEF ConfigurationKept
<1>1. "overlap" \notin incidents
    BY IncidentsStay
<1>2. ASSUME NEW s \in Script, StartWriteState(s)
      PROVE  state' # NoFile /\ state'.config = written'
    BY <1>2, FileWritten DEF StartWriteState, LocalOK
<1>3. ASSUME NEW s \in Script, StopArchive(s)
      PROVE  state' = NoFile /\ archive' = [enabled |-> TRUE, config |-> written']
    BY <1>1, <1>3, StopFinds DEF ConfigurationKept
<1>4. ASSUME NEW s \in Script, StopWriteState(s)
      PROVE  state' # NoFile /\ state'.config = written'
    <2>1. local[s].config \in Config /\ written' = written /\ state'.config = local[s].config
        BY <1>4 DEF StopWriteState, LocalOK
    <2>2. archive.config = written /\ archive.config = local[s].config
        BY <1>1, <1>4, <2>1, StopFinds DEF ConfigurationKept
    <2> QED
        BY <1>4, <2>1, <2>2, FileWritten DEF StopWriteState
<1> QED
    BY <1>1, <1>2, <1>3, <1>4, StateSteps DEF ConfigurationKept

LEMMA StateFileStaysStays ==
  ASSUME TypeOK, LocalOK, StateFileStays, [Next]_vars
  PROVE  StateFileStays'
<1> SUFFICES ASSUME state' = NoFile, written' # NoConfig, "no_state" \notin incidents'
             PROVE  \E s \in Script : pc'[s] = "stop_write"
    BY DEF StateFileStays
<1>1. "no_state" \notin incidents
    BY IncidentsStay
<1>2. ASSUME NEW s \in Script, StartWriteState(s) \/ StopWriteState(s)
      PROVE  FALSE
    BY <1>2, FileWritten DEF StartWriteState, StopWriteState, LocalOK
<1>3. ASSUME NEW s \in Script, StopArchive(s), state # NoFile
      PROVE  pc'[s] = "stop_write"
    BY <1>3, GotoEffect DEF StopArchive
<1>4. ASSUME state = NoFile, written' = written
      PROVE  \E s \in Script : pc'[s] = "stop_write"
    <2>1. PICK u \in Script : pc[u] = "stop_write"
        BY <1>1, <1>4 DEF StateFileStays
    <2>2. ASSUME NEW s \in Script, Begin(s) \/ Continue(s)
          PROVE  pc'[u] = "stop_write"
        <3>1. s # u
            BY <1>2, <2>1, <2>2
            DEF Begin, Continue, StartReadPid, StopBegin, VerifyBegin, StartKill, StartWriteState, StartSpawn,
                StartWritePid, StopRead, StopKill, AlreadyStopped, StopArchive, VerifyRead, VerifyEvents
        <3> QED
            BY <2>1, <2>2, <3>1, ScriptGoes, GotoEffect
    <2>3. ASSUME NEW s \in Script, ScriptDies(s)
          PROVE  pc'[u] = "stop_write"
        BY <2>1, <2>3 DEF ScriptDies, HalfDone, TypeOK
    <2>4. ASSUME Reboot
          PROVE  FALSE
        <3>1. HalfDone(pc[u]) = {"no_state"}
            BY <2>1 DEF HalfDone
        <3> DEFINE Left == UNION {HalfDone(pc[s]) : s \in Script}
        <3>2. "no_state" \in Left
            BY <3>1
        <3>3. incidents' = incidents \cup (Left \ {"orphan"})
            BY <2>4 DEF Reboot
        <3> HIDE DEF Left
        <3> QED
            BY <3>2, <3>3
    <2>5. ASSUME UNCHANGED pc
          PROVE  pc'[u] = "stop_write"
        BY <2>1, <2>5
    <2> QED
        BY <2>2, <2>3, <2>4, <2>5
        DEF Next, vars, scripts, RunnerBoots, Beat, RunnerEnds, RunnerDies, OtherProcess
<1> QED
    BY <1>2, <1>3, <1>4, StateSteps DEF StopArchive

(* The pid file's runner is that of the state file.  The processes' own steps  *)
(* and deaths do not make a current runner another.                           *)
LEMMA CurrentStays ==
  ASSUME TypeOK, NEW p \in Pid \cup {NoPid}, Current(p), state' = state,
         \/ UNCHANGED proc
         \/ Reboot
         \/ \E q \in Pid : RunnerBoots(q) \/ RunnerEnds(q) \/ RunnerDies(q) \/ OtherProcess(q)
  PROVE  Current(p)'
<1>0. proc \in [Pid -> Process]
    BY DEF TypeOK, Process
<1>1. CASE UNCHANGED proc
    BY <1>1 DEF Current, Running
<1>2. CASE Reboot
    BY <1>2 DEF Current, Reboot, Gone
<1>3. ASSUME NEW q \in Pid, RunnerBoots(q) \/ RunnerEnds(q) \/ RunnerDies(q) \/ OtherProcess(q)
      PROVE  Current(p)'
    BY <1>0, <1>3
    DEF RunnerBoots, RunnerEnds, RunnerDies, OtherProcess, Current, Running, Gone, Other, Process
<1> QED
    BY <1>1, <1>2, <1>3

(* Between its first and its last look at the pid file a changing script      *)
(* leaves nothing to be said about it.                                        *)
Looking == {"start_kill", "stop_read", "stop_kill"}

LEMMA RunnerCurrentStays ==
  ASSUME TypeOK, LocalOK, OneChanging, FilesKnown, RunnerCurrent, [Next]_vars
  PROVE  RunnerCurrent'
<1> SUFFICES ASSUME incidents' = {}
             PROVE  RunnerCurrent'
    BY DEF RunnerCurrent
<1> DEFINE OnlyLooking == \A s \in Script : pc[s] \in Changing => pc[s] \in Looking
<1>0. /\ local \in [Script -> Local] /\ proc \in [Pid -> Process]
      /\ pidFile \in Pid \cup {NoPid} /\ state \in StateFile
    BY DEF LocalOK, TypeOK, Process
<1>1. /\ incidents = {} /\ "overlap" \notin incidents'
      /\ \A s \in Script : FileKnown(s)
      /\ \A s \in Script : pc[s] = "start_pid" => Current(local[s].pid)
      /\ state.enabled /\ OnlyLooking => Current(pidFile)
    BY IncidentsStay DEF RunnerCurrent, FilesKnown, Looking
<1>2. ASSUME \A s \in Script : pc'[s] = "start_pid" => Current(local[s].pid)',
             state'.enabled /\ OnlyLooking' => Current(pidFile)'
      PROVE  RunnerCurrent'
    BY <1>2 DEF RunnerCurrent, Looking
<1>3. ASSUME NEW s \in Script, pc[s] \in Changing, NEW l, NEW v, Goto(s, l, v)
      PROVE  /\ \A u \in Script \ {s} : pc'[u] # "start_pid"
             /\ pc'[s] = l /\ local'[s] = v
    BY <1>1, <1>3, Exclusive, GotoEffect DEF Changing
(* Nothing changes that the pid file's runner depends on. *)
<1>4. ASSUME UNCHANGED <<state, pidFile>>,
             \A p \in Pid \cup {NoPid} : Current(p) => Current(p)',
             \A u \in Script : /\ pc'[u] = "start_pid" => pc[u] = "start_pid" /\ local'[u] = local[u]
                               /\ pc[u] \in Changing \ Looking => pc'[u] \in Changing \ Looking
      PROVE  RunnerCurrent'
    <2>1. ASSUME NEW u \in Script, pc'[u] = "start_pid"
          PROVE  Current(local[u].pid)'
        <3>1. local[u].pid \in Pid \cup {NoPid} /\ Current(local[u].pid) /\ local'[u] = local[u]
            BY <1>0, <1>1, <1>4, <2>1 DEF Local
        <3>2. PICK p \in Pid \cup {NoPid} : p = local[u].pid
            BY <3>1
        <3>3. Current(p)'
            BY <1>4, <3>1, <3>2
        <3> QED
            BY <3>1, <3>2, <3>3 DEF Current, Running
    <2>2. OnlyLooking' => OnlyLooking
        BY <1>4
    <2>3. PICK p \in Pid \cup {NoPid} : p = pidFile
        BY <1>0
    <2>4. state'.enabled /\ OnlyLooking' => Current(pidFile)'
        BY <1>1, <1>4, <2>2, <2>3 DEF Current, Running
    <2> QED
        BY <1>2, <2>1, <2>4
<1>5. ASSUME NEW s \in Script,
             \/ StartReadPid(s) \/ StopBegin(s) \/ VerifyBegin(s) \/ StopRead(s)
             \/ VerifyRead(s) \/ VerifyEvents(s)
      PROVE  RunnerCurrent'
    <2>1. /\ UNCHANGED <<files, proc>>
          /\ pc[s] \notin (Changing \ Looking) /\ pc'[s] # "start_pid"
          /\ \E l, v : Goto(s, l, v)
        <3>1. CASE StartReadPid(s) \/ StopBegin(s) \/ VerifyBegin(s)
            BY <3>1, GotoEffect DEF StartReadPid, StopBegin, VerifyBegin, ReadEnabled, Changing
        <3>2. CASE StopRead(s)
            BY <3>2, GotoEffect DEF StopRead, Return, Looking
        <3>3. CASE VerifyRead(s) \/ VerifyEvents(s)
            BY <3>3, GotoEffect DEF VerifyRead, VerifyEvents, Return, Changing
        <3> QED
            BY <1>5, <3>1, <3>2, <3>3
    <2>2. \A p \in Pid \cup {NoPid} : Current(p) => Current(p)'
        BY <2>1 DEF Current, Running, files
    <2> QED
        BY <1>4, <2>1, <2>2, GotoEffect DEF files
<1>6. ASSUME NEW s \in Script, StartKill(s) \/ StopKill(s)
      PROVE  RunnerCurrent'
    <2>1. /\ pc[s] \in Changing /\ local[s].pid = pidFile /\ UNCHANGED files
        BY <1>1, <1>6 DEF StartKill, StopKill, Changing, FileKnown
    <2>2. PICK next \in {"start_write", "stop_archive"} : KillRecorded(s, next)
        BY <1>6 DEF StartKill, StopKill
    <2>3. CASE Goto(s, next, [local[s] EXCEPT !.pid = NoPid])
        <3>1. pc'[s] = next /\ \A u \in Script \ {s} : pc'[u] # "start_pid"
            BY <1>3, <2>1, <2>3
        <3> QED
            BY <1>2, <3>1 DEF Changing, Looking
    <2>4. CASE Return(s) /\ local[s].pid \in Pid /\ proc'[local[s].pid].is = "gone"
        <3>1. pc'[s] = "idle" /\ \A u \in Script \ {s} : pc'[u] # "start_pid"
            BY <1>3, <2>1, <2>4 DEF Return
        <3>2. Current(pidFile)'
            BY <2>1, <2>4 DEF Current, files
        <3> QED
            BY <1>2, <3>1, <3>2
    <2> QED
        BY <2>2, <2>3, <2>4, KillEffect
<1>7. ASSUME NEW s \in Script, StartWriteState(s)
      PROVE  RunnerCurrent'
    <2>1. pc[s] \in Changing /\ Goto(s, "start_spawn", local[s])
        BY <1>7 DEF StartWriteState, Changing
    <2> QED
        BY <1>2, <1>3, <2>1 DEF Changing, Looking
<1>8. ASSUME NEW s \in Script, StartSpawn(s)
      PROVE  RunnerCurrent'
    <2>1. PICK p \in Pid : /\ proc' = [proc EXCEPT ![p] = [is |-> "booting", config |-> local[s].config]]
                           /\ Goto(s, "start_pid", [local[s] EXCEPT !.pid = p])
        BY <1>8 DEF StartSpawn
    <2> DEFINE v == [local[s] EXCEPT !.pid = p]
    <2>2. v.pid = p
        BY <1>0 DEF Local
    <2>3. pc[s] = "start_spawn" /\ state' = state /\ state.config = local[s].config
        BY <1>1, <1>8 DEF StartSpawn, files, FileKnown
    <2>4. pc'[s] = "start_pid" /\ local'[s] = v /\ \A u \in Script \ {s} : pc'[u] # "start_pid"
        BY <1>3, <2>1, <2>3 DEF Changing
    <2>5. proc'[p] = [is |-> "booting", config |-> local[s].config]
        BY <1>0, <2>1
    <2>6. Current(p)'
        BY <2>3, <2>5 DEF Current, Running
    <2>7. Current(local[s].pid)'
        BY <2>2, <2>4, <2>6 DEF Current, Running
    <2> QED
        BY <1>2, <2>4, <2>7 DEF Changing, Looking
<1>9. ASSUME NEW s \in Script, StartWritePid(s)
      PROVE  RunnerCurrent'
    <2>1. /\ pc[s] = "start_pid" /\ pidFile' = local[s].pid /\ Goto(s, "idle", IdleLocal)
          /\ UNCHANGED <<state, proc>>
        BY <1>9 DEF StartWritePid, Return
    <2>2. pc'[s] = "idle" /\ \A u \in Script \ {s} : pc'[u] # "start_pid"
        BY <1>3, <2>1 DEF Changing
    <2>3. Current(pidFile)'
        BY <1>1, <2>1 DEF Current, Running
    <2> QED
        BY <1>2, <2>2, <2>3
<1>10. ASSUME NEW s \in Script, AlreadyStopped(s) \/ StopWriteState(s)
       PROVE  RunnerCurrent'
    <2>1. pc[s] \in Changing /\ Goto(s, "idle", IdleLocal)
        BY <1>10 DEF AlreadyStopped, StopWriteState, Return, Changing
    <2>2. ~state'.enabled
        BY <1>1, <1>10 DEF AlreadyStopped, StopWriteState, files, FileKnown
    <2> QED
        BY <1>2, <1>3, <2>1, <2>2
<1>11. ASSUME NEW s \in Script, StopArchive(s)
       PROVE  RunnerCurrent'
    <2>1. pc[s] \in Changing /\ state' = NoFile
        BY <1>11 DEF StopArchive, Changing
    <2>2. pc'[s] # "start_pid" /\ \A u \in Script \ {s} : pc'[u] # "start_pid"
        BY <1>3, <1>11, <2>1 DEF StopArchive, Return
    <2> QED
        BY <1>2, <2>1, <2>2 DEF NoFile
<1>12. ASSUME NEW s \in Script, ScriptDies(s)
       PROVE  RunnerCurrent'
    <2>1. pc[s] \notin Changing
        BY <1>12 DEF ScriptDies, HalfDone, Changing
    <2>2. /\ pc'[s] = "idle" /\ \A u \in Script \ {s} : pc'[u] = pc[u] /\ local'[u] = local[u]
          /\ UNCHANGED <<files, proc>>
        BY <1>12 DEF ScriptDies, TypeOK, LocalOK
    <2>3. \A p \in Pid \cup {NoPid} : Current(p) => Current(p)'
        BY <2>2 DEF Current, Running, files
    <2> QED
        BY <1>4, <2>1, <2>2, <2>3 DEF files
<1>13. ASSUME Reboot
       PROVE  RunnerCurrent'
    <2>1. \A s \in Script : pc'[s] = "idle"
        BY <1>13 DEF Reboot
    <2>2. Current(pidFile)'
        BY <1>0, <1>13 DEF Reboot, Current, Gone, files
    <2> QED
        BY <1>2, <2>1, <2>2
<1>14. ASSUME NEW q \in Pid,
              RunnerBoots(q) \/ Beat(q) \/ RunnerEnds(q) \/ RunnerDies(q) \/ OtherProcess(q)
       PROVE  RunnerCurrent'
    <2>1. UNCHANGED <<state, pidFile, pc, local>>
        BY <1>14 DEF RunnerBoots, Beat, RunnerEnds, RunnerDies, OtherProcess, files, scripts
    <2>2. \A p \in Pid \cup {NoPid} : Current(p) => Current(p)'
        BY <1>14, <2>1, CurrentStays DEF Beat
    <2> QED
        BY <1>4, <2>1, <2>2
<1>15. CASE UNCHANGED vars
    BY <1>15 DEF vars, files, scripts, history, RunnerCurrent, Current, Running
<1> QED
    BY <1>5, <1>6, <1>7, <1>8, <1>9, <1>10, <1>11, <1>12, <1>13, <1>14, <1>15
    DEF Next, Begin, Continue

-----------------------------------------------------------------------------
(* The theorems. *)

LEMMA InitScripts == Init => ScriptsInv
<1> SUFFICES ASSUME Init
             PROVE  ScriptsInv
    OBVIOUS
<1>1. /\ state = NoFile /\ archive = NoFile /\ written = NoConfig
      /\ incidents = {} /\ pidFile = NoPid /\ logged = FALSE
      /\ pc = [s \in Script |-> "idle"] /\ local = [s \in Script |-> IdleLocal]
      /\ proc = [p \in Pid |-> Gone]
    BY DEF Init
<1>2. NoFile \in StateFile /\ Gone \in Process /\ ~NoFile.enabled
    BY DEF NoFile, StateFile, Gone, Process
<1>3. \A s \in Script : pc[s] = "idle"
    BY <1>1
<1>4. \A p \in Pid : ~Running(p)
    BY <1>1 DEF Running, Gone
<1>5. TypeOK
    BY <1>1, <1>2, <1>3 DEF TypeOK, Process, Label
<1>6. LocalOK
    BY <1>1, <1>3, IdleLocalType DEF LocalOK
<1>7. OneChanging /\ FilesKnown
    BY <1>3 DEF OneChanging, FilesKnown, FileKnown, Changing
<1>8. RunnersKnown /\ DisabledMeansStopped
    BY <1>4 DEF RunnersKnown, DisabledMeansStopped
<1>9. ConfigurationKept /\ StateFileStays
    BY <1>1 DEF ConfigurationKept, StateFileStays
<1>10. RunnerCurrent
    BY <1>1, <1>2, <1>3 DEF RunnerCurrent, Current
<1> QED
    BY <1>5, <1>6, <1>7, <1>8, <1>9, <1>10 DEF ScriptsInv

LEMMA NextScripts == ScriptsInv /\ [Next]_vars => ScriptsInv'
  BY NextType, OneChangingStays, FilesKnownStays, RunnersKnownStays, DisabledStays,
     ConfigurationStays, StateFileStaysStays, RunnerCurrentStays
  DEF ScriptsInv

LEMMA ScriptsInvariant == Spec => []ScriptsInv
  BY InitScripts, NextScripts, PTL DEF Spec

(* The files, processes and scripts keep their types.                         *)
THEOREM TypeCorrect == Spec => []TypeOK
<1>1. ScriptsInv => TypeOK
    BY DEF ScriptsInv
<1> QED
    BY <1>1, ScriptsInvariant, PTL

(* Unless two changing scripts overlapped, or a start died between its runner *)
(* and its pid file, a runner that nobody told to stop is under the pid in    *)
(* the pid file, or under the one a start is about to write there.            *)
THEOREM RunnersReached == Spec => []RunnersReachable
<1>1. ScriptsInv => RunnersReachable
    BY DEF ScriptsInv, RunnersKnown, RunnersReachable
<1> QED
    BY <1>1, ScriptsInvariant, PTL

(* And there is at most one of them, however many pids the system has.        *)
THEOREM OneRunner == Spec => []AtMostOneRunner
<1>1. ASSUME ScriptsInv, ~Disturbed
      PROVE  Cardinality({p \in Pid : Running(p)}) <= 1
    <2> DEFINE Runners == {p \in Pid : Running(p)}
    <2>1. \E p : Runners \subseteq {p}
        BY <1>1 DEF ScriptsInv, RunnersKnown
    <2>2. PICK p : Runners \subseteq {p}
        BY <2>1
    <2>3. Runners = {} \/ Runners = {p}
        BY <2>2
    <2>4. Cardinality({}) = 0 /\ Cardinality({p}) = 1
        BY FS_EmptySet, FS_Singleton
    <2> QED
        BY <2>3, <2>4
<1>2. ScriptsInv => AtMostOneRunner
    BY <1>1 DEF AtMostOneRunner
<1> QED
    BY <1>2, ScriptsInvariant, PTL

(* A state file that says the heartbeat is disabled is right, unless scripts  *)
(* were disturbed.                                                            *)
THEOREM DisabledIsStopped == Spec => []DisabledMeansStopped
<1>1. ScriptsInv => DisabledMeansStopped
    BY DEF ScriptsInv
<1> QED
    BY <1>1, ScriptsInvariant, PTL

(* The last configuration asked for is in the state file or in the archive,   *)
(* wherever the scripts and the system died, unless scripts overlapped.       *)
THEOREM ConfigurationNotLost == Spec => []ConfigurationKept
<1>1. ScriptsInv => ConfigurationKept
    BY DEF ScriptsInv
<1> QED
    BY <1>1, ScriptsInvariant, PTL

(* From the first start on there is a state file, even with scripts that      *)
(* overlap, except while a stop is between its moves or after one that died   *)
(* there.                                                                     *)
THEOREM StateFileFound == Spec => []StateFileStays
<1>1. ScriptsInv => StateFileStays
    BY DEF ScriptsInv
<1> QED
    BY <1>1, ScriptsInvariant, PTL

(* A verification that passes, with no incident and the files as it read      *)
(* them, speaks of a runner that runs with the state file's configuration.    *)
THEOREM VerificationTrue == Spec => []VerifiedRunner
<1>1. ASSUME ScriptsInv, NEW s \in Script, Passes(s), incidents = {},
             pidFile = local[s].pid, state = [enabled |-> TRUE, config |-> local[s].config],
             \A u \in Script : pc[u] \notin Changing,
             proc[local[s].pid].is \notin {"gone", "other"}
      PROVE  Running(pidFile) /\ proc[pidFile].config = state.config
    <2>1. pidFile # NoPid /\ state.enabled
        BY <1>1, ScriptsAssumption DEF ScriptsInv, LocalOK, Passes
    <2>2. Current(pidFile)
        BY <1>1, <2>1 DEF ScriptsInv, RunnerCurrent
    <2> QED
        BY <1>1, <2>1, <2>2 DEF Current
<1>2. ScriptsInv => VerifiedRunner
    BY <1>1 DEF VerifiedRunner
<1> QED
    BY <1>2, ScriptsInvariant, PTL

=============================================================================
