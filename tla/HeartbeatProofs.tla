--------------------------- MODULE HeartbeatProofs ---------------------------
(***************************************************************************)
(* Theorems about the heartbeat, for any number of calling threads, of     *)
(* heartbeat threads and of install ids: what the handle refers to however *)
(* the calls overlap, and that a host whose calls do not overlap is safe.  *)
(***************************************************************************)
EXTENDS Heartbeat, TLAPS

-----------------------------------------------------------------------------
(* The inductive invariant. *)

(* mutex_ is kept by one caller at a time. *)
OneHolder ==
    \A c, d \in Caller : {pc[c], pc[d]} \subseteq {"moving", "clearing"} => c = d

(* A caller holds a std::thread only between spawn and assign, or between *)
(* read and join.                                                         *)
HandleInHand == \A c \in Caller : mine[c] # NoLoop => pc[c] \in {"assign", "clearing", "join"}

AliveLoops == {l \in Loop : Alive(l)}

(* What the caller that is inside a call may rely on as long as no two calls *)
(* have overlapped.                                                          *)
Alone(c) ==
    \/ pc[c] \in {"spawn", "spawn_failed"} /\ running /\ handle = NoLoop /\ AliveLoops = {}
    \/ pc[c] = "assign" /\ running /\ handle = NoLoop /\ AliveLoops = {mine[c]}
    \/ pc[c] = "moving" /\ ~running /\ AliveLoops \subseteq {handle}
    \/ pc[c] = "clearing" /\ ~running /\ AliveLoops \subseteq {handle} /\ mine[c] = handle
    \/ pc[c] = "join" /\ ~running /\ handle = NoLoop /\ AliveLoops \subseteq {mine[c]}

(* Between the calls handle and flag agree with the threads. *)
Quiet ==
    /\ AliveLoops = IF running THEN {handle} ELSE {}
    /\ running <=> handle # NoLoop

Sequential ==
    ~overlapped =>
        /\ \A c \in Caller : pc[c] # "idle" => Alone(c)
        /\ (\A c \in Caller : pc[c] = "idle") => Quiet

HeartbeatInv ==
    /\ TypeOK
    /\ OneHolder
    /\ HandleInHand
    /\ NoSharedHandle
    /\ Sequential
    /\ TerminatesOnlyByRace

-----------------------------------------------------------------------------
(* The kinds of steps. *)

(* A step of a caller in StartHeartbeat or StopHeartbeat. *)
CallSteps(c) == StartHeartbeat(c) \/ StartSteps(c) \/ StopHeartbeat(c) \/ StopSteps(c)

LEMMA OtherSteps ==
  ASSUME [Next]_vars, \A c \in Caller : ~CallSteps(c)
  PROVE  UNCHANGED <<running, handle, calls>>
  BY DEF Next, CallSteps, Configure, SetIdentity, LoopSteps, EnterLoop, WakeUp, Timeout, vars

LEMMA NextType == TypeOK /\ [Next]_vars => TypeOK'
<1> SUFFICES ASSUME TypeOK, [Next]_vars
             PROVE  TypeOK'
    OBVIOUS
<1> USE DEF TypeOK, calls
<1>1. ASSUME NEW c \in Caller, Configure(c) \/ SetIdentity(c)
      PROVE  TypeOK'
    BY <1>1 DEF Configure, SetIdentity, Target
<1>2. ASSUME NEW c \in Caller, StartHeartbeat(c) \/ StartSteps(c)
      PROVE  TypeOK'
    <2>1. CASE StartHeartbeat(c)
        BY <2>1 DEF StartHeartbeat, Goto
    <2>2. CASE Spawn(c)
        BY <2>2 DEF Spawn, Goto
    <2>3. CASE SpawnThrows(c) \/ SpawnFailed(c)
        BY <2>3 DEF SpawnThrows, SpawnFailed, Goto
    <2>4. CASE Assign(c)
        BY <2>4 DEF Assign, Goto
    <2> QED
        BY <1>2, <2>1, <2>2, <2>3, <2>4 DEF StartSteps
<1>3. ASSUME NEW c \in Caller, StopHeartbeat(c)
      PROVE  TypeOK'
    BY <1>3 DEF StopHeartbeat, Notified, Goto
<1>4. ASSUME NEW c \in Caller, StopSteps(c)
      PROVE  TypeOK'
    BY <1>4 DEF StopSteps, MoveRead, MoveClear, Join, Goto
<1>5. ASSUME NEW l \in Loop, LoopSteps(l)
      PROVE  TypeOK'
    BY <1>5 DEF LoopSteps, EnterLoop, WakeUp, Timeout, Proceed
<1>6. CASE UNCHANGED vars
    BY <1>6 DEF vars
<1> QED
    BY <1>1, <1>2, <1>3, <1>4, <1>5, <1>6 DEF Next

-----------------------------------------------------------------------------
(* The mutex and the std::thread objects. *)

LEMMA HolderStays ==
  ASSUME TypeOK, OneHolder, [Next]_vars
  PROVE  OneHolder'
<1>1. ASSUME NEW c \in Caller, StartHeartbeat(c) \/ StartSteps(c) \/ StopSteps(c)
      PROVE  OneHolder'
    BY <1>1 DEF OneHolder, TypeOK, StartHeartbeat, StartSteps, Spawn, SpawnThrows,
                SpawnFailed, Assign, StopSteps, MoveRead, MoveClear, Join, Goto
<1>2. ASSUME NEW c \in Caller, StopHeartbeat(c)
      PROVE  OneHolder'
    BY <1>2 DEF OneHolder, TypeOK, StopHeartbeat, MutexFree, Goto
<1>3. CASE UNCHANGED calls
    BY <1>3 DEF OneHolder, calls
<1> QED
    BY <1>1, <1>2, <1>3, OtherSteps DEF CallSteps

LEMMA HandStays ==
  ASSUME TypeOK, HandleInHand, [Next]_vars
  PROVE  HandleInHand'
<1>1. ASSUME NEW c \in Caller, CallSteps(c)
      PROVE  HandleInHand'
    BY <1>1 DEF HandleInHand, TypeOK, CallSteps, StartHeartbeat, StartSteps, Spawn, SpawnThrows,
                SpawnFailed, Assign, StopHeartbeat, StopSteps, MoveRead, MoveClear, Join, Goto
<1>2. CASE UNCHANGED calls
    BY <1>2 DEF HandleInHand, calls
<1> QED
    BY <1>1, <1>2, OtherSteps

LEMMA SharedStays ==
  ASSUME TypeOK, OneHolder, HandleInHand, NoSharedHandle, [Next]_vars
  PROVE  NoSharedHandle'
<1> USE DEF NoSharedHandle, TypeOK, Goto
<1>1. ASSUME NEW c \in Caller, StartHeartbeat(c) \/ SpawnThrows(c) \/ SpawnFailed(c)
      PROVE  NoSharedHandle'
    BY <1>1 DEF StartHeartbeat, SpawnThrows, SpawnFailed
<1>2. ASSUME NEW c \in Caller, Spawn(c)
      PROVE  NoSharedHandle'
    BY <1>2 DEF Spawn, Unused
<1>3. ASSUME NEW c \in Caller, Assign(c)
      PROVE  NoSharedHandle'
    BY <1>3 DEF Assign
<1>4. ASSUME NEW c \in Caller, StopHeartbeat(c) \/ Join(c)
      PROVE  NoSharedHandle'
    BY <1>4 DEF StopHeartbeat, Join
<1>5. ASSUME NEW c \in Caller, MoveRead(c)
      PROVE  NoSharedHandle'
    BY <1>5 DEF MoveRead, OneHolder
<1>6. ASSUME NEW c \in Caller, MoveClear(c)
      PROVE  NoSharedHandle'
    BY <1>6 DEF MoveClear
<1>7. CASE UNCHANGED <<handle, calls>>
    BY <1>7 DEF calls
<1> QED
    BY <1>1, <1>2, <1>3, <1>4, <1>5, <1>6, <1>7, OtherSteps DEF CallSteps, StartSteps, StopSteps

-----------------------------------------------------------------------------
(* One call after the other. *)

(* A caller that overlaps no other finds what it left, and the others idle. *)
LEMMA OneCaller ==
  ASSUME TypeOK, Sequential, NEW c \in Caller, NEW l, NEW h, Goto(c, l, h), ~overlapped'
  PROVE  /\ pc'[c] = l /\ mine'[c] = h
         /\ pc[c] = "idle" => Quiet
         /\ pc[c] # "idle" => Alone(c)
         /\ (IF l = "idle" THEN Quiet' ELSE Alone(c)') => Sequential'
<1>1. ~overlapped /\ \A d \in Caller \ {c} : pc[d] = "idle"
    BY DEF Goto, TypeOK
<1>2. pc'[c] = l /\ mine'[c] = h /\ \A d \in Caller \ {c} : pc'[d] = "idle"
    BY <1>1 DEF Goto, TypeOK
<1>3. pc[c] = "idle" => Quiet
    BY <1>1 DEF Sequential
<1>4. pc[c] # "idle" => Alone(c)
    BY <1>1 DEF Sequential
<1>5. ASSUME IF l = "idle" THEN Quiet' ELSE Alone(c)'
      PROVE  Sequential'
    <2>1. CASE l = "idle"
        BY <1>2, <1>5, <2>1 DEF Sequential
    <2>2. CASE l # "idle"
        <3>1. ~(\A d \in Caller : pc'[d] = "idle")
            BY <1>2, <2>2
        <3>2. \A d \in Caller : pc'[d] # "idle" => d = c
            BY <1>2
        <3> QED
            BY <1>5, <2>2, <3>1, <3>2 DEF Sequential
    <2> QED
        BY <2>1, <2>2
<1> QED
    BY <1>2, <1>3, <1>4, <1>5

LEMMA LoopsStay == loop' = loop => AliveLoops' = AliveLoops
  BY DEF AliveLoops, Alive

LEMMA SequentialStays ==
  ASSUME TypeOK, HandleInHand, Sequential, [Next]_vars
  PROVE  Sequential'
<1> SUFFICES ASSUME ~overlapped'
             PROVE  Sequential'
    BY DEF Sequential
<1>1. ASSUME NEW c \in Caller, StartHeartbeat(c)
      PROVE  Sequential'
    <2>1. Goto(c, "spawn", NoLoop) /\ pc[c] = "idle"
        BY <1>1 DEF StartHeartbeat, Begin
    <2>2. Quiet /\ ~running
        BY <1>1, <2>1, OneCaller DEF StartHeartbeat
    <2>3. Alone(c)'
        BY <1>1, <2>1, <2>2, LoopsStay, OneCaller DEF StartHeartbeat, Quiet, Alone
    <2> QED
        BY <2>1, <2>3, OneCaller
<1>2. ASSUME NEW c \in Caller, Spawn(c)
      PROVE  Sequential'
    <2>1. PICK l \in Loop : loop' = [loop EXCEPT ![l] = "starting"] /\ Goto(c, "assign", l)
        BY <1>2 DEF Spawn
    <2>2. AliveLoops' = AliveLoops \cup {l}
        BY <2>1 DEF AliveLoops, Alive, TypeOK
    <2>3. Alone(c) /\ pc[c] = "spawn"
        BY <1>2, <2>1, OneCaller DEF Spawn
    <2>4. Alone(c)'
        BY <1>2, <2>1, <2>2, <2>3, OneCaller DEF Spawn, Alone
    <2> QED
        BY <2>1, <2>4, OneCaller
<1>3. ASSUME NEW c \in Caller, SpawnThrows(c)
      PROVE  Sequential'
    <2>1. Goto(c, "spawn_failed", NoLoop) /\ pc[c] = "spawn"
        BY <1>3 DEF SpawnThrows
    <2>2. Alone(c)
        BY <2>1, OneCaller
    <2>3. Alone(c)'
        BY <1>3, <2>1, <2>2, LoopsStay, OneCaller DEF SpawnThrows, Alone
    <2> QED
        BY <2>1, <2>3, OneCaller
<1>4. ASSUME NEW c \in Caller, SpawnFailed(c)
      PROVE  Sequential'
    <2>1. Goto(c, "idle", NoLoop) /\ pc[c] = "spawn_failed"
        BY <1>4 DEF SpawnFailed
    <2>2. Alone(c)
        BY <2>1, OneCaller
    <2>3. Quiet'
        BY <1>4, <2>1, <2>2, LoopsStay DEF SpawnFailed, Alone, Quiet
    <2> QED
        BY <2>1, <2>3, OneCaller
<1>5. ASSUME NEW c \in Caller, Assign(c)
      PROVE  Sequential'
    <2>1. Goto(c, "idle", NoLoop) /\ pc[c] = "assign" /\ mine[c] \in Loop
        BY <1>5 DEF Assign, TypeOK
    <2>2. Alone(c)
        BY <2>1, OneCaller
    <2>3. handle' = mine[c] /\ running /\ running' = running /\ AliveLoops' = {mine[c]}
        BY <1>5, <2>1, <2>2, LoopsStay DEF Assign, Alone
    <2>4. Quiet'
        BY <2>1, <2>3, HeartbeatAssumption DEF Quiet
    <2> QED
        BY <2>1, <2>4, OneCaller
<1>6. ASSUME NEW c \in Caller, StopHeartbeat(c)
      PROVE  Sequential'
    <2>1. Goto(c, "moving", NoLoop) /\ pc[c] = "idle"
        BY <1>6 DEF StopHeartbeat, Begin
    <2>2. Quiet
        BY <2>1, OneCaller
    <2>3. AliveLoops' = AliveLoops
        BY <1>6 DEF StopHeartbeat, Notified, AliveLoops, Alive
    <2>4. Alone(c)'
        BY <1>6, <2>1, <2>2, <2>3, OneCaller DEF StopHeartbeat, Quiet, Alone
    <2> QED
        BY <2>1, <2>4, OneCaller
<1>7. ASSUME NEW c \in Caller, MoveRead(c)
      PROVE  Sequential'
    <2>1. Goto(c, "clearing", handle) /\ pc[c] = "moving"
        BY <1>7 DEF MoveRead
    <2>2. Alone(c)
        BY <2>1, OneCaller
    <2>3. Alone(c)'
        BY <1>7, <2>1, <2>2, LoopsStay, OneCaller DEF MoveRead, Alone
    <2> QED
        BY <2>1, <2>3, OneCaller
<1>8. ASSUME NEW c \in Caller, MoveClear(c)
      PROVE  Sequential'
    <2>1. /\ pc[c] = "clearing" /\ handle' = NoLoop /\ running' = running
          /\ AliveLoops' = AliveLoops
        BY <1>8, LoopsStay DEF MoveClear
    <2>2. CASE mine[c] = NoLoop
        <3>1. Goto(c, "idle", NoLoop)
            BY <1>8, <2>2 DEF MoveClear
        <3>2. Alone(c)
            BY <2>1, <3>1, OneCaller
        <3>3. AliveLoops = {} /\ ~running
            BY <2>1, <2>2, <3>2, HeartbeatAssumption DEF Alone, AliveLoops
        <3>4. Quiet'
            BY <2>1, <3>3 DEF Quiet
        <3> QED
            BY <3>1, <3>4, OneCaller
    <2>3. CASE mine[c] # NoLoop
        <3>1. Goto(c, "join", mine[c])
            BY <1>8, <2>3 DEF MoveClear
        <3>2. Alone(c)
            BY <2>1, <3>1, OneCaller
        <3>3. Alone(c)'
            BY <2>1, <3>1, <3>2, OneCaller DEF Alone
        <3> QED
            BY <3>1, <3>3, OneCaller
    <2> QED
        BY <2>2, <2>3
<1>9. ASSUME NEW c \in Caller, Join(c)
      PROVE  Sequential'
    <2>1. Goto(c, "idle", NoLoop) /\ pc[c] = "join" /\ ~Alive(mine[c])
        BY <1>9 DEF Join, Alive
    <2>2. Alone(c)
        BY <2>1, OneCaller
    <2>3. AliveLoops = {}
        BY <2>1, <2>2 DEF Alone, AliveLoops
    <2>4. Quiet'
        BY <1>9, <2>1, <2>2, <2>3, LoopsStay DEF Join, Alone, Quiet
    <2> QED
        BY <2>1, <2>4, OneCaller
<1>10. ASSUME UNCHANGED <<running, handle, calls>>,
              IF running THEN AliveLoops' = AliveLoops ELSE AliveLoops' \subseteq AliveLoops
       PROVE  Sequential'
    <2>1. ~overlapped
        BY <1>10 DEF calls
    <2>2. ASSUME NEW c \in Caller, pc'[c] # "idle"
          PROVE  Alone(c)'
        <3>1. Alone(c) /\ pc'[c] = pc[c] /\ mine'[c] = mine[c]
            BY <1>10, <2>1, <2>2 DEF calls, Sequential
        <3> QED
            BY <1>10, <3>1 DEF Alone
    <2>3. ASSUME \A c \in Caller : pc'[c] = "idle"
          PROVE  Quiet'
        <3>1. Quiet
            BY <1>10, <2>1, <2>3 DEF calls, Sequential
        <3> QED
            BY <1>10, <3>1 DEF Quiet
    <2> QED
        BY <2>2, <2>3 DEF Sequential
<1>11. ASSUME NEW l \in Loop, LoopSteps(l)
       PROVE  IF running THEN AliveLoops' = AliveLoops ELSE AliveLoops' \subseteq AliveLoops
    <2>1. Alive(l) /\ Proceed(l)
        BY <1>11 DEF LoopSteps, EnterLoop, WakeUp, Timeout, Alive
    <2> QED
        BY <2>1 DEF Proceed, AliveLoops, Alive, TypeOK
<1>12. ASSUME UNCHANGED loop
       PROVE  IF running THEN AliveLoops' = AliveLoops ELSE AliveLoops' \subseteq AliveLoops
    BY <1>12, LoopsStay
<1>13. CASE \A c \in Caller : ~CallSteps(c)
    <2>1. UNCHANGED loop \/ \E l \in Loop : LoopSteps(l)
        BY <1>13 DEF Next, CallSteps, Configure, SetIdentity, vars
    <2> QED
        BY <1>10, <1>11, <1>12, <1>13, <2>1, OtherSteps
<1> QED
    BY <1>1, <1>2, <1>3, <1>4, <1>5, <1>6, <1>7, <1>8, <1>9, <1>13
    DEF CallSteps, StartSteps, StopSteps

-----------------------------------------------------------------------------
(* The theorems. *)

LEMMA TerminatesStays ==
  ASSUME TypeOK, Sequential, TerminatesOnlyByRace, [Next]_vars
  PROVE  TerminatesOnlyByRace'
<1> SUFFICES ASSUME terminated', ~overlapped'
             PROVE  ~valid'
    BY DEF TerminatesOnlyByRace
<1>1. CASE terminated
    <2>1. UNCHANGED <<valid, overlapped>>
        BY <1>1
        DEF Next, Configure, SetIdentity, StartHeartbeat, StartSteps, Spawn, SpawnThrows, SpawnFailed,
            Assign, StopHeartbeat, StopSteps, MoveRead, MoveClear, Join, LoopSteps, EnterLoop,
            WakeUp, Timeout, Begin, vars, calls
    <2> QED
        BY <1>1, <2>1 DEF TerminatesOnlyByRace
<1>2. CASE ~terminated
    <2>1. (\E c \in Caller : Assign(c)) \/ \E l \in Loop : Timeout(l)
        BY <1>2
        DEF Next, Configure, SetIdentity, StartHeartbeat, StartSteps, Spawn, SpawnThrows, SpawnFailed,
            StopHeartbeat, StopSteps, MoveRead, MoveClear, Join, LoopSteps, EnterLoop, WakeUp, vars
    <2>2. ASSUME NEW c \in Caller, Assign(c)
          PROVE  FALSE
        <3>1. Alone(c) /\ pc[c] = "assign"
            BY <2>2, OneCaller DEF Assign
        <3> QED
            BY <2>2, <3>1 DEF Alone, Assign
    <2> QED
        BY <2>1, <2>2 DEF Timeout
<1> QED
    BY <1>1, <1>2

LEMMA InitHeartbeat == Init => HeartbeatInv
<1> SUFFICES ASSUME Init
             PROVE  HeartbeatInv
    OBVIOUS
<1>1. TypeOK
    BY HeartbeatAssumption DEF Init, TypeOK, Validity, Target
<1>2. AliveLoops = {} /\ Quiet
    BY DEF Init, AliveLoops, Alive, Quiet
<1> QED
    BY <1>1, <1>2 DEF Init, HeartbeatInv, OneHolder, HandleInHand, NoSharedHandle,
                      Sequential, TerminatesOnlyByRace

LEMMA NextHeartbeat == HeartbeatInv /\ [Next]_vars => HeartbeatInv'
  BY NextType, HolderStays, HandStays, SharedStays, SequentialStays, TerminatesStays
  DEF HeartbeatInv

(* Every variable keeps its type, and a caller that is to assign or to join a *)
(* thread has one.                                                            *)
THEOREM TypeCorrect == Spec => []TypeOK
  BY InitHeartbeat, NextHeartbeat, PTL DEF Spec, HeartbeatInv

(* Each thread is referred to by one std::thread object only, however the *)
(* calls of however many threads overlap: none is joined twice.           *)
THEOREM HandleNotShared == Spec => []NoSharedHandle
<1>1. HeartbeatInv => NoSharedHandle
    BY DEF HeartbeatInv
<1> QED
    BY InitHeartbeat, NextHeartbeat, <1>1, PTL DEF Spec

(* Between calls that do not overlap, one heartbeat thread is alive when the *)
(* heartbeat is on, and none when it is off: a stop leaves none behind.      *)
THEOREM OneLoop == Spec => []OneLoopWhileRunning
<1>1. HeartbeatInv => OneLoopWhileRunning
    BY DEF HeartbeatInv, Sequential, Quiet, AliveLoops, OneLoopWhileRunning
<1> QED
    BY InitHeartbeat, NextHeartbeat, <1>1, PTL DEF Spec

(* A host whose calls do not overlap, and whose strings are UTF-8, lives. *)
THEOREM HostLives == Spec => []TerminatesOnlyByRace
<1>1. HeartbeatInv => TerminatesOnlyByRace
    BY DEF HeartbeatInv
<1> QED
    BY InitHeartbeat, NextHeartbeat, <1>1, PTL DEF Spec
=============================================================================
