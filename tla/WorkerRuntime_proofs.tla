------------------------ MODULE WorkerRuntime_proofs -------------------------
(***************************************************************************)
(* What WorkerRuntime promises for any configs and any number of tasks,    *)
(* processes, messages, requests and faults: a record that says "running"  *)
(* belongs to a tracked process, and a tracked process has a monitor.      *)
(***************************************************************************)
EXTENDS WorkerRuntime, TLAPS

\* What is past the beginning of start_service, or watches a process.
Starting == {"announce", "spawn", "publish", "report", "monitor", "watch", "wait"}

\* Without a record nothing is tracked, started or watched: the code that
\* writes a field of self.state[id] always finds it.
RecordInv ==
    state = NoRecord =>
        tracked = NoProc /\ \A t \in Task : task[t].at \notin Starting

TypeInv == TypeOK /\ RecordInv

Code == {"live", "signalled", "clean", "retryable", "fatal"}

-----------------------------------------------------------------------------
(* The types of records, places and exit codes.                            *)

\* What the code writes into a record leaves a record.
LEMMA RecordType ==
    /\ NoRecord \notin Record
    /\ \A rec \in Record, s \in {"starting", "running", "stopped", "error"} :
           [rec EXCEPT !.status = s] \in Record
    /\ \A rec \in Record : [rec EXCEPT !.enabled = FALSE] \in Record
    /\ \A rec \in Record, c \in Cfg :
           [rec EXCEPT !.cfg = c, !.enabled = TRUE] \in Record
    /\ \A rec \in Record, b \in BOOLEAN :
           [rec EXCEPT !.status = "error", !.retryable = b] \in Record
BY DEF Record, NoRecord

\* What a task holds where it waits.
LEMMA PlaceType ==
    ASSUME NEW w \in Place
    PROVE  /\ w.at \in {"reconcile", "launch", "announce", "spawn"} => w.cfg \in Cfg
           /\ w.at = "snapshot" => w.want \in Desired \cup {Gone}
           /\ w.at \in {"watch", "wait"} => w.proc \in Proc
BY DEF Place, New, Busy, Watching, Idle

\* The places that the actions write.
LEMMA Places ==
    /\ Idle \in Place /\ Idle.at = "idle"
    /\ \A c \in Cfg, a \in {"reconcile", "launch", "announce", "spawn"} :
           [at |-> a, cfg |-> c] \in Place
    /\ \A a \in {"stop", "monitor", "publish", "report"} : [at |-> a] \in Place
    /\ \A want \in Desired \cup {Gone} : [at |-> "snapshot", want |-> want] \in Place
    /\ \A p \in Proc, a \in {"watch", "wait"} : [at |-> a, proc |-> p] \in Place
BY DEF Place, New, Busy, Watching, Idle

\* Forgetting exit codes leaves exit codes, and starts no process.
LEMMA ForgetType ==
    ASSUME NEW codes \in [Proc -> Code], NEW reads \in [Proc -> BOOLEAN]
    PROVE  /\ Forget(codes, reads) \in [Proc -> Code]
           /\ \A p \in Proc : Forget(codes, reads)[p] \in {"live", "signalled"} =>
                                  codes[p] \in {"live", "signalled"}
BY DEF Forget, Code

\* So does SIGTERM.
LEMMA TerminateType ==
    ASSUME TypeOK
    PROVE  Terminate \in [Proc -> Code]
<1> DEFINE codes == [p \in Proc |-> IF p = tracked /\ ffmpeg[p] = "live"
                                    THEN "signalled" ELSE ffmpeg[p]]
<1>1. codes \in [Proc -> Code]
  BY DEF TypeOK, Code
<1>2. Watched \in [Proc -> BOOLEAN]
  BY DEF Watched, WatchedBy
<1>3. Terminate = Forget(codes, Watched)
  BY DEF Terminate
<1> HIDE DEF codes
<1> QED  BY <1>1, <1>2, <1>3, ForgetType

-----------------------------------------------------------------------------
(* The tasks.  Where no task is past the beginning of a start, none comes  *)
(* to be by these steps.                                                   *)

\* A task waits at a place.
LEMMA AwaitType ==
    ASSUME TypeOK, NEW t \in Task, NEW w \in Place, Await(t, w)
    PROVE  /\ task' \in [Task -> Place]
           /\ w.at \notin Starting =>
                \A u \in Task : task'[u].at \in Starting => task[u].at \in Starting
BY DEF TypeOK, Await

\* A task ends.
LEMMA FinishType ==
    ASSUME TypeOK, NEW t \in Task, Finish(t)
    PROVE  /\ task' \in [Task -> Place]
           /\ \A u \in Task : task'[u].at \in Starting => task[u].at \in Starting
BY Places DEF TypeOK, Finish, Starting

\* A task is created.
LEMMA CreateTaskType ==
    ASSUME TypeOK, NEW tasks \in [Task -> Place], NEW w \in Place, CreateTask(w, tasks)
    PROVE  /\ task' \in [Task -> Place]
           /\ ready' \in Seq(Slot)
           /\ w.at \notin Starting =>
                \A u \in Task : task'[u].at \in Starting => tasks[u].at \in Starting
<1>1. PICK s \in FreeSlots(tasks) : task' = [tasks EXCEPT ![s] = w]
                                    /\ ready' = Append(ready, s)
  BY DEF CreateTask
<1>2. s \in Slot /\ s \in Task
  BY DEF FreeSlots, Task
<1>3. ready' \in Seq(Slot)
  BY <1>1, <1>2 DEF TypeOK
<1> QED  BY <1>1, <1>2, <1>3

\* A task that ends as another one is created.
LEMMA HandOverType ==
    ASSUME TypeOK, NEW t \in Task, NEW w \in Place,
           CreateTask(w, [task EXCEPT ![t] = Idle])
    PROVE  /\ task' \in [Task -> Place]
           /\ ready' \in Seq(Slot)
           /\ w.at \notin Starting =>
                \A u \in Task : task'[u].at \in Starting => task[u].at \in Starting
<1> DEFINE tasks == [task EXCEPT ![t] = Idle]
<1>1. tasks \in [Task -> Place]
  BY Places DEF TypeOK
<1>2. \A u \in Task : tasks[u].at \in Starting => task[u].at \in Starting
  BY Places DEF TypeOK, Starting
<1> HIDE DEF tasks
<1>3. CreateTask(w, tasks)
  BY DEF tasks
<1> QED  BY <1>1, <1>2, <1>3, CreateTaskType

-----------------------------------------------------------------------------
(* The shared pieces of the handlers.                                      *)

\* A record, where there was one, stays a record.
LEMMA DisableType ==
    ASSUME TypeOK
    PROVE  /\ Disable(state) \in Record \cup {NoRecord}
           /\ Disable(state) = NoRecord => state = NoRecord
BY RecordType DEF TypeOK, Disable

LEMMA StopServiceType ==
    ASSUME TypeOK, NEW rec \in Record \cup {NoRecord}, StopService(rec)
    PROVE  /\ tracked' = NoProc
           /\ ffmpeg' \in [Proc -> Code]
           /\ state' \in Record \cup {NoRecord}
           /\ state' = NoRecord => rec = NoRecord
<1>1. SetStatus(rec, "stopped") \in Record \cup {NoRecord}
      /\ (SetStatus(rec, "stopped") = NoRecord => rec = NoRecord)
  BY RecordType DEF SetStatus
<1>2. ffmpeg' \in [Proc -> Code]
  BY TerminateType DEF StopService
<1> QED  BY <1>1, <1>2 DEF StopService

LEMMA BeginStartType ==
    ASSUME TypeOK, NEW t \in Task, NEW c \in Cfg, BeginStart(t, c)
    PROVE  /\ tracked' = NoProc
           /\ ffmpeg' \in [Proc -> Code]
           /\ state' \in Record
           /\ task' \in [Task -> Place]
<1>1. ffmpeg' \in [Proc -> Code]
  BY TerminateType DEF BeginStart
<1>2. task' \in [Task -> Place]
  BY Places, AwaitType DEF BeginStart
<1>3. state' \in Record
  BY DEF BeginStart, Record
<1> QED  BY <1>1, <1>2, <1>3 DEF BeginStart

LEMMA ReconcileServiceType ==
    ASSUME TypeInv, NEW t \in Task, NEW enabled \in BOOLEAN, NEW c \in Cfg,
           NEW force \in BOOLEAN, ReconcileService(t, enabled, c, force)
    PROVE  /\ tracked' \in Proc \cup {NoProc}
           /\ ffmpeg' \in [Proc -> Code]
           /\ state' \in Record \cup {NoRecord}
           /\ task' \in [Task -> Place]
           /\ RecordInv'
<1> USE DEF TypeInv
<1>1. CASE tracked # NoProc /\ StopService(state) /\ Finish(t)
  <2>1. state' # NoRecord
    BY <1>1, StopServiceType DEF RecordInv, TypeOK
  <2> QED  BY <1>1, <2>1, StopServiceType, FinishType DEF RecordInv, TypeOK
<1>2. CASE UNCHANGED <<ffmpeg, tracked, state>> /\ Finish(t)
  BY <1>2, FinishType DEF RecordInv, TypeOK, Code
<1>3. CASE TrackedIsAlive /\ state' = [state EXCEPT !.cfg = c, !.enabled = TRUE]
           /\ Finish(t) /\ UNCHANGED <<ffmpeg, tracked>>
  <2>1. state \in Record
    BY <1>3 DEF RecordInv, TypeOK, TrackedIsAlive
  <2>2. state' \in Record
    BY <1>3, <2>1, RecordType
  <2> QED  BY <1>3, <2>2, FinishType, RecordType DEF RecordInv, TypeOK, Code
<1>4. CASE BeginStart(t, c)
  BY <1>4, BeginStartType, RecordType DEF RecordInv
<1> QED  BY <1>1, <1>2, <1>3, <1>4 DEF ReconcileService

-----------------------------------------------------------------------------
(* One lemma for each kind of step.                                        *)

LEMMA InitType == Init => TypeInv
BY BoundsAssumption, Places
DEF Init, TypeInv, TypeOK, RecordInv, Starting, Idle, NoRecord, Record

LEMMA ApiType ==
    ASSUME TypeInv, Api
    PROVE  TypeInv'
<1>1. RecordInv'
  BY DEF Api, ApiStart, ApiStop, ApiUpdate, ApiDelete, Publish, TypeInv, RecordInv
<1>2. desired' \in Desired \cup {Gone}
  <2>1. CASE desired \in Desired /\ \E e \in BOOLEAN : desired' = [desired EXCEPT !.enabled = e]
    BY <2>1 DEF Desired
  <2>2. CASE \E c \in Cfg, e \in BOOLEAN : desired' = [kind |-> "row", enabled |-> e, cfg |-> c]
    BY <2>2 DEF Desired
  <2>3. desired # Gone => desired \in Desired
    BY DEF TypeInv, TypeOK
  <2> QED  BY <2>1, <2>2, <2>3 DEF Api, ApiStart, ApiStop, ApiUpdate, ApiDelete
<1>3. PICK messages \in Seq(Message) : Publish(messages)
  <2>1. \A c \in Cfg : <<StopMessage, StartMessage(c)>> \in Seq(Message)
                       /\ <<StartMessage(c)>> \in Seq(Message)
    BY DEF StopMessage, StartMessage, Message
  <2>2. <<StopMessage>> \in Seq(Message)
    BY DEF StopMessage, Message
  <2>3. desired # Gone => desired.cfg \in Cfg
    BY DEF TypeInv, TypeOK, Desired
  <2> QED  BY <2>1, <2>2, <2>3 DEF Api, ApiStart, ApiStop, ApiUpdate, ApiDelete
<1>4. inbox' \in Seq(Message) /\ Len(inbox') <= MaxInbox
  BY <1>3, BoundsAssumption DEF Publish, TypeInv, TypeOK
<1>5. requests' \in 0..MaxRequests
  BY <1>3, BoundsAssumption DEF Publish, TypeInv, TypeOK
<1>6. UNCHANGED <<state, tracked, ffmpeg, task, ready, faults>>
  BY <1>3 DEF Publish
<1> QED  BY <1>1, <1>2, <1>4, <1>5, <1>6 DEF TypeInv, TypeOK

LEMMA LoseMessageType ==
    ASSUME TypeInv, LoseMessage
    PROVE  TypeInv'
<1>1. inbox' \in Seq(Message) /\ Len(inbox') <= MaxInbox
  BY BoundsAssumption DEF LoseMessage, TypeInv, TypeOK
<1> QED  BY <1>1 DEF LoseMessage, TypeInv, TypeOK, RecordInv

LEMMA ListenType ==
    ASSUME TypeInv, Listen
    PROVE  TypeInv'
<1> DEFINE message == Head(inbox)
<1>1. message \in Message
  BY DEF Listen, TypeInv, TypeOK
<1>2. inbox' \in Seq(Message) /\ Len(inbox') <= MaxInbox
  BY BoundsAssumption DEF Listen, TypeInv, TypeOK
<1>3. PICK w \in Place : CreateTask(w, task) /\ w.at \notin Starting
  <2>1. CASE message.action = "start"
    <3>1. message.cfg \in Cfg
      BY <1>1, <2>1 DEF Message
    <3> QED  BY <2>1, <3>1, Places DEF Listen, Starting
  <2>2. CASE message.action # "start"
    BY <2>2, Places DEF Listen, Starting
  <2> QED  BY <2>1, <2>2
<1>4. state' \in Record \cup {NoRecord} /\ (state' = NoRecord => state = NoRecord)
  BY DisableType DEF Listen, TypeInv, TypeOK
<1>5. /\ task' \in [Task -> Place] /\ ready' \in Seq(Slot)
      /\ \A u \in Task : task'[u].at \in Starting => task[u].at \in Starting
  BY <1>3, CreateTaskType DEF TypeInv, TypeOK
<1>6. RecordInv'
  BY <1>4, <1>5 DEF Listen, TypeInv, RecordInv
<1> QED  BY <1>2, <1>4, <1>5, <1>6 DEF Listen, TypeInv, TypeOK

\* What a created task finds when it begins.
LEMMA BeginType ==
    ASSUME TypeInv, NEW s \in Slot, NEW where, Begin(s, where)
    PROVE  /\ s \in Task /\ task[s] \in Place /\ task[s].at = where
           /\ ready' \in Seq(Slot)
           /\ UNCHANGED <<requests, desired, inbox, faults>>
BY DEF Begin, TypeInv, TypeOK, Task

LEMMA BeginReconcileType ==
    ASSUME TypeInv, NEW s \in Slot, BeginReconcile(s)
    PROVE  TypeInv'
<1>1. task[s].cfg \in Cfg
  BY BeginType, PlaceType DEF BeginReconcile
<1>2. ReconcileService(s, TRUE, task[s].cfg, TRUE) /\ Begin(s, "reconcile")
  BY DEF BeginReconcile
<1> QED  BY <1>1, <1>2, BeginType, ReconcileServiceType DEF TypeInv, TypeOK, Code

LEMMA BeginStopType ==
    ASSUME TypeInv, NEW s \in Slot, BeginStop(s)
    PROVE  TypeInv'
<1>1. Begin(s, "stop") /\ StopService(state) /\ Finish(s)
  BY DEF BeginStop
<1>2. state \in Record \cup {NoRecord} /\ TypeOK
  BY DEF TypeInv, TypeOK
<1>3. RecordInv'
  BY <1>1, <1>2, BeginType, StopServiceType, FinishType DEF TypeInv, RecordInv
<1> QED
  BY <1>1, <1>2, <1>3, BeginType, StopServiceType, FinishType DEF TypeInv, TypeOK, Code

LEMMA BeginLaunchType ==
    ASSUME TypeInv, NEW s \in Slot, BeginLaunch(s)
    PROVE  TypeInv'
<1>1. task[s].cfg \in Cfg
  BY BeginType, PlaceType DEF BeginLaunch
<1>2. Begin(s, "launch") /\ BeginStart(s, task[s].cfg)
  BY DEF BeginLaunch
<1>3. RecordInv'
  BY <1>1, <1>2, BeginType, BeginStartType, RecordType DEF TypeInv, RecordInv
<1> QED  BY <1>1, <1>2, <1>3, BeginType, BeginStartType DEF TypeInv, TypeOK, Code

LEMMA BeginMonitorType ==
    ASSUME TypeInv, NEW s \in Slot, BeginMonitor(s)
    PROVE  TypeInv'
<1>1. Begin(s, "monitor") /\ UNCHANGED <<state, tracked, ffmpeg>>
  BY DEF BeginMonitor
<1>2. s \in Task /\ task[s].at \in Starting
  BY <1>1, BeginType DEF Starting
<1>3. state # NoRecord
  BY <1>2 DEF TypeInv, RecordInv
<1>4. task' \in [Task -> Place]
  BY <1>2, Places, FinishType, AwaitType DEF BeginMonitor, TypeInv, TypeOK
<1> QED  BY <1>1, <1>3, <1>4, BeginType DEF TypeInv, TypeOK, RecordInv

LEMMA AnnouncedType ==
    ASSUME TypeInv, NEW t \in Task, Announced(t)
    PROVE  TypeInv'
<1>1. task[t] \in Place /\ task[t].at = "announce" /\ task[t].cfg \in Cfg
  BY PlaceType DEF Announced, TypeInv, TypeOK
<1>2. state \in Record
  BY <1>1 DEF TypeInv, TypeOK, RecordInv, Starting
<1>3. state' \in Record
  BY <1>2, RecordType DEF Announced
<1>4. task' \in [Task -> Place]
  BY <1>1, Places, FinishType, AwaitType DEF Announced, TypeInv
<1> QED  BY <1>3, <1>4, RecordType DEF Announced, TypeInv, TypeOK, RecordInv

LEMMA SpawnedType ==
    ASSUME TypeInv, NEW t \in Task, Spawned(t)
    PROVE  TypeInv'
<1>1. PICK p \in FreeProcs : ffmpeg' = [ffmpeg EXCEPT ![p] = "live"] /\ tracked' = p
  BY DEF Spawned
<1>2. tracked' \in Proc /\ ffmpeg' \in [Proc -> Code]
  BY <1>1 DEF FreeProcs, TypeInv, TypeOK, Code
<1>3. state \in Record
  BY DEF Spawned, TypeInv, TypeOK, RecordInv, Starting
<1>4. state' \in Record
  BY <1>3, RecordType DEF Spawned
<1>5. task' \in [Task -> Place]
  BY Places, AwaitType DEF Spawned, TypeInv
<1> QED
  BY <1>2, <1>4, <1>5, RecordType DEF Spawned, TypeInv, TypeOK, RecordInv, Code

LEMMA PublishedType ==
    ASSUME TypeInv, NEW t \in Task, Published(t)
    PROVE  TypeInv'
<1>1. state # NoRecord
  BY DEF Published, TypeInv, RecordInv, Starting
<1>2. task' \in [Task -> Place] /\ ready' \in Seq(Slot)
  BY Places, HandOverType DEF Published, TypeInv
<1> QED  BY <1>1, <1>2 DEF Published, TypeInv, TypeOK, RecordInv

LEMMA FfmpegExitType ==
    ASSUME TypeInv, NEW p \in Proc, FfmpegExit(p)
    PROVE  TypeInv'
<1>1. PICK kind \in Code :
          ffmpeg' = Forget([ffmpeg EXCEPT ![p] = kind],
                           [q \in Proc |-> Watched[q] \/ q = tracked])
  BY ServiceAssumption DEF FfmpegExit, Code
<1>2. [ffmpeg EXCEPT ![p] = kind] \in [Proc -> Code]
  BY DEF TypeInv, TypeOK, Code
<1>3. [q \in Proc |-> Watched[q] \/ q = tracked] \in [Proc -> BOOLEAN]
  OBVIOUS
<1>4. ffmpeg' \in [Proc -> Code]
  BY <1>1, <1>2, <1>3, ForgetType
<1> QED  BY <1>4 DEF FfmpegExit, TypeInv, TypeOK, RecordInv, Code

LEMMA MonitorExitType ==
    ASSUME TypeInv, NEW s \in Slot, MonitorExit(s)
    PROVE  TypeInv'
<1>1. s \in Task /\ task[s].at \in Starting
  BY DEF MonitorExit, Task, Starting
<1>2. state \in Record
  BY <1>1 DEF TypeInv, TypeOK, RecordInv
<1> DEFINE retry == ffmpeg[task[s].proc] = "retryable" \/ task[s].at = "wait"
<1>3. retry \in BOOLEAN
  OBVIOUS
<1>4. \/ state' = SetStatus(state, "stopped")
      \/ state' = [state EXCEPT !.status = "error", !.retryable = retry]
  BY DEF MonitorExit
<1> HIDE DEF retry
<1>5. state' \in Record
  BY <1>2, <1>3, <1>4, RecordType DEF SetStatus
<1>6. task' \in [Task -> Place]
  BY <1>1, Places, FinishType, AwaitType DEF MonitorExit, TypeInv
<1> QED  BY <1>5, <1>6, RecordType DEF MonitorExit, TypeInv, TypeOK, RecordInv

LEMMA RelaunchType ==
    ASSUME TypeInv, NEW s \in Slot, Relaunch(s)
    PROVE  TypeInv'
<1>1. s \in Task /\ task[s].at \in Starting
  BY DEF Relaunch, Task, Starting
<1>2. state \in Record /\ state # NoRecord
  BY <1>1 DEF TypeInv, TypeOK, RecordInv
<1>3. [at |-> "launch", cfg |-> state.cfg] \in Place
  BY <1>2, Places DEF Record
<1>4. task' \in [Task -> Place] /\ ready' \in Seq(Slot)
  BY <1>1, <1>3, HandOverType DEF Relaunch, TypeInv
<1> QED  BY <1>2, <1>4 DEF Relaunch, TypeInv, TypeOK, RecordInv

LEMMA ReadDesiredType ==
    ASSUME TypeInv, ReadDesired
    PROVE  TypeInv'
<1>1. [at |-> "snapshot", want |-> desired] \in Place
  BY Places DEF TypeInv, TypeOK
<1>2. Loop \in Task
  BY DEF Task
<1>3. /\ task' \in [Task -> Place]
      /\ \A u \in Task : task'[u].at \in Starting => task[u].at \in Starting
  BY <1>1, <1>2, AwaitType DEF ReadDesired, TypeInv, Starting
<1> QED  BY <1>3 DEF ReadDesired, TypeInv, TypeOK, RecordInv

LEMMA ReconcileDesiredType ==
    ASSUME TypeInv, ReconcileDesired
    PROVE  TypeInv'
<1> DEFINE want == task[Loop].want
<1>1. Loop \in Task
  BY DEF Task
<1>2. want \in Desired \cup {Gone}
  BY <1>1, PlaceType DEF ReconcileDesired, TypeInv, TypeOK
<1>3. /\ tracked' \in Proc \cup {NoProc}
      /\ ffmpeg' \in [Proc -> Code]
      /\ state' \in Record \cup {NoRecord}
      /\ task' \in [Task -> Place]
      /\ RecordInv'
  <2>1. CASE want = Gone /\ state = NoRecord
    BY <1>1, <2>1, FinishType
    DEF ReconcileDesired, TypeInv, TypeOK, RecordInv, Code
  <2>2. CASE want = Gone /\ state # NoRecord
    <3>1. StopService(Disable(state)) /\ Finish(Loop)
      BY <2>2 DEF ReconcileDesired
    <3> QED
      BY <1>1, <2>2, <3>1, DisableType, StopServiceType, FinishType
      DEF TypeInv, RecordInv
  <2>3. CASE want # Gone
    <3>1. want.enabled \in BOOLEAN /\ want.cfg \in Cfg
      BY <1>2, <2>3 DEF Desired
    <3>2. ReconcileService(Loop, want.enabled, want.cfg, FALSE)
      BY <2>3 DEF ReconcileDesired
    <3> QED  BY <1>1, <3>1, <3>2, ReconcileServiceType
  <2> QED  BY <2>1, <2>2, <2>3
<1> QED  BY <1>3 DEF ReconcileDesired, TypeInv, TypeOK, Code

LEMMA WatchdogType ==
    ASSUME TypeInv, Watchdog
    PROVE  TypeInv'
<1>1. state \in Record /\ state # NoRecord
  BY DEF Watchdog, NeedsWatchdog, TypeInv, TypeOK
<1>2. [at |-> "launch", cfg |-> state.cfg] \in Place
  BY <1>1, Places DEF Record
<1>3. task' \in [Task -> Place] /\ ready' \in Seq(Slot)
  BY <1>2, CreateTaskType DEF Watchdog, TypeInv, TypeOK
<1> QED  BY <1>1, <1>3 DEF Watchdog, TypeInv, TypeOK, RecordInv

LEMMA FaultType ==
    ASSUME TypeInv, Fault
    PROVE  faults' \in 0..MaxFaults
BY BoundsAssumption DEF Fault, TypeInv, TypeOK

LEMMA RedisFailsType ==
    ASSUME TypeInv, NEW t \in Task, RedisFails(t)
    PROVE  TypeInv'
<1>1. faults' \in 0..MaxFaults /\ Finish(t)
  BY FaultType DEF RedisFails
<1>2. /\ task' \in [Task -> Place]
      /\ \A u \in Task : task'[u].at \in Starting => task[u].at \in Starting
  BY <1>1, FinishType DEF TypeInv
<1> QED  BY <1>1, <1>2 DEF RedisFails, TypeInv, TypeOK, RecordInv

LEMMA SpawnFailsType ==
    ASSUME TypeInv, NEW t \in Task, SpawnFails(t)
    PROVE  TypeInv'
<1>1. faults' \in 0..MaxFaults /\ Finish(t)
  BY FaultType DEF SpawnFails
<1>2. task' \in [Task -> Place]
  BY <1>1, FinishType DEF TypeInv
<1>3. state \in Record
  BY DEF SpawnFails, TypeInv, TypeOK, RecordInv, Starting
<1>4. state' \in Record
  BY <1>3, RecordType DEF SpawnFails
<1> QED  BY <1>1, <1>2, <1>4, RecordType DEF SpawnFails, TypeInv, TypeOK, RecordInv

LEMMA CrashType ==
    ASSUME TypeInv, Crash
    PROVE  TypeInv'
<1>1. faults' \in 0..MaxFaults
  BY FaultType DEF Crash
<1> QED
  BY <1>1, BoundsAssumption, Places
  DEF Crash, TypeInv, TypeOK, RecordInv, Starting

LEMMA TypeStep ==
    ASSUME TypeInv, [Next]_vars
    PROVE  TypeInv'
<1>1. CASE UNCHANGED vars
  BY <1>1 DEF vars, TypeInv, TypeOK, RecordInv
<1>2. CASE Api \/ LoseMessage \/ Listen \/ LoopStep \/ Watchdog \/ Crash
  BY <1>2, ApiType, LoseMessageType, ListenType, ReadDesiredType,
     ReconcileDesiredType, WatchdogType, CrashType DEF LoopStep
<1>3. CASE \E s \in Slot : BeginStep(s) \/ MonitorStep(s)
  BY <1>3, BeginReconcileType, BeginStopType, BeginLaunchType, BeginMonitorType,
     MonitorExitType, RelaunchType DEF BeginStep, MonitorStep
<1>4. CASE \E t \in Task : StartStep(t) \/ RedisFails(t) \/ SpawnFails(t)
  BY <1>4, AnnouncedType, SpawnedType, PublishedType, RedisFailsType,
     SpawnFailsType DEF StartStep
<1>5. CASE \E p \in Proc : FfmpegExit(p)
  BY <1>5, FfmpegExitType
<1> QED  BY <1>1, <1>2, <1>3, <1>4, <1>5 DEF Next

\* The types hold, and whatever writes a record finds one: no task that has
\* passed the beginning of start_service, and no monitor, runs without an
\* entry in self.state (worker.py:310-335, 400-430).
THEOREM TypeCorrect == Spec => []TypeOK
<1>1. TypeInv /\ [Next]_vars => TypeInv'
  BY TypeStep
<1>2. Spec => []TypeInv
  BY InitType, <1>1, PTL DEF Spec
<1>3. TypeInv => TypeOK
  BY DEF TypeInv
<1> QED  BY <1>2, <1>3, PTL

-----------------------------------------------------------------------------
(* A running record is tracked.                                            *)

LEMMA StopServiceTracked ==
    ASSUME NEW rec, StopService(rec), rec \in Record \cup {NoRecord},
           rec # NoRecord /\ rec.status = "running" => tracked # NoProc
    PROVE  RunningIsTracked'
<1>1. CASE tracked = NoProc
  BY <1>1 DEF StopService, RunningIsTracked
<1>2. CASE tracked # NoProc
  BY <1>2 DEF StopService, SetStatus, RunningIsTracked, Record
<1> QED  BY <1>1, <1>2

LEMMA ReconcileServiceTracked ==
    ASSUME TypeInv, RunningIsTracked, NEW t, NEW enabled \in BOOLEAN, NEW c,
           NEW force \in BOOLEAN, ReconcileService(t, enabled, c, force)
    PROVE  RunningIsTracked'
<1>1. CASE StopService(state)
  BY <1>1, StopServiceTracked DEF TypeInv, TypeOK, RunningIsTracked
<1>2. CASE UNCHANGED <<tracked, state>>
  BY <1>2 DEF RunningIsTracked
<1>3. CASE TrackedIsAlive /\ UNCHANGED tracked
  BY <1>3 DEF TrackedIsAlive, RunningIsTracked
<1>4. CASE BeginStart(t, c)
  BY <1>4 DEF BeginStart, RunningIsTracked
<1> QED  BY <1>1, <1>2, <1>3, <1>4 DEF ReconcileService

LEMMA RunningStep ==
    ASSUME TypeInv, RunningIsTracked, [Next]_vars
    PROVE  RunningIsTracked'
<1>1. CASE UNCHANGED <<state, tracked>>
  BY <1>1 DEF RunningIsTracked
<1>2. CASE Api \/ LoseMessage \/ ReadDesired \/ Watchdog
  BY <1>1, <1>2 DEF Api, ApiStart, ApiStop, ApiUpdate, ApiDelete, Publish,
     LoseMessage, ReadDesired, Watchdog
<1>3. CASE Listen
  BY <1>3 DEF Listen, Disable, TypeInv, TypeOK, Record, RunningIsTracked
<1>4. CASE ReconcileDesired
  <2>1. Disable(state) \in Record \cup {NoRecord}
        /\ (Disable(state) # NoRecord /\ Disable(state).status = "running"
            => tracked # NoProc)
    BY DisableType DEF Disable, TypeInv, TypeOK, Record, RunningIsTracked
  <2>2. StopService(Disable(state)) => RunningIsTracked'
    BY <2>1, StopServiceTracked
  <2>3. CASE task[Loop].want # Gone
    <3>1. task[Loop].want.enabled \in BOOLEAN
      BY <1>4, <2>3, PlaceType DEF ReconcileDesired, TypeInv, TypeOK, Task, Desired
    <3> QED  BY <1>4, <2>3, <3>1, ReconcileServiceTracked DEF ReconcileDesired
  <2> QED  BY <1>1, <1>4, <2>2, <2>3 DEF ReconcileDesired
<1>5. CASE Crash
  BY <1>5 DEF Crash, RunningIsTracked
<1>6. ASSUME NEW s \in Slot, BeginStep(s) \/ MonitorStep(s)
      PROVE  RunningIsTracked'
  <2>1. CASE BeginReconcile(s)
    BY <2>1, ReconcileServiceTracked DEF BeginReconcile
  <2>2. CASE BeginStop(s)
    BY <2>2, StopServiceTracked DEF BeginStop, TypeInv, TypeOK, RunningIsTracked
  <2>3. CASE BeginLaunch(s)
    BY <2>3 DEF BeginLaunch, BeginStart, RunningIsTracked
  <2>4. CASE BeginMonitor(s) \/ Relaunch(s)
    BY <1>1, <2>4 DEF BeginMonitor, Relaunch
  <2>5. CASE MonitorExit(s)
    <3>1. state \in Record
      BY <2>5 DEF MonitorExit, TypeInv, TypeOK, RecordInv, Starting, Task
    <3> DEFINE retry == ffmpeg[task[s].proc] = "retryable" \/ task[s].at = "wait"
    <3>2. \/ state' = [state EXCEPT !.status = "stopped"]
          \/ state' = [state EXCEPT !.status = "error", !.retryable = retry]
      BY <2>5, <3>1, RecordType DEF MonitorExit, SetStatus
    <3> HIDE DEF retry
    <3>3. state'.status # "running"
      BY <3>1, <3>2 DEF Record
    <3> QED  BY <3>3 DEF RunningIsTracked
  <2> QED  BY <1>6, <2>1, <2>2, <2>3, <2>4, <2>5 DEF BeginStep, MonitorStep
<1>7. ASSUME NEW t \in Task, StartStep(t) \/ RedisFails(t) \/ SpawnFails(t)
      PROVE  RunningIsTracked'
  <2>1. CASE Announced(t) \/ SpawnFails(t)
    <3>1. state \in Record
      BY <2>1 DEF Announced, SpawnFails, TypeInv, TypeOK, RecordInv, Starting
    <3> QED
      BY <2>1, <3>1 DEF Announced, SpawnFails, RunningIsTracked, Record
  <2>2. CASE Spawned(t)
    BY <2>2, BoundsAssumption DEF Spawned, FreeProcs, Proc, NoProc, RunningIsTracked
  <2>3. CASE Published(t) \/ RedisFails(t)
    BY <1>1, <2>3 DEF Published, RedisFails
  <2> QED  BY <1>7, <2>1, <2>2, <2>3 DEF StartStep
<1>8. CASE \E p \in Proc : FfmpegExit(p)
  BY <1>1, <1>8 DEF FfmpegExit
<1> QED
  BY <1>1, <1>2, <1>3, <1>4, <1>5, <1>6, <1>7, <1>8 DEF Next, LoopStep, vars

\* A record that says "running" belongs to a tracked process, whatever starts,
\* stops, exits, faults and crashes interleave (worker.py:278-286, 320-333,
\* 404-422).
THEOREM RunningTracked == Spec => []RunningIsTracked
<1>1. Init => RunningIsTracked
  BY DEF Init, RunningIsTracked
<1>2. TypeInv /\ [Next]_vars => TypeInv'
  BY TypeStep
<1>3. TypeInv /\ RunningIsTracked /\ [Next]_vars => RunningIsTracked'
  BY RunningStep
<1> QED  BY InitType, <1>1, <1>2, <1>3, PTL DEF Spec

-----------------------------------------------------------------------------
(* A tracked process is watched.  Either nothing is tracked after a step,  *)
(* or what watches the process before it watches it still.                 *)

Watches(t) == WatchedBy(t, tracked) \/ task[t].at \in {"publish", "monitor"}

\* A step that keeps the tracked process and its watchers, and adds no process.
LEMMA KeepsWatch ==
    ASSUME TrackedIsWatched, faults' >= faults, faults \in Nat, tracked' = tracked,
           tracked # NoProc /\ Running(tracked)' => Running(tracked),
           Running(tracked)' => \A t \in Task : Watches(t) => task'[t] = task[t] \/ Watches(t)'
    PROVE  TrackedIsWatched'
<1> SUFFICES ASSUME faults' = 0, tracked' # NoProc, Running(tracked)'
             PROVE  \E t \in Task : Watches(t)'
  BY DEF TrackedIsWatched, Watches
<1>1. faults = 0 /\ tracked # NoProc /\ Running(tracked)
  OBVIOUS
<1>2. PICK t \in Task : Watches(t)
  BY <1>1 DEF TrackedIsWatched, Watches
<1>3. task'[t] = task[t] => Watches(t)'
  BY <1>2 DEF Watches, WatchedBy
<1> QED  BY <1>2, <1>3

LEMMA NothingTracked == tracked' = NoProc => TrackedIsWatched'
BY DEF TrackedIsWatched

\* Only tasks that watch nothing change.
LEMMA FreshTask ==
    ASSUME TypeOK, NEW w \in Place, CreateTask(w, task)
    PROVE  \A t \in Task : Watches(t) => task'[t] = task[t]
BY DEF CreateTask, FreeSlots, Idle, Watches, WatchedBy, TypeOK

LEMMA ReconcileServiceWatched ==
    ASSUME TypeInv, TrackedIsWatched, UNCHANGED faults, NEW t \in Task,
           NEW enabled \in BOOLEAN, NEW c, NEW force \in BOOLEAN,
           ReconcileService(t, enabled, c, force), ~Watches(t)
    PROVE  TrackedIsWatched'
<1>1. faults \in Nat
  BY BoundsAssumption DEF TypeInv, TypeOK
<1>2. CASE StopService(state) \/ BeginStart(t, c)
  BY <1>2, NothingTracked DEF StopService, BeginStart
<1>3. CASE UNCHANGED <<ffmpeg, tracked>> /\ Finish(t)
  BY <1>1, <1>3, KeepsWatch DEF Finish, Running, TypeInv, TypeOK
<1> QED  BY <1>2, <1>3 DEF ReconcileService

LEMMA WatchedStep ==
    ASSUME TypeInv, TrackedIsWatched, [Next]_vars
    PROVE  TrackedIsWatched'
<1>0. faults \in Nat
  BY BoundsAssumption DEF TypeInv, TypeOK
<1>1. CASE UNCHANGED <<tracked, ffmpeg, task, faults>>
  BY <1>0, <1>1, KeepsWatch DEF Running
<1>2. CASE Api \/ LoseMessage
  BY <1>1, <1>2 DEF Api, ApiStart, ApiStop, ApiUpdate, ApiDelete, Publish, LoseMessage
<1>3. CASE Listen
  <2>1. Head(inbox) \in Message
    BY <1>3 DEF Listen, TypeInv, TypeOK
  <2>2. PICK w \in Place : CreateTask(w, task)
    BY <1>3, <2>1, Places DEF Listen, Message
  <2> QED  BY <1>0, <1>3, <2>2, FreshTask, KeepsWatch DEF Listen, Running, TypeInv
<1>4. CASE Watchdog
  <2>1. [at |-> "launch", cfg |-> state.cfg] \in Place
    BY <1>4, Places DEF Watchdog, NeedsWatchdog, TypeInv, TypeOK, Record
  <2> QED  BY <1>0, <1>4, <2>1, FreshTask, KeepsWatch DEF Watchdog, Running, TypeInv
<1>5. CASE ReadDesired
  BY <1>0, <1>5, KeepsWatch
  DEF ReadDesired, Await, Idle, Watches, WatchedBy, Running, TypeInv, TypeOK
<1>6. CASE ReconcileDesired
  <2>1. Loop \in Task /\ ~Watches(Loop) /\ UNCHANGED faults
    BY <1>6 DEF ReconcileDesired, Watches, WatchedBy, Task
  <2>2. CASE StopService(Disable(state))
    BY <2>2, NothingTracked DEF StopService
  <2>3. CASE UNCHANGED <<ffmpeg, tracked, state>> /\ Finish(Loop)
    BY <1>0, <2>1, <2>3, KeepsWatch DEF Finish, Running, TypeInv, TypeOK
  <2>4. CASE task[Loop].want # Gone
    <3>1. task[Loop].want.enabled \in BOOLEAN
      BY <1>6, <2>1, <2>4, PlaceType DEF ReconcileDesired, TypeInv, TypeOK, Desired
    <3> QED  BY <1>6, <2>1, <2>4, <3>1, ReconcileServiceWatched DEF ReconcileDesired
  <2> QED  BY <1>6, <2>2, <2>3, <2>4 DEF ReconcileDesired
<1>7. CASE Crash
  BY <1>7, NothingTracked DEF Crash
<1>8. ASSUME NEW s \in Slot, BeginStep(s)
      PROVE  TrackedIsWatched'
  <2>1. s \in Task
    BY DEF Task
  <2>2. CASE BeginReconcile(s)
    BY <2>1, <2>2, ReconcileServiceWatched
    DEF BeginReconcile, Begin, Watches, WatchedBy
  <2>3. CASE BeginStop(s) \/ BeginLaunch(s)
    BY <2>3, NothingTracked DEF BeginStop, BeginLaunch, StopService, BeginStart
  <2>4. CASE BeginMonitor(s)
    <3>1. CASE tracked = NoProc
      BY <2>4, <3>1, NothingTracked DEF BeginMonitor
    <3>2. CASE tracked # NoProc
      BY <2>1, <2>4, <3>2
      DEF BeginMonitor, Await, TrackedIsWatched, WatchedBy, TypeInv, TypeOK
    <3> QED  BY <3>1, <3>2
  <2> QED  BY <1>8, <2>2, <2>3, <2>4 DEF BeginStep
<1>9. ASSUME NEW s \in Slot, MonitorStep(s)
      PROVE  TrackedIsWatched'
  <2>1. s \in Task
    BY DEF Task
  <2>2. CASE MonitorExit(s)
    <3>1. Running(tracked) => ~Watches(s)
      BY <2>2 DEF MonitorExit, Watches, WatchedBy
    <3>2. UNCHANGED <<tracked, ffmpeg, faults>>
      BY <2>2 DEF MonitorExit
    <3>3. \A t \in Task : t # s => task'[t] = task[t]
      BY <2>2 DEF MonitorExit, Finish, Await, TypeInv, TypeOK
    <3> QED  BY <1>0, <3>1, <3>2, <3>3, KeepsWatch DEF Running
  <2>3. CASE Relaunch(s)
    <3>1. \A t \in Task : Watches(t) => task'[t] = task[t]
      BY <2>3
      DEF Relaunch, CreateTask, FreeSlots, Idle, Watches, WatchedBy, TypeInv, TypeOK
    <3> QED  BY <1>0, <2>3, <3>1, KeepsWatch DEF Relaunch, Running
  <2> QED  BY <1>9, <2>2, <2>3 DEF MonitorStep
<1>10. ASSUME NEW t \in Task, StartStep(t)
       PROVE  TrackedIsWatched'
  <2>1. CASE Announced(t)
    <3>1. \A u \in Task : Watches(u) => task'[u] = task[u]
      BY <2>1 DEF Announced, Finish, Await, Watches, WatchedBy, TypeInv, TypeOK
    <3> QED  BY <1>0, <2>1, <3>1, KeepsWatch DEF Announced, Running
  <2>2. CASE Spawned(t)
    BY <2>2 DEF Spawned, Await, TrackedIsWatched, TypeInv, TypeOK
  <2>3. CASE Published(t)
    <3>1. PICK s \in Task : task'[s] = [at |-> "monitor"]
      BY <2>3 DEF Published, CreateTask, FreeSlots, Task, TypeInv, TypeOK
    <3> QED  BY <3>1 DEF TrackedIsWatched
  <2> QED  BY <1>10, <2>1, <2>2, <2>3 DEF StartStep
<1>11. ASSUME NEW t \in Task, RedisFails(t) \/ SpawnFails(t)
       PROVE  TrackedIsWatched'
  <2>1. faults' > 0
    BY <1>0, <1>11 DEF RedisFails, SpawnFails, Fault
  <2> QED  BY <2>1 DEF TrackedIsWatched
<1>12. ASSUME NEW p \in Proc, FfmpegExit(p)
       PROVE  TrackedIsWatched'
  <2>1. UNCHANGED <<tracked, task, faults>>
    BY <1>12 DEF FfmpegExit
  <2>2. PICK kind, reads : ffmpeg' = Forget([ffmpeg EXCEPT ![p] = kind], reads)
    BY <1>12 DEF FfmpegExit
  <2>3. \A q \in Proc : Running(q)' => Running(q)
    BY <1>12, <2>2 DEF FfmpegExit, Running, Forget, TypeInv, TypeOK
  <2>4. tracked # NoProc => tracked \in Proc
    BY DEF TypeInv, TypeOK
  <2> QED  BY <1>0, <2>1, <2>3, <2>4, KeepsWatch
<1> QED
  BY <1>1, <1>2, <1>3, <1>4, <1>5, <1>6, <1>7, <1>8, <1>9, <1>10, <1>11, <1>12
  DEF Next, LoopStep, vars

\* As long as no Redis call failed, every tracked process is watched or about
\* to be, for any number of tasks and processes (worker.py:333-335, 352-354).
THEOREM TrackedWatched == Spec => []TrackedIsWatched
<1>1. Init => TrackedIsWatched
  BY DEF Init, TrackedIsWatched
<1>2. TypeInv /\ [Next]_vars => TypeInv'
  BY TypeStep
<1>3. TypeInv /\ TrackedIsWatched /\ [Next]_vars => TrackedIsWatched'
  BY WatchedStep
<1> QED  BY InitType, <1>1, <1>2, <1>3, PTL DEF Spec
=============================================================================
