---------------------------- MODULE StreamManager ----------------------------
(***************************************************************************)
(* The stand-alone deployment (backend/stream_manager.py, backend/main.py):*)
(* one process is web server and stream manager at once, and nodes share   *)
(* config.json instead of a database.  One node and one service are        *)
(* modelled; the other nodes are whoever edits the file.                   *)
(*                                                                         *)
(* As in WorkerRuntime, a coroutine runs alone between two awaits, and a   *)
(* task that was created begins before anything that waits for a timer, a  *)
(* process or the spawn.  A request's handler runs up to its first await   *)
(* when the request arrives.  Objects have identities here: a coroutine    *)
(* that awaits keeps the ServiceState it looked up, also after the service *)
(* has been deleted and created again.                                     *)
(*                                                                         *)
(* What a segment of a coroutine does to the manager and its file is an    *)
(* operator from one value of `sm' to the next.                            *)
(***************************************************************************)
EXTENDS Integers, FiniteSets

CONSTANTS
    None,           \* the file has no entry of the service
    MaxTasks,       \* bound: tasks alive at once, the loops aside
    MaxProcs,       \* bound: processes that run or are referred to
    MaxObjects,     \* bound: ServiceState objects that are referred to
    MaxEvents,      \* bound: requests, and edits of the file by other nodes
    MaxFaults       \* bound: failed starts, failed reads, crashes

ASSUME BoundsAssumption ==
    /\ MaxTasks \in Nat \ {0} /\ MaxProcs \in Nat \ {0}
    /\ MaxObjects \in Nat \ {0} /\ MaxEvents \in Nat /\ MaxFaults \in Nat

Slot == 1..MaxTasks
Sync == 0                       \* cluster_sync_loop's own task
Task == Slot \cup {Sync}
Proc == 1..MaxProcs
Object == 1..MaxObjects
Nothing == 0                    \* no object, no process

\* A config is cut down to whether it is enabled and whether its target_node
\* takes in this node ("all", this role, or a stand-alone node).
Config == [enabled : BOOLEAN, mine : BOOLEAN]
Status == {"stopped", "starting", "running", "error"}
State == [config : Config, status : Status]
NewState(c) == [config |-> c, status |-> "stopped"]
Blank == NewState([enabled |-> FALSE, mine |-> FALSE])

ASSUME NoneAssumption == None \notin Config

\* What a task does once its stop_service is over: nothing; start the service,
\* if the config it was given (which is still the service's own) says so;
\* start it whatever comes; delete it; or remove it, as the sync loop does.
After == {"end", "restart", "start", "delete", "drop"}

\* Where a task is.  The first row has been created and not begun.
Idle == [at |-> "idle"]
Place == {Idle} \cup [at : {"start", "stop", "monitor"}]
         \cup [at : {"spawn"}, object : Object]
         \cup [at : {"stopping"}, proc : Proc, after : After]
         \cup [at : {"watch"}, proc : Proc, object : Object]
         \cup [at : {"pause"}]

VARIABLES
    sm,         \* the manager and its file:
                \*   file, fresh     what config.json holds; its mtime > last_mtime
                \*   service         the object in self.services, or Nothing
                \*   object          the ServiceState objects
                \*   process         the entry of self.processes, or Nothing
                \*   ffmpeg          what each process is doing
                \*   task            where each task is
    missed,     \* history: the file was not read, an edit did not show in its mtime,
                \*   or a save crossed a removal
    events,     \* requests and edits so far
    faults      \* faults so far

vars == <<sm, missed, events, faults>>

TypeOK ==
    /\ sm \in [file : Config \cup {None}, fresh : BOOLEAN,
               service : Object \cup {Nothing}, object : [Object -> State],
               process : Proc \cup {Nothing},
               ffmpeg : [Proc -> {"live", "signalled", "exited"}],
               task : [Task -> Place]]
    /\ missed \in BOOLEAN
    /\ events \in 0..MaxEvents
    /\ faults \in 0..MaxFaults

-----------------------------------------------------------------------------
(* Looking at the manager.                                                 *)

Running(m, p) == m.ffmpeg[p] # "exited"

\* service_id in self.processes and its returncode is None
Alive(m) == m.process # Nothing /\ Running(m, m.process)

ConfigOf(m) == m.object[m.service].config
StatusOf(m) == m.object[m.service].status

\* Tasks that have been created and not begun.
Created(m) == {t \in Slot : m.task[t].at \in {"start", "stop", "monitor"}}
Quiet == Created(sm) = {}

FreeSlots(m) == {t \in Slot : m.task[t] = Idle}
Least(S) == CHOOSE x \in S : \A y \in S : x <= y
FreeSlot(m) == Least(FreeSlots(m))

Refers(m, o) ==
    m.service = o \/ \E t \in Task : m.task[t].at \in {"spawn", "watch"}
                                     /\ m.task[t].object = o
FreeObjects(m) == {o \in Object : ~Refers(m, o)}

Uses(m, p) ==
    m.process = p \/ \E t \in Task : m.task[t].at \in {"stopping", "watch"}
                                     /\ m.task[t].proc = p
FreeProcs(m) == {p \in Proc : ~Running(m, p) /\ ~Uses(m, p)}

\* What nothing refers to any more is forgotten.
Step(m) ==
    sm' = [m EXCEPT !.object = [o \in Object |-> IF Refers(m, o) THEN m.object[o]
                                                             ELSE Blank]]

-----------------------------------------------------------------------------
(* Segments.                                                               *)

Await(m, t, where) == [m EXCEPT !.task[t] = where]
Finish(m, t) == Await(m, t, Idle)
Create(m, kind) == Await(m, FreeSlot(m), [at |-> kind])

SetStatus(m, s) ==
    IF m.service = Nothing THEN m ELSE [m EXCEPT !.object[m.service].status = s]

\* save_configs writes what is in memory, and takes the file for read.
Save(m) ==
    [m EXCEPT !.file = IF m.service = Nothing THEN None ELSE ConfigOf(m),
              !.fresh = FALSE]

\* A PUT that still awaits its stop has lost its hold on the service's config
\* once that is replaced: requests no longer change what it will look at.
Unhook(m) ==
    [m EXCEPT !.task = [t \in Task |->
        IF m.task[t].at = "stopping" /\ m.task[t].after = "restart"
        THEN [m.task[t] EXCEPT !.after = IF ConfigOf(m).enabled THEN "start" ELSE "end"]
        ELSE m.task[t]]]

SetConfig(m, c) == [Unhook(m) EXCEPT !.object[m.service].config = c]

AddService(m, c) ==
    LET o == Least(FreeObjects(m))
    IN  [m EXCEPT !.service = o, !.object[o] = NewState(c)]

RemoveService(m) ==
    IF m.service = Nothing THEN m ELSE [Unhook(m) EXCEPT !.service = Nothing]

\* Mutant: memory forgets the service, the file does not.
DeleteInMemory(m) == RemoveService(m)

\* delete_service saves only when there was something to delete.
DeleteService(m) ==
    IF m.service = Nothing THEN m ELSE Save(RemoveService(m))

\* Mutant: a start of a service that is gone is not refused.
StartUnknown(m, t, builds) ==
    IF Alive(m) THEN Finish(m, t)
    ELSE Await(SetStatus(m, "starting"), t,
               IF builds THEN [at |-> "spawn", object |-> m.service] ELSE Idle)

\* start_service up to the spawn.  What builds the command may raise, and that
\* is outside the try: the status stays "starting".
StartService(m, t, builds) ==
    IF m.service = Nothing \/ Alive(m)
    THEN Finish(m, t)
    ELSE Await(SetStatus(m, "starting"), t,
               IF builds THEN [at |-> "spawn", object |-> m.service] ELSE Idle)

\* The rest of stop_service, from the process's exit on, and what its caller
\* does then.  The entry of self.processes goes, whichever process it names.
StopReturns(m, t, after, builds) ==
    LET n == Finish([m EXCEPT !.process = Nothing], t)
    IN  CASE after = "end"    -> n
          [] after = "start"  -> StartService(n, t, builds)
          [] after = "restart" -> IF ConfigOf(n).enabled
                                  THEN StartService(n, t, builds) ELSE n
          [] after = "delete" -> DeleteService(n)
          [] after = "drop"   -> RemoveService(n)

\* stop_service: without a live process there is no await in it.
StopService(m, t, after, builds) ==
    LET n == SetStatus(m, "stopped")
    IN  IF Alive(m)
        THEN Await([n EXCEPT !.ffmpeg[m.process] = "signalled"], t,
                   [at |-> "stopping", proc |-> m.process, after |-> after])
        ELSE StopReturns(n, t, after, builds)

-----------------------------------------------------------------------------
Fault == faults < MaxFaults /\ faults' = faults + 1

\* The command may fail to be built, where a segment comes to build one.
MayFail(Outcome(_)) ==
    \/ Step(Outcome(TRUE)) /\ UNCHANGED faults
    \/ Outcome(FALSE) # Outcome(TRUE) /\ Step(Outcome(FALSE)) /\ Fault

\* load_configs: every service is stopped, and last_mtime is 0.
Boot(file) ==
    LET empty == [file |-> file, fresh |-> TRUE, service |-> Nothing,
                  object |-> [o \in Object |-> Blank], process |-> Nothing,
                  ffmpeg |-> [p \in Proc |-> "exited"],
                  task |-> [t \in Task |-> Idle]]
    IN  IF file = None THEN empty ELSE AddService(empty, file)

Init ==
    /\ \E file \in Config \cup {None} : sm = Boot(file)
    /\ missed = FALSE
    /\ events = 0
    /\ faults = 0

-----------------------------------------------------------------------------
(* Requests.  Each needs a task while its handler awaits.                  *)

Event == events < MaxEvents /\ events' = events + 1

Request == Event /\ FreeSlots(sm) # {}

\* A save while the sync loop awaits the stop of a service it is removing.
Saves == missed' = (sm.task[Sync] # Idle)

\* POST; an id that exists is refused.
PostService ==
    /\ Request /\ Saves
    /\ sm.service = Nothing /\ FreeObjects(sm) # {}
    /\ \E c \in Config : Step(Save(AddService(sm, c)))
    /\ UNCHANGED faults

PutService ==
    /\ Request /\ Saves
    /\ sm.service # Nothing
    /\ \E c \in Config :
           LET saved == Save(SetConfig(sm, c))
               Outcome(b) == StopService(saved, FreeSlot(sm), "restart", b)
           IN  MayFail(Outcome)

DeleteRequest ==
    /\ Request
    /\ Step(StopService(sm, FreeSlot(sm), "delete", TRUE))
    /\ UNCHANGED <<missed, faults>>

StartRequest ==
    /\ Request /\ Saves
    /\ sm.service # Nothing
    /\ LET saved == Save([sm EXCEPT !.object[sm.service].config.enabled = TRUE])
           Outcome(b) == StartService(saved, FreeSlot(sm), b)
       IN  MayFail(Outcome)

StopRequest ==
    /\ Request /\ Saves
    /\ sm.service # Nothing
    /\ LET saved == Save([sm EXCEPT !.object[sm.service].config.enabled = FALSE])
       IN  Step(StopService(saved, FreeSlot(sm), "end", TRUE))
    /\ UNCHANGED faults

\* Another node saves the file.  If it does so between a save of this node and
\* its getmtime, or in the same tick of the clock, the mtime is not newer than
\* the one noted.
PeerSave ==
    /\ Event
    /\ \E c \in Config \cup {None}, newer \in BOOLEAN :
           /\ sm' = [sm EXCEPT !.file = c, !.fresh = @ \/ newer]
           /\ missed' = (missed \/ ~(sm.fresh \/ newer))
    /\ UNCHANGED faults

-----------------------------------------------------------------------------
(* Tasks that were created begin.                                          *)

BeginStart(t) ==
    /\ sm.task[t].at = "start"
    /\ LET Outcome(b) == StartService(sm, t, b) IN MayFail(Outcome)
    /\ UNCHANGED <<missed, events>>

BeginStop(t) ==
    /\ sm.task[t].at = "stop"
    /\ Step(StopService(sm, t, "end", TRUE))
    /\ UNCHANGED <<missed, events, faults>>

\* The monitor looks up the process and the state when it begins.
BeginMonitor(t) ==
    /\ sm.task[t].at = "monitor"
    /\ Step(IF sm.process = Nothing \/ sm.service = Nothing THEN Finish(sm, t)
            ELSE Await(sm, t, [at |-> "watch", proc |-> sm.process,
                               object |-> sm.service]))
    /\ UNCHANGED <<missed, events, faults>>

-----------------------------------------------------------------------------
(* Awaits that end.                                                        *)

\* Mutant: FFmpeg is spawned and nothing watches it.
SpawnedUnwatched(t) ==
    /\ Quiet /\ sm.task[t].at = "spawn"
    /\ FreeProcs(sm) # {}
    /\ LET p == Least(FreeProcs(sm))
           o == sm.task[t].object
       IN  Step(Finish([sm EXCEPT !.ffmpeg[p] = "live", !.process = p,
                                  !.object[o].status = "running"], t))
    /\ UNCHANGED <<missed, events, faults>>

\* The state is the one start_service looked up, the entry the service's, also
\* while a stop whose process has exited is about to delete the entry.
Spawned(t) ==
    /\ Quiet /\ sm.task[t].at = "spawn"
    /\ FreeProcs(sm) # {}
    /\ LET p == Least(FreeProcs(sm))
           o == sm.task[t].object
       IN  Step(Await([sm EXCEPT !.ffmpeg[p] = "live", !.process = p,
                                 !.object[o].status = "running"],
                      t, [at |-> "monitor"]))
    /\ UNCHANGED <<missed, events, faults>>

SpawnFails(t) ==
    /\ Quiet /\ sm.task[t].at = "spawn" /\ Fault
    /\ Step(Finish([sm EXCEPT !.object[sm.task[t].object].status = "error"], t))
    /\ UNCHANGED <<missed, events>>

StopEnds(t) ==
    /\ Quiet /\ sm.task[t].at = "stopping" /\ ~Running(sm, sm.task[t].proc)
    /\ LET Outcome(b) == StopReturns(sm, t, sm.task[t].after, b)
       IN  MayFail(Outcome)
    /\ UNCHANGED <<missed, events>>

\* The monitor may be late: it reads what FFmpeg has left on stderr first.  It
\* blames the state it looked up, and only one that still says "running".
MonitorExit(t) ==
    /\ Quiet /\ sm.task[t].at = "watch" /\ ~Running(sm, sm.task[t].proc)
    /\ LET o == sm.task[t].object
       IN  Step(IF sm.object[o].status = "running"
                THEN Await([sm EXCEPT !.object[o].status = "error"], t,
                           [at |-> "pause"])
                ELSE Finish(sm, t))
    /\ UNCHANGED <<missed, events, faults>>

\* Mutant: auto_restart does not ask whether the service is still enabled.
RestartAnyway(t) ==
    /\ Quiet /\ sm.task[t].at = "pause"
    /\ LET due == sm.service # Nothing /\ StatusOf(sm) = "error"
           Outcome(b) == IF due THEN StartService(sm, t, b) ELSE Finish(sm, t)
       IN  MayFail(Outcome)
    /\ UNCHANGED <<missed, events>>

\* auto_restart, five seconds later.
AutoRestart(t) ==
    /\ Quiet /\ sm.task[t].at = "pause"
    /\ LET due == /\ sm.service # Nothing
                  /\ ConfigOf(sm).enabled /\ StatusOf(sm) = "error"
           Outcome(b) == IF due THEN StartService(sm, t, b) ELSE Finish(sm, t)
       IN  MayFail(Outcome)
    /\ UNCHANGED <<missed, events>>

FfmpegExit(p) ==
    /\ Quiet /\ Running(sm, p)
    /\ Step([sm EXCEPT !.ffmpeg[p] = "exited"])
    /\ UNCHANGED <<missed, events, faults>>

-----------------------------------------------------------------------------
(* The loops.                                                              *)

ShouldRun(m) == ConfigOf(m).enabled /\ ConfigOf(m).mine

\* Start what should run here and stop what should not.
Orchestrate(m) ==
    IF ShouldRun(m) /\ StatusOf(m) = "stopped" THEN Create(m, "start")
    ELSE IF ~ShouldRun(m) /\ StatusOf(m) \in {"running", "starting"}
    THEN Create(m, "stop")
    ELSE m

\* cluster_sync_loop, when the file is newer than what was last read.
SyncRead ==
    /\ Quiet /\ sm.task[Sync] = Idle
    /\ sm.fresh /\ FreeSlots(sm) # {}
    /\ LET m == [sm EXCEPT !.fresh = FALSE]
       IN  IF m.file # None
           THEN /\ m.service = Nothing => FreeObjects(m) # {}
                /\ Step(Orchestrate(IF m.service = Nothing THEN AddService(m, m.file)
                                                           ELSE SetConfig(m, m.file)))
           ELSE Step(IF m.process = Nothing THEN RemoveService(m)
                     ELSE IF m.service = Nothing THEN m
                     ELSE StopService(m, Sync, "drop", TRUE))
    /\ missed' = FALSE
    /\ UNCHANGED <<events, faults>>

\* The file cannot be parsed, as while another node is writing it.  Its mtime
\* has been noted all the same.
SyncFails ==
    /\ Quiet /\ sm.task[Sync] = Idle
    /\ sm.fresh /\ Fault
    /\ sm' = [sm EXCEPT !.fresh = FALSE]
    /\ missed' = TRUE
    /\ UNCHANGED events

\* Mutant: the watchdog cares for errors only.
WatchErrors ==
    /\ Quiet /\ FreeSlots(sm) # {}
    /\ sm.service # Nothing /\ ShouldRun(sm) /\ StatusOf(sm) = "error"
    /\ Step(Create(sm, "start"))
    /\ UNCHANGED <<missed, events, faults>>

Watchdog ==
    /\ Quiet /\ FreeSlots(sm) # {}
    /\ sm.service # Nothing /\ ShouldRun(sm) /\ StatusOf(sm) \in {"error", "stopped"}
    /\ Step(Create(sm, "start"))
    /\ UNCHANGED <<missed, events, faults>>

\* The container restarts.
Crash ==
    /\ Fault
    /\ sm' = Boot(sm.file)
    /\ missed' = FALSE
    /\ UNCHANGED events

-----------------------------------------------------------------------------
Requests == PostService \/ PutService \/ DeleteRequest \/ StartRequest \/ StopRequest

BeginStep(t) == BeginStart(t) \/ BeginStop(t) \/ BeginMonitor(t)

Resume(t) == Spawned(t) \/ StopEnds(t) \/ MonitorExit(t) \/ AutoRestart(t)

Next ==
    \/ Requests \/ PeerSave \/ SyncRead \/ SyncFails \/ Watchdog \/ Crash
    \/ \E t \in Task : Resume(t) \/ SpawnFails(t)
    \/ \E t \in Slot : BeginStep(t)
    \/ \E p \in Proc : FfmpegExit(p)

\* As in WorkerRuntime: what waits for Quiet gets strong fairness, and of the
\* tasks that may go on and the processes that were signalled, one does.
Fairness ==
    /\ WF_vars(\E t \in Slot : BeginStep(t))
    /\ SF_vars(SyncRead) /\ SF_vars(Watchdog)
    /\ SF_vars(Resume(Sync)) /\ SF_vars(\E t \in Slot : Resume(t))
    /\ SF_vars(\E p \in Proc : sm.ffmpeg[p] = "signalled" /\ FfmpegExit(p))

Spec == Init /\ [][Next]_vars /\ Fairness

-----------------------------------------------------------------------------
(* Properties.                                                             *)

\* A service that says "running" has a monitor that will correct its state, or is
\* about to get one, through every interleaving of stops, starts and deletions.
\* The process it watches need not be the one in self.processes
\* (stream_manager.py:147-163, 271-283).
RunningIsWatched ==
    sm.service # Nothing /\ StatusOf(sm) = "running" =>
        \E t \in Slot : \/ sm.task[t].at = "monitor"
                        \/ sm.task[t].at = "watch" /\ sm.task[t].object = sm.service

\* Once the node has taken the file for read, its memory and the file agree on
\* the service, unless something was missed (stream_manager.py:25-31, 56-78).
MemoryIsFile ==
    ~sm.fresh /\ sm.task[Sync] = Idle /\ ~missed =>
        sm.file = IF sm.service = Nothing THEN None ELSE ConfigOf(sm)

\* A start left the status at "starting" and nothing is under way.
Stuck ==
    /\ sm.service # Nothing /\ StatusOf(sm) = "starting"
    /\ \A t \in Slot : ~(sm.task[t].at = "spawn" /\ sm.task[t].object = sm.service)

\* The bounds leave room for another task, process and object.
Room == FreeSlots(sm) # {} /\ FreeProcs(sm) # {} /\ FreeObjects(sm) # {}

\* The entry of self.processes is gone, as when a spawn ends just before a stop
\* deletes it, and FFmpeg runs on with a monitor.
RunsUntracked ==
    \E t \in Slot : /\ sm.task[t].at = "watch" /\ sm.task[t].object = sm.service
                    /\ Running(sm, sm.task[t].proc)

\* A service that this node should run has a live FFmpeg again and again, if
\* not under its entry of self.processes then under the eyes of its monitor,
\* unless a start got stuck (stream_manager.py:92-102, 185-186, 285-298).
WantedRecovers ==
    /\ <>[](sm.service # Nothing /\ ShouldRun(sm) /\ ~Stuck)
    /\ []<>(Quiet /\ Room)
    => []<>(Alive(sm) \/ RunsUntracked)

\* A service that stays disabled is at some point no longer started by anyone,
\* whatever restarts were pending (stream_manager.py:97, 288).
DisabledIsLeftAlone ==
    <>[](sm.service # Nothing /\ ~ConfigOf(sm).enabled) =>
        <>[](\A t \in Slot : sm.task[t].at \notin {"start", "spawn"})

=============================================================================
