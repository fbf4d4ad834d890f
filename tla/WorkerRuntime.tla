---------------------------- MODULE WorkerRuntime ----------------------------
(***************************************************************************)
(* One worker and one service, at the grain of the worker's asyncio tasks  *)
(* (worker/worker.py).  A coroutine runs alone until it awaits Redis, the  *)
(* spawn of FFmpeg or the exit of FFmpeg; what it read before the await    *)
(* may be stale after it.  The listener of stream_commands, the reconcile  *)
(* loop, the watchdog and the monitors all start and stop the one entry of *)
(* self.processes, with no lock.                                           *)
(*                                                                         *)
(* A created task begins in the event loop's next iteration, before any    *)
(* timer or I/O that is not ready yet: Begin steps come first, and only    *)
(* the listener may handle a further message before them.  Steps that are  *)
(* ready in one and the same iteration come before or after, not between.  *)
(*                                                                         *)
(* The service is not active_passive (HALease has the leases) and this     *)
(* worker is its target.  Which input is active is left out.               *)
(***************************************************************************)
EXTENDS Integers, Sequences, FiniteSets

CONSTANTS
    Cfg,            \* versions of the service's config
    BadCfg,         \* those the multicast preflight refuses on this worker
    MaxTasks,       \* bound: tasks alive at once, the loops aside
    MaxProcs,       \* bound: processes a task or self.processes refers to
    MaxInbox,       \* bound: undelivered messages
    MaxRequests,    \* bound: requests to the API
    MaxFaults,      \* bound: failed Redis calls, failed spawns, crashes
    ExitKinds,      \* how FFmpeg may exit by itself
    AutoFailover,   \* config.auto_failover, with a backup_input_ip
    Lossy           \* whether a published message may be lost

ASSUME BoundsAssumption ==
    /\ MaxTasks \in Nat \ {0} /\ MaxProcs \in Nat \ {0}
    /\ MaxInbox \in Nat /\ MaxFaults \in Nat /\ MaxRequests \in Nat
ASSUME ServiceAssumption ==
    /\ Cfg # {} /\ BadCfg \subseteq Cfg
    /\ ExitKinds \subseteq {"clean", "retryable", "fatal"}
    /\ AutoFailover \in BOOLEAN /\ Lossy \in BOOLEAN

Slot == 1..MaxTasks
Loop == 0                       \* the reconcile loop's own task
Task == Slot \cup {Loop}
Proc == 1..MaxProcs
NoProc == 0

Gone == [kind |-> "gone"]       \* no entry in service_configs
Desired == [kind : {"row"}, enabled : BOOLEAN, cfg : Cfg]
NoRecord == [status |-> "none"] \* no entry in self.state
Record == [status : {"starting", "running", "stopped", "error"},
           enabled : BOOLEAN, retryable : BOOLEAN, cfg : Cfg, fingerprint : Cfg]

Message == [action : {"start"}, cfg : Cfg] \cup [action : {"stop"}]

\* Where a task is.  The first row has been created and not begun; the second
\* awaits Redis or the spawn; the third awaits its process.
New  == [at : {"reconcile", "launch"}, cfg : Cfg] \cup [at : {"stop", "monitor"}]
Busy == [at : {"snapshot"}, want : Desired \cup {Gone}]
        \cup [at : {"announce", "spawn"}, cfg : Cfg]
        \cup [at : {"publish", "report"}]
Watching == [at : {"watch", "wait"}, proc : Proc]
Idle == [at |-> "idle"]
Place == New \cup Busy \cup Watching \cup {Idle}

VARIABLES
    desired,    \* the service's entry in service_configs
    inbox,      \* messages published and not yet handled
    state,      \* self.state[id]
    tracked,    \* self.processes[id]
    ffmpeg,     \* what each process is doing, or how it exited
    task,       \* the tasks of the worker
    ready,      \* tasks created and not begun, in their order
    requests,   \* API requests so far
    faults      \* faults so far

vars == <<desired, inbox, state, tracked, ffmpeg, task, ready, requests, faults>>

TypeOK ==
    /\ desired \in Desired \cup {Gone}
    /\ inbox \in Seq(Message) /\ Len(inbox) <= MaxInbox
    /\ state \in Record \cup {NoRecord}
    /\ tracked \in Proc \cup {NoProc}
    /\ ffmpeg \in [Proc -> {"live", "signalled", "clean", "retryable", "fatal"}]
    /\ task \in [Task -> Place]
    /\ ready \in Seq(Slot)
    /\ requests \in 0..MaxRequests
    /\ faults \in 0..MaxFaults

-----------------------------------------------------------------------------
Running(p) == ffmpeg[p] \in {"live", "signalled"}

\* config.id in self.processes and its returncode is None
TrackedIsAlive == tracked # NoProc /\ Running(tracked)

WatchedBy(t, p) == task[t].at \in {"watch", "wait"} /\ task[t].proc = p

\* Nothing created is waiting to begin.
Quiet == ready = <<>>

FreeSlots(tasks) == {s \in Slot : tasks[s] = Idle}
FreeProcs == {p \in Proc : ~Running(p) /\ p # tracked
                           /\ \A t \in Slot : ~WatchedBy(t, p)}

\* asyncio.create_task: the task joins those created and not begun.
CreateTask(new, tasks) ==
    \E s \in FreeSlots(tasks) :
        /\ \A r \in FreeSlots(tasks) : s <= r
        /\ task' = [tasks EXCEPT ![s] = new]
        /\ ready' = Append(ready, s)

Finish(t) == task' = [task EXCEPT ![t] = Idle]
Await(t, where) == task' = [task EXCEPT ![t] = where]

\* An exit code that no task will read is forgotten.
Forget(codes, reads) ==
    [p \in Proc |-> IF codes[p] \in {"live", "signalled"} \/ reads[p]
                    THEN codes[p] ELSE "clean"]

Watched == [p \in Proc |-> \E t \in Slot : WatchedBy(t, p)]

\* p.terminate(): SIGTERM to a process that still runs.
Terminate ==
    Forget([p \in Proc |-> IF p = tracked /\ ffmpeg[p] = "live"
                           THEN "signalled" ELSE ffmpeg[p]], Watched)

SetStatus(rec, s) == IF rec = NoRecord THEN rec ELSE [rec EXCEPT !.status = s]

\* Mutants of Disable, forms a plausible bug would give the code: the record
\* of a stopped service is dropped; it is left enabled.
Drop(rec) == NoRecord
KeepEnabled(rec) == rec

Disable(rec) == IF rec = NoRecord THEN rec ELSE [rec EXCEPT !.enabled = FALSE]

\* Mutant: the record of a stopped service keeps its status.
StopQuietly(rec) ==
    /\ ffmpeg' = Terminate
    /\ tracked' = NoProc
    /\ state' = rec

\* stop_service up to its release_lease, which has no token to release here.
\* `rec' is self.state[id] as the caller leaves it.
StopService(rec) ==
    /\ ffmpeg' = Terminate
    /\ tracked' = NoProc
    /\ state' = IF tracked = NoProc THEN rec ELSE SetStatus(rec, "stopped")

\* start_service up to its first await: whatever runs is stopped and a new
\* record replaces the old one.
BeginStart(t, c) ==
    /\ ffmpeg' = Terminate
    /\ tracked' = NoProc
    /\ state' = [status |-> "starting", enabled |-> TRUE, retryable |-> TRUE,
                 cfg |-> c, fingerprint |-> c]
    /\ Await(t, [at |-> "announce", cfg |-> c])


\* The last start of this very config failed for good.
GaveUp(c) == state # NoRecord /\ ~state.retryable /\ state.fingerprint = c

\* reconcile_service for a config read or received before.
ReconcileService(t, enabled, c, force) ==
    \/ /\ ~enabled
       /\ IF tracked # NoProc THEN StopService(state)
                              ELSE UNCHANGED <<ffmpeg, tracked, state>>
       /\ Finish(t)
    \/ /\ enabled /\ TrackedIsAlive
       /\ state' = [state EXCEPT !.cfg = c, !.enabled = TRUE]
       /\ Finish(t)
       /\ UNCHANGED <<ffmpeg, tracked>>
    \/ /\ enabled /\ ~TrackedIsAlive
       /\ IF ~force /\ GaveUp(c)
          THEN Finish(t) /\ UNCHANGED <<ffmpeg, tracked, state>>
          ELSE BeginStart(t, c)

-----------------------------------------------------------------------------
Init ==
    /\ desired \in Desired \cup {Gone}
    /\ inbox = <<>>
    /\ state = NoRecord
    /\ tracked = NoProc
    /\ ffmpeg = [p \in Proc |-> "clean"]
    /\ task = [t \in Task |-> Idle]
    /\ ready = <<>>
    /\ requests = 0
    /\ faults = 0

(* The API: the desired config changes, then commands are published.       *)

Publish(messages) ==
    /\ requests < MaxRequests
    /\ requests' = requests + 1
    /\ Len(inbox) + Len(messages) <= MaxInbox
    /\ inbox' = inbox \o messages
    /\ UNCHANGED <<state, tracked, ffmpeg, task, ready, faults>>

StartMessage(c) == [action |-> "start", cfg |-> c]
StopMessage == [action |-> "stop"]

ApiStart ==
    /\ desired # Gone
    /\ desired' = [desired EXCEPT !.enabled = TRUE]
    /\ Publish(<<StartMessage(desired.cfg)>>)

ApiStop ==
    /\ desired # Gone
    /\ desired' = [desired EXCEPT !.enabled = FALSE]
    /\ Publish(<<StopMessage>>)

\* A PUT, which also creates: stop, then start when the new config is enabled.
ApiUpdate ==
    \E c \in Cfg, e \in BOOLEAN :
        /\ desired' = [kind |-> "row", enabled |-> e, cfg |-> c]
        /\ Publish(IF e THEN <<StopMessage, StartMessage(c)>> ELSE <<StopMessage>>)

ApiDelete ==
    /\ desired' = Gone
    /\ Publish(<<StopMessage>>)

\* Pub/Sub keeps nothing for a subscriber that is reconnecting.
LoseMessage ==
    /\ Lossy /\ inbox # <<>>
    /\ inbox' = Tail(inbox)
    /\ UNCHANGED <<requests, desired, state, tracked, ffmpeg, task, ready, faults>>

-----------------------------------------------------------------------------
(* The listener and the tasks it creates.                                  *)

Listen ==
    /\ inbox # <<>>
    /\ LET message == Head(inbox)
       IN  IF message.action = "start"
           THEN /\ CreateTask([at |-> "reconcile", cfg |-> message.cfg], task)
                /\ UNCHANGED state
           ELSE /\ CreateTask([at |-> "stop"], task)
                /\ state' = Disable(state)
    /\ inbox' = Tail(inbox)
    /\ UNCHANGED <<requests, desired, tracked, ffmpeg, faults>>

\* Tasks begin in the order of their creation.
Begin(s, where) ==
    /\ ready # <<>> /\ s = Head(ready) /\ task[s].at = where
    /\ ready' = Tail(ready)
    /\ UNCHANGED <<requests, desired, inbox, faults>>

BeginReconcile(s) ==
    /\ Begin(s, "reconcile")
    /\ ReconcileService(s, TRUE, task[s].cfg, TRUE)

BeginStop(s) ==
    /\ Begin(s, "stop")
    /\ StopService(state)
    /\ Finish(s)

BeginLaunch(s) ==
    /\ Begin(s, "launch")
    /\ BeginStart(s, task[s].cfg)

\* The monitor looks its process up when it begins.  A second reader of the
\* same stderr gets an error and is left with waiting for the exit.
BeginMonitor(s) ==
    /\ Begin(s, "monitor")
    /\ IF tracked = NoProc
       THEN Finish(s)
       ELSE Await(s, [at   |-> IF \E t \in Slot : WatchedBy(t, tracked)
                               THEN "wait" ELSE "watch",
                      proc |-> tracked])
    /\ UNCHANGED <<state, tracked, ffmpeg>>

-----------------------------------------------------------------------------
(* The rest of start_service, in a task of its own or in the loop's.       *)

\* "starting" is in Redis; then the preflight, which refuses a bad config.
Announced(t) ==
    /\ Quiet /\ task[t].at = "announce"
    /\ IF task[t].cfg \in BadCfg
       THEN /\ state' = [state EXCEPT !.status = "error", !.retryable = FALSE]
            /\ Finish(t)
       ELSE /\ Await(t, [at |-> "spawn", cfg |-> task[t].cfg])
            /\ UNCHANGED state
    /\ UNCHANGED <<requests, desired, inbox, tracked, ffmpeg, ready, faults>>

Spawned(t) ==
    /\ Quiet /\ task[t].at = "spawn"
    /\ \E p \in FreeProcs :
           /\ \A q \in FreeProcs : p <= q
           /\ ffmpeg' = [ffmpeg EXCEPT ![p] = "live"]
           /\ tracked' = p
    /\ state' = [state EXCEPT !.status = "running"]
    /\ Await(t, [at |-> "publish"])
    /\ UNCHANGED <<requests, desired, inbox, ready, faults>>

\* Mutant: one monitor for each service, not for each process.
PublishedOnce(t) ==
    /\ Quiet /\ task[t].at = "publish"
    /\ IF \E s \in Slot : task[s].at \in {"monitor", "watch", "wait"}
       THEN Finish(t) /\ UNCHANGED ready
       ELSE CreateTask([at |-> "monitor"], [task EXCEPT ![t] = Idle])
    /\ UNCHANGED <<requests, desired, inbox, state, tracked, ffmpeg, faults>>

Published(t) ==
    /\ Quiet /\ task[t].at = "publish"
    /\ CreateTask([at |-> "monitor"], [task EXCEPT ![t] = Idle])
    /\ UNCHANGED <<requests, desired, inbox, state, tracked, ffmpeg, faults>>

-----------------------------------------------------------------------------
(* FFmpeg and its monitors.                                                *)

\* A signalled FFmpeg exits with a nonzero code and no error of its own.
FfmpegExit(p) ==
    /\ Quiet /\ Running(p)
    /\ \E kind \in IF ffmpeg[p] = "live" THEN ExitKinds ELSE {"retryable"} :
           ffmpeg' = Forget([ffmpeg EXCEPT ![p] = kind],
                            [q \in Proc |-> Watched[q] \/ q = tracked])
    /\ UNCHANGED <<requests, desired, inbox, state, tracked, task, ready, faults>>

\* The monitor writes the current record, whichever process that is about.
\* The toggle to the other input waits for the record to be published.
MonitorExit(s) ==
    /\ Quiet /\ task[s].at \in {"watch", "wait"} /\ ~Running(task[s].proc)
    /\ LET code  == ffmpeg[task[s].proc]
           retry == code = "retryable" \/ task[s].at = "wait"
       IN  IF code = "clean"
           THEN state' = SetStatus(state, "stopped") /\ Finish(s)
           ELSE /\ state' = [state EXCEPT !.status = "error", !.retryable = retry]
                /\ IF retry /\ AutoFailover THEN Await(s, [at |-> "report"])
                                            ELSE Finish(s)
    /\ UNCHANGED <<requests, desired, inbox, tracked, ffmpeg, ready, faults>>

\* auto_failover: the record's config is launched again.
Relaunch(s) ==
    /\ Quiet /\ task[s].at = "report"
    /\ CreateTask([at |-> "launch", cfg |-> state.cfg], [task EXCEPT ![s] = Idle])
    /\ UNCHANGED <<requests, desired, inbox, state, tracked, ffmpeg, faults>>

-----------------------------------------------------------------------------
(* The loops.                                                              *)

\* hgetall answers with what Redis holds now.
ReadDesired ==
    /\ Quiet /\ task[Loop] = Idle
    /\ Await(Loop, [at |-> "snapshot", want |-> desired])
    /\ UNCHANGED <<requests, desired, inbox, state, tracked, ffmpeg, ready, faults>>

ReconcileDesired ==
    /\ Quiet /\ task[Loop].at = "snapshot"
    /\ LET want == task[Loop].want
       IN  IF want = Gone
           THEN /\ IF state = NoRecord THEN UNCHANGED <<ffmpeg, tracked, state>>
                                       ELSE StopService(Disable(state))
                /\ Finish(Loop)
           ELSE ReconcileService(Loop, want.enabled, want.cfg, FALSE)
    /\ UNCHANGED <<requests, desired, inbox, ready, faults>>

\* The watchdog launches what it finds dead, enabled and retryable.
NeedsWatchdog ==
    /\ state # NoRecord
    /\ state.enabled /\ state.status \in {"error", "stopped"} /\ state.retryable

Watchdog ==
    /\ Quiet /\ NeedsWatchdog
    /\ CreateTask([at |-> "launch", cfg |-> state.cfg], task)
    /\ UNCHANGED <<requests, desired, inbox, state, tracked, ffmpeg, faults>>

-----------------------------------------------------------------------------
(* Faults.                                                                 *)

Fault == faults < MaxFaults /\ faults' = faults + 1

\* A Redis call raises: the round of the loop or the task ends there.  After
\* the spawn it leaves a process that no monitor watches.
RedisFails(t) ==
    /\ Quiet /\ Fault
    /\ task[t].at \in {"snapshot", "announce", "publish", "report"}
    /\ Finish(t)
    /\ UNCHANGED <<requests, desired, inbox, state, tracked, ffmpeg, ready>>

SpawnFails(t) ==
    /\ Quiet /\ Fault
    /\ task[t].at = "spawn"
    /\ state' = [state EXCEPT !.status = "error"]
    /\ Finish(t)
    /\ UNCHANGED <<requests, desired, inbox, tracked, ffmpeg, ready>>

\* The container restarts: its processes are gone and so are its dictionaries
\* and subscription.
Crash ==
    /\ Fault
    /\ inbox' = <<>>
    /\ state' = NoRecord
    /\ tracked' = NoProc
    /\ ffmpeg' = [p \in Proc |-> "clean"]
    /\ task' = [t \in Task |-> Idle]
    /\ ready' = <<>>
    /\ UNCHANGED <<requests, desired>>

-----------------------------------------------------------------------------
Api == ApiStart \/ ApiStop \/ ApiUpdate \/ ApiDelete

BeginStep(s) ==
    BeginReconcile(s) \/ BeginStop(s) \/ BeginLaunch(s) \/ BeginMonitor(s)

MonitorStep(s) == MonitorExit(s) \/ Relaunch(s)

StartStep(t) == Announced(t) \/ Spawned(t) \/ Published(t)

LoopStep == ReadDesired \/ ReconcileDesired

Next ==
    \/ Api \/ LoseMessage \/ Listen \/ LoopStep \/ Watchdog \/ Crash
    \/ \E s \in Slot : BeginStep(s) \/ MonitorStep(s)
    \/ \E t \in Task : StartStep(t) \/ RedisFails(t) \/ SpawnFails(t)
    \/ \E p \in Proc : FfmpegExit(p)

\* The event loop runs every handle that becomes ready, however many tasks are
\* created meanwhile: what waits for Quiet gets strong fairness.  Of the tasks
\* that may go on, and of the processes that were sent SIGTERM, one does, which
\* is less than the event loop and the kernel give.  Nothing is asked of the
\* watchdog.
Fairness ==
    /\ WF_vars(Listen)
    /\ WF_vars(\E s \in Slot : BeginStep(s))
    /\ SF_vars(LoopStep \/ StartStep(Loop))
    /\ SF_vars(\E s \in Slot : StartStep(s) \/ MonitorStep(s))
    /\ SF_vars(\E p \in Proc : ffmpeg[p] = "signalled" /\ FfmpegExit(p))

Spec == Init /\ [][Next]_vars /\ Fairness

-----------------------------------------------------------------------------
(* Properties.                                                             *)

\* A record that says "running" belongs to a tracked process: no interleaving
\* of starts, stops and monitors leaves a running status behind a pipeline
\* that was stopped (worker.py:278-286, 320-333, 404-422).
RunningIsTracked ==
    state # NoRecord /\ state.status = "running" => tracked # NoProc

\* As long as no Redis call failed, a tracked process has a monitor or is about
\* to get one, although each monitor looks its process up anew when it begins
\* (worker.py:333-335, 352-354).
TrackedIsWatched ==
    faults = 0 /\ tracked # NoProc /\ Running(tracked) =>
        \E t \in Task : \/ WatchedBy(t, tracked)
                        \/ task[t].at \in {"publish", "monitor"}

\* The bounds leave room for another task and another process.
Room == FreeSlots(task) # {} /\ FreeProcs # {}

Wanted(c) == desired = [kind |-> "row", enabled |-> TRUE, cfg |-> c]
Disabled == desired # Gone /\ ~desired.enabled

\* A deleted service whose record has no auto_failover ends up without a tracked
\* process for good, whatever was in flight, and also when the stop message is
\* lost (worker.py:124-127).  With auto_failover it does not: the exit code of
\* the stop is an error, the monitor launches the config again and the reconcile
\* loop stops it again, for ever (worker.py:404-420).
DeletedStaysStopped ==
    ~AutoFailover =>
        (<>[](desired = Gone /\ Room) => <>[](tracked = NoProc))

\* A service that stays enabled has a live process again and again, unless the
\* record says that this very config failed for good: neither a lost message,
\* nor a Redis call or spawn that failed, nor the verdict on another config
\* holds it back (worker.py:112-129, 151-165).
FailedForGood(c) == state # NoRecord /\ ~state.retryable /\ state.fingerprint = c


\* What UI_USER_GUIDE.md says of Stop: a service that stays disabled ends up
\* with no FFmpeg at all.
StopStops ==
    <>[](Disabled /\ Room) => <>[](\A p \in Proc : ~Running(p))

=============================================================================
