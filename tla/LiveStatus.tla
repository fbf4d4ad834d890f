----------------------------- MODULE LiveStatus ------------------------------
(***************************************************************************)
(* What the deployment says of one service: the workers write its status   *)
(* into stream_metrics_cache and publish it (worker/worker.py:251-276,     *)
(* 337-350), the API shows it (api/main.py:238-262, 321-352), and the      *)
(* exporter turns what is published into gauges (telemetry/main.py).       *)
(*                                                                         *)
(* Three kinds of tasks write in a worker: those that start FFmpeg, the    *)
(* monitors, and the metrics loop.  Each awaits its own HSET on a          *)
(* connection of its own, so Redis may execute them in any order.  When    *)
(* FFmpeg is started, stopped and ends is left open here; WorkerRuntime    *)
(* and HALease say when.  A start may follow a stop at once, so that the   *)
(* monitor of the FFmpeg stopped reports into the record of its successor. *)
(* The row stays enabled.                                                  *)
(***************************************************************************)
EXTENDS Integers

CONSTANTS
    Node,           \* the roles of the workers
    All,            \* target_node "all"
    None,           \* no entry, no failover node
    Starter,        \* bound: tasks of a worker that may start FFmpeg at a time
    Monitor,        \* bound: monitors of a worker that may run at a time
    Configs,        \* configs of the service: target, failover, active_passive
    MaxEvents,      \* bound: starts, stops, API startups
    MaxFaults       \* bound: crashes, of the exporter too, and failed HSETs

ASSUME ConfigsAssumption ==
    /\ All \notin Node /\ None \notin Node
    /\ Configs \subseteq [target : Node \cup {All}, failover : Node \cup {None},
                          active_passive : BOOLEAN]
ASSUME BoundsAssumption ==
    MaxEvents \in Nat /\ MaxFaults \in Nat

Status == {"starting", "running", "stopped", "error"}
ASSUME NoneAssumption == None \notin Status

Task == Starter \cup Monitor \cup {"metrics"}
ASSUME TaskAssumption ==
    /\ "metrics" \notin Starter \cup Monitor
    /\ Starter \cap Monitor = {}

\* Where a task is: it awaits an HSET, the spawn, the end of FFmpeg, or, with the
\* HSET executed, the reply after which the metrics loop publishes.
Idle == [at |-> "idle"]
Place == {Idle} \cup [at : {"spawn", "watch", "stored"}] \cup [at : {"hset"}, status : Status]

VARIABLES
    config,     \* the service's config
    up,         \* the worker process is running
    hb,         \* its heartbeat key exists
    status,     \* state[id]["status"], None without a record
    proc,       \* the service has an entry in processes
    task,       \* where each task is
    cache,      \* the entry of stream_metrics_cache
    gauge,      \* what the exporter's gauges say of each node
    events,     \* events so far
    faults      \* faults so far

worker == <<up, hb, status, proc, task>>
counters == <<events, faults>>
vars == <<config, worker, cache, gauge, counters>>

TypeOK ==
    /\ config \in Configs
    /\ up \in [Node -> BOOLEAN] /\ hb \in [Node -> BOOLEAN]
    /\ status \in [Node -> Status \cup {None}]
    /\ proc \in [Node -> BOOLEAN]
    /\ task \in [Node -> [Task -> Place]]
    /\ cache \in Status \cup {None}
    /\ gauge \in [Node -> {"active", "error", "none"}]
    /\ events \in 0..MaxEvents
    /\ faults \in 0..MaxFaults

-----------------------------------------------------------------------------
(* The API.                                                                *)

\* should_run_on_node, which the workers ask.
RunsOn(n) ==
    IF config.active_passive THEN n \in {config.target, config.failover}
                             ELSE config.target \in {All, n}

\* Mutant: the failover node is not counted.
TargetOnly == {config.target}

\* eligible_worker_roles, which the API asks.
EligibleRoles ==
    IF config.target # All /\ config.active_passive
    THEN {config.target, config.failover} \ {None}
    ELSE {config.target}

WorkerRoles == {n \in Node : hb[n]}

HasEligibleWorker ==
    IF All \in EligibleRoles THEN WorkerRoles # {}
                             ELSE EligibleRoles \cap WorkerRoles # {}

\* GET /api/services: the status shown for the service.
Shown ==
    LET said == IF cache = None THEN "stopped" ELSE cache
    IN  IF said = "stopped" /\ ~HasEligibleWorker THEN "pending_worker" ELSE said

-----------------------------------------------------------------------------
Init ==
    /\ config \in Configs
    /\ up = [n \in Node |-> FALSE] /\ hb = [n \in Node |-> FALSE]
    /\ status = [n \in Node |-> None]
    /\ proc = [n \in Node |-> FALSE]
    /\ task = [n \in Node |-> [t \in Task |-> Idle]]
    /\ cache = None
    /\ gauge = [n \in Node |-> "none"]
    /\ events = 0 /\ faults = 0

Event == events < MaxEvents /\ events' = events + 1 /\ UNCHANGED faults
Fault == faults < MaxFaults /\ faults' = faults + 1 /\ UNCHANGED events

At(n, t, place) == task[n][t].at = place
Goto(n, t, where) == task' = [task EXCEPT ![n][t] = where]

\* A task sets the status of its worker's record and publishes it.
SetAndPublish(n, t, s) ==
    /\ status' = [status EXCEPT ![n] = s]
    /\ Goto(n, t, [at |-> "hset", status |-> s])

\* The API starts and refuses the service's row by the multicast policy.
StartupRefuses ==
    /\ Event
    /\ cache' = "error"
    /\ UNCHANGED <<config, worker, gauge>>

-----------------------------------------------------------------------------
(* A worker's pipeline.                                                    *)

\* start_service, which stops what runs, up to the HSET of its first
\* publish_service_state.
StartService(n, t) ==
    /\ Event
    /\ up[n] /\ RunsOn(n) /\ At(n, t, "idle")
    /\ proc' = [proc EXCEPT ![n] = FALSE]
    /\ SetAndPublish(n, t, "starting")
    /\ UNCHANGED <<config, up, hb, cache, gauge>>

\* The command cannot be built or FFmpeg not be spawned, or it runs.
Launched(n, t) ==
    /\ At(n, t, "spawn")
    /\ \/ /\ SetAndPublish(n, t, "running")
          /\ proc' = [proc EXCEPT ![n] = TRUE]
       \/ SetAndPublish(n, t, "error") /\ UNCHANGED proc
    /\ UNCHANGED <<config, up, hb, cache, gauge, counters>>

\* stop_service changes the record and publishes nothing.
StopService(n) ==
    /\ Event
    /\ up[n] /\ proc[n]
    /\ status' = [status EXCEPT ![n] = "stopped"]
    /\ proc' = [proc EXCEPT ![n] = FALSE]
    /\ UNCHANGED <<config, up, hb, task, cache, gauge>>

\* FFmpeg has ended, by itself or by a stop, and its monitor reports it in the
\* record there is by now.
MonitorExit(n, m) ==
    /\ At(n, m, "watch")
    /\ \E s \in {"error", "stopped"} : SetAndPublish(n, m, s)
    /\ UNCHANGED <<config, up, hb, proc, cache, gauge, counters>>

-----------------------------------------------------------------------------
(* Writing and publishing.                                                 *)

\* Mutant: the metrics loop publishes and does not write the cache.
MetricsUncached(n) ==
    /\ up[n] /\ status[n] # None /\ At(n, "metrics", "idle")
    /\ Goto(n, "metrics", [at |-> "stored"])
    /\ UNCHANGED <<config, up, hb, status, proc, cache, gauge, counters>>

\* Mutant: the metrics loop also writes for a service it has no record of.
MetricsOfNothing(n) ==
    /\ up[n] /\ At(n, "metrics", "idle")
    /\ Goto(n, "metrics", [at |-> "hset", status |-> status[n]])
    /\ UNCHANGED <<config, up, hb, status, proc, cache, gauge, counters>>

\* Mutant: the metrics loop leaves a running service to the publish of its start.
MetricsOfOthers(n) ==
    /\ up[n] /\ status[n] \notin {None, "running"} /\ At(n, "metrics", "idle")
    /\ Goto(n, "metrics", [at |-> "hset", status |-> status[n]])
    /\ UNCHANGED <<config, up, hb, status, proc, cache, gauge, counters>>

\* A round of metrics_loop, up to the HSET.
Metrics(n) ==
    /\ up[n] /\ status[n] # None /\ At(n, "metrics", "idle")
    /\ Goto(n, "metrics", [at |-> "hset", status |-> status[n]])
    /\ UNCHANGED <<config, up, hb, status, proc, cache, gauge, counters>>

\* Where a task goes on after its HSET: the first one of a start is followed by
\* the spawn.
AfterHset(n, t) ==
    IF t = "metrics" THEN [at |-> "stored"]
    ELSE IF t \in Starter /\ task[n][t].status = "starting" THEN [at |-> "spawn"]
    ELSE Idle

Hset(n, t) ==
    /\ At(n, t, "hset")
    /\ ~(t \in Starter /\ task[n][t].status = "running")
    /\ cache' = task[n][t].status
    /\ Goto(n, t, AfterHset(n, t))
    /\ UNCHANGED <<config, up, hb, status, proc, gauge, counters>>

\* A start that has published "running" creates a monitor, which watches the
\* process that it finds in processes and returns at once if there is none.
HsetOfRunning(n, t) ==
    /\ t \in Starter /\ At(n, t, "hset") /\ task[n][t].status = "running"
    /\ cache' = "running"
    /\ IF proc[n]
       THEN LET free == {m \in Monitor : At(n, m, "idle")}
            IN  /\ free # {}
                /\ task' = [task EXCEPT ![n][t] = Idle,
                                        ![n][CHOOSE m \in free : TRUE] = [at |-> "watch"]]
       ELSE Goto(n, t, Idle)
    /\ UNCHANGED <<config, up, hb, status, proc, gauge, counters>>

\* The exporter counts a node's services that run and those in error.
Gauge(s) == CASE s = "running" -> "active" [] s = "error" -> "error" [] OTHER -> "none"

\* Mutant: only a service that runs is reported to the exporter.
PublishRunning(n) ==
    /\ At(n, "metrics", "stored")
    /\ gauge' = IF status[n] = "running" THEN [gauge EXCEPT ![n] = "active"] ELSE gauge
    /\ Goto(n, "metrics", Idle)
    /\ UNCHANGED <<config, up, hb, status, proc, cache, counters>>

\* What is published is the status after the reply, not the one written.  The
\* exporter, which reads in order, takes it for the node's.
PublishMetrics(n) ==
    /\ At(n, "metrics", "stored")
    /\ gauge' = [gauge EXCEPT ![n] = Gauge(status[n])]
    /\ Goto(n, "metrics", Idle)
    /\ UNCHANGED <<config, up, hb, status, proc, cache, counters>>

\* The HSET raises, executed or not.  A start ends before its spawn or before
\* its monitor is created; the metrics loop ends its round.
HsetFails(n, t) ==
    /\ Fault /\ At(n, t, "hset")
    /\ cache' \in {cache, task[n][t].status}
    /\ Goto(n, t, Idle)
    /\ UNCHANGED <<config, up, hb, status, proc, gauge>>

-----------------------------------------------------------------------------
(* Processes and keys.                                                     *)

Boot(n) ==
    /\ ~up[n]
    /\ up' = [up EXCEPT ![n] = TRUE]
    /\ UNCHANGED <<config, hb, status, proc, task, cache, gauge, counters>>

Heartbeat(n) ==
    /\ up[n]
    /\ hb' = [hb EXCEPT ![n] = TRUE]
    /\ UNCHANGED <<config, up, status, proc, task, cache, gauge, counters>>

HeartbeatExpires(n) ==
    /\ hb[n] /\ ~up[n]
    /\ hb' = [hb EXCEPT ![n] = FALSE]
    /\ UNCHANGED <<config, up, status, proc, task, cache, gauge, counters>>

Crash(n) ==
    /\ Fault /\ up[n]
    /\ up' = [up EXCEPT ![n] = FALSE]
    /\ status' = [status EXCEPT ![n] = None]
    /\ proc' = [proc EXCEPT ![n] = FALSE]
    /\ task' = [task EXCEPT ![n] = [t \in Task |-> Idle]]
    /\ UNCHANGED <<config, hb, cache, gauge>>

\* What was published while the exporter was down is lost, and so are its
\* gauges.
ExporterRestarts ==
    /\ Fault
    /\ gauge' = [n \in Node |-> "none"]
    /\ UNCHANGED <<config, worker, cache>>

Next ==
    \/ StartupRefuses \/ ExporterRestarts
    \/ \E n \in Node :
          \/ StopService(n) \/ Metrics(n) \/ PublishMetrics(n)
          \/ Boot(n) \/ Heartbeat(n) \/ HeartbeatExpires(n) \/ Crash(n)
          \/ \E t \in Starter : StartService(n, t) \/ Launched(n, t) \/ HsetOfRunning(n, t)
          \/ \E m \in Monitor : MonitorExit(n, m)
          \/ \E t \in Task : Hset(n, t) \/ HsetFails(n, t)

\* Loops come round and Redis answers.  That FFmpeg ends or a spawn returns is
\* not assumed, and nothing below needs it.
Fairness ==
    \A n \in Node :
        /\ WF_vars(Metrics(n)) /\ WF_vars(PublishMetrics(n))
        /\ WF_vars(Heartbeat(n)) /\ WF_vars(HeartbeatExpires(n))
        /\ \A t \in Task : WF_vars(Hset(n, t) \/ HsetOfRunning(n, t))

Spec == Init /\ [][Next]_vars /\ Fairness

-----------------------------------------------------------------------------
(* Properties.                                                             *)

\* A service for which an online worker runs FFmpeg or starts it is never shown
\* as pending, although the API and the worker each decide with a function of
\* their own where it may run (main.py:247-262, 337-338; worker.py:31-34).
PendingIsTrue ==
    Shown = "pending_worker" =>
        \A n \in Node : status[n] \in {"starting", "running"} => ~hb[n]

\* From some point on, no worker's record changes any more.
Settles == <>[][UNCHANGED <<up, status>>]_vars

\* If one worker alone has a record of the service and nothing more happens to
\* it, the API comes to show its status and keeps showing it, whatever writes
\* were lost, failed or overtook each other (worker.py:251-266, 337-350).
LastWordIsShown ==
    \A n \in Node :
        /\ Settles
        /\ <>[](status[n] # None /\ \A m \in Node \ {n} : status[m] = None)
        => <>[](Shown = status[n])

\* A worker that runs FFmpeg for good is not talked down by the others' records
\* for good: the API shows "running" again and again (worker.py:255-266).
RunningIsSeen ==
    \A n \in Node : <>[](status[n] = "running") => []<>(Shown = "running")

\* The exporter comes to show, for every worker, that worker's own status, also
\* after it was restarted (worker.py:267-274; telemetry/main.py:41-56).
GaugesFollow ==
    \A n \in Node :
        Settles /\ <>[](status[n] # None) => <>[](gauge[n] = Gauge(status[n]))

=============================================================================
