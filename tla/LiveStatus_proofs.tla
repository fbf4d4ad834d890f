-------------------------- MODULE LiveStatus_proofs ---------------------------
(***************************************************************************)
(* What LiveStatus promises for any nodes and configs, and any number of   *)
(* events and faults.                                                      *)
(***************************************************************************)
EXTENDS LiveStatus, TLAPS

Launching == {"starting", "running"}

\* A worker launches the service only where the config lets it run.
RunsWhereAllowed ==
    \A n \in Node :
        /\ status[n] \in Launching => RunsOn(n)
        /\ \A t \in Starter :
               /\ task[n][t].at = "spawn" => RunsOn(n)
               /\ task[n][t].at = "hset" /\ task[n][t].status \in Launching => RunsOn(n)

Inv == TypeOK /\ RunsWhereAllowed

-----------------------------------------------------------------------------
\* A step of one task of one node.
LEMMA GotoType ==
    ASSUME task \in [Node -> [Task -> Place]], NEW n \in Node, NEW t \in Task,
           NEW where \in Place, Goto(n, t, where)
    PROVE  /\ task' \in [Node -> [Task -> Place]]
           /\ \A m \in Node, u \in Task :
                  task'[m][u] = IF m = n /\ u = t THEN where ELSE task[m][u]
BY DEF Goto

LEMMA Places ==
    /\ Idle \in Place /\ [at |-> "spawn"] \in Place /\ [at |-> "stored"] \in Place
    /\ [at |-> "watch"] \in Place
    /\ \A s \in Status : [at |-> "hset", status |-> s] \in Place
    /\ \A p \in Place : p.at = "hset" => p.status \in Status
BY DEF Place, Idle

ProcType == [Node -> BOOLEAN]
GaugeType == [Node -> {"active", "error", "none"}]

\* A step that moves task t of node n, and may set the node's status.
LEMMA TaskStep ==
    ASSUME Inv, NEW n \in Node, NEW t \in Task, NEW where \in Place, Goto(n, t, where),
           NEW s \in Status \cup {None}, status' = [status EXCEPT ![n] = s],
           s \in Launching => RunsOn(n),
           where.at = "spawn" => RunsOn(n),
           t \in Starter /\ where.at = "hset" /\ where.status \in Launching => RunsOn(n),
           UNCHANGED <<config, up, hb>>,
           proc' \in ProcType, gauge' \in GaugeType, cache' \in Status \cup {None},
           events' \in 0..MaxEvents, faults' \in 0..MaxFaults
    PROVE  Inv'
<1>1. /\ task' \in [Node -> [Task -> Place]]
      /\ \A m \in Node, u \in Task :
             task'[m][u] = IF m = n /\ u = t THEN where ELSE task[m][u]
  BY GotoType DEF Inv, TypeOK
<1>2. TypeOK'
  BY <1>1 DEF Inv, TypeOK, ProcType, GaugeType
<1>3. \A m \in Node : status'[m] = IF m = n THEN s ELSE status[m]
  BY DEF Inv, TypeOK
<1>4. \A m \in Node : RunsOn(m)' <=> RunsOn(m)
  BY DEF RunsOn
<1>5. Starter \subseteq Task
  BY DEF Task
<1>6. ASSUME NEW m \in Node
      PROVE  /\ status'[m] \in Launching => RunsOn(m)
             /\ \A u \in Starter :
                    /\ task'[m][u].at = "spawn" => RunsOn(m)
                    /\ task'[m][u].at = "hset" /\ task'[m][u].status \in Launching =>
                           RunsOn(m)
  <2>1. CASE m = n
    BY <1>1, <1>3, <1>5, <2>1 DEF Inv, RunsWhereAllowed
  <2>2. CASE m # n
    BY <1>1, <1>3, <1>5, <2>2 DEF Inv, RunsWhereAllowed
  <2> QED  BY <2>1, <2>2
<1> QED  BY <1>2, <1>4, <1>6 DEF Inv, RunsWhereAllowed

\* The same for a step that leaves the records alone.
LEMMA MoveStep ==
    ASSUME Inv, NEW n \in Node, NEW t \in Task, NEW where \in Place, Goto(n, t, where),
           UNCHANGED <<config, up, hb, status>>,
           where.at = "spawn" => RunsOn(n),
           t \in Starter => where.at # "hset",
           proc' \in ProcType, gauge' \in GaugeType, cache' \in Status \cup {None},
           events' \in 0..MaxEvents, faults' \in 0..MaxFaults
    PROVE  Inv'
<1>1. status' = [status EXCEPT ![n] = status[n]] /\ status[n] \in Status \cup {None}
  BY DEF Inv, TypeOK
<1>2. status[n] \in Launching => RunsOn(n)
  BY DEF Inv, RunsWhereAllowed
<1> QED  BY <1>1, <1>2, TaskStep

LEMMA Bounds ==
    ASSUME Inv
    PROVE  /\ proc \in ProcType /\ gauge \in GaugeType /\ cache \in Status \cup {None}
           /\ (Event \/ Fault \/ UNCHANGED counters) =>
                  events' \in 0..MaxEvents /\ faults' \in 0..MaxFaults
BY BoundsAssumption DEF Inv, TypeOK, ProcType, GaugeType, Event, Fault, counters

LEMMA InitInv == Init => Inv
<1> SUFFICES ASSUME Init PROVE Inv
  OBVIOUS
<1>1. \A n \in Node, t \in Task : task[n][t] = Idle
  BY DEF Init
<1>2. task \in [Node -> [Task -> Place]]
  BY Places DEF Init
<1>3. TypeOK
  BY <1>2, BoundsAssumption DEF Init, TypeOK
<1>4. \A n \in Node : status[n] = None /\ \A t \in Starter : task[n][t].at = "idle"
  BY <1>1 DEF Init, Idle, Task
<1> QED  BY <1>3, <1>4, NoneAssumption DEF Inv, RunsWhereAllowed, Launching, Status

-----------------------------------------------------------------------------
LEMMA PipelineInv ==
    ASSUME Inv, NEW n \in Node,
           \/ StopService(n)
           \/ \E t \in Starter : StartService(n, t) \/ Launched(n, t)
           \/ \E m \in Monitor : MonitorExit(n, m)
    PROVE  Inv'
<1>1. ASSUME NEW t \in Starter, StartService(n, t)
      PROVE  Inv'
  <2>1. /\ Goto(n, t, [at |-> "hset", status |-> "starting"])
        /\ status' = [status EXCEPT ![n] = "starting"]
        /\ RunsOn(n) /\ UNCHANGED <<config, up, hb, cache, gauge>> /\ Event
    BY <1>1 DEF StartService, SetAndPublish
  <2>2. proc' \in ProcType
    BY <1>1, Bounds DEF StartService, ProcType
  <2>3. t \in Task /\ "starting" \in Status
    BY DEF Task, Status
  <2>4. [at |-> "hset", status |-> "starting"] \in Place
    BY <2>3, Places
  <2> QED  BY <2>1, <2>2, <2>3, <2>4, Bounds, TaskStep
<1>2. ASSUME NEW t \in Starter, Launched(n, t)
      PROVE  Inv'
  <2>1. RunsOn(n)
    BY <1>2 DEF Launched, At, Inv, RunsWhereAllowed
  <2>2. PICK s \in {"running", "error"} :
            /\ Goto(n, t, [at |-> "hset", status |-> s])
            /\ status' = [status EXCEPT ![n] = s]
            /\ UNCHANGED <<config, up, hb, cache, gauge, counters>>
            /\ proc' \in {proc, [proc EXCEPT ![n] = TRUE]}
    BY <1>2 DEF Launched, SetAndPublish
  <2>3. proc' \in ProcType
    BY <2>2, Bounds DEF ProcType
  <2>4. t \in Task /\ s \in Status
    BY DEF Task, Status
  <2>5. [at |-> "hset", status |-> s] \in Place
    BY <2>4, Places
  <2> QED  BY <2>1, <2>2, <2>3, <2>4, <2>5, Bounds, TaskStep
<1>3. CASE StopService(n)
  <2>1. TypeOK'
    BY <1>3, BoundsAssumption DEF StopService, Event, Inv, TypeOK, Status
  <2>2. \A m \in Node : status'[m] \in Launching => status[m] \in Launching
    BY <1>3 DEF StopService, Inv, TypeOK, Launching
  <2>3. UNCHANGED <<config, task>>
    BY <1>3 DEF StopService
  <2> QED  BY <2>1, <2>2, <2>3 DEF Inv, RunsWhereAllowed, RunsOn
<1>4. ASSUME NEW m \in Monitor, MonitorExit(n, m)
      PROVE  Inv'
  <2>1. PICK s \in {"error", "stopped"} :
            /\ Goto(n, m, [at |-> "hset", status |-> s])
            /\ status' = [status EXCEPT ![n] = s]
            /\ UNCHANGED <<config, up, hb, proc, cache, gauge, counters>>
    BY <1>4 DEF MonitorExit, SetAndPublish
  <2>2. m \in Task /\ s \in Status /\ s \notin Launching
    BY DEF Task, Status, Launching
  <2>3. [at |-> "hset", status |-> s] \in Place
    BY <2>2, Places
  <2> QED  BY <2>1, <2>2, <2>3, Bounds, TaskStep
<1> QED  BY <1>1, <1>2, <1>3, <1>4

\* A start that goes over to a monitor of its own.
LEMMA HandOverInv ==
    ASSUME Inv, NEW n \in Node, NEW t \in Starter, HsetOfRunning(n, t)
    PROVE  Inv'
<1>1. t \in Task /\ Starter \subseteq Task /\ Monitor \subseteq Task
  BY DEF Task
<1>2. /\ cache' = "running" /\ "running" \in Status
      /\ UNCHANGED <<config, up, hb, status, proc, gauge, counters>>
  BY DEF HsetOfRunning, Status
<1>3. CASE ~proc[n]
  <2>1. Goto(n, t, Idle)
    BY <1>3 DEF HsetOfRunning
  <2>2. Idle.at = "idle"
    BY DEF Idle
  <2> QED  BY <1>1, <1>2, <2>1, <2>2, Places, Bounds, MoveStep
<1>4. CASE proc[n]
  <2> DEFINE free == {m \in Monitor : At(n, m, "idle")}
             new == CHOOSE m \in free : TRUE
  <2>1. /\ free # {}
        /\ task' = [task EXCEPT ![n][t] = Idle, ![n][new] = [at |-> "watch"]]
    BY <1>4 DEF HsetOfRunning
  <2>2. new \in Monitor
    BY <2>1
  <2> HIDE DEF new
  <2>3. \A m \in Node, u \in Task :
            task'[m][u] = IF m = n /\ u = new THEN [at |-> "watch"]
                          ELSE IF m = n /\ u = t THEN Idle ELSE task[m][u]
    BY <1>1, <2>1, <2>2 DEF Inv, TypeOK
  <2>4. task' \in [Node -> [Task -> Place]]
    BY <1>1, <2>1, <2>2, Places DEF Inv, TypeOK
  <2>5. TypeOK'
    BY <1>2, <2>4 DEF Inv, TypeOK, counters
  <2>6. \A m \in Node, u \in Starter :
            task'[m][u] = Idle \/ task'[m][u] = task[m][u]
    BY <1>1, <2>2, <2>3, TaskAssumption
  <2>7. Idle.at = "idle"
    BY DEF Idle
  <2> QED  BY <1>2, <2>5, <2>6, <2>7 DEF Inv, RunsWhereAllowed, RunsOn
<1> QED  BY <1>3, <1>4

LEMMA MetricsInv ==
    ASSUME Inv, NEW n \in Node, Metrics(n) \/ PublishMetrics(n)
    PROVE  Inv'
<1>1. "metrics" \in Task /\ "metrics" \notin Starter
  BY TaskAssumption DEF Task
<1>2. CASE Metrics(n)
  <2>1. /\ Goto(n, "metrics", [at |-> "hset", status |-> status[n]])
        /\ UNCHANGED <<config, up, hb, status, proc, cache, gauge, counters>>
    BY <1>2 DEF Metrics
  <2>2. status[n] \in Status
    BY <1>2 DEF Metrics, Inv, TypeOK
  <2>3. [at |-> "hset", status |-> status[n]] \in Place
    BY <2>2, Places
  <2> QED  BY <1>1, <2>1, <2>3, Bounds, MoveStep
<1>3. CASE PublishMetrics(n)
  <2>1. Goto(n, "metrics", Idle)
        /\ UNCHANGED <<config, up, hb, status, proc, cache, counters>>
    BY <1>3 DEF PublishMetrics
  <2>2. gauge' \in GaugeType
    BY <1>3, Bounds DEF PublishMetrics, Gauge, GaugeType
  <2>3. Idle.at = "idle"
    BY DEF Idle
  <2> QED  BY <1>1, <2>1, <2>2, <2>3, Places, Bounds, MoveStep
<1> QED  BY <1>2, <1>3

LEMMA HsetInv ==
    ASSUME Inv, NEW n \in Node, NEW t \in Task, Hset(n, t) \/ HsetFails(n, t)
    PROVE  Inv'
<1>1. task[n][t] \in Place /\ task[n][t].at = "hset"
  BY DEF Hset, HsetFails, At, Inv, TypeOK
<1>2. task[n][t].status \in Status
  BY <1>1, Places
<1>3. Idle.at = "idle"
  BY DEF Idle
<1>4. CASE Hset(n, t)
  <2>1. /\ Goto(n, t, AfterHset(n, t))
        /\ UNCHANGED <<config, up, hb, status, gauge, counters>>
        /\ cache' \in Status \cup {None}
    BY <1>2, <1>4 DEF Hset
  <2>2. proc' \in ProcType
    BY <2>1, <1>4, Bounds DEF Hset
  <2>3. AfterHset(n, t) \in Place /\ AfterHset(n, t).at # "hset"
    BY <1>3, Places DEF AfterHset
  <2>4. AfterHset(n, t).at = "spawn" => t \in Starter /\ task[n][t].status = "starting"
    BY <1>3 DEF AfterHset
  <2>5. AfterHset(n, t).at = "spawn" => RunsOn(n)
    BY <1>1, <2>4 DEF Inv, RunsWhereAllowed, Launching
  <2> QED  BY <2>1, <2>2, <2>3, <2>5, Bounds, MoveStep
<1>5. CASE HsetFails(n, t)
  <2>1. Goto(n, t, Idle) /\ UNCHANGED <<config, up, hb, status, gauge>> /\ Fault
        /\ cache' \in Status \cup {None}
    BY <1>2, <1>5, Bounds DEF HsetFails
  <2>2. proc' \in ProcType
    BY <1>5, Bounds DEF HsetFails
  <2> QED  BY <1>3, <2>1, <2>2, Places, Bounds, MoveStep
<1> QED  BY <1>4, <1>5

LEMMA ProcessInv ==
    ASSUME Inv,
           \/ StartupRefuses \/ ExporterRestarts
           \/ \E n \in Node : Boot(n) \/ Heartbeat(n) \/ HeartbeatExpires(n) \/ Crash(n)
    PROVE  Inv'
<1>1. CASE StartupRefuses \/ ExporterRestarts
  <2>1. TypeOK'
    BY <1>1, BoundsAssumption
    DEF StartupRefuses, ExporterRestarts, Event, Fault, Inv, TypeOK, worker, Status
  <2> QED
    BY <1>1, <2>1 DEF StartupRefuses, ExporterRestarts, worker, Inv, RunsWhereAllowed, RunsOn
<1>2. ASSUME NEW n \in Node, Boot(n) \/ Heartbeat(n) \/ HeartbeatExpires(n)
      PROVE  Inv'
  <2>1. TypeOK'
    BY <1>2 DEF Boot, Heartbeat, HeartbeatExpires, Inv, TypeOK, counters
  <2> QED
    BY <1>2, <2>1 DEF Boot, Heartbeat, HeartbeatExpires, Inv, RunsWhereAllowed, RunsOn
<1>3. ASSUME NEW n \in Node, Crash(n)
      PROVE  Inv'
  <2>1. /\ task' \in [Node -> [Task -> Place]]
        /\ \A m \in Node, t \in Starter : task'[m][t] = IF m = n THEN Idle ELSE task[m][t]
    BY <1>3, Places DEF Crash, Inv, TypeOK, Task
  <2>2. \A m \in Node : status'[m] = IF m = n THEN None ELSE status[m]
    BY <1>3 DEF Crash, Inv, TypeOK
  <2>3. TypeOK'
    BY <1>3, <2>1, BoundsAssumption DEF Crash, Fault, Inv, TypeOK
  <2>4. None \notin Launching /\ Idle.at = "idle"
    BY NoneAssumption DEF Launching, Status, Idle
  <2>5. UNCHANGED config
    BY <1>3 DEF Crash
  <2> QED  BY <2>1, <2>2, <2>3, <2>4, <2>5 DEF Inv, RunsWhereAllowed, RunsOn
<1> QED  BY <1>1, <1>2, <1>3

LEMMA Step ==
    ASSUME Inv, [Next]_vars
    PROVE  Inv'
<1>1. CASE UNCHANGED vars
  BY <1>1 DEF vars, worker, counters, Inv, TypeOK, RunsWhereAllowed, RunsOn
<1> QED
  BY <1>1, PipelineInv, HandOverInv, MetricsInv, HsetInv, ProcessInv DEF Next

\* Every reachable state is type correct.
THEOREM TypeCorrect == Spec => []TypeOK
<1>1. Inv /\ [Next]_vars => Inv'
  BY Step
<1>2. Inv => TypeOK
  BY DEF Inv
<1> QED  BY InitInv, <1>1, <1>2, PTL DEF Spec

\* The workers and the API decide alike where a service may run, for any nodes
\* and any config: a service that an online worker runs or starts is never
\* shown as pending (main.py:247-262, 337-338; worker.py:31-34).
THEOREM NeverWronglyPending == Spec => []PendingIsTrue
<1>1. ASSUME Inv
      PROVE  PendingIsTrue
  <2> SUFFICES ASSUME NEW n \in Node, status[n] \in Launching, hb[n]
               PROVE  HasEligibleWorker
    BY <1>1 DEF PendingIsTrue, Shown, Launching, Inv, TypeOK, Status
  <2>1. RunsOn(n) /\ n \in WorkerRoles
    BY <1>1 DEF Inv, RunsWhereAllowed, WorkerRoles
  <2>2. n # None /\ n # All
    BY ConfigsAssumption
  <2>3. All \in EligibleRoles \/ n \in EligibleRoles
    BY <2>1, <2>2 DEF RunsOn, EligibleRoles
  <2> QED  BY <2>1, <2>3 DEF HasEligibleWorker
<1>2. Inv /\ [Next]_vars => Inv'
  BY Step
<1> QED  BY InitInv, <1>1, <1>2, PTL DEF Spec
=============================================================================
