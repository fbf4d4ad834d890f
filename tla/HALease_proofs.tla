---------------------------- MODULE HALease_proofs ----------------------------
(***************************************************************************)
(* What HALease promises for every period, TTL and delay: type             *)
(* correctness, the bound on a worker that runs without its lease, the     *)
(* ownership of the stream, and the bound on a failover.                   *)
(***************************************************************************)
EXTENDS HALease, TLAPS

USE DEF Node

-----------------------------------------------------------------------------
(* Type correctness.                                                       *)

\* Starting FFmpeg leaves a process entry and a retry flag of their types.
LEMMA StartServiceType ==
    ASSUME TypeOK, NEW n \in Node, StartService(n)
    PROVE  /\ proc' \in [Node -> {"none", "running", "exited"}]
           /\ retry' \in [Node -> BOOLEAN]
BY DEF StartService, TypeOK

\* Stopping a service keeps the types of what it touches.
LEMMA StopServiceType ==
    ASSUME TypeOK, NEW n \in Node, StopService(n)
    PROVE  /\ proc' \in [Node -> {"none", "running", "exited"}]
           /\ retry' \in [Node -> BOOLEAN]
           /\ token' \in [Node -> BOOLEAN]
           /\ lease' \in Node \cup {None} /\ ttl' \in 0..LeaseTTL
           /\ lease' = None <=> ttl' = 0
BY NodesDiffer, TimingAssumption DEF StopService, ReleaseLease, TypeOK

\* Reconciling a service keeps the types of what it touches.
LEMMA ReconcileServiceType ==
    ASSUME TypeOK, NEW n \in Node, NEW enabled \in BOOLEAN, NEW force \in BOOLEAN,
           ReconcileService(n, enabled, force)
    PROVE  /\ proc' \in [Node -> {"none", "running", "exited"}]
           /\ retry' \in [Node -> BOOLEAN]
           /\ token' \in [Node -> BOOLEAN]
           /\ lease' \in Node \cup {None} /\ ttl' \in 0..LeaseTTL
           /\ lease' = None <=> ttl' = 0
           /\ seen' \in -1..LeaseTTL
<1>1. seen' \in -1..LeaseTTL
  BY TimingAssumption DEF ReconcileService, FirstSeen, TypeOK
<1>2. CASE ~enabled
  BY <1>1, <1>2, StopServiceType DEF ReconcileService, TypeOK
<1>3. CASE enabled /\ (RenewLease(n) \/ AcquireLease(n)) /\ ServeWithLease(n, force)
  <2>1. /\ proc' \in [Node -> {"none", "running", "exited"}]
        /\ retry' \in [Node -> BOOLEAN]
    BY <1>3, StartServiceType DEF ServeWithLease, TypeOK
  <2>2. CASE RenewLease(n)
    BY <1>1, <2>1, <2>2, NodesDiffer, TimingAssumption
    DEF RenewLease, OwnsLease, TypeOK
  <2>3. CASE AcquireLease(n)
    BY <1>1, <2>1, <2>3, NodesDiffer, TimingAssumption
    DEF AcquireLease, TypeOK
  <2> QED  BY <1>3, <2>2, <2>3
<1>4. CASE enabled /\ StayPassive(n)
  BY <1>1, <1>4 DEF StayPassive, TypeOK
<1> QED  BY <1>2, <1>3, <1>4 DEF ReconcileService

\* Workers that are down, an absent lease and no heartbeat have their types.
LEMMA TypeInit == Init => TypeOK
<1> SUFFICES ASSUME Init PROVE TypeOK
  OBVIOUS
<1>1. 0 \in 0..FailoverBound + 1
  BY TimingAssumption DEF FailoverBound, Longer
<1>2. /\ up \in [Node -> BOOLEAN]
      /\ linked \in [Node -> BOOLEAN]
      /\ token \in [Node -> BOOLEAN]
      /\ retry \in [Node -> BOOLEAN]
      /\ proc \in [Node -> {"none", "running", "exited"}]
  BY DEF Init
<1>3. /\ recIn \in [Node -> -Delay..RecPeriod]
      /\ guardIn \in [Node -> -Delay..GuardPeriod]
      /\ stray \in [Node -> Nat]
  <2>1. 0 \in -Delay..RecPeriod /\ 0 \in -Delay..GuardPeriod /\ 0 \in Nat
    BY TimingAssumption
  <2> QED  BY <2>1 DEF Init
<1>4. hbIn \in -Delay..HbPeriod /\ hb \in 0..HbTTL /\ ttl \in 0..LeaseTTL
      /\ seen \in -1..LeaseTTL
  BY TimingAssumption DEF Init
<1> QED  BY <1>1, <1>2, <1>3, <1>4 DEF Init, TypeOK

\* No loop body, message or fault of a worker, and no tick, breaks a type.
LEMMA TypeStep == TypeOK /\ [Next]_vars => TypeOK'
<1> SUFFICES ASSUME TypeOK, [Next]_vars PROVE TypeOK'
  OBVIOUS
<1> USE TimingAssumption, NodesDiffer
<1>1. CASE Tick
  <2>1. /\ lease' \in Node \cup {None} /\ ttl' \in 0..LeaseTTL
        /\ lease' = None <=> ttl' = 0
    BY <1>1 DEF Tick, TypeOK
  <2>2. /\ hb' \in 0..HbTTL
        /\ hbIn' \in -Delay..HbPeriod
        /\ seen' \in -1..LeaseTTL
    BY <1>1 DEF Tick, TypeOK
  <2>3. recIn' \in [Node -> -Delay..RecPeriod]
    BY <1>1 DEF Tick, TypeOK
  <2>4. guardIn' \in [Node -> -Delay..GuardPeriod]
    BY <1>1 DEF Tick, TypeOK
  <2>5. stray' \in [Node -> Nat]
    BY <1>1 DEF Tick, TypeOK
  <2>6. dark' \in 0..FailoverBound + 1
    <3>1. FailoverBound \in Nat
      BY DEF FailoverBound, Longer
    <3> QED  BY <1>1, <3>1 DEF Tick, TypeOK
  <2> QED  BY <1>1, <2>1, <2>2, <2>3, <2>4, <2>5, <2>6 DEF Tick, TypeOK
<1>2. CASE Heartbeat
  <2>1. hbIn' \in -Delay..HbPeriod /\ hb' \in 0..HbTTL
    BY <1>2 DEF Heartbeat, TypeOK
  <2>2. beating' \in BOOLEAN
    BY <1>2, Zenon DEF Heartbeat, TypeOK
  <2> QED  BY <1>2, <2>1, <2>2 DEF Heartbeat, TypeOK
<1>3. CASE SetEnabled
  BY <1>3 DEF SetEnabled, TypeOK, redisVars, timerVars, FailoverBound, Longer
<1>4. ASSUME NEW n \in Node, Worker(n) PROVE TypeOK'
  <2>0. 0 \in 0..FailoverBound + 1
    BY DEF FailoverBound, Longer
  <2>1. CASE Reconcile(n)
    <3>1. recIn' \in [Node -> -Delay..RecPeriod]
      BY <2>1 DEF Reconcile, TypeOK
    <3>2. CASE linked[n]
      BY <2>1, <3>1, <3>2, ReconcileServiceType DEF Reconcile, TypeOK, history
    <3>3. CASE ~linked[n]
      BY <2>1, <3>1, <3>3 DEF Reconcile, TypeOK, history
    <3> QED  BY <3>2, <3>3
  <2>2. CASE LeaseGuard(n)
    <3>1. guardIn' \in [Node -> -Delay..GuardPeriod]
      BY <2>2 DEF LeaseGuard, TypeOK
    <3> QED  BY <2>2, <3>1, StopServiceType DEF LeaseGuard, TypeOK, history
  <2>3. CASE Watchdog(n)
    BY <2>3, StartServiceType
    DEF Watchdog, TypeOK, redisVars, timerVars, history
  <2>4. CASE StartCommand(n)
    BY <2>4, ReconcileServiceType DEF StartCommand, TypeOK, timerVars, history
  <2>5. CASE StopCommand(n)
    BY <2>0, <2>5, StopServiceType DEF StopCommand, TypeOK, timerVars
  <2>6. CASE FfmpegExit(n)
    BY <2>6 DEF FfmpegExit, TypeOK, redisVars, timerVars, history
  <2>7. CASE Boot(n)
    BY <2>0, <2>7 DEF Boot, TypeOK, redisVars
  <2>8. CASE Crash(n)
    BY <2>0, <2>8 DEF Crash, TypeOK, redisVars
  <2>9. CASE Cut(n)
    BY <2>0, <2>9 DEF Cut, TypeOK, redisVars, timerVars
  <2>10. CASE Heal(n)
    BY <2>10 DEF Heal, TypeOK, redisVars, timerVars, history
  <2> QED  BY <1>4, <2>1, <2>2, <2>3, <2>4, <2>5, <2>6, <2>7, <2>8, <2>9, <2>10
           DEF Worker
<1>5. CASE UNCHANGED vars
  BY <1>5 DEF vars, TypeOK
<1> QED  BY <1>1, <1>2, <1>3, <1>4, <1>5 DEF Next

\* Every reachable state of HALease has the types TypeOK gives it.
THEOREM TypeCorrect == Spec => []TypeOK
BY TypeInit, TypeStep, PTL DEF Spec

-----------------------------------------------------------------------------
(* A worker tracks a process only with a token, and has a token only while *)
(* it is up.                                                               *)

HeldByLive ==
    \A n \in Node : /\ Tracked(n) => token[n]
                    /\ token[n] => up[n]

\* Reconciling a service on a live worker leaves no process without a token.
LEMMA ReconcileServiceHeld ==
    ASSUME TypeOK, HeldByLive, NEW n \in Node, up[n], up' = up,
           NEW enabled \in BOOLEAN, NEW force \in BOOLEAN,
           ReconcileService(n, enabled, force)
    PROVE  HeldByLive'
<1> USE DEF HeldByLive, Tracked, TypeOK
<1>1. CASE ~enabled
  BY <1>1 DEF ReconcileService, StopService, ReleaseLease
<1>2. CASE enabled /\ RenewLease(n) /\ ServeWithLease(n, force)
  BY <1>2 DEF RenewLease, OwnsLease, ServeWithLease, StartService
<1>3. CASE enabled /\ AcquireLease(n) /\ ServeWithLease(n, force)
  BY <1>3 DEF AcquireLease, ServeWithLease, StartService
<1>4. CASE enabled /\ StayPassive(n)
  BY <1>4 DEF StayPassive
<1> QED  BY <1>1, <1>2, <1>3, <1>4 DEF ReconcileService

\* Every step leaves tokens and processes with live workers only.
LEMMA HeldStep == TypeOK /\ HeldByLive /\ [Next]_vars => HeldByLive'
<1> SUFFICES ASSUME TypeOK, HeldByLive, [Next]_vars PROVE HeldByLive'
  OBVIOUS
<1> USE DEF HeldByLive, Tracked
<1>1. CASE UNCHANGED <<proc, token, up>>
  BY <1>1
<1>2. CASE Tick \/ Heartbeat \/ SetEnabled \/ UNCHANGED vars
  BY <1>1, <1>2 DEF Tick, Heartbeat, SetEnabled, vars
<1>3. ASSUME NEW n \in Node, Worker(n) PROVE HeldByLive'
  <2>1. CASE Reconcile(n)
    BY <1>1, <2>1, ReconcileServiceHeld DEF Reconcile, TypeOK
  <2>2. CASE LeaseGuard(n)
    BY <1>1, <2>2 DEF LeaseGuard, StopService, ReleaseLease, TypeOK
  <2>3. CASE Watchdog(n)
    BY <2>3 DEF Watchdog, OwnsLease, StartService, TypeOK
  <2>4. CASE StartCommand(n)
    BY <2>4, ReconcileServiceHeld DEF StartCommand
  <2>5. CASE StopCommand(n)
    BY <2>5 DEF StopCommand, StopService, ReleaseLease, TypeOK
  <2>6. CASE FfmpegExit(n)
    BY <2>6 DEF FfmpegExit, TypeOK
  <2>7. CASE Boot(n)
    BY <2>7 DEF Boot, TypeOK
  <2>8. CASE Crash(n)
    BY <2>8 DEF Crash, TypeOK
  <2>9. CASE Cut(n) \/ Heal(n)
    BY <1>1, <2>9 DEF Cut, Heal
  <2> QED  BY <1>3, <2>1, <2>2, <2>3, <2>4, <2>5, <2>6, <2>7, <2>8, <2>9 DEF Worker
<1> QED  BY <1>2, <1>3 DEF Next

\* Only a live worker has a token or a process, and a process never outlives
\* the token it was started under: stop_service drops both (worker.py:278-289).
THEOREM Held == Spec => []HeldByLive
<1>1. Init => HeldByLive
  BY DEF Init, HeldByLive, Tracked
<1> QED  BY <1>1, HeldStep, TypeCorrect, PTL DEF Spec

-----------------------------------------------------------------------------
(* The guard: how long a worker runs without its lease.                    *)

\* The count of a straying worker is no more than what its guard has already
\* slept; a worker out of reach of Redis is not counted at all.
StrayInv ==
    \A n \in Node : /\ Straying(n) => stray[n] <= GuardPeriod - guardIn[n]
                    /\ ~linked[n] => stray[n] = 0

\* Stopping a service makes no worker stray.
LEMMA StopServiceStray ==
    ASSUME TypeOK, NEW n \in Node, StopService(n), linked' = linked,
           NEW m \in Node, Straying(m)'
    PROVE  Straying(m) /\ m # n
BY NodesDiffer DEF StopService, ReleaseLease, OwnsLease, Straying, TypeOK

\* Nor does reconciling one.
LEMMA ReconcileServiceStray ==
    ASSUME TypeOK, NEW n \in Node, NEW enabled \in BOOLEAN, NEW force \in BOOLEAN,
           ReconcileService(n, enabled, force), linked' = linked,
           NEW m \in Node, Straying(m)'
    PROVE  Straying(m)
<1> USE NodesDiffer
<1>1. CASE ~enabled
  BY <1>1, StopServiceStray DEF ReconcileService, Straying, OwnsLease
<1>2. CASE enabled /\ RenewLease(n) /\ ServeWithLease(n, force)
  BY <1>2 DEF RenewLease, ServeWithLease, StartService, Straying, OwnsLease, TypeOK
<1>3. CASE enabled /\ AcquireLease(n) /\ ServeWithLease(n, force)
  BY <1>3 DEF AcquireLease, ServeWithLease, StartService, Straying, OwnsLease, TypeOK
<1>4. CASE enabled /\ StayPassive(n)
  BY <1>4 DEF StayPassive, Straying, OwnsLease, TypeOK
<1> QED  BY <1>1, <1>2, <1>3, <1>4 DEF ReconcileService

\* A tick that lengthens a stray run finds the guard's sleep shorter by as much;
\* the guard that runs at its end stops the process.
LEMMA StrayStep ==
    TypeOK /\ HeldByLive /\ StrayInv /\ [Next]_vars => StrayInv'
<1> SUFFICES ASSUME TypeOK, HeldByLive, StrayInv, [Next]_vars,
                    NEW m \in Node
             PROVE  /\ Straying(m)' => stray'[m] <= GuardPeriod - guardIn'[m]
                    /\ ~linked'[m] => stray'[m] = 0
  BY DEF StrayInv
<1> DEFINE Goal == /\ Straying(m)' => stray'[m] <= GuardPeriod - guardIn'[m]
                   /\ ~linked'[m] => stray'[m] = 0
<1> SUFFICES Goal
  OBVIOUS
<1>0. ASSUME Straying(m)' => Straying(m), UNCHANGED <<linked, stray, guardIn>>
      PROVE  Goal
  BY <1>0 DEF StrayInv
<1>1. CASE Tick
  <2>1. stray'[m] = IF Straying(m) THEN stray[m] + 1 ELSE 0
    BY <1>1 DEF Tick
  <2>2. CASE Straying(m)
    <3>1. linked[m] /\ up[m]
      BY <2>2 DEF Straying, HeldByLive, Tracked
    <3>2. guardIn'[m] = guardIn[m] - 1 /\ linked'[m]
      BY <1>1, <3>1 DEF Tick
    <3> QED  BY <2>1, <2>2, <3>2, TimingAssumption DEF StrayInv, TypeOK
  <2>3. CASE ~Straying(m)
    <3>1. stray'[m] = 0
      BY <2>1, <2>3
    <3>2. guardIn'[m] \in Int /\ guardIn'[m] <= GuardPeriod
      BY <1>1, TimingAssumption DEF Tick, TypeOK
    <3> QED  BY <3>1, <3>2, TimingAssumption
  <2> QED  BY <2>2, <2>3
<1>2. CASE Heartbeat \/ SetEnabled \/ UNCHANGED vars
  BY <1>0, <1>2 DEF Heartbeat, SetEnabled, vars, redisVars, timerVars, Straying, OwnsLease
<1>3. ASSUME NEW n \in Node, Worker(n) PROVE Goal
  <2>1. CASE Reconcile(n)
    <3>1. CASE linked[n]
      BY <1>0, <2>1, <3>1, ReconcileServiceStray DEF Reconcile, TypeOK, history
    <3>2. CASE ~linked[n]
      BY <1>0, <2>1, <3>2 DEF Reconcile, history, Straying, OwnsLease
    <3> QED  BY <3>1, <3>2
  <2>2. CASE LeaseGuard(n)
    <3>1. linked' = linked /\ stray' = stray
      BY <2>2 DEF LeaseGuard, history
    <3>2. Straying(m)' => Straying(m) /\ m # n
      <4>1. CASE Tracked(n) /\ (~token[n] \/ (linked[n] /\ ~OwnsLease(n)))
        BY <2>2, <3>1, <4>1, StopServiceStray DEF LeaseGuard
      <4>2. CASE ~(Tracked(n) /\ (~token[n] \/ (linked[n] /\ ~OwnsLease(n))))
        BY <2>2, <3>1, <4>2 DEF LeaseGuard, Straying, OwnsLease, Tracked
      <4> QED  BY <4>1, <4>2
    <3>3. m # n => guardIn'[m] = guardIn[m]
      BY <2>2 DEF LeaseGuard, TypeOK
    <3> QED  BY <3>1, <3>2, <3>3 DEF StrayInv
  <2>3. CASE Watchdog(n)
    <3>1. Straying(m)' => Straying(m)
      BY <2>3 DEF Watchdog, StartService, redisVars, Straying, OwnsLease, TypeOK
    <3> QED  BY <1>0, <2>3, <3>1 DEF Watchdog, timerVars, history
  <2>4. CASE StartCommand(n)
    BY <1>0, <2>4, ReconcileServiceStray DEF StartCommand, timerVars, history
  <2>5. CASE StopCommand(n)
    BY <1>0, <2>5, StopServiceStray DEF StopCommand, timerVars
  <2>6. CASE FfmpegExit(n)
    <3>1. Straying(m)' => Straying(m)
      BY <2>6 DEF FfmpegExit, redisVars, Straying, OwnsLease, TypeOK
    <3> QED  BY <1>0, <2>6, <3>1 DEF FfmpegExit, timerVars, history
  <2>7. CASE Boot(n)
    <3>1. /\ Straying(m)' => Straying(m) /\ m # n
          /\ linked' = linked /\ stray' = stray
      BY <2>7 DEF Boot, redisVars, Straying, OwnsLease, HeldByLive, Tracked
    <3>2. m # n => guardIn'[m] = guardIn[m]
      BY <2>7 DEF Boot, TypeOK
    <3> QED  BY <3>1, <3>2 DEF StrayInv
  <2>8. CASE Crash(n)
    <3>1. CASE m = n
      BY <2>8, <3>1 DEF Crash, Straying, TypeOK
    <3>2. CASE m # n
      BY <2>8, <3>2 DEF Crash, redisVars, Straying, OwnsLease, StrayInv, TypeOK
    <3> QED  BY <3>1, <3>2
  <2>9. CASE Cut(n)
    <3>1. CASE m = n
      BY <2>9, <3>1 DEF Cut, Straying, TypeOK
    <3>2. CASE m # n
      BY <2>9, <3>2 DEF Cut, redisVars, timerVars, Straying, OwnsLease, StrayInv, TypeOK
    <3> QED  BY <3>1, <3>2
  <2>10. CASE Heal(n)
    <3>1. CASE m = n
      <4>1. stray'[m] = 0 /\ linked'[m] /\ guardIn'[m] = guardIn[m]
        BY <2>10, <3>1 DEF Heal, timerVars, history, StrayInv, TypeOK
      <4> QED  BY <4>1, TimingAssumption DEF TypeOK
    <3>2. CASE m # n
      BY <2>10, <3>2 DEF Heal, redisVars, timerVars, history, Straying, OwnsLease,
                         StrayInv, TypeOK
    <3> QED  BY <3>1, <3>2
  <2> QED  BY <1>3, <2>1, <2>2, <2>3, <2>4, <2>5, <2>6, <2>7, <2>8, <2>9, <2>10
           DEF Worker
<1> QED  BY <1>1, <1>2, <1>3 DEF Next

\* A worker whose lease is gone and that can reach Redis runs FFmpeg for no
\* longer than its guard's sleep and delay, for all periods, TTLs and delays,
\* with workers cut off or not.
THEOREM StrayStops == Spec => []StrayStopsInTime
<1>1. Init => StrayInv
  BY TimingAssumption DEF Init, StrayInv, Straying
<1>2. TypeOK /\ StrayInv => StrayStopsInTime
  BY TimingAssumption DEF TypeOK, StrayInv, StrayStopsInTime
<1> QED  BY <1>1, <1>2, StrayStep, TypeCorrect, Held, PTL DEF Spec

-----------------------------------------------------------------------------
(* Ownership: a worker that reaches Redis renews in time.                  *)

\* A worker that cannot be cut off has, with its token, a lease that outlives
\* its loop's sleep and delay.  A service that is never disabled is needed:
\* the loop renews nothing for a disabled one.
OwnInv ==
    /\ wanted
    /\ \A n \in Node \ Cuttable :
          /\ linked[n]
          /\ token[n] => lease = n /\ ttl > recIn[n] + Delay

\* Reconciling an enabled service leaves its worker with a fresh lease or
\* without a token, and no other worker's lease changed.
LEMMA ReconcileServiceOwn ==
    ASSUME TypeOK, NEW n \in Node, NEW force \in BOOLEAN,
           ReconcileService(n, TRUE, force)
    PROVE  /\ \A k \in Node \ {n} : token'[k] = token[k]
           /\ token'[n] => lease' = n /\ ttl' = LeaseTTL
           /\ ~token'[n] => lease' = lease /\ ttl' = ttl
           /\ lease \notin {n, None} => lease' = lease /\ ttl' = ttl
<1>1. CASE RenewLease(n)
  BY <1>1, NodesDiffer DEF RenewLease, OwnsLease, TypeOK
<1>2. CASE AcquireLease(n)
  BY <1>2, NodesDiffer DEF AcquireLease, TypeOK
<1>3. CASE StayPassive(n)
  BY <1>3, NodesDiffer DEF StayPassive, TypeOK
<1> QED  BY <1>1, <1>2, <1>3 DEF ReconcileService

\* An owner's lease outlives the sleep of its reconcile loop, step by step.
LEMMA OwnStep ==
    ASSUME RenewsInTime, ~MayDisable, TypeOK, HeldByLive, OwnInv, [Next]_vars
    PROVE  OwnInv'
<1> USE TimingAssumption, NodesDiffer
<1>0. wanted'
  BY DEF OwnInv, Next, vars, Tick, Heartbeat, SetEnabled, Worker, Reconcile,
         LeaseGuard, Watchdog, StartCommand, StopCommand, FfmpegExit, Boot,
         Crash, Cut, Heal
<1> SUFFICES ASSUME NEW m \in Node \ Cuttable
             PROVE  /\ linked'[m]
                    /\ token'[m] => lease' = m /\ ttl' > recIn'[m] + Delay
  BY <1>0 DEF OwnInv
<1> DEFINE Goal == /\ linked'[m]
                   /\ token'[m] => lease' = m /\ ttl' > recIn'[m] + Delay
<1> SUFFICES Goal
  OBVIOUS
<1>1. linked[m] /\ (token[m] => lease = m /\ ttl > recIn[m] + Delay)
  BY DEF OwnInv
<1>2. CASE Tick
  <2>1. linked'[m]
    BY <1>1, <1>2 DEF Tick
  <2>2. ASSUME token'[m] PROVE lease' = m /\ ttl' > recIn'[m] + Delay
    <3>1. token[m] /\ up[m]
      BY <1>2, <2>2 DEF Tick, HeldByLive
    <3>2. recIn[m] > -Delay /\ recIn'[m] = recIn[m] - 1
      BY <1>2, <3>1 DEF Tick
    <3>3. ttl > 1 /\ ttl \in Int /\ recIn[m] \in Int
      BY <1>1, <3>1, <3>2 DEF TypeOK
    <3> QED  BY <1>1, <1>2, <3>1, <3>2, <3>3 DEF Tick
  <2> QED  BY <2>1, <2>2
<1>3. CASE Heartbeat \/ SetEnabled \/ UNCHANGED vars
  BY <1>1, <1>3 DEF Heartbeat, SetEnabled, vars
<1>4. ASSUME NEW n \in Node, Worker(n) PROVE Goal
  <2>0. ASSUME UNCHANGED <<linked, token, lease, ttl, recIn>>
        PROVE  Goal
    BY <1>1, <2>0
  <2>1. CASE Reconcile(n)
    <3>1. CASE linked[n]
      <4>1. ReconcileService(n, TRUE, FALSE)
        BY <2>1, <3>1 DEF Reconcile, OwnInv
      <4>2. m = n => recIn'[m] = RecPeriod
        BY <2>1 DEF Reconcile, TypeOK
      <4>3. m # n => recIn'[m] = recIn[m]
        BY <2>1 DEF Reconcile, TypeOK
      <4>4. linked' = linked
        BY <2>1 DEF Reconcile
      <4>5. CASE m = n
        BY <1>1, <4>1, <4>2, <4>4, <4>5, ReconcileServiceOwn DEF RenewsInTime
      <4>6. CASE m # n
        <5>1. token'[m] = token[m]
          BY <4>1, <4>6, ReconcileServiceOwn
        <5> QED  BY <1>1, <4>1, <4>3, <4>4, <4>6, <5>1, ReconcileServiceOwn
      <4> QED  BY <4>5, <4>6
    <3>2. CASE ~linked[n]
      <4>1. m # n
        BY <1>1, <3>2
      <4>2. recIn'[m] = recIn[m]
        BY <2>1, <4>1 DEF Reconcile, TypeOK
      <4> QED  BY <1>1, <2>1, <3>2, <4>2 DEF Reconcile
    <3> QED  BY <3>1, <3>2
  <2>2. CASE LeaseGuard(n)
    <3>1. linked' = linked /\ recIn' = recIn
      BY <2>2 DEF LeaseGuard
    <3>2. CASE Tracked(n) /\ (~token[n] \/ (linked[n] /\ ~OwnsLease(n)))
      <4>1. m = n => ~token'[m]
        BY <2>2, <3>2 DEF LeaseGuard, StopService, ReleaseLease, TypeOK
      <4>2. m # n => token'[m] = token[m]
        BY <2>2, <3>2 DEF LeaseGuard, StopService, ReleaseLease, TypeOK
      <4>3. lease' = lease /\ ttl' = ttl
        BY <2>2, <3>2 DEF LeaseGuard, StopService, ReleaseLease, OwnsLease
      <4> QED  BY <1>1, <3>1, <4>1, <4>2, <4>3
    <3>3. CASE ~(Tracked(n) /\ (~token[n] \/ (linked[n] /\ ~OwnsLease(n))))
      BY <2>0, <2>2, <3>1, <3>3 DEF LeaseGuard
    <3> QED  BY <3>2, <3>3
  <2>3. CASE Watchdog(n)
    BY <2>0, <2>3 DEF Watchdog, redisVars, timerVars
  <2>4. CASE StartCommand(n)
    <3>1. ReconcileService(n, TRUE, TRUE)
      BY <2>4 DEF StartCommand
    <3>2. linked' = linked /\ recIn' = recIn
      BY <2>4 DEF StartCommand, timerVars
    <3>3. recIn[m] \in Int /\ recIn[m] <= RecPeriod
      BY DEF TypeOK
    <3>4. CASE m = n
      <4>1. token'[m] => lease' = m /\ ttl' = LeaseTTL
        BY <3>1, <3>4, ReconcileServiceOwn
      <4>2. LeaseTTL > recIn[m] + Delay
        BY <3>3 DEF RenewsInTime
      <4> QED  BY <1>1, <3>2, <4>1, <4>2
    <3>5. CASE m # n
      <4>1. token'[m] = token[m]
        BY <3>1, <3>5, ReconcileServiceOwn
      <4> QED  BY <1>1, <3>1, <3>2, <3>5, <4>1, ReconcileServiceOwn
    <3> QED  BY <3>4, <3>5
  <2>5. CASE StopCommand(n)
    BY <2>5 DEF StopCommand
  <2>6. CASE FfmpegExit(n)
    BY <2>0, <2>6 DEF FfmpegExit, redisVars, timerVars
  <2>7. CASE Boot(n)
    <3>1. m = n => ~token'[m]
      BY <2>7 DEF Boot, HeldByLive
    <3>2. m # n => recIn'[m] = recIn[m]
      BY <2>7 DEF Boot, TypeOK
    <3> QED  BY <1>1, <2>7, <3>1, <3>2 DEF Boot, redisVars
  <2>8. CASE Crash(n)
    <3>1. m = n => ~token'[m]
      BY <2>8 DEF Crash, TypeOK
    <3>2. m # n => recIn'[m] = recIn[m] /\ token'[m] = token[m]
      BY <2>8 DEF Crash, TypeOK
    <3> QED  BY <1>1, <2>8, <3>1, <3>2 DEF Crash, redisVars
  <2>9. CASE Cut(n)
    <3>1. m # n /\ linked'[m] = linked[m]
      BY <2>9 DEF Cut, TypeOK
    <3> QED  BY <1>1, <2>9, <3>1 DEF Cut, redisVars, timerVars
  <2>10. CASE Heal(n)
    <3>1. linked'[m]
      BY <1>1, <2>10 DEF Heal, TypeOK
    <3> QED  BY <1>1, <2>10, <3>1 DEF Heal, redisVars, timerVars
  <2> QED  BY <1>4, <2>1, <2>2, <2>3, <2>4, <2>5, <2>6, <2>7, <2>8, <2>9, <2>10
           DEF Worker
<1> QED  BY <1>2, <1>3, <1>4 DEF Next

\* So the strengthening holds in every reachable state.
LEMMA Own ==
    ASSUME RenewsInTime, ~MayDisable
    PROVE  Spec => []OwnInv
<1>1. Init => OwnInv
  BY DEF Init, OwnInv
<1>2. TypeOK /\ HeldByLive /\ OwnInv /\ [Next]_vars => OwnInv'
  BY OwnStep
<1> QED  BY <1>1, <1>2, TypeCorrect, Held, PTL DEF Spec

\* If the reconcile loop, delays included, comes round within the TTL, no
\* worker that always reaches Redis ever loses the lease of a service that
\* stays enabled, whatever crashes, restarts and retries happen.
THEOREM OwnerKeeps ==
    ASSUME RenewsInTime, ~MayDisable
    PROVE  Spec => []OwnerKeepsLease
<1>1. OwnInv => OwnerKeepsLease
  BY DEF OwnInv, OwnerKeepsLease
<1> QED  BY <1>1, Own, PTL

\* Under the same condition, and if Redis is always in reach of both, the
\* stream never has two FFmpeg processes.
THEOREM OneStream ==
    ASSUME RenewsInTime, ~MayDisable, Cuttable = {}
    PROVE  Spec => []SingleStream
<1>1. HeldByLive /\ OwnInv => SingleStream
  BY DEF HeldByLive, OwnInv, Tracked, SingleStream
<1> QED  BY <1>1, Own, Held, PTL

-----------------------------------------------------------------------------
(* Refinement: the loops keep the promise of Ownership.                    *)

\* Whoever runs FFmpeg has its token in the key.
ServedByOwner == \A n \in Node : proc[n] = "running" => lease = n

\* Reconciling a service gives the lease to its worker or to nobody, and only
\* a free lease to a worker that did not have it.
LEMMA ReconcileServiceHandOver ==
    ASSUME TypeOK, NEW n \in Node, NEW enabled \in BOOLEAN, NEW force \in BOOLEAN,
           ReconcileService(n, enabled, force)
    PROVE  lease = None \/ lease' \in {lease, None}
BY DEF ReconcileService, StopService, ReleaseLease, RenewLease, AcquireLease,
       StayPassive

\* No step moves the lease from one worker to the other.
LEMMA HandOver ==
    ASSUME TypeOK, [Next]_vars
    PROVE  lease = None \/ lease' \in {lease, None}
<1>1. CASE Tick \/ Heartbeat \/ SetEnabled \/ UNCHANGED vars
  BY <1>1 DEF Tick, Heartbeat, SetEnabled, vars, redisVars
<1>2. ASSUME NEW n \in Node, Worker(n)
      PROVE  lease = None \/ lease' \in {lease, None}
  <2>1. CASE Reconcile(n) \/ StartCommand(n)
    BY <2>1, ReconcileServiceHandOver DEF Reconcile, StartCommand, TypeOK
  <2>2. CASE LeaseGuard(n) \/ StopCommand(n)
    BY <2>2 DEF LeaseGuard, StopCommand, StopService, ReleaseLease
  <2>3. CASE Watchdog(n) \/ FfmpegExit(n) \/ Boot(n) \/ Crash(n) \/ Cut(n) \/ Heal(n)
    BY <2>3 DEF Watchdog, FfmpegExit, Boot, Crash, Cut, Heal, redisVars
  <2> QED  BY <1>2, <2>1, <2>2, <2>3 DEF Worker
<1> QED  BY <1>1, <1>2 DEF Next

\* A step between two states in which only the owner serves is a step of
\* Ownership.
LEMMA PromiseStep ==
    ASSUME NodesDiffer, TypeOK, TypeOK', ServedByOwner, ServedByOwner', [Next]_vars
    PROVE  [Promise!Next]_<<lease, {n \in Node : proc[n] = "running"}>>
<1> DEFINE serving == {n \in Node : proc[n] = "running"}
<1>1. CASE lease' = None
  <2>1. serving' = {}
    BY <1>1, NodesDiffer DEF ServedByOwner
  <2> QED  BY <1>1, <2>1 DEF Promise!Next, Promise!Yield
<1>2. CASE lease' # None
  <2>1. lease' \in Node
    BY <1>2 DEF TypeOK
  <2>2. lease \in {None, lease'}
    BY <1>2, HandOver
  <2>3. serving' \in {{}, {lease'}}
    BY <2>1 DEF ServedByOwner
  <2> QED  BY <2>1, <2>2, <2>3 DEF Promise!Next, Promise!Own
<1> QED  BY <1>1, <1>2

\* If the reconcile loop comes round within the TTL, Redis is in reach and the
\* service stays enabled, the two workers keep the promise of Ownership: one
\* owner at a time, only the owner serves, and the stream is never handed
\* over while it is served.
THEOREM Implements ==
    ASSUME RenewsInTime, ~MayDisable, Cuttable = {}
    PROVE  Spec => KeepsPromise
<1>1. Init => Promise!Init
  BY NodesDiffer DEF Init, Promise!Init
<1>2. HeldByLive /\ OwnInv => ServedByOwner
  BY DEF HeldByLive, OwnInv, Tracked, ServedByOwner
<1>3. TypeOK /\ TypeOK' /\ ServedByOwner /\ ServedByOwner' /\ [Next]_vars
      => [Promise!Next]_<<lease, {n \in Node : proc[n] = "running"}>>
  BY NodesDiffer, PromiseStep
<1> QED  BY <1>1, <1>2, <1>3, Own, Held, TypeCorrect, PTL
         DEF Spec, KeepsPromise, Promise!Spec

-----------------------------------------------------------------------------
(* The heartbeat: no failover from a live Primary.                         *)

\* Once the Primary has sent one, its heartbeat key outlives the loop's sleep
\* and delay.
BeatInv ==
    beating => up[Primary] /\ hb > hbIn + Delay

\* The heartbeat key outlives the sleep of the heartbeat loop, step by step.
LEMMA BeatStep ==
    ASSUME BeatsInTime, Primary \notin Cuttable, TypeOK, linked[Primary], BeatInv,
           [Next]_vars
    PROVE  BeatInv'
<1> USE TimingAssumption
<1>0. ASSUME beating' => beating, UNCHANGED <<up, hb, hbIn>> PROVE BeatInv'
  BY <1>0 DEF BeatInv
<1>1. CASE Tick
  <2> SUFFICES ASSUME beating' PROVE up'[Primary] /\ hb' > hbIn' + Delay
    BY DEF BeatInv
  <2>1. beating /\ up[Primary] /\ up' = up
    BY <1>1 DEF Tick, BeatInv
  <2>2. hbIn > -Delay /\ hbIn' = hbIn - 1
    BY <1>1, <2>1 DEF Tick
  <2>3. hb > 1 /\ hb' = hb - 1
    BY <1>1, <2>1, <2>2 DEF Tick, BeatInv, TypeOK
  <2> QED  BY <2>1, <2>2, <2>3 DEF BeatInv, TypeOK
<1>2. CASE Heartbeat
  BY <1>2 DEF Heartbeat, BeatInv, BeatsInTime
<1>3. CASE SetEnabled \/ UNCHANGED vars
  BY <1>0, <1>3 DEF SetEnabled, redisVars, timerVars, vars
<1>4. ASSUME NEW n \in Node, Worker(n) PROVE BeatInv'
  <2>1. CASE Reconcile(n) \/ LeaseGuard(n)
    BY <1>0, <2>1 DEF Reconcile, LeaseGuard, history
  <2>2. CASE Watchdog(n) \/ StartCommand(n) \/ StopCommand(n) \/ FfmpegExit(n)
    BY <1>0, <2>2 DEF Watchdog, StartCommand, StopCommand, FfmpegExit,
                      redisVars, timerVars, history
  <2>3. CASE Cut(n) \/ Heal(n)
    BY <1>0, <2>3 DEF Cut, Heal, redisVars, timerVars, history
  <2>4. CASE Boot(n)
    <3>1. CASE n = Primary
      BY <2>4, <3>1 DEF Boot, BeatInv
    <3>2. CASE n # Primary
      BY <2>4, <3>2 DEF Boot, BeatInv, redisVars, TypeOK
    <3> QED  BY <3>1, <3>2
  <2>5. CASE Crash(n)
    <3>1. CASE n = Primary
      BY <2>5, <3>1 DEF Crash, BeatInv
    <3>2. CASE n # Primary
      BY <2>5, <3>2 DEF Crash, BeatInv, redisVars, TypeOK
    <3> QED  BY <3>1, <3>2
  <2> QED  BY <1>4, <2>1, <2>2, <2>3, <2>4, <2>5 DEF Worker
<1> QED  BY <1>1, <1>2, <1>3, <1>4 DEF Next

\* The lease reaches a worker only through the SET NX of its own reconcile.
LEMMA OnlyAcquires ==
    ASSUME TypeOK, [Next]_vars, lease # Failover, lease' = Failover
    PROVE  hb = 0
<1> USE NodesDiffer
<1>0. ASSUME NEW n \in Node, NEW e \in BOOLEAN, NEW f \in BOOLEAN,
             ReconcileService(n, e, f)
      PROVE  hb = 0
  BY <1>0 DEF ReconcileService, StopService, ReleaseLease, RenewLease, OwnsLease,
              AcquireLease, MayCompete, StayPassive
<1>1. CASE Tick \/ Heartbeat \/ SetEnabled \/ UNCHANGED vars
  BY <1>1 DEF Tick, Heartbeat, SetEnabled, vars, redisVars
<1>2. ASSUME NEW n \in Node, Worker(n) PROVE hb = 0
  <2>1. CASE Reconcile(n) \/ StartCommand(n)
    BY <1>0, <2>1 DEF Reconcile, StartCommand, TypeOK
  <2>2. CASE LeaseGuard(n) \/ StopCommand(n)
    BY <2>2 DEF LeaseGuard, StopCommand, StopService, ReleaseLease
  <2>3. CASE Watchdog(n) \/ FfmpegExit(n) \/ Boot(n) \/ Crash(n) \/ Cut(n) \/ Heal(n)
    BY <2>3 DEF Watchdog, FfmpegExit, Boot, Crash, Cut, Heal, redisVars
  <2> QED  BY <1>2, <2>1, <2>2, <2>3 DEF Worker
<1> QED  BY <1>1, <1>2 DEF Next

\* A link that cannot be cut is never down.
LinkInv == \A n \in Node \ Cuttable : linked[n]

\* Only a worker in Cuttable is ever cut off.
LEMMA LinkStep == TypeOK /\ LinkInv /\ [Next]_vars => LinkInv'
<1> SUFFICES ASSUME TypeOK, LinkInv, [Next]_vars PROVE LinkInv'
  OBVIOUS
<1>1. CASE Tick \/ Heartbeat \/ SetEnabled \/ UNCHANGED vars
  BY <1>1 DEF LinkInv, Tick, Heartbeat, SetEnabled, vars
<1>2. ASSUME NEW n \in Node, Worker(n) PROVE LinkInv'
  <2>1. CASE Cut(n) \/ Heal(n)
    BY <2>1 DEF LinkInv, Cut, Heal, TypeOK
  <2>2. CASE ~(Cut(n) \/ Heal(n))
    BY <1>2, <2>2 DEF LinkInv, Worker, Reconcile, LeaseGuard, Watchdog,
       StartCommand, StopCommand, FfmpegExit, Boot, Crash
  <2> QED  BY <2>1, <2>2
<1> QED  BY <1>1, <1>2 DEF Next

\* So a worker outside Cuttable always reaches Redis.
LEMMA Link == Spec => []LinkInv
<1>1. Init => LinkInv
  BY DEF Init, LinkInv
<1> QED  BY <1>1, LinkStep, TypeCorrect, PTL DEF Spec

\* If heartbeats, delays included, come within the key's TTL and the Primary
\* always reaches Redis, the Failover worker takes the stream only from a
\* Primary that is down or has yet to send its first heartbeat.
THEOREM NoSpurious ==
    ASSUME BeatsInTime, Primary \notin Cuttable
    PROVE  Spec => NoSpuriousFailover
<1>1. Init => BeatInv
  BY DEF Init, BeatInv
<1>2. TypeOK /\ LinkInv /\ BeatInv /\ [Next]_vars => BeatInv'
  BY BeatStep DEF LinkInv
<1>3. TypeOK /\ BeatInv /\ [Next]_vars
        => [lease # Failover /\ lease' = Failover => ~beating]_vars
  <2> SUFFICES ASSUME TypeOK, BeatInv, [Next]_vars, lease # Failover,
                      lease' = Failover, beating
               PROVE  FALSE
    OBVIOUS
  <2>1. hb = 0
    BY OnlyAcquires
  <2> QED  BY <2>1, TimingAssumption DEF BeatInv, TypeOK
<1> QED  BY <1>1, <1>2, <1>3, TypeCorrect, Link, PTL DEF Spec, NoSpuriousFailover

-----------------------------------------------------------------------------
(* The failover: how long a lone Failover worker waits for the lease.      *)

\* After Waits ticks alone nothing stands in the Failover worker's way: the
\* heartbeat key and any lease have run out and it has known the service long
\* enough.  One more round of its loop then takes the lease.
Waits == Longer(HbTTL, LeaseTTL + Delay)

GoodOwner == OwnsLease(Failover) /\ ttl > recIn[Failover] + Delay

\* first_seen is set by the first round of the loop and counts from there.
SeenInv ==
    up[Failover] => IF seen = -1 THEN recIn[Failover] + dark <= 0
                    ELSE seen = LeaseTTL \/ seen + Delay >= dark

FailoverInv ==
    /\ dark > 0 => Alone
    /\ hb = 0 \/ hb + dark <= HbTTL
    /\ lease # None /\ ~GoodOwner => ttl + dark <= LeaseTTL
    /\ SeenInv
    /\ dark >= Waits => GoodOwner \/ recIn[Failover] + dark <= Waits + RecPeriod - 1

\* The longer of the two waits is a natural number, and each wait fits in it.
LEMMA WaitsType == Waits \in Nat /\ Waits >= HbTTL /\ Waits >= LeaseTTL + Delay
                   /\ FailoverBound = Waits + RecPeriod + Delay - 1 /\ Waits > 0
BY TimingAssumption DEF Waits, Longer, FailoverBound

\* When the count restarts there is nothing to show but the age of first_seen.
LEMMA FailoverRestart ==
    ASSUME TypeOK', dark' = 0, SeenInv'
    PROVE  FailoverInv'
<1>1. hb' <= HbTTL /\ ttl' <= LeaseTTL /\ hb' \in Int /\ ttl' \in Int
  BY TimingAssumption DEF TypeOK
<1>2. hb' + dark' <= HbTTL /\ ttl' + dark' <= LeaseTTL
  BY <1>1
<1>3. ~(dark' > 0) /\ ~(dark' >= Waits)
  BY WaitsType
<1> QED  BY <1>2, <1>3 DEF FailoverInv

\* A step of the Failover worker that reconciles the enabled service.
LEMMA FailoverReconcile ==
    ASSUME RenewsInTime, TypeOK, TypeOK', FailoverInv, dark > 0,
           NEW force \in BOOLEAN, ReconcileService(Failover, TRUE, force),
           UNCHANGED <<wanted, hb, up, linked, dark>>,
           \/ recIn' = recIn
           \/ recIn' = [recIn EXCEPT ![Failover] = RecPeriod]
    PROVE  FailoverInv'
<1> USE TimingAssumption, WaitsType, NodesDiffer
<1>1. recIn[Failover] \in -Delay..RecPeriod /\ recIn'[Failover] \in -Delay..RecPeriod
  BY DEF TypeOK
<1>2. Alone'
  BY DEF FailoverInv, Alone
<1>3. SeenInv'
  <2>1. seen' = FirstSeen(Failover) /\ seen \in -1..LeaseTTL /\ dark' = dark
    BY DEF ReconcileService, TypeOK
  <2>2. up[Failover]
    BY DEF FailoverInv, Alone
  <2>3. CASE seen = -1
    <3>1. seen' = 0
      BY <2>1, <2>3 DEF FirstSeen
    <3>2. recIn[Failover] + dark <= 0
      BY <2>2, <2>3 DEF FailoverInv, SeenInv
    <3> QED  BY <1>1, <2>1, <3>1, <3>2 DEF SeenInv, TypeOK
  <2>4. CASE seen # -1
    <3>1. seen' = seen
      BY <2>1, <2>4 DEF FirstSeen
    <3> QED  BY <2>1, <2>2, <2>4, <3>1 DEF FailoverInv, SeenInv
  <2> QED  BY <2>3, <2>4
<1>4. hb' = 0 \/ hb' + dark' <= HbTTL
  BY DEF FailoverInv
<1>5. CASE token'[Failover]
  <2>1. GoodOwner'
    <3>1. lease' = Failover /\ ttl' = LeaseTTL
      BY <1>5, ReconcileServiceOwn
    <3>2. LeaseTTL > recIn'[Failover] + Delay
      BY <1>1 DEF RenewsInTime
    <3> QED  BY <1>5, <3>1, <3>2 DEF GoodOwner, OwnsLease
  <2> QED  BY <1>2, <1>3, <1>4, <2>1 DEF FailoverInv
<1>6. CASE ~token'[Failover]
  <2>1. lease' = lease /\ ttl' = ttl /\ dark' = dark
    BY <1>6, ReconcileServiceOwn
  <2>2. StayPassive(Failover)
    BY <1>6 DEF ReconcileService, RenewLease, AcquireLease, OwnsLease, TypeOK
  <2>3. ~GoodOwner
    BY <2>2 DEF StayPassive, GoodOwner
  <2>4. lease' # None => ttl' + dark' <= LeaseTTL
    BY <2>1, <2>3 DEF FailoverInv
  <2>5. dark < Waits
    <3> SUFFICES ASSUME dark >= Waits PROVE FALSE
      BY DEF TypeOK
    <3>1. hb = 0
      BY DEF FailoverInv, TypeOK
    <3>2. lease = None
      <4>1. ttl > 0 \/ lease = None
        BY DEF TypeOK
      <4> QED  BY <2>3, <4>1 DEF FailoverInv, TypeOK
    <3>3. FirstSeen(Failover) >= LeaseTTL
      <4>1. seen' = LeaseTTL \/ seen' + Delay >= dark
        BY <1>2, <1>3, <1>1 DEF SeenInv, Alone, ReconcileService, FirstSeen, TypeOK
      <4>2. PICK s \in Int : seen' = s
        BY DEF TypeOK
      <4>3. dark >= LeaseTTL + Delay
        BY DEF TypeOK
      <4>4. seen' >= LeaseTTL
        BY <4>1, <4>2, <4>3 DEF TypeOK
      <4> QED  BY <4>4 DEF ReconcileService
    <3> QED  BY <2>2, <3>1, <3>2, <3>3 DEF StayPassive, MayCompete
  <2> QED  BY <1>2, <1>3, <1>4, <2>1, <2>4, <2>5 DEF FailoverInv, TypeOK
<1> QED  BY <1>5, <1>6

\* A tick: the keys of a dead Primary run out within the two waits, and the
\* Failover worker's next round then comes within one period.
LEMMA FailoverTick ==
    ASSUME TypeOK, TypeOK', FailoverInv, Tick
    PROVE  FailoverInv'
<1> USE TimingAssumption, WaitsType
<1>1. CASE ~Alone
  <2>1. dark = 0 /\ dark' = 0
    BY <1>1 DEF Tick, FailoverInv, TypeOK
  <2>2. SeenInv'
    <3> SUFFICES ASSUME up'[Failover]
                 PROVE  IF seen' = -1 THEN recIn'[Failover] + dark' <= 0
                        ELSE seen' + Delay >= dark'
      BY DEF SeenInv
    <3>1. up[Failover] /\ recIn'[Failover] = recIn[Failover] - 1
      BY DEF Tick
    <3>2. seen = -1 => recIn[Failover] <= 0
      BY <2>1, <3>1 DEF FailoverInv, SeenInv, TypeOK
    <3>3. recIn[Failover] \in Int /\ seen \in -1..LeaseTTL /\ seen' \in -1..LeaseTTL
      BY DEF TypeOK
    <3>4. seen' = -1 => seen = -1
      BY <3>3 DEF Tick
    <3>5. PICK s \in -1..LeaseTTL : seen' = s
      BY <3>3
    <3> QED  BY <2>1, <3>1, <3>2, <3>3, <3>4, <3>5
  <2> QED  BY <2>1, <2>2, FailoverRestart
<1>2. CASE Alone
  <2>1. /\ dark' = IF dark > FailoverBound THEN dark ELSE dark + 1
        /\ Alone'
    BY <1>2 DEF Tick, Alone
  <2>2. /\ recIn[Failover] > -Delay /\ recIn'[Failover] = recIn[Failover] - 1
        /\ up[Failover] /\ up' = up /\ token' = token
    BY <1>2 DEF Tick, Alone
  <2>3. /\ recIn[Failover] \in Int /\ recIn[Failover] <= RecPeriod
        /\ dark \in Nat /\ ttl \in Nat /\ hb \in Nat /\ seen \in Int
    BY DEF TypeOK
  <2>4. hb' = 0 \/ hb' + dark' <= HbTTL
    BY <2>1, <2>3 DEF Tick, FailoverInv
  <2>5. GoodOwner => GoodOwner'
    BY <2>2, <2>3 DEF GoodOwner, OwnsLease, Tick
  <2>6. lease' # None /\ ~GoodOwner' => ttl' + dark' <= LeaseTTL
    <3> SUFFICES ASSUME lease' # None, ~GoodOwner' PROVE ttl' + dark' <= LeaseTTL
      OBVIOUS
    <3>1. ttl > 1 /\ ttl' = ttl - 1 /\ lease' = lease
      BY <2>3 DEF Tick
    <3>2. ttl + dark <= LeaseTTL
      BY <2>5, <3>1 DEF FailoverInv
    <3> QED  BY <2>1, <2>3, <3>1, <3>2
  <2>7. SeenInv'
    <3>1. IF seen = -1 THEN recIn[Failover] + dark <= 0
          ELSE seen = LeaseTTL \/ seen + Delay >= dark
      BY <2>2 DEF FailoverInv, SeenInv
    <3>2. seen' = IF seen \in {-1, LeaseTTL} THEN seen ELSE seen + 1
      BY DEF Tick
    <3>3. dark' <= dark + 1 /\ dark' \in Int
      BY <2>1, <2>3
    <3>4. CASE seen = -1
      BY <2>2, <2>3, <3>1, <3>2, <3>3, <3>4 DEF SeenInv
    <3>5. CASE seen # -1
      <4>1. seen' = LeaseTTL \/ seen' + Delay >= dark'
        BY <2>3, <3>1, <3>2, <3>3, <3>5
      <4>2. seen' # -1
        BY <2>3, <3>2, <3>5, TypeOK DEF TypeOK
      <4> QED  BY <4>1, <4>2 DEF SeenInv
    <3> QED  BY <3>4, <3>5
  <2>8. dark' >= Waits =>
          GoodOwner' \/ recIn'[Failover] + dark' <= Waits + RecPeriod - 1
    BY <2>1, <2>2, <2>3, <2>5 DEF FailoverInv
  <2> QED  BY <2>1, <2>4, <2>6, <2>7, <2>8 DEF FailoverInv
<1> QED  BY <1>1, <1>2

\* While the count runs the Primary is down; a step that leaves the rest alone
\* keeps the invariant.
LEMMA FailoverSame ==
    ASSUME FailoverInv, UNCHANGED <<hb, lease, ttl, seen, dark>>,
           recIn'[Failover] = recIn[Failover], token'[Failover] = token[Failover],
           up'[Failover] = up[Failover], Alone' = Alone
    PROVE  FailoverInv'
BY DEF FailoverInv, GoodOwner, OwnsLease, SeenInv

\* A step of a live Primary: the count is zero and stays zero.
LEMMA FailoverPrimary ==
    ASSUME TypeOK, TypeOK', FailoverInv, up[Primary], UNCHANGED <<seen, dark>>,
           recIn'[Failover] = recIn[Failover], up'[Failover] = up[Failover]
    PROVE  FailoverInv'
<1>1. dark = 0 /\ dark' = 0
  BY WaitsType DEF FailoverInv, Alone, TypeOK
<1>2. SeenInv'
  BY DEF FailoverInv, SeenInv
<1> QED  BY <1>1, <1>2, FailoverRestart

\* Every step keeps the failover invariant.
LEMMA FailoverStep ==
    ASSUME RenewsInTime, Failover \notin Cuttable, TypeOK, TypeOK', LinkInv,
           FailoverInv, [Next]_vars
    PROVE  FailoverInv'
<1> USE NodesDiffer, TimingAssumption
<1>0. dark = 0 => (up[Failover] => seen # -1 \/ recIn[Failover] <= 0)
  BY DEF FailoverInv, SeenInv, TypeOK
<1>1. CASE Tick
  BY <1>1, FailoverTick
<1>2. CASE Heartbeat
  BY <1>2, FailoverPrimary DEF Heartbeat
<1>3. CASE SetEnabled
  <2>1. SeenInv'
    BY <1>3 DEF SetEnabled, redisVars, timerVars, FailoverInv, SeenInv, TypeOK
  <2> QED  BY <1>3, <2>1, FailoverRestart DEF SetEnabled
<1>4. CASE UNCHANGED vars
  BY <1>4, FailoverSame DEF vars, Alone
<1>5. CASE Worker(Primary)
  <2>1. CASE Reconcile(Primary) \/ LeaseGuard(Primary)
    BY <2>1, FailoverPrimary
    DEF Reconcile, LeaseGuard, ReconcileService, FirstSeen, history, TypeOK
  <2>2. CASE StartCommand(Primary) \/ StopCommand(Primary)
    BY <2>2, FailoverPrimary
    DEF StartCommand, StopCommand, ReconcileService, FirstSeen, timerVars, history
  <2>3. CASE Watchdog(Primary) \/ FfmpegExit(Primary) \/ Heal(Primary)
    BY <2>3, FailoverSame
    DEF Watchdog, FfmpegExit, Heal, redisVars, timerVars, history, Alone, TypeOK
  <2>4. CASE Boot(Primary) \/ Crash(Primary) \/ Cut(Primary)
    <3>1. dark' = 0
      BY <2>4 DEF Boot, Crash, Cut
    <3>2. /\ recIn'[Failover] = recIn[Failover] /\ up'[Failover] = up[Failover]
          /\ seen' = seen
      BY <2>4 DEF Boot, Crash, Cut, timerVars, TypeOK
    <3>3. SeenInv'
      BY <3>1, <3>2 DEF FailoverInv, SeenInv, TypeOK
    <3> QED  BY <3>1, <3>3, FailoverRestart
  <2> QED  BY <1>5, <2>1, <2>2, <2>3, <2>4 DEF Worker
<1>6. CASE Worker(Failover)
  <2>0. linked[Failover]
    BY DEF LinkInv
  <2>1. CASE Reconcile(Failover)
    <3>0. ReconcileService(Failover, wanted, FALSE) /\ dark' = dark /\ up' = up
      BY <2>0, <2>1 DEF Reconcile, history
    <3>1. CASE dark > 0
      BY <2>1, <3>0, <3>1, FailoverReconcile
      DEF FailoverInv, Alone, Reconcile, history
    <3>2. CASE dark = 0
      <4>1. SeenInv'
        <5>1. seen' # -1
          BY <3>0 DEF ReconcileService, FirstSeen
        <5>2. PICK s \in -1..LeaseTTL : seen' = s
          BY DEF TypeOK
        <5> QED  BY <3>0, <3>2, <5>1, <5>2 DEF SeenInv
      <4> QED  BY <3>0, <3>2, <4>1, FailoverRestart
    <3> QED  BY <3>1, <3>2 DEF TypeOK
  <2>2. CASE StartCommand(Failover)
    <3>0. ReconcileService(Failover, TRUE, TRUE) /\ dark' = dark /\ up' = up
      BY <2>2 DEF StartCommand, history
    <3>1. CASE dark > 0
      BY <2>2, <3>0, <3>1, FailoverReconcile DEF StartCommand, timerVars
    <3>2. CASE dark = 0
      <4>1. SeenInv'
        <5>1. seen' # -1
          BY <3>0 DEF ReconcileService, FirstSeen
        <5>2. PICK s \in -1..LeaseTTL : seen' = s
          BY DEF TypeOK
        <5> QED  BY <3>0, <3>2, <5>1, <5>2 DEF SeenInv
      <4> QED  BY <3>0, <3>2, <4>1, FailoverRestart
    <3> QED  BY <3>1, <3>2 DEF TypeOK
  <2>3. CASE LeaseGuard(Failover)
    <3>1. /\ UNCHANGED <<hb, seen, dark, recIn, up, wanted, linked>>
      BY <2>3 DEF LeaseGuard, history
    <3>2. CASE token' = token /\ UNCHANGED <<lease, ttl>>
      BY <3>1, <3>2, FailoverSame DEF Alone
    <3>3. CASE ~OwnsLease(Failover) /\ StopService(Failover)
      <4>1. lease' = lease /\ ttl' = ttl /\ ~token'[Failover]
        BY <3>3 DEF StopService, ReleaseLease, TypeOK
      <4>2. ~GoodOwner /\ ~GoodOwner'
        BY <3>3, <4>1 DEF GoodOwner, OwnsLease
      <4> QED  BY <3>1, <4>1, <4>2 DEF FailoverInv, SeenInv, Alone
    <3> QED  BY <2>0, <2>3, <3>2, <3>3 DEF LeaseGuard, OwnsLease
  <2>4. CASE Watchdog(Failover) \/ FfmpegExit(Failover) \/ Heal(Failover)
    BY <2>0, <2>4, FailoverSame
    DEF Watchdog, FfmpegExit, Heal, redisVars, timerVars, history, Alone
  <2>5. CASE StopCommand(Failover) \/ Cut(Failover)
    <3>1. dark' = 0 /\ UNCHANGED <<recIn, up, seen>>
      BY <2>5 DEF StopCommand, Cut, timerVars
    <3>2. SeenInv'
      BY <3>1 DEF FailoverInv, SeenInv, TypeOK
    <3> QED  BY <3>1, <3>2, FailoverRestart
  <2>6. CASE Boot(Failover)
    <3>1. dark' = 0 /\ recIn'[Failover] = 0 /\ seen' = seen
      BY <2>6 DEF Boot, TypeOK
    <3>2. seen \in -1..LeaseTTL
      BY DEF TypeOK
    <3>3. SeenInv'
      BY <3>1, <3>2 DEF SeenInv
    <3> QED  BY <3>1, <3>3, FailoverRestart
  <2>7. CASE Crash(Failover)
    <3>1. dark' = 0 /\ ~up'[Failover]
      BY <2>7 DEF Crash, TypeOK
    <3> QED  BY <3>1, FailoverRestart DEF SeenInv
  <2> QED  BY <1>6, <2>1, <2>2, <2>3, <2>4, <2>5, <2>6, <2>7 DEF Worker
<1> QED  BY <1>1, <1>2, <1>3, <1>4, <1>5, <1>6 DEF Next

\* If the reconcile loop comes round within the TTL, a Failover worker that
\* always reaches Redis owns the lease once it has been alone for FailoverBound
\* ticks, however often the Primary is cut off or the service disabled before.
THEOREM FailoverBounded ==
    ASSUME RenewsInTime, Failover \notin Cuttable
    PROVE  Spec => []FailoverInTime
<1>1. Init => FailoverInv
  <2> SUFFICES ASSUME Init PROVE FailoverInv
    OBVIOUS
  <2>1. dark = 0 /\ hb = 0 /\ lease = None /\ ~up[Failover]
    BY DEF Init
  <2> QED  BY <2>1, WaitsType DEF FailoverInv, SeenInv
<1>2. TypeOK /\ TypeOK' /\ LinkInv /\ FailoverInv /\ [Next]_vars => FailoverInv'
  BY FailoverStep
<1>3. TypeOK /\ FailoverInv => FailoverInTime
  <2> SUFFICES ASSUME TypeOK, FailoverInv, dark > FailoverBound
               PROVE  lease = Failover /\ token[Failover]
    BY DEF FailoverInTime
  <2>1. dark >= Waits + RecPeriod + Delay /\ dark \in Int
    BY WaitsType, TimingAssumption DEF TypeOK
  <2>2. recIn[Failover] >= -Delay /\ recIn[Failover] \in Int
    BY TimingAssumption DEF TypeOK
  <2>3. GoodOwner
    BY <2>1, <2>2, WaitsType, TimingAssumption DEF FailoverInv
  <2> QED  BY <2>3 DEF GoodOwner, OwnsLease
<1> QED  BY <1>1, <1>2, <1>3, TypeCorrect, Link, PTL DEF Spec

=============================================================================
