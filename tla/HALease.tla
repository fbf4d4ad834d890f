------------------------------- MODULE HALease -------------------------------
(***************************************************************************)
(* Active/passive ownership of ONE stream by two workers, with time        *)
(* (worker/worker.py).  The worker named by target_node (Primary) and the  *)
(* one named by failover_node (Failover) compete for the Redis key         *)
(* stream_lease:<id>, which lives for LeaseTTL ticks unless renewed.  The  *)
(* only renewal is in the reconcile loop; a guard loop stops a pipeline    *)
(* whose lease is gone; the Failover worker waits for the Primary's        *)
(* heartbeat key to expire.                                                *)
(*                                                                         *)
(* Time is a set of countdowns that Tick moves together: what is left of   *)
(* each Redis key and what is left of each loop's sleep.  A loop whose     *)
(* sleep is over runs its body at most Delay ticks late; Delay stands for  *)
(* the body's own run time (the reconcile loop visits every service in     *)
(* turn) and for event-loop latency.  A body is one step here.             *)
(*                                                                         *)
(* The service is fixed: active_passive, auto_failover off, never edited.  *)
(***************************************************************************)
EXTENDS Integers

CONSTANTS
    Primary,        \* config.target_node
    Failover,       \* config.failover_node
    None,           \* no value at the lease key
    HbPeriod,       \* sleep of heartbeat_loop (3 s)
    HbTTL,          \* ex= of the heartbeat key (10 s)
    RecPeriod,      \* sleep of reconcile_loop (5 s)
    GuardPeriod,    \* sleep of lease_guard_loop (2 s)
    LeaseTTL,       \* max(failover_after_seconds, 5)
    Delay,          \* how late a loop body may run
    Cuttable,       \* the workers that may lose their link to Redis
    MayDisable      \* whether operators disable and enable the service

Node == {Primary, Failover}

ASSUME NodesDiffer == Primary # Failover /\ None \notin Node
ASSUME CuttableAssumption == Cuttable \subseteq Node /\ MayDisable \in BOOLEAN
ASSUME TimingAssumption ==
    /\ HbPeriod \in Nat \ {0} /\ HbTTL \in Nat \ {0}
    /\ RecPeriod \in Nat \ {0} /\ GuardPeriod \in Nat \ {0}
    /\ LeaseTTL \in Nat \ {0} /\ Delay \in Nat

VARIABLES
    wanted,     \* enabled flag of the desired config in Redis
    lease,      \* the worker whose token the lease key holds, or None
    ttl,        \* ticks until the lease key expires
    hb,         \* ticks until the Primary's heartbeat key expires (0: absent)
    hbIn,       \* ticks until the Primary's heartbeat loop runs again
    up,         \* the worker process is running
    linked,     \* the worker can reach Redis
    token,      \* lease_tokens has a token of this service
    proc,       \* its entry in processes: none, running, or exited
    retry,      \* its state record does not say retryable: False
    recIn,      \* ticks until the reconcile loop runs again
    guardIn,    \* ticks until the lease guard loop runs again
    seen,       \* Failover's time.time() - first_seen, or -1 before it is set
    beating,    \* history: the Primary sent a heartbeat since it booted
    stray,      \* history: ticks a linked worker ran FFmpeg without the lease
    dark        \* history: ticks the Failover worker was the only one up

redisVars == <<lease, ttl, hb>>
timerVars == <<recIn, guardIn, hbIn>>
history   == <<beating, stray, dark>>
vars == <<wanted, lease, ttl, hb, hbIn, up, linked, token, proc, retry,
          recIn, guardIn, seen, beating, stray, dark>>

\* The number of ticks within which a Failover worker that is alone owns the
\* lease: the longer of the two waits, then one more round of its loop.
Longer(a, b) == IF a >= b THEN a ELSE b
FailoverBound == Longer(HbTTL, LeaseTTL + Delay) + RecPeriod + Delay - 1

TypeOK ==
    /\ wanted \in BOOLEAN
    /\ lease \in Node \cup {None}
    /\ ttl \in 0..LeaseTTL
    /\ lease = None <=> ttl = 0
    /\ hb \in 0..HbTTL
    /\ hbIn \in -Delay..HbPeriod
    /\ up \in [Node -> BOOLEAN]
    /\ linked \in [Node -> BOOLEAN]
    /\ token \in [Node -> BOOLEAN]
    /\ proc \in [Node -> {"none", "running", "exited"}]
    /\ retry \in [Node -> BOOLEAN]
    /\ recIn \in [Node -> -Delay..RecPeriod]
    /\ guardIn \in [Node -> -Delay..GuardPeriod]
    /\ seen \in -1..LeaseTTL
    /\ beating \in BOOLEAN
    /\ stray \in [Node -> Nat]
    /\ dark \in 0..FailoverBound + 1

-----------------------------------------------------------------------------
(* What a worker knows and what it asks Redis.                             *)

\* The value at the lease key is this worker's own token.  A token is drawn
\* when the key is set and forgotten when it is found missing, so a worker
\* that has one and finds its own role in the key finds that token.
OwnsLease(n) == token[n] /\ lease = n

Tracked(n) == proc[n] # "none"

\* Mutants of the definitions that follow them: forms a plausible bug would
\* give the code, each of which some property of the runs refutes.
\* Mutant: first_seen is set anew on every visit.
SeenNow(n) == IF n = Failover THEN 0 ELSE seen

\* first_seen.setdefault(config.id, time.time())
FirstSeen(n) == IF n = Failover /\ seen = -1 THEN 0 ELSE seen

\* Mutant: the Failover worker does not ask for the heartbeat key.
CompeteUnasked(n) == n = Primary \/ FirstSeen(n) >= LeaseTTL

\* The Failover worker competes only after it has known the service for a
\* lease time and while the Primary's heartbeat key is absent.
MayCompete(n) == n = Primary \/ (hb = 0 /\ FirstSeen(n) >= LeaseTTL)

-----------------------------------------------------------------------------
(* stop_service and start_service, as the primed variables they leave.     *)

\* release_lease: forget the token, and delete the key if it still holds it.
ReleaseLease(n) ==
    /\ token' = [token EXCEPT ![n] = FALSE]
    /\ lease' = IF OwnsLease(n) THEN None ELSE lease
    /\ ttl'   = IF OwnsLease(n) THEN 0 ELSE ttl

StopService(n) ==
    /\ proc' = [proc EXCEPT ![n] = "none"]
    /\ ReleaseLease(n)
    /\ UNCHANGED retry

\* FFmpeg is spawned; or the spawn fails, and the entry of the old process is
\* already gone; or the multicast preflight refuses for good.
StartService(n) ==
    \E outcome \in {"spawned", "failed", "refused"} :
        /\ proc'  = [proc EXCEPT ![n] = IF outcome = "spawned" THEN "running" ELSE "none"]
        /\ retry' = [retry EXCEPT ![n] = outcome # "refused"]

-----------------------------------------------------------------------------
(* reconcile_service, for a config that says `enabled'.                    *)

\* Mutant: an owner checks the key without EXPIRE.
CheckLease(n) == OwnsLease(n) /\ UNCHANGED <<ttl, lease, token>>

\* An owner renews; the key is read and its life extended.
RenewLease(n) ==
    /\ OwnsLease(n)
    /\ ttl' = LeaseTTL
    /\ UNCHANGED <<lease, token>>

\* Mutants: SET NX without EX, and SET EX without NX.
AcquireForever(n) ==
    /\ ~OwnsLease(n) /\ MayCompete(n) /\ lease = None
    /\ lease' = n
    /\ token' = [token EXCEPT ![n] = TRUE]
    /\ UNCHANGED ttl

Overwrite(n) ==
    /\ ~OwnsLease(n) /\ MayCompete(n)
    /\ lease' = n
    /\ ttl' = LeaseTTL
    /\ token' = [token EXCEPT ![n] = TRUE]

\* SET NX EX: only when there is no key.
AcquireLease(n) ==
    /\ ~OwnsLease(n) /\ MayCompete(n) /\ lease = None
    /\ lease' = n
    /\ ttl' = LeaseTTL
    /\ token' = [token EXCEPT ![n] = TRUE]

\* Otherwise the worker is passive: a stale token has been dropped and what
\* still ran here is stopped.
StayPassive(n) ==
    /\ ~OwnsLease(n) /\ ~(MayCompete(n) /\ lease = None)
    /\ token' = [token EXCEPT ![n] = FALSE]
    /\ proc' = [proc EXCEPT ![n] = "none"]
    /\ UNCHANGED <<lease, ttl, retry>>

\* With the lease: leave a live process alone, skip one that failed for good
\* unless an operator forces a retry, and otherwise start.
ServeWithLease(n, force) ==
    IF proc[n] = "running" \/ (~force /\ ~retry[n])
    THEN UNCHANGED <<proc, retry>>
    ELSE StartService(n)

ReconcileService(n, enabled, force) ==
    /\ seen' = FirstSeen(n)
    /\ IF ~enabled
       THEN IF Tracked(n)
            THEN StopService(n)
            ELSE UNCHANGED <<lease, ttl, token, proc, retry>>
       ELSE \/ (RenewLease(n) \/ AcquireLease(n)) /\ ServeWithLease(n, force)
            \/ StayPassive(n)

-----------------------------------------------------------------------------
Init ==
    /\ wanted \in BOOLEAN
    /\ MayDisable \/ wanted
    /\ lease = None /\ ttl = 0 /\ hb = 0 /\ hbIn = 0
    /\ up = [n \in Node |-> FALSE]
    /\ linked = [n \in Node |-> TRUE]
    /\ token = [n \in Node |-> FALSE]
    /\ proc = [n \in Node |-> "none"]
    /\ retry = [n \in Node |-> TRUE]
    /\ recIn = [n \in Node |-> 0]
    /\ guardIn = [n \in Node |-> 0]
    /\ seen = -1
    /\ beating = FALSE
    /\ stray = [n \in Node |-> 0]
    /\ dark = 0

\* The bodies of the loops.  Without Redis the heartbeat and reconcile bodies
\* end in their exception handlers; the sleep follows all the same.
Heartbeat ==
    /\ up[Primary] /\ hbIn <= 0
    /\ hbIn' = HbPeriod
    /\ IF linked[Primary]
       THEN hb' = HbTTL /\ beating' = TRUE
       ELSE UNCHANGED <<hb, beating>>
    /\ UNCHANGED <<wanted, lease, ttl, up, linked, token, proc, retry, recIn,
                   guardIn, seen, stray, dark>>

Reconcile(n) ==
    /\ up[n] /\ recIn[n] <= 0
    /\ recIn' = [recIn EXCEPT ![n] = RecPeriod]
    /\ IF linked[n]
       THEN ReconcileService(n, wanted, FALSE)
       ELSE UNCHANGED <<lease, ttl, token, proc, retry, seen>>
    /\ UNCHANGED <<wanted, hb, hbIn, up, linked, guardIn, history>>

\* Mutant: a worker that has a token does not compare it with the key.
TrustToken(n) ==
    /\ up[n] /\ guardIn[n] <= 0
    /\ guardIn' = [guardIn EXCEPT ![n] = GuardPeriod]
    /\ IF Tracked(n) /\ ~token[n]
       THEN StopService(n)
       ELSE UNCHANGED <<lease, ttl, token, proc, retry>>
    /\ UNCHANGED <<wanted, hb, hbIn, up, linked, recIn, seen, history>>

\* A tracked pipeline whose lease is gone is stopped.  With a token and no
\* Redis the lookup raises and nothing is done; without a token the answer
\* is no, whatever Redis says.
LeaseGuard(n) ==
    /\ up[n] /\ guardIn[n] <= 0
    /\ guardIn' = [guardIn EXCEPT ![n] = GuardPeriod]
    /\ IF Tracked(n) /\ (~token[n] \/ (linked[n] /\ ~OwnsLease(n)))
       THEN StopService(n)
       ELSE UNCHANGED <<lease, ttl, token, proc, retry>>
    /\ UNCHANGED <<wanted, hb, hbIn, up, linked, recIn, seen, history>>

\* The watchdog restarts a dead pipeline that still owns its lease.  Its
\* 15 s period is left open: it may come at any time or never.
Watchdog(n) ==
    /\ up[n] /\ linked[n] /\ OwnsLease(n)
    /\ proc[n] # "running" /\ retry[n]
    /\ StartService(n)
    /\ UNCHANGED <<wanted, redisVars, timerVars, up, linked, token, seen, history>>

\* Messages of the stream_commands channel.  A start message carries a config
\* that was enabled when it was published; either kind may be late.
StartCommand(n) ==
    /\ up[n] /\ linked[n]
    /\ MayDisable \/ wanted
    /\ ReconcileService(n, TRUE, TRUE)
    /\ UNCHANGED <<wanted, hb, timerVars, up, linked, history>>

StopCommand(n) ==
    /\ up[n] /\ linked[n] /\ MayDisable
    /\ StopService(n)
    /\ dark' = IF n = Failover THEN 0 ELSE dark
    /\ UNCHANGED <<wanted, hb, timerVars, up, linked, seen, beating, stray>>

-----------------------------------------------------------------------------
(* The environment.                                                        *)

\* Start and stop requests change the desired config.
SetEnabled ==
    /\ MayDisable
    /\ wanted' = ~wanted
    /\ dark' = 0
    /\ UNCHANGED <<redisVars, timerVars, up, linked, token, proc, retry, seen,
                   beating, stray>>

\* FFmpeg exits by itself; its last line may name an error that is not retried.
FfmpegExit(n) ==
    /\ proc[n] = "running"
    /\ proc' = [proc EXCEPT ![n] = "exited"]
    /\ \E r \in BOOLEAN : retry' = [retry EXCEPT ![n] = r]
    /\ UNCHANGED <<wanted, redisVars, timerVars, up, linked, token, seen, history>>

\* A worker boots with empty dictionaries and every loop runs at once, except
\* the watchdog, which sleeps first.
Boot(n) ==
    /\ ~up[n]
    /\ up' = [up EXCEPT ![n] = TRUE]
    /\ recIn' = [recIn EXCEPT ![n] = 0]
    /\ guardIn' = [guardIn EXCEPT ![n] = 0]
    /\ hbIn' = IF n = Primary THEN 0 ELSE hbIn
    /\ dark' = 0
    /\ UNCHANGED <<wanted, redisVars, linked, token, proc, retry, seen, beating,
                   stray>>

\* The container dies and its FFmpeg with it; what is in Redis stays.
Crash(n) ==
    /\ up[n]
    /\ up' = [up EXCEPT ![n] = FALSE]
    /\ token' = [token EXCEPT ![n] = FALSE]
    /\ proc' = [proc EXCEPT ![n] = "none"]
    /\ retry' = [retry EXCEPT ![n] = TRUE]
    /\ recIn' = [recIn EXCEPT ![n] = 0]
    /\ guardIn' = [guardIn EXCEPT ![n] = 0]
    /\ hbIn' = IF n = Primary THEN 0 ELSE hbIn
    /\ beating' = (n # Primary /\ beating)
    /\ seen' = IF n = Failover THEN -1 ELSE seen
    /\ stray' = [stray EXCEPT ![n] = 0]
    /\ dark' = 0
    /\ UNCHANGED <<wanted, redisVars, linked>>

Cut(n) ==
    /\ n \in Cuttable /\ linked[n]
    /\ linked' = [linked EXCEPT ![n] = FALSE]
    /\ stray' = [stray EXCEPT ![n] = 0]
    /\ dark' = 0
    /\ UNCHANGED <<wanted, redisVars, timerVars, up, token, proc, retry, seen,
                   beating>>

Heal(n) ==
    /\ ~linked[n]
    /\ linked' = [linked EXCEPT ![n] = TRUE]
    /\ UNCHANGED <<wanted, redisVars, timerVars, up, token, proc, retry, seen,
                   history>>

\* A worker is straying when its FFmpeg runs, Redis is in reach, and the key
\* does not hold its token.
Straying(n) == proc[n] = "running" /\ linked[n] /\ ~OwnsLease(n)

\* The Failover worker is the only one that can serve.
Alone == wanted /\ ~up[Primary] /\ up[Failover] /\ linked[Failover]

\* One tick for every countdown.  It waits for a loop body that is Delay late.
Tick ==
    /\ \A n \in Node : up[n] => recIn[n] > -Delay /\ guardIn[n] > -Delay
    /\ up[Primary] => hbIn > -Delay
    /\ ttl' = IF ttl = 0 THEN 0 ELSE ttl - 1
    /\ lease' = IF ttl <= 1 THEN None ELSE lease
    /\ hb' = IF hb = 0 THEN 0 ELSE hb - 1
    /\ hbIn' = IF up[Primary] THEN hbIn - 1 ELSE hbIn
    /\ recIn' = [n \in Node |-> IF up[n] THEN recIn[n] - 1 ELSE recIn[n]]
    /\ guardIn' = [n \in Node |-> IF up[n] THEN guardIn[n] - 1 ELSE guardIn[n]]
    /\ seen' = IF seen \in {-1, LeaseTTL} THEN seen ELSE seen + 1
    /\ stray' = [n \in Node |-> IF Straying(n) THEN stray[n] + 1 ELSE 0]
    /\ dark' = IF ~Alone THEN 0
               ELSE IF dark > FailoverBound THEN dark ELSE dark + 1
    /\ UNCHANGED <<wanted, up, linked, token, proc, retry, beating>>

Worker(n) ==
    \/ Reconcile(n) \/ LeaseGuard(n) \/ Watchdog(n)
    \/ StartCommand(n) \/ StopCommand(n)
    \/ FfmpegExit(n) \/ Boot(n) \/ Crash(n) \/ Cut(n) \/ Heal(n)

Next == Tick \/ Heartbeat \/ SetEnabled \/ \E n \in Node : Worker(n)

Spec == Init /\ [][Next]_vars

-----------------------------------------------------------------------------
(* Properties.                                                             *)

\* The loop comes round, late by Delay at most, before the lease runs out.
RenewsInTime == RecPeriod + Delay < LeaseTTL
BeatsInTime  == HbPeriod + Delay < HbTTL

\* A worker that can always reach Redis never loses a lease it has not given
\* up: it renews before expiry whatever the crashes, failovers and retries
\* around it (worker.py:172-196, renewed only from reconcile_loop).
OwnerKeepsLease ==
    \A n \in Node \ Cuttable : token[n] => lease = n

\* At most one worker runs FFmpeg for the stream, through crashes, restarts,
\* FFmpeg exits, failed spawns and forced retries (worker.py:144-154).
SingleStream ==
    \A m, n \in Node : proc[m] = "running" /\ proc[n] = "running" => m = n

\* The Failover worker never takes the stream of a Primary that is alive and
\* has sent a heartbeat since it booted (worker.py:167-170, 185-188).
NoSpuriousFailover ==
    [][lease # Failover /\ lease' = Failover => ~beating]_vars

\* A Failover worker that stays up and in reach of Redis while the Primary is
\* down owns the stream's lease after FailoverBound ticks (worker.py:185-195).
FailoverInTime ==
    dark > FailoverBound => lease = Failover /\ token[Failover]

\* A worker whose lease is gone stops FFmpeg within one guard period of being
\* able to see it, whatever the TTL and whatever was cut off (worker.py:215-226).
StrayStopsInTime ==
    \A n \in Node : Straying(n) => stray[n] <= GuardPeriod + Delay

\* What README.md says of failback: a Primary that comes back does not take
\* the stream from a Failover worker whose FFmpeg is serving it.
NoSteal ==
    [][lease # Primary /\ lease' = Primary => proc[Failover] # "running"]_vars

-----------------------------------------------------------------------------
(* The abstract specification: the lease key names the owner, and whoever  *)
(* runs FFmpeg serves.                                                     *)
Promise == INSTANCE Ownership WITH
    Node <- Node, None <- None,
    owner <- lease, serving <- {n \in Node : proc[n] = "running"}

\* The loops, keys and tokens keep the promise of Ownership through crashes,
\* restarts and failovers: no step hands the stream over while it is served
\* (worker.py:144-226).
KeepsPromise == Promise!Spec

=============================================================================
