------------------------------ MODULE LeaseOps -------------------------------
(***************************************************************************)
(* The lease of one active_passive service, one Redis call at a time       *)
(* (worker/worker.py:144-226, 278-289).  HALease takes the body of a loop  *)
(* as one step; here the reconcile loop, the lease guard and the tasks of  *)
(* start and stop messages of each of two workers interleave between       *)
(* sending a command, its execution and the reply.  GET then EXPIRE, GET   *)
(* then DEL, and SET NX then the note of the token are such pairs.         *)
(*                                                                         *)
(* Time is left out.  HALease shows that a worker that has its token noted *)
(* renews before the key expires, and a key just set has its whole life    *)
(* before it.  Any other key expires at any moment, whatever a task that   *)
(* has asked for it is about to do: one that a stop has let go may lapse   *)
(* and change hands between the GET and the DEL of its release.            *)
(*                                                                         *)
(* The service stays enabled and its FFmpeg never fails for good; late     *)
(* messages and late reads of the hash may still say otherwise.  A process *)
(* that another start overwrites is WorkerRuntime's business, and the      *)
(* watchdog, which starts FFmpeg and leaves lease and token alone, is      *)
(* HALease's.                                                              *)
(***************************************************************************)
EXTENDS Integers

CONSTANTS
    Primary, Failover,  \* config.target_node and config.failover_node
    None,               \* no token, no value at the key
    MessageTask,        \* names of the tasks that start and stop messages create
    Listening,          \* bound: the workers that messages and stale reads reach
    MaxTokens,          \* bound: tokens of a worker in use at once
    MaxMessages,        \* bound: start and stop messages, stale reads
    MaxFaults           \* bound: crashes, failed Redis calls and spawns, FFmpeg exits

Node == {Primary, Failover}
Token == Node \X (1..MaxTokens)

ASSUME NodesDiffer == Primary # Failover /\ None \notin Node \cup Token
ASSUME TasksDiffer == {"reconcile", "guard"} \cap MessageTask = {}
ASSUME BoundsAssumption ==
    /\ Listening \subseteq Node
    /\ MaxTokens \in Nat \ {0} /\ MaxMessages \in Nat /\ MaxFaults \in Nat

\* The tasks of a worker: two loops, and those of messages.
Task == {"reconcile", "guard"} \cup MessageTask

\* Where a task is.  "get" and "set" are commands sent; "got" and "stored" are
\* replies on their way; the rest await what their name says.
Why == {"renew", "guard", "release"}
Idle == [at |-> "idle"]
Place == {Idle} \cup [at : {"exists", "expire", "spawn"}]
         \cup [at : {"get"}, why : Why, mine : Token]
         \cup [at : {"got", "del"}, why : Why, mine : Token, same : BOOLEAN]
         \cup [at : {"set"}, new : Token]
         \cup [at : {"stored"}, new : Token, ok : BOOLEAN]

VARIABLES
    lease,      \* the value at stream_lease:<id>
    hb,         \* whether the Primary's heartbeat key exists
    waited,     \* whether Failover has known the service for a lease time
    up,         \* the worker process is running
    token,      \* lease_tokens[id]
    proc,       \* processes[id]: none, running, or exited
    task,       \* where each task is
    messages,   \* messages and stale reads so far
    faults,     \* faults so far
    struck      \* history: tokens whose key the release of another one deleted

counters == <<messages, faults>>
keys == <<hb, waited>>
vars == <<lease, keys, up, token, proc, task, messages, faults, struck>>

TypeOK ==
    /\ lease \in Token \cup {None}
    /\ hb \in BOOLEAN /\ waited \in BOOLEAN
    /\ up \in [Node -> BOOLEAN]
    /\ token \in [Node -> Token \cup {None}]
    /\ proc \in [Node -> {"none", "running", "exited"}]
    /\ task \in [Node -> [Task -> Place]]
    /\ messages \in 0..MaxMessages
    /\ faults \in 0..MaxFaults
    /\ struck \subseteq Token

-----------------------------------------------------------------------------
\* The token a task has in hand, if any.
InHand(w) ==
    IF w.at \in {"get", "got", "del"} THEN w.mine
    ELSE IF w.at \in {"set", "stored"} THEN w.new ELSE None

\* Somebody refers to token k.
Known(k) ==
    \/ lease = k
    \/ \E n \in Node : token[n] = k \/ \E t \in Task : InHand(task[n][t]) = k

FreshTokens(n) == {k \in Token : k[1] = n /\ ~Known(k)}

\* A SET NX has stored the token and its reply is on its way.
JustSet(w) == w.at = "stored" /\ w.ok

\* The key of token k has a life before it: its worker renews it, or has only
\* just set it.
Kept(k) ==
    \E n \in Node :
        \/ token[n] = k
        \/ \E t \in Task : JustSet(task[n][t]) /\ task[n][t].new = k

\* A struck token counts as long as a worker goes by it.
Remember(hit) == struck' = {k \in struck \cup hit : Kept(k)'}

Goto(n, t, where) == task' = [task EXCEPT ![n][t] = where]
At(n, t, place) == task[n][t].at = place

-----------------------------------------------------------------------------
(* Segments of a coroutine of worker n, as the variables they change:      *)
(* token, proc and task.                                                   *)

\* Mutant: release_lease asks Redis also when no token was noted.
StopAlwaysAsking(n, t) ==
    /\ proc' = [proc EXCEPT ![n] = "none"]
    /\ token' = [token EXCEPT ![n] = None]
    /\ Goto(n, t, [at |-> "get", why |-> "release", mine |-> token[n]])

\* stop_service, then release_lease up to its GET: the token is forgotten first.
StopService(n, t) ==
    /\ proc' = [proc EXCEPT ![n] = "none"]
    /\ token' = [token EXCEPT ![n] = None]
    /\ Goto(n, t, IF token[n] = None THEN Idle
                  ELSE [at |-> "get", why |-> "release", mine |-> token[n]])

\* With the lease: a live process is left alone; else start_service, up to its
\* awaits, which clears the entry and keeps the lease.
Serve(n, t) ==
    IF proc[n] = "running" THEN Goto(n, t, Idle) /\ UNCHANGED proc
    ELSE /\ proc' = [proc EXCEPT ![n] = "none"]
         /\ Goto(n, t, [at |-> "spawn"])

\* Without it: what is tracked is stopped.
StayPassive(n, t) ==
    IF proc[n] = "none" THEN Goto(n, t, Idle) /\ UNCHANGED <<token, proc>>
                        ELSE StopService(n, t)

SendSet(n, t) ==
    /\ \E k \in FreshTokens(n) :
           /\ \A j \in FreshTokens(n) : k[2] <= j[2]
           /\ Goto(n, t, [at |-> "set", new |-> k])
    /\ UNCHANGED proc

\* The Failover worker asks for the Primary's heartbeat before it competes.
Compete(n, t) ==
    IF n = Primary THEN SendSet(n, t)
                   ELSE Goto(n, t, [at |-> "exists"]) /\ UNCHANGED proc

\* ensure_active_passive_lease, up to its first await.
EnsureLease(n, t) ==
    /\ UNCHANGED token
    /\ IF token[n] = None THEN Compete(n, t)
       ELSE /\ Goto(n, t, [at |-> "get", why |-> "renew", mine |-> token[n]])
            /\ UNCHANGED proc

-----------------------------------------------------------------------------
Init ==
    /\ lease = None
    /\ hb = FALSE /\ waited = FALSE
    /\ up = [n \in Node |-> FALSE]
    /\ token = [n \in Node |-> None]
    /\ proc = [n \in Node |-> "none"]
    /\ task = [n \in Node |-> [t \in Task |-> Idle]]
    /\ messages = 0
    /\ faults = 0
    /\ struck = {}

Begins(n, t) == up[n] /\ task[n][t] = Idle

\* A round of the reconcile loop; what it read of the hash may be stale.
Reconcile(n) ==
    /\ Begins(n, "reconcile")
    /\ EnsureLease(n, "reconcile")
    /\ UNCHANGED <<lease, keys, up, counters>>
    /\ Remember({})

ReconcileStale(n) ==
    /\ Begins(n, "reconcile") /\ n \in Listening
    /\ messages < MaxMessages /\ messages' = messages + 1
    /\ proc[n] # "none"
    /\ StopService(n, "reconcile")
    /\ UNCHANGED <<lease, keys, up, faults>>
    /\ Remember({})

Guard(n) ==
    /\ Begins(n, "guard") /\ proc[n] # "none"
    /\ IF token[n] = None THEN StopService(n, "guard")
       ELSE /\ Goto(n, "guard", [at |-> "get", why |-> "guard", mine |-> token[n]])
            /\ UNCHANGED <<token, proc>>
    /\ UNCHANGED <<lease, keys, up, counters>>
    /\ Remember({})

\* A message arrives: reconcile_service for a start, stop_service for a stop.
Message(n, t) ==
    /\ Begins(n, t) /\ n \in Listening
    /\ messages < MaxMessages /\ messages' = messages + 1
    /\ EnsureLease(n, t) \/ StopService(n, t)
    /\ UNCHANGED <<lease, keys, up, faults>>
    /\ Remember({})

-----------------------------------------------------------------------------
(* Redis executes a command, and its reply comes back.                     *)

ExecuteGet(n, t) ==
    /\ At(n, t, "get")
    /\ LET w == task[n][t]
       IN  Goto(n, t, [at |-> "got", why |-> w.why, mine |-> w.mine,
                       same |-> lease = w.mine])
    /\ UNCHANGED <<lease, keys, up, token, proc, counters, struck>>

\* Mutant: SET without NX.
ExecuteSetAlways(n, t) ==
    /\ At(n, t, "set")
    /\ lease' = task[n][t].new
    /\ Goto(n, t, [at |-> "stored", new |-> task[n][t].new, ok |-> TRUE])
    /\ UNCHANGED <<keys, up, token, proc, counters, struck>>

ExecuteSet(n, t) ==
    /\ At(n, t, "set")
    /\ lease' = IF lease = None THEN task[n][t].new ELSE lease
    /\ Goto(n, t, [at |-> "stored", new |-> task[n][t].new, ok |-> lease = None])
    /\ UNCHANGED <<keys, up, token, proc, counters, struck>>

\* DEL names the key, not the token: it strikes whoever has set the key since
\* the GET found it unchanged.
ExecuteDel(n, t) ==
    /\ At(n, t, "del")
    /\ lease' = None
    /\ Goto(n, t, Idle)
    /\ UNCHANGED <<keys, up, token, proc, counters>>
    /\ Remember(IF task[n][t].same THEN {lease} \ {None, task[n][t].mine} ELSE {})

\* EXPIRE is answered and its answer ignored.
Expired(n, t) ==
    /\ At(n, t, "expire")
    /\ Serve(n, t)
    /\ UNCHANGED <<lease, keys, up, token, counters, struck>>

Got(n, t, why, same) ==
    At(n, t, "got") /\ task[n][t].why = why /\ task[n][t].same = same

\* The reply of the GET in ensure_active_passive_lease.  A token that was found
\* stale is dropped, whichever token is noted by then.
RenewReply(n, t) ==
    /\ \/ /\ Got(n, t, "renew", TRUE)
          /\ Goto(n, t, [at |-> "expire"]) /\ UNCHANGED <<token, proc>>
       \/ /\ Got(n, t, "renew", FALSE)
          /\ token' = [token EXCEPT ![n] = None]
          /\ Compete(n, t)
    /\ UNCHANGED <<lease, keys, up, counters>>
    /\ Remember({})

GuardReply(n, t) ==
    /\ \/ Got(n, t, "guard", TRUE) /\ Goto(n, t, Idle) /\ UNCHANGED <<token, proc>>
       \/ Got(n, t, "guard", FALSE) /\ StopService(n, t)
    /\ UNCHANGED <<lease, keys, up, counters>>
    /\ Remember({})

\* Mutant: release_lease deletes the key without comparing what GET returned.
ReleaseUnchecked(n, t) ==
    /\ \E same \in BOOLEAN :
           /\ Got(n, t, "release", same)
           /\ Goto(n, t, [task[n][t] EXCEPT !.at = "del"])
    /\ UNCHANGED <<lease, keys, up, token, proc, counters, struck>>

ReleaseReply(n, t) ==
    /\ \E same \in BOOLEAN :
           /\ Got(n, t, "release", same)
           /\ Goto(n, t, IF same THEN [task[n][t] EXCEPT !.at = "del"] ELSE Idle)
    /\ UNCHANGED <<lease, keys, up, token, proc, counters, struck>>

\* Healthy or not known for long enough: passive.  Else it competes.
ExistsReply(n, t) ==
    /\ At(n, t, "exists")
    /\ IF hb \/ ~waited THEN StayPassive(n, t) ELSE SendSet(n, t) /\ UNCHANGED token
    /\ UNCHANGED <<lease, keys, up, counters>>
    /\ Remember({})

SetReply(n, t) ==
    /\ At(n, t, "stored")
    /\ IF task[n][t].ok
       THEN token' = [token EXCEPT ![n] = task[n][t].new] /\ Serve(n, t)
       ELSE StayPassive(n, t)
    /\ UNCHANGED <<lease, keys, up, counters>>
    /\ Remember({})

Spawned(n, t) ==
    /\ At(n, t, "spawn")
    /\ proc' = [proc EXCEPT ![n] = "running"]
    /\ Goto(n, t, Idle)
    /\ UNCHANGED <<lease, keys, up, token, counters, struck>>

-----------------------------------------------------------------------------
(* The environment.                                                        *)

Fault == faults < MaxFaults /\ faults' = faults + 1

FfmpegExit(n) ==
    /\ Fault
    /\ proc[n] = "running"
    /\ proc' = [proc EXCEPT ![n] = "exited"]
    /\ UNCHANGED <<lease, keys, up, token, task, messages, struck>>

\* A Redis call or the spawn raises, and the round or the task ends there.  A
\* command may have been executed before its connection broke, or not.
CallFails(n, t) ==
    /\ Fault
    /\ task[n][t] # Idle
    /\ Goto(n, t, Idle)
    /\ UNCHANGED <<lease, keys, up, token, proc, messages>>
    /\ Remember({})

Crash(n) ==
    /\ Fault /\ up[n]
    /\ up' = [up EXCEPT ![n] = FALSE]
    /\ token' = [token EXCEPT ![n] = None]
    /\ proc' = [proc EXCEPT ![n] = "none"]
    /\ task' = [task EXCEPT ![n] = [t \in Task |-> Idle]]
    /\ waited' = (waited /\ n # Failover)
    /\ UNCHANGED <<lease, hb, messages>>
    /\ Remember({})

\* The heartbeat loop beats at once when the Primary boots, and in time after.
Boot(n) ==
    /\ ~up[n]
    /\ up' = [up EXCEPT ![n] = TRUE]
    /\ hb' = (hb \/ n = Primary)
    /\ UNCHANGED <<lease, waited, token, proc, task, counters, struck>>

\* time.time() - first_seen reaches the TTL; the first round sets first_seen.
Wait ==
    /\ up[Failover] /\ ~waited
    /\ waited' = TRUE
    /\ UNCHANGED <<lease, hb, up, token, proc, task, counters, struck>>

\* Mutant: the heartbeat key is set without EX.
HeartbeatStays == FALSE

HeartbeatExpires ==
    /\ hb /\ ~up[Primary]
    /\ hb' = FALSE
    /\ UNCHANGED <<lease, waited, up, token, proc, task, counters, struck>>

LeaseExpires ==
    /\ lease # None /\ ~Kept(lease)
    /\ lease' = None
    /\ UNCHANGED <<keys, up, token, proc, task, counters, struck>>

Begin(n) ==
    \/ Reconcile(n) \/ ReconcileStale(n) \/ Guard(n)
    \/ \E t \in MessageTask : Message(n, t)

Execute(n, t) == ExecuteGet(n, t) \/ ExecuteSet(n, t) \/ ExecuteDel(n, t)

Resume(n, t) ==
    \/ Expired(n, t) \/ RenewReply(n, t) \/ GuardReply(n, t)
    \/ ReleaseReply(n, t) \/ ExistsReply(n, t) \/ SetReply(n, t) \/ Spawned(n, t)

Continue(n, t) == Execute(n, t) \/ Resume(n, t)

Next ==
    \/ HeartbeatExpires \/ LeaseExpires \/ Wait
    \/ \E n \in Node :
          \/ Begin(n) \/ FfmpegExit(n) \/ Crash(n) \/ Boot(n)
          \/ \E t \in Task : Continue(n, t) \/ CallFails(n, t)

\* Redis answers, loops come round, keys that nobody renews expire.
Fairness ==
    /\ WF_vars(HeartbeatExpires) /\ WF_vars(Wait) /\ WF_vars(LeaseExpires)
    /\ \A n \in Node :
          /\ WF_vars(Reconcile(n) \/ Continue(n, "reconcile"))
          /\ WF_vars(Guard(n) \/ Continue(n, "guard"))
          /\ \A t \in MessageTask : WF_vars(Continue(n, t))

Spec == Init /\ [][Next]_vars /\ Fairness

-----------------------------------------------------------------------------
(* Properties.                                                             *)

\* A worker that has a token noted has that very token in the key, however its
\* tasks interleave: none of them deletes or loses the lease under another.  The
\* one thing that may take the key from it is the DEL of a release that found
\* its own token there, and whose key lapsed and was set again before the DEL
\* (worker.py:172-196, 206-213).
TokenIsKey ==
    \A n \in Node : token[n] # None => lease = token[n] \/ token[n] \in struck

\* The abstract specification: the key names the owner, and a worker serves
\* while it runs FFmpeg with a token noted that was not struck.
owner == IF lease = None THEN None ELSE lease[1]
serving == {n \in Node : proc[n] = "running" /\ token[n] \notin {None} \cup struck}

Promise == INSTANCE Ownership WITH
    Node <- Node, None <- None, owner <- owner, serving <- serving

\* The single calls keep the promise of Ownership: whatever interleaves between
\* GET and EXPIRE, GET and DEL, SET and the note of the token, and also when the
\* key lapses there, the lease is handed over only when nobody serves under it.
\* A worker whose key another's late DEL struck has lost the lease at that
\* moment; its FFmpeg runs on until it looks (worker.py:172-226).
KeepsPromise == Promise!Spec

\* While a worker is up for good, the stream is served under the lease again
\* and again: no race leaves the key with a token that keeps everyone out
\* (worker.py:144-196).
StreamReturns ==
    (\E n \in Node : <>[]up[n]) =>
        []<>(\E n \in Node : proc[n] = "running" /\ token[n] # None)

=============================================================================
