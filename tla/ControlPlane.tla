----------------------------- MODULE ControlPlane -----------------------------
(***************************************************************************)
(* The API of the control plane (api/main.py, api/multicast_admission.py): *)
(* the requests that change services, running concurrently in one process. *)
(* A request gives way at each await: at its SELECTs, at its COMMIT and at *)
(* the write of the desired config to Redis.  The commands it publishes    *)
(* afterwards leave nothing behind here (WorkerRuntime receives them).     *)
(*                                                                         *)
(* PostgreSQL runs READ COMMITTED, so a SELECT sees what is committed when *)
(* it runs, and an UPDATE writes only the columns that the request changed *)
(* in the row it had loaded.  The multicast admission guard is held from   *)
(* before the conflict query to the COMMIT or the rollback; only requests  *)
(* that would enable a multicast service, and every start, take it.        *)
(*                                                                         *)
(* A config is cut down to what admission looks at: whether it is enabled, *)
(* the (bind IP, port) keys its multicast input claims, and whether it has *)
(* Full HLS output.  Requests that normalisation or the port and interface *)
(* policy refuse change nothing and are left out.                          *)
(***************************************************************************)
EXTENDS Integers, FiniteSets

CONSTANTS
    Service,        \* service ids
    Key,            \* (bind IP, port) pairs
    Request,        \* requests that may be in flight together
    None,           \* no request
    Posts,          \* bodies of POST /api/services
    Puts,           \* bodies of PUT /api/services/{id}
    ClientIds,      \* whether a POST may name the id, in use or not
    HlsLimit,       \* MAX_FULL_HLS_SERVICES
    MaxRequests,    \* bound: requests in a behaviour
    MaxFaults       \* bound: crashes of the API and failed Redis calls

Row == [enabled : BOOLEAN, keys : SUBSET Key, hls : BOOLEAN]
Gone == [enabled |-> FALSE]     \* no row, or no entry in service_configs

ASSUME RequestAssumption == None \notin Request
ASSUME BodiesAssumption == Posts \subseteq Row /\ Puts \subseteq Row
ASSUME LimitAssumption ==
    ClientIds \in BOOLEAN /\ HlsLimit \in Nat /\ MaxRequests \in Nat /\ MaxFaults \in Nat

Op == {"create", "update", "start", "stop", "delete"}

\* Where a request waits.
Where == {"limit", "guard", "check", "load", "commit", "sync"}

VARIABLES
    db,         \* the services table
    desired,    \* the Redis hash service_configs
    guard,      \* the request that holds the admission guard
    request,    \* the requests in flight
    fresh,      \* ids that uuid4 has not drawn yet
    serving,    \* startup is over
    todo,       \* services that startup has yet to synchronise
    requests,   \* requests so far
    faults,     \* faults so far
    disturbed,  \* history: a service's requests overlapped, one was cut off, or
                \*   startup withheld its config
    skewed,     \* history: a row was written that another had loaded
    crossed     \* history: a stream was written past another's check of the limit

overlapVars == <<skewed, crossed>>
vars == <<db, desired, guard, request, fresh, serving, todo,
          requests, faults, disturbed, overlapVars>>
processVars == <<fresh, serving, todo, faults>>

Idle == [at |-> "idle"]
InFlight == [at : Where, op : Op, svc : Service,
             row : Row \cup {Gone},     \* what the request is to write
             seen : Row \cup {Gone}]    \* the row as the request loaded it

TypeOK ==
    /\ db \in [Service -> Row \cup {Gone}]
    /\ desired \in [Service -> Row \cup {Gone}]
    /\ guard \in Request \cup {None}
    /\ request \in [Request -> InFlight \cup {Idle}]
    /\ guard # None => request[guard].at \in {"load", "limit", "check", "commit"}
    /\ fresh \subseteq Service
    /\ serving \in BOOLEAN
    /\ todo \subseteq Service
    /\ requests \in 0..MaxRequests
    /\ faults \in 0..MaxFaults
    /\ disturbed \in [Service -> BOOLEAN]
    /\ skewed \in BOOLEAN /\ crossed \in BOOLEAN

-----------------------------------------------------------------------------
Others(s) == {t \in Service \ {s} : db[t].enabled}

\* enforce_multicast_bind_conflicts: an enabled service claims one of the keys.
Conflicts(s, row) ==
    row.enabled /\ row.keys # {} /\ \E t \in Others(s) : db[t].keys \cap row.keys # {}

\* enforce_full_hls_service_limit
LimitReached(s, row) ==
    row.enabled /\ row.hls /\ Cardinality({t \in Others(s) : db[t].hls}) >= HlsLimit

\* The requests that take the admission guard.
Guarded(op, row) ==
    \/ op = "start"
    \/ op \in {"create", "update"} /\ row.enabled /\ row.keys # {}

\* A request that has loaded the row it is to change.
Loaded(q) ==
    \/ q.op = "start" /\ q.at \in {"limit", "check", "commit"}
    \/ q.op \in {"update", "stop"} /\ q.at = "commit"

\* A request that was let past the limit with an enabled Full HLS service.
PastLimit(q) ==
    /\ q # Idle /\ q.row.enabled /\ q.row.hls
    /\ q.at \in {"guard", "check", "load", "commit"}

\* An UPDATE of the columns in which `row' differs from the row loaded.
Update(current, seen, row) ==
    [enabled |-> IF row.enabled # seen.enabled THEN row.enabled ELSE current.enabled,
     keys    |-> IF row.keys # seen.keys THEN row.keys ELSE current.keys,
     hls     |-> IF row.hls # seen.hls THEN row.hls ELSE current.hls]

Go(r, where) == request' = [request EXCEPT ![r].at = where]
At(r, where) == serving /\ request[r].at = where
Release(r) == guard' = IF guard = r THEN None ELSE guard

\* Mutant, a form a plausible bug would give the code: no rollback.
Abort(r) ==
    /\ request' = [request EXCEPT ![r] = Idle]
    /\ UNCHANGED <<db, guard>>

\* An HTTPException or a database error: the session rolls back.
Refuse(r) ==
    /\ request' = [request EXCEPT ![r] = Idle]
    /\ Release(r)
    /\ UNCHANGED db

-----------------------------------------------------------------------------
Init ==
    /\ db = [s \in Service |-> Gone]
    /\ desired = db
    /\ guard = None
    /\ request = [r \in Request |-> Idle]
    /\ fresh = Service
    /\ serving = TRUE
    /\ todo = {}
    /\ requests = 0 /\ faults = 0
    /\ disturbed = [s \in Service |-> FALSE]
    /\ skewed = FALSE /\ crossed = FALSE

Pending(s) == {r \in Request : request[r] # Idle /\ request[r].svc = s}

FirstWait(op) ==
    CASE op \in {"create", "update"} -> "limit"
      [] op = "start" -> "guard"
      [] op \in {"stop", "delete"} -> "load"

Submit(r, op, s, row) ==
    /\ serving /\ request[r] = Idle /\ requests < MaxRequests
    /\ requests' = requests + 1
    /\ request' = [request EXCEPT ![r] =
           [at |-> FirstWait(op), op |-> op, svc |-> s, row |-> row, seen |-> Gone]]
    /\ disturbed' = [disturbed EXCEPT ![s] = @ \/ Pending(s) # {}]
    /\ UNCHANGED <<db, desired, guard, serving, todo, faults, overlapVars>>

\* A POST draws a new id unless its body has one; the frontend sends none.
Create(r) ==
    \E s \in IF ClientIds THEN Service ELSE fresh, row \in Posts :
        /\ Submit(r, "create", s, row)
        /\ fresh' = fresh \ {s}

\* The ids a client can name: it has drawn one itself, or it has seen one in a
\* list or an answer, which comes after the commit of the POST.
Known ==
    {s \in Service \ fresh : ClientIds \/ \A r \in Pending(s) :
                                request[r].op = "create" => request[r].at = "sync"}

Put(r) ==
    /\ \E s \in Known, row \in Puts : Submit(r, "update", s, row)
    /\ UNCHANGED fresh

Operate(r) ==
    /\ \E s \in Known, op \in {"start", "stop", "delete"} : Submit(r, op, s, Gone)
    /\ UNCHANGED fresh

\* The Full HLS limit is checked before the guard is taken, but for a start.
Limit(r) ==
    /\ At(r, "limit")
    /\ LET q == request[r]
       IN  IF LimitReached(q.svc, q.row)
           THEN Refuse(r)
           ELSE /\ Go(r, CASE q.op = "start" -> "check"
                           [] q.op # "start" /\ Guarded(q.op, q.row) -> "guard"
                           [] q.op = "create" /\ ~Guarded(q.op, q.row) -> "commit"
                           [] q.op = "update" /\ ~Guarded(q.op, q.row) -> "load")
                /\ UNCHANGED <<db, guard>>
    /\ UNCHANGED <<desired, requests, disturbed, overlapVars, processVars>>

\* Mutant: every request finds a lock of its own.
LockUnshared(r) ==
    /\ At(r, "guard")
    /\ guard' = r
    /\ Go(r, IF request[r].op = "start" THEN "load" ELSE "check")
    /\ UNCHANGED <<db, desired, requests, disturbed, overlapVars, processVars>>

\* async with multicast_admission_guard
Lock(r) ==
    /\ At(r, "guard")
    /\ guard = None
    /\ guard' = r
    /\ Go(r, IF request[r].op = "start" THEN "load" ELSE "check")
    /\ UNCHANGED <<db, desired, requests, disturbed, overlapVars, processVars>>

Check(r) ==
    /\ At(r, "check")
    /\ LET q == request[r]
       IN  IF Conflicts(q.svc, q.row)
           THEN Refuse(r)
           ELSE /\ Go(r, IF q.op = "update" THEN "load" ELSE "commit")
                /\ UNCHANGED <<db, guard>>
    /\ UNCHANGED <<desired, requests, disturbed, overlapVars, processVars>>

\* db.get, and the SELECT of db.merge.  A start or stop edits what it loaded.
Load(r) ==
    /\ At(r, "load")
    /\ LET q   == request[r]
           row == db[q.svc]
           Step(at, new) ==
               request' = [request EXCEPT ![r] = [q EXCEPT !.at = at, !.row = new, !.seen = row]]
       IN  \/ /\ q.op \in {"start", "stop"} /\ row = Gone
              /\ Refuse(r)
           \/ /\ q.op = "start" /\ row # Gone
              /\ Step("limit", [row EXCEPT !.enabled = TRUE])
              /\ UNCHANGED <<db, guard>>
           \/ /\ q.op = "stop" /\ row # Gone
              /\ Step("commit", [row EXCEPT !.enabled = FALSE])
              /\ UNCHANGED <<db, guard>>
           \/ /\ q.op = "update"
              /\ Step("commit", q.row)
              /\ UNCHANGED <<db, guard>>
           \/ /\ q.op = "delete"
              /\ Step(IF row = Gone THEN "sync" ELSE "commit", Gone)
              /\ UNCHANGED <<db, guard>>
    /\ UNCHANGED <<desired, requests, disturbed, overlapVars, processVars>>

\* An update or start writes to a row that another has loaded, and not both hold
\* the guard: the conflict query of one says nothing of what the other writes.
Skews(r) ==
    \E other \in Request \ {r} :
        LET q == request[r]
            p == request[other]
        IN  /\ p # Idle /\ p.svc = q.svc /\ Loaded(p)
            /\ {p.op, q.op} \subseteq {"update", "start"}
            /\ ~(Guarded(p.op, p.row) /\ Guarded(q.op, q.row))

\* A Full HLS service is written when another has been let past the limit, and
\* not both were checked under the guard, as starts are.
Crosses(r) ==
    \E other \in Request \ {r} :
        LET q == request[r]
            p == request[other]
        IN  /\ PastLimit(q) /\ PastLimit(p) /\ p.svc # q.svc
            /\ {p.op, q.op} # {"start"}

\* An INSERT fails on a row that exists by now; an UPDATE on one that is gone.
\* A request that changed nothing writes nothing, whatever became of the row;
\* an update may have changed a column that is left out here.
Commit(r) ==
    /\ At(r, "commit")
    /\ LET q == request[r]
           current == db[q.svc]
           Write(row) ==
               /\ db' = [db EXCEPT ![q.svc] = row]
               /\ Release(r)
               /\ Go(r, "sync")
       IN  \/ /\ q.op = "delete"
              /\ Write(Gone)
           \/ /\ q.op # "delete" /\ q.seen = Gone
              /\ IF current = Gone THEN Write(q.row) ELSE Refuse(r)
           \/ /\ q.op # "delete" /\ q.seen # Gone /\ current # Gone
              /\ Write(Update(current, q.seen, q.row))
           \/ /\ q.op # "delete" /\ q.seen # Gone /\ current = Gone
              /\ \/ (q.op = "update" \/ q.row # q.seen) /\ Refuse(r)
                 \/ q.row = q.seen /\ Write(Gone)
    /\ skewed' = (skewed \/ Skews(r))
    /\ crossed' = (crossed \/ Crosses(r))
    /\ UNCHANGED <<desired, requests, disturbed, processVars>>

\* sync_desired_config writes what the request has in memory.
Sync(r) ==
    /\ At(r, "sync")
    /\ desired' = [desired EXCEPT ![request[r].svc] = request[r].row]
    /\ request' = [request EXCEPT ![r] = Idle]
    /\ UNCHANGED <<db, guard, requests, disturbed, overlapVars, processVars>>

\* Redis is out of reach: the client gets an error for what is committed.
SyncFails(r) ==
    /\ At(r, "sync")
    /\ faults < MaxFaults
    /\ faults' = faults + 1
    /\ request' = [request EXCEPT ![r] = Idle]
    /\ disturbed' = [disturbed EXCEPT ![request[r].svc] = TRUE]
    /\ UNCHANGED <<db, desired, guard, fresh, serving, todo, requests, overlapVars>>

-----------------------------------------------------------------------------
\* The process dies; PostgreSQL rolls its transactions back and the guard with
\* them.  Startup begins with a SELECT of the rows.
Crash ==
    /\ faults < MaxFaults
    /\ faults' = faults + 1
    /\ serving' = FALSE
    /\ todo' = {s \in Service : db[s] # Gone}
    /\ guard' = None
    /\ request' = [r \in Request |-> Idle]
    /\ disturbed' = [s \in Service |-> disturbed[s] \/ Pending(s) # {}]
    /\ UNCHANGED <<db, desired, fresh, requests, overlapVars>>

\* Mutant: startup writes the enabled services only.
SyncEnabled(s) ==
    /\ s \in todo
    /\ todo' = todo \ {s}
    /\ desired' = IF db[s].enabled THEN [desired EXCEPT ![s] = db[s]] ELSE desired
    /\ disturbed' = [disturbed EXCEPT ![s] = FALSE]
    /\ UNCHANGED <<db, guard, request, fresh, serving, requests, faults, overlapVars>>

\* Startup writes the config of every row, and removes those in conflict.
StartupSync(s) ==
    /\ s \in todo
    /\ todo' = todo \ {s}
    /\ desired' = [desired EXCEPT ![s] = IF Conflicts(s, db[s]) THEN Gone ELSE db[s]]
    /\ disturbed' = [disturbed EXCEPT ![s] = Conflicts(s, db[s])]
    /\ UNCHANGED <<db, guard, request, fresh, serving, requests, faults, overlapVars>>

StartupDone ==
    /\ ~serving /\ todo = {}
    /\ serving' = TRUE
    /\ UNCHANGED <<db, desired, guard, request, fresh, todo, requests,
                   faults, disturbed, overlapVars>>

Handle(r) ==
    \/ Limit(r) \/ Lock(r) \/ Check(r) \/ Load(r) \/ Commit(r)
    \/ Sync(r) \/ SyncFails(r)

Next ==
    \/ \E r \in Request : Create(r) \/ Put(r) \/ Operate(r) \/ Handle(r)
    \/ \E s \in Service : StartupSync(s)
    \/ Crash \/ StartupDone

Spec == Init /\ [][Next]_vars

-----------------------------------------------------------------------------
(* Properties.                                                             *)

\* No two enabled services claim one (bind IP, port): the guard keeps each
\* conflict query together with its commit (main.py:187-209, 379-386, 441-455).
NoDoubleClaim ==
    \A s, t \in Service :
        s # t /\ db[s].enabled /\ db[t].enabled => db[s].keys \cap db[t].keys = {}

\* However requests, crashes and failures interleave, two enabled services come
\* to claim one key in one way only: a PUT outside the guard changes a service
\* in the midst of another change of it (main.py:379-386, 411-420, 441-455).
ClaimsKeptApart == ~skewed => NoDoubleClaim

\* The enabled services with Full HLS exceed MAX_FULL_HLS_SERVICES in that way,
\* or because a POST or PUT, which checks the limit outside the guard, and
\* another request both pass the check before either commits
\* (main.py:151-166, 378, 408, 452).
HlsWithinLimit ==
    ~skewed /\ ~crossed =>
        Cardinality({s \in Service : db[s].enabled /\ db[s].hls}) <= HlsLimit

AtRest(s) == serving /\ Pending(s) = {}

\* Where the requests for a service came one after the other, and startup has
\* repaired what a crash or a failed Redis call left undone, Redis holds the
\* committed config, unless startup withheld it (main.py:230-236, 270-293,
\* 388-478).
DesiredFollowsDb ==
    \A s \in Service : AtRest(s) /\ ~disturbed[s] => desired[s] = db[s]

=============================================================================
