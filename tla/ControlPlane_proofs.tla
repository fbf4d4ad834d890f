-------------------------- MODULE ControlPlane_proofs --------------------------
(***************************************************************************)
(* What ControlPlane promises for any services, keys, bodies, limits and   *)
(* any number of requests and faults, as long as ids come from the server. *)
(***************************************************************************)
EXTENDS ControlPlane, FiniteSetTheorems, TLAPS

Writer == {"create", "update", "start"}

\* A request that has passed the conflict query, to write what it will write.
Cleared(q) ==
    \/ q.op \in Writer /\ q.at = "commit"
    \/ q.op = "update" /\ q.at = "load"

Holds(q) ==
    \/ q.op = "start" /\ q.at \in {"load", "limit", "check", "commit"}
    \/ q.op \in {"create", "update"} /\ Guarded(q.op, q.row)
       /\ q.at \in {"check", "load", "commit"}

\* Where a request of each kind waits, and what it carries there.
Shape(q) ==
    /\ q.op \in {"create", "update"} => q.row \in Row
    /\ q.op = "create" => q.at # "load" /\ q.seen = Gone /\ q.row \in Posts
    /\ q.op = "update" => q.row \in Puts
    /\ q.op \in {"stop", "delete"} => q.at \in {"load", "commit", "sync"}
    /\ q.op = "start" /\ Loaded(q) =>
           q.seen \in Row /\ q.row = [q.seen EXCEPT !.enabled = TRUE]
    /\ q.op = "stop" /\ Loaded(q) =>
           q.seen \in Row /\ q.row = [q.seen EXCEPT !.enabled = FALSE]
    /\ q.op = "delete" => q.row = Gone
    /\ q.op = "start" /\ q.at \in {"guard", "load"} => q.row = Gone
    /\ q.at \in {"guard", "check"} => Guarded(q.op, q.row)

\* The guard belongs to the request that took it and has not ended its
\* transaction; nothing is in flight while the process is down.
ShapeInv ==
    /\ \A r \in Request : request[r] # Idle =>
           Shape(request[r]) /\ (Holds(request[r]) <=> guard = r)
    /\ guard # None => request[guard] # Idle
    /\ ~serving => \A r \in Request : request[r] = Idle
    /\ serving => todo = {}

TypeInv == TypeOK /\ ShapeInv

-----------------------------------------------------------------------------
(* Admission.                                                              *)

\* No other request knows the id of a service that is being created.
FreshInv ==
    /\ \A s \in fresh : db[s] = Gone
    /\ \A r \in Request : request[r] # Idle => request[r].svc \notin fresh
    /\ \A r \in Request :
           request[r] # Idle /\ request[r].op = "create" /\ request[r].at # "sync" =>
               /\ db[request[r].svc] = Gone
               /\ \A other \in Request \ {r} :
                      request[other] # Idle => request[other].svc # request[r].svc

\* Until a request writes back a row that it loaded, others may delete the row
\* or disable it.
StableInv ==
    \A r \in Request :
        LET q == request[r]
            row == db[q.svc]
        IN  q # Idle /\ q.op # "stop" /\ Loaded(q) /\ q.seen # Gone /\ row # Gone =>
                /\ row.keys = q.seen.keys /\ row.hls = q.seen.hls
                /\ row.enabled => q.seen.enabled

ClearInv ==
    \A r \in Request :
        LET q == request[r]
        IN  q # Idle /\ Cleared(q) => ~Conflicts(q.svc, q.row)

ClaimInv == FreshInv /\ (~skewed => StableInv /\ ClearInv /\ NoDoubleClaim)

\* The limit holds, and a request past its check of it finds room for one more.
RoomInv ==
    /\ Cardinality({s \in Service : db[s].enabled /\ db[s].hls}) <= HlsLimit
    /\ \A r \in Request : PastLimit(request[r]) => 
           ~LimitReached(request[r].svc, request[r].row)

LimitInv == ~skewed /\ ~crossed => RoomInv

\* How far a request that runs alone on its service has taken the two stores.
Follows(q, wanted, row) ==
    /\ q.at = "sync" => q.row = row
    /\ q.at # "sync" => wanted = row
    /\ Loaded(q) => q.seen = row

On(r, s) == request[r] # Idle /\ request[r].svc = s

\* A service whose requests come one after the other.
SerialInv ==
    \A s \in Service : ~disturbed[s] =>
        /\ \A r, other \in Request : On(r, s) /\ On(other, s) => r = other
        /\ (\A r \in Request : ~On(r, s)) => desired[s] = db[s]
        /\ \A r \in Request : On(r, s) => Follows(request[r], desired[s], db[s])

-----------------------------------------------------------------------------
(* The types.                                                              *)

LEMMA Rows ==
    /\ Gone \notin Row /\ Gone.enabled = FALSE
    /\ \A row \in Row, e \in BOOLEAN : [row EXCEPT !.enabled = e] \in Row
    /\ \A row \in Row, e \in BOOLEAN :
           /\ [row EXCEPT !.enabled = e].enabled = e
           /\ [row EXCEPT !.enabled = e].keys = row.keys
           /\ [row EXCEPT !.enabled = e].hls = row.hls
    /\ \A row \in Row : row.enabled \in BOOLEAN /\ row.keys \subseteq Key /\ row.hls \in BOOLEAN
BY DEF Row, Gone

LEMMA UpdateType ==
    ASSUME NEW current \in Row, NEW seen \in Row, NEW row \in Row
    PROVE  /\ Update(current, seen, row) \in Row
           /\ Update(seen, seen, row) = row
BY DEF Update, Row

LEMMA IdleApart == Idle \notin InFlight
BY DEF Idle, InFlight, Where

LEMMA Fields ==
    ASSUME NEW q \in InFlight
    PROVE  /\ q.at \in Where /\ q.op \in Op /\ q.svc \in Service
           /\ q.row \in Row \cup {Gone} /\ q.seen \in Row \cup {Gone}
BY DEF InFlight

LEMMA Moved ==
    ASSUME NEW q \in InFlight, NEW at \in Where
    PROVE  LET new == [q EXCEPT !.at = at]
           IN  /\ new \in InFlight /\ new.at = at /\ new.op = q.op
               /\ new.svc = q.svc /\ new.row = q.row /\ new.seen = q.seen
BY DEF InFlight

LEMMA Rewritten ==
    ASSUME NEW q \in InFlight, NEW at \in Where,
           NEW row \in Row \cup {Gone}, NEW seen \in Row \cup {Gone}
    PROVE  LET new == [q EXCEPT !.at = at, !.row = row, !.seen = seen]
           IN  /\ new \in InFlight /\ new.at = at /\ new.op = q.op
               /\ new.svc = q.svc /\ new.row = row /\ new.seen = seen
BY DEF InFlight

\* A request that is somewhere is in flight.
LEMMA AtType ==
    ASSUME TypeOK, NEW r \in Request, request[r] # Idle
    PROVE  /\ request[r] \in InFlight
           /\ request[r].at \in Where /\ request[r].op \in Op
           /\ request[r].svc \in Service
           /\ request[r].row \in Row \cup {Gone}
           /\ request[r].seen \in Row \cup {Gone}
<1>1. request[r] \in InFlight
  BY DEF TypeOK
<1> QED  BY <1>1, Fields

LEMMA AtWhere ==
    ASSUME TypeOK, NEW r \in Request, NEW where \in Where, At(r, where)
    PROVE  request[r] # Idle /\ request[r] \in InFlight /\ serving
<1>1. request[r] # Idle
  BY DEF At, Idle, Where
<1> QED  BY <1>1 DEF TypeOK, At

\* A step of request r, which leaves it at `new' and touches no other request.
LEMMA RequestStep ==
    ASSUME TypeInv, NEW r \in Request, NEW new \in InFlight \cup {Idle},
           request' = [request EXCEPT ![r] = new],
           new # Idle => Shape(new),
           new # Idle => (Holds(new) <=> guard' = r),
           guard' \in {guard, r, None}, guard' # r => new = Idle \/ ~Holds(new),
           guard \in {None, r} \/ guard' = guard,
           guard' = r => new # Idle,
           serving, UNCHANGED <<serving, todo>>,
           db' \in [Service -> Row \cup {Gone}],
           desired' \in [Service -> Row \cup {Gone}],
           fresh' \subseteq Service,
           requests' \in 0..MaxRequests, faults' \in 0..MaxFaults,
           disturbed' \in [Service -> BOOLEAN],
           skewed' \in BOOLEAN, crossed' \in BOOLEAN
    PROVE  TypeInv'
<1>1. request' \in [Request -> InFlight \cup {Idle}]
  BY DEF TypeInv, TypeOK
<1>2. guard' \in Request \cup {None}
  BY DEF TypeInv, TypeOK
<1>3. ASSUME NEW s \in Request, request'[s] # Idle
      PROVE  Shape(request'[s]) /\ (Holds(request'[s]) <=> guard' = s)
  <2>1. CASE s = r
    BY <1>3, <2>1 DEF TypeInv, TypeOK
  <2>2. CASE s # r
    <3>1. request'[s] = request[s]
      BY <2>2 DEF TypeInv, TypeOK
    <3>2. guard' = s <=> guard = s
      BY <2>2, RequestAssumption
    <3> QED  BY <1>3, <3>1, <3>2 DEF TypeInv, ShapeInv
  <2> QED  BY <2>1, <2>2
<1>4. guard' # None => request'[guard'] # Idle
  <2>1. CASE guard' = r
    BY <2>1 DEF TypeInv, TypeOK
  <2>2. CASE guard' # r /\ guard' # None
    BY <2>2 DEF TypeInv, TypeOK, ShapeInv
  <2> QED  BY <2>1, <2>2
<1>5. ShapeInv'
  BY <1>3, <1>4 DEF ShapeInv, TypeInv
<1>6. guard' # None => request'[guard'].at \in {"load", "limit", "check", "commit"}
  <2>1. guard' # None => Holds(request'[guard'])
    BY <1>2, <1>3, <1>4
  <2> QED  BY <2>1 DEF Holds
<1>7. TypeOK'
  BY <1>1, <1>2, <1>6 DEF TypeInv, TypeOK
<1> QED  BY <1>5, <1>7 DEF TypeInv

LEMMA InitType == Init => TypeInv
<1> SUFFICES ASSUME Init PROVE TypeInv
  OBVIOUS
<1>1. db \in [Service -> Row \cup {Gone}] /\ desired \in [Service -> Row \cup {Gone}]
  BY DEF Init
<1>2. request \in [Request -> InFlight \cup {Idle}]
  BY DEF Init
<1>3. disturbed \in [Service -> BOOLEAN] /\ skewed \in BOOLEAN /\ crossed \in BOOLEAN
  BY DEF Init
<1>4. requests \in 0..MaxRequests /\ faults \in 0..MaxFaults
  BY LimitAssumption DEF Init
<1>5. ShapeInv
  BY DEF Init, ShapeInv
<1> QED  BY <1>1, <1>2, <1>3, <1>4, <1>5 DEF Init, TypeInv, TypeOK

LEMMA SubmitType ==
    ASSUME TypeInv, NEW r \in Request, NEW op \in Op, NEW s \in Service,
           NEW row \in Row \cup {Gone}, Submit(r, op, s, row), fresh' \subseteq Service,
           op = "create" => row \in Posts, op = "update" => row \in Puts,
           op \in {"start", "stop", "delete"} => row = Gone
    PROVE  TypeInv'
<1> DEFINE new == [at |-> FirstWait(op), op |-> op, svc |-> s, row |-> row, seen |-> Gone]
<1>1. FirstWait(op) \in {"limit", "guard", "load"}
      /\ (op \in {"create", "update"} => FirstWait(op) = "limit")
      /\ (op = "start" => FirstWait(op) = "guard")
      /\ (op \in {"stop", "delete"} => FirstWait(op) = "load")
  BY DEF FirstWait, Op
<1>2. new \in InFlight
  BY <1>1 DEF InFlight, Where
<1>3. Shape(new) /\ ~Holds(new)
  BY <1>1, BodiesAssumption DEF Shape, Holds, Loaded, Guarded, Op
<1>4. guard # r
  BY RequestAssumption DEF Submit, TypeInv, ShapeInv
<1>5. /\ requests' \in 0..MaxRequests
      /\ disturbed' \in [Service -> BOOLEAN]
      /\ request' = [request EXCEPT ![r] = new]
      /\ serving /\ UNCHANGED <<db, desired, guard, serving, todo, faults>>
      /\ skewed' \in BOOLEAN /\ crossed' \in BOOLEAN
  BY LimitAssumption DEF Submit, overlapVars, TypeInv, TypeOK
<1> HIDE DEF new
<1> QED  BY <1>2, <1>3, <1>4, <1>5, RequestStep DEF TypeInv, TypeOK

LEMMA CreateType ==
    ASSUME TypeInv, NEW r \in Request, Create(r)
    PROVE  TypeInv'
<1>1. PICK s \in Service, row \in Posts :
          Submit(r, "create", s, row) /\ fresh' = fresh \ {s}
  BY DEF Create, TypeInv, TypeOK
<1>2. fresh' \subseteq Service /\ row \in Row
  BY <1>1, BodiesAssumption DEF TypeInv, TypeOK
<1> QED  BY <1>1, <1>2, SubmitType DEF Op

LEMMA PutType ==
    ASSUME TypeInv, NEW r \in Request, Put(r)
    PROVE  TypeInv'
<1>1. PICK s \in Service, row \in Puts : Submit(r, "update", s, row) /\ UNCHANGED fresh
  BY DEF Put, Known, TypeInv, TypeOK
<1>2. fresh' \subseteq Service /\ row \in Row
  BY <1>1, BodiesAssumption DEF TypeInv, TypeOK
<1> QED  BY <1>1, <1>2, SubmitType DEF Op

LEMMA OperateType ==
    ASSUME TypeInv, NEW r \in Request, Operate(r)
    PROVE  TypeInv'
<1>1. PICK s \in Service, op \in {"start", "stop", "delete"} :
          Submit(r, op, s, Gone) /\ UNCHANGED fresh
  BY DEF Operate, Known, TypeInv, TypeOK
<1>2. fresh' \subseteq Service
  BY <1>1 DEF TypeInv, TypeOK
<1> QED  BY <1>1, <1>2, SubmitType DEF Op

\* A step that only moves a request on.
LEMMA GoType ==
    ASSUME TypeInv, NEW r \in Request, NEW where \in Where, Go(r, where), serving,
           request[r] # Idle,
           LET new == [request[r] EXCEPT !.at = where]
           IN  Shape(new) /\ (Holds(new) <=> guard' = r),
           guard \in {None, r} \/ guard' = guard, guard' \in {guard, r},
           UNCHANGED <<db, desired, fresh, serving, todo, requests, faults, disturbed>>,
           skewed' \in BOOLEAN, crossed' \in BOOLEAN
    PROVE  TypeInv'
<1> DEFINE new == [request[r] EXCEPT !.at = where]
<1>1. new \in InFlight
  BY AtType, Moved DEF TypeInv
<1>2. request' = [request EXCEPT ![r] = new]
  BY DEF Go, TypeInv, TypeOK
<1>3. new # Idle
  BY <1>1, IdleApart
<1>4. Shape(new) /\ (Holds(new) <=> guard' = r)
  OBVIOUS
<1> HIDE DEF new
<1> QED  BY <1>1, <1>2, <1>3, <1>4, RequestStep DEF TypeInv, TypeOK

\* A request that is refused is over.
LEMMA RefuseType ==
    ASSUME TypeInv, NEW r \in Request, Refuse(r), serving,
           UNCHANGED <<desired, fresh, serving, todo, requests, faults, disturbed>>,
           skewed' \in BOOLEAN, crossed' \in BOOLEAN
    PROVE  TypeInv'
<1>1. request' = [request EXCEPT ![r] = Idle] /\ UNCHANGED db
      /\ guard' = IF guard = r THEN None ELSE guard
  BY DEF Refuse, Release
<1>2. guard' # r
  BY <1>1, RequestAssumption
<1> QED  BY <1>1, <1>2, RequestStep DEF TypeInv, TypeOK

\* Where a request that moves on from one place finds itself.
LEMMA MovedShape ==
    ASSUME NEW q \in InFlight, NEW where \in Where
    PROVE  LET new == [q EXCEPT !.at = where]
           IN  /\ Holds(new) <=>
                      \/ q.op = "start" /\ where \in {"load", "limit", "check", "commit"}
                      \/ q.op \in {"create", "update"} /\ Guarded(q.op, q.row)
                         /\ where \in {"check", "load", "commit"}
               /\ Loaded(new) <=>
                      \/ q.op = "start" /\ where \in {"limit", "check", "commit"}
                      \/ q.op \in {"update", "stop"} /\ where = "commit"
               /\ Shape(q) /\ (Loaded(new) => Loaded(q) \/ q.op = "update")
                  /\ (q.op = "create" => where # "load")
                  /\ (q.op \in {"stop", "delete"} => where \in {"load", "commit", "sync"})
                  /\ (where \in {"guard", "check"} => Guarded(q.op, q.row))
                  /\ (q.op = "start" /\ where \in {"guard", "load"} => q.row = Gone)
                  => Shape(new)
<1> DEFINE new == [q EXCEPT !.at = where]
<1>1. new.at = where /\ new.op = q.op /\ new.row = q.row /\ new.seen = q.seen
  BY Moved
<1> HIDE DEF new
<1>2. Holds(new) <=>
          \/ q.op = "start" /\ where \in {"load", "limit", "check", "commit"}
          \/ q.op \in {"create", "update"} /\ Guarded(q.op, q.row)
             /\ where \in {"check", "load", "commit"}
  BY <1>1 DEF Holds
<1>3. Loaded(new) <=>
          \/ q.op = "start" /\ where \in {"limit", "check", "commit"}
          \/ q.op \in {"update", "stop"} /\ where = "commit"
  BY <1>1 DEF Loaded
<1>4. ASSUME Shape(q), Loaded(new) => Loaded(q) \/ q.op = "update",
             q.op = "create" => where # "load",
             q.op \in {"stop", "delete"} => where \in {"load", "commit", "sync"},
             where \in {"guard", "check"} => Guarded(q.op, q.row),
             q.op = "start" /\ where \in {"guard", "load"} => q.row = Gone
      PROVE  Shape(new)
  BY <1>1, <1>4 DEF Shape
<1> QED  BY <1>2, <1>3, <1>4 DEF new

LEMMA LimitType ==
    ASSUME TypeInv, NEW r \in Request, Limit(r)
    PROVE  TypeInv'
<1> DEFINE q == request[r]
<1>1. q # Idle /\ q \in InFlight /\ serving /\ q.at = "limit"
  BY AtWhere DEF Limit, At, Where, TypeInv
<1>2. Shape(q) /\ (Holds(q) <=> guard = r)
  BY <1>1 DEF TypeInv, ShapeInv
<1>3. q.op \in {"create", "update", "start"}
  BY <1>1, <1>2, Fields DEF Shape, Op
<1>4. UNCHANGED <<desired, fresh, serving, todo, requests, faults, disturbed>>
      /\ skewed' \in BOOLEAN /\ crossed' \in BOOLEAN
  BY DEF Limit, processVars, overlapVars, TypeInv, TypeOK
<1>5. CASE Refuse(r)
  BY <1>1, <1>4, <1>5, RefuseType
<1>6. CASE ~Refuse(r)
  <2> DEFINE where == IF q.op = "start" THEN "check"
                      ELSE IF Guarded(q.op, q.row) THEN "guard"
                      ELSE IF q.op = "create" THEN "commit" ELSE "load"
  <2>1. Go(r, where) /\ UNCHANGED <<db, guard>>
    <3>1. CASE q.op = "start"
      BY <1>6, <3>1 DEF Limit
    <3>2. CASE q.op # "start" /\ Guarded(q.op, q.row)
      BY <1>6, <3>2 DEF Limit
    <3>3. CASE q.op = "create" /\ ~Guarded(q.op, q.row)
      BY <1>6, <3>3 DEF Limit
    <3>4. CASE q.op = "update" /\ ~Guarded(q.op, q.row)
      BY <1>6, <3>4 DEF Limit
    <3> QED  BY <1>3, <3>1, <3>2, <3>3, <3>4
  <2>2. where \in Where
    BY DEF Where
  <2>3. Shape([q EXCEPT !.at = where])
    BY <1>1, <1>2, <1>3, <2>2, MovedShape DEF Guarded, Loaded
  <2>4. Holds([q EXCEPT !.at = where]) <=> guard' = r
    BY <1>1, <1>2, <1>3, <2>1, <2>2, MovedShape DEF Holds
  <2> HIDE DEF where
  <2> QED  BY <1>1, <1>4, <2>1, <2>2, <2>3, <2>4, GoType
<1> QED  BY <1>5, <1>6

LEMMA LockType ==
    ASSUME TypeInv, NEW r \in Request, Lock(r)
    PROVE  TypeInv'
<1> DEFINE q == request[r]
           where == IF q.op = "start" THEN "load" ELSE "check"
<1>1. q # Idle /\ q \in InFlight /\ serving /\ q.at = "guard"
  BY AtWhere DEF Lock, At, Where, TypeInv
<1>2. Shape(q)
  BY <1>1 DEF TypeInv, ShapeInv
<1>3. Guarded(q.op, q.row) /\ q.op \in {"create", "update", "start"}
      /\ (q.op = "start" => q.row = Gone)
  BY <1>1, <1>2 DEF Shape, Guarded
<1>4. /\ UNCHANGED <<db, desired, fresh, serving, todo, requests, faults, disturbed>>
      /\ guard = None /\ guard' = r /\ Go(r, where) /\ where \in Where
      /\ skewed' \in BOOLEAN /\ crossed' \in BOOLEAN
  BY DEF Lock, processVars, overlapVars, Where, TypeInv, TypeOK
<1>5. Shape([q EXCEPT !.at = where])
  BY <1>1, <1>2, <1>3, <1>4, MovedShape DEF Loaded
<1>6. Holds([q EXCEPT !.at = where])
  BY <1>1, <1>2, <1>3, <1>4, MovedShape
<1> HIDE DEF where
<1> QED  BY <1>1, <1>4, <1>5, <1>6, GoType

LEMMA CheckType ==
    ASSUME TypeInv, NEW r \in Request, Check(r)
    PROVE  TypeInv'
<1> DEFINE q == request[r]
           where == IF q.op = "update" THEN "load" ELSE "commit"
<1>1. q # Idle /\ q \in InFlight /\ serving /\ q.at = "check"
  BY AtWhere DEF Check, At, Where, TypeInv
<1>2. Shape(q) /\ (Holds(q) <=> guard = r)
  BY <1>1 DEF TypeInv, ShapeInv
<1>3. Guarded(q.op, q.row) /\ q.op \in {"create", "update", "start"}
  BY <1>1, <1>2 DEF Shape, Guarded
<1>4. UNCHANGED <<desired, fresh, serving, todo, requests, faults, disturbed>>
      /\ skewed' \in BOOLEAN /\ crossed' \in BOOLEAN
  BY DEF Check, processVars, overlapVars, TypeInv, TypeOK
<1>5. CASE Refuse(r)
  BY <1>1, <1>4, <1>5, RefuseType
<1>6. CASE ~Refuse(r)
  <2>1. Go(r, where) /\ UNCHANGED <<db, guard>> /\ where \in Where
    BY <1>6 DEF Check, Where
  <2>2. Shape([q EXCEPT !.at = where])
    BY <1>1, <1>2, <1>3, <2>1, MovedShape DEF Loaded
  <2>3. Holds([q EXCEPT !.at = where]) <=> guard' = r
    BY <1>1, <1>2, <1>3, <2>1, MovedShape DEF Holds
  <2> HIDE DEF where
  <2> QED  BY <1>1, <1>4, <2>1, <2>2, <2>3, GoType
<1> QED  BY <1>5, <1>6

\* Loading a row: the request goes on with what it is to write and what it saw.
LEMMA LoadSteps ==
    ASSUME TypeInv, NEW r \in Request, Load(r), ~Refuse(r)
    PROVE  LET q   == request[r]
               row == db[q.svc]
           IN  \E at \in Where, new \in Row \cup {Gone} :
                   /\ request' = [request EXCEPT ![r] =
                                      [q EXCEPT !.at = at, !.row = new, !.seen = row]]
                   /\ UNCHANGED <<db, guard>>
                   /\ \/ /\ q.op = "start" /\ row # Gone /\ at = "limit"
                         /\ new = [row EXCEPT !.enabled = TRUE]
                      \/ /\ q.op = "stop" /\ row # Gone /\ at = "commit"
                         /\ new = [row EXCEPT !.enabled = FALSE]
                      \/ q.op = "update" /\ at = "commit" /\ new = q.row
                      \/ q.op = "delete" /\ at \in {"commit", "sync"} /\ new = Gone
                         /\ (at = "sync" => row = Gone)
<1> DEFINE q == request[r]
           row == db[q.svc]
<1>1. q # Idle /\ q \in InFlight
  BY AtWhere DEF Load, Where, TypeInv
<1>2. row \in Row \cup {Gone} /\ q.row \in Row \cup {Gone}
  BY <1>1, Fields DEF TypeInv, TypeOK
<1>3. row # Gone => [row EXCEPT !.enabled = TRUE] \in Row
                    /\ [row EXCEPT !.enabled = FALSE] \in Row
  BY <1>2, Rows
<1>4. CASE q.op = "start"
  BY <1>3, <1>4 DEF Load, Where
<1>5. CASE q.op = "stop"
  BY <1>3, <1>5 DEF Load, Where
<1>6. CASE q.op = "update"
  BY <1>2, <1>6 DEF Load, Where
<1>7. CASE q.op = "delete"
  BY <1>7 DEF Load, Where
<1> QED  BY <1>4, <1>5, <1>6, <1>7 DEF Load

LEMMA LoadType ==
    ASSUME TypeInv, NEW r \in Request, Load(r)
    PROVE  TypeInv'
<1> DEFINE q == request[r]
           row == db[q.svc]
<1>1. q # Idle /\ q \in InFlight /\ serving /\ q.at = "load"
  BY AtWhere DEF Load, At, Where, TypeInv
<1>2. Shape(q) /\ (Holds(q) <=> guard = r)
  BY <1>1 DEF TypeInv, ShapeInv
<1>3. UNCHANGED <<desired, fresh, serving, todo, requests, faults, disturbed>>
      /\ skewed' \in BOOLEAN /\ crossed' \in BOOLEAN
  BY DEF Load, processVars, overlapVars, TypeInv, TypeOK
<1>4. CASE Refuse(r)
  BY <1>1, <1>3, <1>4, RefuseType
<1>5. CASE ~Refuse(r)
  <2>1. PICK at \in Where, want \in Row \cup {Gone} :
            /\ request' = [request EXCEPT ![r] =
                               [q EXCEPT !.at = at, !.row = want, !.seen = row]]
            /\ UNCHANGED <<db, guard>>
            /\ \/ /\ q.op = "start" /\ row # Gone /\ at = "limit"
                  /\ want = [row EXCEPT !.enabled = TRUE]
               \/ /\ q.op = "stop" /\ row # Gone /\ at = "commit"
                  /\ want = [row EXCEPT !.enabled = FALSE]
               \/ q.op = "update" /\ at = "commit" /\ want = q.row
               \/ q.op = "delete" /\ at \in {"commit", "sync"} /\ want = Gone
                  /\ (at = "sync" => row = Gone)
    BY <1>5, LoadSteps
  <2>2. row \in Row \cup {Gone}
    BY <1>1, Fields DEF TypeInv, TypeOK
  <2> DEFINE new == [q EXCEPT !.at = at, !.row = want, !.seen = row]
  <2>3. /\ new \in InFlight /\ new.at = at /\ new.op = q.op
        /\ new.row = want /\ new.seen = row
    <3>1. at \in Where /\ want \in Row \cup {Gone}
      OBVIOUS
    <3> HIDE DEF q, row
    <3>2. q \in InFlight
      BY <1>1
    <3> QED  BY <2>2, <3>1, <3>2, Rewritten DEF InFlight
  <2>4. new # Idle
    BY <2>3, IdleApart
  <2>5. request' = [request EXCEPT ![r] = new]
    BY <2>1
  <2> HIDE DEF new
  <2>6. Shape(new)
    BY <1>2, <2>1, <2>2, <2>3 DEF Shape, Loaded
  <2>7. Holds(new) <=> guard' = r
    BY <1>1, <1>2, <2>1, <2>3 DEF Holds
  <2> QED
    BY <1>1, <1>3, <2>1, <2>3, <2>4, <2>5, <2>6, <2>7, RequestStep DEF TypeInv, TypeOK
<1> QED  BY <1>4, <1>5

\* Committing: the row is inserted, updated or deleted, the guard is released.
LEMMA CommitSteps ==
    ASSUME TypeInv, NEW r \in Request, Commit(r), ~Refuse(r)
    PROVE  LET q       == request[r]
               current == db[q.svc]
           IN  \E row \in Row \cup {Gone} :
                   /\ db' = [db EXCEPT ![q.svc] = row]
                   /\ Release(r) /\ Go(r, "sync")
                   /\ \/ q.op = "delete" /\ row = Gone
                      \/ /\ q.op # "delete" /\ q.seen = Gone /\ current = Gone
                         /\ q.row \in Row /\ row = q.row
                      \/ /\ q.op # "delete" /\ q.seen \in Row /\ current \in Row
                         /\ q.row \in Row /\ row = Update(current, q.seen, q.row)
                      \/ /\ q.op # "delete" /\ q.seen \in Row /\ current = Gone
                         /\ q.row = q.seen /\ row = Gone
<1> DEFINE q == request[r]
           current == db[q.svc]
<1>1. q # Idle /\ q \in InFlight /\ q.at = "commit"
  BY AtWhere DEF Commit, At, Where, TypeInv
<1>2. Shape(q)
  BY <1>1 DEF TypeInv, ShapeInv
<1>3. current \in Row \cup {Gone} /\ q.seen \in Row \cup {Gone}
  BY <1>1, Fields DEF TypeInv, TypeOK
<1>4. q.op # "delete" => q.row \in Row
  <2>1. CASE q.op \in {"create", "update"}
    BY <1>2, <2>1 DEF Shape
  <2>2. CASE q.op = "start"
    <3>1. q.seen \in Row /\ q.row = [q.seen EXCEPT !.enabled = TRUE]
      BY <1>1, <1>2, <2>2 DEF Shape, Loaded
    <3> QED  BY <3>1, Rows
  <2>3. CASE q.op = "stop"
    <3>1. q.seen \in Row /\ q.row = [q.seen EXCEPT !.enabled = FALSE]
      BY <1>1, <1>2, <2>3 DEF Shape, Loaded
    <3> QED  BY <3>1, Rows
  <2> QED  BY <1>1, <2>1, <2>2, <2>3, Fields DEF Op
<1>5. q.op # "delete" /\ current \in Row /\ q.seen \in Row =>
          Update(current, q.seen, q.row) \in Row
  BY <1>4, UpdateType
<1>6. CASE q.op = "delete"
  BY <1>6 DEF Commit
<1>7. CASE q.op # "delete" /\ q.seen = Gone
  BY <1>4, <1>7 DEF Commit
<1>8. CASE q.op # "delete" /\ q.seen # Gone /\ current # Gone
  BY <1>3, <1>4, <1>5, <1>8 DEF Commit
<1>9. CASE q.op # "delete" /\ q.seen # Gone /\ current = Gone
  BY <1>3, <1>4, <1>9 DEF Commit
<1> QED  BY <1>6, <1>7, <1>8, <1>9

LEMMA CommitType ==
    ASSUME TypeInv, NEW r \in Request, Commit(r)
    PROVE  TypeInv'
<1> DEFINE q == request[r]
           new == [q EXCEPT !.at = "sync"]
<1>1. q # Idle /\ q \in InFlight /\ serving /\ q.at = "commit"
  BY AtWhere DEF Commit, At, Where, TypeInv
<1>2. Shape(q) /\ (Holds(q) <=> guard = r)
  BY <1>1 DEF TypeInv, ShapeInv
<1>3. UNCHANGED <<desired, fresh, serving, todo, requests, faults, disturbed>>
      /\ skewed' \in BOOLEAN /\ crossed' \in BOOLEAN
  BY DEF Commit, processVars, TypeInv, TypeOK
<1>4. CASE Refuse(r)
  BY <1>1, <1>3, <1>4, RefuseType
<1>5. CASE ~Refuse(r)
  <2>1. PICK row \in Row \cup {Gone} :
            db' = [db EXCEPT ![q.svc] = row] /\ Release(r) /\ Go(r, "sync")
    BY <1>5, CommitSteps
  <2>2. db' \in [Service -> Row \cup {Gone}]
    BY <1>1, <2>1, Fields DEF TypeInv, TypeOK
  <2>3. new \in InFlight
    BY <1>1, Moved DEF Where
  <2>4. new # Idle
    BY <2>3, IdleApart
  <2>5. request' = [request EXCEPT ![r] = new]
    BY <2>1 DEF Go, TypeInv, TypeOK
  <2>6. Shape(new) /\ ~Holds(new)
    BY <1>1, <1>2, MovedShape DEF Where
  <2>7. guard' # r /\ guard' \in {guard, None} /\ (guard \in {None, r} \/ guard' = guard)
    BY <2>1, RequestAssumption DEF Release
  <2> HIDE DEF new
  <2> QED
    BY <1>1, <1>3, <2>2, <2>3, <2>4, <2>5, <2>6, <2>7, RequestStep DEF TypeInv, TypeOK
<1> QED  BY <1>4, <1>5

LEMMA SyncType ==
    ASSUME TypeInv, NEW r \in Request, Sync(r) \/ SyncFails(r)
    PROVE  TypeInv'
<1> DEFINE q == request[r]
<1>1. q # Idle /\ q \in InFlight /\ serving /\ q.at = "sync"
  BY AtWhere DEF Sync, SyncFails, At, Where, TypeInv
<1>2. guard # r
  BY <1>1 DEF TypeInv, ShapeInv, Holds
<1>3. request' = [request EXCEPT ![r] = Idle]
      /\ UNCHANGED <<db, guard, fresh, serving, todo, requests>>
  BY DEF Sync, SyncFails, processVars
<1>4. desired' \in [Service -> Row \cup {Gone}]
  BY <1>1, Fields DEF Sync, SyncFails, TypeInv, TypeOK
<1>5. faults' \in 0..MaxFaults
  BY LimitAssumption DEF Sync, SyncFails, processVars, TypeInv, TypeOK
<1>6. disturbed' \in [Service -> BOOLEAN]
      /\ skewed' \in BOOLEAN /\ crossed' \in BOOLEAN
  BY <1>1, Fields DEF Sync, SyncFails, overlapVars, TypeInv, TypeOK
<1> QED
  BY <1>1, <1>2, <1>3, <1>4, <1>5, <1>6, RequestStep DEF TypeInv, TypeOK

LEMMA CrashType ==
    ASSUME TypeInv, Crash
    PROVE  TypeInv'
<1>1. faults' \in 0..MaxFaults
  BY LimitAssumption DEF Crash, TypeInv, TypeOK
<1>2. disturbed' \in [Service -> BOOLEAN]
  BY DEF Crash, TypeInv, TypeOK
<1>3. request' \in [Request -> InFlight \cup {Idle}] /\ todo' \subseteq Service
  BY DEF Crash
<1>4. ShapeInv'
  BY DEF Crash, ShapeInv
<1> QED  BY <1>1, <1>2, <1>3, <1>4 DEF Crash, overlapVars, TypeInv, TypeOK

LEMMA StartupType ==
    ASSUME TypeInv, StartupDone \/ \E s \in Service : StartupSync(s)
    PROVE  TypeInv'
<1>1. CASE StartupDone
  BY <1>1 DEF StartupDone, overlapVars, TypeInv, TypeOK, ShapeInv
<1>2. ASSUME NEW s \in Service, StartupSync(s)
      PROVE  TypeInv'
  <2>1. desired' \in [Service -> Row \cup {Gone}]
        /\ disturbed' \in [Service -> BOOLEAN] /\ todo' \subseteq Service
    <3>1. Conflicts(s, db[s]) \in BOOLEAN
      BY DEF Conflicts
    <3> QED  BY <1>2, <3>1 DEF StartupSync, TypeInv, TypeOK
  <2>2. ShapeInv'
    BY <1>2 DEF StartupSync, TypeInv, ShapeInv
  <2> QED  BY <1>2, <2>1, <2>2 DEF StartupSync, overlapVars, TypeInv, TypeOK
<1> QED  BY <1>1, <1>2

LEMMA TypeStep ==
    ASSUME TypeInv, [Next]_vars
    PROVE  TypeInv'
<1>1. CASE UNCHANGED vars
  BY <1>1 DEF vars, overlapVars, TypeInv, TypeOK, ShapeInv
<1>2. ASSUME NEW r \in Request, Create(r) \/ Put(r) \/ Operate(r) \/ Handle(r)
      PROVE  TypeInv'
  BY <1>2, CreateType, PutType, OperateType, LimitType, LockType, CheckType,
     LoadType, CommitType, SyncType DEF Handle
<1> QED  BY <1>1, <1>2, CrashType, StartupType DEF Next

\* Every reachable state is type correct, and the guard is held by a request
\* between its SELECTs and its COMMIT or by nobody, for any number of requests
\* and faults (multicast_admission.py; main.py:378-386, 409-416, 440-455).
THEOREM TypeCorrect == Spec => []TypeOK
<1>1. TypeInv /\ [Next]_vars => TypeInv'
  BY TypeStep
<1>2. Spec => []TypeInv
  BY InitType, <1>1, PTL DEF Spec
<1>3. TypeInv => TypeOK
  BY DEF TypeInv
<1> QED  BY <1>2, <1>3, PTL

-----------------------------------------------------------------------------
(* The steps of a request, as admission sees them.                         *)

Ends(r) == request' = [request EXCEPT ![r] = Idle] /\ UNCHANGED db

Advances(r) ==
    LET q == request[r]
    IN  \E new \in InFlight :
            /\ request' = [request EXCEPT ![r] = new] /\ UNCHANGED db
            /\ q.at # "sync" /\ new.op = q.op /\ new.svc = q.svc
            /\ Loaded(new) =>
                   \/ Loaded(q) /\ new.seen = q.seen
                   \/ new.seen = db[q.svc]
            /\ Cleared(new) => new.row = q.row /\ (Cleared(q) \/ ~Conflicts(q.svc, q.row))

Writes(r) ==
    LET q       == request[r]
        current == db[q.svc]
    IN  \E row \in Row \cup {Gone} :
            /\ q.at = "commit"
            /\ request' = [request EXCEPT ![r] = [q EXCEPT !.at = "sync"]]
            /\ db' = [db EXCEPT ![q.svc] = row]
            /\ \/ row = Gone
               \/ /\ q.op # "delete" /\ q.seen = Gone /\ current = Gone
                  /\ q.row \in Row /\ row = q.row
               \/ /\ q.op # "delete" /\ q.seen \in Row /\ current \in Row
                  /\ q.row \in Row /\ row = Update(current, q.seen, q.row)

LEMMA AdvanceByGo ==
    ASSUME TypeInv, NEW r \in Request, request[r] # Idle, NEW where \in Where,
           Go(r, where), UNCHANGED db, request[r].at # "sync",
           LET q   == request[r]
               new == [q EXCEPT !.at = where]
           IN  /\ Loaded(new) => Loaded(q)
               /\ Cleared(new) => Cleared(q) \/ ~Conflicts(q.svc, q.row)
    PROVE  Advances(r)
<1> DEFINE q == request[r]
           new == [q EXCEPT !.at = where]
<1>1. new \in InFlight /\ new.op = q.op /\ new.svc = q.svc
      /\ new.row = q.row /\ new.seen = q.seen
  BY AtType, Moved DEF TypeInv
<1>2. request' = [request EXCEPT ![r] = new]
  BY DEF Go, TypeInv, TypeOK
<1>3. /\ Loaded(new) => Loaded(q)
      /\ Cleared(new) => Cleared(q) \/ ~Conflicts(q.svc, q.row)
  OBVIOUS
<1> HIDE DEF new
<1> QED  BY <1>1, <1>2, <1>3 DEF Advances

\* What is cleared and what is loaded at each place.
LEMMA MovedClear ==
    ASSUME NEW q \in InFlight, NEW where \in Where
    PROVE  LET new == [q EXCEPT !.at = where]
           IN  /\ Loaded(new) <=>
                      \/ q.op = "start" /\ where \in {"limit", "check", "commit"}
                      \/ q.op \in {"update", "stop"} /\ where = "commit"
               /\ Cleared(new) <=>
                      \/ q.op \in Writer /\ where = "commit"
                      \/ q.op = "update" /\ where = "load"
<1> DEFINE new == [q EXCEPT !.at = where]
<1>1. new.at = where /\ new.op = q.op
  BY Moved
<1> HIDE DEF new
<1>2. Loaded(new) <=>
          \/ q.op = "start" /\ where \in {"limit", "check", "commit"}
          \/ q.op \in {"update", "stop"} /\ where = "commit"
  BY <1>1 DEF Loaded
<1>3. Cleared(new) <=>
          \/ q.op \in Writer /\ where = "commit"
          \/ q.op = "update" /\ where = "load"
  BY <1>1 DEF Cleared
<1> QED  BY <1>2, <1>3 DEF new

LEMMA LimitAdvances ==
    ASSUME TypeInv, NEW r \in Request, Limit(r)
    PROVE  Ends(r) \/ Advances(r)
<1> DEFINE q == request[r]
<1>1. q # Idle /\ q \in InFlight /\ q.at = "limit"
  BY AtWhere DEF Limit, At, Where, TypeInv
<1>2. q.op \in {"create", "update", "start"}
  BY <1>1, Fields DEF TypeInv, ShapeInv, Shape, Op
<1>3. CASE LimitReached(q.svc, q.row)
  BY <1>3 DEF Limit, Refuse, Ends
<1>4. CASE ~LimitReached(q.svc, q.row) /\ q.op = "start"
  <2>1. Go(r, "check") /\ UNCHANGED db
    BY <1>4 DEF Limit
  <2> QED  BY <1>1, <1>4, <2>1, MovedClear, AdvanceByGo DEF Where, Loaded, Cleared
<1>5. CASE ~LimitReached(q.svc, q.row) /\ q.op # "start" /\ Guarded(q.op, q.row)
  <2>1. Go(r, "guard") /\ UNCHANGED db
    BY <1>5 DEF Limit
  <2> QED  BY <1>1, <2>1, MovedClear, AdvanceByGo DEF Where, Loaded, Cleared
<1>6. CASE ~LimitReached(q.svc, q.row) /\ q.op = "create" /\ ~Guarded(q.op, q.row)
  <2>1. Go(r, "commit") /\ UNCHANGED db
    BY <1>6 DEF Limit
  <2>2. ~Conflicts(q.svc, q.row)
    BY <1>6 DEF Guarded, Conflicts
  <2> QED  BY <1>1, <1>6, <2>1, <2>2, MovedClear, AdvanceByGo DEF Where
<1>7. CASE ~LimitReached(q.svc, q.row) /\ q.op = "update" /\ ~Guarded(q.op, q.row)
  <2>1. Go(r, "load") /\ UNCHANGED db
    BY <1>7 DEF Limit
  <2>2. ~Conflicts(q.svc, q.row)
    BY <1>7 DEF Guarded, Conflicts
  <2> QED  BY <1>1, <1>7, <2>1, <2>2, MovedClear, AdvanceByGo DEF Where
<1> QED  BY <1>2, <1>3, <1>4, <1>5, <1>6, <1>7

LEMMA LockAdvances ==
    ASSUME TypeInv, NEW r \in Request, Lock(r)
    PROVE  Advances(r)
<1> DEFINE q == request[r]
           where == IF q.op = "start" THEN "load" ELSE "check"
<1>1. q # Idle /\ q \in InFlight /\ q.at = "guard"
  BY AtWhere DEF Lock, At, Where, TypeInv
<1>2. Go(r, where) /\ UNCHANGED db /\ where \in Where
  BY DEF Lock, Where
<1>3. ~Loaded([q EXCEPT !.at = where]) /\ ~Cleared([q EXCEPT !.at = where])
  BY <1>1, <1>2, MovedClear
<1> HIDE DEF where
<1> QED  BY <1>1, <1>2, <1>3, AdvanceByGo

LEMMA CheckAdvances ==
    ASSUME TypeInv, NEW r \in Request, Check(r)
    PROVE  Ends(r) \/ Advances(r)
<1> DEFINE q == request[r]
           where == IF q.op = "update" THEN "load" ELSE "commit"
<1>1. q # Idle /\ q \in InFlight /\ q.at = "check"
  BY AtWhere DEF Check, At, Where, TypeInv
<1>2. q.op \in {"create", "update", "start"}
  BY <1>1, Fields DEF TypeInv, ShapeInv, Shape, Op
<1>3. CASE Conflicts(q.svc, q.row)
  BY <1>3 DEF Check, Refuse, Ends
<1>4. CASE ~Conflicts(q.svc, q.row)
  <2>1. Go(r, where) /\ UNCHANGED db /\ where \in Where
    BY <1>4 DEF Check, Where
  <2>2. Loaded([q EXCEPT !.at = where]) => Loaded(q)
    BY <1>1, <1>2, <2>1, MovedClear DEF Loaded
  <2> HIDE DEF where
  <2> QED  BY <1>1, <1>4, <2>1, <2>2, AdvanceByGo
<1> QED  BY <1>3, <1>4

LEMMA LoadAdvances ==
    ASSUME TypeInv, NEW r \in Request, Load(r)
    PROVE  Ends(r) \/ Advances(r)
<1> DEFINE q == request[r]
           row == db[q.svc]
<1>1. q # Idle /\ q \in InFlight /\ q.at = "load"
  BY AtWhere DEF Load, At, Where, TypeInv
<1>2. CASE Refuse(r)
  BY <1>2 DEF Refuse, Ends
<1>3. CASE ~Refuse(r)
  <2>1. PICK at \in Where, want \in Row \cup {Gone} :
            /\ request' = [request EXCEPT ![r] =
                               [q EXCEPT !.at = at, !.row = want, !.seen = row]]
            /\ UNCHANGED <<db, guard>>
            /\ \/ q.op = "start" /\ at = "limit"
               \/ q.op \in {"stop", "delete"}
               \/ q.op = "update" /\ at = "commit" /\ want = q.row
    BY <1>3, LoadSteps
  <2>2. row \in Row \cup {Gone}
    BY <1>1, Fields DEF TypeInv, TypeOK
  <2> DEFINE new == [q EXCEPT !.at = at, !.row = want, !.seen = row]
  <2>3. /\ new \in InFlight /\ new.at = at /\ new.op = q.op /\ new.svc = q.svc
        /\ new.row = want /\ new.seen = row
    <3> HIDE DEF q, row
    <3>1. q \in InFlight
      BY <1>1
    <3> QED  BY <2>2, <3>1 DEF InFlight
  <2>4. request' = [request EXCEPT ![r] = new] /\ UNCHANGED db
    BY <2>1
  <2> HIDE DEF new
  <2>5. Cleared(new) => new.row = q.row /\ Cleared(q)
    BY <1>1, <2>1, <2>3 DEF Cleared, Writer
  <2> QED  BY <1>1, <2>3, <2>4, <2>5 DEF Advances
<1> QED  BY <1>2, <1>3

LEMMA CommitWrites ==
    ASSUME TypeInv, NEW r \in Request, Commit(r)
    PROVE  Ends(r) \/ Writes(r)
<1> DEFINE q == request[r]
           current == db[q.svc]
<1>1. CASE Refuse(r)
  BY <1>1 DEF Refuse, Ends
<1>2. CASE ~Refuse(r)
  <2>1. q.at = "commit"
    BY DEF Commit, At
  <2>2. PICK row \in Row \cup {Gone} :
            /\ db' = [db EXCEPT ![q.svc] = row]
            /\ Go(r, "sync")
            /\ \/ row = Gone
               \/ /\ q.op # "delete" /\ q.seen = Gone /\ current = Gone
                  /\ q.row \in Row /\ row = q.row
               \/ /\ q.op # "delete" /\ q.seen \in Row /\ current \in Row
                  /\ q.row \in Row /\ row = Update(current, q.seen, q.row)
    BY <1>2, CommitSteps
  <2>3. request' = [request EXCEPT ![r] = [q EXCEPT !.at = "sync"]]
    BY <2>2 DEF Go, TypeInv, TypeOK
  <2> QED  BY <2>1, <2>2, <2>3 DEF Writes
<1> QED  BY <1>1, <1>2

LEMMA HandleSteps ==
    ASSUME TypeInv, NEW r \in Request, Handle(r)
    PROVE  /\ Ends(r) \/ Advances(r) \/ Writes(r)
           /\ request[r] # Idle /\ serving /\ UNCHANGED fresh
<1>1. request[r] # Idle /\ serving
  BY AtWhere DEF Handle, Limit, Lock, Check, Load, Commit, Sync, SyncFails, Where, TypeInv
<1>2. UNCHANGED fresh
  BY DEF Handle, Limit, Lock, Check, Load, Commit, Sync, SyncFails, processVars
<1>3. Sync(r) \/ SyncFails(r) => Ends(r)
  BY DEF Sync, SyncFails, Ends
<1> QED
  BY <1>1, <1>2, <1>3, LimitAdvances, LockAdvances, CheckAdvances, LoadAdvances,
     CommitWrites DEF Handle

LEMMA OnlyCommitWrites ==
    ASSUME TypeInv, NEW r \in Request, Handle(r), ~Commit(r)
    PROVE  Ends(r) \/ Advances(r)
<1>1. Sync(r) \/ SyncFails(r) => Ends(r)
  BY DEF Sync, SyncFails, Ends
<1> QED
  BY <1>1, LimitAdvances, LockAdvances, CheckAdvances, LoadAdvances DEF Handle

\* The history changes with a commit only.
LEMMA OverlapStep ==
    ASSUME [Next]_vars, TypeInv
    PROVE  /\ ~skewed' => ~skewed
           /\ ~crossed' => ~crossed
<1>1. CASE UNCHANGED overlapVars
  BY <1>1 DEF overlapVars
<1>2. CASE \E r \in Request : Commit(r)
  BY <1>2 DEF Commit
<1>3. ASSUME NEW r \in Request, Create(r) \/ Put(r) \/ Operate(r)
      PROVE  UNCHANGED overlapVars
  BY <1>3 DEF Create, Put, Operate, Submit
<1>4. ASSUME NEW r \in Request, Handle(r), ~Commit(r)
      PROVE  UNCHANGED overlapVars
  BY <1>4 DEF Handle, Limit, Lock, Check, Load, Sync, SyncFails
<1>5. Crash \/ StartupDone \/ (\E s \in Service : StartupSync(s)) => UNCHANGED overlapVars
  BY DEF Crash, StartupDone, StartupSync
<1> QED  BY <1>1, <1>2, <1>3, <1>4, <1>5 DEF Next, vars

-----------------------------------------------------------------------------
(* A new id is known to its request alone.                                 *)

LEMMA SubmitFresh ==
    ASSUME TypeInv, FreshInv, NEW r \in Request, NEW op \in Op, NEW s \in Service,
           NEW row, Submit(r, op, s, row), fresh' \subseteq fresh, s \notin fresh',
           op = "create" => s \in fresh,
           \A other \in Request :
               request[other] # Idle /\ request[other].op = "create"
               /\ request[other].at # "sync" => request[other].svc # s
    PROVE  FreshInv'
<1> DEFINE new == [at |-> FirstWait(op), op |-> op, svc |-> s, row |-> row, seen |-> Gone]
<1>1. request' = [request EXCEPT ![r] = new] /\ UNCHANGED db /\ request[r] = Idle
  BY DEF Submit
<1>2. new.op = op /\ new.svc = s
  OBVIOUS
<1> HIDE DEF new
<1>3. \A other \in Request : request'[other] = IF other = r THEN new ELSE request[other]
  BY <1>1 DEF TypeInv, TypeOK
<1>4. op = "create" => db[s] = Gone /\ \A other \in Request :
                           request[other] # Idle => request[other].svc # s
  BY DEF FreshInv
<1>5. \A other \in Request : request'[other] # Idle => request'[other].svc \notin fresh'
  BY <1>2, <1>3 DEF FreshInv
<1>6. ASSUME NEW a \in Request, request'[a] # Idle, request'[a].op = "create",
             request'[a].at # "sync"
      PROVE  /\ db'[request'[a].svc] = Gone
             /\ \A other \in Request \ {a} :
                    request'[other] # Idle => request'[other].svc # request'[a].svc
  <2>1. CASE a = r
    BY <1>1, <1>2, <1>3, <1>4, <1>6, <2>1
  <2>2. CASE a # r
    <3>1. request'[a] = request[a] /\ request[a].svc # s
      BY <1>3, <1>6, <2>2
    <3>2. /\ db[request[a].svc] = Gone
          /\ \A other \in Request \ {a} :
                 request[other] # Idle => request[other].svc # request[a].svc
      BY <1>6, <3>1 DEF FreshInv
    <3> QED  BY <1>1, <1>2, <1>3, <3>1, <3>2
  <2> QED  BY <2>1, <2>2
<1> QED  BY <1>1, <1>5, <1>6 DEF FreshInv

\* A request that goes on keeps to its service and writes to no other.
LEMMA HandleFresh ==
    ASSUME TypeInv, FreshInv, NEW r \in Request, Handle(r)
    PROVE  FreshInv'
<1> DEFINE q == request[r]
<1>1. q # Idle /\ q \in InFlight /\ q.svc \notin fresh /\ UNCHANGED fresh
  BY HandleSteps, AtType DEF TypeInv, FreshInv
<1>2. ASSUME NEW new \in InFlight \cup {Idle}, request' = [request EXCEPT ![r] = new],
             new # Idle => new.op = q.op /\ new.svc = q.svc,
             \/ UNCHANGED db /\ (new # Idle => q.at # "sync")
             \/ /\ new # Idle => new.at = "sync"
                /\ q.at = "commit" /\ \E row : db' = [db EXCEPT ![q.svc] = row]
      PROVE  FreshInv'
  <2>1. \A other \in Request : request'[other] = IF other = r THEN new ELSE request[other]
    BY <1>2 DEF TypeInv, TypeOK
  <2>2. \A s \in Service : s # q.svc => db'[s] = db[s]
    BY <1>2 DEF TypeInv, TypeOK
  <2>3. \A s \in fresh' : db'[s] = Gone
    BY <1>1, <2>2 DEF FreshInv, TypeInv, TypeOK
  <2>4. \A other \in Request : request'[other] # Idle => request'[other].svc \notin fresh'
    BY <1>1, <1>2, <2>1 DEF FreshInv
  <2>5. ASSUME NEW a \in Request, request'[a] # Idle, request'[a].op = "create",
               request'[a].at # "sync"
        PROVE  /\ db'[request'[a].svc] = Gone
               /\ \A other \in Request \ {a} :
                      request'[other] # Idle => request'[other].svc # request'[a].svc
    <3>1. CASE a = r
      <4>1. UNCHANGED db /\ q.at # "sync" /\ q.op = "create" /\ new.svc = q.svc
        BY <1>2, <2>1, <2>5, <3>1
      <4>2. /\ db[q.svc] = Gone
            /\ \A other \in Request \ {r} : request[other] # Idle => request[other].svc # q.svc
        BY <1>1, <4>1 DEF FreshInv
      <4> QED  BY <2>1, <3>1, <4>1, <4>2
    <3>2. CASE a # r
      <4>1. request'[a] = request[a]
        BY <2>1, <3>2
      <4>2. /\ db[request[a].svc] = Gone
            /\ \A other \in Request \ {a} :
                   request[other] # Idle => request[other].svc # request[a].svc
        BY <2>5, <4>1 DEF FreshInv
      <4>3. q.svc # request[a].svc /\ request[a].svc \in Service
        BY <1>1, <2>5, <3>2, <4>1, <4>2, AtType DEF TypeInv
      <4> QED  BY <1>2, <2>1, <2>2, <4>1, <4>2, <4>3
    <3> QED  BY <3>1, <3>2
  <2> QED  BY <2>3, <2>4, <2>5 DEF FreshInv
<1>3. CASE Ends(r)
  BY <1>2, <1>3 DEF Ends
<1>4. CASE Advances(r)
  BY <1>2, <1>4 DEF Advances
<1>5. CASE Writes(r)
  <2> DEFINE new == [q EXCEPT !.at = "sync"]
  <2>1. new \in InFlight /\ new.at = "sync" /\ new.op = q.op /\ new.svc = q.svc
    BY <1>1, Moved DEF Where
  <2>2. request' = [request EXCEPT ![r] = new] /\ q.at = "commit"
        /\ \E row : db' = [db EXCEPT ![q.svc] = row]
    BY <1>5 DEF Writes
  <2> HIDE DEF new
  <2> QED  BY <1>2, <2>1, <2>2
<1> QED  BY <1>3, <1>4, <1>5, HandleSteps

LEMMA FreshStep ==
    ASSUME TypeInv, FreshInv, [Next]_vars, ~ClientIds
    PROVE  FreshInv'
<1>1. CASE UNCHANGED vars
  BY <1>1 DEF vars, FreshInv
<1>2. ASSUME NEW r \in Request, Create(r)
      PROVE  FreshInv'
  <2>1. PICK s \in fresh, row \in Posts :
            Submit(r, "create", s, row) /\ fresh' = fresh \ {s}
    BY <1>2 DEF Create
  <2>2. s \in Service
    BY DEF TypeInv, TypeOK
  <2>3. \A other \in Request : request[other] # Idle => request[other].svc # s
    BY DEF FreshInv
  <2> QED  BY <2>1, <2>2, <2>3, SubmitFresh DEF Op
<1>3. ASSUME NEW r \in Request, Put(r) \/ Operate(r)
      PROVE  FreshInv'
  <2>1. PICK s \in Known, op \in Op \ {"create"}, row \in Puts \cup {Gone} :
            Submit(r, op, s, row) /\ UNCHANGED fresh
    BY <1>3 DEF Put, Operate, Op
  <2>2. s \in Service \ fresh
    BY DEF Known
  <2>3. \A other \in Request :
            request[other] # Idle /\ request[other].op = "create"
            /\ request[other].at # "sync" => request[other].svc # s
    BY DEF Known, Pending
  <2> QED  BY <2>1, <2>2, <2>3, SubmitFresh
<1>4. ASSUME NEW r \in Request, Handle(r)
      PROVE  FreshInv'
  BY <1>4, HandleFresh
<1>5. CASE Crash
  BY <1>5 DEF Crash, FreshInv
<1>6. CASE StartupDone \/ \E s \in Service : StartupSync(s)
  BY <1>6 DEF StartupDone, StartupSync, FreshInv
<1> QED  BY <1>1, <1>2, <1>3, <1>4, <1>5, <1>6 DEF Next

-----------------------------------------------------------------------------
(* A committed row claims no more than what was admitted, or than the row  *)
(* that was there.                                                         *)

Below(new, old) ==
    /\ new.keys = old.keys /\ new.hls = old.hls
    /\ new.enabled => old.enabled

LEMMA UpdateBelow ==
    ASSUME NEW current \in Row, NEW seen \in Row, NEW row \in Row, Below(current, seen)
    PROVE  Below(Update(current, seen, row), row)
BY DEF Below, Update, Row

LEMMA StopBelow ==
    ASSUME NEW current \in Row, NEW seen \in Row
    PROVE  Below(Update(current, seen, [seen EXCEPT !.enabled = FALSE]), current)
BY DEF Below, Update, Row

LEMMA WrittenRow ==
    ASSUME TypeInv, StableInv, NEW r \in Request, request[r] # Idle, Writes(r)
    PROVE  LET q == request[r]
           IN  \E row \in Row \cup {Gone} :
                   /\ q.at = "commit"
                   /\ request' = [request EXCEPT ![r] = [q EXCEPT !.at = "sync"]]
                   /\ db' = [db EXCEPT ![q.svc] = row]
                   /\ \/ row = Gone
                      \/ /\ q.op = "stop" /\ db[q.svc] \in Row /\ row \in Row
                         /\ Below(row, db[q.svc])
                      \/ /\ q.op \in Writer /\ q.row \in Row /\ row \in Row
                         /\ Below(row, q.row)
<1> DEFINE q == request[r]
           current == db[q.svc]
<1>1. PICK row \in Row \cup {Gone} :
          /\ q.at = "commit"
          /\ request' = [request EXCEPT ![r] = [q EXCEPT !.at = "sync"]]
          /\ db' = [db EXCEPT ![q.svc] = row]
          /\ \/ row = Gone
             \/ /\ q.op # "delete" /\ q.seen = Gone /\ current = Gone
                /\ q.row \in Row /\ row = q.row
             \/ /\ q.op # "delete" /\ q.seen \in Row /\ current \in Row
                /\ q.row \in Row /\ row = Update(current, q.seen, q.row)
  BY DEF Writes
<1>2. Shape(q) /\ q.op \in Op
  BY AtType DEF TypeInv, ShapeInv
<1>3. CASE row = Gone
  BY <1>1, <1>3
<1>4. CASE q.op # "delete" /\ q.seen = Gone /\ current = Gone
           /\ q.row \in Row /\ row = q.row
  <2>1. q.op # "stop"
    BY <1>1, <1>2, <1>4, Rows DEF Shape, Loaded
  <2>2. Below(row, q.row)
    BY <1>4 DEF Below
  <2> QED  BY <1>1, <1>2, <1>4, <2>1, <2>2 DEF Op, Writer
<1>5. CASE q.op # "delete" /\ q.seen \in Row /\ current \in Row
           /\ q.row \in Row /\ row = Update(current, q.seen, q.row)
  <2>1. row \in Row
    BY <1>5, UpdateType
  <2>2. CASE q.op = "stop"
    <3>1. q.row = [q.seen EXCEPT !.enabled = FALSE]
      BY <1>1, <1>2, <2>2 DEF Shape, Loaded
    <3>2. Below(row, current)
      BY <1>5, <3>1, StopBelow
    <3> QED  BY <1>1, <1>5, <2>1, <2>2, <3>2
  <2>3. CASE q.op # "stop"
    <3>1. q.op \in {"update", "start"}
      BY <1>2, <1>5, <2>3, Rows DEF Shape, Op
    <3>2. Loaded(q)
      BY <1>1, <3>1 DEF Loaded
    <3>3. Below(current, q.seen)
      BY <1>5, <2>3, <3>2, Rows DEF StableInv, Below
    <3>4. Below(row, q.row)
      BY <1>5, <3>3, UpdateBelow
    <3> QED  BY <1>1, <1>5, <2>1, <3>1, <3>4 DEF Writer
  <2> QED  BY <2>2, <2>3
<1> QED  BY <1>1, <1>3, <1>4, <1>5

\* A row that is about to be written back was not meanwhile changed otherwise.
LEMMA WriteStable ==
    ASSUME TypeInv, FreshInv, StableInv, NEW r \in Request, ~Skews(r),
           request[r] # Idle, Writes(r)
    PROVE  StableInv'
<1> DEFINE q == request[r]
           new == [q EXCEPT !.at = "sync"]
<1>1. PICK row \in Row \cup {Gone} :
          /\ q.at = "commit"
          /\ request' = [request EXCEPT ![r] = new]
          /\ db' = [db EXCEPT ![q.svc] = row]
          /\ \/ row = Gone
             \/ /\ q.op = "stop" /\ db[q.svc] \in Row /\ row \in Row
                /\ Below(row, db[q.svc])
             \/ /\ q.op \in Writer /\ q.row \in Row /\ row \in Row
                /\ Below(row, q.row)
  BY WrittenRow
<1>2. q \in InFlight /\ q.svc \in Service /\ Shape(q) /\ (Holds(q) <=> guard = r)
  BY AtType DEF TypeInv, ShapeInv
<1>3. ~Loaded(new)
  BY <1>2, MovedClear DEF Where
<1> HIDE DEF new
<1>4. ASSUME NEW a \in Request, request'[a] # Idle, request'[a].op # "stop",
             Loaded(request'[a]), request'[a].seen # Gone, db'[request'[a].svc] # Gone
      PROVE  Below(db'[request'[a].svc], request'[a].seen)
  <2>1. a # r /\ request'[a] = request[a]
    BY <1>1, <1>3, <1>4 DEF TypeInv, TypeOK
  <2> DEFINE p == request[a]
  <2>2. /\ p # Idle /\ p.op # "stop" /\ Loaded(p) /\ p.seen # Gone
        /\ p.svc \in Service /\ Shape(p) /\ (Holds(p) <=> guard = a)
    BY <1>4, <2>1, AtType DEF TypeInv, ShapeInv
  <2>3. db[p.svc] # Gone => Below(db[p.svc], p.seen)
    BY <2>2 DEF StableInv, Below
  <2>4. CASE p.svc # q.svc
    <3>1. db'[p.svc] = db[p.svc]
      BY <1>1, <2>2, <2>4 DEF TypeInv, TypeOK
    <3> QED  BY <1>4, <2>1, <2>3, <3>1
  <2>5. CASE p.svc = q.svc
    <3>1. db'[p.svc] = row /\ row # Gone
      BY <1>1, <1>2, <1>4, <2>1, <2>5 DEF TypeInv, TypeOK
    <3>2. CASE q.op = "stop"
      <4>1. Below(row, db[q.svc]) /\ db[q.svc] # Gone
        BY <1>1, <3>1, <3>2, Rows DEF Writer
      <4>2. Below(db[q.svc], p.seen)
        BY <2>3, <2>5, <4>1
      <4> QED  BY <2>1, <3>1, <4>1, <4>2 DEF Below
    <3>3. CASE q.op = "create"
      BY <1>1, <2>1, <2>2, <2>5, <3>3 DEF FreshInv
    <3>4. CASE q.op \in {"update", "start"}
      <4>1. p.op \in {"update", "start"} /\ (Guarded(p.op, p.row) => Holds(p))
        BY <2>2 DEF Loaded, Holds
      <4>2. Guarded(q.op, q.row) => Holds(q)
        BY <1>1, <3>4 DEF Holds
      <4>3. ~(Guarded(p.op, p.row) /\ Guarded(q.op, q.row))
        BY <1>2, <2>1, <2>2, <4>1, <4>2
      <4> QED  BY <2>1, <2>2, <2>5, <3>4, <4>1, <4>3 DEF Skews
    <3> QED  BY <1>1, <3>1, <3>2, <3>3, <3>4 DEF Writer
  <2> QED  BY <2>4, <2>5
<1> QED  BY <1>4 DEF StableInv, Below

LEMMA HandleStable ==
    ASSUME TypeInv, FreshInv, StableInv, NEW r \in Request, Handle(r), ~skewed'
    PROVE  StableInv'
<1> DEFINE q == request[r]
<1>1. q # Idle
  BY HandleSteps
<1>2. CASE Ends(r)
  <2>1. \A a \in Request : request'[a] # Idle => request'[a] = request[a]
    BY <1>2 DEF Ends, TypeInv, TypeOK
  <2>2. UNCHANGED db
    BY <1>2 DEF Ends
  <2> QED  BY <2>1, <2>2 DEF StableInv
<1>3. CASE Advances(r)
  <2>1. PICK new \in InFlight :
            /\ request' = [request EXCEPT ![r] = new] /\ UNCHANGED db
            /\ new.op = q.op /\ new.svc = q.svc
            /\ Loaded(new) => (Loaded(q) /\ new.seen = q.seen) \/ new.seen = db[q.svc]
    BY <1>3 DEF Advances
  <2>2. \A a \in Request : request'[a] = IF a = r THEN new ELSE request[a]
    BY <2>1 DEF TypeInv, TypeOK
  <2>3. ASSUME NEW a \in Request, request'[a] # Idle, request'[a].op # "stop",
               Loaded(request'[a]), request'[a].seen # Gone, db'[request'[a].svc] # Gone
        PROVE  Below(db'[request'[a].svc], request'[a].seen)
    <3>1. CASE a = r
      BY <1>1, <2>1, <2>2, <2>3, <3>1 DEF StableInv, Below
    <3>2. CASE a # r
      BY <2>1, <2>2, <2>3, <3>2 DEF StableInv, Below
    <3> QED  BY <3>1, <3>2
  <2> QED  BY <2>3 DEF StableInv, Below
<1>4. CASE Writes(r)
  <2>1. Commit(r) => ~Skews(r)
    BY DEF Commit
  <2>2. CASE Commit(r)
    BY <1>1, <1>4, <2>1, <2>2, WriteStable
  <2>3. CASE ~Commit(r)
    BY <1>2, <1>3, <2>3, OnlyCommitWrites
  <2> QED  BY <2>2, <2>3
<1> QED  BY <1>2, <1>3, <1>4, HandleSteps

-----------------------------------------------------------------------------
(* Admission.                                                              *)

\* What others write leaves a request cleared: it holds the guard, or claims
\* nothing.
LEMMA WriteClear ==
    ASSUME TypeInv, StableInv, ClearInv, NoDoubleClaim,
           NEW r \in Request, request[r] # Idle, Writes(r)
    PROVE  ClearInv' /\ NoDoubleClaim'
<1> DEFINE q == request[r]
           new == [q EXCEPT !.at = "sync"]
<1>1. PICK row \in Row \cup {Gone} :
          /\ q.at = "commit"
          /\ request' = [request EXCEPT ![r] = new]
          /\ db' = [db EXCEPT ![q.svc] = row]
          /\ \/ row = Gone
             \/ /\ q.op = "stop" /\ db[q.svc] \in Row /\ row \in Row
                /\ Below(row, db[q.svc])
             \/ /\ q.op \in Writer /\ q.row \in Row /\ row \in Row
                /\ Below(row, q.row)
  BY WrittenRow
<1>2. q \in InFlight /\ q.svc \in Service /\ Shape(q) /\ (Holds(q) <=> guard = r)
  BY AtType DEF TypeInv, ShapeInv
<1>3. ~Cleared(new)
  BY <1>2, MovedClear DEF Where
<1> HIDE DEF new
<1>4. \A s \in Service : db'[s] = IF s = q.svc THEN row ELSE db[s]
  BY <1>1 DEF TypeInv, TypeOK
<1>5. \A a \in Request : request'[a] = IF a = r THEN new ELSE request[a]
  BY <1>1 DEF TypeInv, TypeOK
<1>6. q.op \in Writer => ~Conflicts(q.svc, q.row)
  BY <1>1 DEF ClearInv, Cleared
<1>7. ASSUME NEW t \in Service \ {q.svc}, row.enabled, db[t].enabled
      PROVE  row.keys \cap db[t].keys = {}
  <2>1. row # Gone
    BY <1>7, Rows
  <2>2. CASE q.op = "stop"
    BY <1>1, <1>2, <1>7, <2>1, <2>2 DEF Below, NoDoubleClaim, Writer
  <2>3. CASE q.op \in Writer
    BY <1>1, <1>6, <1>7, <2>1, <2>3 DEF Below, Conflicts, Others, Writer
  <2> QED  BY <1>1, <2>1, <2>2, <2>3
<1>8. NoDoubleClaim'
  <2> SUFFICES ASSUME NEW s \in Service, NEW t \in Service,
                      s # t, db'[s].enabled, db'[t].enabled
               PROVE  db'[s].keys \cap db'[t].keys = {}
    BY DEF NoDoubleClaim
  <2>1. CASE s = q.svc
    BY <1>4, <1>7, <2>1
  <2>2. CASE t = q.svc
    BY <1>4, <1>7, <2>2
  <2>3. CASE s # q.svc /\ t # q.svc
    BY <1>4, <2>3 DEF NoDoubleClaim
  <2> QED  BY <2>1, <2>2, <2>3
<1>9. ASSUME NEW a \in Request, request'[a] # Idle, Cleared(request'[a]),
             request'[a].row.enabled, request'[a].row.keys # {},
             NEW t \in Service \ {request'[a].svc},
             db'[t].enabled, db'[t].keys \cap request'[a].row.keys # {}
      PROVE  FALSE
  <2> DEFINE p == request[a]
  <2>1. a # r /\ request'[a] = p
    BY <1>3, <1>5, <1>9
  <2>2. p # Idle /\ Cleared(p) /\ Shape(p) /\ (Holds(p) <=> guard = a) /\ ~Conflicts(p.svc, p.row)
    BY <1>9, <2>1 DEF TypeInv, ShapeInv, ClearInv
  <2>3. t # p.svc /\ db'[t].enabled /\ db'[t].keys \cap p.row.keys # {}
    BY <1>9, <2>1
  <2>4. p.row.enabled /\ p.row.keys # {}
    BY <1>9, <2>1
  <2>5. Holds(p)
    BY <2>2, <2>4 DEF Cleared, Writer, Holds, Guarded
  <2>6. ~(db[t].enabled /\ db[t].keys \cap p.row.keys # {})
    BY <2>2, <2>3, <2>4 DEF Conflicts, Others
  <2>7. t = q.svc /\ row # Gone
    BY <1>4, <2>3, <2>6, Rows
  <2>8. row.enabled /\ row.keys \cap p.row.keys # {}
    BY <1>4, <2>3, <2>7
  <2>9. q.op \in {"create", "update"} /\ ~Guarded(q.op, q.row) /\ Below(row, q.row)
    <3>1. ~Holds(q)
      BY <1>2, <2>1, <2>2, <2>5
    <3>2. q.op # "stop"
      BY <1>1, <2>6, <2>7, <2>8 DEF Below, Writer
    <3>3. q.op \in Writer /\ Below(row, q.row)
      BY <1>1, <2>7, <3>2
    <3> QED  BY <1>1, <3>1, <3>3 DEF Writer, Holds
  <2> QED  BY <2>8, <2>9 DEF Below, Guarded
<1>10. ClearInv'
  BY <1>9 DEF ClearInv, Conflicts, Others
<1> QED  BY <1>8, <1>10

LEMMA HandleClear ==
    ASSUME TypeInv, StableInv, ClearInv, NoDoubleClaim, NEW r \in Request, Handle(r)
    PROVE  ClearInv' /\ NoDoubleClaim'
<1> DEFINE q == request[r]
<1>1. q # Idle
  BY HandleSteps
<1>2. CASE Ends(r)
  <2>1. \A a \in Request : request'[a] # Idle => request'[a] = request[a]
    BY <1>2 DEF Ends, TypeInv, TypeOK
  <2>2. UNCHANGED db
    BY <1>2 DEF Ends
  <2> QED  BY <2>1, <2>2 DEF ClearInv, NoDoubleClaim, Conflicts, Others
<1>3. CASE Advances(r)
  <2>1. PICK new \in InFlight :
            /\ request' = [request EXCEPT ![r] = new] /\ UNCHANGED db
            /\ new.op = q.op /\ new.svc = q.svc
            /\ Cleared(new) => new.row = q.row /\ (Cleared(q) \/ ~Conflicts(q.svc, q.row))
    BY <1>3 DEF Advances
  <2>2. \A a \in Request : request'[a] = IF a = r THEN new ELSE request[a]
    BY <2>1 DEF TypeInv, TypeOK
  <2>3. Cleared(new) => ~Conflicts(new.svc, new.row)
    BY <1>1, <2>1 DEF ClearInv
  <2>4. \A s, row : Conflicts(s, row)' <=> Conflicts(s, row)
    BY <2>1 DEF Conflicts, Others
  <2>5. NoDoubleClaim'
    BY <2>1 DEF NoDoubleClaim
  <2>6. ASSUME NEW a \in Request, request'[a] # Idle, Cleared(request'[a])
        PROVE  ~Conflicts(request'[a].svc, request'[a].row)
    BY <2>2, <2>3, <2>6 DEF ClearInv
  <2> QED  BY <2>1, <2>5, <2>6 DEF ClearInv, Conflicts, Others
<1> QED  BY <1>1, <1>2, <1>3, WriteClear, HandleSteps

LEMMA SubmitClaim ==
    ASSUME TypeInv, StableInv, ClearInv, NoDoubleClaim, NEW r \in Request, NEW op \in Op,
           NEW s, NEW row, Submit(r, op, s, row)
    PROVE  StableInv' /\ ClearInv' /\ NoDoubleClaim'
<1> DEFINE new == [at |-> FirstWait(op), op |-> op, svc |-> s, row |-> row, seen |-> Gone]
<1>1. request' = [request EXCEPT ![r] = new] /\ UNCHANGED db
  BY DEF Submit
<1>2. ~Loaded(new) /\ ~Cleared(new)
  BY DEF FirstWait, Loaded, Cleared, Op, Writer
<1> HIDE DEF new
<1>3. \A a \in Request : request'[a] = IF a = r THEN new ELSE request[a]
  BY <1>1 DEF TypeInv, TypeOK
<1>4. StableInv'
  BY <1>1, <1>2, <1>3 DEF StableInv
<1>5. ClearInv'
  BY <1>1, <1>2, <1>3 DEF ClearInv, Conflicts, Others
<1>6. NoDoubleClaim'
  BY <1>1 DEF NoDoubleClaim
<1> QED  BY <1>4, <1>5, <1>6

LEMMA ClaimStep ==
    ASSUME TypeInv, ClaimInv, [Next]_vars, ~ClientIds
    PROVE  ClaimInv'
<1>1. FreshInv /\ FreshInv'
  BY FreshStep DEF ClaimInv
<1> SUFFICES ASSUME ~skewed'
             PROVE  StableInv' /\ ClearInv' /\ NoDoubleClaim'
  BY <1>1 DEF ClaimInv
<1>2. StableInv /\ ClearInv /\ NoDoubleClaim
  BY OverlapStep DEF ClaimInv
<1>3. CASE UNCHANGED vars
  BY <1>2, <1>3 DEF vars, StableInv, ClearInv, NoDoubleClaim, Conflicts, Others
<1>4. ASSUME NEW r \in Request, Create(r) \/ Put(r) \/ Operate(r)
      PROVE  StableInv' /\ ClearInv' /\ NoDoubleClaim'
  <2>1. PICK op, s, row : op \in Op /\ Submit(r, op, s, row)
    BY <1>4 DEF Create, Put, Operate, Op
  <2> QED  BY <1>2, <2>1, SubmitClaim
<1>5. ASSUME NEW r \in Request, Handle(r)
      PROVE  StableInv' /\ ClearInv' /\ NoDoubleClaim'
  BY <1>1, <1>2, <1>5, HandleStable, HandleClear
<1>6. CASE Crash
  BY <1>2, <1>6 DEF Crash, StableInv, ClearInv, NoDoubleClaim
<1>7. CASE StartupDone \/ \E s \in Service : StartupSync(s)
  BY <1>2, <1>7 DEF StartupDone, StartupSync, StableInv, ClearInv, NoDoubleClaim,
     Conflicts, Others
<1> QED  BY <1>3, <1>4, <1>5, <1>6, <1>7 DEF Next

LEMMA InitClaim == Init => ClaimInv
BY Rows DEF Init, ClaimInv, FreshInv, StableInv, ClearInv, NoDoubleClaim

\* Where the server draws the ids, two enabled services come to claim one
\* (bind IP, port) only when an update or start is written to a row that another
\* has loaded, one of them outside the guard, whatever bodies the requests carry
\* and whatever crashes or fails (main.py:379-386, 393-421, 434-455).
THEOREM Admission ==
    ASSUME ~ClientIds
    PROVE  Spec => []ClaimsKeptApart
<1>1. TypeInv /\ ClaimInv /\ [Next]_vars => TypeInv' /\ ClaimInv'
  BY TypeStep, ClaimStep
<1>2. Init => TypeInv /\ ClaimInv
  BY InitType, InitClaim
<1>3. ClaimInv => ClaimsKeptApart
  BY DEF ClaimInv, ClaimsKeptApart
<1> QED  BY <1>1, <1>2, <1>3, PTL DEF Spec

-----------------------------------------------------------------------------
(* Full HLS.                                                               *)

\* The services with an enabled Full HLS output, all and all but one.
AllStreams(rows) == {t \in Service : rows[t].enabled /\ rows[t].hls}
Streams(rows, s) == AllStreams(rows) \ {s}

LEMMA LimitByStreams ==
    /\ RoomInv => Cardinality(AllStreams(db)) <= HlsLimit
    /\ \A s, row : LimitReached(s, row) <=>
           row.enabled /\ row.hls /\ Cardinality(Streams(db, s)) >= HlsLimit
<1>1. RoomInv => Cardinality(AllStreams(db)) <= HlsLimit
  BY DEF RoomInv, AllStreams
<1>2. \A s : {t \in Others(s) : db[t].hls} = Streams(db, s)
  BY DEF Others, Streams, AllStreams
<1> QED  BY <1>1, <1>2 DEF LimitReached

LEMMA FewerStreams ==
    ASSUME IsFiniteSet(Service), NEW S \in SUBSET Service, NEW T \in SUBSET S,
           NEW bound \in Nat
    PROVE  /\ IsFiniteSet(S) /\ Cardinality(S) \in Nat /\ Cardinality(T) \in Nat
           /\ Cardinality(T) <= Cardinality(S)
           /\ Cardinality(S) <= bound => Cardinality(T) <= bound
           /\ Cardinality(S) < bound => Cardinality(T) < bound
<1>1. IsFiniteSet(S)
  BY FS_Subset
<1>2. IsFiniteSet(T) /\ Cardinality(T) <= Cardinality(S)
  BY <1>1, FS_Subset
<1>3. Cardinality(S) \in Nat /\ Cardinality(T) \in Nat
  BY <1>1, <1>2, FS_CardinalityType
<1> QED  BY <1>1, <1>2, <1>3

LEMMA OneMoreStream ==
    ASSUME IsFiniteSet(Service), NEW S \in SUBSET Service, NEW s \in Service,
           NEW T \in SUBSET (S \cup {s}), NEW bound \in Nat, Cardinality(S) < bound
    PROVE  Cardinality(T) <= bound
<1>1. IsFiniteSet(S) /\ Cardinality(S) \in Nat
  BY FS_Subset, FS_CardinalityType
<1>2. IsFiniteSet(S \cup {s}) /\ Cardinality(S \cup {s}) <= Cardinality(S) + 1
  <2>1. /\ IsFiniteSet(S \cup {s})
        /\ Cardinality(S \cup {s}) =
               IF s \in S THEN Cardinality(S) ELSE Cardinality(S) + 1
    BY <1>1, FS_AddElement
  <2>2. Cardinality(S) <= Cardinality(S) + 1
    BY <1>1
  <2> QED  BY <1>1, <2>1, <2>2
<1>3. Cardinality(T) <= Cardinality(S \cup {s}) /\ IsFiniteSet(T)
  BY <1>2, FS_Subset
<1>4. Cardinality(S) \in Nat /\ Cardinality(S \cup {s}) \in Nat /\ Cardinality(T) \in Nat
  BY <1>1, <1>2, <1>3, FS_CardinalityType
<1> QED  BY <1>2, <1>3, <1>4

\* A request comes past the limit by a check of it.
LEMMA LimitPassed ==
    ASSUME TypeInv, NEW r \in Request, Handle(r), PastLimit(request'[r])
    PROVE  /\ UNCHANGED db
           /\ request'[r].svc = request[r].svc /\ request'[r].row = request[r].row
           /\ PastLimit(request[r]) \/ ~LimitReached(request[r].svc, request[r].row)
<1> DEFINE q == request[r]
<1>1. q # Idle /\ q \in InFlight
  BY HandleSteps, AtType DEF TypeInv
<1>2. ASSUME NEW where \in Where, Go(r, where)
      PROVE  /\ request'[r].at = where /\ request'[r].svc = q.svc
             /\ request'[r].row = q.row
  <2>1. request'[r] = [q EXCEPT !.at = where]
    BY <1>2 DEF Go, TypeInv, TypeOK
  <2> QED  BY <1>1, <2>1, Moved
<1>3. ~Refuse(r)
  BY DEF Refuse, PastLimit, TypeInv, TypeOK
<1>4. ASSUME NEW where \in Where, Go(r, where), UNCHANGED db,
             q.at \in {"guard", "check", "load", "commit"} \/ ~LimitReached(q.svc, q.row)
      PROVE  /\ UNCHANGED db
             /\ request'[r].svc = q.svc /\ request'[r].row = q.row
             /\ PastLimit(q) \/ ~LimitReached(q.svc, q.row)
  BY <1>1, <1>2, <1>4 DEF PastLimit
<1>5. CASE Limit(r)
  <2>1. ~LimitReached(q.svc, q.row) /\ UNCHANGED db
    BY <1>3, <1>5 DEF Limit
  <2>2. \E where \in Where : Go(r, where)
    <3>1. q.op \in {"create", "update", "start"}
      BY <1>1, <1>5, Fields DEF Limit, At, TypeInv, ShapeInv, Shape, Op
    <3> QED  BY <1>5, <2>1, <3>1 DEF Limit, Where
  <2> QED  BY <1>4, <2>1, <2>2
<1>6. CASE Lock(r)
  <2>1. Go(r, IF q.op = "start" THEN "load" ELSE "check") /\ UNCHANGED db /\ q.at = "guard"
    BY <1>6 DEF Lock, At
  <2> QED  BY <1>4, <2>1 DEF Where
<1>7. CASE Check(r)
  <2>1. Go(r, IF q.op = "update" THEN "load" ELSE "commit") /\ UNCHANGED db /\ q.at = "check"
    BY <1>3, <1>7 DEF Check, At
  <2> QED  BY <1>4, <2>1 DEF Where
<1>8. CASE Load(r)
  <2>1. PICK at \in Where, want \in Row \cup {Gone} :
            /\ request' = [request EXCEPT ![r] =
                               [q EXCEPT !.at = at, !.row = want, !.seen = db[q.svc]]]
            /\ UNCHANGED db
            /\ \/ q.op = "start" /\ at = "limit"
               \/ ~want.enabled
               \/ q.op = "update" /\ want = q.row
    <3>1. db[q.svc] \in Row \cup {Gone}
      BY <1>1, Fields DEF TypeInv, TypeOK
    <3>2. ~Gone.enabled /\ \A row \in Row : ~[row EXCEPT !.enabled = FALSE].enabled
      BY Rows DEF Row, Gone
    <3>3. PICK at \in Where, want \in Row \cup {Gone} :
              /\ request' = [request EXCEPT ![r] =
                                 [q EXCEPT !.at = at, !.row = want, !.seen = db[q.svc]]]
              /\ UNCHANGED <<db, guard>>
              /\ \/ /\ q.op = "start" /\ db[q.svc] # Gone /\ at = "limit"
                    /\ want = [db[q.svc] EXCEPT !.enabled = TRUE]
                 \/ /\ q.op = "stop" /\ db[q.svc] # Gone /\ at = "commit"
                    /\ want = [db[q.svc] EXCEPT !.enabled = FALSE]
                 \/ q.op = "update" /\ at = "commit" /\ want = q.row
                 \/ q.op = "delete" /\ at \in {"commit", "sync"} /\ want = Gone
                    /\ (at = "sync" => db[q.svc] = Gone)
      BY <1>3, <1>8, LoadSteps
    <3> HIDE DEF q
    <3> QED  BY <3>1, <3>2, <3>3
  <2>2. request'[r] = [q EXCEPT !.at = at, !.row = want, !.seen = db[q.svc]]
    BY <2>1 DEF TypeInv, TypeOK
  <2>3. q.at = "load"
    BY <1>8 DEF Load, At
  <2> HIDE DEF q
  <2>4. q \in InFlight
    BY <1>1
  <2>5. /\ request'[r].at = at /\ request'[r].op = q.op
        /\ request'[r].svc = q.svc /\ request'[r].row = want
    BY <2>2, <2>4 DEF InFlight
  <2>6. q.op = "update" /\ want = q.row
    BY <2>1, <2>5 DEF PastLimit
  <2>7. PastLimit(q)
    BY <1>1, <2>3, <2>5, <2>6 DEF PastLimit
  <2> QED  BY <2>1, <2>5, <2>6, <2>7 DEF q
<1>9. CASE Commit(r)
  <2>1. Go(r, "sync")
    BY <1>3, <1>9, CommitSteps
  <2> QED  BY <1>2, <2>1 DEF Where, PastLimit
<1>10. CASE Sync(r) \/ SyncFails(r)
  BY <1>10 DEF Sync, SyncFails, PastLimit, TypeInv, TypeOK
<1> QED  BY <1>5, <1>6, <1>7, <1>8, <1>9, <1>10 DEF Handle

\* A stream is added by a request that was let past the limit, and no request on
\* another service is past it then.
LEMMA WriteLimit ==
    ASSUME TypeInv, StableInv, RoomInv, IsFiniteSet(Service),
           NEW r \in Request, ~Crosses(r), request[r] # Idle, Writes(r)
    PROVE  RoomInv'
<1> DEFINE q == request[r]
           new == [q EXCEPT !.at = "sync"]
<1>1. PICK row \in Row \cup {Gone} :
          /\ q.at = "commit"
          /\ request' = [request EXCEPT ![r] = new]
          /\ db' = [db EXCEPT ![q.svc] = row]
          /\ \/ row = Gone
             \/ /\ q.op = "stop" /\ db[q.svc] \in Row /\ row \in Row
                /\ Below(row, db[q.svc])
             \/ /\ q.op \in Writer /\ q.row \in Row /\ row \in Row
                /\ Below(row, q.row)
  BY WrittenRow
<1>2. q \in InFlight /\ q.svc \in Service /\ Shape(q) /\ (Holds(q) <=> guard = r)
  BY AtType DEF TypeInv, ShapeInv
<1>3. \A s \in Service : db'[s] = IF s = q.svc THEN row ELSE db[s]
  BY <1>1 DEF TypeInv, TypeOK
<1>4. new.at = "sync"
  BY <1>2, Moved DEF Where
<1> HIDE DEF new
<1>5. \A a \in Request : request'[a] = IF a = r THEN new ELSE request[a]
  BY <1>1 DEF TypeInv, TypeOK
<1>6. /\ AllStreams(db) \in SUBSET Service /\ Cardinality(AllStreams(db)) <= HlsLimit
      /\ \A s : Streams(db, s) \in SUBSET Service
  BY LimitByStreams DEF AllStreams, Streams
<1>7. ASSUME NEW a \in Request, PastLimit(request'[a])
      PROVE  a # r /\ request'[a] = request[a] /\ PastLimit(request[a])
             /\ request[a].svc \in Service /\ request[a].row.enabled /\ request[a].row.hls
             /\ Cardinality(Streams(db, request[a].svc)) \in Nat
             /\ ~(Cardinality(Streams(db, request[a].svc)) >= HlsLimit)
  <2>1. a # r /\ request'[a] = request[a] /\ PastLimit(request[a])
    BY <1>4, <1>5, <1>7 DEF PastLimit
  <2>2. request[a].row.enabled /\ request[a].row.hls /\ request[a] # Idle
    BY <2>1 DEF PastLimit
  <2>3. ~LimitReached(request[a].svc, request[a].row)
    BY <2>1 DEF RoomInv
  <2>4. IsFiniteSet(Streams(db, request[a].svc))
        /\ Cardinality(Streams(db, request[a].svc)) \in Nat
    BY <1>6, FS_Subset, FS_CardinalityType
  <2> QED  BY <2>1, <2>2, <2>3, <2>4, AtType, LimitByStreams DEF TypeInv
<1>8. \A s : {t \in Service \ {s} : db'[t].enabled /\ db'[t].hls} = Streams(db', s)
  BY DEF Streams, AllStreams
<1>9. CASE row.enabled /\ row.hls /\ q.op \in Writer
  <2>1. Below(row, q.row) /\ q.row.enabled /\ q.row.hls
    BY <1>1, <1>9, Rows DEF Below, Writer
  <2>2. PastLimit(q) /\ ~LimitReached(q.svc, q.row)
    BY <1>1, <2>1 DEF PastLimit, RoomInv
  <2>3. Cardinality(Streams(db, q.svc)) < HlsLimit
    <3>1. IsFiniteSet(Streams(db, q.svc)) /\ Cardinality(Streams(db, q.svc)) \in Nat
      BY <1>6, FS_Subset, FS_CardinalityType
    <3> QED  BY <2>1, <2>2, <3>1, LimitByStreams, LimitAssumption
  <2>4. AllStreams(db') \in SUBSET (Streams(db, q.svc) \cup {q.svc})
    BY <1>3 DEF AllStreams, Streams
  <2>5. Cardinality(AllStreams(db')) <= HlsLimit
    BY <1>2, <1>6, <2>3, <2>4, OneMoreStream, LimitAssumption
  <2>6. ASSUME NEW a \in Request, PastLimit(request'[a])
        PROVE  ~(Cardinality(Streams(db', request'[a].svc)) >= HlsLimit)
    <3> DEFINE p == request[a]
    <3>1. a # r /\ request'[a] = p /\ PastLimit(p)
          /\ ~(Cardinality(Streams(db, p.svc)) >= HlsLimit)
      BY <1>7, <2>6
    <3>2. CASE p.svc = q.svc
      <4>1. Streams(db', q.svc) = Streams(db, q.svc)
        BY <1>3 DEF AllStreams, Streams
      <4> QED  BY <3>1, <3>2, <4>1
    <3>3. CASE p.svc # q.svc
      <4>1. p.op = "start" /\ q.op = "start"
        BY <2>2, <3>1, <3>3 DEF Crosses
      <4>2. Holds(q)
        BY <1>1, <4>1 DEF Holds
      <4>3. p # Idle /\ p.at \in {"guard", "check", "load", "commit"}
        BY <3>1 DEF PastLimit
      <4>4. p.at # "guard"
        <5>1. Shape(p) /\ p.row.enabled
          BY <3>1, <4>3 DEF TypeInv, ShapeInv, PastLimit
        <5> QED  BY <4>1, <5>1, Rows DEF Shape
      <4>5. Holds(p)
        BY <4>1, <4>3, <4>4 DEF Holds
      <4> QED  BY <1>2, <3>1, <4>2, <4>3, <4>5 DEF TypeInv, ShapeInv
    <3> QED  BY <3>2, <3>3
  <2> QED
    BY <1>8, <2>5, <2>6 DEF RoomInv, AllStreams, LimitReached, Others
<1>10. CASE ~(row.enabled /\ row.hls /\ q.op \in Writer)
  <2>1. ~(row.enabled /\ row.hls) \/ q.svc \in AllStreams(db)
    <3>1. CASE row = Gone
      BY <3>1, Rows
    <3>2. CASE q.op = "stop" /\ Below(row, db[q.svc])
      BY <1>2, <3>2 DEF Below, AllStreams
    <3> QED  BY <1>1, <1>10, <3>1, <3>2
  <2>2. AllStreams(db') \in SUBSET AllStreams(db)
    BY <1>3, <2>1 DEF AllStreams
  <2>3. \A s : Streams(db', s) \in SUBSET Streams(db, s)
    BY <2>2 DEF Streams
  <2>4. Cardinality(AllStreams(db')) <= HlsLimit
    BY <1>6, <2>2, FewerStreams, LimitAssumption
  <2>5. ASSUME NEW a \in Request, PastLimit(request'[a])
        PROVE  ~(Cardinality(Streams(db', request'[a].svc)) >= HlsLimit)
    <3> DEFINE S == Streams(db, request[a].svc)
               T == Streams(db', request[a].svc)
    <3>1. request'[a] = request[a] /\ ~(Cardinality(S) >= HlsLimit)
      BY <1>7, <2>5
    <3>2. S \in SUBSET Service /\ T \in SUBSET S
      BY <1>6, <2>3
    <3> HIDE DEF S, T
    <3>3. Cardinality(S) \in Nat /\ Cardinality(T) \in Nat /\ Cardinality(T) <= Cardinality(S)
      BY <3>2, FewerStreams, LimitAssumption
    <3>4. ~(Cardinality(T) >= HlsLimit)
      BY <3>1, <3>3, LimitAssumption
    <3> QED  BY <3>1, <3>4 DEF T
  <2> QED
    BY <1>8, <2>4, <2>5 DEF RoomInv, AllStreams, LimitReached, Others
<1> QED  BY <1>9, <1>10

LEMMA HandleLimit ==
    ASSUME TypeInv, StableInv, RoomInv, IsFiniteSet(Service),
           NEW r \in Request, Handle(r), ~crossed'
    PROVE  RoomInv'
<1>1. request[r] # Idle
  BY HandleSteps
<1>2. CASE Ends(r) \/ Advances(r)
  <2>1. UNCHANGED db /\ \A a \in Request \ {r} : request'[a] = request[a]
    BY <1>2 DEF Ends, Advances, TypeInv, TypeOK
  <2>2. ASSUME NEW a \in Request, PastLimit(request'[a])
        PROVE  ~LimitReached(request'[a].svc, request'[a].row)
    <3>1. CASE a = r
      BY <2>2, <3>1, LimitPassed DEF RoomInv
    <3>2. CASE a # r
      BY <2>1, <2>2, <3>2 DEF RoomInv
    <3> QED  BY <3>1, <3>2
  <2> QED  BY <2>1, <2>2 DEF RoomInv, LimitReached, Others
<1>3. CASE Writes(r) /\ Commit(r)
  BY <1>1, <1>3, WriteLimit DEF Commit
<1> QED  BY <1>2, <1>3, HandleSteps, OnlyCommitWrites

LEMMA LimitStep ==
    ASSUME TypeInv, ClaimInv, LimitInv, IsFiniteSet(Service), [Next]_vars
    PROVE  LimitInv'
<1> SUFFICES ASSUME ~skewed', ~crossed'
             PROVE  RoomInv'
  BY DEF LimitInv
<1>1. RoomInv /\ StableInv
  BY OverlapStep DEF LimitInv, ClaimInv
<1>2. CASE UNCHANGED <<db, request>>
  BY <1>1, <1>2 DEF RoomInv, LimitReached, Others
<1>3. ASSUME NEW r \in Request, Create(r) \/ Put(r) \/ Operate(r)
      PROVE  RoomInv'
  <2>1. PICK op, s, row : /\ op \in Op /\ Submit(r, op, s, row)
                          /\ op \in {"create", "update"} \/ row = Gone
    BY <1>3 DEF Create, Put, Operate, Op
  <2> DEFINE new == [at |-> FirstWait(op), op |-> op, svc |-> s, row |-> row, seen |-> Gone]
  <2>2. request' = [request EXCEPT ![r] = new] /\ UNCHANGED db
    BY <2>1 DEF Submit
  <2>3. ~PastLimit(new)
    <3>1. new.at = FirstWait(op) /\ new.row = row
      OBVIOUS
    <3>2. ~Gone.enabled
      BY Rows DEF Gone
    <3>3. op \in {"create", "update"} => FirstWait(op) = "limit"
      BY DEF FirstWait
    <3> QED  BY <2>1, <3>1, <3>2, <3>3 DEF PastLimit
  <2> HIDE DEF new
  <2>4. \A a \in Request : request'[a] = IF a = r THEN new ELSE request[a]
    BY <2>2 DEF TypeInv, TypeOK
  <2> QED  BY <1>1, <2>2, <2>3, <2>4 DEF RoomInv, LimitReached, Others
<1>4. ASSUME NEW r \in Request, Handle(r)
      PROVE  RoomInv'
  BY <1>1, <1>4, HandleLimit
<1>5. CASE Crash
  BY <1>1, <1>5 DEF Crash, RoomInv, PastLimit
<1>6. CASE StartupDone \/ \E s \in Service : StartupSync(s)
  BY <1>2, <1>6 DEF StartupDone, StartupSync
<1> QED  BY <1>2, <1>3, <1>4, <1>5, <1>6 DEF Next, vars

LEMMA InitLimit == Init => LimitInv
<1> SUFFICES ASSUME Init PROVE RoomInv
  BY DEF LimitInv
<1>1. {s \in Service : db[s].enabled /\ db[s].hls} = {}
  BY Rows DEF Init
<1>2. Cardinality({s \in Service : db[s].enabled /\ db[s].hls}) <= HlsLimit
  <2>1. Cardinality({s \in Service : db[s].enabled /\ db[s].hls}) = 0
    BY <1>1, FS_EmptySet
  <2> QED  BY <2>1, LimitAssumption
<1> QED  BY <1>2 DEF Init, RoomInv, PastLimit

\* The enabled services with Full HLS exceed MAX_FULL_HLS_SERVICES only after a
\* POST or PUT that was let past the limit outside the guard commits next to
\* another request that was, or a PUT outside the guard writes to a row that
\* another change has loaded; this holds for any bodies and any number of
\* services, requests and faults (main.py:151-166, 378, 408, 440-455).
THEOREM HlsLimitHolds ==
    ASSUME ~ClientIds, IsFiniteSet(Service)
    PROVE  Spec => []HlsWithinLimit
<1> DEFINE Inv == TypeInv /\ ClaimInv /\ LimitInv
<1>1. Inv /\ [Next]_vars => Inv'
  BY TypeStep, ClaimStep, LimitStep
<1>2. Init => Inv
  BY InitType, InitClaim, InitLimit
<1>3. Inv => HlsWithinLimit
  BY DEF LimitInv, RoomInv, HlsWithinLimit
<1> HIDE DEF Inv
<1> QED  BY <1>1, <1>2, <1>3, PTL DEF Spec

-----------------------------------------------------------------------------
(* The desired config follows the table.                                   *)

LEMMA SerialRequestStep ==
    ASSUME TypeInv, SerialInv, NEW r \in Request, request[r] # Idle,
           NEW new \in InFlight \cup {Idle}, request' = [request EXCEPT ![r] = new],
           new # Idle => new.svc = request[r].svc,
           \A s \in Service : s # request[r].svc =>
               desired'[s] = desired[s] /\ db'[s] = db[s] /\ disturbed'[s] = disturbed[s],
           LET s == request[r].svc
           IN  ~disturbed'[s] /\ Follows(request[r], desired[s], db[s]) =>
                   /\ new = Idle => desired'[s] = db'[s]
                   /\ new # Idle => Follows(new, desired'[s], db'[s]),
           disturbed[request[r].svc] => disturbed'[request[r].svc]
    PROVE  SerialInv'
<1> DEFINE s0 == request[r].svc
<1>1. s0 \in Service
  BY AtType DEF TypeInv
<1>2. \A a \in Request : request'[a] = IF a = r THEN new ELSE request[a]
  BY DEF TypeInv, TypeOK
<1>3. \A a \in Request : \A s : On(a, s)' => On(a, s)
  BY <1>2 DEF On
<1>4. \A a \in Request \ {r} : \A s : On(a, s) => On(a, s)'
  BY <1>2 DEF On
<1>5. ASSUME NEW s \in Service, ~disturbed'[s]
      PROVE  /\ \A a, other \in Request : On(a, s)' /\ On(other, s)' => a = other
             /\ (\A a \in Request : ~On(a, s)') => desired'[s] = db'[s]
             /\ \A a \in Request : On(a, s)' => Follows(request'[a], desired'[s], db'[s])
  <2>1. ~disturbed[s]
    BY <1>5
  <2>2. /\ \A a, other \in Request : On(a, s) /\ On(other, s) => a = other
        /\ (\A a \in Request : ~On(a, s)) => desired[s] = db[s]
        /\ \A a \in Request : On(a, s) => Follows(request[a], desired[s], db[s])
    BY <2>1 DEF SerialInv
  <2>3. CASE s # s0
    <3>1. ~On(r, s)
      BY <2>3 DEF On
    <3> QED  BY <1>2, <1>3, <1>4, <2>2, <2>3, <3>1
  <2>4. CASE s = s0
    <3>1. On(r, s) /\ Follows(request[r], desired[s], db[s])
      BY <2>2, <2>4 DEF On
    <3>2. \A a \in Request : On(a, s)' => a = r
      BY <1>3, <2>2, <3>1
    <3>3. new # Idle => On(r, s)'
      BY <1>2, <2>4 DEF On
    <3>4. On(r, s)' => new # Idle
      BY <1>2 DEF On
    <3> QED  BY <1>2, <1>5, <2>2, <2>4, <3>1, <3>2, <3>3, <3>4
  <2> QED  BY <2>3, <2>4
<1> QED  BY <1>5 DEF SerialInv

\* A request that only moves on has changed nothing yet.
LEMMA SerialGo ==
    ASSUME TypeInv, SerialInv, NEW r \in Request, request[r] # Idle,
           NEW where \in Where \ {"sync"}, Go(r, where), request[r].at # "sync",
           Loaded([request[r] EXCEPT !.at = where]) => Loaded(request[r]),
           UNCHANGED <<db, desired, disturbed>>
    PROVE  SerialInv'
<1> DEFINE q == request[r]
           new == [q EXCEPT !.at = where]
<1>1. /\ new \in InFlight /\ new.at = where /\ new.svc = q.svc
      /\ new.row = q.row /\ new.seen = q.seen
  BY AtType, Moved DEF TypeInv
<1>2. request' = [request EXCEPT ![r] = new]
  BY DEF Go, TypeInv, TypeOK
<1>3. Loaded(new) => Loaded(q)
  OBVIOUS
<1>4. new # Idle
  BY <1>1, IdleApart
<1> HIDE DEF new
<1>5. Follows(q, desired[q.svc], db[q.svc]) => Follows(new, desired[q.svc], db[q.svc])
  BY <1>1, <1>3 DEF Follows
<1> QED  BY <1>1, <1>2, <1>4, <1>5, SerialRequestStep

LEMMA SerialRefuse ==
    ASSUME TypeInv, SerialInv, NEW r \in Request, request[r] # Idle, Refuse(r),
           request[r].at # "sync", UNCHANGED <<desired, disturbed>>
    PROVE  SerialInv'
<1>1. request' = [request EXCEPT ![r] = Idle] /\ UNCHANGED db
  BY DEF Refuse
<1> QED  BY <1>1, SerialRequestStep DEF Follows

LEMMA SerialWait ==
    ASSUME TypeInv, SerialInv, NEW r \in Request, Limit(r) \/ Lock(r) \/ Check(r)
    PROVE  SerialInv'
<1> DEFINE q == request[r]
<1>1. q # Idle /\ q \in InFlight /\ q.at \in {"limit", "guard", "check"}
  BY AtWhere DEF Limit, Lock, Check, At, Where, TypeInv
<1>2. UNCHANGED <<desired, disturbed>> /\ q.op \in Op
  BY <1>1, Fields DEF Limit, Lock, Check
<1>3. CASE Refuse(r)
  BY <1>1, <1>2, <1>3, SerialRefuse
<1>4. CASE ~Refuse(r)
  <2>1. PICK where \in Where \ {"sync"} : Go(r, where) /\ UNCHANGED db
        /\ \/ where \in {"guard", "load"}
           \/ q.op = "create" /\ where \in {"check", "commit"}
           \/ q.op = "update" /\ where = "check"
           \/ q.at = "check" /\ q.op # "update" /\ where = "commit"
           \/ q.at = "limit" /\ q.op = "start" /\ where = "check"
    <3>1. CASE Limit(r)
      <4>1. q.op \in {"create", "update", "start"}
        BY <1>1, <1>2, <3>1 DEF Limit, At, TypeInv, ShapeInv, Shape, Op
      <4>2. q.at = "limit"
        BY <3>1 DEF Limit, At
      <4> QED  BY <1>4, <3>1, <4>1, <4>2 DEF Limit, Where
    <3>2. CASE Lock(r)
      <4>1. q.op \in {"create", "update", "start"}
        BY <1>1, <1>2, <3>2 DEF Lock, At, TypeInv, ShapeInv, Shape, Op
      <4> QED  BY <3>2, <4>1 DEF Lock, Where
    <3>3. CASE Check(r)
      BY <1>4, <3>3 DEF Check, At, Where
    <3> QED  BY <3>1, <3>2, <3>3
  <2>2. q.at = "check" /\ q.op # "update" => q.op \in {"create", "start"}
    BY <1>1, <1>2 DEF TypeInv, ShapeInv, Shape, Op
  <2>3. Loaded([q EXCEPT !.at = where]) => Loaded(q)
    BY <1>1, <2>1, <2>2, MovedClear DEF Loaded
  <2> QED  BY <1>1, <1>2, <2>1, <2>3, SerialGo
<1> QED  BY <1>3, <1>4

LEMMA SerialLoad ==
    ASSUME TypeInv, SerialInv, NEW r \in Request, Load(r)
    PROVE  SerialInv'
<1> DEFINE q == request[r]
           row == db[q.svc]
<1>1. q # Idle /\ q \in InFlight /\ q.at = "load"
  BY AtWhere DEF Load, At, Where, TypeInv
<1>2. UNCHANGED <<desired, disturbed>>
  BY DEF Load
<1>3. CASE Refuse(r)
  BY <1>1, <1>2, <1>3, SerialRefuse
<1>4. CASE ~Refuse(r)
  <2>1. PICK at \in Where, want \in Row \cup {Gone} :
            /\ request' = [request EXCEPT ![r] =
                               [q EXCEPT !.at = at, !.row = want, !.seen = row]]
            /\ UNCHANGED <<db, guard>>
            /\ at = "sync" => want = Gone /\ row = Gone
    BY <1>4, LoadSteps
  <2>2. row \in Row \cup {Gone}
    BY <1>1, Fields DEF TypeInv, TypeOK
  <2> DEFINE new == [q EXCEPT !.at = at, !.row = want, !.seen = row]
  <2>3. /\ new \in InFlight /\ new.at = at /\ new.svc = q.svc
        /\ new.row = want /\ new.seen = row
    <3> HIDE DEF q, row
    <3>1. q \in InFlight
      BY <1>1
    <3> QED  BY <2>2, <3>1 DEF InFlight
  <2>4. new # Idle
    BY <2>3, IdleApart
  <2>5. request' = [request EXCEPT ![r] = new]
    BY <2>1
  <2> HIDE DEF new
  <2>6. Follows(q, desired[q.svc], row) => Follows(new, desired[q.svc], row)
    BY <1>1, <2>1, <2>3 DEF Follows
  <2> QED  BY <1>1, <1>2, <2>1, <2>3, <2>4, <2>5, <2>6, SerialRequestStep
<1> QED  BY <1>3, <1>4

\* What is committed is what the request holds and goes on to write to Redis.
LEMMA SerialCommit ==
    ASSUME TypeInv, SerialInv, NEW r \in Request, Commit(r)
    PROVE  SerialInv'
<1> DEFINE q == request[r]
           current == db[q.svc]
           new == [q EXCEPT !.at = "sync"]
<1>1. q # Idle /\ q \in InFlight /\ q.at = "commit"
  BY AtWhere DEF Commit, At, Where, TypeInv
<1>2. UNCHANGED <<desired, disturbed>> /\ Shape(q) /\ q.op \in Op /\ q.svc \in Service
  BY <1>1, Fields DEF Commit, TypeInv, ShapeInv
<1>3. CASE Refuse(r)
  BY <1>1, <1>2, <1>3, SerialRefuse
<1>4. CASE ~Refuse(r)
  <2>1. PICK row \in Row \cup {Gone} :
            /\ db' = [db EXCEPT ![q.svc] = row]
            /\ Go(r, "sync")
            /\ \/ q.op = "delete" /\ row = Gone
               \/ /\ q.op # "delete" /\ q.seen = Gone /\ current = Gone
                  /\ q.row \in Row /\ row = q.row
               \/ /\ q.op # "delete" /\ q.seen \in Row /\ current \in Row
                  /\ q.row \in Row /\ row = Update(current, q.seen, q.row)
               \/ /\ q.op # "delete" /\ q.seen \in Row /\ current = Gone
                  /\ q.row = q.seen /\ row = Gone
    BY <1>4, CommitSteps
  <2>2. new \in InFlight /\ new.at = "sync" /\ new.svc = q.svc /\ new.row = q.row
    BY <1>1, Moved DEF Where
  <2>3. request' = [request EXCEPT ![r] = new]
    BY <2>1 DEF Go, TypeInv, TypeOK
  <2>4. new # Idle
    BY <2>2, IdleApart
  <2>5. ~Loaded(new)
    BY <1>1, MovedClear DEF Where
  <2>6. db'[q.svc] = row /\ \A s \in Service : s # q.svc => db'[s] = db[s]
    BY <1>2, <2>1 DEF TypeInv, TypeOK
  <2> HIDE DEF new
  <2>7. ASSUME Follows(q, desired[q.svc], current)
        PROVE  row = q.row
    <3>1. q.op # "delete" /\ q.seen # Gone => q.seen = current
      <4>1. q.op \in {"start", "stop", "update"} => q.seen = current
        BY <1>1, <2>7 DEF Follows, Loaded
      <4> QED  BY <1>2, <4>1 DEF Shape, Op
    <3>2. q.op = "delete" => q.row = Gone
      BY <1>2 DEF Shape
    <3>3. CASE q.op # "delete" /\ q.seen \in Row
      <4>1. q.seen = current /\ current \in Row
        BY <3>1, <3>3, Rows
      <4>2. q.row \in Row /\ row = Update(current, current, q.row)
        BY <2>1, <3>3, <4>1, Rows
      <4> QED  BY <4>1, <4>2, UpdateType
    <3> QED  BY <2>1, <3>2, <3>3
  <2>8. Follows(q, desired[q.svc], current) => Follows(new, desired[q.svc], row)
    BY <2>2, <2>5, <2>7 DEF Follows
  <2> QED  BY <1>1, <1>2, <2>2, <2>3, <2>4, <2>6, <2>8, SerialRequestStep
<1> QED  BY <1>3, <1>4

LEMMA SerialSync ==
    ASSUME TypeInv, SerialInv, NEW r \in Request, Sync(r) \/ SyncFails(r)
    PROVE  SerialInv'
<1> DEFINE q == request[r]
<1>1. q # Idle /\ q.at = "sync" /\ q.svc \in Service
  BY AtWhere, AtType DEF Sync, SyncFails, At, Where, TypeInv
<1>2. request' = [request EXCEPT ![r] = Idle] /\ UNCHANGED db
  BY DEF Sync, SyncFails
<1>3. CASE Sync(r)
  <2>1. /\ desired'[q.svc] = q.row /\ UNCHANGED disturbed
        /\ \A s \in Service : s # q.svc => desired'[s] = desired[s]
    BY <1>1, <1>3 DEF Sync, TypeInv, TypeOK
  <2> QED  BY <1>1, <1>2, <2>1, SerialRequestStep DEF Follows
<1>4. CASE SyncFails(r)
  <2>1. /\ disturbed'[q.svc] /\ UNCHANGED desired
        /\ \A s \in Service : s # q.svc => disturbed'[s] = disturbed[s]
    BY <1>1, <1>4 DEF SyncFails, TypeInv, TypeOK
  <2> QED  BY <1>1, <1>2, <2>1, SerialRequestStep
<1> QED  BY <1>3, <1>4

LEMMA SerialSubmit ==
    ASSUME TypeInv, SerialInv, NEW r \in Request, NEW op \in Op, NEW s \in Service,
           NEW row, Submit(r, op, s, row)
    PROVE  SerialInv'
<1> DEFINE new == [at |-> FirstWait(op), op |-> op, svc |-> s, row |-> row, seen |-> Gone]
<1>1. request' = [request EXCEPT ![r] = new] /\ UNCHANGED <<db, desired>> /\ request[r] = Idle
  BY DEF Submit
<1>2. new.svc = s /\ new.at # "sync" /\ ~Loaded(new)
  BY DEF FirstWait, Loaded, Op
<1> HIDE DEF new
<1>3. \A a \in Request : request'[a] = IF a = r THEN new ELSE request[a]
  BY <1>1 DEF TypeInv, TypeOK
<1>4. /\ \A t \in Service : t # s => disturbed'[t] = disturbed[t]
      /\ ~disturbed'[s] => ~disturbed[s] /\ \A a \in Request : ~On(a, s)
  BY DEF Submit, TypeInv, TypeOK, Pending, On
<1>5. ASSUME NEW t \in Service, ~disturbed'[t]
      PROVE  /\ \A a, other \in Request : On(a, t)' /\ On(other, t)' => a = other
             /\ (\A a \in Request : ~On(a, t)') => desired'[t] = db'[t]
             /\ \A a \in Request : On(a, t)' => Follows(request'[a], desired'[t], db'[t])
  <2>1. /\ \A a, other \in Request : On(a, t) /\ On(other, t) => a = other
        /\ (\A a \in Request : ~On(a, t)) => desired[t] = db[t]
        /\ \A a \in Request : On(a, t) => Follows(request[a], desired[t], db[t])
    BY <1>4, <1>5 DEF SerialInv
  <2>2. CASE t = s
    <3>1. \A a \in Request : On(a, t)' => a = r
      BY <1>3, <1>4, <1>5, <2>2 DEF On
    <3>2. desired[t] = db[t]
      BY <1>4, <1>5, <2>1, <2>2
    <3>3. Follows(new, desired'[t], db'[t])
      BY <1>1, <1>2, <3>2 DEF Follows
    <3> QED  BY <1>1, <1>3, <3>1, <3>2, <3>3
  <2>3. CASE t # s
    <3>1. ~On(r, t)'
      BY <1>2, <1>3, <2>3 DEF On
    <3>2. ~On(r, t)
      BY <1>1 DEF On
    <3>3. \A a \in Request \ {r} : On(a, t)' <=> On(a, t)
      BY <1>3 DEF On
    <3> QED  BY <1>1, <1>3, <2>1, <3>1, <3>2, <3>3
  <2> QED  BY <2>2, <2>3
<1> QED  BY <1>5 DEF SerialInv

\* A crash cuts requests off; startup writes what the table holds.
LEMMA SerialRestart ==
    ASSUME TypeInv, SerialInv,
           Crash \/ StartupDone \/ \E s \in Service : StartupSync(s)
    PROVE  SerialInv'
<1>1. CASE StartupDone
  BY <1>1 DEF StartupDone, SerialInv, On
<1>2. CASE Crash
  <2>1. \A a \in Request : \A s : ~On(a, s)'
    BY <1>2 DEF Crash, On
  <2>2. ASSUME NEW s \in Service, ~disturbed'[s]
        PROVE  desired'[s] = db'[s]
    <3>1. ~disturbed[s] /\ (\A a \in Request : ~On(a, s)) /\ UNCHANGED <<db, desired>>
      BY <1>2, <2>2 DEF Crash, Pending, On
    <3> QED  BY <3>1 DEF SerialInv
  <2> QED  BY <2>1, <2>2 DEF SerialInv
<1>3. ASSUME NEW s \in Service, StartupSync(s)
      PROVE  SerialInv'
  <2>1. \A a \in Request : request[a] = Idle
    BY <1>3 DEF StartupSync, TypeInv, ShapeInv
  <2>2. UNCHANGED <<db, request>>
        /\ disturbed' = [disturbed EXCEPT ![s] = Conflicts(s, db[s])]
    BY <1>3 DEF StartupSync
  <2>3. ~Conflicts(s, db[s]) => desired' = [desired EXCEPT ![s] = db[s]]
    BY <1>3 DEF StartupSync
  <2>4. \A a \in Request : \A t : ~On(a, t) /\ ~On(a, t)'
    BY <2>1, <2>2 DEF On
  <2>5. ASSUME NEW t \in Service, ~disturbed'[t]
        PROVE  desired'[t] = db'[t]
    <3>1. CASE t = s
      BY <2>2, <2>3, <2>5, <3>1 DEF TypeInv, TypeOK
    <3>2. CASE t # s
      <4>1. ~disturbed[t] /\ desired'[t] = desired[t]
        BY <1>3, <2>2, <2>5, <3>2 DEF StartupSync, TypeInv, TypeOK
      <4> QED  BY <2>2, <2>4, <4>1 DEF SerialInv
    <3> QED  BY <3>1, <3>2
  <2> QED  BY <2>4, <2>5 DEF SerialInv
<1> QED  BY <1>1, <1>2, <1>3

LEMMA SerialStep ==
    ASSUME TypeInv, SerialInv, [Next]_vars
    PROVE  SerialInv'
<1>1. CASE UNCHANGED vars
  BY <1>1 DEF vars, SerialInv, On
<1>2. ASSUME NEW r \in Request, Create(r) \/ Put(r) \/ Operate(r)
      PROVE  SerialInv'
  <2>1. PICK op \in Op, s \in Service : \E row : Submit(r, op, s, row)
    BY <1>2 DEF Create, Put, Operate, Known, Op, TypeInv, TypeOK
  <2> QED  BY <2>1, SerialSubmit
<1>3. ASSUME NEW r \in Request, Handle(r)
      PROVE  SerialInv'
  BY <1>3, SerialWait, SerialLoad, SerialCommit, SerialSync DEF Handle
<1> QED  BY <1>1, <1>2, <1>3, SerialRestart DEF Next

\* Where a service's requests come one after the other, startup has repaired
\* what was cut off and has found no other service that claims its key, Redis
\* holds the committed config (main.py:230-236, 270-293, 388-478).
THEOREM RedisFollowsDb == Spec => []DesiredFollowsDb
<1> DEFINE Inv == TypeInv /\ SerialInv
<1>1. Inv /\ [Next]_vars => Inv'
  BY TypeStep, SerialStep
<1>2. Init => Inv
  BY InitType DEF Init, SerialInv, On
<1>3. Inv => DesiredFollowsDb
  BY DEF SerialInv, DesiredFollowsDb, AtRest, Pending, On
<1> HIDE DEF Inv
<1> QED  BY <1>1, <1>2, <1>3, PTL DEF Spec
=============================================================================
