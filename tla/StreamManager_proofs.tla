------------------------- MODULE StreamManager_proofs -------------------------
(***************************************************************************)
(* What StreamManager promises for any number of tasks, processes and      *)
(* objects at once, and any number of requests and faults.                 *)
(***************************************************************************)
EXTENDS StreamManager, WellFoundedInduction, TLAPS

Manager ==
    [file : Config \cup {None}, fresh : BOOLEAN,
     service : Object \cup {Nothing}, object : [Object -> State],
     process : Proc \cup {Nothing},
     ffmpeg : [Proc -> {"live", "signalled", "exited"}],
     task : [Task -> Place]]

-----------------------------------------------------------------------------
(* Parts of a manager.                                                     *)

LEMMA LeastIn ==
    ASSUME NEW S \in SUBSET Nat, S # {}
    PROVE  Least(S) \in S
<1> DEFINE less == OpToRel(<, Nat)
<1>1. PICK x \in S : \A y \in S : ~(<<y, x>> \in less)
  <2>1. IsWellFoundedOn(less, Nat)
    BY NatLessThanWellFounded
  <2> HIDE DEF less
  <2>2. S \subseteq Nat
    OBVIOUS
  <2> QED  BY <2>1, <2>2, WFMin
<1>2. less = {pair \in Nat \X Nat : pair[1] < pair[2]}
  BY DEF OpToRel
<1> HIDE DEF less
<1>3. \A y \in S : x <= y
  <2> SUFFICES ASSUME NEW y \in S, ~(x <= y) PROVE <<y, x>> \in less
    BY <1>1
  <2>1. y < x /\ <<y, x>> \in Nat \X Nat
    OBVIOUS
  <2> QED  BY <1>2, <2>1
<1> QED  BY <1>3 DEF Least

LEMMA PlaceParts ==
    ASSUME NEW p \in Place
    PROVE  /\ p.at \in {"idle", "start", "stop", "monitor", "spawn", "stopping", "watch", "pause"}
           /\ p.at = "idle" <=> p = Idle
           /\ p.at \in {"spawn", "watch"} => p.object \in Object
           /\ p.at \in {"stopping", "watch"} => p.proc \in Proc
           /\ p.at = "stopping" => p.after \in After
BY DEF Place, Idle

LEMMA Places ==
    /\ Idle \in Place /\ Idle.at = "idle"
    /\ \A kind \in {"start", "stop", "monitor", "pause"} : [at |-> kind] \in Place
    /\ \A o \in Object : [at |-> "spawn", object |-> o] \in Place
    /\ \A p \in Proc, after \in After :
           [at |-> "stopping", proc |-> p, after |-> after] \in Place
    /\ \A p \in Proc, o \in Object : [at |-> "watch", proc |-> p, object |-> o] \in Place
BY DEF Place, Idle

LEMMA AwaitEffect ==
    ASSUME NEW m \in Manager, NEW t \in Task, NEW where \in Place
    PROVE  LET n == Await(m, t, where)
           IN  /\ n \in Manager
               /\ n.file = m.file /\ n.fresh = m.fresh /\ n.service = m.service
               /\ n.object = m.object /\ n.process = m.process /\ n.ffmpeg = m.ffmpeg
               /\ \A u \in Task : n.task[u] = IF u = t THEN where ELSE m.task[u]
BY DEF Await, Manager

LEMMA StatusEffect ==
    ASSUME NEW m \in Manager, NEW s \in Status
    PROVE  LET n == SetStatus(m, s)
           IN  /\ n \in Manager
               /\ n.file = m.file /\ n.fresh = m.fresh /\ n.service = m.service
               /\ n.task = m.task /\ n.process = m.process /\ n.ffmpeg = m.ffmpeg
               /\ \A o \in Object :
                      /\ n.object[o].config = m.object[o].config
                      /\ n.object[o].status = IF o = m.service THEN s
                                                              ELSE m.object[o].status
<1>1. CASE m.service = Nothing
  BY <1>1 DEF SetStatus, Manager, Object, Nothing
<1>2. CASE m.service # Nothing
  <2>1. m.service \in Object /\ m.object \in [Object -> State]
    BY <1>2 DEF Manager
  <2> DEFINE obj == [m.object EXCEPT ![m.service].status = s]
  <2>2. obj \in [Object -> State]
    BY <2>1 DEF State
  <2>3. \A o \in Object :
            /\ obj[o].config = m.object[o].config
            /\ obj[o].status = IF o = m.service THEN s ELSE m.object[o].status
    BY <2>1 DEF State
  <2>4. SetStatus(m, s) = [m EXCEPT !.object = obj]
    BY <1>2 DEF SetStatus
  <2> HIDE DEF obj
  <2> QED  BY <2>2, <2>3, <2>4 DEF Manager
<1> QED  BY <1>1, <1>2

LEMMA SaveEffect ==
    ASSUME NEW m \in Manager
    PROVE  LET n == Save(m)
           IN  /\ n \in Manager
               /\ n.file = (IF m.service = Nothing THEN None ELSE ConfigOf(m))
               /\ n.fresh = FALSE /\ n.service = m.service
               /\ n.object = m.object /\ n.process = m.process /\ n.ffmpeg = m.ffmpeg
               /\ n.task = m.task
BY DEF Save, Manager, ConfigOf, State

LEMMA UnhookEffect ==
    ASSUME NEW m \in Manager
    PROVE  LET n == Unhook(m)
           IN  /\ n \in Manager
               /\ n.file = m.file /\ n.fresh = m.fresh /\ n.service = m.service
               /\ n.object = m.object /\ n.process = m.process /\ n.ffmpeg = m.ffmpeg
               /\ \A t \in Task :
                      /\ n.task[t].at = m.task[t].at
                      /\ m.task[t].at # "stopping" => n.task[t] = m.task[t]
                      /\ m.task[t].at = "stopping" =>
                             /\ n.task[t].proc = m.task[t].proc
                             /\ n.task[t].after = "drop" <=> m.task[t].after = "drop"
BY DEF Unhook, Manager, Place, Idle, After

-----------------------------------------------------------------------------
(* What holds of a manager between two segments, and what every segment    *)
(* leaves as it was.                                                       *)

IsRunning(m) == m.service # Nothing /\ StatusOf(m) = "running"
SomeMonitor(m) == \E t \in Slot : m.task[t].at = "monitor"

Watched(m) ==
    IsRunning(m) => \E t \in Slot : \/ m.task[t].at = "monitor"
                                    \/ m.task[t].at = "watch" /\ m.task[t].object = m.service

\* A monitor that begins finds a process to watch.
MonitorFinds(m) == IsRunning(m) /\ SomeMonitor(m) => m.process # Nothing

\* The sync loop stops services to remove them, and it alone does.
SyncShape(m) ==
    /\ m.task[Sync] # Idle => m.task[Sync].at = "stopping" /\ m.task[Sync].after = "drop"
    /\ \A t \in Slot : m.task[t].at = "stopping" => m.task[t].after # "drop"

Good(m) == m \in Manager /\ Watched(m) /\ MonitorFinds(m) /\ SyncShape(m)

\* From m to n no service came to run and no monitor came or went.
Tame(m, n) ==
    /\ IsRunning(n) => /\ IsRunning(m) /\ n.service = m.service
                       /\ n.process = m.process \/ ~SomeMonitor(m)
    /\ \A t \in Slot :
           /\ m.task[t].at \in {"monitor", "watch"} => n.task[t] = m.task[t]
           /\ n.task[t].at = "monitor" => m.task[t].at = "monitor"

\* The file, and what the memory says of the service.
Keeps(m, n) ==
    /\ n.file = m.file /\ n.fresh = m.fresh /\ n.service = m.service
    /\ m.service # Nothing => ConfigOf(n) = ConfigOf(m)

Deleted(m, n) ==
    /\ n.service = Nothing
    /\ IF m.service = Nothing THEN n.file = m.file /\ n.fresh = m.fresh
                              ELSE n.file = None /\ n.fresh = FALSE

SyncKeeps(m, n) ==
    /\ SyncShape(m) => SyncShape(n)
    /\ n.task[Sync] = Idle <=> m.task[Sync] = Idle

LEMMA Numbers ==
    /\ Nothing \notin Object /\ Nothing \notin Proc /\ Sync \notin Slot /\ Sync \in Task
    /\ Slot \subseteq Task
BY DEF Nothing, Object, Proc, Sync, Slot, Task

LEMMA TameStays ==
    ASSUME NEW m, NEW n \in Manager, Good(m), Tame(m, n), SyncShape(n)
    PROVE  Good(n)
<1>1. Watched(n)
  BY DEF Good, Watched, Tame
<1>2. MonitorFinds(n)
  BY DEF Good, MonitorFinds, Tame, SomeMonitor
<1> QED  BY <1>1, <1>2 DEF Good

LEMMA Chained ==
    ASSUME NEW m, NEW n, NEW k
    PROVE  /\ Tame(m, n) /\ Tame(n, k) => Tame(m, k)
           /\ Keeps(m, n) /\ Keeps(n, k) => Keeps(m, k)
           /\ SyncKeeps(m, n) /\ SyncKeeps(n, k) => SyncKeeps(m, k)
<1>1. Tame(m, n) /\ Tame(n, k) => Tame(m, k)
  BY DEF Tame, SomeMonitor
<1>2. Keeps(m, n) /\ Keeps(n, k) => Keeps(m, k)
  BY DEF Keeps
<1>3. SyncKeeps(m, n) /\ SyncKeeps(n, k) => SyncKeeps(m, k)
  BY DEF SyncKeeps
<1> QED  BY <1>1, <1>2, <1>3

\* A task goes on to wait for something else.
LEMMA AwaitTame ==
    ASSUME NEW m \in Manager, NEW t \in Task, NEW where \in Place,
           m.task[t].at \notin {"monitor", "watch"}, where.at # "monitor"
    PROVE  LET n == Await(m, t, where)
           IN  /\ n \in Manager /\ Tame(m, n) /\ Keeps(m, n)
               /\ t \in Slot /\ (where.at = "stopping" => where.after # "drop") =>
                      SyncKeeps(m, n)
<1> DEFINE n == Await(m, t, where)
<1>1. /\ n \in Manager
      /\ n.file = m.file /\ n.fresh = m.fresh /\ n.service = m.service
      /\ n.object = m.object /\ n.process = m.process /\ n.ffmpeg = m.ffmpeg
      /\ \A u \in Task : n.task[u] = IF u = t THEN where ELSE m.task[u]
  BY AwaitEffect
<1> HIDE DEF n
<1>2. Tame(m, n)
  BY <1>1, Numbers DEF Tame, IsRunning, StatusOf
<1>3. Keeps(m, n)
  BY <1>1 DEF Keeps, ConfigOf
<1>4. t \in Slot /\ (where.at = "stopping" => where.after # "drop") => SyncKeeps(m, n)
  BY <1>1, Numbers DEF SyncKeeps, SyncShape
<1> QED  BY <1>1, <1>2, <1>3, <1>4 DEF n

LEMMA StatusTame ==
    ASSUME NEW m \in Manager, NEW s \in Status \ {"running"}
    PROVE  LET n == SetStatus(m, s)
           IN  n \in Manager /\ Tame(m, n) /\ Keeps(m, n) /\ SyncKeeps(m, n)
               /\ n.task = m.task /\ n.process = m.process /\ n.ffmpeg = m.ffmpeg
               /\ ~IsRunning(n)
<1> DEFINE n == SetStatus(m, s)
<1>1. /\ n \in Manager
      /\ n.file = m.file /\ n.fresh = m.fresh /\ n.service = m.service
      /\ n.task = m.task /\ n.process = m.process /\ n.ffmpeg = m.ffmpeg
      /\ \A o \in Object :
             /\ n.object[o].config = m.object[o].config
             /\ n.object[o].status = IF o = m.service THEN s ELSE m.object[o].status
  BY StatusEffect
<1> HIDE DEF n
<1>2. m.service # Nothing => m.service \in Object
  BY DEF Manager
<1>3. ~IsRunning(n)
  BY <1>1, <1>2 DEF IsRunning, StatusOf
<1>4. Tame(m, n)
  BY <1>1, <1>3 DEF Tame
<1>5. Keeps(m, n)
  BY <1>1, <1>2 DEF Keeps, ConfigOf
<1>6. SyncKeeps(m, n)
  BY <1>1 DEF SyncKeeps, SyncShape
<1> QED  BY <1>1, <1>3, <1>4, <1>5, <1>6 DEF n

\* start_service gets a service to "starting" and never to "running".
LEMMA StartTame ==
    ASSUME NEW m \in Manager, NEW t \in Slot, NEW b \in BOOLEAN,
           m.task[t].at \notin {"monitor", "watch"}
    PROVE  LET n == StartService(m, t, b)
           IN  n \in Manager /\ Tame(m, n) /\ Keeps(m, n) /\ SyncKeeps(m, n)
<1> DEFINE n == StartService(m, t, b)
           s == SetStatus(m, "starting")
           where == IF b THEN [at |-> "spawn", object |-> m.service] ELSE Idle
<1>1. t \in Task
  BY Numbers
<1>2. CASE m.service = Nothing \/ Alive(m)
  <2>1. n = Await(m, t, Idle)
    BY <1>2 DEF StartService, Finish
  <2> QED  BY <1>1, <2>1, AwaitTame, Places
<1>3. CASE ~(m.service = Nothing \/ Alive(m))
  <2>1. n = Await(s, t, where)
    BY <1>3 DEF StartService
  <2>2. m.service \in Object
    BY <1>3 DEF Manager
  <2>3. where \in Place /\ where.at \notin {"monitor", "stopping"}
    BY <2>2, Places
  <2>4. s \in Manager /\ Tame(m, s) /\ Keeps(m, s) /\ SyncKeeps(m, s) /\ s.task = m.task
    BY StatusTame DEF Status
  <2> HIDE DEF s, where
  <2>5. LET k == Await(s, t, where)
        IN  k \in Manager /\ Tame(s, k) /\ Keeps(s, k) /\ SyncKeeps(s, k)
    BY <1>1, <2>3, <2>4, AwaitTame
  <2> HIDE DEF n
  <2> QED  BY <2>1, <2>4, <2>5, Chained DEF n
<1> QED  BY <1>2, <1>3

\* A manager whose tasks are those of another, but for what a PUT waits to do.
LEMMA UnhookTame ==
    ASSUME NEW m \in Manager
    PROVE  LET n == Unhook(m)
           IN  n \in Manager /\ Tame(m, n) /\ Keeps(m, n) /\ SyncKeeps(m, n)
               /\ n.object = m.object
<1> DEFINE n == Unhook(m)
<1>1. /\ n \in Manager
      /\ n.file = m.file /\ n.fresh = m.fresh /\ n.service = m.service
      /\ n.object = m.object /\ n.process = m.process /\ n.ffmpeg = m.ffmpeg
      /\ \A t \in Task :
             /\ n.task[t].at = m.task[t].at
             /\ m.task[t].at # "stopping" => n.task[t] = m.task[t]
             /\ m.task[t].at = "stopping" =>
                    /\ n.task[t].proc = m.task[t].proc
                    /\ n.task[t].after = "drop" <=> m.task[t].after = "drop"
  BY UnhookEffect
<1> HIDE DEF n
<1>2. Tame(m, n)
  BY <1>1, Numbers DEF Tame, IsRunning, StatusOf
<1>3. Keeps(m, n)
  BY <1>1 DEF Keeps, ConfigOf
<1>4. n.task[Sync] = Idle <=> m.task[Sync] = Idle
  <2>1. n.task[Sync] \in Place /\ m.task[Sync] \in Place
    BY <1>1, Numbers DEF Manager
  <2> QED  BY <1>1, <2>1, Numbers, PlaceParts
<1>5. SyncKeeps(m, n)
  BY <1>1, <1>4, Numbers DEF SyncKeeps, SyncShape, Idle
<1> QED  BY <1>1, <1>2, <1>3, <1>5 DEF n

LEMMA RemoveTame ==
    ASSUME NEW m \in Manager
    PROVE  LET n == RemoveService(m)
           IN  /\ n \in Manager /\ Tame(m, n) /\ SyncKeeps(m, n)
               /\ n.service = Nothing /\ n.file = m.file /\ n.fresh = m.fresh
<1> DEFINE n == RemoveService(m)
           u == Unhook(m)
<1>1. CASE m.service = Nothing
  BY <1>1 DEF RemoveService, Tame, SyncKeeps
<1>2. CASE m.service # Nothing
  <2>1. u \in Manager /\ Tame(m, u) /\ Keeps(m, u) /\ SyncKeeps(m, u)
    BY UnhookTame
  <2>2. n = [u EXCEPT !.service = Nothing]
    BY <1>2 DEF RemoveService
  <2> HIDE DEF u, n
  <2>3. /\ n \in Manager /\ n.service = Nothing /\ n.task = u.task
        /\ n.file = u.file /\ n.fresh = u.fresh
    BY <2>1, <2>2 DEF Manager
  <2>4. Tame(u, n) /\ SyncKeeps(u, n)
    BY <2>3 DEF Tame, IsRunning, SyncKeeps, SyncShape
  <2>5. n.file = m.file /\ n.fresh = m.fresh
    BY <2>1, <2>3 DEF Keeps
  <2> QED  BY <2>1, <2>3, <2>4, <2>5, Chained DEF n
<1> QED  BY <1>1, <1>2

LEMMA SaveTame ==
    ASSUME NEW m \in Manager
    PROVE  LET n == Save(m)
           IN  /\ n \in Manager /\ Tame(m, n) /\ SyncKeeps(m, n)
               /\ n.service = m.service /\ n.fresh = FALSE /\ n.task = m.task
               /\ m.service # Nothing => ConfigOf(n) = ConfigOf(m)
               /\ n.file = IF n.service = Nothing THEN None ELSE ConfigOf(n)
<1> DEFINE n == Save(m)
<1>1. /\ n \in Manager
      /\ n.file = (IF m.service = Nothing THEN None ELSE ConfigOf(m))
      /\ n.fresh = FALSE /\ n.service = m.service
      /\ n.object = m.object /\ n.process = m.process /\ n.ffmpeg = m.ffmpeg
      /\ n.task = m.task
  BY SaveEffect
<1> HIDE DEF n
<1>2. Tame(m, n)
  BY <1>1 DEF Tame, IsRunning, StatusOf
<1>3. SyncKeeps(m, n)
  BY <1>1 DEF SyncKeeps, SyncShape
<1>4. ConfigOf(n) = ConfigOf(m)
  BY <1>1 DEF ConfigOf
<1> QED  BY <1>1, <1>2, <1>3, <1>4 DEF n

LEMMA DeleteTame ==
    ASSUME NEW m \in Manager
    PROVE  LET n == DeleteService(m)
           IN  n \in Manager /\ Tame(m, n) /\ SyncKeeps(m, n) /\ Deleted(m, n)
<1> DEFINE n == DeleteService(m)
           k == RemoveService(m)
<1>1. CASE m.service = Nothing
  BY <1>1 DEF DeleteService, Tame, SyncKeeps, Deleted
<1>2. CASE m.service # Nothing
  <2>1. n = Save(k)
    BY <1>2 DEF DeleteService
  <2>2. k \in Manager /\ Tame(m, k) /\ SyncKeeps(m, k) /\ k.service = Nothing
    BY RemoveTame
  <2> HIDE DEF k
  <2>3. LET s == Save(k)
        IN  /\ s \in Manager /\ Tame(k, s) /\ SyncKeeps(k, s)
            /\ s.service = Nothing /\ s.fresh = FALSE /\ s.file = None
    BY <2>2, SaveTame
  <2> HIDE DEF n
  <2> QED  BY <1>2, <2>1, <2>2, <2>3, Chained DEF Deleted, n
<1> QED  BY <1>1, <1>2

\* The entry of a process goes, and with it the task that stopped it.
LEMMA ClearTame ==
    ASSUME NEW m \in Manager, NEW t \in Task,
           m.task[t].at \notin {"monitor", "watch"}, ~IsRunning(m) \/ ~SomeMonitor(m)
    PROVE  LET n == Finish([m EXCEPT !.process = Nothing], t)
           IN  /\ n \in Manager /\ Tame(m, n) /\ Keeps(m, n)
               /\ n.task[t] = Idle /\ n.service = m.service
               /\ t \in Slot => SyncKeeps(m, n)
               /\ SyncShape(m) => SyncShape(n)
<1> DEFINE k == [m EXCEPT !.process = Nothing]
           n == Await(k, t, Idle)
<1>1. /\ k \in Manager /\ k.task = m.task /\ k.service = m.service /\ k.object = m.object
      /\ k.file = m.file /\ k.fresh = m.fresh
  BY DEF Manager
<1>2. Tame(m, k) /\ Keeps(m, k) /\ SyncKeeps(m, k)
  BY <1>1 DEF Tame, Keeps, SyncKeeps, SyncShape, IsRunning, StatusOf, ConfigOf
<1> HIDE DEF k
<1>3. n \in Manager /\ Tame(k, n) /\ Keeps(k, n) /\ (t \in Slot => SyncKeeps(k, n))
  BY <1>1, AwaitTame, Places
<1>4. \A u \in Task : n.task[u] = IF u = t THEN Idle ELSE k.task[u]
  <2>1. Idle \in Place
    BY Places
  <2> HIDE DEF n
  <2>2. LET w == Await(k, t, Idle)
        IN  \A u \in Task : w.task[u] = IF u = t THEN Idle ELSE k.task[u]
    BY <1>1, <2>1, AwaitEffect
  <2> QED  BY <2>2 DEF n
<1>5. SyncShape(m) => SyncShape(n)
  BY <1>1, <1>4, Numbers, Places DEF SyncShape
<1> HIDE DEF n
<1>6. /\ n \in Manager /\ Tame(m, n) /\ Keeps(m, n)
      /\ n.task[t] = Idle /\ n.service = m.service
      /\ t \in Slot => SyncKeeps(m, n)
  BY <1>1, <1>2, <1>3, <1>4, Chained DEF Keeps
<1> QED  BY <1>5, <1>6 DEF Finish, n, k

\* What follows a stop in a request's task or in a stop task.
LEMMA StopReturnsTame ==
    ASSUME NEW m \in Manager, NEW t \in Slot, NEW after \in After \ {"drop"},
           NEW b \in BOOLEAN,
           m.task[t].at \notin {"monitor", "watch"}, ~IsRunning(m) \/ ~SomeMonitor(m)
    PROVE  LET n == StopReturns(m, t, after, b)
           IN  /\ n \in Manager /\ Tame(m, n) /\ SyncKeeps(m, n)
               /\ after # "delete" => Keeps(m, n)
               /\ after = "delete" => Deleted(m, n)
<1> DEFINE k == Finish([m EXCEPT !.process = Nothing], t)
<1>1. /\ k \in Manager /\ Tame(m, k) /\ Keeps(m, k) /\ SyncKeeps(m, k)
      /\ k.task[t] = Idle /\ k.service = m.service
  BY ClearTame, Numbers
<1>2. \A where \in {"monitor", "watch"} : Idle.at # where
  BY DEF Idle
<1>3. LET n == StartService(k, t, b)
      IN  n \in Manager /\ Tame(m, n) /\ Keeps(m, n) /\ SyncKeeps(m, n)
  <2> HIDE DEF k
  <2>1. LET n == StartService(k, t, b)
        IN  n \in Manager /\ Tame(k, n) /\ Keeps(k, n) /\ SyncKeeps(k, n)
    BY <1>1, <1>2, StartTame
  <2> QED  BY <1>1, <2>1, Chained
<1>4. CASE after \in {"end", "start", "restart"}
  <2>1. StopReturns(m, t, after, b) \in {k, StartService(k, t, b)}
    BY <1>4 DEF StopReturns
  <2> HIDE DEF k
  <2> QED  BY <1>1, <1>3, <1>4, <2>1
<1>5. CASE after = "delete"
  <2>1. StopReturns(m, t, after, b) = DeleteService(k)
    BY <1>5 DEF StopReturns
  <2> HIDE DEF k
  <2>2. LET n == DeleteService(k)
        IN  n \in Manager /\ Tame(k, n) /\ SyncKeeps(k, n) /\ Deleted(k, n)
    BY <1>1, DeleteTame
  <2>3. Deleted(m, DeleteService(k))
    BY <1>1, <2>2 DEF Deleted, Keeps
  <2> QED  BY <1>1, <1>5, <2>1, <2>2, <2>3, Chained
<1>6. after \in {"end", "restart", "start", "delete"}
  BY DEF After
<1> QED  BY <1>4, <1>5, <1>6

LEMMA SignalledTame ==
    ASSUME NEW m \in Manager, NEW p \in Proc
    PROVE  LET n == [m EXCEPT !.ffmpeg[p] = "signalled"]
           IN  /\ n \in Manager /\ Tame(m, n) /\ Keeps(m, n) /\ SyncKeeps(m, n)
               /\ n.task = m.task
<1> DEFINE n == [m EXCEPT !.ffmpeg[p] = "signalled"]
<1>1. /\ n \in Manager /\ n.task = m.task /\ n.service = m.service /\ n.object = m.object
      /\ n.file = m.file /\ n.fresh = m.fresh /\ n.process = m.process
  BY DEF Manager
<1> HIDE DEF n
<1>2. Tame(m, n) /\ Keeps(m, n) /\ SyncKeeps(m, n)
  BY <1>1 DEF Tame, Keeps, SyncKeeps, SyncShape, IsRunning, StatusOf, ConfigOf
<1> QED  BY <1>1, <1>2 DEF n

\* stop_service, on behalf of a request or of a stop task.
LEMMA StopTame ==
    ASSUME NEW m \in Manager, NEW t \in Slot, NEW after \in After \ {"drop"},
           NEW b \in BOOLEAN, m.task[t].at \notin {"monitor", "watch"}
    PROVE  LET n == StopService(m, t, after, b)
           IN  /\ n \in Manager /\ Tame(m, n) /\ SyncKeeps(m, n)
               /\ after # "delete" => Keeps(m, n)
               /\ after = "delete" => Keeps(m, n) \/ Deleted(m, n)
<1> DEFINE s == SetStatus(m, "stopped")
           n == StopService(m, t, after, b)
<1>1. /\ s \in Manager /\ Tame(m, s) /\ Keeps(m, s) /\ SyncKeeps(m, s)
      /\ s.task = m.task /\ s.process = m.process /\ ~IsRunning(s)
  BY StatusTame DEF Status
<1>2. CASE Alive(m)
  <2> DEFINE p == m.process
             k == [s EXCEPT !.ffmpeg[p] = "signalled"]
             where == [at |-> "stopping", proc |-> p, after |-> after]
  <2>1. n = Await(k, t, where)
    BY <1>2 DEF StopService
  <2>2. p \in Proc
    BY <1>2 DEF Alive, Manager
  <2>3. where \in Place /\ where.at = "stopping" /\ where.after # "drop"
    BY <2>2, Places
  <2> HIDE DEF s, p, where
  <2>4. k \in Manager /\ Tame(s, k) /\ Keeps(s, k) /\ SyncKeeps(s, k) /\ k.task = s.task
    BY <1>1, <2>2, SignalledTame
  <2> HIDE DEF k
  <2>5. LET r == Await(k, t, where)
        IN  r \in Manager /\ Tame(k, r) /\ Keeps(k, r) /\ SyncKeeps(k, r)
    BY <1>1, <2>3, <2>4, AwaitTame, Numbers
  <2> HIDE DEF n
  <2>6. n \in Manager /\ Tame(m, n) /\ SyncKeeps(m, n) /\ Keeps(m, n)
    BY <1>1, <2>1, <2>4, <2>5, Chained
  <2> QED  BY <2>6 DEF n
<1>3. CASE ~Alive(m)
  <2>1. n = StopReturns(s, t, after, b)
    BY <1>3 DEF StopService
  <2> HIDE DEF s
  <2>2. LET r == StopReturns(s, t, after, b)
        IN  /\ r \in Manager /\ Tame(s, r) /\ SyncKeeps(s, r)
            /\ after # "delete" => Keeps(s, r)
            /\ after = "delete" => Deleted(s, r)
    BY <1>1, StopReturnsTame
  <2>3. Deleted(s, n) => Deleted(m, n)
    BY <1>1 DEF Deleted, Keeps
  <2> HIDE DEF n
  <2> QED  BY <1>1, <2>1, <2>2, <2>3, Chained DEF n
<1> QED  BY <1>2, <1>3

-----------------------------------------------------------------------------
(* The remaining segments.                                                 *)

Matches(m) == m.file = IF m.service = Nothing THEN None ELSE ConfigOf(m)

LEMMA FreeSlotIs ==
    ASSUME NEW m, FreeSlots(m) # {}
    PROVE  FreeSlot(m) \in Slot /\ FreeSlot(m) \in Task /\ m.task[FreeSlot(m)] = Idle
<1>1. FreeSlots(m) \in SUBSET Nat /\ FreeSlots(m) \subseteq Slot
  BY DEF FreeSlots, Slot
<1>2. FreeSlot(m) \in FreeSlots(m)
  BY <1>1, LeastIn DEF FreeSlot
<1> QED  BY <1>2, Numbers DEF FreeSlots

LEMMA FreeObjectIs ==
    ASSUME NEW m, FreeObjects(m) # {}
    PROVE  Least(FreeObjects(m)) \in Object
<1>1. FreeObjects(m) \in SUBSET Nat /\ FreeObjects(m) \subseteq Object
  BY DEF FreeObjects, Object
<1> QED  BY <1>1, LeastIn

LEMMA FreeProcIs ==
    ASSUME NEW m, FreeProcs(m) # {}
    PROVE  Least(FreeProcs(m)) \in Proc
<1>1. FreeProcs(m) \in SUBSET Nat /\ FreeProcs(m) \subseteq Proc
  BY DEF FreeProcs, Proc
<1> QED  BY <1>1, LeastIn

LEMMA NewStates ==
    /\ \A c \in Config : NewState(c) \in State /\ NewState(c).config = c
                         /\ NewState(c).status = "stopped"
    /\ Blank \in State
BY DEF NewState, Blank, State, Status, Config

LEMMA CreateTame ==
    ASSUME NEW m \in Manager, FreeSlots(m) # {}, NEW kind \in {"start", "stop"}
    PROVE  LET n == Create(m, kind)
           IN  n \in Manager /\ Tame(m, n) /\ Keeps(m, n) /\ SyncKeeps(m, n)
<1> DEFINE t == FreeSlot(m)
           where == [at |-> kind]
<1>1. t \in Slot /\ t \in Task /\ m.task[t] = Idle
  BY FreeSlotIs
<1>2. m.task[t].at \notin {"monitor", "watch"}
  BY <1>1, Places
<1>3. where \in Place /\ where.at \notin {"monitor", "stopping"}
  BY Places
<1> HIDE DEF t, where
<1>4. LET n == Await(m, t, where)
      IN  n \in Manager /\ Tame(m, n) /\ Keeps(m, n) /\ SyncKeeps(m, n)
  BY <1>1, <1>2, <1>3, AwaitTame
<1> QED  BY <1>4 DEF Create, t, where

LEMMA OrchestrateTame ==
    ASSUME NEW m \in Manager, FreeSlots(m) # {}
    PROVE  LET n == Orchestrate(m)
           IN  n \in Manager /\ Tame(m, n) /\ Keeps(m, n) /\ SyncKeeps(m, n)
<1>1. Orchestrate(m) \in {m, Create(m, "start"), Create(m, "stop")}
  BY DEF Orchestrate
<1>2. Tame(m, m) /\ Keeps(m, m) /\ SyncKeeps(m, m)
  BY DEF Tame, Keeps, SyncKeeps
<1> QED  BY <1>1, <1>2, CreateTame

LEMMA ConfigTame ==
    ASSUME NEW m \in Manager, m.service # Nothing, NEW c \in Config
    PROVE  LET n == SetConfig(m, c)
           IN  /\ n \in Manager /\ Tame(m, n) /\ SyncKeeps(m, n)
               /\ n.service = m.service /\ ConfigOf(n) = c
               /\ n.file = m.file /\ n.fresh = m.fresh
               /\ \A t \in Task : m.task[t] = Idle => n.task[t] = Idle
<1> DEFINE u == Unhook(m)
           n == [u EXCEPT !.object[m.service].config = c]
           obj == [m.object EXCEPT ![m.service].config = c]
<1>1. /\ u \in Manager /\ Tame(m, u) /\ Keeps(m, u) /\ SyncKeeps(m, u)
      /\ u.object = m.object
  BY UnhookTame
<1>2. \A t \in Task : m.task[t].at # "stopping" => u.task[t] = m.task[t]
  BY UnhookEffect
<1>3. m.service \in Object /\ m.object \in [Object -> State]
  BY DEF Manager
<1>4. obj \in [Object -> State]
  BY <1>3 DEF State
<1>5. \A o \in Object : /\ obj[o].status = m.object[o].status
                        /\ o = m.service => obj[o].config = c
  BY <1>3 DEF State
<1> HIDE DEF u
<1>6. n = [u EXCEPT !.object = obj]
  BY <1>1
<1> HIDE DEF n, obj
<1>7. /\ n \in Manager /\ n.object = obj /\ n.file = u.file /\ n.fresh = u.fresh
      /\ n.service = u.service /\ n.task = u.task /\ n.process = u.process
  BY <1>1, <1>4, <1>6 DEF Manager
<1>8. u.service = m.service /\ u.file = m.file /\ u.fresh = m.fresh
  BY <1>1 DEF Keeps
<1>9. Tame(u, n)
  BY <1>1, <1>3, <1>5, <1>7, <1>8 DEF Tame, IsRunning, StatusOf
<1>10. SyncKeeps(u, n)
  BY <1>7 DEF SyncKeeps, SyncShape
<1>11. ConfigOf(n) = c
  BY <1>3, <1>5, <1>7, <1>8 DEF ConfigOf
<1>12. \A t \in Task : m.task[t] = Idle => n.task[t] = Idle
  BY <1>2, <1>7, Places
<1>13. Tame(m, n) /\ SyncKeeps(m, n)
  BY <1>1, <1>9, <1>10, Chained
<1> QED  BY <1>7, <1>8, <1>11, <1>12, <1>13 DEF SetConfig, n, u

LEMMA EnableTame ==
    ASSUME NEW m \in Manager, m.service # Nothing, NEW e \in BOOLEAN
    PROVE  LET n == [m EXCEPT !.object[m.service].config.enabled = e]
           IN  /\ n \in Manager /\ Tame(m, n) /\ SyncKeeps(m, n)
               /\ n.service = m.service /\ n.task = m.task
<1> DEFINE obj == [m.object EXCEPT ![m.service].config.enabled = e]
           n == [m EXCEPT !.object = obj]
<1>1. m.service \in Object /\ m.object \in [Object -> State]
  BY DEF Manager
<1>2. obj \in [Object -> State]
  BY <1>1 DEF State, Config
<1>3. \A o \in Object : obj[o].status = m.object[o].status
  BY <1>1 DEF State
<1> HIDE DEF obj
<1>4. /\ n \in Manager /\ n.object = obj /\ n.service = m.service /\ n.task = m.task
      /\ n.process = m.process
  BY <1>2 DEF Manager
<1> HIDE DEF n
<1>5. Tame(m, n)
  BY <1>1, <1>3, <1>4 DEF Tame, IsRunning, StatusOf
<1>6. SyncKeeps(m, n)
  BY <1>4 DEF SyncKeeps, SyncShape
<1> QED  BY <1>4, <1>5, <1>6 DEF n, obj

LEMMA AddTame ==
    ASSUME NEW m \in Manager, FreeObjects(m) # {}, NEW c \in Config
    PROVE  LET n == AddService(m, c)
           IN  /\ n \in Manager /\ Tame(m, n) /\ SyncKeeps(m, n) /\ ~IsRunning(n)
               /\ n.service # Nothing /\ ConfigOf(n) = c
               /\ n.file = m.file /\ n.fresh = m.fresh /\ n.task = m.task
<1> DEFINE o == Least(FreeObjects(m))
           n == [m EXCEPT !.service = o, !.object[o] = NewState(c)]
<1>1. o \in Object
  BY FreeObjectIs
<1> HIDE DEF o
<1>2. /\ n \in Manager /\ n.service = o /\ n.object[o] = NewState(c)
      /\ n.file = m.file /\ n.fresh = m.fresh /\ n.task = m.task
  BY <1>1, NewStates DEF Manager
<1>3. AddService(m, c) = n
  BY DEF AddService, o
<1> HIDE DEF n
<1>4. ~IsRunning(n) /\ ConfigOf(n) = c /\ n.service # Nothing
  BY <1>1, <1>2, NewStates, Numbers DEF IsRunning, StatusOf, ConfigOf
<1>5. Tame(m, n) /\ SyncKeeps(m, n)
  BY <1>2, <1>4 DEF Tame, SyncKeeps, SyncShape
<1> QED  BY <1>2, <1>3, <1>4, <1>5

LEMMA StepTame ==
    ASSUME NEW m \in Manager, Step(m)
    PROVE  /\ sm' \in Manager /\ sm'.task = m.task /\ Tame(m, sm') /\ Keeps(m, sm')
           /\ SyncKeeps(m, sm')
           /\ m.service # Nothing => sm'.object[m.service] = m.object[m.service]
<1> DEFINE obj == [o \in Object |-> IF Refers(m, o) THEN m.object[o] ELSE Blank]
           n == [m EXCEPT !.object = obj]
<1>1. obj \in [Object -> State]
  BY NewStates DEF Manager
<1>2. m.service \in Object => obj[m.service] = m.object[m.service]
  BY DEF Refers
<1>3. m.service # Nothing => m.service \in Object
  BY DEF Manager
<1> HIDE DEF obj
<1>4. /\ n \in Manager /\ n.object = obj /\ n.service = m.service /\ n.task = m.task
      /\ n.process = m.process /\ n.file = m.file /\ n.fresh = m.fresh
  BY <1>1 DEF Manager
<1>5. sm' = n
  BY DEF Step, obj
<1> HIDE DEF n
<1>6. Tame(m, n) /\ Keeps(m, n) /\ SyncKeeps(m, n)
  BY <1>2, <1>3, <1>4 DEF Tame, Keeps, SyncKeeps, SyncShape, IsRunning, StatusOf, ConfigOf
<1> QED  BY <1>2, <1>3, <1>4, <1>5, <1>6

-----------------------------------------------------------------------------
(* The invariant.                                                          *)

\* What is in memory is in the file, unless the file has news or the sync loop
\* is removing what the file no longer has.
MemoryOf(m, miss) ==
    m.fresh = FALSE /\ miss = FALSE =>
        IF m.task[Sync] = Idle THEN Matches(m) ELSE m.file = None

Inv ==
    /\ Good(sm) /\ MemoryOf(sm, missed)
    /\ missed \in BOOLEAN /\ events \in 0..MaxEvents /\ faults \in 0..MaxFaults

LEMMA MemoryStays ==
    ASSUME NEW m, NEW n, NEW miss, SyncKeeps(m, n)
    PROVE  /\ MemoryOf(m, miss) /\ (Keeps(m, n) \/ Deleted(m, n)) => MemoryOf(n, miss)
           /\ Keeps(m, n) /\ Matches(m) => Matches(n)
           /\ Matches(m) /\ (m.task[Sync] # Idle => miss = TRUE) => MemoryOf(m, miss)
<1>1. Keeps(m, n) /\ Matches(m) => Matches(n)
  BY DEF Keeps, Matches
<1>2. MemoryOf(m, miss) /\ Keeps(m, n) => MemoryOf(n, miss)
  BY <1>1 DEF MemoryOf, Keeps, SyncKeeps
<1>3. MemoryOf(m, miss) /\ Deleted(m, n) => MemoryOf(n, miss)
  BY DEF MemoryOf, Deleted, Matches, SyncKeeps
<1>4. Matches(m) /\ (m.task[Sync] # Idle => miss = TRUE) => MemoryOf(m, miss)
  BY DEF MemoryOf
<1> QED  BY <1>1, <1>2, <1>3, <1>4

\* One segment, after which what nothing refers to is forgotten.
LEMMA Segment ==
    ASSUME Inv, NEW n \in Manager, Tame(sm, n), SyncShape(n), MemoryOf(n, missed'), Step(n)
    PROVE  Good(sm') /\ MemoryOf(sm', missed')
<1>1. /\ sm' \in Manager /\ Tame(n, sm') /\ Keeps(n, sm') /\ SyncKeeps(n, sm')
  BY StepTame
<1>2. Tame(sm, sm')
  BY <1>1, Chained
<1>3. SyncShape(sm')
  BY <1>1 DEF SyncKeeps
<1>4. Good(sm')
  BY <1>1, <1>2, <1>3, TameStays DEF Inv
<1> QED  BY <1>1, <1>4, MemoryStays

\* A segment of a task that saves nothing, or deletes.
LEMMA QuietSegment ==
    ASSUME Inv, NEW n \in Manager, Tame(sm, n), SyncKeeps(sm, n),
           Keeps(sm, n) \/ Deleted(sm, n), Step(n), UNCHANGED missed
    PROVE  Good(sm') /\ MemoryOf(sm', missed')
<1>1. SyncShape(n)
  BY DEF Inv, Good, SyncKeeps
<1>2. MemoryOf(n, missed')
  BY MemoryStays DEF Inv
<1> QED  BY <1>1, <1>2, Segment

\* A request that saves, and goes on with n.
LEMMA SavedSegment ==
    ASSUME Inv, NEW k \in Manager, NEW n \in Manager, Tame(sm, k), SyncKeeps(sm, k),
           LET saved == Save(k) IN Tame(saved, n) /\ SyncKeeps(saved, n) /\ Keeps(saved, n),
           Step(n), Saves
    PROVE  Good(sm') /\ MemoryOf(sm', missed')
<1> DEFINE saved == Save(k)
<1>1. /\ saved \in Manager /\ Tame(k, saved) /\ SyncKeeps(k, saved)
      /\ saved.file = IF saved.service = Nothing THEN None ELSE ConfigOf(saved)
  BY SaveTame
<1>2. Tame(saved, n) /\ SyncKeeps(saved, n) /\ Keeps(saved, n)
  OBVIOUS
<1> HIDE DEF saved
<1>3. Tame(sm, n) /\ SyncKeeps(sm, n)
  BY <1>1, <1>2, Chained
<1>4. Matches(saved)
  BY <1>1 DEF Matches
<1>5. Matches(n)
  BY <1>2, <1>4, MemoryStays
<1>6. n.task[Sync] # Idle => missed' = TRUE
  BY <1>3 DEF Saves, SyncKeeps
<1>7. MemoryOf(n, missed')
  BY <1>3, <1>5, <1>6 DEF MemoryOf
<1>8. SyncShape(n)
  BY <1>3 DEF Inv, Good, SyncKeeps
<1> QED  BY <1>3, <1>7, <1>8, Segment

-----------------------------------------------------------------------------
(* The actions.                                                            *)

LEMMA Reflexive ==
    ASSUME NEW m
    PROVE  Tame(m, m) /\ Keeps(m, m) /\ SyncKeeps(m, m)
BY DEF Tame, Keeps, SyncKeeps

LEMMA PostGood ==
    ASSUME Inv, PostService
    PROVE  Good(sm') /\ MemoryOf(sm', missed')
<1>1. PICK c \in Config : Step(Save(AddService(sm, c)))
  BY DEF PostService
<1> DEFINE k == AddService(sm, c)
           n == Save(k)
<1>2. k \in Manager /\ Tame(sm, k) /\ SyncKeeps(sm, k)
  BY AddTame DEF PostService, Inv, Good
<1> HIDE DEF k
<1>3. n \in Manager
  BY <1>2, SaveTame
<1>4. Step(n) /\ Saves
  BY <1>1 DEF PostService, k
<1> QED  BY <1>2, <1>3, <1>4, SavedSegment, Reflexive

\* A request's task is a free slot in the manager it saves.
LEMMA RequestSlot ==
    ASSUME Inv, FreeSlots(sm) # {}, NEW k \in Manager,
           \A t \in Task : sm.task[t] = Idle => k.task[t] = Idle
    PROVE  /\ FreeSlot(sm) \in Slot
           /\ Save(k).task[FreeSlot(sm)].at \notin {"monitor", "watch"}
<1>1. FreeSlot(sm) \in Slot /\ FreeSlot(sm) \in Task /\ sm.task[FreeSlot(sm)] = Idle
  BY FreeSlotIs
<1>2. Save(k).task = k.task
  BY SaveTame
<1> QED  BY <1>1, <1>2, Places

LEMMA PutGood ==
    ASSUME Inv, PutService
    PROVE  Good(sm') /\ MemoryOf(sm', missed')
<1>1. PICK c \in Config, b \in BOOLEAN :
          Step(StopService(Save(SetConfig(sm, c)), FreeSlot(sm), "restart", b))
  BY DEF PutService, MayFail
<1> DEFINE k == SetConfig(sm, c)
           saved == Save(k)
           t == FreeSlot(sm)
           n == StopService(saved, t, "restart", b)
<1>2. /\ k \in Manager /\ Tame(sm, k) /\ SyncKeeps(sm, k)
      /\ \A u \in Task : sm.task[u] = Idle => k.task[u] = Idle
  BY ConfigTame DEF PutService, Inv, Good
<1> HIDE DEF k
<1>3. t \in Slot /\ saved.task[t].at \notin {"monitor", "watch"}
  BY <1>2, RequestSlot DEF PutService, Request
<1>4. saved \in Manager
  BY <1>2, SaveTame
<1> HIDE DEF saved, t
<1>5. "restart" \in After \ {"drop"}
  BY DEF After
<1>6. n \in Manager /\ Tame(saved, n) /\ SyncKeeps(saved, n) /\ Keeps(saved, n)
  BY <1>3, <1>4, <1>5, StopTame
<1>7. Step(n) /\ Saves
  BY <1>1 DEF PutService, k, saved, t
<1> HIDE DEF n
<1> QED  BY <1>2, <1>6, <1>7, SavedSegment DEF saved

LEMMA DeleteGood ==
    ASSUME Inv, DeleteRequest
    PROVE  Good(sm') /\ MemoryOf(sm', missed')
<1> DEFINE t == FreeSlot(sm)
           n == StopService(sm, t, "delete", TRUE)
<1>1. t \in Slot /\ sm.task[t].at \notin {"monitor", "watch"}
  BY FreeSlotIs, Places DEF DeleteRequest, Request
<1> HIDE DEF t
<1>2. "delete" \in After \ {"drop"} /\ TRUE \in BOOLEAN
  BY DEF After
<1>3. n \in Manager /\ Tame(sm, n) /\ SyncKeeps(sm, n) /\ (Keeps(sm, n) \/ Deleted(sm, n))
  BY <1>1, <1>2, StopTame DEF Inv, Good
<1>4. Step(n) /\ UNCHANGED missed
  BY DEF DeleteRequest, t
<1> HIDE DEF n
<1> QED  BY <1>3, <1>4, QuietSegment

LEMMA OperateGood ==
    ASSUME Inv, StartRequest \/ StopRequest
    PROVE  Good(sm') /\ MemoryOf(sm', missed')
<1> DEFINE t == FreeSlot(sm)
<1>1. sm \in Manager /\ sm.service # Nothing /\ FreeSlots(sm) # {} /\ Saves
  BY DEF StartRequest, StopRequest, Request, Inv, Good
<1>2. CASE StartRequest
  <2> DEFINE k == [sm EXCEPT !.object[sm.service].config.enabled = TRUE]
             saved == Save(k)
  <2>1. PICK b \in BOOLEAN : Step(StartService(saved, t, b))
    BY <1>2 DEF StartRequest, MayFail
  <2>2. k \in Manager /\ Tame(sm, k) /\ SyncKeeps(sm, k) /\ k.task = sm.task
    BY <1>1, EnableTame
  <2> HIDE DEF k
  <2>3. t \in Slot /\ saved.task[t].at \notin {"monitor", "watch"}
    BY <1>1, <2>2, RequestSlot
  <2>4. saved \in Manager
    BY <2>2, SaveTame
  <2> DEFINE n == StartService(saved, t, b)
  <2> HIDE DEF saved, t
  <2>5. n \in Manager /\ Tame(saved, n) /\ SyncKeeps(saved, n) /\ Keeps(saved, n)
    BY <2>3, <2>4, StartTame
  <2>6. Step(n)
    BY <2>1
  <2> HIDE DEF n
  <2> QED  BY <1>1, <2>2, <2>5, <2>6, SavedSegment DEF saved
<1>3. CASE StopRequest
  <2> DEFINE k == [sm EXCEPT !.object[sm.service].config.enabled = FALSE]
             saved == Save(k)
  <2>1. Step(StopService(saved, t, "end", TRUE))
    BY <1>3 DEF StopRequest
  <2>2. k \in Manager /\ Tame(sm, k) /\ SyncKeeps(sm, k) /\ k.task = sm.task
    BY <1>1, EnableTame
  <2> HIDE DEF k
  <2>3. t \in Slot /\ saved.task[t].at \notin {"monitor", "watch"}
    BY <1>1, <2>2, RequestSlot
  <2>4. saved \in Manager
    BY <2>2, SaveTame
  <2>5. "end" \in After \ {"drop"} /\ TRUE \in BOOLEAN /\ "end" # "delete"
    BY DEF After
  <2> DEFINE n == StopService(saved, t, "end", TRUE)
  <2> HIDE DEF saved, t
  <2>6. n \in Manager /\ Tame(saved, n) /\ SyncKeeps(saved, n) /\ Keeps(saved, n)
    BY <2>3, <2>4, <2>5, StopTame
  <2>7. Step(n)
    BY <2>1
  <2> HIDE DEF n
  <2> QED  BY <1>1, <2>2, <2>6, <2>7, SavedSegment DEF saved
<1> QED  BY <1>2, <1>3

LEMMA BeginGood ==
    ASSUME Inv, NEW t \in Slot, BeginStart(t) \/ BeginStop(t)
    PROVE  Good(sm') /\ MemoryOf(sm', missed')
<1>1. sm.task[t].at \notin {"monitor", "watch"} /\ UNCHANGED missed
  BY DEF BeginStart, BeginStop
<1>2. CASE BeginStart(t)
  <2>1. PICK b \in BOOLEAN : Step(StartService(sm, t, b))
    BY <1>2 DEF BeginStart, MayFail
  <2> DEFINE n == StartService(sm, t, b)
  <2>2. n \in Manager /\ Tame(sm, n) /\ SyncKeeps(sm, n) /\ Keeps(sm, n)
    BY <1>1, StartTame DEF Inv, Good
  <2>3. Step(n)
    BY <2>1
  <2> HIDE DEF n
  <2> QED  BY <1>1, <2>2, <2>3, QuietSegment
<1>3. CASE BeginStop(t)
  <2> DEFINE n == StopService(sm, t, "end", TRUE)
  <2>1. "end" \in After \ {"drop"} /\ TRUE \in BOOLEAN /\ "end" # "delete"
    BY DEF After
  <2>2. n \in Manager /\ Tame(sm, n) /\ SyncKeeps(sm, n) /\ Keeps(sm, n)
    BY <1>1, <2>1, StopTame DEF Inv, Good
  <2>3. Step(n)
    BY <1>3 DEF BeginStop
  <2> HIDE DEF n
  <2> QED  BY <1>1, <2>2, <2>3, QuietSegment
<1> QED  BY <1>2, <1>3

\* The watch that begins is of the service, if the service runs.
LEMMA MonitorGood ==
    ASSUME Inv, NEW t \in Slot, BeginMonitor(t)
    PROVE  Good(sm') /\ MemoryOf(sm', missed')
<1> DEFINE where == IF sm.process = Nothing \/ sm.service = Nothing THEN Idle
                    ELSE [at |-> "watch", proc |-> sm.process, object |-> sm.service]
           n == Await(sm, t, where)
<1>1. sm \in Manager /\ t \in Task
  BY Numbers DEF Inv, Good
<1>2. where \in Place /\ where.at \notin {"monitor", "stopping"}
  <2>1. CASE sm.process = Nothing \/ sm.service = Nothing
    BY <2>1, Places
  <2>2. CASE ~(sm.process = Nothing \/ sm.service = Nothing)
    BY <1>1, <2>2, Places DEF Manager
  <2> QED  BY <2>1, <2>2
<1>3. IsRunning(sm) => where.at = "watch" /\ where.object = sm.service
  BY DEF Inv, Good, MonitorFinds, SomeMonitor, BeginMonitor, IsRunning
<1>4. Step(n) /\ UNCHANGED missed
  BY DEF BeginMonitor, Finish
<1> HIDE DEF where
<1>5. /\ n \in Manager
      /\ n.file = sm.file /\ n.fresh = sm.fresh /\ n.service = sm.service
      /\ n.object = sm.object /\ n.process = sm.process
      /\ \A u \in Task : n.task[u] = IF u = t THEN where ELSE sm.task[u]
  BY <1>1, <1>2, AwaitEffect
<1> HIDE DEF n
<1>6. Keeps(sm, n) /\ SyncKeeps(sm, n)
  BY <1>2, <1>5, Numbers DEF Keeps, ConfigOf, SyncKeeps, SyncShape
<1>7. IsRunning(n) <=> IsRunning(sm)
  BY <1>5 DEF IsRunning, StatusOf
<1>8. Watched(n)
  BY <1>3, <1>5, <1>7, Numbers DEF Inv, Good, Watched
<1>9. MonitorFinds(n)
  BY <1>2, <1>5, <1>7, Numbers DEF Inv, Good, MonitorFinds, SomeMonitor
<1>10. SyncShape(n)
  BY <1>6 DEF Inv, Good, SyncKeeps
<1>11. Good(n)
  BY <1>5, <1>8, <1>9, <1>10 DEF Good
<1>12. /\ sm' \in Manager /\ Tame(n, sm') /\ Keeps(n, sm') /\ SyncKeeps(n, sm')
  BY <1>4, <1>5, StepTame
<1>13. Good(sm')
  BY <1>10, <1>11, <1>12, TameStays DEF SyncKeeps
<1>14. MemoryOf(sm', missed')
  BY <1>4, <1>6, <1>12, MemoryStays DEF Inv
<1> QED  BY <1>13, <1>14

\* FFmpeg has been spawned: its monitor has been created, and finds it.
LEMMA SpawnedGood ==
    ASSUME Inv, NEW t \in Task, Spawned(t)
    PROVE  Good(sm') /\ MemoryOf(sm', missed')
<1> DEFINE p == Least(FreeProcs(sm))
           o == sm.task[t].object
           ran == [sm.object EXCEPT ![o].status = "running"]
           k == [sm EXCEPT !.ffmpeg[p] = "live", !.process = p, !.object = ran]
           where == [at |-> "monitor"]
           n == Await(k, t, where)
<1>1. /\ sm \in Manager /\ sm.task[t].at = "spawn" /\ p \in Proc /\ o \in Object
      /\ UNCHANGED missed
  BY FreeProcIs, PlaceParts DEF Spawned, Inv, Good, Manager
<1>2. t \in Slot
  BY <1>1 DEF Inv, Good, SyncShape, Task, Idle
<1>3. ran \in [Object -> State] /\ \A x \in Object : ran[x].config = sm.object[x].config
  BY <1>1 DEF Manager, State, Status
<1>4. \A x \in Object : x # o => ran[x] = sm.object[x]
  BY <1>1 DEF Manager
<1>5. where \in Place /\ where.at = "monitor"
  BY Places
<1>6. Step(n)
  BY DEF Spawned
<1> HIDE DEF p, o, ran, where
<1>7. /\ k \in Manager /\ k.process = p /\ k.object = ran /\ k.task = sm.task
      /\ k.service = sm.service /\ k.file = sm.file /\ k.fresh = sm.fresh
  BY <1>1, <1>3 DEF Manager
<1> HIDE DEF k
<1>8. /\ n \in Manager
      /\ n.file = k.file /\ n.fresh = k.fresh /\ n.service = k.service
      /\ n.object = k.object /\ n.process = k.process
      /\ \A u \in Task : n.task[u] = IF u = t THEN where ELSE k.task[u]
  BY <1>5, <1>7, AwaitEffect
<1> HIDE DEF n
<1>9. sm.service # Nothing => sm.service \in Object
  BY <1>1 DEF Manager
<1>10. Keeps(sm, n) /\ SyncKeeps(sm, n)
  BY <1>2, <1>3, <1>5, <1>7, <1>8, <1>9, Numbers
  DEF Keeps, ConfigOf, SyncKeeps, SyncShape
<1>11. Watched(n)
  BY <1>2, <1>5, <1>8, Numbers DEF Watched
<1>12. MonitorFinds(n)
  BY <1>1, <1>7, <1>8, Numbers DEF MonitorFinds
<1>13. SyncShape(n)
  BY <1>10 DEF Inv, Good, SyncKeeps
<1>14. Good(n)
  BY <1>8, <1>11, <1>12, <1>13 DEF Good
<1>15. /\ sm' \in Manager /\ Tame(n, sm') /\ Keeps(n, sm') /\ SyncKeeps(n, sm')
  BY <1>6, <1>8, StepTame
<1>16. Good(sm')
  BY <1>13, <1>14, <1>15, TameStays DEF SyncKeeps
<1>17. MemoryOf(sm', missed')
  BY <1>1, <1>10, <1>15, MemoryStays DEF Inv
<1> QED  BY <1>16, <1>17

\* A state that a task refers to gets the status "error".
LEMMA BlameEffect ==
    ASSUME NEW m \in Manager, NEW o \in Object
    PROVE  LET n == [m EXCEPT !.object[o].status = "error"]
           IN  /\ n \in Manager /\ n.task = m.task /\ Tame(m, n) /\ Keeps(m, n)
               /\ SyncKeeps(m, n)
               /\ m.service = o => ~IsRunning(n)
<1> DEFINE obj == [m.object EXCEPT ![o].status = "error"]
           n == [m EXCEPT !.object = obj]
<1>1. /\ obj \in [Object -> State] /\ obj[o].status = "error"
      /\ \A x \in Object : obj[x].config = m.object[x].config
      /\ \A x \in Object : x # o => obj[x] = m.object[x]
  BY DEF Manager, State, Status
<1>2. m.service # Nothing => m.service \in Object
  BY DEF Manager
<1> HIDE DEF obj
<1>3. /\ n \in Manager /\ n.object = obj /\ n.task = m.task /\ n.service = m.service
      /\ n.process = m.process /\ n.file = m.file /\ n.fresh = m.fresh
  BY <1>1 DEF Manager
<1> HIDE DEF n
<1>4. m.service = o => ~IsRunning(n)
  BY <1>1, <1>3 DEF IsRunning, StatusOf
<1>5. Tame(m, n)
  BY <1>1, <1>2, <1>3, <1>4 DEF Tame, IsRunning, StatusOf
<1>6. Keeps(m, n) /\ SyncKeeps(m, n)
  BY <1>1, <1>2, <1>3 DEF Keeps, ConfigOf, SyncKeeps, SyncShape
<1> QED  BY <1>3, <1>4, <1>5, <1>6 DEF n, obj

LEMMA SpawnFailsGood ==
    ASSUME Inv, NEW t \in Task, SpawnFails(t)
    PROVE  Good(sm') /\ MemoryOf(sm', missed')
<1> DEFINE o == sm.task[t].object
           k == [sm EXCEPT !.object[o].status = "error"]
           n == Await(k, t, Idle)
<1>1. sm \in Manager /\ sm.task[t].at = "spawn" /\ o \in Object /\ UNCHANGED missed
  BY PlaceParts DEF SpawnFails, Inv, Good, Manager
<1>2. t \in Slot
  BY <1>1 DEF Inv, Good, SyncShape, Task, Idle
<1>3. Step(n)
  BY DEF SpawnFails, Finish
<1> HIDE DEF o
<1>4. k \in Manager /\ k.task = sm.task /\ Tame(sm, k) /\ Keeps(sm, k) /\ SyncKeeps(sm, k)
  BY <1>1, BlameEffect
<1> HIDE DEF k
<1>5. n \in Manager /\ Tame(k, n) /\ Keeps(k, n) /\ SyncKeeps(k, n)
  BY <1>1, <1>2, <1>4, AwaitTame, Places
<1> HIDE DEF n
<1>6. Tame(sm, n) /\ Keeps(sm, n) /\ SyncKeeps(sm, n)
  BY <1>4, <1>5, Chained
<1> QED  BY <1>1, <1>3, <1>5, <1>6, QuietSegment

\* A monitor that ends leaves its service in another status, or was not the
\* monitor of the service.
LEMMA MonitorExitGood ==
    ASSUME Inv, NEW t \in Task, MonitorExit(t)
    PROVE  Good(sm') /\ MemoryOf(sm', missed')
<1> DEFINE o == sm.task[t].object
           blamed == [sm EXCEPT !.object[o].status = "error"]
<1>1. /\ sm \in Manager /\ sm.task[t].at = "watch" /\ o \in Object /\ UNCHANGED missed
  BY PlaceParts DEF MonitorExit, Inv, Good, Manager
<1>2. t \in Slot
  BY <1>1 DEF Inv, Good, SyncShape, Task, Idle
<1>3. ASSUME NEW k \in Manager, NEW where \in Place, where.at \in {"idle", "pause"},
             k.task = sm.task, Tame(sm, k), Keeps(sm, k), SyncKeeps(sm, k),
             sm.service = o => ~IsRunning(k), Step(Await(k, t, where))
      PROVE  Good(sm') /\ MemoryOf(sm', missed')
  <2> DEFINE n == Await(k, t, where)
  <2>1. /\ n \in Manager
        /\ n.file = k.file /\ n.fresh = k.fresh /\ n.service = k.service
        /\ n.object = k.object /\ n.process = k.process
        /\ \A u \in Task : n.task[u] = IF u = t THEN where ELSE k.task[u]
    BY AwaitEffect
  <2>2. Step(n)
    BY <1>3
  <2> HIDE DEF n, o
  <2>3. Keeps(sm, n)
    BY <1>3, <2>1 DEF Keeps, ConfigOf
  <2>4. SyncKeeps(sm, n)
    BY <1>2, <1>3, <2>1, Numbers DEF SyncKeeps, SyncShape
  <2>5. IsRunning(n) <=> IsRunning(k)
    BY <2>1 DEF IsRunning, StatusOf
  <2>6. Good(k)
    BY <1>3, TameStays DEF Inv, Good, SyncKeeps
  <2>7. Watched(n)
    <3> SUFFICES ASSUME IsRunning(k)
                 PROVE  \E u \in Slot :
                            \/ n.task[u].at = "monitor"
                            \/ n.task[u].at = "watch" /\ n.task[u].object = n.service
      BY <2>5 DEF Watched
    <3>1. PICK u \in Slot : \/ k.task[u].at = "monitor"
                            \/ k.task[u].at = "watch" /\ k.task[u].object = k.service
      BY <2>6 DEF Good, Watched
    <3>2. u # t
      BY <1>1, <1>3, <3>1 DEF Keeps, o
    <3> QED  BY <2>1, <3>1, <3>2, Numbers
  <2>8. MonitorFinds(n)
    BY <1>3, <2>1, <2>5, <2>6, Numbers DEF Good, MonitorFinds, SomeMonitor
  <2>9. SyncShape(n)
    BY <2>4 DEF Inv, Good, SyncKeeps
  <2>10. Good(n)
    BY <2>1, <2>7, <2>8, <2>9 DEF Good
  <2>11. /\ sm' \in Manager /\ Tame(n, sm') /\ Keeps(n, sm') /\ SyncKeeps(n, sm')
    BY <2>1, <2>2, StepTame
  <2>12. Good(sm')
    BY <2>9, <2>10, <2>11, TameStays DEF SyncKeeps
  <2>13. MemoryOf(sm', missed')
    BY <1>1, <2>3, <2>4, <2>11, MemoryStays DEF Inv
  <2> QED  BY <2>12, <2>13
<1>4. CASE sm.object[o].status = "running"
  <2>1. Step(Await(blamed, t, [at |-> "pause"]))
    BY <1>4 DEF MonitorExit
  <2> HIDE DEF o
  <2>2. /\ blamed \in Manager /\ blamed.task = sm.task /\ Tame(sm, blamed)
        /\ Keeps(sm, blamed) /\ SyncKeeps(sm, blamed)
        /\ sm.service = o => ~IsRunning(blamed)
    BY <1>1, BlameEffect
  <2> HIDE DEF blamed
  <2>3. [at |-> "pause"] \in Place
    BY Places
  <2> QED  BY <1>3, <2>1, <2>2, <2>3
<1>5. CASE sm.object[o].status # "running"
  <2>1. Step(Await(sm, t, Idle))
    BY <1>5 DEF MonitorExit, Finish
  <2>2. sm.service = o => ~IsRunning(sm)
    BY <1>5 DEF IsRunning, StatusOf
  <2> HIDE DEF o
  <2> QED  BY <1>1, <1>3, <2>1, <2>2, Reflexive, Places
<1> QED  BY <1>4, <1>5

LEMMA StopEndsGood ==
    ASSUME Inv, NEW t \in Task, StopEnds(t)
    PROVE  Good(sm') /\ MemoryOf(sm', missed')
<1> DEFINE after == sm.task[t].after
<1>1. /\ sm \in Manager /\ sm.task[t].at = "stopping" /\ after \in After /\ UNCHANGED missed
      /\ ~SomeMonitor(sm)
  BY PlaceParts DEF StopEnds, Quiet, Created, SomeMonitor, Inv, Good, Manager
<1>2. PICK b \in BOOLEAN : Step(StopReturns(sm, t, after, b))
  BY DEF StopEnds, MayFail
<1>3. sm.task[t].at \notin {"monitor", "watch"}
  BY <1>1
<1> HIDE DEF after
<1>4. CASE t \in Slot
  <2> DEFINE n == StopReturns(sm, t, after, b)
  <2>1. after \in After \ {"drop"}
    BY <1>1, <1>4 DEF Inv, Good, SyncShape, after
  <2>2. /\ n \in Manager /\ Tame(sm, n) /\ SyncKeeps(sm, n)
        /\ Keeps(sm, n) \/ Deleted(sm, n)
    BY <1>1, <1>3, <1>4, <2>1, StopReturnsTame
  <2>3. Step(n)
    BY <1>2
  <2> HIDE DEF n
  <2> QED  BY <1>1, <2>2, <2>3, QuietSegment
<1>5. CASE t = Sync
  <2> DEFINE k == Finish([sm EXCEPT !.process = Nothing], t)
             n == RemoveService(k)
  <2>1. after = "drop"
    BY <1>1, <1>5 DEF Inv, Good, SyncShape, Idle, after
  <2>2. Step(n)
    BY <1>2, <2>1 DEF StopReturns
  <2>3. /\ k \in Manager /\ Tame(sm, k) /\ Keeps(sm, k) /\ k.task[t] = Idle
        /\ SyncShape(sm) => SyncShape(k)
    BY <1>1, <1>3, ClearTame
  <2> HIDE DEF k
  <2>4. /\ n \in Manager /\ Tame(k, n) /\ SyncKeeps(k, n)
        /\ n.service = Nothing /\ n.file = k.file /\ n.fresh = k.fresh
    BY <2>3, RemoveTame
  <2> HIDE DEF n
  <2>5. Tame(sm, n) /\ SyncShape(n)
    BY <2>3, <2>4, Chained DEF Inv, Good, SyncKeeps
  <2>6. sm.task[Sync] # Idle
    BY <1>1, <1>5 DEF Idle
  <2>7. MemoryOf(n, missed')
    BY <1>1, <2>3, <2>4, <2>6 DEF Inv, MemoryOf, Matches, Keeps
  <2> QED  BY <2>2, <2>4, <2>5, <2>7, Segment
<1> QED  BY <1>4, <1>5 DEF Task

LEMMA AutoRestartGood ==
    ASSUME Inv, NEW t \in Task, AutoRestart(t)
    PROVE  Good(sm') /\ MemoryOf(sm', missed')
<1>1. /\ sm \in Manager /\ sm.task[t].at = "pause" /\ UNCHANGED missed
  BY DEF AutoRestart, Inv, Good
<1>2. t \in Slot
  BY <1>1 DEF Inv, Good, SyncShape, Task, Idle
<1>3. sm.task[t].at \notin {"monitor", "watch"}
  BY <1>1
<1>4. \E b \in BOOLEAN : Step(StartService(sm, t, b)) \/ Step(Finish(sm, t))
  BY DEF AutoRestart, MayFail
<1>5. ASSUME NEW n \in Manager, Step(n), Tame(sm, n), Keeps(sm, n), SyncKeeps(sm, n)
      PROVE  Good(sm') /\ MemoryOf(sm', missed')
  BY <1>1, <1>5, QuietSegment
<1>6. LET n == Finish(sm, t)
      IN  n \in Manager /\ Tame(sm, n) /\ Keeps(sm, n) /\ SyncKeeps(sm, n)
  <2> DEFINE n == Await(sm, t, Idle)
  <2>1. n \in Manager /\ Tame(sm, n) /\ Keeps(sm, n) /\ SyncKeeps(sm, n)
    BY <1>1, <1>2, <1>3, AwaitTame, Places
  <2> HIDE DEF n
  <2> QED  BY <2>1 DEF Finish, n
<1>7. \A b \in BOOLEAN :
          LET n == StartService(sm, t, b)
          IN  n \in Manager /\ Tame(sm, n) /\ Keeps(sm, n) /\ SyncKeeps(sm, n)
  BY <1>1, <1>2, <1>3, StartTame
<1> QED  BY <1>4, <1>5, <1>6, <1>7

LEMMA ExitGood ==
    ASSUME Inv, NEW p \in Proc, FfmpegExit(p)
    PROVE  Good(sm') /\ MemoryOf(sm', missed')
<1> DEFINE n == [sm EXCEPT !.ffmpeg[p] = "exited"]
<1>1. /\ n \in Manager /\ n.task = sm.task /\ n.service = sm.service /\ n.object = sm.object
      /\ n.file = sm.file /\ n.fresh = sm.fresh /\ n.process = sm.process
  BY DEF Inv, Good, Manager
<1>2. Step(n) /\ UNCHANGED missed
  BY DEF FfmpegExit
<1> HIDE DEF n
<1>3. Tame(sm, n) /\ Keeps(sm, n) /\ SyncKeeps(sm, n)
  BY <1>1 DEF Tame, Keeps, SyncKeeps, SyncShape, IsRunning, StatusOf, ConfigOf
<1> QED  BY <1>1, <1>2, <1>3, QuietSegment

-----------------------------------------------------------------------------
(* The loops and the other nodes.                                          *)

LEMMA WatchdogGood ==
    ASSUME Inv, Watchdog
    PROVE  Good(sm') /\ MemoryOf(sm', missed')
<1> DEFINE n == Create(sm, "start")
<1>1. n \in Manager /\ Tame(sm, n) /\ Keeps(sm, n) /\ SyncKeeps(sm, n)
  BY CreateTame DEF Watchdog, Inv, Good
<1>2. Step(n) /\ UNCHANGED missed
  BY DEF Watchdog
<1> HIDE DEF n
<1> QED  BY <1>1, <1>2, QuietSegment

\* Only the file and whether it has news change.
LEMMA FileGood ==
    ASSUME Inv, PeerSave \/ SyncFails
    PROVE  Good(sm') /\ MemoryOf(sm', missed')
<1>1. PICK file \in Config \cup {None}, fresh \in BOOLEAN :
          sm' = [sm EXCEPT !.file = file, !.fresh = fresh]
  <2>1. CASE PeerSave
    BY <2>1 DEF PeerSave
  <2>2. CASE SyncFails
    <3>1. sm' = [sm EXCEPT !.file = sm.file, !.fresh = FALSE]
      BY <2>2 DEF SyncFails, Inv, Good, Manager
    <3> QED  BY <3>1 DEF Inv, Good, Manager
  <2> QED  BY <2>1, <2>2
<1>2. /\ sm' \in Manager /\ sm'.task = sm.task /\ sm'.service = sm.service
      /\ sm'.object = sm.object /\ sm'.process = sm.process /\ sm'.fresh = fresh
  BY <1>1 DEF Inv, Good, Manager
<1>3. Tame(sm, sm') /\ SyncShape(sm')
  BY <1>2 DEF Tame, SyncShape, IsRunning, StatusOf, Inv, Good
<1>4. Good(sm')
  BY <1>2, <1>3, TameStays DEF Inv
<1>5. sm'.fresh = TRUE \/ missed' = TRUE
  BY DEF PeerSave, SyncFails, Inv, Good, Manager
<1> QED  BY <1>4, <1>5 DEF MemoryOf

LEMMA ReadEffect ==
    ASSUME Inv, SyncRead
    PROVE  LET k == [sm EXCEPT !.fresh = FALSE]
           IN  /\ k \in Manager /\ Tame(sm, k) /\ SyncKeeps(sm, k) /\ SyncShape(k)
               /\ k.fresh = FALSE /\ k.file = sm.file /\ k.task = sm.task
               /\ k.service = sm.service /\ k.process = sm.process
<1> DEFINE k == [sm EXCEPT !.fresh = FALSE]
<1>1. /\ k \in Manager /\ k.task = sm.task /\ k.service = sm.service /\ k.object = sm.object
      /\ k.file = sm.file /\ k.fresh = FALSE /\ k.process = sm.process
  BY DEF Inv, Good, Manager
<1> HIDE DEF k
<1>2. Tame(sm, k) /\ SyncKeeps(sm, k)
  BY <1>1 DEF Tame, SyncKeeps, SyncShape, IsRunning, StatusOf
<1>3. SyncShape(k)
  BY <1>2 DEF SyncKeeps, Inv, Good
<1> QED  BY <1>1, <1>2, <1>3 DEF k

\* What the file says of the service becomes what memory says of it.
LEMMA SyncAdopts ==
    ASSUME Inv, SyncRead, sm.file # None
    PROVE  Good(sm') /\ MemoryOf(sm', missed')
<1> DEFINE k == [sm EXCEPT !.fresh = FALSE]
           c == k.file
           added == AddService(k, c)
           set == SetConfig(k, c)
           j == IF k.service = Nothing THEN added ELSE set
           n == Orchestrate(j)
<1>1. /\ k \in Manager /\ Tame(sm, k) /\ SyncKeeps(sm, k) /\ SyncShape(k)
      /\ k.fresh = FALSE /\ k.file = sm.file /\ k.task = sm.task
      /\ k.service = sm.service
  BY ReadEffect
<1>2. Step(n) /\ (k.service = Nothing => FreeObjects(k) # {})
  BY <1>1 DEF SyncRead
<1>3. sm.task[Sync] = Idle /\ FreeSlots(sm) # {} /\ c \in Config
  BY <1>1 DEF SyncRead, Inv, Good, Manager
<1> HIDE DEF k, c
<1>4. /\ j \in Manager /\ Tame(k, j) /\ SyncKeeps(k, j)
      /\ j.service # Nothing /\ ConfigOf(j) = c /\ j.file = k.file /\ j.fresh = k.fresh
      /\ \A t \in Task : k.task[t] = Idle => j.task[t] = Idle
  <2>1. CASE k.service = Nothing
    <3>1. /\ added \in Manager /\ Tame(k, added) /\ SyncKeeps(k, added)
          /\ added.service # Nothing /\ ConfigOf(added) = c
          /\ added.file = k.file /\ added.fresh = k.fresh /\ added.task = k.task
      BY <1>1, <1>2, <1>3, <2>1, AddTame
    <3> HIDE DEF added
    <3> QED  BY <2>1, <3>1
  <2>2. CASE k.service # Nothing
    <3>1. /\ set \in Manager /\ Tame(k, set) /\ SyncKeeps(k, set)
          /\ set.service = k.service /\ ConfigOf(set) = c
          /\ set.file = k.file /\ set.fresh = k.fresh
          /\ \A t \in Task : k.task[t] = Idle => set.task[t] = Idle
      BY <1>1, <1>3, <2>2, ConfigTame
    <3> HIDE DEF set
    <3> QED  BY <2>2, <3>1
  <2> QED  BY <2>1, <2>2
<1> HIDE DEF j
<1>5. FreeSlots(j) # {}
  BY <1>1, <1>3, <1>4, Numbers DEF FreeSlots
<1>6. n \in Manager /\ Tame(j, n) /\ Keeps(j, n) /\ SyncKeeps(j, n)
  BY <1>4, <1>5, OrchestrateTame
<1> HIDE DEF n
<1>7. Tame(sm, n) /\ SyncKeeps(sm, n)
  BY <1>1, <1>4, <1>6, Chained
<1>8. SyncShape(n)
  BY <1>7 DEF SyncKeeps, Inv, Good
<1>9. MemoryOf(n, missed')
  BY <1>3, <1>4, <1>6, <1>7 DEF MemoryOf, Matches, Keeps, SyncKeeps, c
<1> QED  BY <1>2, <1>6, <1>7, <1>8, <1>9, Segment

\* The file no longer has the service: it is removed, or stopped to be removed.
LEMMA SyncDrops ==
    ASSUME Inv, SyncRead, sm.file = None
    PROVE  Good(sm') /\ MemoryOf(sm', missed')
<1> DEFINE k == [sm EXCEPT !.fresh = FALSE]
<1>1. /\ k \in Manager /\ Tame(sm, k) /\ SyncKeeps(sm, k) /\ SyncShape(k)
      /\ k.fresh = FALSE /\ k.file = None /\ k.task = sm.task
      /\ k.service = sm.service /\ k.process = sm.process
  BY ReadEffect
<1>2. sm.task[Sync] = Idle /\ ~SomeMonitor(sm)
  BY DEF SyncRead, Quiet, Created, SomeMonitor
<1>3. CASE k.process = Nothing \/ k.service = Nothing
  <2>1. Step(RemoveService(k))
    BY <1>1, <1>3 DEF SyncRead, RemoveService
  <2> HIDE DEF k
  <2> DEFINE n == RemoveService(k)
  <2>2. /\ n \in Manager /\ Tame(k, n) /\ SyncKeeps(k, n)
        /\ n.service = Nothing /\ n.file = k.file /\ n.fresh = k.fresh
    BY <1>1, RemoveTame
  <2>3. Step(n)
    BY <2>1
  <2> HIDE DEF n
  <2>4. Tame(sm, n) /\ SyncShape(n)
    BY <1>1, <2>2, Chained DEF SyncKeeps
  <2>5. MemoryOf(n, missed')
    BY <1>1, <2>2 DEF MemoryOf, Matches
  <2> QED  BY <2>2, <2>3, <2>4, <2>5, Segment
<1>4. CASE ~(k.process = Nothing \/ k.service = Nothing)
  <2>1. Step(StopService(k, Sync, "drop", TRUE))
    BY <1>1, <1>4 DEF SyncRead
  <2> HIDE DEF k
  <2> DEFINE s == SetStatus(k, "stopped")
  <2>2. /\ s \in Manager /\ Tame(k, s) /\ Keeps(k, s) /\ SyncKeeps(k, s)
        /\ s.task = k.task /\ s.process = k.process /\ ~IsRunning(s)
    BY <1>1, StatusTame DEF Status
  <2>3. SyncShape(s) /\ s.file = None /\ s.task[Sync].at \notin {"monitor", "watch"}
    BY <1>1, <1>2, <2>2, Places DEF SyncKeeps, Keeps
  <2>4. CASE Alive(k)
    <3> DEFINE p == k.process
               j == [s EXCEPT !.ffmpeg[p] = "signalled"]
               where == [at |-> "stopping", proc |-> p, after |-> "drop"]
               n == Await(j, Sync, where)
    <3>1. Step(n)
      BY <2>1, <2>4 DEF StopService
    <3>2. p \in Proc
      BY <1>1, <2>4 DEF Alive, Manager
    <3>3. "drop" \in After
      BY DEF After
    <3>4. where \in Place /\ where.at = "stopping" /\ where.after = "drop"
      BY <3>2, <3>3, Places
    <3> HIDE DEF s, p, where
    <3>5. /\ j \in Manager /\ Tame(s, j) /\ Keeps(s, j) /\ SyncKeeps(s, j)
          /\ j.task = s.task
      BY <2>2, <3>2, SignalledTame
    <3> HIDE DEF j
    <3>6. /\ n \in Manager /\ n.file = j.file
          /\ \A u \in Task : n.task[u] = IF u = Sync THEN where ELSE j.task[u]
      BY <3>4, <3>5, AwaitEffect, Numbers
    <3>7. Tame(j, n)
      BY <2>2, <2>3, <3>4, <3>5, AwaitTame, Numbers
    <3> HIDE DEF n
    <3>8. Tame(sm, n)
      BY <1>1, <2>2, <3>5, <3>7, Chained
    <3>9. SyncShape(n)
      BY <2>3, <3>4, <3>5, <3>6, Numbers DEF SyncShape
    <3>10. n.file = None /\ n.task[Sync] # Idle
      BY <2>3, <3>4, <3>5, <3>6, Numbers, Places DEF Keeps
    <3>11. MemoryOf(n, missed')
      BY <3>10 DEF MemoryOf
    <3> QED  BY <3>1, <3>6, <3>8, <3>9, <3>11, Segment
  <2>5. CASE ~Alive(k)
    <3> DEFINE j == Finish([s EXCEPT !.process = Nothing], Sync)
               n == RemoveService(j)
    <3>1. Step(n)
      BY <2>1, <2>5 DEF StopService, StopReturns
    <3> HIDE DEF s
    <3>2. /\ j \in Manager /\ Tame(s, j) /\ Keeps(s, j) /\ SyncShape(j)
      BY <2>2, <2>3, ClearTame, Numbers
    <3> HIDE DEF j
    <3>3. /\ n \in Manager /\ Tame(j, n) /\ SyncKeeps(j, n)
          /\ n.service = Nothing /\ n.file = j.file
      BY <3>2, RemoveTame
    <3> HIDE DEF n
    <3>4. Tame(sm, n) /\ SyncShape(n)
      BY <1>1, <2>2, <3>2, <3>3, Chained DEF SyncKeeps
    <3>5. n.file = None
      BY <2>3, <3>2, <3>3 DEF Keeps
    <3>6. MemoryOf(n, missed')
      BY <3>3, <3>5 DEF MemoryOf, Matches
    <3> QED  BY <3>1, <3>3, <3>4, <3>6, Segment
  <2> QED  BY <2>4, <2>5
<1> QED  BY <1>3, <1>4

\* What the process starts with: every service stopped, the file to be read.
LEMMA BootGood ==
    ASSUME NEW file \in Config \cup {None}
    PROVE  Good(Boot(file)) /\ \A miss : MemoryOf(Boot(file), miss)
<1> DEFINE empty == [file |-> file, fresh |-> TRUE, service |-> Nothing,
                     object |-> [o \in Object |-> Blank], process |-> Nothing,
                     ffmpeg |-> [p \in Proc |-> "exited"],
                     task |-> [t \in Task |-> Idle]]
<1>1. Idle \in Place /\ Idle.at = "idle" /\ Blank \in State
  BY Places, NewStates
<1>2. /\ empty \in Manager /\ empty.service = Nothing /\ empty.fresh = TRUE
      /\ \A t \in Task : empty.task[t] = Idle
  BY <1>1 DEF Manager
<1>3. Boot(file) = IF file = None THEN empty ELSE AddService(empty, file)
  BY DEF Boot
<1> HIDE DEF empty
<1>4. Good(empty)
  BY <1>1, <1>2, Numbers
  DEF Good, Watched, MonitorFinds, SyncShape, IsRunning
<1>5. FreeObjects(empty) = Object /\ Object # {}
  BY <1>1, <1>2, BoundsAssumption, Numbers DEF FreeObjects, Refers, Object
<1>6. CASE file = None
  BY <1>2, <1>3, <1>4, <1>6 DEF MemoryOf
<1>7. CASE file # None
  <2> DEFINE n == AddService(empty, file)
  <2>1. file \in Config
    BY <1>7
  <2>2. /\ n \in Manager /\ Tame(empty, n) /\ SyncKeeps(empty, n)
        /\ n.fresh = empty.fresh
    BY <1>2, <1>5, <2>1, AddTame
  <2>3. Boot(file) = n
    BY <1>3, <1>7
  <2> HIDE DEF n
  <2>4. SyncShape(n)
    BY <1>4, <2>2 DEF SyncKeeps, Good
  <2>5. Good(n)
    BY <1>4, <2>2, <2>4, TameStays
  <2> QED  BY <1>2, <2>2, <2>3, <2>5 DEF MemoryOf
<1> QED  BY <1>6, <1>7

LEMMA CrashGood ==
    ASSUME Inv, Crash
    PROVE  Good(sm') /\ MemoryOf(sm', missed')
<1>1. sm.file \in Config \cup {None} /\ sm' = Boot(sm.file)
  BY DEF Crash, Inv, Good, Manager
<1> QED  BY <1>1, BootGood

-----------------------------------------------------------------------------
(* The invariant is one.                                                   *)

\* The history and the bounds.
LEMMA CountersStay ==
    ASSUME Inv, Next
    PROVE  missed' \in BOOLEAN /\ events' \in 0..MaxEvents /\ faults' \in 0..MaxFaults
<1> DEFINE Counted == /\ Event \/ UNCHANGED events
                      /\ Fault \/ UNCHANGED faults
                      /\ Saves \/ missed' \in {FALSE, TRUE} \/ UNCHANGED missed
<1>1. ASSUME Requests PROVE Counted
  <2>1. PostService \/ DeleteRequest \/ StopRequest => Counted
    BY DEF PostService, DeleteRequest, StopRequest, Request
  <2>2. PutService => Counted
    BY DEF PutService, Request, MayFail
  <2>3. StartRequest => Counted
    BY DEF StartRequest, Request, MayFail
  <2> QED  BY <1>1, <2>1, <2>2, <2>3 DEF Requests
<1>2. PeerSave \/ SyncRead \/ SyncFails \/ Watchdog \/ Crash => Counted
  BY DEF PeerSave, SyncRead, SyncFails, Watchdog, Crash
<1>3. ASSUME NEW t \in Task, Resume(t) \/ SpawnFails(t) PROVE Counted
  <2>1. Spawned(t) \/ MonitorExit(t) \/ SpawnFails(t) => Counted
    BY DEF SpawnFails, Spawned, MonitorExit
  <2>2. StopEnds(t) => Counted
    BY DEF StopEnds, MayFail
  <2>3. AutoRestart(t) => Counted
    BY DEF AutoRestart, MayFail
  <2> QED  BY <1>3, <2>1, <2>2, <2>3 DEF Resume
<1>4. ASSUME NEW t \in Slot, BeginStep(t) PROVE Counted
  <2>1. BeginStop(t) \/ BeginMonitor(t) => Counted
    BY DEF BeginStop, BeginMonitor
  <2>2. BeginStart(t) => Counted
    BY DEF BeginStart, MayFail
  <2> QED  BY <1>4, <2>1, <2>2 DEF BeginStep
<1>5. ASSUME NEW p \in Proc, FfmpegExit(p) PROVE Counted
  BY <1>5 DEF FfmpegExit
<1>6. Counted
  <2> HIDE DEF Counted
  <2> QED  BY <1>1, <1>2, <1>3, <1>4, <1>5 DEF Next
<1>7. events' \in 0..MaxEvents
  BY <1>6, BoundsAssumption DEF Event, Inv
<1>8. faults' \in 0..MaxFaults
  BY <1>6, BoundsAssumption DEF Fault, Inv
<1>9. missed' \in BOOLEAN
  BY <1>6 DEF Saves, Inv
<1> QED  BY <1>7, <1>8, <1>9

LEMMA InitInv == Init => Inv
<1> SUFFICES ASSUME Init PROVE Inv
  OBVIOUS
<1>1. PICK file \in Config \cup {None} : sm = Boot(file)
  BY DEF Init
<1>2. Good(sm) /\ MemoryOf(sm, missed)
  BY <1>1, BootGood
<1>3. missed = FALSE /\ events = 0 /\ faults = 0
  BY DEF Init
<1>4. 0 \in 0..MaxEvents /\ 0 \in 0..MaxFaults
  BY BoundsAssumption
<1> QED  BY <1>2, <1>3, <1>4 DEF Inv

LEMMA NextInv == Inv /\ [Next]_vars => Inv'
<1> SUFFICES ASSUME Inv, [Next]_vars PROVE Inv'
  OBVIOUS
<1>1. CASE UNCHANGED vars
  BY <1>1 DEF vars, Inv, Good, Manager, Watched, MonitorFinds, SyncShape, IsRunning,
              StatusOf, SomeMonitor, MemoryOf, Matches, ConfigOf
<1>2. CASE Next
  <2> SUFFICES Good(sm') /\ MemoryOf(sm', missed')
    <3>1. missed' \in BOOLEAN /\ events' \in 0..MaxEvents /\ faults' \in 0..MaxFaults
      BY <1>2, CountersStay
    <3> QED  BY <3>1 DEF Inv
  <2>1. CASE Requests
    BY <2>1, PostGood, PutGood, DeleteGood, OperateGood DEF Requests
  <2>2. CASE PeerSave \/ SyncFails
    BY <2>2, FileGood
  <2>3. CASE SyncRead
    BY <2>3, SyncAdopts, SyncDrops
  <2>4. CASE Watchdog \/ Crash
    BY <2>4, WatchdogGood, CrashGood
  <2>5. ASSUME NEW t \in Task, Resume(t) \/ SpawnFails(t)
        PROVE  Good(sm') /\ MemoryOf(sm', missed')
    BY <2>5, SpawnedGood, StopEndsGood, MonitorExitGood, AutoRestartGood, SpawnFailsGood
    DEF Resume
  <2>6. ASSUME NEW t \in Slot, BeginStep(t)
        PROVE  Good(sm') /\ MemoryOf(sm', missed')
    BY <2>6, BeginGood, MonitorGood DEF BeginStep
  <2>7. ASSUME NEW p \in Proc, FfmpegExit(p)
        PROVE  Good(sm') /\ MemoryOf(sm', missed')
    BY <2>7, ExitGood
  <2> QED  BY <1>2, <2>1, <2>2, <2>3, <2>4, <2>5, <2>6, <2>7 DEF Next
<1> QED  BY <1>1, <1>2

LEMMA Invariance == Spec => []Inv
BY InitInv, NextInv, PTL DEF Spec

-----------------------------------------------------------------------------
(* What follows from it.                                                   *)

\* Every segment of every coroutine leaves a manager of the declared shape,
\* whatever it finds: a deleted service, an exited process, a changed file
\* (stream_manager.py:19-305).
THEOREM TypeCorrect == Spec => []TypeOK
<1>1. Inv => TypeOK
  BY DEF Inv, Good, Manager, TypeOK
<1> QED  BY <1>1, Invariance, PTL

\* A service that says "running" has a monitor, or is about to get one, whatever
\* stops, starts, deletions and reads of the file came between
\* (stream_manager.py:147-163, 271-283).
THEOREM RunningStaysWatched == Spec => []RunningIsWatched
<1>1. Inv => RunningIsWatched
  BY DEF Inv, Good, Watched, IsRunning, RunningIsWatched
<1> QED  BY <1>1, Invariance, PTL

\* A file that has been read and not changed since says of the service what
\* memory says, through saves, removals and restarts
\* (stream_manager.py:25-31, 56-78).
THEOREM MemoryFollowsFile == Spec => []MemoryIsFile
<1>1. ASSUME Inv, ~sm.fresh, sm.task[Sync] = Idle, ~missed
      PROVE  Matches(sm)
  <2>1. sm.fresh = FALSE
    BY <1>1 DEF Inv, Good, Manager
  <2>2. missed = FALSE
    BY <1>1 DEF Inv
  <2> QED  BY <1>1, <2>1, <2>2 DEF Inv, MemoryOf
<1>2. Inv => MemoryIsFile
  BY <1>1 DEF MemoryIsFile, Matches
<1> QED  BY <1>2, Invariance, PTL
=============================================================================
