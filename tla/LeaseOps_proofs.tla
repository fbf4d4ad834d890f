--------------------------- MODULE LeaseOps_proofs ---------------------------
(***************************************************************************)
(* What LeaseOps promises for any number of message tasks, tokens,         *)
(* messages and faults, with a key that may expire under a release: a      *)
(* worker that has a token noted has that token in the key unless another  *)
(* release's DEL struck it, and the single Redis calls implement           *)
(* Ownership.                                                              *)
(***************************************************************************)
EXTENDS LeaseOps, TLAPS

\* A task that may come to note its token, and one that may come to delete
\* the key for the sake of a token that was forgotten.
Sets(w) == w.at \in {"set", "stored"}
Frees(w) == w.at = "del" \/ (w.at \in {"get", "got"} /\ w.why = "release")

\* What a task has in hand is a token of its worker.
OwnTokens ==
    /\ \A n \in Node : token[n] # None => token[n][1] = n
    /\ \A n \in Node, t \in Task :
          InHand(task[n][t]) # None => InHand(task[n][t])[1] = n

\* A token that a task may come to note is noted by nobody, is in no other
\* such task, and is not being released; nor is a noted token being released.
SetsApart ==
    /\ \A m, n \in Node, t \in Task :
          Sets(task[n][t]) => token[m] # task[n][t].new
    /\ \A m, n \in Node, s, t \in Task :
          Sets(task[m][s]) /\ Sets(task[n][t]) /\ task[m][s].new = task[n][t].new
              => m = n /\ s = t

FreesApart ==
    \A n \in Node, t \in Task : Frees(task[n][t]) =>
        /\ \A m \in Node : token[m] # task[n][t].mine
        /\ \A m \in Node, s \in Task :
              Sets(task[m][s]) => task[m][s].new # task[n][t].mine

\* Only a release that found its token in the key deletes.
DelCompared ==
    \A n \in Node, t \in Task : At(n, t, "del") => task[n][t].same

\* The tokens that workers go by are in the key, or were struck.
KeptIsKey == \A k \in Token : Kept(k) => lease = k \/ k \in struck

\* What the tasks have in hand.
HandsInv == OwnTokens /\ SetsApart /\ FreesApart /\ DelCompared

LeaseInv == TypeOK /\ HandsInv /\ KeptIsKey

-----------------------------------------------------------------------------
(* Places and types.                                                       *)

\* What the fields of a place hold.
LEMMA PlaceFields ==
    ASSUME NEW w \in Place
    PROVE  /\ w.at \in {"get", "got", "del"} => w.mine \in Token /\ w.why \in Why
           /\ w.at \in {"set", "stored"} => w.new \in Token
           /\ w.at \in {"got", "del"} => w.same \in BOOLEAN
           /\ w.at = "stored" => w.ok \in BOOLEAN
BY DEF Place, Idle

\* A task goes from one place to another, and types are kept.
LEMMA GotoType ==
    ASSUME TypeOK, NEW n \in Node, NEW t \in Task, NEW w \in Place, Goto(n, t, w)
    PROVE  /\ task' \in [Node -> [Task -> Place]]
           /\ task'[n][t] = w
           /\ \A m \in Node, s \in Task : m # n \/ s # t => task'[m][s] = task[m][s]
BY DEF TypeOK, Goto

\* The places that carry nothing.
LEMMA PlainPlaces ==
    /\ Idle \in Place
    /\ \A a \in {"exists", "expire", "spawn"} : [at |-> a] \in Place
BY DEF Place, Idle

\* The places that carry a token.
LEMMA TokenPlaces ==
    ASSUME NEW k \in Token, NEW b \in BOOLEAN, NEW y \in Why
    PROVE  /\ [at |-> "get", why |-> y, mine |-> k] \in Place
           /\ [at |-> "got", why |-> y, mine |-> k, same |-> b] \in Place
           /\ [at |-> "del", why |-> y, mine |-> k, same |-> b] \in Place
           /\ [at |-> "set", new |-> k] \in Place
           /\ [at |-> "stored", new |-> k, ok |-> b] \in Place
BY DEF Place

\* The types of what a segment of a coroutine touches.
SegmentType ==
    /\ token \in [Node -> Token \cup {None}]
    /\ proc \in [Node -> {"none", "running", "exited"}]
    /\ task \in [Node -> [Task -> Place]]

-----------------------------------------------------------------------------
(* Steps of one task that leave the key alone.                             *)

\* No token comes to be gone by.
KeptShrinks == \A k \in Token : Kept(k)' => Kept(k)

\* A place that may do no more than the place before it.
NoMore(w, v) ==
    /\ Sets(w) => Sets(v) /\ w.new = v.new
    /\ Frees(w) => Frees(v) /\ w.mine = v.mine
    /\ JustSet(w) => JustSet(v)
    /\ w.at = "del" => w.same

\* Tokens may be forgotten, and a task may move on to do no more than before.
LEMMA HandsKept ==
    ASSUME TypeOK, HandsInv,
           NEW n \in Node, NEW t \in Task, NEW w \in Place, Goto(n, t, w),
           \A m \in Node : token'[m] \in {token[m], None},
           InHand(w) = None \/ InHand(w)[1] = n,
           NoMore(w, task[n][t])
    PROVE  HandsInv' /\ KeptShrinks
<1>1. /\ task'[n][t] = w
      /\ \A m \in Node, s \in Task : m # n \/ s # t => task'[m][s] = task[m][s]
  BY GotoType
<1>2. \A m \in Node, s \in Task :
          /\ Sets(task'[m][s]) => Sets(task[m][s]) /\ task'[m][s].new = task[m][s].new
          /\ Frees(task'[m][s]) => Frees(task[m][s]) /\ task'[m][s].mine = task[m][s].mine
          /\ JustSet(task'[m][s]) => JustSet(task[m][s])
  <2> SUFFICES ASSUME NEW m \in Node, NEW s \in Task
               PROVE
          /\ Sets(task'[m][s]) => Sets(task[m][s]) /\ task'[m][s].new = task[m][s].new
          /\ Frees(task'[m][s]) => Frees(task[m][s]) /\ task'[m][s].mine = task[m][s].mine
          /\ JustSet(task'[m][s]) => JustSet(task[m][s])
    OBVIOUS
  <2>1. CASE m = n /\ s = t
    BY <1>1, <2>1 DEF NoMore
  <2>2. CASE ~(m = n /\ s = t)
    BY <1>1, <2>2
  <2> QED  BY <2>1, <2>2
<1>3. \A m \in Node : token'[m] # None => token'[m] = token[m]
  OBVIOUS
<1>4. \A m \in Node, s \in Task : Sets(task'[m][s]) => task'[m][s].new \in Token
  <2>1. \A m \in Node, s \in Task : task[m][s] \in Place
    BY DEF TypeOK
  <2> QED  BY <1>2, <2>1, PlaceFields DEF Sets
<1>5. \A m \in Node, s \in Task : Frees(task'[m][s]) => task'[m][s].mine \in Token
  <2>1. \A m \in Node, s \in Task : task[m][s] \in Place
    BY DEF TypeOK
  <2> QED  BY <1>2, <2>1, PlaceFields DEF Frees
<1>6. OwnTokens'
  BY <1>1, <1>3 DEF HandsInv, OwnTokens
<1>7. SetsApart'
  BY <1>2, <1>3, <1>4, NodesDiffer DEF HandsInv, SetsApart, Token
<1>8. FreesApart'
  BY <1>2, <1>3, <1>5, NodesDiffer DEF HandsInv, FreesApart, Token
<1>9. DelCompared'
  BY <1>1 DEF HandsInv, DelCompared, At, NoMore
<1>10. KeptShrinks
  <2> SUFFICES ASSUME NEW k \in Token, Kept(k)' PROVE Kept(k)
    BY DEF KeptShrinks
  <2>1. k # None
    BY NodesDiffer
  <2>2. PICK m \in Node : token'[m] = k \/ \E s \in Task : JustSet(task'[m][s]) /\ task'[m][s].new = k
    BY DEF Kept
  <2>3. CASE token'[m] = k
    BY <1>3, <2>1, <2>3 DEF Kept
  <2>4. ASSUME NEW s \in Task, JustSet(task'[m][s]), task'[m][s].new = k PROVE Kept(k)
    <3>1. JustSet(task[m][s]) /\ task[m][s].new = k
      BY <1>2, <2>4 DEF JustSet, Sets
    <3> QED  BY <3>1 DEF Kept
  <2> QED  BY <2>2, <2>3, <2>4
<1> QED  BY <1>6, <1>7, <1>8, <1>9, <1>10 DEF HandsInv

\* The hands of the places that carry no token.
LEMMA PlainHands ==
    ASSUME NEW a \in {"idle", "exists", "expire", "spawn"}
    PROVE  /\ InHand([at |-> a]) = None
           /\ ~Sets([at |-> a]) /\ ~Frees([at |-> a]) /\ ~JustSet([at |-> a])
BY DEF InHand, Sets, Frees, JustSet

\* And of those with a token.
LEMMA TokenHands ==
    ASSUME NEW k \in Token, NEW b \in BOOLEAN, NEW y \in Why
    PROVE  /\ InHand([at |-> "get", why |-> y, mine |-> k]) = k
           /\ Frees([at |-> "get", why |-> y, mine |-> k]) <=> y = "release"
           /\ ~Sets([at |-> "get", why |-> y, mine |-> k])
           /\ ~JustSet([at |-> "get", why |-> y, mine |-> k])
           /\ InHand([at |-> "got", why |-> y, mine |-> k, same |-> b]) = k
           /\ Frees([at |-> "got", why |-> y, mine |-> k, same |-> b]) <=> y = "release"
           /\ ~Sets([at |-> "got", why |-> y, mine |-> k, same |-> b])
           /\ ~JustSet([at |-> "got", why |-> y, mine |-> k, same |-> b])
           /\ InHand([at |-> "del", why |-> y, mine |-> k, same |-> b]) = k
           /\ ~Sets([at |-> "del", why |-> y, mine |-> k, same |-> b])
           /\ ~JustSet([at |-> "del", why |-> y, mine |-> k, same |-> b])
           /\ InHand([at |-> "set", new |-> k]) = k
           /\ Sets([at |-> "set", new |-> k])
           /\ ~Frees([at |-> "set", new |-> k])
           /\ ~JustSet([at |-> "set", new |-> k])
           /\ InHand([at |-> "stored", new |-> k, ok |-> b]) = k
           /\ ~Frees([at |-> "stored", new |-> k, ok |-> b])
           /\ JustSet([at |-> "stored", new |-> k, ok |-> b]) <=> b
BY DEF InHand, Sets, Frees, JustSet

\* A task that goes to a place without a token.
LEMMA PlainStep ==
    ASSUME TypeOK, HandsInv, NEW n \in Node, NEW t \in Task,
           NEW a \in {"idle", "exists", "expire", "spawn"}, Goto(n, t, [at |-> a]),
           token' = token \/ token' = [token EXCEPT ![n] = None]
    PROVE  HandsInv' /\ KeptShrinks /\ task' \in [Node -> [Task -> Place]]
<1> DEFINE w == [at |-> a]
<1>1. w \in Place
  BY PlainPlaces DEF Idle
<1>2. InHand(w) = None /\ NoMore(w, task[n][t])
  BY PlainHands DEF NoMore
<1>3. \A m \in Node : token'[m] \in {token[m], None}
  BY DEF TypeOK
<1>4. Goto(n, t, w)
  OBVIOUS
<1> HIDE DEF w
<1> QED  BY <1>1, <1>2, <1>3, <1>4, HandsKept, GotoType

\* stop_service: the token is forgotten, and only then is it being released.
LEMMA StopServiceKeeps ==
    ASSUME TypeOK, HandsInv, NEW n \in Node, NEW t \in Task, StopService(n, t)
    PROVE  HandsInv' /\ KeptShrinks /\ SegmentType'
<1>0. /\ token' \in [Node -> Token \cup {None}]
      /\ proc' \in [Node -> {"none", "running", "exited"}]
  BY DEF StopService, TypeOK
<1>1. CASE token[n] = None
  <2>1. Goto(n, t, [at |-> "idle"])
    BY <1>1 DEF StopService, Idle
  <2> QED  BY <1>0, <2>1, PlainStep DEF StopService, SegmentType
<1>2. CASE token[n] # None
  <2> DEFINE k == token[n]
             w == [at |-> "get", why |-> "release", mine |-> k]
  <2>1. k \in Token /\ w \in Place
    BY <1>2, TokenPlaces DEF TypeOK, Why
  <2>2. Goto(n, t, w)
    BY <1>2 DEF StopService
  <2>3. /\ task' \in [Node -> [Task -> Place]]
        /\ task'[n][t] = w
        /\ \A m \in Node, s \in Task : m # n \/ s # t => task'[m][s] = task[m][s]
    BY <2>1, <2>2, GotoType
  <2>4. /\ InHand(w) = k /\ k[1] = n /\ w.at = "get" /\ w.mine = k
        /\ ~Sets(w) /\ ~JustSet(w)
    BY <1>2, <2>1, TokenHands DEF Why, HandsInv, OwnTokens
  <2>5. /\ token'[n] = None
        /\ \A m \in Node : m # n => token'[m] = token[m] /\ token'[m] # k
    BY <1>2, <2>4 DEF StopService, HandsInv, OwnTokens, TypeOK
  <2>6. \A m \in Node, s \in Task : Sets(task[m][s]) => task[m][s].new # k
    BY DEF HandsInv, SetsApart
  <2>7. \A m \in Node, s \in Task :
            Sets(task[m][s]) => task[m][s].new \in Token
    BY PlaceFields DEF TypeOK, Sets
  <2>8. \A m \in Node, s \in Task :
            Frees(task[m][s]) => task[m][s].mine \in Token
    BY PlaceFields DEF TypeOK, Frees
  <2>9. k # None /\ None \notin Token
    BY <1>2, NodesDiffer
  <2> HIDE DEF w, k
  <2>10. \A m \in Node, s \in Task : Sets(task'[m][s]) => task'[m][s] = task[m][s]
    BY <2>3, <2>4
  <2>11. OwnTokens'
    BY <2>3, <2>4, <2>5 DEF OwnTokens, HandsInv
  <2>12. SetsApart'
    BY <2>5, <2>7, <2>9, <2>10 DEF SetsApart, HandsInv
  <2>13. FreesApart'
    <3> SUFFICES ASSUME NEW m \in Node, NEW s \in Task, Frees(task'[m][s])
                 PROVE  /\ \A j \in Node : token'[j] # task'[m][s].mine
                        /\ \A j \in Node, u \in Task :
                              Sets(task'[j][u]) => task'[j][u].new # task'[m][s].mine
      BY DEF FreesApart
    <3>1. CASE m = n /\ s = t
      BY <2>3, <2>4, <2>5, <2>6, <2>9, <2>10, <3>1
    <3>2. CASE ~(m = n /\ s = t)
      <4>1. task'[m][s] = task[m][s] /\ task[m][s].mine \in Token
        BY <2>3, <2>8, <3>2
      <4> QED  BY <2>5, <2>9, <2>10, <4>1 DEF HandsInv, FreesApart
    <3> QED  BY <3>1, <3>2
  <2>14. DelCompared'
    BY <2>3, <2>4 DEF DelCompared, At, HandsInv
  <2>15. KeptShrinks
    <3> SUFFICES ASSUME NEW j \in Token, Kept(j)' PROVE Kept(j)
      BY DEF KeptShrinks
    <3>1. \A m \in Node, s \in Task : JustSet(task'[m][s]) => task'[m][s] = task[m][s]
      BY <2>3, <2>4
    <3> QED  BY <2>5, <2>9, <3>1 DEF Kept
  <2> QED  BY <1>0, <2>3, <2>11, <2>12, <2>13, <2>14, <2>15 DEF HandsInv, SegmentType
<1> QED  BY <1>1, <1>2

\* With the lease a task goes idle or to the spawn.
LEMMA ServeKeeps ==
    ASSUME TypeOK, HandsInv, NEW n \in Node, NEW t \in Task, Serve(n, t),
           token' = token \/ token' = [token EXCEPT ![n] = None]
    PROVE  HandsInv' /\ KeptShrinks /\ SegmentType'
<1>1. PICK a \in {"idle", "exists", "expire", "spawn"} : Goto(n, t, [at |-> a])
  BY DEF Serve, Idle
<1>2. HandsInv' /\ KeptShrinks /\ task' \in [Node -> [Task -> Place]]
  BY <1>1, PlainStep
<1>3. proc' \in [Node -> {"none", "running", "exited"}]
  BY DEF Serve, TypeOK
<1>4. token' \in [Node -> Token \cup {None}]
  BY DEF TypeOK
<1> QED  BY <1>2, <1>3, <1>4 DEF SegmentType

\* Without the lease it goes idle, or stops what is tracked.
LEMMA StayPassiveKeeps ==
    ASSUME TypeOK, HandsInv, NEW n \in Node, NEW t \in Task, StayPassive(n, t)
    PROVE  HandsInv' /\ KeptShrinks /\ SegmentType'
<1>1. CASE proc[n] = "none"
  <2>1. Goto(n, t, [at |-> "idle"]) /\ token' = token /\ proc' = proc
    BY <1>1 DEF StayPassive, Idle
  <2>2. HandsInv' /\ KeptShrinks /\ task' \in [Node -> [Task -> Place]]
    BY <2>1, PlainStep
  <2> QED  BY <2>1, <2>2 DEF SegmentType, TypeOK
<1>2. CASE proc[n] # "none"
  BY <1>2, StopServiceKeeps DEF StayPassive
<1> QED  BY <1>1, <1>2

\* A SET on its way carries a token that nobody knows of.
LEMMA SendSetKeeps ==
    ASSUME TypeOK, HandsInv, NEW n \in Node, NEW t \in Task, SendSet(n, t),
           token' = token \/ token' = [token EXCEPT ![n] = None]
    PROVE  HandsInv' /\ KeptShrinks /\ SegmentType'
<1>1. PICK k \in FreshTokens(n) : Goto(n, t, [at |-> "set", new |-> k])
  BY DEF SendSet
<1>2. k \in Token /\ k[1] = n /\ k # None /\ ~Known(k)
  BY <1>1, NodesDiffer DEF FreshTokens
<1> DEFINE w == [at |-> "set", new |-> k]
<1>3. "renew" \in Why
  BY DEF Why
<1>4. /\ w \in Place /\ InHand(w) = k /\ w.at = "set" /\ w.new = k
      /\ ~Frees(w) /\ ~JustSet(w)
  BY <1>2, <1>3, TokenPlaces, TokenHands
<1>5. Goto(n, t, w)
  BY <1>1
<1> HIDE DEF w
<1>6. /\ task' \in [Node -> [Task -> Place]]
      /\ task'[n][t] = w
      /\ \A m \in Node, s \in Task : m # n \/ s # t => task'[m][s] = task[m][s]
  BY <1>4, <1>5, GotoType
<1>7. \A m \in Node : token'[m] \in {token[m], None} /\ token'[m] # k
  BY <1>2 DEF TypeOK, Known
<1>8. \A m \in Node, s \in Task :
          /\ Sets(task[m][s]) => task[m][s].new # k /\ task[m][s].new \in Token
          /\ Frees(task[m][s]) => task[m][s].mine # k /\ task[m][s].mine \in Token
  <2> SUFFICES ASSUME NEW m \in Node, NEW s \in Task
               PROVE
          /\ Sets(task[m][s]) => task[m][s].new # k /\ task[m][s].new \in Token
          /\ Frees(task[m][s]) => task[m][s].mine # k /\ task[m][s].mine \in Token
    OBVIOUS
  <2>1. task[m][s] \in Place /\ InHand(task[m][s]) # k
    BY <1>2 DEF TypeOK, Known
  <2> QED  BY <2>1, PlaceFields DEF Sets, Frees, InHand
<1>9. \A m \in Node, s \in Task :
          /\ Frees(task'[m][s]) => task'[m][s] = task[m][s]
          /\ JustSet(task'[m][s]) => task'[m][s] = task[m][s]
  BY <1>4, <1>6
<1>10. OwnTokens'
  BY <1>2, <1>4, <1>6, <1>7 DEF OwnTokens, HandsInv
<1>11. SetsApart'
  <2>1. \A m, j \in Node, s \in Task :
            Sets(task'[j][s]) => token'[m] # task'[j][s].new
    <3> SUFFICES ASSUME NEW m \in Node, NEW j \in Node, NEW s \in Task, Sets(task'[j][s])
                 PROVE  token'[m] # task'[j][s].new
      OBVIOUS
    <3>1. CASE j = n /\ s = t
      BY <1>4, <1>6, <1>7, <3>1
    <3>2. CASE ~(j = n /\ s = t)
      BY <1>6, <1>7, <1>8, <3>2, NodesDiffer DEF HandsInv, SetsApart
    <3> QED  BY <3>1, <3>2
  <2>2. ASSUME NEW m \in Node, NEW j \in Node, NEW s \in Task, NEW u \in Task,
               Sets(task'[m][s]), Sets(task'[j][u]), task'[m][s].new = task'[j][u].new
        PROVE  m = j /\ s = u
    <3>1. CASE m = n /\ s = t
      BY <1>4, <1>6, <1>8, <2>2, <3>1
    <3>2. CASE j = n /\ u = t
      BY <1>4, <1>6, <1>8, <2>2, <3>2
    <3>3. CASE ~(m = n /\ s = t) /\ ~(j = n /\ u = t)
      BY <1>6, <2>2, <3>3 DEF HandsInv, SetsApart
    <3> QED  BY <3>1, <3>2, <3>3
  <2> QED  BY <2>1, <2>2 DEF SetsApart
<1>12. FreesApart'
  <2> SUFFICES ASSUME NEW m \in Node, NEW s \in Task, Frees(task'[m][s])
               PROVE  /\ \A j \in Node : token'[j] # task'[m][s].mine
                      /\ \A j \in Node, u \in Task :
                            Sets(task'[j][u]) => task'[j][u].new # task'[m][s].mine
    BY DEF FreesApart
  <2>1. task'[m][s] = task[m][s] /\ task[m][s].mine \in Token /\ task[m][s].mine # k
    BY <1>8, <1>9
  <2>2. \A j \in Node : token'[j] # task[m][s].mine
    BY <1>7, <1>9, <2>1, NodesDiffer DEF HandsInv, FreesApart
  <2>3. ASSUME NEW j \in Node, NEW u \in Task, Sets(task'[j][u])
        PROVE  task'[j][u].new # task[m][s].mine
    <3>1. CASE j = n /\ u = t
      BY <1>4, <1>6, <2>1, <3>1
    <3>2. CASE ~(j = n /\ u = t)
      BY <1>6, <1>9, <2>1, <2>3, <3>2 DEF HandsInv, FreesApart
    <3> QED  BY <3>1, <3>2
  <2> QED  BY <2>1, <2>2, <2>3
<1>13. DelCompared'
  BY <1>4, <1>6 DEF DelCompared, At, HandsInv
<1>14. KeptShrinks
  <2> SUFFICES ASSUME NEW j \in Token, Kept(j)' PROVE Kept(j)
    BY DEF KeptShrinks
  <2> QED  BY <1>7, <1>9, NodesDiffer DEF Kept
<1> QED  BY <1>6, <1>10, <1>11, <1>12, <1>13, <1>14
         DEF HandsInv, SegmentType, SendSet, TypeOK

\* Competing is a SET, or a question for the Primary's heartbeat.
LEMMA CompeteKeeps ==
    ASSUME TypeOK, HandsInv, NEW n \in Node, NEW t \in Task, Compete(n, t),
           token' = token \/ token' = [token EXCEPT ![n] = None]
    PROVE  HandsInv' /\ KeptShrinks /\ SegmentType'
<1>1. CASE n = Primary
  BY <1>1, SendSetKeeps DEF Compete
<1>2. CASE n # Primary
  <2>1. Goto(n, t, [at |-> "exists"]) /\ proc' = proc
    BY <1>2 DEF Compete
  <2>2. HandsInv' /\ KeptShrinks /\ task' \in [Node -> [Task -> Place]]
    BY <2>1, PlainStep
  <2> QED  BY <2>1, <2>2 DEF SegmentType, TypeOK
<1> QED  BY <1>1, <1>2

\* A GET of a token that stays noted, to renew or to guard, frees nothing.
LEMMA AskKeeps ==
    ASSUME TypeOK, HandsInv, token' = token, proc' = proc,
           NEW n \in Node, NEW t \in Task, token[n] # None,
           NEW y \in {"renew", "guard"},
           Goto(n, t, [at |-> "get", why |-> y, mine |-> token[n]])
    PROVE  HandsInv' /\ KeptShrinks /\ SegmentType'
<1> DEFINE w == [at |-> "get", why |-> y, mine |-> token[n]]
<1>1. token[n] \in Token /\ token[n][1] = n /\ y \in Why
  BY DEF TypeOK, HandsInv, OwnTokens, Why
<1>2. /\ w \in Place /\ InHand(w) = token[n] /\ w.at = "get"
      /\ ~Sets(w) /\ ~Frees(w) /\ ~JustSet(w)
  BY <1>1, TokenPlaces, TokenHands
<1>3. Goto(n, t, w)
  OBVIOUS
<1> HIDE DEF w
<1>4. NoMore(w, task[n][t])
  BY <1>2 DEF NoMore
<1>5. \A m \in Node : token'[m] \in {token[m], None}
  OBVIOUS
<1>6. HandsInv' /\ KeptShrinks
  BY <1>1, <1>2, <1>3, <1>4, <1>5, HandsKept
<1>7. task' \in [Node -> [Task -> Place]]
  BY <1>2, <1>3, GotoType
<1> QED  BY <1>6, <1>7 DEF SegmentType, TypeOK

\* ensure_active_passive_lease, up to its first await.
LEMMA EnsureLeaseKeeps ==
    ASSUME TypeOK, HandsInv, NEW n \in Node, NEW t \in Task, EnsureLease(n, t)
    PROVE  HandsInv' /\ KeptShrinks /\ SegmentType'
<1>1. CASE token[n] = None
  BY <1>1, CompeteKeeps DEF EnsureLease
<1>2. CASE token[n] # None
  BY <1>2, AskKeeps DEF EnsureLease
<1> QED  BY <1>1, <1>2

-----------------------------------------------------------------------------
(* Each action keeps the invariant.                                        *)

\* With the key as it was, no token comes to be gone by, and a struck token is
\* remembered as long as somebody goes by it.
LEMMA KeptKeeps ==
    ASSUME KeptIsKey, lease' = lease, KeptShrinks, struck' = struck \/ Remember({})
    PROVE  KeptIsKey'
BY DEF KeptIsKey, KeptShrinks, Remember

\* What is remembered is a set of tokens.
LEMMA RememberType ==
    ASSUME TypeOK, NEW hit \in SUBSET Token, struck' = struck \/ Remember(hit)
    PROVE  struck' \subseteq Token
BY DEF TypeOK, Remember

\* A segment changes token, proc and task, and leaves the rest alone.
LEMMA SegmentInv ==
    ASSUME LeaseInv, HandsInv', KeptShrinks, SegmentType',
           UNCHANGED <<lease, keys, up>>, struck' = struck \/ Remember({}),
           messages' \in 0..MaxMessages, faults' \in 0..MaxFaults
    PROVE  LeaseInv'
<1>1. KeptIsKey'
  BY KeptKeeps DEF LeaseInv
<1>2. struck' \subseteq Token
  BY RememberType DEF LeaseInv
<1> QED  BY <1>1, <1>2 DEF LeaseInv, SegmentType, TypeOK, keys

\* The first segment of a loop round or of a message.
LEMMA BeginKeeps ==
    ASSUME LeaseInv, NEW n \in Node, Begin(n)
    PROVE  LeaseInv'
<1>0. TypeOK /\ HandsInv
  BY DEF LeaseInv
<1>1. "reconcile" \in Task /\ "guard" \in Task /\ MessageTask \subseteq Task
  BY DEF Task
<1>2. /\ messages \in 0..MaxMessages /\ faults \in 0..MaxFaults
      /\ messages < MaxMessages => messages + 1 \in 0..MaxMessages
  BY <1>0, BoundsAssumption DEF TypeOK
<1>3. CASE Reconcile(n)
  <2>1. HandsInv' /\ KeptShrinks /\ SegmentType'
    BY <1>0, <1>1, <1>3, EnsureLeaseKeeps DEF Reconcile
  <2> QED  BY <1>2, <1>3, <2>1, SegmentInv DEF Reconcile, counters
<1>4. CASE ReconcileStale(n)
  <2>1. HandsInv' /\ KeptShrinks /\ SegmentType'
    BY <1>0, <1>1, <1>4, StopServiceKeeps DEF ReconcileStale
  <2> QED  BY <1>2, <1>4, <2>1, SegmentInv DEF ReconcileStale
<1>5. CASE Guard(n)
  <2>1. CASE token[n] = None
    <3>1. HandsInv' /\ KeptShrinks /\ SegmentType'
      BY <1>0, <1>1, <1>5, <2>1, StopServiceKeeps DEF Guard
    <3> QED  BY <1>2, <1>5, <3>1, SegmentInv DEF Guard, counters
  <2>2. CASE token[n] # None
    <3>1. HandsInv' /\ KeptShrinks /\ SegmentType'
      BY <1>0, <1>1, <1>5, <2>2, AskKeeps DEF Guard
    <3> QED  BY <1>2, <1>5, <3>1, SegmentInv DEF Guard, counters
  <2> QED  BY <2>1, <2>2
<1>6. ASSUME NEW t \in MessageTask, Message(n, t) PROVE LeaseInv'
  <2>1. HandsInv' /\ KeptShrinks /\ SegmentType'
    BY <1>0, <1>1, <1>6, EnsureLeaseKeeps, StopServiceKeeps DEF Message
  <2> QED  BY <1>2, <1>6, <2>1, SegmentInv DEF Message
<1> QED  BY <1>3, <1>4, <1>5, <1>6 DEF Begin

\* GET compares; the token stays as it is in hand.
LEMMA ExecuteGetKeeps ==
    ASSUME LeaseInv, NEW n \in Node, NEW t \in Task, ExecuteGet(n, t)
    PROVE  LeaseInv'
<1>0. TypeOK /\ HandsInv
  BY DEF LeaseInv
<1> DEFINE v == task[n][t]
           b == lease = v.mine
           w == [at |-> "got", why |-> v.why, mine |-> v.mine, same |-> b]
<1>1. v \in Place /\ v.at = "get"
  BY <1>0 DEF TypeOK, ExecuteGet, At
<1>2. v.mine \in Token /\ v.why \in Why /\ b \in BOOLEAN
  BY <1>1, PlaceFields
<1>3. /\ w \in Place /\ InHand(w) = v.mine /\ w.at = "got" /\ w.mine = v.mine
      /\ Frees(w) <=> v.why = "release"
      /\ ~Sets(w) /\ ~JustSet(w)
  <2>1. w.at = "got" /\ w.mine = v.mine /\ w.why = v.why
    OBVIOUS
  <2>2. w \in Place
    BY <1>2, TokenPlaces
  <2> HIDE DEF w
  <2> QED  BY <2>1, <2>2 DEF InHand, Frees, Sets, JustSet
<1>4. InHand(v) = v.mine /\ (v.why = "release" => Frees(v))
  BY <1>1 DEF InHand, Frees
<1>5. Goto(n, t, w)
  BY DEF ExecuteGet
<1>6. NoMore(w, v)
  BY <1>3, <1>4 DEF NoMore
<1>7. v.mine[1] = n
  BY <1>0, <1>2, <1>4, NodesDiffer DEF HandsInv, OwnTokens, v
<1>8. HandsInv' /\ KeptShrinks /\ task' \in [Node -> [Task -> Place]]
  <2>1. InHand(w) = None \/ InHand(w)[1] = n
    BY <1>3, <1>7
  <2>2. \A m \in Node : token'[m] \in {token[m], None}
    BY DEF ExecuteGet
  <2>3. NoMore(w, task[n][t])
    BY <1>6
  <2> HIDE DEF w, v
  <2> QED  BY <1>0, <1>3, <1>5, <2>1, <2>2, <2>3, HandsKept, GotoType
<1> QED  BY <1>0, <1>8, SegmentInv DEF ExecuteGet, SegmentType, TypeOK, counters

\* SET NX stores a token only where no key is, so where what anybody goes by
\* was struck; the token is then gone by itself, and in the key.
LEMMA ExecuteSetKeeps ==
    ASSUME LeaseInv, NEW n \in Node, NEW t \in Task, ExecuteSet(n, t)
    PROVE  LeaseInv'
<1>0. TypeOK /\ HandsInv /\ KeptIsKey
  BY DEF LeaseInv
<1> DEFINE v == task[n][t]
           k == v.new
           b == lease = None
           w == [at |-> "stored", new |-> k, ok |-> b]
<1>1. v \in Place /\ v.at = "set"
  BY <1>0 DEF TypeOK, ExecuteSet, At
<1>2. k \in Token /\ InHand(v) = k /\ Sets(v) /\ b \in BOOLEAN
  BY <1>1, PlaceFields DEF InHand, Sets
<1>3. k[1] = n /\ k # None
  BY <1>0, <1>2, NodesDiffer DEF HandsInv, OwnTokens
<1>4. /\ w \in Place /\ InHand(w) = k /\ w.at = "stored" /\ w.new = k
      /\ JustSet(w) <=> b
      /\ ~Frees(w)
  <2>1. "renew" \in Why
    BY DEF Why
  <2> HIDE DEF k, b
  <2> QED  BY <1>2, <2>1, TokenPlaces, TokenHands DEF w
<1>5. Goto(n, t, w)
  BY DEF ExecuteSet
<1>6. /\ task' \in [Node -> [Task -> Place]]
      /\ task'[n][t] = w
      /\ \A m \in Node, s \in Task : m # n \/ s # t => task'[m][s] = task[m][s]
  <2> HIDE DEF w
  <2> QED  BY <1>0, <1>4, <1>5, GotoType
<1>7. token' = token /\ struck' = struck
  BY DEF ExecuteSet
<1>8. \A m \in Node, s \in Task :
          Sets(task'[m][s]) => Sets(task[m][s]) /\ task'[m][s].new = task[m][s].new
  <2> HIDE DEF w
  <2> QED  BY <1>2, <1>4, <1>6
<1>9. \A m \in Node, s \in Task : Frees(task'[m][s]) => task'[m][s] = task[m][s]
  <2> HIDE DEF w
  <2> QED  BY <1>4, <1>6
<1>10. HandsInv'
  <2> HIDE DEF w, k, v
  <2>1. OwnTokens'
    BY <1>0, <1>3, <1>4, <1>6, <1>7 DEF HandsInv, OwnTokens
  <2>2. SetsApart'
    BY <1>0, <1>7, <1>8 DEF HandsInv, SetsApart
  <2>3. FreesApart'
    BY <1>0, <1>7, <1>8, <1>9 DEF HandsInv, FreesApart
  <2>4. DelCompared'
    BY <1>0, <1>4, <1>6 DEF HandsInv, DelCompared, At
  <2> QED  BY <2>1, <2>2, <2>3, <2>4 DEF HandsInv
<1>11. KeptIsKey'
  <2> SUFFICES ASSUME NEW j \in Token, Kept(j)' PROVE lease' = j \/ j \in struck'
    BY DEF KeptIsKey
  <2>1. CASE Kept(j)
    <3>1. lease = j => b = FALSE
      BY NodesDiffer
    <3> QED  BY <1>0, <1>7, <2>1, <3>1 DEF KeptIsKey, ExecuteSet
  <2>2. CASE ~Kept(j)
    <3> HIDE DEF w, k, v, b
    <3>1. \A m \in Node, s \in Task :
              JustSet(task'[m][s]) /\ ~(m = n /\ s = t) => JustSet(task[m][s])
                  /\ task'[m][s].new = task[m][s].new
      BY <1>6
    <3>2. j = k /\ b
      BY <1>4, <1>6, <1>7, <2>2, <3>1 DEF Kept
    <3> QED  BY <3>2 DEF ExecuteSet, b, k, v
  <2> QED  BY <2>1, <2>2
<1>12. lease' \in Token \cup {None}
  BY <1>0, <1>2 DEF ExecuteSet, TypeOK
<1> QED  BY <1>0, <1>6, <1>10, <1>11, <1>12
         DEF ExecuteSet, LeaseInv, TypeOK, counters, keys

\* DEL deletes whatever key there is.  What anybody goes by is not the token
\* that is being released; if it was in the key, it is struck now.
LEMMA ExecuteDelKeeps ==
    ASSUME LeaseInv, NEW n \in Node, NEW t \in Task, ExecuteDel(n, t)
    PROVE  LeaseInv'
<1>0. TypeOK /\ HandsInv /\ KeptIsKey
  BY DEF LeaseInv
<1> DEFINE v == task[n][t]
           hit == IF v.same THEN {lease} \ {None, v.mine} ELSE {}
<1>1. v.same /\ Frees(v)
  BY <1>0 DEF ExecuteDel, At, HandsInv, DelCompared, Frees
<1>2. Goto(n, t, [at |-> "idle"]) /\ token' = token /\ lease' = None /\ Remember(hit)
  BY DEF ExecuteDel, Idle
<1>3. HandsInv' /\ KeptShrinks /\ task' \in [Node -> [Task -> Place]]
  BY <1>0, <1>2, PlainStep
<1>4. hit = {lease} \ {None, v.mine}
  BY <1>1
<1>5. hit \in SUBSET Token
  BY <1>0, <1>4 DEF TypeOK
<1>6. ~Kept(v.mine)
  <2> SUFFICES ASSUME Kept(v.mine) PROVE FALSE
    OBVIOUS
  <2>1. /\ \A m \in Node : token[m] # v.mine
        /\ \A m \in Node, s \in Task : Sets(task[m][s]) => task[m][s].new # v.mine
    BY <1>0, <1>1 DEF HandsInv, FreesApart
  <2>2. \A m \in Node, s \in Task : JustSet(task[m][s]) => Sets(task[m][s])
    BY DEF JustSet, Sets
  <2> QED  BY <2>1, <2>2 DEF Kept
<1> HIDE DEF hit, v
<1>7. KeptIsKey'
  <2> SUFFICES ASSUME NEW k \in Token, Kept(k)' PROVE k \in struck'
    BY DEF KeptIsKey
  <2>1. Kept(k)
    BY <1>3 DEF KeptShrinks
  <2>2. k \in struck \cup hit
    BY <1>0, <1>4, <1>6, <2>1, NodesDiffer DEF KeptIsKey
  <2> QED  BY <1>2, <2>2 DEF Remember
<1>8. struck' \subseteq Token
  BY <1>0, <1>2, <1>5, RememberType
<1> QED  BY <1>0, <1>2, <1>3, <1>7, <1>8
         DEF ExecuteDel, LeaseInv, TypeOK, counters, keys

\* A segment of a coroutine that a reply resumes, in the cases that note no
\* token.
LEMMA ReplyKeeps ==
    ASSUME LeaseInv, NEW n \in Node, NEW t \in Task,
           \/ Expired(n, t) \/ RenewReply(n, t) \/ GuardReply(n, t)
           \/ ExistsReply(n, t) \/ Spawned(n, t)
    PROVE  LeaseInv'
<1>0. TypeOK /\ HandsInv /\ messages \in 0..MaxMessages /\ faults \in 0..MaxFaults
  BY DEF LeaseInv, TypeOK
<1>1. UNCHANGED <<lease, keys, up, counters>> /\ (struck' = struck \/ Remember({}))
  BY DEF Expired, RenewReply, GuardReply, ExistsReply, Spawned
<1>2. HandsInv' /\ KeptShrinks /\ SegmentType'
  <2>1. CASE Expired(n, t)
    BY <1>0, <2>1, ServeKeeps DEF Expired
  <2>2. CASE RenewReply(n, t)
    <3>1. CASE Goto(n, t, [at |-> "expire"]) /\ UNCHANGED <<token, proc>>
      BY <1>0, <3>1, PlainStep DEF SegmentType, TypeOK
    <3>2. CASE token' = [token EXCEPT ![n] = None] /\ Compete(n, t)
      BY <1>0, <3>2, CompeteKeeps
    <3> QED  BY <2>2, <3>1, <3>2 DEF RenewReply
  <2>3. CASE GuardReply(n, t)
    <3>1. CASE Goto(n, t, Idle) /\ UNCHANGED <<token, proc>>
      <4>1. Goto(n, t, [at |-> "idle"])
        BY <3>1 DEF Idle
      <4> QED  BY <1>0, <3>1, <4>1, PlainStep DEF SegmentType, TypeOK
    <3>2. CASE StopService(n, t)
      BY <1>0, <3>2, StopServiceKeeps
    <3> QED  BY <2>3, <3>1, <3>2 DEF GuardReply
  <2>4. CASE ExistsReply(n, t)
    BY <1>0, <2>4, StayPassiveKeeps, SendSetKeeps DEF ExistsReply
  <2>5. CASE Spawned(n, t)
    <3>1. Goto(n, t, [at |-> "idle"]) /\ token' = token
      BY <2>5 DEF Spawned, Idle
    <3>2. HandsInv' /\ KeptShrinks /\ task' \in [Node -> [Task -> Place]]
      BY <1>0, <3>1, PlainStep
    <3>3. proc' \in [Node -> {"none", "running", "exited"}]
      BY <1>0, <2>5 DEF Spawned, TypeOK
    <3> QED  BY <1>0, <3>1, <3>2, <3>3 DEF SegmentType, TypeOK
  <2> QED  BY <2>1, <2>2, <2>3, <2>4, <2>5
<1> QED  BY <1>0, <1>1, <1>2, SegmentInv DEF counters

\* A release goes on to its DEL only after it found its token in the key.
LEMMA ReleaseReplyKeeps ==
    ASSUME LeaseInv, NEW n \in Node, NEW t \in Task, ReleaseReply(n, t)
    PROVE  LeaseInv'
<1>0. TypeOK /\ HandsInv /\ messages \in 0..MaxMessages /\ faults \in 0..MaxFaults
  BY DEF LeaseInv, TypeOK
<1>1. UNCHANGED <<lease, keys, up, token, proc, counters, struck>>
  BY DEF ReleaseReply
<1> DEFINE v == task[n][t]
<1>2. CASE Got(n, t, "release", TRUE) /\ Goto(n, t, [v EXCEPT !.at = "del"])
  <2> DEFINE w == [at |-> "del", why |-> v.why, mine |-> v.mine, same |-> v.same]
  <2>1. /\ v \in Place /\ v.at = "got" /\ v.why = "release" /\ v.same
        /\ [v EXCEPT !.at = "del"] = w
    BY <1>0, <1>2 DEF Got, At, TypeOK, Place, Idle
  <2>2. v.mine \in Token /\ v.why \in Why /\ v.same \in BOOLEAN
    BY <2>1, PlaceFields
  <2>3. /\ w \in Place /\ InHand(w) = v.mine /\ ~Sets(w) /\ ~JustSet(w)
        /\ w.mine = v.mine /\ w.same
    <3>1. w.at = "del" /\ w.mine = v.mine /\ w.same = v.same
      OBVIOUS
    <3>2. w \in Place
      BY <2>2, TokenPlaces
    <3> HIDE DEF w
    <3> QED  BY <2>1, <3>1, <3>2 DEF InHand, Sets, JustSet
  <2>4. Frees(v) /\ InHand(v) = v.mine
    BY <2>1 DEF Frees, InHand
  <2>5. v.mine[1] = n
    BY <1>0, <2>2, <2>4, NodesDiffer DEF HandsInv, OwnTokens
  <2>6. Goto(n, t, w)
    BY <1>2, <2>1
  <2>7. NoMore(w, task[n][t])
    BY <2>3, <2>4 DEF NoMore
  <2>8. InHand(w)[1] = n
    BY <2>3, <2>5
  <2> HIDE DEF w, v
  <2>9. HandsInv' /\ KeptShrinks /\ task' \in [Node -> [Task -> Place]]
    BY <1>0, <1>1, <2>3, <2>6, <2>7, <2>8, HandsKept, GotoType
  <2> QED  BY <1>0, <1>1, <2>9, SegmentInv DEF SegmentType, TypeOK, counters
<1>3. CASE Goto(n, t, Idle)
  <2>1. Goto(n, t, [at |-> "idle"])
    BY <1>3 DEF Idle
  <2>2. HandsInv' /\ KeptShrinks /\ task' \in [Node -> [Task -> Place]]
    BY <1>0, <1>1, <2>1, PlainStep
  <2> QED  BY <1>0, <1>1, <2>2, SegmentInv DEF SegmentType, TypeOK, counters
<1> QED  BY <1>2, <1>3 DEF ReleaseReply

\* The reply of a SET that stored: its token is gone by as before, by the
\* worker now instead of the task.
LEMMA SetReplyKeeps ==
    ASSUME LeaseInv, NEW n \in Node, NEW t \in Task, SetReply(n, t)
    PROVE  LeaseInv'
<1>0. TypeOK /\ HandsInv /\ messages \in 0..MaxMessages /\ faults \in 0..MaxFaults
  BY DEF LeaseInv, TypeOK
<1>1. UNCHANGED <<lease, keys, up, counters>> /\ Remember({})
  BY DEF SetReply
<1> DEFINE v == task[n][t]
<1>2. CASE ~v.ok
  <2>1. StayPassive(n, t)
    BY <1>2 DEF SetReply
  <2>2. HandsInv' /\ KeptShrinks /\ SegmentType'
    BY <1>0, <2>1, StayPassiveKeeps
  <2> QED  BY <1>0, <1>1, <2>2, SegmentInv DEF counters
<1>3. CASE v.ok
  <2> DEFINE k == v.new
  <2>1. v \in Place /\ v.at = "stored" /\ JustSet(v) /\ Sets(v)
    BY <1>0, <1>3 DEF TypeOK, SetReply, At, JustSet, Sets
  <2>2. k \in Token /\ InHand(v) = k /\ k # None
    BY <2>1, PlaceFields, NodesDiffer DEF InHand
  <2>3. k[1] = n
    BY <1>0, <2>2 DEF HandsInv, OwnTokens
  <2>4. token' = [token EXCEPT ![n] = k] /\ Serve(n, t)
    BY <1>3 DEF SetReply
  <2>5. PICK a \in {"idle", "spawn"} : Goto(n, t, [at |-> a])
    BY <2>4 DEF Serve, Idle
  <2> DEFINE w == [at |-> a]
  <2>6. w \in Place /\ InHand(w) = None /\ ~Sets(w) /\ ~Frees(w) /\ ~JustSet(w) /\ w.at # "del"
    BY PlainPlaces, PlainHands DEF Idle
  <2>7. Goto(n, t, w)
    BY <2>5
  <2> HIDE DEF w
  <2>8. /\ task' \in [Node -> [Task -> Place]]
        /\ task'[n][t] = w
        /\ \A m \in Node, s \in Task : m # n \/ s # t => task'[m][s] = task[m][s]
    BY <1>0, <2>6, <2>7, GotoType
  <2>9. \A m \in Node, s \in Task :
            Sets(task'[m][s]) => /\ ~(m = n /\ s = t) /\ task'[m][s] = task[m][s]
                                 /\ task[m][s].new # k
    BY <1>0, <2>1, <2>6, <2>8 DEF HandsInv, SetsApart
  <2>10. \A m \in Node, s \in Task :
            Frees(task'[m][s]) => task'[m][s] = task[m][s] /\ task[m][s].mine # k
    BY <1>0, <2>1, <2>6, <2>8 DEF HandsInv, FreesApart
  <2>11. /\ token'[n] = k
         /\ \A m \in Node : m # n => token'[m] = token[m]
    BY <1>0, <2>4 DEF TypeOK
  <2>12. JustSet(task[n][t]) /\ task[n][t].new = k
    BY <2>1
  <2> HIDE DEF k, v
  <2>13. OwnTokens'
    BY <1>0, <2>3, <2>6, <2>8, <2>11 DEF HandsInv, OwnTokens
  <2>14. SetsApart'
    BY <1>0, <2>9, <2>11 DEF HandsInv, SetsApart
  <2>15. FreesApart'
    BY <1>0, <2>9, <2>10, <2>11 DEF HandsInv, FreesApart
  <2>16. DelCompared'
    BY <1>0, <2>6, <2>8 DEF HandsInv, DelCompared, At
  <2>17. KeptShrinks
    <3> SUFFICES ASSUME NEW j \in Token, Kept(j)' PROVE Kept(j)
      BY DEF KeptShrinks
    <3>1. \A m \in Node, s \in Task : JustSet(task'[m][s]) => task'[m][s] = task[m][s]
      BY <2>6, <2>8
    <3> QED  BY <2>11, <2>12, <3>1 DEF Kept
  <2>18. proc' \in [Node -> {"none", "running", "exited"}]
    BY <1>0, <2>4 DEF Serve, TypeOK
  <2>19. token' \in [Node -> Token \cup {None}]
    BY <1>0, <2>2, <2>4 DEF TypeOK
  <2>20. HandsInv' /\ SegmentType'
    BY <2>8, <2>13, <2>14, <2>15, <2>16, <2>18, <2>19 DEF HandsInv, SegmentType
  <2> QED  BY <1>0, <1>1, <2>17, <2>20, SegmentInv DEF counters
<1> QED  BY <1>2, <1>3

\* A call that fails ends its task.
LEMMA CallFailsKeeps ==
    ASSUME LeaseInv, NEW n \in Node, NEW t \in Task, CallFails(n, t)
    PROVE  LeaseInv'
<1>0. TypeOK /\ HandsInv /\ messages \in 0..MaxMessages
  BY DEF LeaseInv, TypeOK
<1>1. /\ UNCHANGED <<lease, keys, up, token, proc, messages>> /\ Remember({})
      /\ faults' \in 0..MaxFaults
  BY <1>0, BoundsAssumption DEF CallFails, Fault, TypeOK
<1>2. Goto(n, t, [at |-> "idle"])
  BY DEF CallFails, Idle
<1>3. HandsInv' /\ KeptShrinks /\ task' \in [Node -> [Task -> Place]]
  BY <1>0, <1>1, <1>2, PlainStep
<1> QED  BY <1>0, <1>1, <1>3, SegmentInv DEF SegmentType, TypeOK

\* A crash forgets tokens and tasks; the key stays until it expires.
LEMMA CrashKeeps ==
    ASSUME LeaseInv, NEW n \in Node, Crash(n)
    PROVE  LeaseInv'
<1>1. \A m \in Node : token'[m] \in {token[m], None}
  BY DEF Crash, LeaseInv, TypeOK
<1>2. \A m \in Node, s \in Task : task'[m][s] \in {task[m][s], Idle}
  BY DEF Crash, LeaseInv, TypeOK
<1>3. /\ Idle \in Place /\ InHand(Idle) = None
      /\ ~Sets(Idle) /\ ~Frees(Idle) /\ ~JustSet(Idle) /\ Idle.at # "del"
  BY PlainHands, PlainPlaces DEF Idle
<1>4. \A m \in Node, s \in Task :
          /\ Sets(task'[m][s]) \/ Frees(task'[m][s]) \/ JustSet(task'[m][s])
                => task'[m][s] = task[m][s]
          /\ InHand(task'[m][s]) # None => task'[m][s] = task[m][s]
          /\ task'[m][s].at = "del" => task'[m][s] = task[m][s]
  BY <1>2, <1>3
<1>5. lease' = lease /\ Remember({})
  BY DEF Crash
<1>6. \A m \in Node, s \in Task :
          /\ Sets(task[m][s]) => task[m][s].new \in Token
          /\ Frees(task[m][s]) => task[m][s].mine \in Token
  BY PlaceFields DEF LeaseInv, TypeOK, Sets, Frees
<1>7. TypeOK'
  <2>1. /\ up' \in [Node -> BOOLEAN]
        /\ token' \in [Node -> Token \cup {None}]
        /\ proc' \in [Node -> {"none", "running", "exited"}]
        /\ task' \in [Node -> [Task -> Place]]
    BY <1>3 DEF Crash, LeaseInv, TypeOK
  <2>2. faults' \in 0..MaxFaults
    BY BoundsAssumption DEF Crash, Fault, LeaseInv, TypeOK
  <2>3. struck' \subseteq Token
    BY <1>5, RememberType DEF LeaseInv
  <2> QED  BY <2>1, <2>2, <2>3 DEF Crash, LeaseInv, TypeOK
<1>8. OwnTokens'
  BY <1>1, <1>4 DEF LeaseInv, HandsInv, OwnTokens
<1>9. SetsApart'
  BY <1>1, <1>4, <1>6, NodesDiffer DEF LeaseInv, HandsInv, SetsApart
<1>10. FreesApart'
  BY <1>1, <1>4, <1>6, NodesDiffer DEF LeaseInv, HandsInv, FreesApart
<1>11. DelCompared'
  BY <1>4 DEF LeaseInv, HandsInv, DelCompared, At
<1>12. KeptShrinks
  BY <1>1, <1>4, NodesDiffer DEF KeptShrinks, Kept
<1>13. KeptIsKey'
  BY <1>5, <1>12, KeptKeeps DEF LeaseInv
<1> QED  BY <1>7, <1>8, <1>9, <1>10, <1>11, <1>13 DEF LeaseInv, HandsInv

\* The key expires when nobody goes by its token: what they do go by was struck.
LEMMA LeaseExpiresKeeps ==
    ASSUME LeaseInv, LeaseExpires
    PROVE  LeaseInv'
<1>1. /\ lease' = None /\ ~Kept(lease)
      /\ UNCHANGED <<keys, up, token, proc, task, counters, struck>>
  BY DEF LeaseExpires
<1>2. KeptIsKey'
  BY <1>1 DEF LeaseInv, KeptIsKey, Kept
<1>3. HandsInv'
  BY <1>1 DEF LeaseInv, HandsInv, OwnTokens, SetsApart, FreesApart, DelCompared, At
<1>4. TypeOK'
  BY <1>1 DEF LeaseInv, TypeOK, keys, counters
<1> QED  BY <1>2, <1>3, <1>4 DEF LeaseInv

\* A step that leaves lease, tokens and tasks alone.
LEMMA OtherKeeps ==
    ASSUME LeaseInv, UNCHANGED <<lease, token, task, struck>>, TypeOK'
    PROVE  LeaseInv'
BY DEF LeaseInv, HandsInv, OwnTokens, SetsApart, FreesApart, DelCompared, At,
       KeptIsKey, Kept

-----------------------------------------------------------------------------
(* The invariant.                                                          *)

\* At first nobody has anything.
LEMMA LeaseInvInit == Init => LeaseInv
<1> SUFFICES ASSUME Init PROVE LeaseInv
  OBVIOUS
<1>1. /\ Idle \in Place /\ InHand(Idle) = None
      /\ ~Sets(Idle) /\ ~Frees(Idle) /\ ~JustSet(Idle) /\ Idle.at # "del"
  BY PlainPlaces, PlainHands DEF Idle
<1>2. TypeOK
  <2>1. /\ up \in [Node -> BOOLEAN]
        /\ token \in [Node -> Token \cup {None}]
        /\ proc \in [Node -> {"none", "running", "exited"}]
        /\ task \in [Node -> [Task -> Place]]
    BY <1>1 DEF Init
  <2>2. hb \in BOOLEAN /\ waited \in BOOLEAN
    BY DEF Init
  <2>3. messages \in 0..MaxMessages /\ faults \in 0..MaxFaults
    BY BoundsAssumption DEF Init
  <2> QED  BY <2>1, <2>2, <2>3 DEF Init, TypeOK
<1>3. \A n \in Node, t \in Task : task[n][t] = Idle
  BY DEF Init
<1>4. \A n \in Node : token[n] = None
  BY DEF Init
<1>5. HandsInv
  BY <1>1, <1>3, <1>4 DEF HandsInv, OwnTokens, SetsApart, FreesApart, DelCompared, At
<1>6. KeptIsKey
  BY <1>1, <1>3, <1>4, NodesDiffer DEF KeptIsKey, Kept
<1> QED  BY <1>2, <1>5, <1>6 DEF LeaseInv

\* No command, reply, round, message or fault breaks the invariant.
LEMMA LeaseInvStep == LeaseInv /\ [Next]_vars => LeaseInv'
<1> SUFFICES ASSUME LeaseInv, [Next]_vars PROVE LeaseInv'
  OBVIOUS
<1>0. TypeOK
  BY DEF LeaseInv
<1>1. CASE HeartbeatExpires
  BY <1>0, <1>1, OtherKeeps DEF HeartbeatExpires, TypeOK, counters
<1>2. CASE LeaseExpires
  BY <1>2, LeaseExpiresKeeps
<1>3. CASE Wait
  BY <1>0, <1>3, OtherKeeps DEF Wait, TypeOK, counters
<1>4. ASSUME NEW n \in Node, Begin(n) PROVE LeaseInv'
  BY <1>4, BeginKeeps
<1>5. ASSUME NEW n \in Node, FfmpegExit(n) PROVE LeaseInv'
  <2>1. proc' \in [Node -> {"none", "running", "exited"}]
    BY <1>0, <1>5 DEF FfmpegExit, TypeOK
  <2>2. faults' \in 0..MaxFaults
    BY <1>0, <1>5, BoundsAssumption DEF FfmpegExit, Fault, TypeOK
  <2>3. TypeOK'
    BY <1>0, <1>5, <2>1, <2>2 DEF FfmpegExit, TypeOK, keys
  <2> QED  BY <1>5, <2>3, OtherKeeps DEF FfmpegExit
<1>6. ASSUME NEW n \in Node, Crash(n) PROVE LeaseInv'
  BY <1>6, CrashKeeps
<1>7. ASSUME NEW n \in Node, Boot(n) PROVE LeaseInv'
  <2>1. up' \in [Node -> BOOLEAN]
    BY <1>0, <1>7 DEF Boot, TypeOK
  <2>2. hb' \in BOOLEAN
    BY <1>0, <1>7, Zenon DEF Boot, TypeOK
  <2>3. TypeOK'
    BY <1>0, <1>7, <2>1, <2>2 DEF Boot, TypeOK, counters
  <2> QED  BY <1>7, <2>3, OtherKeeps DEF Boot
<1>8. ASSUME NEW n \in Node, NEW t \in Task, Execute(n, t) PROVE LeaseInv'
  BY <1>8, ExecuteGetKeeps, ExecuteSetKeeps, ExecuteDelKeeps DEF Execute
<1>9. ASSUME NEW n \in Node, NEW t \in Task, Resume(n, t) PROVE LeaseInv'
  BY <1>9, ReplyKeeps, ReleaseReplyKeeps, SetReplyKeeps DEF Resume
<1>10. ASSUME NEW n \in Node, NEW t \in Task, CallFails(n, t) PROVE LeaseInv'
  BY <1>10, CallFailsKeeps
<1>11. CASE UNCHANGED vars
  <2>1. TypeOK'
    BY <1>0, <1>11 DEF vars, keys, TypeOK
  <2> QED  BY <1>11, <2>1, OtherKeeps DEF vars
<1> QED  BY <1>1, <1>2, <1>3, <1>4, <1>5, <1>6, <1>7, <1>8, <1>9, <1>10, <1>11
         DEF Next, Continue

\* Every reachable state satisfies it, whatever the fairness.
LEMMA LeaseInvAlways == Spec => []LeaseInv
BY LeaseInvInit, LeaseInvStep, PTL DEF Spec

\* Every reachable state is of the declared types.
THEOREM TypeCorrect == Spec => []TypeOK
<1>1. LeaseInv => TypeOK
  BY DEF LeaseInv
<1> QED  BY <1>1, LeaseInvAlways, PTL

\* A worker that has a token noted has that token in the key, or another
\* release's DEL struck it, for any number of message tasks, tokens, messages
\* and faults, and although the key of a token that is being released may
\* expire and be set again at any moment (worker.py:172-196, 206-213).
THEOREM TokenKey == Spec => []TokenIsKey
<1>1. LeaseInv => TokenIsKey
  <2> SUFFICES ASSUME LeaseInv, NEW n \in Node, token[n] # None
               PROVE  lease = token[n] \/ token[n] \in struck
    BY DEF TokenIsKey
  <2>1. token[n] \in Token /\ Kept(token[n])
    BY DEF LeaseInv, TypeOK, Kept
  <2> QED  BY <2>1 DEF LeaseInv, KeptIsKey
<1> QED  BY <1>1, LeaseInvAlways, PTL

-----------------------------------------------------------------------------
(* Refinement: the single calls implement Ownership.                       *)

ServedByOwner ==
    /\ lease = None => serving = {}
    /\ lease # None => owner \in Node /\ serving \in {{}, {owner}}

\* Whoever serves is the worker whose token the key holds.
LEMMA OnlyOwnerServes == LeaseInv => ServedByOwner
<1> SUFFICES ASSUME LeaseInv PROVE ServedByOwner
  OBVIOUS
<1>1. \A n \in serving : n \in Node /\ lease # None /\ n = owner
  <2> SUFFICES ASSUME NEW n \in serving PROVE n \in Node /\ lease # None /\ n = owner
    OBVIOUS
  <2>1. n \in Node /\ token[n] # None /\ token[n] \notin struck
    BY DEF serving
  <2>2. token[n] \in Token /\ Kept(token[n])
    BY <2>1 DEF LeaseInv, TypeOK, Kept
  <2>3. lease = token[n] /\ token[n][1] = n
    BY <2>1, <2>2 DEF LeaseInv, KeptIsKey, HandsInv, OwnTokens
  <2> QED  BY <2>1, <2>3 DEF owner
<1>2. lease # None => owner \in Node
  BY DEF LeaseInv, TypeOK, Token, owner
<1> QED  BY <1>1, <1>2 DEF ServedByOwner

\* The key never goes from one token to another in one step.
LEMMA ThroughNone ==
    ASSUME [Next]_vars
    PROVE  lease' = lease \/ lease = None \/ lease' = None
<1>1. CASE HeartbeatExpires \/ LeaseExpires \/ Wait
  BY <1>1 DEF HeartbeatExpires, LeaseExpires, Wait
<1>2. ASSUME NEW n \in Node, Begin(n) \/ FfmpegExit(n) \/ Crash(n) \/ Boot(n)
      PROVE  lease' = lease
  BY <1>2 DEF Begin, Reconcile, ReconcileStale, Guard, Message, FfmpegExit, Crash, Boot
<1>3. ASSUME NEW n \in Node, NEW t \in Task,
             Execute(n, t) \/ Resume(n, t) \/ CallFails(n, t)
      PROVE  lease' = lease \/ lease = None \/ lease' = None
  <2>1. CASE Execute(n, t)
    BY <2>1 DEF Execute, ExecuteGet, ExecuteSet, ExecuteDel
  <2>2. CASE Resume(n, t)
    BY <2>2 DEF Resume, Expired, RenewReply, GuardReply, ReleaseReply, ExistsReply,
                SetReply, Spawned
  <2>3. CASE CallFails(n, t)
    BY <2>3 DEF CallFails
  <2> QED  BY <1>3, <2>1, <2>2, <2>3
<1>4. CASE UNCHANGED vars
  BY <1>4 DEF vars
<1> QED  BY <1>1, <1>2, <1>3, <1>4 DEF Next, Continue

\* A step between such states is a step of Ownership.
LEMMA PromiseStep ==
    ASSUME ServedByOwner, ServedByOwner', [Next]_vars
    PROVE  [Promise!Next]_<<owner, serving>>
<1>1. CASE lease' = None
  <2>1. owner' = None /\ serving' = {}
    BY <1>1 DEF ServedByOwner, owner
  <2>2. Promise!Yield
    BY <2>1 DEF Promise!Yield
  <2> QED  BY <2>2 DEF Promise!Next
<1>2. CASE lease' # None /\ (lease = None \/ lease' = lease)
  <2>1. PICK n \in Node : owner' = n /\ serving' \in {{}, {n}}
    BY <1>2 DEF ServedByOwner
  <2>2. owner \in {None, n}
    BY <1>2, <2>1 DEF owner
  <2>3. Promise!Own(n)
    BY <2>1, <2>2 DEF Promise!Own
  <2> QED  BY <2>3 DEF Promise!Next
<1> QED  BY <1>1, <1>2, ThroughNone

\* Whatever interleaves between the two calls of a pair, expiry included, the
\* lease is handed over only when nobody serves under it (worker.py:172-213).
THEOREM Implements == Spec => KeepsPromise
<1>1. Init => Promise!Init
  BY DEF Init, Promise!Init, owner, serving
<1>2. ServedByOwner /\ ServedByOwner' /\ [Next]_vars => [Promise!Next]_<<owner, serving>>
  BY PromiseStep
<1> QED  BY <1>1, <1>2, OnlyOwnerServes, LeaseInvAlways, PTL
         DEF Spec, KeepsPromise, Promise!Spec

=============================================================================
