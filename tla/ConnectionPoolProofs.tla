------------------------ MODULE ConnectionPoolProofs ------------------------
(* The pool, for any number of requests, accounts, connections and         *)
(* failovers.                                                              *)
EXTENDS ConnectionPool, FiniteSetFacts

-----------------------------------------------------------------------------
(* The inductive invariant.                                                *)

(* What is still to do where a request has not been answered.              *)
Plans ==
  {<<"find">>, <<"locking">>, <<"statement">>, <<"recover">>,
   <<"statement", "find">>, <<"statement", "statement">>}

PlanFits(r) ==
  /\ at[r] = "queued" => todo[r] \in Plans
  /\ at[r] = "statement" => todo[r] \in {<<>>, <<"find">>, <<"statement">>}
  /\ at[r] \notin {"queued", "statement"} => todo[r] = <<>>

(* A request has a connection exactly while a session of it is open, and   *)
(* locks exactly while its unit of work is locking, in their order.        *)
SessionOwns(r) ==
  /\ conn[r] # {} <=> at[r] \in InSession
  /\ Held(r) # {} => at[r] = "locking"
  /\ \A x \in Held(r) : x \in wants[r] /\ \A y \in wants[r] \ Held(r) : x < y

(* Only an answered request has an answer or a committed unit of work; it  *)
(* is not told that it timed out then.                                     *)
AnswerFits(r) ==
  /\ answer[r] # "none" => at[r] = "done"
  /\ r \in posted => at[r] = "done" /\ answer[r] # "timeout"

ConnectionsDisjoint ==
  \A r, s \in Request : r # s => conn[r] \cap conn[s] = {}

(* What every reachable state satisfies.                                   *)
PoolInductive ==
  /\ TypeOK
  /\ \A r \in Request : PlanFits(r) /\ SessionOwns(r) /\ AnswerFits(r)
  /\ ConnectionsDisjoint
  /\ NoStaleCheckout

-----------------------------------------------------------------------------
LEMMA PoolInit == Init => PoolInductive
<1> SUFFICES ASSUME Init PROVE PoolInductive
  OBVIOUS
<1> USE PoolAssumption DEF Init
<1>1. TypeOK
  BY DEF TypeOK, Steps, Answers, Conn
<1>2. \A r \in Request : PlanFits(r) /\ SessionOwns(r) /\ AnswerFits(r)
  BY DEF PlanFits, SessionOwns, AnswerFits, Held, InSession
<1>3. ConnectionsDisjoint /\ NoStaleCheckout
  BY DEF ConnectionsDisjoint, NoStaleCheckout
<1> QED BY <1>1, <1>2, <1>3 DEF PoolInductive

(* What is opened next is a session, and leaves a plan.                    *)
LEMMA PlanOpens ==
  ASSUME NEW p \in Plans
  PROVE  /\ p \in Seq(InSession) /\ p # <<>>
         /\ \/ Head(p) \in {"find", "locking", "recover"} /\ Tail(p) = <<>>
            \/ Head(p) = "statement" /\ Tail(p) \in {<<>>, <<"find">>, <<"statement">>}
<1>1. ASSUME NEW a \in InSession
      PROVE  <<a>> \in Seq(InSession) /\ <<a>> # <<>> /\ Head(<<a>>) = a /\ Tail(<<a>>) = <<>>
  OBVIOUS
<1>2. ASSUME NEW a \in InSession, NEW b \in InSession
      PROVE  /\ <<a, b>> \in Seq(InSession) /\ <<a, b>> # <<>>
             /\ Head(<<a, b>>) = a /\ Tail(<<a, b>>) = <<b>>
  OBVIOUS
<1> QED BY <1>1, <1>2 DEF Plans, InSession

LEMMA AfterStatement ==
  ASSUME NEW p \in {<<>>, <<"find">>, <<"statement">>}
  PROVE  p \in Seq(InSession) /\ (p # <<>> => p \in Plans)
<1>1. <<>> \in Seq(InSession)
  OBVIOUS
<1>2. <<"find">> \in Plans /\ <<"statement">> \in Plans
  BY DEF Plans
<1> QED BY <1>1, <1>2, PlanOpens

(* What a request asks for is a plan.                                      *)
LEMMA SessionsArePlans ==
  ASSUME NEW q \in Asks
  PROVE  Sessions[q.op] \in Plans /\ q.wants \in SUBSET Lockable
BY PoolAssumption DEF Sessions, Plans

(* A session that is closed leaves what the others have.                   *)
LEMMA CloseFrees ==
  ASSUME TypeOK, NEW r \in Request, Close(r)
  PROVE  /\ conn' \in [Request -> SUBSET (1 .. PoolSize)]
         /\ since' \in [Request -> Nat]
         /\ lock' \in [Lockable -> Request \cup {None}]
         /\ conn'[r] = {} /\ Held(r)' = {}
         /\ \A s \in Request \ {r} :
              conn'[s] = conn[s] /\ since'[s] = since[s] /\ Held(s)' = Held(s)
<1> USE DEF TypeOK, Close
<1>1. conn' \in [Request -> SUBSET (1 .. PoolSize)] /\ since' \in [Request -> Nat]
  OBVIOUS
<1>2. lock' \in [Lockable -> Request \cup {None}]
  OBVIOUS
<1>3. conn'[r] = {} /\ Held(r)' = {}
  BY PoolAssumption DEF Held
<1>4. ASSUME NEW s \in Request \ {r}
      PROVE  conn'[s] = conn[s] /\ since'[s] = since[s] /\ Held(s)' = Held(s)
  BY PoolAssumption DEF Held
<1> QED BY <1>1, <1>2, <1>3, <1>4

(* The session ends and the request with it.                               *)
LEMMA LastSessionEnds ==
  ASSUME PoolInductive, NEW r \in Request, NEW how \in {"ok", "error"},
         at[r] \in InSession, Close(r), Reply(r, how), UNCHANGED <<wants, era, up>>,
         posted' = posted \/ posted' = posted \cup {r},
         opened' \in [Conn -> Nat],
         \A s \in Request \ {r} : \A c \in conn[s] : opened'[c] = opened[c]
  PROVE  PoolInductive'
<1> USE DEF PoolInductive
<1>1. TypeOK
  OBVIOUS
<1> HIDE DEF PoolInductive
<1>2. /\ at' \in [Request -> Steps] /\ at'[r] = "done"
      /\ answer' \in [Request -> Answers] /\ answer'[r] = how
      /\ todo' \in [Request -> Seq(InSession)] /\ todo'[r] = <<>>
      /\ \A s \in Request \ {r} : at'[s] = at[s] /\ answer'[s] = answer[s] /\ todo'[s] = todo[s]
  BY <1>1 DEF TypeOK, Reply, Steps, Answers
<1>3. TypeOK'
  BY <1>1, <1>2, CloseFrees DEF TypeOK
<1>4. ASSUME NEW s \in Request PROVE PlanFits(s)' /\ SessionOwns(s)' /\ AnswerFits(s)'
  <2>1. CASE s = r
    BY <1>1, <1>2, <2>1, CloseFrees DEF PlanFits, SessionOwns, AnswerFits, InSession
  <2>2. CASE s # r
    <3>1. PlanFits(s) /\ SessionOwns(s) /\ AnswerFits(s)
      BY DEF PoolInductive
    <3>2. Held(s)' = Held(s) /\ conn'[s] = conn[s]
      BY <1>1, <2>2, CloseFrees
    <3> QED BY <1>2, <2>2, <3>1, <3>2 DEF PlanFits, SessionOwns, AnswerFits
  <2> QED BY <2>1, <2>2
<1>5. ConnectionsDisjoint'
  <2>1. ConnectionsDisjoint
    BY DEF PoolInductive
  <2> QED BY <1>1, <2>1, CloseFrees DEF ConnectionsDisjoint
<1>6. NoStaleCheckout'
  <2>1. NoStaleCheckout
    BY DEF PoolInductive
  <2> QED BY <1>1, <2>1, CloseFrees DEF NoStaleCheckout
<1> QED BY <1>3, <1>4, <1>5, <1>6 DEF PoolInductive

(* The session ends and the request asks for a connection again.           *)
LEMMA NextSessionQueues ==
  ASSUME PoolInductive, NEW r \in Request, NEW plan \in Plans,
         at[r] \in InSession, Close(r), at' = [at EXCEPT ![r] = "queued"],
         todo' = [todo EXCEPT ![r] = plan],
         UNCHANGED <<wants, opened, era, up, posted, answer>>
  PROVE  PoolInductive'
<1>1. TypeOK
  BY DEF PoolInductive
<1>2. /\ at' \in [Request -> Steps] /\ at'[r] = "queued"
      /\ todo' \in [Request -> Seq(InSession)] /\ todo'[r] = plan
      /\ \A s \in Request \ {r} : at'[s] = at[s] /\ todo'[s] = todo[s]
  BY <1>1, PlanOpens DEF TypeOK, Steps
<1>3. TypeOK'
  BY <1>1, <1>2, CloseFrees DEF TypeOK
<1>4. ASSUME NEW s \in Request PROVE PlanFits(s)' /\ SessionOwns(s)' /\ AnswerFits(s)'
  <2>1. PlanFits(s) /\ SessionOwns(s) /\ AnswerFits(s)
    BY DEF PoolInductive
  <2>2. CASE s = r
    BY <1>1, <1>2, <2>1, <2>2, CloseFrees DEF PlanFits, SessionOwns, AnswerFits, InSession
  <2>3. CASE s # r
    <3>1. Held(s)' = Held(s) /\ conn'[s] = conn[s]
      BY <1>1, <2>3, CloseFrees
    <3> QED BY <1>2, <2>1, <2>3, <3>1 DEF PlanFits, SessionOwns, AnswerFits
  <2> QED BY <2>2, <2>3
<1>5. ConnectionsDisjoint'
  <2>1. ConnectionsDisjoint
    BY DEF PoolInductive
  <2> QED BY <1>1, <2>1, CloseFrees DEF ConnectionsDisjoint
<1>6. NoStaleCheckout'
  <2>1. NoStaleCheckout
    BY DEF PoolInductive
  <2> QED BY <1>1, <2>1, CloseFrees DEF NoStaleCheckout
<1> QED BY <1>3, <1>4, <1>5, <1>6 DEF PoolInductive

(* A request gives up before it has a connection.                          *)
LEMMA QueueLeft ==
  ASSUME PoolInductive, NEW r \in Request, NEW how \in {"timeout", "error"},
         at[r] = "queued", Reply(r, how),
         UNCHANGED <<wants, conn, since, opened, era, up, lock, posted>>
  PROVE  PoolInductive'
<1>1. TypeOK /\ ConnectionsDisjoint /\ NoStaleCheckout
  BY DEF PoolInductive
<1>2. /\ at' \in [Request -> Steps] /\ at'[r] = "done"
      /\ answer' \in [Request -> Answers] /\ answer'[r] = how
      /\ todo' \in [Request -> Seq(InSession)] /\ todo'[r] = <<>>
      /\ \A s \in Request \ {r} : at'[s] = at[s] /\ answer'[s] = answer[s] /\ todo'[s] = todo[s]
  BY <1>1 DEF TypeOK, Reply, Steps, Answers
<1>3. TypeOK'
  BY <1>1, <1>2 DEF TypeOK
<1>4. ASSUME NEW s \in Request PROVE PlanFits(s)' /\ SessionOwns(s)' /\ AnswerFits(s)'
  <2>1. PlanFits(s) /\ SessionOwns(s) /\ AnswerFits(s)
    BY DEF PoolInductive
  <2>2. Held(s)' = Held(s)
    BY DEF Held
  <2> QED BY <1>2, <2>1, <2>2 DEF PlanFits, SessionOwns, AnswerFits, InSession
<1>5. ConnectionsDisjoint' /\ NoStaleCheckout'
  BY <1>1 DEF ConnectionsDisjoint, NoStaleCheckout
<1> QED BY <1>3, <1>4, <1>5 DEF PoolInductive

-----------------------------------------------------------------------------
LEMMA ArriveKeeps ==
  ASSUME PoolInductive, NEW r \in Request, Arrive(r)
  PROVE  PoolInductive'
<1>1. TypeOK /\ ConnectionsDisjoint /\ NoStaleCheckout
  BY DEF PoolInductive
<1>2. PICK q \in Asks : /\ todo' = [todo EXCEPT ![r] = Sessions[q.op]]
                        /\ wants' = [wants EXCEPT ![r] = q.wants]
  BY DEF Arrive
<1>3. /\ todo' \in [Request -> Seq(InSession)] /\ todo'[r] \in Plans
      /\ wants' \in [Request -> SUBSET Lockable]
      /\ at' \in [Request -> Steps] /\ at'[r] = "queued"
      /\ \A s \in Request \ {r} : todo'[s] = todo[s] /\ wants'[s] = wants[s] /\ at'[s] = at[s]
  BY <1>1, <1>2, SessionsArePlans, PlanOpens DEF TypeOK, Arrive, Steps
<1>4. TypeOK'
  BY <1>1, <1>3 DEF TypeOK, Arrive
<1>5. ASSUME NEW s \in Request PROVE PlanFits(s)' /\ SessionOwns(s)' /\ AnswerFits(s)'
  <2>1. PlanFits(s) /\ SessionOwns(s) /\ AnswerFits(s)
    BY DEF PoolInductive
  <2>2. Held(s)' = Held(s)
    BY DEF Held, Arrive
  <2>3. CASE s = r
    <3>1. Held(r) = {}
      BY <2>1, <2>3 DEF SessionOwns, Arrive
    <3> QED BY <1>3, <2>1, <2>2, <2>3, <3>1
            DEF PlanFits, SessionOwns, AnswerFits, InSession, Arrive
  <2>4. CASE s # r
    BY <1>3, <2>1, <2>2, <2>4 DEF PlanFits, SessionOwns, AnswerFits, Arrive
  <2> QED BY <2>3, <2>4
<1>6. ConnectionsDisjoint' /\ NoStaleCheckout'
  BY <1>1 DEF ConnectionsDisjoint, NoStaleCheckout, Arrive
<1> QED BY <1>4, <1>5, <1>6 DEF PoolInductive

(* A free connection is nobody's, so nobody else's era changes.            *)
LEMMA CheckoutKeeps ==
  ASSUME PoolInductive, NEW r \in Request, Checkout(r)
  PROVE  PoolInductive'
<1>1. TypeOK /\ ConnectionsDisjoint /\ NoStaleCheckout /\ PlanFits(r) /\ SessionOwns(r)
  BY DEF PoolInductive
<1>2. PICK c \in Free : /\ conn' = [conn EXCEPT ![r] = @ \cup {c}]
                        /\ opened' = [opened EXCEPT ![c] = HandedOut(c)]
  BY DEF Checkout
<1>3. c \in Conn /\ \A s \in Request : c \notin conn[s]
  BY DEF Free
<1>4. conn[r] = {} /\ Held(r) = {}
  BY <1>1 DEF SessionOwns, Checkout, InSession
<1>5. /\ conn' \in [Request -> SUBSET (1 .. PoolSize)] /\ conn'[r] = {c}
      /\ since' \in [Request -> Nat] /\ since'[r] = era
      /\ opened' \in [Conn -> Nat] /\ opened'[c] = era
      /\ \A s \in Request \ {r} : conn'[s] = conn[s] /\ since'[s] = since[s]
      /\ \A d \in Conn \ {c} : opened'[d] = opened[d]
  BY <1>1, <1>2, <1>3, <1>4 DEF TypeOK, Checkout, HandedOut, Conn
<1>6. /\ at'[r] = Head(todo[r]) /\ todo'[r] = Tail(todo[r])
      /\ \A s \in Request \ {r} : at'[s] = at[s] /\ todo'[s] = todo[s]
  BY <1>1 DEF TypeOK, Checkout
<1>7. /\ at'[r] \in InSession /\ PlanFits(r)' /\ todo'[r] \in Seq(InSession)
  BY <1>1, <1>6, PlanOpens, AfterStatement DEF PlanFits, Checkout, InSession
<1>8. at' \in [Request -> Steps] /\ todo' \in [Request -> Seq(InSession)]
  <2>1. /\ at' = [at EXCEPT ![r] = Head(todo[r])] /\ Head(todo[r]) \in Steps
        /\ todo' = [todo EXCEPT ![r] = Tail(todo[r])] /\ Tail(todo[r]) \in Seq(InSession)
    BY <1>1, <1>6, <1>7 DEF Checkout, Steps, TypeOK
  <2> QED BY <1>1, <2>1 DEF TypeOK
<1>9. TypeOK'
  BY <1>1, <1>5, <1>8 DEF TypeOK, Checkout
<1>10. ASSUME NEW s \in Request PROVE PlanFits(s)' /\ SessionOwns(s)' /\ AnswerFits(s)'
  <2>1. PlanFits(s) /\ SessionOwns(s) /\ AnswerFits(s)
    BY DEF PoolInductive
  <2>2. Held(s)' = Held(s)
    BY DEF Held, Checkout
  <2>3. CASE s = r
    BY <1>4, <1>5, <1>6, <1>7, <2>1, <2>2, <2>3 DEF SessionOwns, AnswerFits, Checkout
  <2>4. CASE s # r
    BY <1>5, <1>6, <2>1, <2>2, <2>4 DEF PlanFits, SessionOwns, AnswerFits, Checkout
  <2> QED BY <2>3, <2>4
<1>11. ConnectionsDisjoint'
  BY <1>1, <1>3, <1>5 DEF ConnectionsDisjoint
<1>12. NoStaleCheckout'
  <2>1. ASSUME NEW s \in Request, NEW d \in conn'[s] PROVE opened'[d] = since'[s]
    <3>1. CASE s = r
      BY <1>5, <3>1
    <3>2. CASE s # r
      <4>1. d \in Conn /\ d # c /\ opened[d] = since[s]
        BY <1>1, <1>3, <1>5, <3>2 DEF TypeOK, Conn, NoStaleCheckout
      <4> QED BY <1>5, <3>2, <4>1
    <3> QED BY <3>1, <3>2
  <2> QED BY <2>1 DEF NoStaleCheckout
<1> QED BY <1>9, <1>10, <1>11, <1>12 DEF PoolInductive

(* The unit of work starts to lock.                                        *)
LEMMA FindGoesOn ==
  ASSUME PoolInductive, NEW r \in Request, at[r] = "find",
         at' = [at EXCEPT ![r] = "locking"],
         UNCHANGED <<conn, since, lock, todo, answer, wants, opened, era, up, posted>>
  PROVE  PoolInductive'
<1>1. TypeOK /\ ConnectionsDisjoint /\ NoStaleCheckout
  BY DEF PoolInductive
<1>2. /\ at' \in [Request -> Steps] /\ at'[r] = "locking"
      /\ \A s \in Request \ {r} : at'[s] = at[s]
  BY <1>1 DEF TypeOK, Steps, InSession
<1>3. TypeOK'
  BY <1>1, <1>2 DEF TypeOK
<1>4. ASSUME NEW s \in Request PROVE PlanFits(s)' /\ SessionOwns(s)' /\ AnswerFits(s)'
  <2>1. PlanFits(s) /\ SessionOwns(s) /\ AnswerFits(s)
    BY DEF PoolInductive
  <2>2. Held(s)' = Held(s)
    BY DEF Held
  <2> QED BY <1>2, <2>1, <2>2 DEF PlanFits, SessionOwns, AnswerFits, InSession
<1>5. ConnectionsDisjoint' /\ NoStaleCheckout'
  BY <1>1 DEF ConnectionsDisjoint, NoStaleCheckout
<1> QED BY <1>3, <1>4, <1>5 DEF PoolInductive

LEMMA LocksAreOrdered == Lockable \subseteq Nat
BY PoolAssumption DEF Lockable, Key

(* What is locked next comes before everything still to lock.              *)
LEMMA LockKeeps ==
  ASSUME PoolInductive, NEW r \in Request, Lock(r)
  PROVE  PoolInductive'
<1>1. TypeOK /\ ConnectionsDisjoint /\ NoStaleCheckout
  BY DEF PoolInductive
<1>2. PICK x \in Lockable : Due(r, x) /\ lock[x] = None /\ lock' = [lock EXCEPT ![x] = r]
  BY DEF Lock
<1>3. TypeOK'
  BY <1>1, <1>2 DEF TypeOK, Lock
<1>4. Held(r)' = Held(r) \cup {x}
  BY <1>1, <1>2 DEF TypeOK, Held
<1>5. ASSUME NEW s \in Request \ {r} PROVE Held(s)' = Held(s)
  BY <1>1, <1>2, PoolAssumption DEF TypeOK, Held
<1>6. ASSUME NEW s \in Request PROVE PlanFits(s)' /\ SessionOwns(s)' /\ AnswerFits(s)'
  <2>1. PlanFits(s) /\ SessionOwns(s) /\ AnswerFits(s)
    BY DEF PoolInductive
  <2>2. CASE s = r
    <3>1. ASSUME NEW y \in Held(r)' 
          PROVE  y \in wants[r] /\ \A z \in wants[r] \ Held(r)' : y < z
      <4>1. wants[r] \subseteq Nat /\ x \in wants[r]
        BY <1>1, <1>2, LocksAreOrdered DEF TypeOK, Due
      <4>2. \A z \in wants[r] \ Held(r)' : x <= z /\ x # z
        BY <1>2, <1>4 DEF Due
      <4> QED BY <1>4, <2>1, <2>2, <3>1, <4>1, <4>2 DEF SessionOwns
    <3> QED BY <2>1, <2>2, <3>1 DEF PlanFits, SessionOwns, AnswerFits, Lock
  <2>3. CASE s # r
    BY <1>5, <2>1, <2>3 DEF PlanFits, SessionOwns, AnswerFits, Lock
  <2> QED BY <2>2, <2>3
<1>7. ConnectionsDisjoint' /\ NoStaleCheckout'
  BY <1>1 DEF ConnectionsDisjoint, NoStaleCheckout, Lock
<1> QED BY <1>3, <1>6, <1>7 DEF PoolInductive

(* A failover frees all locks; who held some still has its connection.     *)
LEMMA FailoverKeeps ==
  ASSUME PoolInductive, Failover
  PROVE  PoolInductive'
<1>1. TypeOK /\ ConnectionsDisjoint /\ NoStaleCheckout
  BY DEF PoolInductive
<1>2. TypeOK'
  <2>1. era' \in Nat \ {0} /\ lock' \in [Lockable -> Request \cup {None}]
    BY <1>1 DEF TypeOK, Failover
  <2> QED BY <1>1, <2>1 DEF TypeOK, Failover
<1>3. ASSUME NEW s \in Request PROVE PlanFits(s)' /\ SessionOwns(s)' /\ AnswerFits(s)'
  <2>1. PlanFits(s) /\ SessionOwns(s) /\ AnswerFits(s)
    BY DEF PoolInductive
  <2>2. Held(s)' = {}
    BY PoolAssumption DEF Held, Failover
  <2> QED BY <2>1, <2>2 DEF PlanFits, SessionOwns, AnswerFits, Failover
<1>4. ConnectionsDisjoint' /\ NoStaleCheckout'
  BY <1>1 DEF ConnectionsDisjoint, NoStaleCheckout, Failover
<1> QED BY <1>2, <1>3, <1>4 DEF PoolInductive

(* Steps after which no request is different.                              *)
LEMMA NobodyMoves ==
  ASSUME PoolInductive,
         UNCHANGED <<at, todo, wants, conn, since, opened, era, lock, posted, answer>>,
         up' \in BOOLEAN
  PROVE  PoolInductive'
<1>1. TypeOK /\ ConnectionsDisjoint /\ NoStaleCheckout
  BY DEF PoolInductive
<1>2. ASSUME NEW s \in Request PROVE PlanFits(s)' /\ SessionOwns(s)' /\ AnswerFits(s)'
  <2>1. PlanFits(s) /\ SessionOwns(s) /\ AnswerFits(s)
    BY DEF PoolInductive
  <2> QED BY <2>1 DEF PlanFits, SessionOwns, AnswerFits, Held
<1>3. TypeOK' /\ ConnectionsDisjoint' /\ NoStaleCheckout'
  BY <1>1 DEF TypeOK, ConnectionsDisjoint, NoStaleCheckout
<1> QED BY <1>2, <1>3 DEF PoolInductive

(* Every step preserves it.                                                *)
LEMMA PoolStep == PoolInductive /\ [Next]_vars => PoolInductive'
<1> SUFFICES ASSUME PoolInductive, [Next]_vars PROVE PoolInductive'
  OBVIOUS
<1>1. TypeOK /\ \A r \in Request : PlanFits(r) /\ SessionOwns(r) /\ AnswerFits(r)
  BY DEF PoolInductive
<1>2. opened \in [Conn -> Nat] /\ ConnectionsDisjoint
  BY DEF PoolInductive, TypeOK
<1>3. ASSUME NEW r \in Request, EndStatement(r) PROVE PoolInductive'
  <2>1. todo[r] \in {<<>>, <<"find">>, <<"statement">>} /\ at[r] \in InSession
    BY <1>1, <1>3 DEF PlanFits, EndStatement, InSession
  <2>2. CASE todo[r] = <<>>
    BY <1>2, <1>3, <2>1, <2>2, LastSessionEnds DEF EndStatement, Continue
  <2>3. CASE todo[r] # <<>>
    <3>1. todo' = [todo EXCEPT ![r] = todo[r]]
      BY <1>1, <1>3, <2>3 DEF TypeOK, EndStatement, Continue
    <3> QED BY <1>3, <2>1, <2>3, <3>1, AfterStatement, NextSessionQueues
            DEF EndStatement, Continue
  <2> QED BY <2>2, <2>3
<1>4. ASSUME NEW r \in Request, at[r] \in {"find", "locking", "recover"}, Continue(r)
      PROVE  Reply(r, "ok")
  BY <1>1, <1>4 DEF PlanFits, Continue
<1>5. ASSUME NEW r \in Request, Find(r) PROVE PoolInductive'
  <2>1. CASE Key \in wants[r] /\ Spent
    BY <1>2, <1>4, <1>5, <2>1, LastSessionEnds DEF Find, InSession
  <2>2. CASE ~(Key \in wants[r] /\ Spent)
    BY <1>5, <2>2, FindGoesOn DEF Find
  <2> QED BY <2>1, <2>2
<1>6. ASSUME NEW r \in Request, LoseRace(r) PROVE PoolInductive'
  <2>1. todo[r] = <<>>
    BY <1>1, <1>6 DEF PlanFits, LoseRace
  <2>2. todo' = [todo EXCEPT ![r] = <<"recover">> \o todo[r]] /\ <<"recover">> \o <<>> = <<"recover">>
    BY <1>6 DEF LoseRace
  <2>3. todo' = [todo EXCEPT ![r] = <<"recover">>] /\ <<"recover">> \in Plans
    BY <2>1, <2>2 DEF Plans
  <2> QED BY <1>6, <2>3, NextSessionQueues DEF LoseRace, InSession
<1>7. ASSUME NEW r \in Request, Recover(r) PROVE PoolInductive'
  BY <1>2, <1>4, <1>7, LastSessionEnds DEF Recover, InSession
<1>8. ASSUME NEW r \in Request, Commit(r) PROVE PoolInductive'
  <2>1. Reply(r, "ok") \/ Reply(r, "error")
    BY <1>4, <1>8 DEF Commit
  <2> QED BY <1>2, <1>8, <2>1, LastSessionEnds DEF Commit, InSession
<1>9. ASSUME NEW r \in Request, Abort(r) PROVE PoolInductive'
  BY <1>2, <1>9, LastSessionEnds DEF Abort
<1>10. ASSUME NEW r \in Request, Break(r) PROVE PoolInductive'
  <2>1. opened' \in [Conn -> Nat]
    BY <1>2, <1>10 DEF Break
  <2>2. \A s \in Request \ {r} : \A c \in conn[s] : opened'[c] = opened[c]
    BY <1>1, <1>2, <1>10 DEF Break, ConnectionsDisjoint, TypeOK, Conn
  <2> QED BY <1>10, <2>1, <2>2, LastSessionEnds DEF Break
<1>11. ASSUME NEW r \in Request, CannotConnect(r) \/ TimeOut(r) PROVE PoolInductive'
  BY <1>11, QueueLeft DEF CannotConnect, TimeOut
<1>12. CASE ComesUp
  BY <1>12, NobodyMoves DEF ComesUp
<1>13. CASE UNCHANGED vars
  BY <1>1, <1>13, NobodyMoves DEF vars, TypeOK
<1> QED
  BY <1>3, <1>5, <1>6, <1>7, <1>8, <1>9, <1>10, <1>11, <1>12, <1>13,
     ArriveKeeps, CheckoutKeeps, LockKeeps, FailoverKeeps DEF Next, Proceed, AllServed

(* The invariant holds in every reachable state.                           *)
THEOREM PoolInvariant == Spec => []PoolInductive
BY PoolInit, PoolStep, PTL DEF Spec

-----------------------------------------------------------------------------
(* The process never opens more connections than the fleet's budget counts *)
(* for it, and every variable keeps its type.                              *)
THEOREM PoolTypes == Spec => []TypeOK
<1>1. PoolInductive => TypeOK
  BY DEF PoolInductive
<1> QED BY <1>1, PoolInvariant, PTL

(* Whoever waits for a connection holds neither a connection nor a lock.   *)
THEOREM QueueHoldsNothing == Spec => []NoHoldAndWait
<1>1. PoolInductive => NoHoldAndWait
  BY DEF PoolInductive, ConnectionsDisjoint, SessionOwns, InSession, NoHoldAndWait
<1> QED BY <1>1, PoolInvariant, PTL

(* A request that gave up waiting for a connection has posted nothing.     *)
THEOREM TimeOutIsSafe == Spec => []TimedOutPostedNothing
<1>1. PoolInductive => TimedOutPostedNothing
  BY DEF PoolInductive, AnswerFits, TimedOutPostedNothing
<1> QED BY <1>1, PoolInvariant, PTL

(* Nobody is handed a connection that a failover has severed before.       *)
THEOREM PingedFirst == Spec => []NoStaleCheckout
<1>1. PoolInductive => NoStaleCheckout
  BY DEF PoolInductive
<1> QED BY <1>1, PoolInvariant, PTL

-----------------------------------------------------------------------------
(* Of all that somebody waits for, look at what is locked last: who has it *)
(* waits for nothing that comes later.                                     *)
LEMMA SomebodyMoves == PoolInductive => SaturatedPoolMoves
<1> SUFFICES ASSUME PoolInductive, Free = {},
                    \A r \in Request : conn[r] # {} => at[r] = "queued" \/ Blocked(r)
             PROVE  FALSE
  BY DEF SaturatedPoolMoves
<1> DEFINE Awaited == {x \in Lockable : lock[x] # None /\ \E r \in Request : Blocked(r) /\ Due(r, x)}
<1>1. TypeOK /\ \A r \in Request : SessionOwns(r)
  BY DEF PoolInductive
<1>2. \A r \in Request : conn[r] # {} => Blocked(r)
  BY <1>1 DEF SessionOwns, InSession
<1>3. PICK r \in Request : conn[r] # {}
  <2>1. 1 \in Conn
    BY PoolAssumption DEF Conn
  <2> QED BY <2>1 DEF Free
<1>4. \A s \in Request : Blocked(s) => \E y \in Awaited : Due(s, y)
  BY DEF Blocked
<1>5. Awaited # {}
  BY <1>2, <1>3, <1>4
<1>6. Awaited \subseteq Nat /\ IsFiniteSet(Awaited)
  <2>1. IsFiniteSet(Lockable)
    BY PoolAssumption, FS_Singleton, FS_Union DEF Lockable
  <2>2. Awaited \subseteq Lockable
    OBVIOUS
  <2> HIDE DEF Awaited
  <2> QED BY <2>1, <2>2, FS_Subset, LocksAreOrdered
<1>7. PICK x \in Awaited : \A y \in Awaited : y <= x
  <2> HIDE DEF Awaited
  <2> QED BY <1>5, <1>6, GreatestOf
<1>8. PICK s \in Request : lock[x] = s
  BY <1>1 DEF TypeOK
<1>9. x \in Held(s)
  BY <1>8 DEF Held
<1>10. PICK y \in Awaited : Due(s, y)
  BY <1>1, <1>2, <1>4, <1>9 DEF SessionOwns, InSession
<1>11. x < y
  BY <1>1, <1>9, <1>10 DEF SessionOwns, Due
<1> QED BY <1>6, <1>7, <1>10, <1>11

(* Requests may fill the pool waiting for rows, but never all of them: one *)
(* can always go on and will give its connection back.                     *)
THEOREM PoolEmptiesItself == Spec => []SaturatedPoolMoves
BY SomebodyMoves, PoolInvariant, PTL
=============================================================================
