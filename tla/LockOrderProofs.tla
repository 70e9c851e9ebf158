-------------------------- MODULE LockOrderProofs --------------------------
(***************************************************************************)
(* Row locks are taken in one order, so transactions never deadlock: for   *)
(* any accounts, any number of attempts and any requests.                  *)
(***************************************************************************)
EXTENDS AccountServiceProofs, FiniteSetFacts

(* What an attempt has locked comes before everything it has yet to lock.  *)
LocksInOrder ==
  \A p \in Attempt :
    pc[p] = "lock" => \A a \in Held(p), b \in Legs(p) \ Held(p) : a < b

Step(p) ==
  Arrive(p) \/ TurnAway(p) \/ Advance(p) \/ CommitUnheard(p) \/ Abort(p)

-----------------------------------------------------------------------------
(* An ending attempt leaves the others at their step, with their rows.     *)
LEMMA FinishLeavesOthers ==
  ASSUME AttemptTypeOK, NEW p \in Attempt, NEW s \in Attempt \ {p},
         NEW status, NEW t, Finish(p, status, t)
  PROVE  /\ pc'[s] = pc[s] /\ request'[s] = request[s] /\ draft'[s] = draft[s]
         /\ Held(s)' = Held(s)
<1>1. pc'[s] = pc[s] /\ request'[s] = request[s] /\ draft'[s] = draft[s]
  BY DEF AttemptTypeOK, Finish
<1>2. \A a \in UserAccount : lock'[a] = s <=> lock[a] = s
  BY MovementsAssumption DEF Finish
<1> QED BY <1>1, <1>2 DEF Held

(* So does every other step of an attempt.                                 *)
LEMMA StepLeavesOthers ==
  ASSUME AttemptTypeOK, NEW p \in Attempt, NEW s \in Attempt \ {p}, Step(p)
  PROVE  /\ pc'[s] = pc[s] /\ request'[s] = request[s] /\ draft'[s] = draft[s]
         /\ Held(s)' = Held(s)
<1>1. CASE Arrive(p) \/ TurnAway(p)
  BY <1>1 DEF Arrive, TurnAway, AttemptTypeOK, Held
<1>2. CASE FindNothing(p) \/ ReserveKey(p) \/ LoseKeyRace(p)
  BY <1>2 DEF FindNothing, ReserveKey, LoseKeyRace, AttemptTypeOK, Held
<1>3. CASE Read(p) \/ Post(p)
  BY <1>3 DEF Read, Post, AttemptTypeOK, Held
<1>4. CASE Lock(p)
  <2>1. PICK a \in UserAccount : lock[a] = None /\ lock' = [lock EXCEPT ![a] = p]
    BY <1>4 DEF Lock
  <2>2. \A b \in UserAccount : lock'[b] = s <=> lock[b] = s
    BY <2>1, MovementsAssumption DEF AttemptTypeOK
  <2> QED BY <1>4, <2>2 DEF Lock, AttemptTypeOK, Held
<1>5. CASE \/ Replay(p) \/ RefuseRead(p) \/ RefusePost(p)
           \/ Commit(p) \/ CommitUnheard(p) \/ Abort(p)
  <2>1. \E status, t : Finish(p, status, t)
    BY <1>5 DEF Replay, RefuseRead, RefusePost, Commit, CommitUnheard, Abort, RollBack
  <2> QED BY <2>1, FinishLeavesOthers
<1> QED BY <1>1, <1>2, <1>3, <1>4, <1>5 DEF Step, Advance

(* The legs of a drafted movement are ids of accounts with a row.          *)
LEMMA LegsAreRows ==
  ASSUME Inductive, NEW p \in Attempt, pc[p] \in AfterRead
  PROVE  Legs(p) \subseteq UserAccount
<1>1. request[p] \in Requests /\ Drafted(p, request[p], draft[p])
  BY DEF Inductive, AttemptInv, FlowOK, AfterRead
<1> QED BY <1>1, DraftedType DEF Legs, Inductive, TypeOK

(* An attempt gets to its locks from its reads, holding none, or from the  *)
(* lock of the least row it lacked.                                        *)
LEMMA StepKeepsOrder ==
  ASSUME Inductive, LocksInOrder, NEW p \in Attempt, Step(p)
  PROVE  LocksInOrder'
<1> SUFFICES ASSUME NEW s \in Attempt, pc'[s] = "lock",
                    NEW a \in Held(s)', NEW b \in Legs(s)' \ Held(s)'
             PROVE  a < b
  BY DEF LocksInOrder
<1>1. CASE s # p
  <2>1. /\ pc'[s] = pc[s] /\ Held(s)' = Held(s)
        /\ request'[s] = request[s] /\ draft'[s] = draft[s]
    BY <1>1, StepLeavesOthers DEF Inductive, TypeOK
  <2>2. Legs(s)' = Legs(s)
    BY <2>1 DEF Legs
  <2> QED BY <2>1, <2>2 DEF LocksInOrder
<1>2. CASE s = p
  <2>1. Read(p) \/ Lock(p)
    <3>1. \A status, t : Finish(p, status, t) => pc'[p] = "done"
      BY DEF Finish, Inductive, TypeOK, AttemptTypeOK
    <3>2. /\ Arrive(p) \/ TurnAway(p) => pc'[p] \in {"read", "find", "done"}
          /\ FindNothing(p) \/ ReserveKey(p) \/ LoseKeyRace(p)
               => pc'[p] \in {"insert", "read", "recover"}
          /\ Post(p) => pc'[p] = "commit"
      BY DEF Arrive, TurnAway, FindNothing, ReserveKey, LoseKeyRace, Post,
             Inductive, TypeOK, AttemptTypeOK
    <3>3. \/ Replay(p) \/ RefuseRead(p) \/ RefusePost(p)
          \/ Commit(p) \/ CommitUnheard(p) \/ Abort(p)
          => \E status, t : Finish(p, status, t)
      BY DEF Replay, RefuseRead, RefusePost, Commit, CommitUnheard, Abort, RollBack
    <3> QED BY <1>2, <3>1, <3>2, <3>3 DEF Step, Advance
  <2>2. CASE Read(p)
    <3>1. pc[p] = "read" /\ lock' = lock
      BY <2>2 DEF Read
    <3>2. Held(p)' = {}
      BY <3>1 DEF Held, Inductive, AttemptInv, LockOK, AfterRead
    <3> QED BY <1>2, <3>2
  <2>3. CASE Lock(p)
    <3>1. PICK c \in UserAccount : Due(p, c) /\ lock' = [lock EXCEPT ![c] = p]
      BY <2>3 DEF Lock
    <3>2. pc[p] = "lock" /\ Legs(p)' = Legs(p)
      BY <2>3 DEF Lock, Legs
    <3>3. Held(p)' = Held(p) \cup {c}
      BY <3>1 DEF Held, Inductive, TypeOK, AttemptTypeOK
    <3>4. b \in Legs(p) \ Held(p) /\ b # c /\ c <= b
      BY <1>2, <3>1, <3>2, <3>3 DEF Due
    <3>5. b \in Nat /\ c \in Nat
      BY <3>2, <3>4, LegsAreRows, AccountAssumption DEF AfterRead
    <3> QED BY <1>2, <3>2, <3>3, <3>4, <3>5 DEF LocksInOrder
  <2> QED BY <2>1, <2>2, <2>3
<1> QED BY <1>1, <1>2

(* get_many_for_update: every transaction locks its rows in id order.      *)
THEOREM LocksAlwaysInOrder == Spec => []LocksInOrder
<1>1. Init => LocksInOrder
  BY DEF Init, LocksInOrder
<1>2. Inductive /\ LocksInOrder /\ [Next]_vars => LocksInOrder'
  <2>1. ASSUME LocksInOrder, UNCHANGED vars
        PROVE  LocksInOrder'
    BY <2>1 DEF LocksInOrder, Held, Legs, vars
  <2> QED BY <2>1, StepKeepsOrder DEF Next, Step, AllServed
<1> QED BY <1>1, <1>2, InductiveInvariant, PTL DEF Spec

-----------------------------------------------------------------------------
(* Who waits for an attempt that waits itself: nobody at its post, for a   *)
(* commit never waits; and whoever holds a key or a row and waits is at    *)
(* its row locks or at its post.                                           *)
LEMMA OnlyLocksWait ==
  ASSUME Inductive, NEW p \in Attempt, NEW o \in Attempt \ {p}, WaitsFor(p, o),
         pc[o] \in {"insert", "lock", "post"}
  PROVE  pc[p] \in {"insert", "lock"} /\ pc[o] \in {"lock", "post"}
<1>1. CASE pc[p] = "insert"
  <2>1. pending[o] # {}
    BY <1>1 DEF WaitsFor
  <2>2. KeyHolder(o)
    BY <2>1 DEF Inductive, AttemptInv, KeyOK
  <2> QED BY <1>1, <2>2 DEF KeyHolder, AfterInsert
<1>2. CASE pc[p] = "lock"
  <2>1. PICK a \in UserAccount : lock[a] = o
    BY <1>2 DEF WaitsFor
  <2> QED BY <1>2, <2>1 DEF Inductive, AttemptInv, LockOK, AfterRead
<1>3. CASE pc[p] = "post"
  BY <1>3 DEF WaitsFor, HoldsReversal
<1> QED BY <1>1, <1>2, <1>3 DEF WaitsFor

(* In a circle somebody waits for a row; of the rows the circle waits for, *)
(* the holder of the greatest would have to wait for a greater one.        *)
LEMMA NoCircle ==
  ASSUME Inductive, LocksInOrder
  PROVE  NoDeadlock
<1> SUFFICES ASSUME NEW W \in (SUBSET Attempt) \ {{}},
                    \A p \in W : \E o \in W \ {p} : WaitsFor(p, o)
             PROVE  FALSE
  BY DEF NoDeadlock
<1>1. \A p \in W : pc[p] \in {"insert", "lock", "post"}
  BY DEF WaitsFor
<1>2. \A p \in W : pc[p] \in {"insert", "lock"}
  BY <1>1, OnlyLocksWait
<1>3. \A p \in W : \A o \in W \ {p} : WaitsFor(p, o) => pc[o] = "lock"
  BY <1>1, <1>2, OnlyLocksWait
<1> DEFINE Awaited == {a \in UserAccount : \E p \in W : Due(p, a) /\ pc[p] = "lock"
                                                        /\ lock[a] \in W}
<1>4. \A p \in W : pc[p] = "lock" => \E a \in Awaited : Due(p, a)
  BY DEF WaitsFor
<1>5. \E p \in W : pc[p] = "lock"
  BY <1>3
<1>6. Awaited # {} /\ Awaited \subseteq Nat /\ IsFiniteSet(Awaited)
  BY <1>4, <1>5, FS_Subset, AccountAssumption
<1> HIDE DEF Awaited
<1>7. PICK x \in Awaited : \A y \in Awaited : y <= x
  BY <1>6, GreatestOf
<1> DEFINE o == lock[x]
<1>8. o \in W /\ x \in Held(o)
  BY <1>7 DEF Awaited, Held
<1>9. pc[o] = "lock"
  BY <1>2, <1>8 DEF Held, Inductive, AttemptInv, LockOK, AfterRead
<1>10. PICK y \in Awaited : Due(o, y)
  BY <1>4, <1>8, <1>9
<1>11. x < y
  BY <1>8, <1>9, <1>10 DEF Due, LocksInOrder
<1> QED BY <1>6, <1>7, <1>10, <1>11

(* No set of transactions wait for each other in the database, whatever    *)
(* movements, reversals and closures meet.                                 *)
THEOREM NeverDeadlocks == Spec => []NoDeadlock
BY NoCircle, InductiveInvariant, LocksAlwaysInOrder, PTL
=============================================================================
