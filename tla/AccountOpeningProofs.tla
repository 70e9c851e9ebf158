------------------------ MODULE AccountOpeningProofs ------------------------
(* Opening is idempotent by its natural key, for any number of requests.   *)
EXTENDS AccountOpening, TLAPS

-----------------------------------------------------------------------------
(* The inductive invariant.                                                *)

(* What each attempt knows at each of its steps.                           *)
AttemptsConsistent ==
  \A p \in Attempt :
    /\ pc[p] # "idle" => asked[p] \in NaturalKey
    /\ pc[p] \in {"insert", "commit"} => asked[p] \notin SystemPurpose
    /\ answer[p] # None => pc[p] = "done"

(* An attempt about to commit has the one uncommitted row of its key, and  *)
(* no committed row has that key.                                          *)
InsertExclusive(p) ==
  /\ pending[p] = IF pc[p] = "commit" THEN {[id |-> p, key |-> asked[p]]} ELSE {}
  /\ pc[p] = "commit" =>
       /\ ~Taken(asked[p])
       /\ \A o \in Attempt \ {p} : pc[o] = "commit" => asked[o] # asked[p]

InsertsExclusive == \A p \in Attempt : InsertExclusive(p)

(* The account an answer names is stored under the key that was asked for. *)
AnswersStored ==
  \A p \in Attempt :
    Answered(p, {"created", "existing"}) =>
      [id |-> answer[p].account, key |-> asked[p]] \in accounts

(* What every reachable state satisfies.                                   *)
OpeningInductive ==
  /\ TypeOK
  /\ AttemptsConsistent
  /\ InsertsExclusive
  /\ OneAccountPerKey
  /\ AnswersStored
  /\ ConflictMeansOpened

-----------------------------------------------------------------------------
(* The migration's rows satisfy it.                                        *)
LEMMA OpeningInit == Init => OpeningInductive
BY OpeningAssumption
   DEF Init, OpeningInductive, TypeOK, AttemptsConsistent, InsertsExclusive, InsertExclusive,
       OneAccountPerKey, AnswersStored, ConflictMeansOpened, Answered, Steps,
       SeededRows, UserRow, Statuses, Taken, Existing

(* An attempt that ends without committing leaves the invariant.           *)
LEMMA FinishKeeps ==
  ASSUME OpeningInductive, NEW p \in Attempt, NEW status \in Statuses,
         NEW id \in Attempt \cup {None},
         pc[p] # "idle", UNCHANGED accounts, Finish(p, status, id),
         status \in {"created", "existing"} => [id |-> id, key |-> asked[p]] \in accounts,
         status = "AccountAlreadyExistsError" => Taken(asked[p])
  PROVE  OpeningInductive'
<1> USE DEF OpeningInductive
<1>1. TypeOK'
  BY DEF TypeOK, Finish, Steps, UserRow, SeededRows
<1>2. AttemptsConsistent'
  BY DEF TypeOK, AttemptsConsistent, Finish
<1>3. InsertsExclusive'
  BY DEF TypeOK, InsertsExclusive, InsertExclusive, Finish, Taken
<1>4. OneAccountPerKey'
  BY DEF OneAccountPerKey
<1>5. AnswersStored'
  BY OpeningAssumption DEF TypeOK, AnswersStored, Answered, Finish, Statuses
<1>6. ConflictMeansOpened'
  BY OpeningAssumption DEF TypeOK, ConflictMeansOpened, Answered, Finish, Statuses, Existing, Taken
<1> QED BY <1>1, <1>2, <1>3, <1>4, <1>5, <1>6

(* A commit adds the only row of its key.                                  *)
LEMMA CommitKeeps ==
  ASSUME OpeningInductive, NEW p \in Attempt, NEW status \in {"created", "lost"},
         NEW id \in Attempt \cup {None}, status = "created" => id = p,
         pc[p] = "commit", accounts' = accounts \cup pending[p], Finish(p, status, id)
  PROVE  OpeningInductive'
<1> USE DEF OpeningInductive
<1> DEFINE row == [id |-> p, key |-> asked[p]]
<1>1. accounts' = accounts \cup {row} /\ row \in UserRow /\ row.key = asked[p] /\ row.id = p
  BY DEF InsertsExclusive, InsertExclusive, AttemptsConsistent, UserRow
<1>2. TypeOK'
  BY <1>1 DEF TypeOK, Finish, Steps, Statuses, SeededRows
<1>3. AttemptsConsistent'
  BY DEF TypeOK, AttemptsConsistent, Finish
<1>4. InsertsExclusive'
  <2> SUFFICES ASSUME NEW o \in Attempt PROVE InsertExclusive(o)'
    BY DEF InsertsExclusive
  <2>1. CASE o = p
    BY <2>1 DEF TypeOK, InsertsExclusive, InsertExclusive, Finish
  <2>2. CASE o # p
    <3>1. pc'[o] = pc[o] /\ pending'[o] = pending[o] /\ asked' = asked
      BY <2>2 DEF TypeOK, Finish
    <3>2. pc[o] = "commit" => asked[o] # asked[p]
      BY <2>2 DEF InsertsExclusive, InsertExclusive
    <3>3. pc[o] = "commit" => ~Taken(asked[o])'
      BY <1>1, <3>1, <3>2 DEF InsertsExclusive, InsertExclusive, Taken
    <3>4. \A a \in Attempt \ {o} : pc'[a] = "commit" => pc[a] = "commit"
      BY DEF TypeOK, Finish
    <3> QED BY <3>1, <3>3, <3>4 DEF InsertsExclusive, InsertExclusive
  <2> QED BY <2>1, <2>2
<1>5. OneAccountPerKey'
  BY <1>1 DEF OneAccountPerKey, InsertsExclusive, InsertExclusive, Taken
<1>6. AnswersStored'
  BY <1>1, OpeningAssumption DEF TypeOK, AnswersStored, Answered, Finish
<1>7. ConflictMeansOpened'
  BY <1>1, OpeningAssumption DEF TypeOK, ConflictMeansOpened, Answered, Finish, Existing
<1> QED BY <1>2, <1>3, <1>4, <1>5, <1>6, <1>7

(* Every step preserves it.                                                *)
LEMMA OpeningStep == OpeningInductive /\ [Next]_vars => OpeningInductive'
<1> SUFFICES ASSUME OpeningInductive, [Next]_vars PROVE OpeningInductive'
  OBVIOUS
<1> USE DEF OpeningInductive
<1>1. ASSUME NEW p \in Attempt, Arrive(p) PROVE OpeningInductive'
  <2>1. TypeOK'
    BY <1>1 DEF TypeOK, Arrive, Steps
  <2>2. AttemptsConsistent'
    BY <1>1 DEF TypeOK, AttemptsConsistent, Arrive
  <2>3. InsertsExclusive'
    BY <1>1 DEF TypeOK, InsertsExclusive, InsertExclusive, Arrive, Taken
  <2>4. OneAccountPerKey'
    BY <1>1 DEF OneAccountPerKey, Arrive
  <2>5. answer[p] = None
    BY <1>1 DEF AttemptsConsistent, Arrive
  <2>6. AnswersStored' /\ ConflictMeansOpened'
    BY <1>1, <2>5 DEF TypeOK, AnswersStored, ConflictMeansOpened, Answered, Arrive, Existing
  <2> QED BY <2>1, <2>2, <2>3, <2>4, <2>6
<1>2. ASSUME NEW p \in Attempt, FindExisting(p) PROVE OpeningInductive'
  <2>1. PICK r \in Existing(asked[p]) :
          IF r.id \in Seeded THEN Finish(p, "AssertionError", None)
                             ELSE Finish(p, "existing", r.id)
    BY <1>2 DEF FindExisting
  <2>2. CASE r.id \in Seeded
    BY <1>2, <2>1, <2>2, FinishKeeps DEF FindExisting, Statuses
  <2>3. CASE r.id \notin Seeded
    <3>1. r \in accounts /\ r.key = asked[p]
      BY <2>1 DEF Existing
    <3>2. r \in UserRow
      BY <2>3, <3>1 DEF TypeOK, SeededRows
    <3>3. r.id \in Attempt /\ r = [id |-> r.id, key |-> asked[p]]
      BY <3>1, <3>2 DEF UserRow
    <3> HIDE DEF OpeningInductive
    <3> QED BY <1>2, <2>1, <2>3, <3>1, <3>3, FinishKeeps DEF FindExisting, Statuses
  <2> QED BY <2>2, <2>3
<1>3. ASSUME NEW p \in Attempt, RefusePurpose(p) PROVE OpeningInductive'
  BY <1>3, FinishKeeps DEF RefusePurpose, Statuses
<1>4. ASSUME NEW p \in Attempt, FindNothing(p) PROVE OpeningInductive'
  <2>1. TypeOK'
    BY <1>4 DEF TypeOK, FindNothing, Steps
  <2>2. AttemptsConsistent'
    BY <1>4 DEF TypeOK, AttemptsConsistent, FindNothing
  <2>3. InsertsExclusive'
    BY <1>4 DEF TypeOK, InsertsExclusive, InsertExclusive, FindNothing, Taken
  <2>4. OneAccountPerKey' /\ AnswersStored' /\ ConflictMeansOpened'
    BY <1>4 DEF OneAccountPerKey, AnswersStored, ConflictMeansOpened, Answered, FindNothing, Existing
  <2> QED BY <2>1, <2>2, <2>3, <2>4
<1>5. ASSUME NEW p \in Attempt, Insert(p) PROVE OpeningInductive'
  <2>1. TypeOK'
    BY <1>5 DEF TypeOK, AttemptsConsistent, Insert, Steps, UserRow
  <2>2. AttemptsConsistent'
    BY <1>5 DEF TypeOK, AttemptsConsistent, Insert
  <2>3. \A o \in Attempt \ {p} : pc[o] = "commit" => asked[o] # asked[p]
    <3>1. TAKE o \in Attempt \ {p}
    <3>2. HAVE pc[o] = "commit"
    <3>3. [id |-> o, key |-> asked[o]] \in pending[o]
      BY <3>2 DEF InsertsExclusive, InsertExclusive
    <3> QED BY <1>5, <3>3 DEF Insert, KeyFree
  <2>4. InsertsExclusive'
    <3> SUFFICES ASSUME NEW o \in Attempt PROVE InsertExclusive(o)'
      BY DEF InsertsExclusive
    <3>1. UNCHANGED <<accounts, asked>> /\ Taken(asked[o])' = Taken(asked[o])
      BY <1>5 DEF Insert, Taken
    <3>2. CASE o = p
      BY <1>5, <2>3, <3>1, <3>2 DEF TypeOK, InsertsExclusive, InsertExclusive, Insert
    <3>3. CASE o # p
      BY <1>5, <2>3, <3>1, <3>3 DEF TypeOK, InsertsExclusive, InsertExclusive, Insert
    <3> QED BY <3>2, <3>3
  <2>5. OneAccountPerKey' /\ AnswersStored' /\ ConflictMeansOpened'
    BY <1>5 DEF OneAccountPerKey, AnswersStored, ConflictMeansOpened, Answered, Insert, Existing
  <2> QED BY <2>1, <2>2, <2>4, <2>5
<1>6. ASSUME NEW p \in Attempt, LoseRace(p) PROVE OpeningInductive'
  BY <1>6, FinishKeeps DEF LoseRace, Statuses
<1>7. ASSUME NEW p \in Attempt, Commit(p) PROVE OpeningInductive'
  BY <1>7, CommitKeeps DEF Commit
<1>8. ASSUME NEW p \in Attempt, CommitUnheard(p) PROVE OpeningInductive'
  BY <1>8, CommitKeeps DEF CommitUnheard
<1>9. ASSUME NEW p \in Attempt, Abort(p) PROVE OpeningInductive'
  BY <1>9, FinishKeeps DEF Abort, Statuses
<1>10. CASE UNCHANGED vars
  BY <1>10 DEF vars, TypeOK, AttemptsConsistent, InsertsExclusive, InsertExclusive, OneAccountPerKey,
               AnswersStored, ConflictMeansOpened, Answered, Taken, Existing
<1> QED
  BY <1>1, <1>2, <1>3, <1>4, <1>5, <1>6, <1>7, <1>8, <1>9, <1>10
     DEF Next, Advance, AllServed

(* The invariant holds in every reachable state.                           *)
THEOREM OpeningInvariant == Spec => []OpeningInductive
BY OpeningInit, OpeningStep, PTL DEF Spec

-----------------------------------------------------------------------------
(* Every stored account is a seeded SYSTEM row or a USER row with a USER   *)
(* purpose, whatever purposes the requests name.                           *)
THEOREM OpeningTypes == Spec => []TypeOK
<1>1. OpeningInductive => TypeOK
  BY DEF OpeningInductive
<1> QED BY <1>1, OpeningInvariant, PTL

(* However many requests open one natural key at once, one account has it. *)
THEOREM OneAccount == Spec => []OneAccountPerKey
<1>1. OpeningInductive => OneAccountPerKey
  BY DEF OpeningInductive
<1> QED BY <1>1, OpeningInvariant, PTL

(* All who were given an account for one natural key were given the same,  *)
(* stored one.                                                             *)
THEOREM SameAnswer == Spec => []AnswersAgree
<1>1. OpeningInductive => AnswersAgree
  BY DEF OpeningInductive, AnswersStored, OneAccountPerKey, AnswersAgree
<1> QED BY <1>1, OpeningInvariant, PTL

(* A conflict is only reported once the winner's account is committed.     *)
THEOREM ConflictIsFinal == Spec => []ConflictMeansOpened
<1>1. OpeningInductive => ConflictMeansOpened
  BY DEF OpeningInductive
<1> QED BY <1>1, OpeningInvariant, PTL
=============================================================================
