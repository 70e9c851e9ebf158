------------------------ MODULE AccountServiceProofs ------------------------
(***************************************************************************)
(* Proofs about AccountService, for any number of attempts, accounts, keys *)
(* and requests.                                                           *)
(***************************************************************************)
EXTENDS AccountServiceInvariant, FiniteSetFacts, TLAPS

-----------------------------------------------------------------------------
(* What requests, drafts and records are.                                  *)

LEMMA RequestType ==
  ASSUME NEW q \in Requests
  PROVE  /\ q.op \in {"transfer", "revert", "close"}
         /\ q.op = "transfer" => q \in TransferRequest
         /\ q.op = "revert" => q \in RevertRequest
         /\ q.op = "close" => q \in CloseRequest
BY MovementsAssumption DEF TransferRequest, RevertRequest, CloseRequest

LEMMA OpeningDepositType ==
  ASSUME NEW a \in Funded
  PROVE  /\ OpeningDeposit(a) \in Transfer
         /\ OpeningDeposit(a).amount \in 1 .. MaxStored
         /\ OpeningDeposit(a).source # OpeningDeposit(a).destination
<1>1. OpeningSource(a) \in SystemAccount
  BY MovementsAssumption DEF OpeningSource, Funded
<1>2. /\ a \in UserAccount
      /\ Opening[a] \in 1 .. MaxStored
  BY MovementsAssumption, AccountAssumption DEF Funded
<1>3. CurrencyOf[a] \in Currency
  BY <1>2, AccountAssumption DEF Account
<1>4. Owner[a] \in Caller /\ a \in Key /\ a \in TransferId
  BY <1>2, MovementsAssumption DEF TransferId
<1> QED
  BY <1>1, <1>2, <1>3, <1>4, AccountAssumption DEF OpeningDeposit, Transfer, Account

(* The draft of a movement is a transfer named by its attempt, under the   *)
(* key of its request, between USER legs that have rows.                   *)
LEMMA DraftedType ==
  ASSUME StoreTypeOK, NEW p \in Attempt, NEW q \in Requests, NEW d, Drafted(p, q, d)
  PROVE  /\ q.op = "close" => d = None
         /\ q.op # "close" => /\ d \in Transfer
                              /\ d.id = p /\ d.caller = q.caller /\ d.key = q.key
         /\ LegsOf(q, d) \subseteq UserAccount
<1>1. CASE q.op = "transfer"
  <2>1. q \in TransferRequest
    BY <1>1, RequestType
  <2>2. {q.source, q.destination} \subseteq Account /\ d = TransferDraft(p, q)
    BY <1>1 DEF Drafted
  <2>3. d \in Transfer
    BY <2>1, <2>2 DEF TransferDraft, Transfer, TransferRequest, TransferId
  <2> QED
    BY <1>1, <2>2, <2>3 DEF TransferDraft, LegsOf, UserLegs
<1>2. CASE q.op = "revert"
  <2>1. q \in RevertRequest
    BY <1>2, RequestType
  <2>2. PICK o \in transfers : o.id = q.target /\ d = ReversalDraft(p, q, o)
    BY <1>2 DEF Drafted
  <2>3. o \in Transfer
    BY <2>2 DEF StoreTypeOK
  <2>4. d \in Transfer
    BY <2>1, <2>2, <2>3 DEF ReversalDraft, Transfer, RevertRequest, TransferId
  <2> QED
    BY <1>2, <2>2, <2>4 DEF ReversalDraft, LegsOf, UserLegs
<1>3. CASE q.op = "close"
  BY <1>3 DEF Drafted, LegsOf
<1> QED
  BY <1>1, <1>2, <1>3, RequestType

(* The record inserted ahead of a movement is the one it is filed under.   *)
LEMMA DraftedRecord ==
  ASSUME StoreTypeOK, NEW p \in Attempt, request[p] \in Requests,
         NEW d, Drafted(p, request[p], d), request[p].op # "close"
  PROVE  RecordOf(d) = NewRecord(p)
<1>1. CASE request[p].op = "transfer"
  BY <1>1 DEF Drafted, TransferDraft, RecordOf, NewRecord, Hash
<1>2. CASE request[p].op = "revert"
  <2>1. PICK o \in transfers : o.id = request[p].target /\ d = ReversalDraft(p, request[p], o)
    BY <1>2 DEF Drafted
  <2>2. o.id # None
    BY <2>1, AccountAssumption, MovementsAssumption
    DEF StoreTypeOK, Transfer, TransferId, Account
  <2> QED
    BY <1>2, <2>1, <2>2 DEF ReversalDraft, RecordOf, NewRecord, Hash
<1> QED
  BY <1>1, <1>2, RequestType

-----------------------------------------------------------------------------
(* Steps that commit nothing.  Moves(p): only attempt p moves, and nobody  *)
(* but p gains or loses a row lock.                                        *)

SameAttempt(o) ==
  /\ pc'[o] = pc[o] /\ request'[o] = request[o] /\ pending'[o] = pending[o]
  /\ rows'[o] = rows[o] /\ draft'[o] = draft[o] /\ answer'[o] = answer[o]
  /\ \A a \in UserAccount : lock'[a] = o <=> lock[a] = o

Moves(p) ==
  /\ UNCHANGED store
  /\ \A o \in Attempt \ {p} : SameAttempt(o)

LEMMA StoreInvKept ==
  ASSUME StoreInv, UNCHANGED store
  PROVE  StoreInv'
BY DEF StoreInv, store, KeySpentIffPosted, UniqueIds, OnePostingPerKey,
       ReversedOnceInFull, NoSelfTransfer, ClosedIsEmpty

LEMMA SamePostStatus ==
  ASSUME NEW p, SameAttempt(p), AlreadyReversed(draft[p])' = AlreadyReversed(draft[p])
  PROVE  PostStatus(p)' = PostStatus(p)
BY DEF SameAttempt, PostStatus

(* An attempt that does not move keeps what it relies on.                  *)
LEMMA StillAttemptInv ==
  ASSUME NEW p \in Attempt, SameAttempt(p), UNCHANGED store, AttemptInv(p)
  PROVE  AttemptInv(p)'
<1>1. FlowOK(p)'
  BY DEF SameAttempt, store, AttemptInv, FlowOK, Drafted
<1>2. KeyOK(p)'
  BY DEF SameAttempt, store, AttemptInv, KeyOK, KeyHolder, NewRecord, Known
<1>3. LockOK(p)'
  BY DEF SameAttempt, store, AttemptInv, LockOK, Legs, Held
<1>4. ReadyOK(p)'
  <2>1. AlreadyReversed(draft[p])' = AlreadyReversed(draft[p])
    BY DEF SameAttempt, store, AlreadyReversed
  <2> QED
    BY <2>1, SamePostStatus DEF SameAttempt, AttemptInv, ReadyOK
<1>5. AnswerOK(p)'
  BY DEF SameAttempt, store, AttemptInv, AnswerOK
<1> QED
  BY <1>1, <1>2, <1>3, <1>4, <1>5 DEF AttemptInv

(* What is left to show of a step by p that neither takes a key nor gets   *)
(* ready to commit.                                                        *)
LEMMA MoveKeepsInductive ==
  ASSUME Inductive, NEW p \in Attempt, Moves(p),
         AttemptTypeOK', AttemptInv(p)',
         KeyHolder(p)' => KeyHolder(p) /\ request'[p] = request[p],
         pc'[p] # "commit"
  PROVE  Inductive'
<1>1. TypeOK'
  BY DEF Inductive, TypeOK, StoreTypeOK, Moves, store
<1>2. StoreInv'
  BY StoreInvKept DEF Inductive, Moves
<1>3. \A o \in Attempt : AttemptInv(o)'
  BY StillAttemptInv DEF Inductive, Moves
<1>4. KeysDistinct'
  BY DEF Inductive, KeysDistinct, KeyHolder, SameKey, Moves, SameAttempt
<1>5. ReversalsDistinct'
  BY DEF Inductive, ReversalsDistinct, Reverting, Moves, SameAttempt
<1> QED
  BY <1>1, <1>2, <1>3, <1>4, <1>5 DEF Inductive

-----------------------------------------------------------------------------
(* Ending an attempt.                                                      *)

LEMMA FinishEffect ==
  ASSUME AttemptTypeOK, NEW p \in Attempt,
         NEW status \in Statuses, NEW t \in TransferId \cup {None},
         Finish(p, status, t)
  PROVE  /\ AttemptTypeOK'
         /\ pc'[p] = "done" /\ request'[p] = request[p] /\ pending'[p] = {}
         /\ answer'[p] = [status |-> status, transfer |-> t]
         /\ \A a \in UserAccount : lock'[a] # p
         /\ \A o \in Attempt \ {p} : SameAttempt(o)
<1>1. NoRows \in [UserAccount -> Row]
  BY AccountAssumption DEF NoRows, NewRow, Row, Stored, AccountStatus
<1>2. AttemptTypeOK'
  BY <1>1 DEF AttemptTypeOK, Finish, Steps, Answer
<1>3. /\ pc'[p] = "done" /\ request'[p] = request[p] /\ pending'[p] = {}
      /\ answer'[p] = [status |-> status, transfer |-> t]
      /\ \A a \in UserAccount : lock'[a] # p
  BY MovementsAssumption DEF AttemptTypeOK, Finish
<1>4. \A o \in Attempt \ {p} : SameAttempt(o)
  BY MovementsAssumption DEF AttemptTypeOK, Finish, SameAttempt
<1> QED
  BY <1>2, <1>3, <1>4

(* An attempt that ends without committing anything relies on nothing.     *)
LEMMA FinishKeepsInductive ==
  ASSUME Inductive, NEW p \in Attempt, pc[p] # "idle",
         NEW status \in Statuses, NEW t \in TransferId \cup {None},
         Finish(p, status, t), UNCHANGED store,
         status # "RuntimeError",
         status = "created" =>
           \E u \in transfers : u.id = t /\ Fulfils(u, request[p])
  PROVE  Inductive'
<1>1. /\ AttemptTypeOK'
      /\ pc'[p] = "done" /\ request'[p] = request[p] /\ pending'[p] = {}
      /\ answer'[p] = [status |-> status, transfer |-> t]
      /\ \A a \in UserAccount : lock'[a] # p
      /\ \A o \in Attempt \ {p} : SameAttempt(o)
  BY FinishEffect DEF Inductive, TypeOK
<1>2. Moves(p)
  BY <1>1 DEF Moves
<1>3. ~KeyHolder(p)'
  BY <1>1 DEF KeyHolder, AfterInsert
<1>4. FlowOK(p)'
  BY <1>1 DEF FlowOK, AfterRead, Inductive, AttemptInv
<1>5. KeyOK(p)'
  BY <1>1, <1>3 DEF KeyOK
<1>6. LockOK(p)' /\ ReadyOK(p)'
  BY <1>1 DEF LockOK, ReadyOK
<1>7. AnswerOK(p)'
  BY <1>1 DEF AnswerOK, store, Fulfils
<1>8. AttemptInv(p)'
  BY <1>4, <1>5, <1>6, <1>7 DEF AttemptInv
<1> QED
  BY <1>1, <1>2, <1>3, <1>8, MoveKeepsInductive

LEMMA RollBackKeepsInductive ==
  ASSUME Inductive, NEW p \in Attempt, pc[p] # "idle",
         NEW status \in Statuses \ {"created", "RuntimeError"}, RollBack(p, status)
  PROVE  Inductive'
BY FinishKeepsInductive DEF RollBack

LEMMA RefusalStatus ==
  /\ \A q : AuthorizationRefusal(q) \in Statuses \cup {"accepted"}
  /\ \A q : ReadRefusal(q) \in Statuses \cup {"accepted"}
  /\ \A d, r : Refusal(d, r) \in Statuses \cup {"accepted"}
  /\ \A p : PostStatus(p) \in Statuses \cup {"accepted"}
  /\ \A q : ReadRefusal(q) \notin {"created", "RuntimeError"}
  /\ \A p : PostStatus(p) \notin {"created", "RuntimeError"}
<1>1. \A q : AuthorizationRefusal(q) \in
        (Statuses \cup {"accepted"}) \ {"created", "RuntimeError"}
  BY DEF AuthorizationRefusal, Statuses
<1>2. \A q : ReadRefusal(q) \in
        (Statuses \cup {"accepted"}) \ {"created", "RuntimeError"}
  BY <1>1 DEF ReadRefusal, Statuses
<1>3. \A d, r : Refusal(d, r) \in
        (Statuses \cup {"accepted"}) \ {"created", "RuntimeError"}
  BY DEF Refusal, TransferRefusal, RevertRefusal, Statuses
<1>4. \A r : CloseRefusal(r) \in
        (Statuses \cup {"accepted"}) \ {"created", "RuntimeError"}
  BY DEF CloseRefusal, Statuses
<1>5. \A p : PostStatus(p) \in
        (Statuses \cup {"accepted"}) \ {"created", "RuntimeError"}
  BY <1>3, <1>4 DEF PostStatus, Statuses
<1> QED
  BY <1>1, <1>2, <1>3, <1>5

LEMMA AbortStep ==
  ASSUME Inductive, NEW p \in Attempt, Abort(p)
  PROVE  Inductive'
BY RollBackKeepsInductive DEF Abort, InTransaction, Statuses

LEMMA RefuseReadStep ==
  ASSUME Inductive, NEW p \in Attempt, RefuseRead(p)
  PROVE  Inductive'
BY RollBackKeepsInductive, RefusalStatus DEF RefuseRead

LEMMA RefusePostStep ==
  ASSUME Inductive, NEW p \in Attempt, RefusePost(p)
  PROVE  Inductive'
BY RollBackKeepsInductive, RefusalStatus DEF RefusePost

-----------------------------------------------------------------------------
(* The steps of an attempt before it commits, one lemma for each.          *)

LEMMA ArriveStep ==
  ASSUME Inductive, NEW p \in Attempt, Arrive(p)
  PROVE  Inductive'
<1>1. AttemptTypeOK'
  BY DEF Arrive, Inductive, TypeOK, AttemptTypeOK, Steps, InTransaction
<1>2. Moves(p)
  BY DEF Arrive, Moves, SameAttempt, store, Inductive, TypeOK, AttemptTypeOK
<1>3. PICK q \in Requests :
        /\ MayStart(q)
        /\ request' = [request EXCEPT ![p] = q]
        /\ pc' = [pc EXCEPT ![p] = IF q.op = "close" THEN "read" ELSE "find"]
  BY DEF Arrive
<1>4. request'[p] = q /\ pc'[p] = IF q.op = "close" THEN "read" ELSE "find"
  BY <1>3 DEF Inductive, TypeOK, AttemptTypeOK
<1>5. ~KeyHolder(p)'
  BY <1>4 DEF KeyHolder, AfterInsert
<1>6. FlowOK(p)'
  BY <1>3, <1>4 DEF Arrive, Inductive, AttemptInv, FlowOK, AfterRead
<1>7. KeyOK(p)'
  BY <1>4, <1>5 DEF Arrive, Inductive, AttemptInv, KeyOK, KeyHolder, AfterInsert
<1>8. LockOK(p)' /\ ReadyOK(p)' /\ AnswerOK(p)'
  BY <1>4 DEF Arrive, Inductive, AttemptInv, LockOK, AfterRead, ReadyOK, AnswerOK
<1> QED
  BY <1>1, <1>2, <1>4, <1>5, <1>6, <1>7, <1>8, MoveKeepsInductive DEF AttemptInv

LEMMA TurnAwayStep ==
  ASSUME Inductive, NEW p \in Attempt, TurnAway(p)
  PROVE  Inductive'
<1>1. AttemptTypeOK'
  BY DEF TurnAway, Inductive, TypeOK, AttemptTypeOK, Steps, Answer, Statuses
<1>2. Moves(p)
  BY DEF TurnAway, Moves, SameAttempt, store, Inductive, TypeOK, AttemptTypeOK
<1>3. /\ pc'[p] = "done" /\ request'[p] \in Requests
      /\ answer'[p] = [status |-> "UnauthorizedPrincipalError", transfer |-> None]
  BY DEF TurnAway, Inductive, TypeOK, AttemptTypeOK
<1>4. ~KeyHolder(p)' /\ ~KeyHolder(p)
  BY <1>3 DEF KeyHolder, AfterInsert, TurnAway
<1>5. FlowOK(p)' /\ KeyOK(p)'
  BY <1>3, <1>4 DEF TurnAway, Inductive, AttemptInv, FlowOK, KeyOK, AfterRead
<1>6. LockOK(p)'
  BY <1>3 DEF TurnAway, Inductive, AttemptInv, LockOK, AfterRead
<1>7. ReadyOK(p)' /\ AnswerOK(p)'
  BY <1>3 DEF ReadyOK, AnswerOK
<1> QED
  BY <1>1, <1>2, <1>3, <1>4, <1>5, <1>6, <1>7, MoveKeepsInductive DEF AttemptInv

LEMMA FindNothingStep ==
  ASSUME Inductive, NEW p \in Attempt, FindNothing(p)
  PROVE  Inductive'
<1>1. AttemptTypeOK'
  BY DEF FindNothing, Inductive, TypeOK, AttemptTypeOK, Steps, InTransaction
<1>2. Moves(p)
  BY DEF FindNothing, Moves, SameAttempt, store, Inductive, TypeOK, AttemptTypeOK
<1>3. pc'[p] = "insert"
  BY DEF FindNothing, Inductive, TypeOK, AttemptTypeOK
<1>4. ~KeyHolder(p)' /\ ~KeyHolder(p)
  BY <1>3 DEF KeyHolder, AfterInsert, FindNothing
<1>5. FlowOK(p)' /\ KeyOK(p)' /\ LockOK(p)' /\ ReadyOK(p)' /\ AnswerOK(p)'
  BY <1>3, <1>4 DEF FindNothing, Inductive, AttemptInv, FlowOK, KeyOK, LockOK, ReadyOK,
                    AnswerOK, AfterRead
<1> QED
  BY <1>1, <1>2, <1>3, <1>4, <1>5, MoveKeepsInductive DEF AttemptInv

LEMMA LoseKeyRaceStep ==
  ASSUME Inductive, NEW p \in Attempt, LoseKeyRace(p)
  PROVE  Inductive'
<1>1. AttemptTypeOK'
  BY DEF LoseKeyRace, Inductive, TypeOK, AttemptTypeOK, Steps
<1>2. Moves(p)
  BY DEF LoseKeyRace, Moves, SameAttempt, store, Inductive, TypeOK, AttemptTypeOK
<1>3. pc'[p] = "recover"
  BY DEF LoseKeyRace, Inductive, TypeOK, AttemptTypeOK
<1>4. ~KeyHolder(p)' /\ ~KeyHolder(p)
  BY <1>3 DEF KeyHolder, AfterInsert, LoseKeyRace
<1>5. FlowOK(p)' /\ LockOK(p)' /\ ReadyOK(p)' /\ AnswerOK(p)'
  BY <1>3 DEF LoseKeyRace, Inductive, AttemptInv, FlowOK, LockOK, ReadyOK, AnswerOK,
              AfterRead
<1>6. KeyOK(p)'
  BY <1>3, <1>4 DEF LoseKeyRace, Inductive, AttemptInv, KeyOK, Known
<1> QED
  BY <1>1, <1>2, <1>3, <1>4, <1>5, <1>6, MoveKeepsInductive DEF AttemptInv

(* The record a client's key leads to is the record of a posted transfer,  *)
(* and an equal hash means that transfer is what the client asked for.     *)
LEMMA KnownRecord ==
  ASSUME Inductive, NEW p \in Attempt, pc[p] \in {"find", "recover"},
         NEW rec \in Known(request[p])
  PROVE  \E t \in transfers :
           /\ t.id = rec.transfer
           /\ rec.hash = Hash(request[p]) => Fulfils(t, request[p])
<1> DEFINE q == request[p]
<1>1. q \in Requests /\ q.op \in {"transfer", "revert"}
  BY RequestType DEF Inductive, AttemptInv, FlowOK
<1>2. PICK t \in transfers : rec = RecordOf(t)
  BY DEF Inductive, StoreInv, KeySpentIffPosted, Known
<1>3. t.id = rec.transfer /\ t.caller = q.caller /\ t.key = q.key
  BY <1>2 DEF RecordOf, Known, SameKey
<1>4. ASSUME rec.hash = Hash(q)
      PROVE  Fulfils(t, q)
  <2>1. CASE q.op = "revert"
    <3>1. Hash(q) = <<q.target>>
      BY <2>1 DEF Hash
    <3>2. t.reverses # None
      BY <1>2, <1>4, <3>1 DEF RecordOf
    <3> QED
      BY <1>2, <1>3, <1>4, <2>1, <3>1, <3>2 DEF RecordOf, Fulfils
  <2>2. CASE q.op = "transfer"
    <3>1. Hash(q) = <<q.source, q.destination, q.amount, q.currency>>
      BY <2>2 DEF Hash
    <3>2. t.reverses = None
      BY <1>2, <1>4, <3>1 DEF RecordOf
    <3> QED
      BY <1>2, <1>3, <1>4, <2>2, <3>1, <3>2 DEF RecordOf, Fulfils
  <2> QED
    BY <1>1, <2>1, <2>2
<1> QED
  BY <1>3, <1>4

LEMMA ReplayStep ==
  ASSUME Inductive, NEW p \in Attempt, Replay(p)
  PROVE  Inductive'
<1> DEFINE q == request[p]
           rec == CHOOSE r \in Known(q) : TRUE
           status == ReplayStatus(q)
           t == IF status = "created" THEN rec.transfer ELSE None
<1>1. Finish(p, status, t) /\ UNCHANGED store /\ pc[p] \in {"find", "recover"}
  BY DEF Replay
<1>2. Known(q) # {}
  BY DEF Replay, Inductive, AttemptInv, KeyOK
<1>3. rec \in Known(q)
  BY <1>2
<1>4. PICK u \in transfers :
        u.id = rec.transfer /\ (rec.hash = Hash(q) => Fulfils(u, q))
  BY <1>1, <1>3, KnownRecord
<1>5. status = IF rec.hash # Hash(q) THEN "IdempotencyConflictError" ELSE "created"
  BY <1>2, <1>4 DEF ReplayStatus
<1>6. u.id \in TransferId
  BY <1>4 DEF Inductive, TypeOK, StoreTypeOK, Transfer
<1>7. status \in Statuses /\ t \in TransferId \cup {None}
  BY <1>4, <1>5, <1>6 DEF Statuses
<1>8. status # "RuntimeError" /\ pc[p] # "idle"
  BY <1>1, <1>5
<1>9. status = "created" => u.id = t /\ Fulfils(u, q)
  BY <1>4, <1>5
<1> HIDE DEF q, rec, status, t
<1> QED
  BY <1>1, <1>4, <1>7, <1>8, <1>9, FinishKeepsInductive DEF q

LEMMA ReadStep ==
  ASSUME Inductive, NEW p \in Attempt, Read(p)
  PROVE  Inductive'
<1> DEFINE q == request[p]
           d == IF q.op = "close" THEN None ELSE DraftOf(p, q)
<1>1. q \in Requests /\ pc[p] = "read" /\ pc'[p] = "lock" /\ draft'[p] = d
  BY DEF Read, Inductive, AttemptInv, FlowOK, TypeOK, AttemptTypeOK
<1>2. Drafted(p, q, d)
  <2>1. CASE q.op = "transfer"
    BY <2>1 DEF Read, ReadRefusal, Drafted, DraftOf
  <2>2. CASE q.op = "revert"
    <3>1. Original(q) # {}
      BY <2>2 DEF Read, ReadRefusal
    <3>2. (CHOOSE t \in Original(q) : TRUE) \in Original(q)
      BY <3>1
    <3> QED
      BY <2>2, <3>2 DEF DraftOf, Drafted, Original
  <2>3. CASE q.op = "close"
    BY <2>3 DEF Read, ReadRefusal, Drafted
  <2> QED
    BY <1>1, <2>1, <2>2, <2>3, RequestType
<1>3. d \in Transfer \cup {None} /\ LegsOf(q, d) \subseteq UserAccount
  BY <1>1, <1>2, DraftedType DEF Inductive, TypeOK
<1>4. NewRow \in Row
  BY AccountAssumption DEF NewRow, Row, Stored, AccountStatus
<1>5. AttemptTypeOK'
  <2>1. rows' \in [Attempt -> [UserAccount -> Row]]
    BY <1>4 DEF Read, Inductive, TypeOK, StoreTypeOK, AttemptTypeOK
  <2>2. draft' \in [Attempt -> Transfer \cup {None}] /\ pc' \in [Attempt -> Steps]
    BY <1>3 DEF Read, Inductive, TypeOK, AttemptTypeOK, Steps, InTransaction
  <2> QED
    BY <2>1, <2>2 DEF Read, Inductive, TypeOK, AttemptTypeOK
<1>6. Moves(p)
  BY DEF Read, Moves, SameAttempt, store, Inductive, TypeOK, AttemptTypeOK
<1>7. request' = request /\ KeyHolder(p)' = KeyHolder(p)
  BY <1>1 DEF Read, KeyHolder, AfterInsert
<1>8. FlowOK(p)'
  BY <1>1, <1>2 DEF Read, Inductive, AttemptInv, FlowOK, Drafted
<1>9. KeyOK(p)'
  BY <1>1, <1>7 DEF Read, Inductive, AttemptInv, KeyOK, NewRecord, Known
<1>10. LockOK(p)'
  BY <1>1 DEF Read, Inductive, AttemptInv, LockOK, AfterRead
<1>11. ReadyOK(p)' /\ AnswerOK(p)'
  BY <1>1 DEF Read, Inductive, AttemptInv, ReadyOK, AnswerOK
<1> QED
  BY <1>1, <1>5, <1>6, <1>7, <1>8, <1>9, <1>10, <1>11, MoveKeepsInductive DEF AttemptInv

(* A row is locked by one attempt at a time, as last committed; the last   *)
(* leg's lock is what lets the attempt go on.                              *)
LEMMA LockStep ==
  ASSUME Inductive, NEW p \in Attempt, Lock(p)
  PROVE  Inductive'
<1>1. PICK a \in UserAccount :
        /\ Due(p, a) /\ lock[a] = None
        /\ lock' = [lock EXCEPT ![a] = p]
        /\ rows' = [rows EXCEPT ![p][a] = LockedRow(p, a)]
        /\ pc' = [pc EXCEPT ![p] =
                    IF Legs(p) \ Held(p) = {a} THEN "post" ELSE "lock"]
  BY DEF Lock
<1>2. pc'[p] = IF Legs(p) \ Held(p) = {a} THEN "post" ELSE "lock"
  BY <1>1 DEF Inductive, TypeOK, AttemptTypeOK
<1>3. AttemptTypeOK'
  <2>1. account[a] \in Row
    BY DEF Inductive, TypeOK, StoreTypeOK
  <2>2. rows' \in [Attempt -> [UserAccount -> Row]]
    BY <1>1, <2>1 DEF LockedRow, Inductive, TypeOK, AttemptTypeOK
  <2>3. lock' \in [UserAccount -> Attempt \cup {None}] /\ pc' \in [Attempt -> Steps]
    BY <1>1 DEF Inductive, TypeOK, AttemptTypeOK, Steps, InTransaction
  <2> QED
    BY <2>2, <2>3 DEF Lock, Inductive, TypeOK, AttemptTypeOK
<1>4. Moves(p)
  <2>1. \A o \in Attempt \ {p}, b \in UserAccount : lock'[b] = o <=> lock[b] = o
    BY <1>1, MovementsAssumption DEF Inductive, TypeOK, AttemptTypeOK
  <2> QED
    BY <1>1, <2>1 DEF Lock, Moves, SameAttempt, store, Inductive, TypeOK, AttemptTypeOK
<1>5. /\ request' = request /\ draft' = draft /\ pc[p] = "lock"
      /\ KeyHolder(p)' = KeyHolder(p)
  BY <1>2 DEF Lock, KeyHolder, AfterInsert
<1>6. FlowOK(p)'
  BY <1>2, <1>5 DEF Lock, Inductive, AttemptInv, FlowOK, Drafted, AfterRead
<1>7. KeyOK(p)'
  BY <1>2, <1>5 DEF Lock, Inductive, AttemptInv, KeyOK, NewRecord, Known
<1>8. LockOK(p)'
  <2>1. Legs(p)' = Legs(p)
    BY <1>5 DEF Legs
  <2>2. Held(p)' = Held(p) \cup {a}
    BY <1>1 DEF Held, Inductive, TypeOK, AttemptTypeOK
  <2>3. rows'[p][a] = account[a]
    BY <1>1 DEF LockedRow, Inductive, TypeOK, AttemptTypeOK
  <2>4. \A b \in UserAccount \ {a} : lock'[b] = lock[b] /\ rows'[p][b] = rows[p][b]
    BY <1>1 DEF Inductive, TypeOK, AttemptTypeOK
  <2>5. account' = account /\ pc'[p] \in AfterRead /\ a \in Legs(p)
    BY <1>1, <1>2 DEF Lock, AfterRead, Due
  <2>6. \A b \in UserAccount : lock[b] = p => b \in Legs(p) /\ rows[p][b] = account[b]
    BY DEF Inductive, AttemptInv, LockOK
  <2>7. pc'[p] \in {"post", "commit"} => Legs(p) \subseteq Held(p) \cup {a}
    BY <1>2
  <2> QED
    BY <2>1, <2>2, <2>3, <2>4, <2>5, <2>6, <2>7 DEF LockOK
<1>9. ReadyOK(p)' /\ AnswerOK(p)'
  BY <1>2, <1>5 DEF Lock, Inductive, AttemptInv, ReadyOK, AnswerOK
<1> QED
  BY <1>2, <1>3, <1>4, <1>5, <1>6, <1>7, <1>8, <1>9, MoveKeepsInductive DEF AttemptInv

(* The key is free of uncommitted and of committed records: the primary    *)
(* key's unique index says so.                                             *)
LEMMA ReserveKeyStep ==
  ASSUME Inductive, NEW p \in Attempt, ReserveKey(p)
  PROVE  Inductive'
<1>1. /\ request' = request /\ pc[p] = "insert" /\ pc'[p] = "read"
      /\ pending'[p] = {NewRecord(p)} /\ request[p] \in Requests
      /\ request[p].op # "close"
  BY DEF ReserveKey, Inductive, TypeOK, AttemptTypeOK, AttemptInv, FlowOK
<1>2. NewRecord(p) \in Record
  BY <1>1, RequestType DEF NewRecord, Record, TransferRequest, RevertRequest, TransferId
<1>3. AttemptTypeOK'
  BY <1>2 DEF ReserveKey, Inductive, TypeOK, AttemptTypeOK, Steps, InTransaction
<1>4. Moves(p)
  BY DEF ReserveKey, Moves, SameAttempt, store, Inductive, TypeOK, AttemptTypeOK
<1>5. KeyHolder(p)'
  BY <1>1 DEF KeyHolder, AfterInsert
<1>6. AttemptInv(p)'
  <2>1. FlowOK(p)'
    BY <1>1 DEF ReserveKey, Inductive, AttemptInv, FlowOK, AfterRead
  <2>2. KeyOK(p)'
    BY <1>1, <1>5 DEF ReserveKey, KeyOK, NewRecord, Known
  <2>3. LockOK(p)' /\ ReadyOK(p)' /\ AnswerOK(p)'
    BY <1>1 DEF ReserveKey, Inductive, AttemptInv, LockOK, AfterRead, ReadyOK, AnswerOK
  <2> QED
    BY <2>1, <2>2, <2>3 DEF AttemptInv
<1>7. \A o \in Attempt \ {p} : KeyHolder(o) => ~SameKey(request[o], request[p])
  <2>1. TAKE o \in Attempt \ {p}
  <2>2. HAVE KeyHolder(o)
  <2>3. NewRecord(o) \in pending[o]
    BY <2>2 DEF Inductive, AttemptInv, KeyOK
  <2>4. ~SameKey(NewRecord(o), request[p])
    BY <2>3 DEF ReserveKey, KeyFree
  <2> QED
    BY <2>4 DEF SameKey, NewRecord
<1>8. KeysDistinct'
  <2> SUFFICES ASSUME NEW a \in Attempt, NEW b \in Attempt, a # b,
                      KeyHolder(a)', KeyHolder(b)'
               PROVE  ~SameKey(request[b], request[a])
    BY <1>1 DEF KeysDistinct, SameKey
  <2>1. \A o \in Attempt \ {p} : KeyHolder(o)' = KeyHolder(o)
    BY <1>4 DEF Moves, SameAttempt, KeyHolder
  <2> QED
    BY <1>7, <2>1 DEF Inductive, KeysDistinct, SameKey
<1>9. ReversalsDistinct'
  BY <1>1, <1>4 DEF Inductive, ReversalsDistinct, Reverting, Moves, SameAttempt
<1>10. TypeOK' /\ StoreInv'
  BY <1>3, <1>4, StoreInvKept DEF Inductive, TypeOK, StoreTypeOK, Moves, store
<1>11. \A o \in Attempt : AttemptInv(o)'
  BY <1>4, <1>6, StillAttemptInv DEF Inductive, Moves
<1> QED
  BY <1>8, <1>9, <1>10, <1>11 DEF Inductive

(* Of two reversals of one transfer, the second waits at the insert.       *)
LEMMA PostStep ==
  ASSUME Inductive, NEW p \in Attempt, Post(p)
  PROVE  Inductive'
<1>1. /\ request' = request /\ draft' = draft /\ pc[p] = "post" /\ pc'[p] = "commit"
      /\ PostStatus(p) = "accepted"
  BY DEF Post, Inductive, TypeOK, AttemptTypeOK
<1>2. AttemptTypeOK'
  BY DEF Post, Inductive, TypeOK, AttemptTypeOK, Steps, InTransaction
<1>3. Moves(p)
  BY DEF Post, Moves, SameAttempt, store, Inductive, TypeOK, AttemptTypeOK
<1>4. \A o \in Attempt : KeyHolder(o)' = KeyHolder(o)
  BY <1>1, <1>3 DEF Moves, SameAttempt, KeyHolder, AfterInsert
<1>5. AttemptInv(p)'
  <2>1. FlowOK(p)'
    BY <1>1 DEF Post, Inductive, AttemptInv, FlowOK, Drafted, AfterRead
  <2>2. KeyOK(p)'
    BY <1>1, <1>4 DEF Post, Inductive, AttemptInv, KeyOK, NewRecord, Known
  <2>3. LockOK(p)'
    BY <1>1 DEF Post, Inductive, AttemptInv, LockOK, AfterRead, Legs, Held
  <2>4. PostStatus(p)' = PostStatus(p)
    BY DEF Post, PostStatus, AlreadyReversed
  <2>5. ReadyOK(p)' /\ AnswerOK(p)'
    BY <1>1, <2>4 DEF Post, Inductive, AttemptInv, ReadyOK, AnswerOK
  <2> QED
    BY <2>1, <2>2, <2>3, <2>5 DEF AttemptInv
<1>6. KeysDistinct'
  BY <1>1, <1>4 DEF Inductive, KeysDistinct, SameKey
<1>7. ReversalsDistinct'
  <2>1. \A o \in Attempt \ {p} : Reverting(o)' = Reverting(o)
    BY <1>3 DEF Moves, SameAttempt, Reverting
  <2>2. \A o \in Attempt \ {p} :
          Reverting(o) /\ request[p].op = "revert" => draft[o].reverses # draft[p].reverses
    BY DEF Post, MayInsert, HoldsReversal, Reverting
  <2> QED
    BY <1>1, <2>1, <2>2 DEF Inductive, ReversalsDistinct, Reverting
<1>8. TypeOK' /\ StoreInv'
  BY <1>2, <1>3, StoreInvKept DEF Inductive, TypeOK, StoreTypeOK, Moves, store
<1>9. \A o \in Attempt : AttemptInv(o)'
  BY <1>3, <1>5, StillAttemptInv DEF Inductive, Moves
<1> QED
  BY <1>6, <1>7, <1>8, <1>9 DEF Inductive

-----------------------------------------------------------------------------
(* The commit.                                                             *)

(* posting.transfer() and posting.revert() leave every USER leg active,    *)
(* and an ordinary debit leaves its account at zero or more.               *)
LEMMA AcceptedPosting ==
  ASSUME NEW d \in Transfer, NEW r \in [UserAccount -> Row],
         Refusal(d, r) = "accepted", PostingFits(d, r), NEW a \in UserLegs(d)
  PROVE  /\ IsActive(r[a])
         /\ Successors(d, r)[a] \in Row
         /\ Successors(d, r)[a].status = r[a].status
         /\ Successors(d, r)[a].balance =
              r[a].balance + (IF a = d.source THEN - d.amount ELSE d.amount)
         /\ d.reverses = None /\ a = d.source => d.amount <= r[a].balance
<1>1. a \in UserAccount /\ r[a] \in Row /\ (a = d.source \/ a = d.destination)
  BY DEF UserLegs
<1>2. /\ Successors(d, r)[a].status = r[a].status
      /\ Successors(d, r)[a].balance =
           r[a].balance + (IF a = d.source THEN - d.amount ELSE d.amount)
      /\ Successors(d, r)[a] = [balance |-> Successors(d, r)[a].balance,
                                status |-> r[a].status, version |-> r[a].version + 1]
  BY <1>1 DEF Successors, Debit, Credit, Row, Transfer, Stored
<1>3. Successors(d, r)[a].balance \in Stored
  BY DEF PostingFits
<1>4. Successors(d, r)[a] \in Row
  BY <1>1, <1>2, <1>3 DEF Row
<1>5. IsActive(r[a])
  BY <1>1 DEF Refusal, RevertRefusal, TransferRefusal, LegRefused
<1>6. d.reverses = None /\ a = d.source => d.amount <= r[a].balance
  BY <1>1 DEF Refusal, TransferRefusal, Row, Transfer, Stored
<1> QED
  BY <1>2, <1>4, <1>5, <1>6

LEMMA ClosedRow ==
  ASSUME NEW row \in Row
  PROVE  /\ Close(row) \in Row
         /\ Close(row).balance = row.balance /\ ~IsActive(Close(row))
<1>1. Close(row) = [i \in {"balance", "status", "version"} |-> Close(row)[i]]
  BY DEF Close, Row
<1>2. /\ Close(row).balance = row.balance /\ Close(row).status = "CLOSED"
      /\ Close(row).version = row.version + 1
  BY DEF Close, Row
<1>3. row.balance \in Stored /\ row.version + 1 \in Nat
  BY DEF Row
<1> QED
  BY <1>1, <1>2, <1>3 DEF Row, AccountStatus, IsActive

(* The amount of a movement that posts is a positive BIGINT.               *)
LEMMA AcceptedAmount ==
  ASSUME StoreTypeOK, NEW p \in Attempt, NEW q \in Requests, q.op # "close",
         NEW d, Drafted(p, q, d), NEW r, Refusal(d, r) = "accepted", PostingFits(d, r)
  PROVE  d.amount \in 1 .. MaxStored
<1>1. CASE q.op = "transfer"
  <2>1. q \in TransferRequest
    BY <1>1, RequestType
  <2>2. d.reverses = None /\ d.amount \in Int
    BY <1>1, <2>1 DEF Drafted, TransferDraft, TransferRequest
  <2>3. d.amount > 0
    BY <2>2 DEF Refusal, TransferRefusal
  <2> QED
    BY <2>2, <2>3, AccountAssumption DEF PostingFits, Stored
<1>2. CASE q.op = "revert"
  BY <1>2 DEF Drafted, ReversalDraft, StoreTypeOK
<1> QED
  BY <1>1, <1>2, RequestType

(* What a committing attempt has decided, and what it writes.  Legs of a   *)
(* commit are locked, so what it read of them is what is committed.        *)
LEMMA CommitFacts ==
  ASSUME Inductive, NEW p \in Attempt, pc[p] = "commit", Apply(p)
  PROVE  /\ request[p] \in Requests
         /\ Drafted(p, request[p], draft[p])
         /\ Legs(p) \subseteq UserAccount
         /\ \A a \in Legs(p) : lock[a] = p /\ rows[p][a] = account[a] /\ IsActive(account[a])
         /\ \A a \in UserAccount \ Legs(p) : account'[a] = account[a]
         /\ request[p].op = "close" =>
              /\ transfers' = transfers /\ records' = records
              /\ \A a \in Legs(p) :
                   account[a].balance = 0 /\ account'[a] = Close(account[a])
         /\ request[p].op # "close" =>
              /\ draft[p] \in Transfer /\ draft[p].amount \in 1 .. MaxStored
              /\ draft[p].id = p
              /\ draft[p].caller = request[p].caller /\ draft[p].key = request[p].key
              /\ transfers' = transfers \cup {draft[p]}
              /\ records' = records \cup {RecordOf(draft[p])}
              /\ Legs(p) = UserLegs(draft[p])
              /\ Refusal(draft[p], rows[p]) = "accepted"
              /\ PostingFits(draft[p], rows[p])
              /\ ~AlreadyReversed(draft[p])
              /\ \A a \in Legs(p) : account'[a] = Successors(draft[p], rows[p])[a]
         /\ account' \in [UserAccount -> Row]
<1> DEFINE q == request[p]
           d == draft[p]
<1>1. q \in Requests /\ Drafted(p, q, d)
  BY DEF Inductive, AttemptInv, FlowOK, AfterRead
<1>2. /\ Legs(p) \subseteq UserAccount
      /\ q.op # "close" => d \in Transfer /\ d.id = p /\ d.caller = q.caller /\ d.key = q.key
  BY <1>1, DraftedType DEF Legs, Inductive, TypeOK
<1>3. \A a \in Legs(p) : lock[a] = p /\ rows[p][a] = account[a]
  BY <1>2 DEF Inductive, AttemptInv, LockOK, Held
<1>4. PostStatus(p) = "accepted"
  BY DEF Inductive, AttemptInv, ReadyOK
<1>5. /\ \A a \in UserAccount \ Legs(p) : account'[a] = account[a]
      /\ \A a \in Legs(p) : account'[a] = Written(p)[a]
      /\ account' = [a \in UserAccount |-> account'[a]]
  BY <1>2 DEF Apply
<1>6. rows[p] \in [UserAccount -> Row] /\ account \in [UserAccount -> Row]
  BY DEF Inductive, TypeOK, StoreTypeOK, AttemptTypeOK
<1>7. ASSUME q.op = "close"
      PROVE  /\ transfers' = transfers /\ records' = records
             /\ \A a \in Legs(p) : /\ IsActive(account[a])
                                   /\ account[a].balance = 0
                                   /\ account'[a] = Close(account[a])
                                   /\ account'[a] \in Row
  <2>1. Legs(p) = {q.account}
    BY <1>7 DEF Legs, LegsOf
  <2>2. CloseRefusal(rows[p][q.account]) = "accepted"
    BY <1>4, <1>7 DEF PostStatus
  <2>3. IsActive(account[q.account]) /\ account[q.account].balance = 0
    BY <1>3, <2>1, <2>2 DEF CloseRefusal
  <2>4. account'[q.account] = Close(account[q.account])
    BY <1>3, <1>5, <1>7, <2>1 DEF Written
  <2>5. account'[q.account] \in Row
    <3>1. account[q.account] \in Row
      BY <1>2, <1>6, <2>1
    <3> QED
      BY <2>4, <3>1, ClosedRow
  <2>6. pending[p] = {}
    BY <1>7 DEF Inductive, AttemptInv, KeyOK, KeyHolder
  <2> QED
    BY <1>7, <2>1, <2>3, <2>4, <2>5, <2>6 DEF Apply
<1>8. ASSUME q.op # "close"
      PROVE  /\ d.amount \in 1 .. MaxStored
             /\ transfers' = transfers \cup {d} /\ records' = records \cup {RecordOf(d)}
             /\ Legs(p) = UserLegs(d)
             /\ Refusal(d, rows[p]) = "accepted" /\ PostingFits(d, rows[p])
             /\ ~AlreadyReversed(d)
             /\ \A a \in Legs(p) : /\ IsActive(account[a])
                                   /\ account'[a] = Successors(d, rows[p])[a]
                                   /\ account'[a] \in Row
  <2>1. Legs(p) = UserLegs(d)
    BY <1>8 DEF Legs, LegsOf
  <2>2. Refusal(d, rows[p]) = "accepted" /\ ~AlreadyReversed(d) /\ PostingFits(d, rows[p])
    BY <1>4, <1>8 DEF PostStatus
  <2>3. d.amount \in 1 .. MaxStored
    BY <1>1, <1>8, <2>2, AcceptedAmount DEF Inductive, TypeOK
  <2>4. \A a \in Legs(p) : account'[a] = Successors(d, rows[p])[a]
    BY <1>5, <1>8, <2>1 DEF Written
  <2>5. \A a \in Legs(p) : IsActive(account[a]) /\ account'[a] \in Row
    BY <1>2, <1>3, <1>6, <1>8, <2>1, <2>2, <2>4, AcceptedPosting
  <2>6. pending[p] = {NewRecord(p)}
    BY <1>8 DEF Inductive, AttemptInv, KeyOK, KeyHolder, AfterInsert
  <2>7. RecordOf(d) = NewRecord(p)
    BY <1>1, <1>8, DraftedRecord DEF Inductive, TypeOK
  <2> QED
    BY <1>8, <2>1, <2>2, <2>3, <2>4, <2>5, <2>6, <2>7 DEF Apply
<1>9. account' \in [UserAccount -> Row]
  <2>1. \A a \in UserAccount : account'[a] \in Row
    BY <1>5, <1>6, <1>7, <1>8
  <2> QED
    BY <1>5, <2>1
<1> QED
  BY <1>1, <1>2, <1>3, <1>5, <1>7, <1>8, <1>9

(* The tables keep their invariant when an attempt commits.                *)
LEMMA CommitStoreInv ==
  ASSUME Inductive, NEW p \in Attempt, pc[p] = "commit", Apply(p)
  PROVE  StoreTypeOK' /\ StoreInv'
<1> DEFINE q == request[p]
           d == draft[p]
<1>1. CASE q.op = "close"
  <2>1. /\ transfers' = transfers /\ records' = records
        /\ account' \in [UserAccount -> Row]
        /\ \A a \in UserAccount \ Legs(p) : account'[a] = account[a]
        /\ \A a \in Legs(p) : account[a].balance = 0 /\ account'[a] = Close(account[a])
        /\ Legs(p) \subseteq UserAccount
    BY <1>1, CommitFacts
  <2>2. StoreTypeOK'
    BY <2>1 DEF Inductive, TypeOK, StoreTypeOK
  <2>3. ClosedIsEmpty'
    <3>1. \A a \in Legs(p) : account'[a].balance = 0
      <4>1. \A a \in Legs(p) : account[a] \in Row
        BY <2>1 DEF Inductive, TypeOK, StoreTypeOK
      <4> QED
        BY <2>1, <4>1 DEF Close, Row
    <3> QED
      BY <2>1, <3>1 DEF Inductive, StoreInv, ClosedIsEmpty
  <2> QED
    BY <2>1, <2>2, <2>3 DEF Inductive, StoreInv, KeySpentIffPosted, UniqueIds,
                            OnePostingPerKey, ReversedOnceInFull,
                            NoSelfTransfer
<1>2. CASE q.op # "close"
  <2>1. /\ q \in Requests /\ Drafted(p, q, d)
        /\ d \in Transfer /\ d.amount \in 1 .. MaxStored
        /\ d.id = p /\ d.caller = q.caller /\ d.key = q.key
        /\ transfers' = transfers \cup {d} /\ records' = records \cup {RecordOf(d)}
        /\ account' \in [UserAccount -> Row]
        /\ \A a \in UserAccount \ Legs(p) : account'[a] = account[a]
    BY <1>2, CommitFacts
  <2>2. KeySpentIffPosted'
    BY <2>1 DEF Inductive, StoreInv, KeySpentIffPosted
  <2>3. UniqueIds'
    <3>1. \A t \in transfers : t.id # p
      BY DEF Inductive, AttemptInv, FlowOK
    <3> QED
      BY <2>1, <3>1 DEF Inductive, StoreInv, UniqueIds
  <2>4. OnePostingPerKey'
    <3>1. Known(q) = {}
      BY <1>2 DEF Inductive, AttemptInv, KeyOK, KeyHolder, AfterInsert
    <3>2. \A t \in transfers : RecordOf(t) \in records
      BY DEF Inductive, StoreInv, KeySpentIffPosted
    <3>3. ASSUME NEW t \in transfers
          PROVE  ~(t.caller = q.caller /\ t.key = q.key)
      <4>1. RecordOf(t).caller = t.caller /\ RecordOf(t).key = t.key
        BY DEF RecordOf
      <4>2. ~SameKey(RecordOf(t), q)
        BY <3>1, <3>2 DEF Known
      <4> QED
        BY <4>1, <4>2 DEF SameKey
    <3> QED
      BY <2>1, <3>3 DEF Inductive, StoreInv, OnePostingPerKey
  <2>5. ReversedOnceInFull'
    <3>1. ~AlreadyReversed(d)
      BY <1>2, CommitFacts
    <3>2. ASSUME d.reverses # None
          PROVE  \E o \in transfers :
                   /\ o.id = d.reverses
                   /\ <<d.source, d.destination, d.amount>>
                        = <<o.destination, o.source, o.amount>>
      <4>1. q.op = "revert"
        BY <1>2, <2>1, <3>2, RequestType DEF Drafted, TransferDraft
      <4>2. PICK o \in transfers : o.id = q.target /\ d = ReversalDraft(p, q, o)
        BY <2>1, <4>1 DEF Drafted
      <4> QED
        BY <4>2 DEF ReversalDraft
    <3>3. d.reverses # None => \A t \in transfers : t.reverses # d.reverses
      BY <3>1 DEF AlreadyReversed
    <3> QED
      BY <2>1, <3>2, <3>3 DEF Inductive, StoreInv, ReversedOnceInFull
  <2>6. ClosedIsEmpty'
    <3>1. \A a \in Legs(p) : IsActive(account'[a])
      <4> SUFFICES ASSUME NEW a \in Legs(p)
                   PROVE  IsActive(account'[a])
        OBVIOUS
      <4>1. /\ Refusal(d, rows[p]) = "accepted" /\ PostingFits(d, rows[p])
            /\ a \in UserLegs(d) /\ account'[a] = Successors(d, rows[p])[a]
        BY <1>2, CommitFacts
      <4>2. rows[p] \in [UserAccount -> Row]
        BY DEF Inductive, TypeOK, AttemptTypeOK
      <4> QED
        BY <2>1, <4>1, <4>2, AcceptedPosting DEF IsActive
    <3> QED
      BY <2>1, <3>1 DEF Inductive, StoreInv, ClosedIsEmpty
  <2>7. StoreTypeOK'
    <3>1. RecordOf(d) \in Record
      <4>1. RecordOf(d) = NewRecord(p) /\ NewRecord(p) \in pending[p]
        BY <1>2, <2>1, DraftedRecord
        DEF Inductive, TypeOK, AttemptInv, KeyOK, KeyHolder, AfterInsert
      <4> QED
        BY <4>1 DEF Inductive, TypeOK, AttemptTypeOK
    <3> QED
      BY <2>1, <3>1 DEF Inductive, TypeOK, StoreTypeOK
  <2>8. NoSelfTransfer'
    <3>1. CASE q.op = "revert"
      <4>1. PICK o \in transfers : d = ReversalDraft(p, q, o)
        BY <2>1, <3>1 DEF Drafted
      <4>2. d.source # d.destination
        BY <4>1 DEF ReversalDraft, Inductive, StoreInv, NoSelfTransfer
      <4> QED
        BY <2>1, <4>2 DEF Inductive, StoreInv, NoSelfTransfer
    <3>2. CASE q.op = "transfer"
      <4>1. d.reverses = None
        BY <2>1, <3>2 DEF Drafted, TransferDraft
      <4>2. Refusal(d, rows[p]) = "accepted"
        BY <1>2, CommitFacts
      <4>3. d.source # d.destination
        BY <4>1, <4>2 DEF Refusal, TransferRefusal
      <4> QED
        BY <2>1, <4>3 DEF Inductive, StoreInv, NoSelfTransfer
    <3> QED
      BY <1>2, <2>1, <3>1, <3>2, RequestType
  <2> QED
    BY <2>2, <2>3, <2>4, <2>5, <2>6, <2>7, <2>8 DEF StoreInv
<1> QED
  BY <1>1, <1>2

(* Whoever else is in a transaction keeps what it relies on: its rows are  *)
(* locked by it, its key and its reversal's original are its own.          *)
LEMMA CommitOthers ==
  ASSUME Inductive, NEW p \in Attempt, pc[p] = "commit", Apply(p),
         NEW o \in Attempt \ {p}, SameAttempt(o)
  PROVE  AttemptInv(o)'
<1>1. transfers \subseteq transfers' /\ records \subseteq records'
  BY DEF Apply
<1>2. \A t \in transfers' \ transfers : t.id = p
  BY CommitFacts
<1>3. FlowOK(o)'
  BY <1>1, <1>2 DEF SameAttempt, Inductive, AttemptInv, FlowOK, Drafted
<1>4. KeyOK(o)'
  <2>1. KeyHolder(o)' = KeyHolder(o) /\ NewRecord(o)' = NewRecord(o)
    BY DEF SameAttempt, KeyHolder, NewRecord
  <2>2. Known(request[o]) # {} => Known(request[o])' # {}
    BY <1>1 DEF SameAttempt, Known
  <2>3. KeyHolder(o) => Known(request[o])' = {}
    <3> SUFFICES ASSUME KeyHolder(o), NEW rec \in records', SameKey(rec, request[o])
                 PROVE  FALSE
      BY DEF SameAttempt, Known
    <3>1. rec \notin records
      BY DEF Inductive, AttemptInv, KeyOK, Known
    <3>2. request[p].op # "close" /\ rec = RecordOf(draft[p])
      BY <3>1, CommitFacts
    <3>3. rec.caller = request[p].caller /\ rec.key = request[p].key
      BY <3>2, CommitFacts DEF RecordOf
    <3>4. KeyHolder(p)
      BY <3>2 DEF KeyHolder, AfterInsert
    <3> QED
      BY <3>3, <3>4 DEF Inductive, KeysDistinct, SameKey
  <2> QED
    BY <2>1, <2>2, <2>3 DEF SameAttempt, Inductive, AttemptInv, KeyOK
<1>5. LockOK(o)'
  <2>1. \A a \in UserAccount : lock[a] = o => account'[a] = account[a]
    BY CommitFacts
  <2> QED
    BY <2>1 DEF SameAttempt, Inductive, AttemptInv, LockOK, Legs, Held
<1>6. ReadyOK(o)'
  <2>1. CASE pc[o] = "commit"
    <3>1. ~AlreadyReversed(draft[o]) \/ request[o].op = "close"
      BY <2>1 DEF Inductive, AttemptInv, ReadyOK, PostStatus
    <3>2. AlreadyReversed(draft[o])' = AlreadyReversed(draft[o]) \/ request[o].op = "close"
      <4> SUFFICES ASSUME request[o].op # "close", draft[o].reverses # None,
                          NEW t \in transfers' \ transfers, t.reverses = draft[o].reverses
                   PROVE  FALSE
        BY <1>1 DEF SameAttempt, AlreadyReversed
      <4>1. t = draft[p] /\ request[p].op # "close" /\ Drafted(p, request[p], draft[p])
            /\ request[p] \in Requests
        BY CommitFacts
      <4>2. Reverting(p)
        BY <4>1, RequestType DEF Reverting, Drafted, TransferDraft
      <4>3. Drafted(o, request[o], draft[o]) /\ request[o] \in Requests
        BY <2>1 DEF Inductive, AttemptInv, FlowOK, AfterRead
      <4>4. Reverting(o)
        BY <2>1, <4>3, RequestType DEF Reverting, Drafted, TransferDraft
      <4> QED
        BY <4>1, <4>2, <4>4 DEF Inductive, ReversalsDistinct
    <3> QED
      BY <3>1, <3>2 DEF SameAttempt, Inductive, AttemptInv, ReadyOK, PostStatus
  <2>2. CASE pc[o] # "commit"
    BY <2>2 DEF SameAttempt, ReadyOK
  <2> QED
    BY <2>1, <2>2
<1>7. AnswerOK(o)'
  BY <1>1 DEF SameAttempt, Inductive, AttemptInv, AnswerOK
<1> QED
  BY <1>3, <1>4, <1>5, <1>6, <1>7 DEF AttemptInv

LEMMA CommitKeepsInductive ==
  ASSUME Inductive, NEW p \in Attempt, pc[p] = "commit", Apply(p),
         NEW status \in {"created", "closed", "lost"}, NEW t \in {p, None},
         Finish(p, status, t),
         status = "created" => t = p /\ request[p].op # "close"
  PROVE  Inductive'
<1>1. /\ AttemptTypeOK'
      /\ pc'[p] = "done" /\ request'[p] = request[p] /\ pending'[p] = {}
      /\ answer'[p] = [status |-> status, transfer |-> t]
      /\ \A a \in UserAccount : lock'[a] # p
      /\ \A o \in Attempt \ {p} : SameAttempt(o)
  BY FinishEffect DEF Inductive, TypeOK, Statuses, TransferId
<1>2. StoreTypeOK' /\ StoreInv'
  BY CommitStoreInv
<1>3. \A o \in Attempt \ {p} : AttemptInv(o)'
  BY <1>1, CommitOthers
<1>4. AttemptInv(p)'
  <2>1. ~KeyHolder(p)'
    BY <1>1 DEF KeyHolder, AfterInsert
  <2>2. FlowOK(p)' /\ KeyOK(p)' /\ ReadyOK(p)'
    BY <1>1, <2>1, CommitFacts DEF FlowOK, KeyOK, ReadyOK, AfterRead
  <2>3. LockOK(p)'
    BY <1>1 DEF LockOK
  <2>4. AnswerOK(p)'
    <3>1. ASSUME status = "created"
          PROVE  draft[p] \in transfers' /\ draft[p].id = p /\ Fulfils(draft[p], request[p])
      <4>1. /\ request[p] \in Requests /\ Drafted(p, request[p], draft[p])
            /\ draft[p] \in transfers' /\ draft[p].id = p
            /\ draft[p].caller = request[p].caller /\ draft[p].key = request[p].key
        BY <3>1, CommitFacts
      <4>2. CASE request[p].op = "transfer"
        BY <4>1, <4>2 DEF Drafted, TransferDraft, Fulfils, Hash
      <4>3. CASE request[p].op = "revert"
        <5>1. PICK o \in transfers :
                o.id = request[p].target /\ draft[p] = ReversalDraft(p, request[p], o)
          BY <4>1, <4>3 DEF Drafted
        <5> QED
          BY <4>1, <4>3, <5>1 DEF ReversalDraft, Fulfils
      <4> QED
        BY <3>1, <4>1, <4>2, <4>3, RequestType
    <3> QED
      BY <1>1, <3>1 DEF AnswerOK
  <2> QED
    BY <2>2, <2>3, <2>4 DEF AttemptInv
<1>5. KeysDistinct'
  <2>1. ~KeyHolder(p)'
    BY <1>1 DEF KeyHolder, AfterInsert
  <2> QED
    BY <1>1, <2>1 DEF Inductive, KeysDistinct, KeyHolder, SameKey, SameAttempt
<1>6. ReversalsDistinct'
  BY <1>1 DEF Inductive, ReversalsDistinct, Reverting, SameAttempt
<1> QED
  BY <1>1, <1>2, <1>3, <1>4, <1>5, <1>6 DEF Inductive, TypeOK

LEMMA CommitStep ==
  ASSUME Inductive, NEW p \in Attempt, Commit(p) \/ CommitUnheard(p)
  PROVE  Inductive'
<1>1. CASE CommitUnheard(p)
  BY <1>1, CommitKeepsInductive DEF CommitUnheard
<1>2. CASE Commit(p) /\ request[p].op = "close"
  BY <1>2, CommitKeepsInductive DEF Commit
<1>3. CASE Commit(p) /\ request[p].op # "close"
  BY <1>3, CommitKeepsInductive DEF Commit
<1> QED
  BY <1>1, <1>2, <1>3

-----------------------------------------------------------------------------
(* The invariant holds initially and at every step.                        *)

LEMMA OpeningRowType ==
  ASSUME NEW a \in UserAccount
  PROVE  OpeningRow(a) \in Row /\ IsActive(OpeningRow(a))
<1>1. Opening[a] \in 0 .. MaxStored
  BY MovementsAssumption
<1>2. NewRow \in Row
  BY AccountAssumption DEF NewRow, Row, Stored, AccountStatus
<1>3. CASE a \in Funded
  <2>1. OpeningRow(a) = [i \in {"balance", "status", "version"} |-> OpeningRow(a)[i]]
    BY <1>3 DEF OpeningRow, NewRow, Credit
  <2>2. /\ OpeningRow(a).balance = Opening[a] /\ OpeningRow(a).status = "ACTIVE"
        /\ OpeningRow(a).version = 1
    BY <1>1, <1>3 DEF OpeningRow, NewRow, Credit
  <2>3. Opening[a] \in Stored
    BY <1>1, AccountAssumption DEF Stored
  <2> QED
    BY <2>1, <2>2, <2>3 DEF Row, AccountStatus, IsActive
<1>4. CASE a \notin Funded
  BY <1>2, <1>4 DEF OpeningRow, IsActive, NewRow
<1> QED
  BY <1>3, <1>4

LEMMA InitInductive == Init => Inductive
<1> SUFFICES ASSUME Init PROVE Inductive
  OBVIOUS
<1>1. \A t \in transfers :
        \E a \in Funded : t = OpeningDeposit(a) /\ a \in UserAccount
  BY DEF Init, OpeningDeposits, Funded
<1>2. \A t \in transfers :
        /\ t \in Transfer /\ t.amount \in 1 .. MaxStored
        /\ t.reverses = None /\ t.id \in UserAccount /\ t.key = t.id
        /\ t = OpeningDeposit(t.id) /\ t.source # t.destination
  <2>1. \A a \in Funded : /\ OpeningDeposit(a).id = a /\ OpeningDeposit(a).key = a
                          /\ OpeningDeposit(a).reverses = None
    BY DEF OpeningDeposit
  <2> QED
    BY <1>1, <2>1, OpeningDepositType
<1>3. TypeOK
  <2>1. records \subseteq Record
    BY <1>2 DEF Init, Record, RecordOf, Transfer
  <2>2. NoRows \in [UserAccount -> Row]
    BY AccountAssumption DEF NoRows, NewRow, Row, Stored, AccountStatus
  <2>3. account \in [UserAccount -> Row]
    BY OpeningRowType DEF Init
  <2>4. StoreTypeOK
    BY <1>2, <2>1, <2>3 DEF StoreTypeOK
  <2>5. AttemptTypeOK
    BY <2>2 DEF Init, AttemptTypeOK, Steps
  <2> QED
    BY <2>4, <2>5 DEF TypeOK
<1>4. StoreInv
  <2>1. UniqueIds /\ OnePostingPerKey
    BY <1>2 DEF UniqueIds, OnePostingPerKey
  <2>2. ClosedIsEmpty
    BY OpeningRowType DEF Init, ClosedIsEmpty
  <2>3. KeySpentIffPosted /\ ReversedOnceInFull /\ NoSelfTransfer
    BY <1>2 DEF Init, KeySpentIffPosted, ReversedOnceInFull, NoSelfTransfer
  <2> QED
    BY <2>1, <2>2, <2>3 DEF StoreInv
<1>5. ASSUME NEW p \in Attempt
      PROVE  AttemptInv(p) /\ ~KeyHolder(p) /\ ~Reverting(p)
  <2>1. pc[p] = "idle" /\ pending[p] = {} /\ answer[p] = None
    BY DEF Init
  <2>2. ~KeyHolder(p) /\ ~Reverting(p)
    BY <2>1 DEF KeyHolder, AfterInsert, Reverting
  <2>3. FlowOK(p)
    BY <1>2, <2>1, MovementsAssumption DEF FlowOK, AfterRead
  <2>4. LockOK(p)
    BY <2>1, MovementsAssumption DEF Init, LockOK
  <2>5. KeyOK(p) /\ ReadyOK(p) /\ AnswerOK(p)
    BY <2>1, <2>2 DEF KeyOK, ReadyOK, AnswerOK
  <2> QED
    BY <2>2, <2>3, <2>4, <2>5 DEF AttemptInv
<1> QED
  BY <1>3, <1>4, <1>5 DEF Inductive, KeysDistinct, ReversalsDistinct

LEMMA StutterKeepsInductive ==
  ASSUME Inductive, UNCHANGED vars
  PROVE  Inductive'
<1>1. TypeOK'
  BY DEF Inductive, vars, TypeOK, StoreTypeOK, AttemptTypeOK
<1>2. StoreInv'
  BY StoreInvKept DEF Inductive, vars, store
<1>3. \A p \in Attempt : AttemptInv(p)'
  BY StillAttemptInv DEF Inductive, vars, store, SameAttempt
<1>4. KeysDistinct' /\ ReversalsDistinct'
  BY DEF Inductive, vars, KeysDistinct, KeyHolder, SameKey, ReversalsDistinct, Reverting
<1> QED
  BY <1>1, <1>2, <1>3, <1>4 DEF Inductive

LEMMA NextInductive == Inductive /\ [Next]_vars => Inductive'
<1> SUFFICES ASSUME Inductive, [Next]_vars PROVE Inductive'
  OBVIOUS
<1>1. ASSUME NEW p \in Attempt, Arrive(p) PROVE Inductive'
  BY <1>1, ArriveStep
<1>2. ASSUME NEW p \in Attempt, TurnAway(p) PROVE Inductive'
  BY <1>2, TurnAwayStep
<1>3. ASSUME NEW p \in Attempt, Advance(p) PROVE Inductive'
  BY <1>3, FindNothingStep, ReplayStep, ReserveKeyStep, LoseKeyRaceStep, ReadStep,
     RefuseReadStep, LockStep, PostStep, RefusePostStep, CommitStep
  DEF Advance
<1>4. ASSUME NEW p \in Attempt, CommitUnheard(p) PROVE Inductive'
  BY <1>4, CommitStep
<1>5. ASSUME NEW p \in Attempt, Abort(p) PROVE Inductive'
  BY <1>5, AbortStep
<1>6. CASE AllServed \/ UNCHANGED vars
  BY <1>6, StutterKeepsInductive DEF AllServed
<1> QED
  BY <1>1, <1>2, <1>3, <1>4, <1>5, <1>6 DEF Next

(* The conjunction is an invariant of the service.                         *)
THEOREM InductiveInvariant == Spec => []Inductive
BY InitInductive, NextInductive, PTL DEF Spec

-----------------------------------------------------------------------------
(* The safety properties, for every value of the constants.                *)

(* Every column, message and local variable keeps its type: no balance     *)
(* outside what a BIGINT holds is ever committed.                          *)
THEOREM TypeCorrect == Spec => []TypeOK
<1>1. Inductive => TypeOK
  BY DEF Inductive
<1> QED
  BY <1>1, InductiveInvariant, PTL

(* However many attempts carry a (caller, key), one transfer at most is    *)
(* posted under it.                                                        *)
THEOREM KeyPostsOnce == Spec => []OnePostingPerKey
<1>1. Inductive => OnePostingPerKey
  BY DEF Inductive, StoreInv
<1> QED
  BY <1>1, InductiveInvariant, PTL

(* The idempotency table and the ledger never disagree: no key is spent    *)
(* without its transfer and no transfer lands without its key.             *)
THEOREM KeyAndTransferCommitTogether == Spec => []KeySpentIffPosted
<1>1. Inductive => KeySpentIffPosted
  BY DEF Inductive, StoreInv
<1> QED
  BY <1>1, InductiveInvariant, PTL

(* A transfer is reversed at most once, by the mirror image of itself,     *)
(* whatever keys the reversals are asked under.                            *)
THEOREM OneFullReversal == Spec => []ReversedOnceInFull
<1>1. Inductive => ReversedOnceInFull
  BY DEF Inductive, StoreInv
<1> QED
  BY <1>1, InductiveInvariant, PTL

(* No money is ever left in, or lands in, a closed account.                *)
THEOREM ClosedStaysEmpty == Spec => []ClosedIsEmpty
<1>1. Inductive => ClosedIsEmpty
  BY DEF Inductive, StoreInv
<1> QED
  BY <1>1, InductiveInvariant, PTL

(* A row held FOR UPDATE is, in its holder's memory, the committed row: no *)
(* decision rests on the copy read before the lock.                        *)
THEOREM DecisionsAreCurrent == Spec => []LockedRowsAreCurrent
<1>1. Inductive => LockedRowsAreCurrent
  BY DEF Inductive, AttemptInv, LockOK, LockedRowsAreCurrent
<1> QED
  BY <1>1, InductiveInvariant, PTL

(* A client told "created" was told of a committed transfer that is what   *)
(* it asked for, posted by this attempt or by an earlier one.              *)
THEOREM CreatedIsPosted == Spec => []CreatedMeansPosted
<1>1. Inductive => CreatedMeansPosted
  BY DEF Inductive, AttemptInv, AnswerOK, CreatedMeansPosted
<1> QED
  BY <1>1, InductiveInvariant, PTL

(* The RuntimeError branches of _replay_or_conflict and execute, marked    *)
(* defensive in the code, are indeed never taken.                          *)
THEOREM DefensiveBranchesAreDead == Spec => []RecordNeverVanishes
<1>1. Inductive => RecordNeverVanishes
  BY DEF Inductive, AttemptInv, AnswerOK, RecordNeverVanishes
<1> QED
  BY <1>1, InductiveInvariant, PTL

-----------------------------------------------------------------------------
(* What a step does to the tables: nothing, or the commit of one attempt.  *)

LEMMA OnlyCommitsWrite ==
  ASSUME [Next]_vars
  PROVE  \/ UNCHANGED store
         \/ \E p \in Attempt : pc[p] = "commit" /\ Apply(p)
BY DEF Next, Arrive, TurnAway, Advance, FindNothing, Replay, ReserveKey, LoseKeyRace,
       Read, RefuseRead, Lock, Post, RefusePost, RollBack, Commit, CommitUnheard, Abort,
       AllServed, vars, store

(* A closed account's row is never written again.                          *)
THEOREM ClosureIsFinal == Spec => ClosedIsFinal
<1>1. ASSUME Inductive, [Next]_vars
      PROVE  \A a \in UserAccount : ~IsActive(account[a]) => account'[a] = account[a]
  <2>1. CASE UNCHANGED store
    BY <2>1 DEF store
  <2>2. ASSUME NEW p \in Attempt, pc[p] = "commit", Apply(p)
        PROVE  \A a \in UserAccount : ~IsActive(account[a]) => account'[a] = account[a]
    BY <1>1, <2>2, CommitFacts
  <2> QED
    BY <1>1, <2>1, <2>2, OnlyCommitsWrite
<1>2. Inductive /\ [Next]_vars
        => [\A a \in UserAccount : ~IsActive(account[a]) => account'[a] = account[a]]_vars
  BY <1>1
<1> QED
  BY <1>2, InductiveInvariant, PTL DEF Spec, ClosedIsFinal

(* The only movement that takes an account below zero is a reversal.       *)
THEOREM OverdraftsAreReversals == Spec => OnlyReversalsOverdraw
<1> DEFINE Sound ==
      \A a \in UserAccount :
        account'[a].balance < account[a].balance /\ account'[a].balance < 0
          => \E t \in transfers' \ transfers : t.source = a /\ t.reverses # None
<1>1. ASSUME Inductive, [Next]_vars
      PROVE  Sound
  <2>1. CASE UNCHANGED store
    <3>1. \A a \in UserAccount : account[a] \in Row
      BY <1>1 DEF Inductive, TypeOK, StoreTypeOK
    <3> QED
      BY <2>1, <3>1 DEF store, Row, Stored
  <2>2. ASSUME NEW p \in Attempt, pc[p] = "commit", Apply(p)
        PROVE  Sound
    <3> SUFFICES ASSUME NEW a \in UserAccount,
                        account'[a].balance < account[a].balance,
                        account'[a].balance < 0
                 PROVE  \E t \in transfers' \ transfers : t.source = a /\ t.reverses # None
      OBVIOUS
    <3> DEFINE d == draft[p]
    <3>1. account[a] \in Row /\ account[a].balance \in Int
      BY <1>1, AccountAssumption DEF Inductive, TypeOK, StoreTypeOK, Row, Stored
    <3>2. a \in Legs(p)
      BY <1>1, <2>2, <3>1, CommitFacts
    <3>3. request[p].op # "close"
      <4>1. request[p].op = "close" => account'[a] = Close(account[a])
        BY <1>1, <2>2, <3>2, CommitFacts
      <4> QED
        BY <3>1, <4>1, ClosedRow
    <3>4. /\ d \in Transfer /\ d.amount \in 1 .. MaxStored /\ d.id = p
          /\ d \in transfers' /\ a \in UserLegs(d)
          /\ Refusal(d, rows[p]) = "accepted" /\ PostingFits(d, rows[p])
          /\ account'[a] = Successors(d, rows[p])[a] /\ rows[p][a] = account[a]
      BY <1>1, <2>2, <3>2, <3>3, CommitFacts
    <3>5. rows[p] \in [UserAccount -> Row]
      BY <1>1 DEF Inductive, TypeOK, AttemptTypeOK
    <3>6. /\ account'[a].balance =
               account[a].balance + (IF a = d.source THEN - d.amount ELSE d.amount)
          /\ d.reverses = None /\ a = d.source => d.amount <= account[a].balance
      BY <3>4, <3>5, AcceptedPosting
    <3>7. a = d.source /\ d.reverses # None
      BY <3>1, <3>4, <3>6, AccountAssumption
    <3>8. d \notin transfers
      BY <1>1, <2>2, <3>4 DEF Inductive, AttemptInv, FlowOK
    <3> QED
      BY <3>4, <3>7, <3>8
  <2> QED
    BY <1>1, <2>1, <2>2, OnlyCommitsWrite
<1>2. Inductive /\ [Next]_vars => [Sound]_vars
  BY <1>1
<1> QED
  BY <1>2, InductiveInvariant, PTL DEF Spec, OnlyReversalsOverdraw

-----------------------------------------------------------------------------
(* The service implements the atomic ledger.                               *)

LEMMA InitRefines == Init => AtomicLedger!LedgerInit
<1> SUFFICES ASSUME Init PROVE AtomicLedger!LedgerInit
  OBVIOUS
<1>1. \A a \in UserAccount : account[a].balance = Opening[a]
  <2> SUFFICES ASSUME NEW a \in UserAccount PROVE account[a].balance = Opening[a]
    OBVIOUS
  <2>1. Opening[a] \in 0 .. MaxStored
    BY MovementsAssumption
  <2>2. CASE a \in Funded
    <3>1. OpeningRow(a) = Credit(NewRow, Opening[a])
      BY <2>2 DEF OpeningRow
    <3>2. Credit(NewRow, Opening[a]).balance = Opening[a]
      BY <2>1, AccountAssumption DEF Credit, NewRow
    <3> QED
      BY <3>1, <3>2 DEF Init
  <2>3. CASE a \notin Funded
    <3>1. Opening[a] = 0
      BY <2>1, <2>3, AccountAssumption DEF Funded
    <3>2. OpeningRow(a).balance = 0
      BY <2>3 DEF OpeningRow, NewRow
    <3> QED
      BY <3>1, <3>2 DEF Init
  <2> QED
    BY <2>2, <2>3
<1>2. [a \in UserAccount |-> account[a].balance] = Opening
  BY <1>1, MovementsAssumption
<1>3. {a \in UserAccount : ~IsActive(account[a])} = {}
  BY OpeningRowType DEF Init
<1>4. transfers = AtomicLedger!OpeningDeposits
  BY DEF Init, OpeningDeposits, AtomicLedger!OpeningDeposits, Funded, AtomicLedger!Funded,
         OpeningDeposit, AtomicLedger!OpeningDeposit, OpeningSource, AtomicLedger!OpeningSource
<1> QED
  BY <1>2, <1>3, <1>4 DEF AtomicLedger!LedgerInit

(* A closure that commits is a Retire.                                     *)
LEMMA CommittedClosureRetires ==
  ASSUME Inductive, NEW p \in Attempt, pc[p] = "commit", Apply(p), request[p].op = "close"
  PROVE  AtomicLedger!Retire(request[p])
<1> DEFINE q == request[p]
<1>1. /\ q.account \in UserAccount /\ Owner[q.account] = q.caller
      /\ transfers' = transfers
      /\ IsActive(account[q.account]) /\ account[q.account].balance = 0
      /\ account'[q.account] = Close(account[q.account])
      /\ \A a \in UserAccount \ {q.account} : account'[a] = account[a]
  <2>1. Legs(p) = {q.account} /\ Drafted(p, q, draft[p])
    BY CommitFacts DEF Legs, LegsOf
  <2> QED
    BY <2>1, CommitFacts DEF Drafted
<1>2. /\ account'[q.account].balance = account[q.account].balance
      /\ ~IsActive(account'[q.account])
  <2>1. account[q.account] \in Row
    BY <1>1 DEF Inductive, TypeOK, StoreTypeOK
  <2> QED
    BY <1>1, <2>1, ClosedRow
<1>3. [a \in UserAccount |-> account'[a].balance] = [a \in UserAccount |-> account[a].balance]
  BY <1>1, <1>2
<1>4. {a \in UserAccount : ~IsActive(account'[a])}
        = {a \in UserAccount : ~IsActive(account[a])} \cup {q.account}
  BY <1>1, <1>2
<1> QED
  BY <1>1, <1>3, <1>4
  DEF AtomicLedger!Retire, IsActive, AtomicLedger!IsActive

(* A movement that commits is booked: once, under an unused key, on open   *)
(* accounts, with both legs.                                               *)
LEMMA CommittedMovementIsBooked ==
  ASSUME Inductive, NEW p \in Attempt, pc[p] = "commit", Apply(p), request[p].op # "close"
  PROVE  AtomicLedger!Book(draft[p])
<1> DEFINE q == request[p]
           d == draft[p]
<1>1. /\ q \in Requests /\ d \in Transfer /\ d.amount \in 1 .. MaxStored
      /\ d.id = p /\ d.caller = q.caller /\ d.key = q.key
      /\ transfers' = transfers \cup {d}
      /\ Legs(p) = UserLegs(d) /\ Legs(p) \subseteq UserAccount
      /\ Refusal(d, rows[p]) = "accepted" /\ PostingFits(d, rows[p])
      /\ \A a \in UserAccount \ Legs(p) : account'[a] = account[a]
      /\ \A a \in Legs(p) : /\ rows[p][a] = account[a] /\ IsActive(account[a])
                            /\ account'[a] = Successors(d, rows[p])[a]
  BY CommitFacts
<1>2. d.source # d.destination
  BY <1>1, CommitStoreInv DEF StoreInv, NoSelfTransfer
<1>3. \A t \in transfers : t.id # d.id
  BY <1>1 DEF Inductive, AttemptInv, FlowOK
<1>4. \A t \in transfers : ~(t.caller = d.caller /\ t.key = d.key)
  <2>1. \A t \in transfers : t \in transfers' /\ t # d
    BY <1>1, <1>3
  <2> QED
    BY <1>1, <2>1, CommitStoreInv DEF StoreInv, OnePostingPerKey
<1>5. \A a \in UserAccount :
        /\ account'[a].balance = account[a].balance + Net(d, a)
        /\ account'[a].status = account[a].status
  <2> SUFFICES ASSUME NEW a \in UserAccount
               PROVE  /\ account'[a].balance = account[a].balance + Net(d, a)
                      /\ account'[a].status = account[a].status
    OBVIOUS
  <2>1. account[a].balance \in Int /\ d.amount \in Int
    BY <1>1, AccountAssumption
    DEF Inductive, TypeOK, StoreTypeOK, Row, Stored
  <2>2. CASE a \in Legs(p)
    <3>1. rows[p] \in [UserAccount -> Row]
      BY DEF Inductive, TypeOK, AttemptTypeOK
    <3>2. /\ account'[a].status = account[a].status
          /\ account'[a].balance =
               account[a].balance + (IF a = d.source THEN - d.amount ELSE d.amount)
      BY <1>1, <2>2, <3>1, AcceptedPosting
    <3>3. a = d.source \/ a = d.destination
      BY <1>1, <2>2 DEF UserLegs
    <3> QED
      BY <1>2, <2>1, <3>2, <3>3 DEF Net
  <2>3. CASE a \notin Legs(p)
    <3>1. a # d.source /\ a # d.destination /\ account'[a] = account[a]
      BY <1>1, <2>3 DEF UserLegs
    <3> QED
      BY <2>1, <3>1 DEF Net
  <2> QED
    BY <2>2, <2>3
<1>6. /\ AtomicLedger!UserLegs(d) = UserLegs(d)
      /\ \A a \in UserAccount : AtomicLedger!Net(d, a) = Net(d, a)
  BY DEF AtomicLedger!UserLegs, UserLegs, AtomicLedger!Net, Net
<1>7. [a \in UserAccount |-> account'[a].balance]
        = [a \in UserAccount |->
             [b \in UserAccount |-> account[b].balance][a] + AtomicLedger!Net(d, a)]
  BY <1>5, <1>6
<1>8. {a \in UserAccount : ~IsActive(account'[a])}
        = {a \in UserAccount : ~IsActive(account[a])}
  BY <1>5 DEF IsActive
<1>9. UserLegs(d) \cap {a \in UserAccount : ~IsActive(account[a])} = {}
  BY <1>1
<1> QED
  BY <1>1, <1>3, <1>4, <1>6, <1>7, <1>8, <1>9
  DEF AtomicLedger!Book, AtomicLedger!KeyUsed

-----------------------------------------------------------------------------
(* What is stored is what is posted.                                       *)

(* NetPosted is a sum of the kind that FiniteSetFacts is about.            *)
LEMMA NetPostedIsSum ==
  ASSUME NEW S, IsFiniteSet(S), NEW a
  PROVE  MapThenSumSet(LAMBDA t : Net(t, a), S) = SumOver([t \in S |-> Net(t, a)], S)
<1> DEFINE g == [t \in S |-> Net(t, a)]
           Goes(iter) == iter = [s \in SUBSET S |->
                                   IF s = {} THEN 0
                                   ELSE Net(Some(s), a) + iter[s \ {Some(s)}]]
<1>1. MapThenSumSet(LAMBDA t : Net(t, a), S) = (CHOOSE iter : Goes(iter))[S]
  BY Zenon DEF MapThenSumSet, MapThenFoldSet, Some
<1>2. \A iter : Goes(iter) <=> SumsUp(g, S, iter)
  <2>1. \A s \in SUBSET S : s # {} => g[Some(s)] = Net(Some(s), a)
    BY DEF Some
  <2> HIDE DEF g
  <2> QED
    BY <2>1 DEF SumsUp
<1>3. \E iter : Goes(iter)
  BY <1>2, SumsUpExists
<1> DEFINE chosen == CHOOSE iter : Goes(iter)
<1>4. SumsUp(g, S, chosen)
  BY <1>2, <1>3
<1> HIDE DEF g, chosen
<1>5. SumOver(g, S) = chosen[S]
  BY <1>4, SumIs
<1> QED
  BY <1>1, <1>5 DEF g, chosen

LEMMA NetType ==
  ASSUME NEW t \in Transfer, NEW a
  PROVE  Net(t, a) \in Int
BY DEF Net, Transfer

(* A transfer more adds what it adds.                                      *)
LEMMA NetPostedGrows ==
  ASSUME IsFiniteSet(transfers), transfers \subseteq Transfer,
         NEW d \in Transfer, d \notin transfers, transfers' = transfers \cup {d}, NEW a
  PROVE  NetPosted(a)' = NetPosted(a) + Net(d, a) /\ NetPosted(a) \in Int
<1> DEFINE T == transfers \cup {d}
           g == [t \in transfers |-> Net(t, a)]
           h == [t \in T |-> Net(t, a)]
<1>1. IsFiniteSet(T) /\ \A t \in T : h[t] = Net(t, a) /\ h[t] \in Int
  BY FS_AddElement, NetType
<1>2. NetPosted(a) = SumOver(g, transfers)
  BY NetPostedIsSum DEF NetPosted
<1>3. NetPosted(a)' = SumOver(h, T)
  <2>1. NetPosted(a)' = MapThenSumSet(LAMBDA t : Net(t, a), T)
    BY Zenon DEF NetPosted, MapThenSumSet, MapThenFoldSet
  <2> QED
    BY <1>1, <2>1, NetPostedIsSum
<1>4. \A t \in transfers : g[t] = h[t] /\ h[t] \in Int
  BY <1>1
<1> HIDE DEF g, h
<1>5. SumOver(g, transfers) = SumOver(h, transfers)
  BY <1>4, SumSame
<1>6. h[d] \in Int /\ h[d] = Net(d, a)
  BY <1>1
<1>7. SumOver(h, T) = h[d] + SumOver(h, transfers)
  BY <1>4, <1>6, SumAdd
<1>8. SumOver(h, transfers) \in Int
  BY <1>4, SumType
<1> QED
  BY <1>2, <1>3, <1>5, <1>6, <1>7, <1>8

(* The deposits a run starts with add up to the balances it starts with.   *)
LEMMA OpeningIsAccounted ==
  ASSUME Init
  PROVE  IsFiniteSet(transfers) /\ BalanceIsSumOfEntries
<1>1. IsFiniteSet(transfers)
  <2> DEFINE f == [a \in Funded |-> OpeningDeposit(a)]
  <2>1. IsFiniteSet(Funded)
    BY AccountAssumption, FS_Subset DEF Funded
  <2>2. transfers = {f[a] : a \in Funded}
    BY DEF Init, OpeningDeposits
  <2> HIDE DEF f
  <2> QED
    BY <2>1, <2>2, ImageIsFinite
<1>2. ASSUME NEW a \in UserAccount
      PROVE  account[a].balance = NetPosted(a)
  <2> DEFINE g == [t \in transfers |-> Net(t, a)]
             others == {t \in transfers : t.destination # a}
  <2>1. NetPosted(a) = SumOver(g, transfers)
    BY <1>1, NetPostedIsSum DEF NetPosted
  <2>2. \A t \in transfers :
          /\ t.destination = a => t = OpeningDeposit(a) /\ a \in Funded
          /\ t.source # a
    <3>1. \A b \in Funded : /\ OpeningDeposit(b).destination = b
                            /\ OpeningDeposit(b).source \in SystemAccount
      BY MovementsAssumption DEF OpeningDeposit, OpeningSource, Funded
    <3> QED
      BY <3>1, AccountAssumption DEF Init, OpeningDeposits
  <2>3. IsFiniteSet(others) /\ \A t \in others : g[t] = 0
    BY <1>1, <2>2, FS_Subset DEF Net
  <2>4. SumOver(g, others) = 0
    <3> HIDE DEF g, others
    <3> QED
      BY <2>3, SumOfZeros
  <2>5. account[a].balance = Opening[a]
    BY InitRefines DEF AtomicLedger!LedgerInit
  <2>6. CASE a \in Funded
    <3> DEFINE d == OpeningDeposit(a)
    <3>1. /\ d \in transfers /\ d \notin others
          /\ d.destination = a /\ d.amount = Opening[a] /\ Opening[a] \in Int
      BY <2>6, MovementsAssumption, AccountAssumption
      DEF Init, OpeningDeposits, OpeningDeposit, Funded
    <3>2. transfers = others \cup {d}
      BY <2>2, <3>1
    <3>3. g[d] = Opening[a]
      BY <2>2, <3>1 DEF Net
    <3> HIDE DEF g, others, d
    <3>4. SumOver(g, transfers) = Opening[a] + 0
      <4>1. g[d] \in Int /\ \A t \in others : g[t] \in Int
        BY <2>3, <3>1, <3>3
      <4> QED
        BY <2>3, <2>4, <3>1, <3>2, <3>3, <4>1, SumAdd
    <3> QED
      BY <2>1, <2>5, <3>1, <3>4
  <2>7. CASE a \notin Funded
    <3>1. transfers = others
      BY <2>2, <2>7
    <3>2. Opening[a] = 0
      BY <2>7, MovementsAssumption, AccountAssumption DEF Funded
    <3> QED
      BY <2>1, <2>4, <2>5, <3>1, <3>2
  <2> QED
    BY <2>6, <2>7
<1> QED
  BY <1>1, <1>2 DEF BalanceIsSumOfEntries

(* A commit books a movement on both sides, or closes a row and leaves its *)
(* balance alone.                                                          *)
LEMMA CommitIsAccounted ==
  ASSUME Inductive, IsFiniteSet(transfers), BalanceIsSumOfEntries,
         NEW p \in Attempt, pc[p] = "commit", Apply(p)
  PROVE  IsFiniteSet(transfers)' /\ BalanceIsSumOfEntries'
<1>1. CASE request[p].op = "close"
  <2>1. /\ transfers' = transfers
        /\ [a \in UserAccount |-> account'[a].balance]
             = [a \in UserAccount |-> account[a].balance]
    BY <1>1, CommittedClosureRetires DEF AtomicLedger!Retire
  <2>2. \A a \in UserAccount : account'[a].balance = account[a].balance
    BY <2>1
  <2>3. \A a \in UserAccount : NetPosted(a)' = NetPosted(a)
    BY <2>1, Zenon DEF NetPosted, MapThenSumSet, MapThenFoldSet
  <2> QED
    BY <2>1, <2>2, <2>3 DEF BalanceIsSumOfEntries
<1>2. CASE request[p].op # "close"
  <2> DEFINE d == draft[p]
  <2>1. /\ d \in Transfer /\ d \notin transfers /\ transfers' = transfers \cup {d}
        /\ transfers \subseteq Transfer
    BY <1>2, CommitFacts DEF Inductive, TypeOK, StoreTypeOK, AttemptInv, FlowOK
  <2>2. [a \in UserAccount |-> account'[a].balance]
          = [a \in UserAccount |->
               [b \in UserAccount |-> account[b].balance][a] + AtomicLedger!Net(d, a)]
    BY <1>2, CommittedMovementIsBooked DEF AtomicLedger!Book
  <2>3. \A a \in UserAccount : account'[a].balance = account[a].balance + Net(d, a)
    BY <2>2 DEF AtomicLedger!Net, Net
  <2>4. \A a \in UserAccount : NetPosted(a)' = NetPosted(a) + Net(d, a)
    BY <2>1, NetPostedGrows
  <2>5. IsFiniteSet(transfers')
    BY <2>1, FS_AddElement
  <2> QED
    BY <2>3, <2>4, <2>5 DEF BalanceIsSumOfEntries
<1> QED
  BY <1>1, <1>2

(* Balances are what the entries of the committed transfers add up to: no  *)
(* concurrent posting's update of a row is lost, applied twice or lands    *)
(* without its entries.                                                    *)
THEOREM BalancesAreAccounted == Spec => []BalanceIsSumOfEntries
<1> DEFINE Accounted == IsFiniteSet(transfers) /\ BalanceIsSumOfEntries
<1>1. Init => Accounted
  BY OpeningIsAccounted
<1>2. ASSUME Inductive, Accounted, [Next]_vars PROVE Accounted'
  <2>1. CASE UNCHANGED store
    <3>1. \A a \in UserAccount : NetPosted(a)' = NetPosted(a)
      BY <2>1, Zenon DEF store, NetPosted, MapThenSumSet, MapThenFoldSet
    <3> QED
      BY <1>2, <2>1, <3>1 DEF store, BalanceIsSumOfEntries
  <2>2. ASSUME NEW p \in Attempt, pc[p] = "commit", Apply(p) PROVE Accounted'
    BY <1>2, <2>2, CommitIsAccounted
  <2> QED
    BY <1>2, <2>1, <2>2, OnlyCommitsWrite
<1>3. Accounted => BalanceIsSumOfEntries
  OBVIOUS
<1> HIDE DEF Accounted
<1>4. Inductive /\ Accounted /\ [Next]_vars => Accounted'
  BY <1>2
<1> QED
  BY <1>1, <1>3, <1>4, InductiveInvariant, PTL DEF Spec

-----------------------------------------------------------------------------
(* The service implements the ledger, step by step.                        *)

LEMMA CommitRefines ==
  ASSUME Inductive, NEW p \in Attempt, pc[p] = "commit", Apply(p)
  PROVE  AtomicLedger!LedgerNext
<1> DEFINE q == request[p]
           d == draft[p]
<1>1. q \in Requests /\ Drafted(p, q, d)
  BY CommitFacts
<1>2. CASE q.op = "close"
  BY <1>1, <1>2, CommittedClosureRetires DEF AtomicLedger!LedgerNext
<1>3. CASE q.op = "transfer"
  <2>1. /\ {q.source, q.destination} \subseteq Account
        /\ AuthorizationRefusal(q) = "accepted" /\ d = TransferDraft(p, q)
        /\ d.amount \in 1 .. MaxStored /\ d \in Transfer
        /\ Refusal(d, rows[p]) = "accepted"
        /\ \A a \in UserLegs(d) : rows[p][a] = account[a]
        /\ Legs(p) = UserLegs(d)
    BY <1>1, <1>3, CommitFacts DEF Drafted
  <2>2. /\ d.source = q.source /\ d.destination = q.destination /\ d.amount = q.amount
        /\ d.currency = q.currency /\ d.reverses = None
    BY <2>1 DEF TransferDraft
  <2>3. TransferRefusal(d, rows[p]) = "accepted"
    BY <2>1, <2>2 DEF Refusal
  <2>4. /\ q.source # q.destination
        /\ {CurrencyOf[q.source], CurrencyOf[q.destination]} = {q.currency}
    BY <2>2, <2>3 DEF TransferRefusal
  <2>5. q.source \in UserAccount => account[q.source].balance >= q.amount
    <3> SUFFICES ASSUME q.source \in UserAccount
                 PROVE  account[q.source].balance >= q.amount
      OBVIOUS
    <3>1. ~(rows[p][q.source].balance < q.amount)
      BY <2>2, <2>3 DEF TransferRefusal
    <3>2. rows[p][q.source] = account[q.source]
      BY <2>1, <2>2 DEF UserLegs
    <3>3. account[q.source] \in Row
      BY DEF Inductive, TypeOK, StoreTypeOK
    <3>4. account[q.source].balance \in Int
      BY <3>3, AccountAssumption DEF Row, Stored
    <3>5. q.amount \in Int
      BY <2>1, <2>2, AccountAssumption
    <3> QED
      BY <3>1, <3>2, <3>4, <3>5
  <2>6. /\ AtomicLedger!AuthorizationRefusal(q) = AuthorizationRefusal(q)
        /\ AtomicLedger!TransferDraft(p, q) = TransferDraft(p, q)
        /\ AtomicLedger!Account = Account
    BY DEF AtomicLedger!AuthorizationRefusal, AuthorizationRefusal,
           AtomicLedger!TransferDraft, TransferDraft, AtomicLedger!Account, Account
  <2>7. AtomicLedger!Book(d)
    BY <1>3, CommittedMovementIsBooked
  <2>8. q.amount > 0
    BY <2>1, <2>2
  <2>9. AtomicLedger!Book(AtomicLedger!TransferDraft(p, q))
    BY <2>1, <2>6, <2>7 DEF AtomicLedger!Book, AtomicLedger!KeyUsed
  <2>10. AtomicLedger!Move(p, q)
    BY <1>3, <2>1, <2>4, <2>5, <2>6, <2>8, <2>9 DEF AtomicLedger!Move
  <2> QED
    BY <1>1, <2>10 DEF AtomicLedger!LedgerNext
<1>4. CASE q.op = "revert"
  <2>1. PICK o \in transfers : o.id = q.target /\ d = ReversalDraft(p, q, o)
    BY <1>1, <1>4 DEF Drafted
  <2>2. d.reverses = q.target /\ ~AlreadyReversed(d)
    BY <1>4, <2>1, CommitFacts DEF ReversalDraft
  <2>3. d.reverses # None
    BY <2>1, <2>2, AccountAssumption, MovementsAssumption
    DEF Inductive, TypeOK, StoreTypeOK, Transfer, TransferId, Account
  <2>4. \A u \in transfers : u.reverses # q.target
    BY <2>2, <2>3 DEF AlreadyReversed
  <2>5. q.caller = Admin
    BY <1>4 DEF Inductive, AttemptInv, FlowOK, MayStart
  <2>6. AtomicLedger!ReversalDraft(p, q, o) = d
    BY <2>1 DEF AtomicLedger!ReversalDraft, ReversalDraft
  <2>7. AtomicLedger!Book(d)
    BY <1>4, CommittedMovementIsBooked
  <2>8. AtomicLedger!Book(AtomicLedger!ReversalDraft(p, q, o))
    BY <2>6, <2>7 DEF AtomicLedger!Book, AtomicLedger!KeyUsed
  <2>9. AtomicLedger!Reverse(p, q)
    BY <1>4, <2>1, <2>4, <2>5, <2>8 DEF AtomicLedger!Reverse
  <2> QED
    BY <1>1, <2>9 DEF AtomicLedger!LedgerNext
<1> QED
  BY <1>1, <1>2, <1>3, <1>4, RequestType

(* Every behaviour of the service, with its interleavings, retries, lost   *)
(* answers and aborts, is one of the ledger on which requests are atomic:  *)
(* a request's effect is the single step at which its transaction commits. *)
THEOREM ServiceImplementsLedger == Spec => ImplementsLedger
<1>1. Init => AtomicLedger!LedgerInit
  BY InitRefines
<1>2. ASSUME Inductive, [Next]_vars
      PROVE  [AtomicLedger!LedgerNext]_(AtomicLedger!ledgerVars)
  <2>1. CASE UNCHANGED store
    BY <2>1 DEF store, AtomicLedger!ledgerVars
  <2>2. ASSUME NEW p \in Attempt, pc[p] = "commit", Apply(p)
        PROVE  AtomicLedger!LedgerNext
    BY <1>2, <2>2, CommitRefines
  <2> QED
    BY <1>2, <2>1, <2>2, OnlyCommitsWrite
<1> QED
  BY <1>1, <1>2, InductiveInvariant, PTL
  DEF Spec, ImplementsLedger, AtomicLedger!LedgerSpec
=============================================================================
