--------------------------- MODULE AccountService ---------------------------
(***************************************************************************)
(* TransferMoney, RevertTransfer and CloseAccount as they run against      *)
(* PostgreSQL at READ COMMITTED: many attempts at once, each in its own    *)
(* transaction, meeting only in the primary key of idempotency_records,    *)
(* the row locks of accounts and the unique index on transfers.reverses.   *)
(* A deposit or a withdrawal is a TransferMoney whose other leg is a       *)
(* SYSTEM account.                                                         *)
(*                                                                         *)
(* A step is one statement (or a run of statements nothing else can        *)
(* observe between); what a transaction has written is invisible to the    *)
(* others until it commits, except that it makes them wait.                *)
(***************************************************************************)
EXTENDS Movements, FiniteSetsExt

VARIABLES
  account,    \* [UserAccount -> Row], the committed rows of accounts
  transfers,  \* the committed transfers with their two entries
  records,    \* the committed idempotency records
  pc,         \* where each attempt is
  request,    \* what it was asked
  pending,    \* [Attempt -> SUBSET record], its uncommitted idempotency row
  lock,       \* [UserAccount -> Attempt \cup {None}], SELECT ... FOR UPDATE
  rows,       \* [Attempt -> [UserAccount -> Row]], the rows it has in memory
  draft,      \* the movement it is posting
  answer      \* [status, transfer], what it answered; None before

store == <<account, transfers, records>>
vars == <<account, transfers, records, pc, request, pending, lock, rows,
          draft, answer>>

(* The steps inside the unit of work's transaction.                        *)
InTransaction == {"find", "insert", "read", "lock", "post", "commit"}

Steps == {"idle", "recover", "done"} \cup InTransaction

(* An attempt holds nothing in memory: rows[p] outside the legs it read is *)
(* never looked at, and stays this.                                        *)
NoRows == [a \in UserAccount |-> NewRow]

Init ==
  /\ account = [a \in UserAccount |-> OpeningRow(a)]
  /\ transfers = OpeningDeposits
  /\ records = {RecordOf(t) : t \in OpeningDeposits}
  /\ pc = [p \in Attempt |-> "idle"]
  /\ request = [p \in Attempt |-> None]
  /\ pending = [p \in Attempt |-> {}]
  /\ lock = [a \in UserAccount |-> None]
  /\ rows = [p \in Attempt |-> NoRows]
  /\ draft = [p \in Attempt |-> None]
  /\ answer = [p \in Attempt |-> None]

-----------------------------------------------------------------------------
(* Mutant of Finish: the session ends and its row locks stay.              *)
FinishKeepingLocks(p, status, transfer) ==
  /\ pc' = [pc EXCEPT ![p] = "done"]
  /\ answer' = [answer EXCEPT ![p] = [status |-> status, transfer |-> transfer]]
  /\ pending' = [pending EXCEPT ![p] = {}]
  /\ rows' = [rows EXCEPT ![p] = NoRows]
  /\ draft' = [draft EXCEPT ![p] = None]
  /\ UNCHANGED <<lock, request>>

(* Leaving a transaction: its locks go, its memory goes, the client is     *)
(* answered.  "lost" is an answer that never reached the client, or a 500. *)
Finish(p, status, transfer) ==
  /\ pc' = [pc EXCEPT ![p] = "done"]
  /\ answer' = [answer EXCEPT ![p] = [status |-> status, transfer |-> transfer]]
  /\ pending' = [pending EXCEPT ![p] = {}]
  /\ lock' = [a \in UserAccount |-> IF lock[a] = p THEN None ELSE lock[a]]
  /\ rows' = [rows EXCEPT ![p] = NoRows]
  /\ draft' = [draft EXCEPT ![p] = None]
  /\ UNCHANGED request

(* __aexit__ with an exception, or PostgreSQL dropping the session.        *)
RollBack(p, status) ==
  /\ Finish(p, status, None)
  /\ UNCHANGED store

-----------------------------------------------------------------------------
(* RevertTransfer asks the AuthorizationGateway before anything else.      *)
MayStart(q) == q.op = "revert" => q.caller = Admin

Arrive(p) ==
  /\ pc[p] = "idle"
  /\ \E q \in Requests :
       /\ MayStart(q)
       /\ request' = [request EXCEPT ![p] = q]
       /\ pc' = [pc EXCEPT ![p] = IF q.op = "close" THEN "read" ELSE "find"]
  /\ UNCHANGED <<account, transfers, records, pending, lock, rows, draft, answer>>

TurnAway(p) ==
  /\ pc[p] = "idle"
  /\ \E q \in Requests :
       /\ ~MayStart(q)
       /\ request' = [request EXCEPT ![p] = q]
       /\ answer' = [answer EXCEPT
                       ![p] = [status |-> "UnauthorizedPrincipalError", transfer |-> None]]
  /\ pc' = [pc EXCEPT ![p] = "done"]
  /\ UNCHANGED <<account, transfers, records, pending, lock, rows, draft>>

-----------------------------------------------------------------------------
(* Mutant of SameKey: the primary key includes request_hash.               *)
SameKeyAndPayload(rec, q) ==
  rec.caller = q.caller /\ rec.key = q.key /\ rec.hash = Hash(q)

(* The primary key of idempotency_records.                                 *)
SameKey(rec, q) == rec.caller = q.caller /\ rec.key = q.key

Known(q) == {rec \in records : SameKey(rec, q)}

(* find_by_key finds nothing: this looks like a new request.               *)
FindNothing(p) ==
  /\ pc[p] = "find"
  /\ Known(request[p]) = {}
  /\ pc' = [pc EXCEPT ![p] = "insert"]
  /\ UNCHANGED <<account, transfers, records, request, pending, lock, rows,
                 draft, answer>>

(* Mutant of ReplayStatus: the payloads are not compared.                  *)
ReplayStatusUncompared(q) ==
  IF Known(q) = {} THEN "RuntimeError"
  ELSE LET rec == CHOOSE r \in Known(q) : TRUE
       IN IF \E t \in transfers : t.id = rec.transfer
          THEN "created" ELSE "RuntimeError"

(* _replay_or_conflict, on the first look or after losing the race for the *)
(* key; the two RuntimeErrors are its defensive branches.                  *)
ReplayStatus(q) ==
  IF Known(q) = {} THEN "RuntimeError"
  ELSE LET rec == CHOOSE r \in Known(q) : TRUE
       IN IF rec.hash # Hash(q) THEN "IdempotencyConflictError"
          ELSE IF \E t \in transfers : t.id = rec.transfer THEN "created"
          ELSE "RuntimeError"

Replay(p) ==
  /\ pc[p] \in {"find", "recover"}
  /\ pc[p] = "find" => Known(request[p]) # {}
  /\ LET status == ReplayStatus(request[p])
     IN Finish(p, status,
               IF status = "created"
               THEN (CHOOSE r \in Known(request[p]) : TRUE).transfer ELSE None)
  /\ UNCHANGED store

(* INSERT INTO idempotency_records: PostgreSQL makes it wait while another *)
(* transaction holds an uncommitted row with the same primary key, and     *)
(* fails it when a committed one exists.                                   *)
KeyFree(p) ==
  \A o \in Attempt \ {p} : \A rec \in pending[o] : ~SameKey(rec, request[p])

NewRecord(p) ==
  [caller |-> request[p].caller, key |-> request[p].key, transfer |-> p,
   hash |-> Hash(request[p])]

(* Mutant of ReserveKey: the record is committed ahead of its transfer.    *)
ReserveKeyAtOnce(p) ==
  /\ pc[p] = "insert"
  /\ KeyFree(p)
  /\ Known(request[p]) = {}
  /\ records' = records \cup {NewRecord(p)}
  /\ pc' = [pc EXCEPT ![p] = "read"]
  /\ UNCHANGED <<account, transfers, request, pending, lock, rows, draft, answer>>

ReserveKey(p) ==
  /\ pc[p] = "insert"
  /\ KeyFree(p)
  /\ Known(request[p]) = {}
  /\ pending' = [pending EXCEPT ![p] = {NewRecord(p)}]
  /\ pc' = [pc EXCEPT ![p] = "read"]
  /\ UNCHANGED <<account, transfers, records, request, lock, rows, draft, answer>>

(* Mutant of LoseKeyRace: the insert gives up instead of waiting.          *)
LoseKeyRaceAtOnce(p) ==
  /\ pc[p] = "insert"
  /\ ~KeyFree(p) \/ Known(request[p]) # {}
  /\ pc' = [pc EXCEPT ![p] = "recover"]
  /\ UNCHANGED <<account, transfers, records, request, pending, lock, rows,
                 draft, answer>>

(* IdempotencyRecordConflictError: the transaction is rolled back and the  *)
(* record is looked up again in a second one.                              *)
LoseKeyRace(p) ==
  /\ pc[p] = "insert"
  /\ KeyFree(p)
  /\ Known(request[p]) # {}
  /\ pc' = [pc EXCEPT ![p] = "recover"]
  /\ UNCHANGED <<account, transfers, records, request, pending, lock, rows,
                 draft, answer>>

-----------------------------------------------------------------------------
(* The unlocked reads, and the refusals that rest on what never changes:   *)
(* whether an account exists, its type and its owner, and what a posted    *)
(* transfer says.                                                          *)
Original(q) == {t \in transfers : t.id = q.target}

(* Mutant of ReadRefusal: any caller moves money of any account.           *)
ReadRefusalAnyCaller(q) ==
  IF q.op = "transfer"
  THEN IF {q.source, q.destination} \subseteq Account
       THEN "accepted" ELSE "AccountNotFoundError"
  ELSE IF q.op = "revert"
  THEN IF Original(q) # {} THEN "accepted" ELSE "TransferNotFoundError"
  ELSE IF q.account \in UserAccount THEN "accepted" ELSE "AccountOwnershipError"

ReadRefusal(q) ==
  IF q.op = "transfer"
  THEN IF {q.source, q.destination} \subseteq Account
       THEN AuthorizationRefusal(q) ELSE "AccountNotFoundError"
  ELSE IF q.op = "revert"
  THEN IF Original(q) # {} THEN "accepted" ELSE "TransferNotFoundError"
  ELSE IF q.account \notin Account THEN "AccountNotFoundError"
  ELSE IF q.account \in UserAccount /\ Owner[q.account] = q.caller
  THEN "accepted" ELSE "AccountOwnershipError"

DraftOf(p, q) ==
  IF q.op = "transfer" THEN TransferDraft(p, q)
  ELSE ReversalDraft(p, q, CHOOSE t \in Original(q) : TRUE)

(* The USER accounts whose rows the attempt locks.                         *)
LegsOf(q, d) == IF q.op = "close" THEN {q.account} ELSE UserLegs(d)

Legs(p) == LegsOf(request[p], draft[p])

Read(p) ==
  LET q == request[p]
      d == IF q.op = "close" THEN None ELSE DraftOf(p, q)
  IN /\ pc[p] = "read"
     /\ ReadRefusal(q) = "accepted"
     /\ draft' = [draft EXCEPT ![p] = d]
     /\ rows' = [rows EXCEPT ![p] =
                   [a \in UserAccount |->
                      IF a \in LegsOf(q, d) THEN account[a] ELSE NewRow]]
     /\ pc' = [pc EXCEPT ![p] = "lock"]
     /\ UNCHANGED <<account, transfers, records, request, pending, lock, answer>>

RefuseRead(p) ==
  /\ pc[p] = "read"
  /\ ReadRefusal(request[p]) # "accepted"
  /\ RollBack(p, ReadRefusal(request[p]))

-----------------------------------------------------------------------------
Held(p) == {a \in UserAccount : lock[a] = p}

(* Mutant of Due: the source is locked first, whatever its id.             *)
DueSourceFirst(p, a) ==
  /\ a \in Legs(p) \ Held(p)
  /\ request[p].op # "close" /\ draft[p].source \in Legs(p) \ Held(p)
       => a = draft[p].source

(* SELECT ... WHERE account_id IN (...) ORDER BY account_id FOR UPDATE:    *)
(* the rows are locked one after the other in id order, waiting at each    *)
(* for its holder, and each comes back as last committed: find() dropped   *)
(* its last reference to the instance it read before, so the session's     *)
(* weak identity map has no older copy to hand back.                       *)
Due(p, a) ==
  /\ a \in Legs(p) \ Held(p)
  /\ \A b \in Legs(p) \ Held(p) : a <= b

(* Mutant of LockedRow: the identity map's earlier instance comes back.    *)
LockedRowAsReadBefore(p, a) == rows[p][a]

LockedRow(p, a) == account[a]

Lock(p) ==
  /\ pc[p] = "lock"
  /\ \E a \in UserAccount :
       /\ Due(p, a)
       /\ lock[a] = None
       /\ lock' = [lock EXCEPT ![a] = p]
       /\ rows' = [rows EXCEPT ![p][a] = LockedRow(p, a)]
       /\ pc' = [pc EXCEPT ![p] = IF Legs(p) \ Held(p) = {a} THEN "post" ELSE "lock"]
  /\ UNCHANGED <<account, transfers, records, request, pending, draft, answer>>

-----------------------------------------------------------------------------
(* The domain decides, transfers.add inserts, accounts.update writes: one  *)
(* step, because nobody sees these writes before the commit.  The insert   *)
(* waits for another reversal of the same original still in flight.        *)
HoldsReversal(o, p) ==
  /\ request[p].op = "revert"
  /\ pc[o] = "commit" /\ request[o].op # "close"
  /\ draft[o].reverses = draft[p].reverses

MayInsert(p) == \A o \in Attempt \ {p} : ~HoldsReversal(o, p)

(* Mutant of AlreadyReversed: no unique index on transfers.reverses.       *)
NeverReversedBefore(d) == FALSE

AlreadyReversed(d) ==
  d.reverses # None /\ \E t \in transfers : t.reverses = d.reverses

PostStatus(p) ==
  IF request[p].op = "close" THEN CloseRefusal(rows[p][request[p].account])
  ELSE IF Refusal(draft[p], rows[p]) # "accepted" THEN Refusal(draft[p], rows[p])
  ELSE IF AlreadyReversed(draft[p]) THEN "TransferAlreadyReversedError"
  ELSE IF ~PostingFits(draft[p], rows[p]) THEN "lost"
  ELSE "accepted"

Post(p) ==
  /\ pc[p] = "post"
  /\ MayInsert(p)
  /\ PostStatus(p) = "accepted"
  /\ pc' = [pc EXCEPT ![p] = "commit"]
  /\ UNCHANGED <<account, transfers, records, request, pending, lock, rows,
                 draft, answer>>

RefusePost(p) ==
  /\ pc[p] = "post"
  /\ MayInsert(p)
  /\ PostStatus(p) # "accepted"
  /\ RollBack(p, PostStatus(p))

-----------------------------------------------------------------------------
(* Mutant of Written: the update loop stops after the debited account.     *)
WrittenDebitOnly(p) ==
  IF request[p].op = "close"
  THEN [a \in {request[p].account} |-> Close(rows[p][a])]
  ELSE [a \in UserLegs(draft[p]) |->
          IF a = draft[p].source THEN Debit(rows[p][a], draft[p].amount)
                                 ELSE rows[p][a]]

(* The rows accounts.update() wrote.                                       *)
Written(p) ==
  IF request[p].op = "close"
  THEN [a \in {request[p].account} |-> Close(rows[p][a])]
  ELSE Successors(draft[p], rows[p])

(* COMMIT: everything the transaction wrote, or nothing.                   *)
Apply(p) ==
  /\ account' = [a \in UserAccount |->
                   IF a \in Legs(p) THEN Written(p)[a] ELSE account[a]]
  /\ transfers' = IF request[p].op = "close" THEN transfers
                                             ELSE transfers \cup {draft[p]}
  /\ records' = records \cup pending[p]

Commit(p) ==
  /\ pc[p] = "commit"
  /\ Apply(p)
  /\ IF request[p].op = "close" THEN Finish(p, "closed", None)
                                ELSE Finish(p, "created", p)

(* The commit is durable and its answer is not: the task stopped or the    *)
(* connection broke after PostgreSQL had committed.                        *)
CommitUnheard(p) ==
  /\ pc[p] = "commit"
  /\ Apply(p)
  /\ Finish(p, "lost", None)

(* A statement fails, the request is cancelled, or the task stops: the     *)
(* transaction never commits.                                              *)
Abort(p) ==
  /\ pc[p] \in InTransaction \cup {"recover"}
  /\ RollBack(p, "lost")

Advance(p) ==
  \/ FindNothing(p) \/ Replay(p) \/ ReserveKey(p) \/ LoseKeyRace(p)
  \/ Read(p) \/ RefuseRead(p) \/ Lock(p) \/ Post(p) \/ RefusePost(p)
  \/ Commit(p)

(* Every attempt is answered: the service has nothing left to do.          *)
AllServed ==
  /\ \A p \in Attempt : pc[p] = "done"
  /\ UNCHANGED vars

Next ==
  \/ \E p \in Attempt :
       Arrive(p) \/ TurnAway(p) \/ Advance(p) \/ CommitUnheard(p) \/ Abort(p)
  \/ AllServed

(* The event loop runs every ready coroutine and PostgreSQL hands a        *)
(* released row or key to its waiters; clients and failures are not fair.  *)
Fairness == \A p \in Attempt : WF_vars(Advance(p))

Spec == Init /\ [][Next]_vars /\ Fairness
-----------------------------------------------------------------------------
(* Properties.                                                             *)

Record ==
  [caller : Caller, key : Key, transfer : TransferId,
   hash : {Hash(q) : q \in {r \in Requests : r.op # "close"}}
            \cup {RecordOf(t).hash : t \in OpeningDeposits}]

Statuses ==
  {"created", "closed", "lost", "UnauthorizedPrincipalError",
   "IdempotencyConflictError", "AccountNotFoundError", "AccountOwnershipError",
   "SystemToSystemTransferNotAllowedError", "TransferNotFoundError",
   "TransferAlreadyReversedError", "SelfTransferError", "CurrencyMismatchError",
   "NonPositiveAmountError", "AccountNotOperableError", "InsufficientFundsError",
   "AccountNotClosableError", "AccountNotEmptyError", "RuntimeError"}

Answer == [status : Statuses, transfer : TransferId \cup {None}]

StoreTypeOK ==
  /\ account \in [UserAccount -> Row]
  /\ transfers \subseteq {t \in Transfer : t.amount \in 1 .. MaxStored}
  /\ records \subseteq Record

AttemptTypeOK ==
  /\ pc \in [Attempt -> Steps]
  /\ request \in [Attempt -> Requests \cup {None}]
  /\ pending \in [Attempt -> SUBSET Record]
  /\ lock \in [UserAccount -> Attempt \cup {None}]
  /\ rows \in [Attempt -> [UserAccount -> Row]]
  /\ draft \in [Attempt -> Transfer \cup {None}]
  /\ answer \in [Attempt -> Answer \cup {None}]

(* Every variable holds what its column, message or local variable can.    *)
TypeOK == StoreTypeOK /\ AttemptTypeOK

(* The stored balance of a USER account is exactly what the entries of the *)
(* committed transfers add up to: no concurrent posting's update of the    *)
(* row is lost, none is applied twice, none lands without its entries.     *)
NetPosted(a) == MapThenSumSet(LAMBDA t : Net(t, a), transfers)

BalanceIsSumOfEntries ==
  \A a \in UserAccount : account[a].balance = NetPosted(a)

(* However many attempts carry one (caller, key), at once or after a crash *)
(* or a lost answer, one transfer at most is ever posted under it.         *)
OnePostingPerKey ==
  \A t, u \in transfers : t.caller = u.caller /\ t.key = u.key => t = u

(* A key is spent exactly when its transfer is posted: no refusal, abort   *)
(* or crash burns a key, and no transfer is left without its record.       *)
KeySpentIffPosted == records = {RecordOf(t) : t \in transfers}

(* A transfer has one reversal at most, which moves the whole amount back  *)
(* between the same two accounts, whatever the keys they were asked under. *)
ReversedOnceInFull ==
  \A t \in transfers : t.reverses # None =>
    /\ \E o \in transfers :
         /\ o.id = t.reverses
         /\ <<t.source, t.destination, t.amount>>
              = <<o.destination, o.source, o.amount>>
    /\ \A u \in transfers : u.reverses = t.reverses => u = t

(* Nothing but a reversal lowers a balance to below zero, however the      *)
(* debits of an account are interleaved.                                   *)
OnlyReversalsOverdraw ==
  [][\A a \in UserAccount :
       account'[a].balance < account[a].balance /\ account'[a].balance < 0
         => \E t \in transfers' \ transfers : t.source = a /\ t.reverses # None]_vars

(* A closed account is empty: no movement that was already past its        *)
(* unlocked reads lands in it afterwards.                                  *)
ClosedIsEmpty ==
  \A a \in UserAccount : ~IsActive(account[a]) => account[a].balance = 0

(* A closed account's row is never written again.                          *)
ClosedIsFinal ==
  [][\A a \in UserAccount : ~IsActive(account[a]) => account'[a] = account[a]]_vars

(* What an attempt decides on is still true while it decides: a row locked *)
(* by an attempt is, in its memory, the row as committed.                  *)
LockedRowsAreCurrent ==
  \A a \in UserAccount, p \in Attempt :
    lock[a] = p => rows[p][a] = account[a]

(* A created answer names a committed transfer that is what the client     *)
(* asked for, whether this attempt posted it or replayed it.               *)
Fulfils(t, q) ==
  /\ t.caller = q.caller /\ t.key = q.key
  /\ IF q.op = "revert" THEN t.reverses = q.target
     ELSE /\ t.reverses = None
          /\ <<t.source, t.destination, t.amount, t.currency>> = Hash(q)

CreatedMeansPosted ==
  \A p \in Attempt :
    answer[p] # None /\ answer[p].status = "created"
      => \E t \in transfers : t.id = answer[p].transfer /\ Fulfils(t, request[p])

(* The defensive branches are dead: a record never vanishes between losing *)
(* the race for its key and reading it, and never names a missing transfer.*)
RecordNeverVanishes ==
  \A p \in Attempt : answer[p] # None => answer[p].status # "RuntimeError"

(* An attempt waits for another that holds its key, a row it is due to     *)
(* lock, or the reversal slot it needs.                                    *)
WaitsFor(p, o) ==
  \/ /\ pc[p] = "insert"
     /\ \E rec \in pending[o] : SameKey(rec, request[p])
  \/ /\ pc[p] = "lock"
     /\ \E a \in UserAccount : Due(p, a) /\ lock[a] = o
  \/ pc[p] = "post" /\ HoldsReversal(o, p)

(* No set of transactions wait for each other: transfers A to B and B to A,*)
(* reversals and closures never deadlock in the database.                  *)
NoDeadlock ==
  ~\E waiting \in (SUBSET Attempt) \ {{}} :
     \A p \in waiting : \E o \in waiting \ {p} : WaitsFor(p, o)

(* Every request that arrives is answered, through every wait.             *)
EveryAttemptAnswered ==
  \A p \in Attempt : pc[p] \in InTransaction \cup {"recover"} ~> pc[p] = "done"

(* The service implements the ledger on which requests are atomic.         *)
AtomicLedger ==
  INSTANCE Ledger WITH
    balance <- [a \in UserAccount |-> account[a].balance],
    closed <- {a \in UserAccount : ~IsActive(account[a])},
    posted <- transfers

ImplementsLedger == AtomicLedger!LedgerSpec
=============================================================================
