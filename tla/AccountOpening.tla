--------------------------- MODULE AccountOpening ---------------------------
(***************************************************************************)
(* AccountRegister: opening an account is idempotent by its natural key    *)
(* (owner, purpose, currency), with no idempotency key.  Every request     *)
(* looks the key up in one session and, finding nothing, inserts in        *)
(* another; the unique constraint on the natural key decides between two   *)
(* that both found nothing, and the loser is told of the conflict.         *)
(***************************************************************************)
CONSTANTS
  Attempt,        \* requests served; each mints one account id, itself
  NaturalKey,     \* (owner, purpose, currency)
  SystemPurpose,  \* the natural keys whose purpose is FUNDING or SETTLEMENT
  Seeded,         \* those of them the migration has inserted a row for
  None

ASSUME OpeningAssumption ==
  /\ Seeded \subseteq SystemPurpose
  /\ SystemPurpose \subseteq NaturalKey
  /\ NaturalKey \cap Attempt = {}
  /\ None \notin Attempt \cup NaturalKey

VARIABLES
  accounts,  \* the committed rows, [id, key]
  pc,        \* where each attempt is
  asked,     \* the natural key it opens
  pending,   \* [Attempt -> SUBSET row], its uncommitted insert
  answer     \* [status, account]; None before

vars == <<accounts, pc, asked, pending, answer>>

Steps == {"idle", "find", "insert", "commit", "done"}

(* The seeded row of a SYSTEM account is named after its natural key.      *)
SeededRows == [id : Seeded, key : Seeded]

Init ==
  /\ accounts = {r \in SeededRows : r.id = r.key}
  /\ pc = [p \in Attempt |-> "idle"]
  /\ asked = [p \in Attempt |-> None]
  /\ pending = [p \in Attempt |-> {}]
  /\ answer = [p \in Attempt |-> None]

Finish(p, status, id) ==
  /\ pc' = [pc EXCEPT ![p] = "done"]
  /\ pending' = [pending EXCEPT ![p] = {}]
  /\ answer' = [answer EXCEPT ![p] = [status |-> status, account |-> id]]
  /\ UNCHANGED asked

-----------------------------------------------------------------------------
Arrive(p) ==
  /\ pc[p] = "idle"
  /\ \E k \in NaturalKey : asked' = [asked EXCEPT ![p] = k]
  /\ pc' = [pc EXCEPT ![p] = "find"]
  /\ UNCHANGED <<accounts, pending, answer>>

Existing(k) == {r \in accounts : r.key = k}

(* The look-up does not ask for the account's type, and the response only  *)
(* has a shape for a USER account: a SYSTEM row trips its assertion.       *)
FindExisting(p) ==
  /\ pc[p] = "find"
  /\ \E r \in Existing(asked[p]) :
       IF r.id \in Seeded THEN Finish(p, "AssertionError", None)
                          ELSE Finish(p, "existing", r.id)
  /\ UNCHANGED accounts

(* UserAccount.open() refuses a SYSTEM purpose, after the look-up.         *)
RefusePurpose(p) ==
  /\ pc[p] = "find"
  /\ Existing(asked[p]) = {}
  /\ asked[p] \in SystemPurpose
  /\ Finish(p, "InvalidAccountPurposeError", None)
  /\ UNCHANGED accounts

(* Mutant of FindNothing: opening does not validate the purpose.           *)
FindNothingAnyPurpose(p) ==
  /\ pc[p] = "find"
  /\ Existing(asked[p]) = {}
  /\ pc' = [pc EXCEPT ![p] = "insert"]
  /\ UNCHANGED <<accounts, asked, pending, answer>>

FindNothing(p) ==
  /\ pc[p] = "find"
  /\ Existing(asked[p]) = {}
  /\ asked[p] \notin SystemPurpose
  /\ pc' = [pc EXCEPT ![p] = "insert"]
  /\ UNCHANGED <<accounts, asked, pending, answer>>

(* Mutant of Taken: no unique constraint on the natural key.               *)
TakenNever(k) == FALSE

(* uq_accounts_owner_purpose_currency.                                     *)
Taken(k) == \E r \in accounts : r.key = k

(* PostgreSQL makes an insert wait for an uncommitted row of its key.      *)
KeyFree(p) == \A o \in Attempt \ {p} : \A r \in pending[o] : r.key # asked[p]

Insert(p) ==
  /\ pc[p] = "insert"
  /\ KeyFree(p)
  /\ ~Taken(asked[p])
  /\ pending' = [pending EXCEPT ![p] = {[id |-> p, key |-> asked[p]]}]
  /\ pc' = [pc EXCEPT ![p] = "commit"]
  /\ UNCHANGED <<accounts, asked, answer>>

(* Mutant of LoseRace: the insert gives up instead of waiting.             *)
LoseRaceAtOnce(p) ==
  /\ pc[p] = "insert"
  /\ ~KeyFree(p) \/ Taken(asked[p])
  /\ Finish(p, "AccountAlreadyExistsError", None)
  /\ UNCHANGED accounts

LoseRace(p) ==
  /\ pc[p] = "insert"
  /\ KeyFree(p)
  /\ Taken(asked[p])
  /\ Finish(p, "AccountAlreadyExistsError", None)
  /\ UNCHANGED accounts

Commit(p) ==
  /\ pc[p] = "commit"
  /\ accounts' = accounts \cup pending[p]
  /\ Finish(p, "created", p)

(* The row is durable and its answer never arrives.                        *)
CommitUnheard(p) ==
  /\ pc[p] = "commit"
  /\ accounts' = accounts \cup pending[p]
  /\ Finish(p, "lost", None)

(* A statement fails, the request is cancelled, or the task stops.         *)
Abort(p) ==
  /\ pc[p] \in {"find", "insert", "commit"}
  /\ Finish(p, "lost", None)
  /\ UNCHANGED accounts

Advance(p) ==
  \/ FindExisting(p) \/ RefusePurpose(p) \/ FindNothing(p)
  \/ Insert(p) \/ LoseRace(p) \/ Commit(p)

AllServed ==
  /\ \A p \in Attempt : pc[p] = "done"
  /\ UNCHANGED vars

Next ==
  \/ \E p \in Attempt : Arrive(p) \/ Advance(p) \/ CommitUnheard(p) \/ Abort(p)
  \/ AllServed

Fairness == \A p \in Attempt : WF_vars(Advance(p))

Spec == Init /\ [][Next]_vars /\ Fairness
-----------------------------------------------------------------------------
(* Properties.                                                             *)

(* Migration 5bf582a92358 seeds the SYSTEM rows; only USER ones are added. *)
UserRow == [id : Attempt, key : NaturalKey \ SystemPurpose]

Statuses ==
  {"created", "existing", "lost", "AccountAlreadyExistsError",
   "InvalidAccountPurposeError", "AssertionError"}

(* Every variable holds what its column, message or local variable can; in *)
(* particular every stored account is a seeded SYSTEM row or a USER row    *)
(* with a USER purpose.                                                    *)
TypeOK ==
  /\ accounts \subseteq UserRow \cup {r \in SeededRows : r.id = r.key}
  /\ pc \in [Attempt -> Steps]
  /\ asked \in [Attempt -> NaturalKey \cup {None}]
  /\ pending \in [Attempt -> SUBSET UserRow]
  /\ answer \in [Attempt -> [status : Statuses, account : Attempt \cup {None}] \cup {None}]

(* However many requests open one natural key at once, one account has it. *)
OneAccountPerKey ==
  \A r, s \in accounts : r.key = s.key => r = s

Answered(p, statuses) == answer[p] # None /\ answer[p].status \in statuses

(* All clients that were given an account for one natural key were given   *)
(* the same one, created or existing, and it is stored.                    *)
AnswersAgree ==
  \A p, o \in {a \in Attempt : Answered(a, {"created", "existing"})} :
    asked[p] = asked[o] =>
      /\ answer[p].account = answer[o].account
      /\ [id |-> answer[p].account, key |-> asked[p]] \in accounts

(* Who is told of a conflict can rely on it: the account it lost to is     *)
(* committed, never one that may still be rolled back.                     *)
ConflictMeansOpened ==
  \A p \in Attempt :
    Answered(p, {"AccountAlreadyExistsError"}) => Existing(asked[p]) # {}

(* spec AO4: after a conflict the retry succeeds.  A request that looks    *)
(* its key up after somebody was told of a conflict on it is given the     *)
(* account, unless it fails on its own.                                    *)
RetryFindsIt ==
  \A p, o \in Attempt :
    (pc[p] = "find" /\ Answered(o, {"AccountAlreadyExistsError"}) /\ asked[p] = asked[o])
      ~> Answered(p, {"existing", "lost"})
=============================================================================
