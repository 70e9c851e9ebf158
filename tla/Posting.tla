------------------------------ MODULE Posting ------------------------------
(***************************************************************************)
(* The domain rules of a posting, as pure operators: what a UserAccount    *)
(* does with a debit, a credit, a reversal's debit and a closure, and what *)
(* posting.transfer() and posting.revert() refuse and produce.             *)
(*                                                                         *)
(* An account id is a natural number because the ids have an order (the    *)
(* row locks are taken along it).  A SYSTEM account has no row: it keeps   *)
(* no balance, no status and no version.                                   *)
(***************************************************************************)
EXTENDS Integers, FiniteSets

CONSTANTS
  UserAccount,    \* ids of the USER accounts, the only ones with a row
  SystemAccount,  \* ids of the FUNDING and SETTLEMENT accounts
  Currency,       \* currency codes
  CurrencyOf,     \* [UserAccount \cup SystemAccount -> Currency]
  MaxStored,      \* the largest amount a BIGINT column holds
  None            \* "no such value"

Account == UserAccount \cup SystemAccount

ASSUME AccountAssumption ==
  /\ UserAccount \subseteq Nat /\ IsFiniteSet(UserAccount)
  /\ SystemAccount \subseteq Nat
  /\ UserAccount \cap SystemAccount = {}
  /\ CurrencyOf \in [Account -> Currency]
  /\ MaxStored \in Nat
  /\ None \notin Account

AccountStatus == {"ACTIVE", "CLOSED"}

(* What a BIGINT column holds; a statement carrying any other value fails. *)
Stored == -(MaxStored + 1) .. MaxStored

(* The columns of an account row that change after it is opened.           *)
Row == [balance : Stored, status : AccountStatus, version : Nat]

NewRow == [balance |-> 0, status |-> "ACTIVE", version |-> 0]

IsActive(row) == row.status = "ACTIVE"

-----------------------------------------------------------------------------
(* UserAccount: each method returns the successor row.                     *)

Credit(row, amount) ==
  [row EXCEPT !.balance = @ + amount, !.version = @ + 1]

Debit(row, amount) ==
  [row EXCEPT !.balance = @ - amount, !.version = @ + 1]

Close(row) ==
  [row EXCEPT !.status = "CLOSED", !.version = @ + 1]

(* Mutant of CloseRefusal: the balance is not looked at.                   *)
CloseRefusalUnlessActive(row) ==
  IF ~IsActive(row) THEN "AccountNotClosableError" ELSE "accepted"

(* The refusals of UserAccount.close(), in the order it makes them.        *)
CloseRefusal(row) ==
  IF ~IsActive(row) THEN "AccountNotClosableError"
  ELSE IF row.balance # 0 THEN "AccountNotEmptyError"
  ELSE "accepted"

-----------------------------------------------------------------------------
(* A draft is the movement about to be posted:                             *)
(*   [id, source, destination, amount, currency, caller, key, reverses]    *)
(* and rows holds the row of each USER leg, read under its lock.           *)

UserLegs(draft) == {draft.source, draft.destination} \cap UserAccount

(* Mutant of LegRefused: credit() and debit() forget fail_if_not_active(). *)
LegNeverRefused(a, rows) == FALSE

LegRefused(a, rows) == a \in UserAccount /\ ~IsActive(rows[a])

(* Mutant of TransferRefusal: every check but the one for funds.           *)
TransferRefusalUnfunded(draft, rows) ==
  IF draft.source = draft.destination THEN "SelfTransferError"
  ELSE IF {CurrencyOf[draft.source], CurrencyOf[draft.destination]} # {draft.currency}
       THEN "CurrencyMismatchError"
  ELSE IF draft.amount <= 0 THEN "NonPositiveAmountError"
  ELSE IF \E a \in UserLegs(draft) : LegRefused(a, rows)
       THEN "AccountNotOperableError"
  ELSE "accepted"

(* posting.transfer(): self-transfer, currency agreement, the positivity   *)
(* an Entry asserts, the debit (operable, then funds), the credit          *)
(* (operable); the first that applies is raised.                           *)
TransferRefusal(draft, rows) ==
  IF draft.source = draft.destination THEN "SelfTransferError"
  ELSE IF {CurrencyOf[draft.source], CurrencyOf[draft.destination]} # {draft.currency}
       THEN "CurrencyMismatchError"
  ELSE IF draft.amount <= 0 THEN "NonPositiveAmountError"
  ELSE IF LegRefused(draft.source, rows) THEN "AccountNotOperableError"
  ELSE IF draft.source \in UserAccount /\ rows[draft.source].balance < draft.amount
       THEN "InsufficientFundsError"
  ELSE IF LegRefused(draft.destination, rows) THEN "AccountNotOperableError"
  ELSE "accepted"

(* Mutant of RevertRefusal: a reversal posts whatever the legs' status.    *)
RevertNeverRefused(draft, rows) == "accepted"

(* posting.revert(): the amount, the currency and the legs come from the   *)
(* original, so only operability is left to refuse.  The debit is          *)
(* debit_for_reversal(), which may leave the balance below zero.           *)
RevertRefusal(draft, rows) ==
  IF \E a \in UserLegs(draft) : ~IsActive(rows[a])
  THEN "AccountNotOperableError" ELSE "accepted"

Refusal(draft, rows) ==
  IF draft.reverses = None THEN TransferRefusal(draft, rows)
                           ELSE RevertRefusal(draft, rows)

(* Posting.accounts: the successor of each USER leg.                       *)
Successors(draft, rows) ==
  [a \in UserLegs(draft) |->
     IF a = draft.source THEN Debit(rows[a], draft.amount)
                         ELSE Credit(rows[a], draft.amount)]

(* Mutant of PostingFits: columns of unbounded width.                      *)
PostingAlwaysFits(draft, rows) == TRUE

(* The amount of a movement and the balances it leaves are all stored.     *)
PostingFits(draft, rows) ==
  /\ draft.amount \in Stored
  /\ \A a \in UserLegs(draft) : Successors(draft, rows)[a].balance \in Stored

(* What a posted movement adds to account a: the signed amounts of its     *)
(* entries on a (Entry.signed_amount).                                     *)
Net(t, a) == (IF t.destination = a THEN t.amount ELSE 0)
               - (IF t.source = a THEN t.amount ELSE 0)
=============================================================================
