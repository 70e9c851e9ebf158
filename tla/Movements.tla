----------------------------- MODULE Movements -----------------------------
(***************************************************************************)
(* What clients ask of the service, who may ask it, and the movement each  *)
(* request stands for.  Shared by the abstract ledger (Ledger), where a    *)
(* request takes effect in one step, and by the service                    *)
(* (AccountService), where it takes a database transaction.                *)
(***************************************************************************)
EXTENDS Posting

CONSTANTS
  Attempt,   \* HTTP requests served; each mints at most one transfer id, itself
  Caller,    \* the identities X-Caller-Id carries
  Admin,     \* the one principal allowed to reverse
  Key,       \* idempotency keys
  Owner,     \* [UserAccount -> Caller]
  Opening,   \* [UserAccount -> Nat], the amount first deposited, 0 for none
  Requests   \* what clients may ask

TransferId == Attempt \cup UserAccount

TransferRequest ==
  [op : {"transfer"}, caller : Caller, key : Key,
   source : Nat, destination : Nat, amount : Int, currency : Currency]

RevertRequest ==
  [op : {"revert"}, caller : Caller, key : Key, target : TransferId]

CloseRequest ==
  [op : {"close"}, caller : Caller, account : Nat]

Transfer ==
  [id : TransferId, source : Account, destination : Account, amount : Int,
   currency : Currency, caller : Caller, key : Key,
   reverses : TransferId \cup {None}]

ASSUME MovementsAssumption ==
  /\ None \notin Attempt
  /\ Attempt \cap UserAccount = {}
  /\ UserAccount \subseteq Key
  /\ Owner \in [UserAccount -> Caller]
  /\ Opening \in [UserAccount -> 0 .. MaxStored]
  /\ \A a \in UserAccount :
        \E s \in SystemAccount : CurrencyOf[s] = CurrencyOf[a]
  /\ Requests \subseteq TransferRequest \cup RevertRequest \cup CloseRequest

-----------------------------------------------------------------------------
(* TransferMoneyRequest.hash() and RevertTransferRequest.hash(): exactly   *)
(* the fields a retry must not change.  Neither includes the caller or the *)
(* key, and a reversal's covers the original alone.                        *)
Hash(q) ==
  IF q.op = "revert" THEN <<q.target>>
                     ELSE <<q.source, q.destination, q.amount, q.currency>>

(* TransferMoney._assert_authorized: the owner of the debited USER leg, or *)
(* of the credited one when money comes from a SYSTEM account.             *)
AuthorizationRefusal(q) ==
  IF q.source \in UserAccount
  THEN IF Owner[q.source] = q.caller THEN "accepted" ELSE "AccountOwnershipError"
  ELSE IF q.destination \in UserAccount
  THEN IF Owner[q.destination] = q.caller THEN "accepted" ELSE "AccountOwnershipError"
  ELSE "SystemToSystemTransferNotAllowedError"

TransferDraft(p, q) ==
  [id |-> p, source |-> q.source, destination |-> q.destination,
   amount |-> q.amount, currency |-> q.currency,
   caller |-> q.caller, key |-> q.key, reverses |-> None]

(* The reversal of o debits o's destination and credits o's source.        *)
ReversalDraft(p, q, o) ==
  [id |-> p, source |-> o.destination, destination |-> o.source,
   amount |-> o.amount, currency |-> o.currency,
   caller |-> q.caller, key |-> q.key, reverses |-> o.id]

-----------------------------------------------------------------------------
(* A run starts with the deposits already posted from a SYSTEM account of  *)
(* the same currency, at most one per USER account; the deposit into a is  *)
(* named a, and so is its key.                                             *)
OpeningSource(a) ==
  CHOOSE s \in SystemAccount : CurrencyOf[s] = CurrencyOf[a]

OpeningDeposit(a) ==
  [id |-> a, source |-> OpeningSource(a), destination |-> a,
   amount |-> Opening[a], currency |-> CurrencyOf[a],
   caller |-> Owner[a], key |-> a, reverses |-> None]

Funded == {a \in UserAccount : Opening[a] > 0}

OpeningDeposits == {OpeningDeposit(a) : a \in Funded}

OpeningRow(a) ==
  IF a \in Funded THEN Credit(NewRow, Opening[a]) ELSE NewRow

(* A database row standing for the key of an already posted transfer t.    *)
RecordOf(t) ==
  [caller |-> t.caller, key |-> t.key, transfer |-> t.id,
   hash |-> IF t.reverses = None
            THEN <<t.source, t.destination, t.amount, t.currency>>
            ELSE <<t.reverses>>]
=============================================================================
