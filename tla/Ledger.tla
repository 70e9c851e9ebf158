------------------------------- MODULE Ledger -------------------------------
(***************************************************************************)
(* What the service promises: a ledger on which every request takes effect *)
(* in one step or not at all.                                              *)
(*   - a movement is posted under its caller's key at most once, ever;     *)
(*   - an ordinary movement never takes a USER account below zero, and     *)
(*     only an operator's reversal may;                                    *)
(*   - a transfer is reversed at most once, in full, by its mirror image;  *)
(*   - a closed account is empty and moves no more.                        *)
(* Nothing here is locked, read ahead, retried or rolled back:             *)
(* AccountService is shown to implement this module.                       *)
(***************************************************************************)
EXTENDS Movements

VARIABLES
  balance,  \* [UserAccount -> Int]
  closed,   \* the USER accounts that have been closed
  posted    \* the transfers on the ledger

ledgerVars == <<balance, closed, posted>>

LedgerInit ==
  /\ balance = Opening
  /\ closed = {}
  /\ posted = OpeningDeposits

KeyUsed(caller, key) == \E t \in posted : t.caller = caller /\ t.key = key

(* Both legs of t land together.                                           *)
Book(t) ==
  /\ \A u \in posted : u.id # t.id
  /\ ~KeyUsed(t.caller, t.key)
  /\ UserLegs(t) \cap closed = {}
  /\ posted' = posted \cup {t}
  /\ balance' = [a \in UserAccount |-> balance[a] + Net(t, a)]
  /\ UNCHANGED closed

(* A transfer, a deposit or a withdrawal.                                  *)
Move(p, q) ==
  /\ q.op = "transfer"
  /\ {q.source, q.destination} \subseteq Account
  /\ q.source # q.destination
  /\ {CurrencyOf[q.source], CurrencyOf[q.destination]} = {q.currency}
  /\ q.amount > 0
  /\ AuthorizationRefusal(q) = "accepted"
  /\ q.source \in UserAccount => balance[q.source] >= q.amount
  /\ Book(TransferDraft(p, q))

Reverse(p, q) ==
  /\ q.op = "revert"
  /\ q.caller = Admin
  /\ \A u \in posted : u.reverses # q.target
  /\ \E o \in posted : o.id = q.target /\ Book(ReversalDraft(p, q, o))

Retire(q) ==
  /\ q.op = "close"
  /\ q.account \in UserAccount \ closed
  /\ Owner[q.account] = q.caller
  /\ balance[q.account] = 0
  /\ closed' = closed \cup {q.account}
  /\ UNCHANGED <<balance, posted>>

LedgerNext ==
  \E q \in Requests :
    \/ \E p \in Attempt : Move(p, q) \/ Reverse(p, q)
    \/ Retire(q)

LedgerSpec == LedgerInit /\ [][LedgerNext]_ledgerVars
=============================================================================
