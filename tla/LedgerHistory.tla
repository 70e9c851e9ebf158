---------------------------- MODULE LedgerHistory ----------------------------
(***************************************************************************)
(* The entries table, as those who read the ledger back see it.  What is   *)
(* posted is what module Ledger posts; each transfer writes two entries    *)
(* stamped with one occurred_at.  The stamp is taken before the posting    *)
(* waits for its key and its rows, by the clock of whichever task serves   *)
(* it: the order of the stamps is not the order of the commits.  A closure *)
(* writes no entry and is left out.                                        *)
(***************************************************************************)
EXTENDS Ledger, Sequences, FiniteSetsExt

CONSTANT Time  \* the days on which requests are stamped

VARIABLE entries  \* the rows, in the order of their commits, which no query sees

historyVars == <<balance, closed, posted, entries>>

ASSUME HistoryAssumption == Time \subseteq Nat /\ Time # {} /\ None \notin Nat

Entry ==
  [id : Nat, transfer : TransferId, account : Account,
   direction : {"DEBIT", "CREDIT"}, amount : Nat, occurredAt : Nat]

Leg(t, direction, id, stamp) ==
  [id |-> id, transfer |-> t.id, direction |-> direction,
   account |-> IF direction = "DEBIT" THEN t.source ELSE t.destination,
   amount |-> t.amount, occurredAt |-> stamp]

(* The n-th transfer's: the debit's id is minted first, under the locks of *)
(* the rows.                                                               *)
Legs(t, n, stamp) ==
  <<Leg(t, "DEBIT", 2 * n - 1, stamp), Leg(t, "CREDIT", 2 * n, stamp)>>

(* Entry.signed_amount, and its mirror in negative_balances.py.            *)
Signed(e) == IF e.direction = "CREDIT" THEN e.amount ELSE -e.amount

(* The order of (occurred_at, entry_id), of entries and of what is made of *)
(* them.                                                                   *)
Older(e, f) ==
  \/ e.occurredAt < f.occurredAt
  \/ e.occurredAt = f.occurredAt /\ e.id < f.id

EntriesOf(a) == {entries[i] : i \in {j \in DOMAIN entries : entries[j].account = a}}

(* The opening deposits, if any, are made on the first day, in the order   *)
(* of their accounts.                                                      *)
NthFunded(i) == CHOOSE a \in Funded : Cardinality({b \in Funded : b <= a}) = i

OpeningLegs(i) == Legs(OpeningDeposit(NthFunded(i)), i, Min(Time))

HistoryInit ==
  /\ LedgerInit
  /\ entries = [j \in 1 .. 2 * Cardinality(Funded) |->
                  OpeningLegs((j + 1) \div 2)[IF j % 2 = 1 THEN 1 ELSE 2]]

Unused == {p \in Attempt : \A t \in posted : t.id # p}

(* A transfer, a deposit, a withdrawal or a reversal commits; a transfer   *)
(* id is but a name, any fresh one will do.                                *)
Post ==
  /\ Unused # {}
  /\ LET p == CHOOSE p \in Unused : TRUE
     IN \E q \in Requests : Move(p, q) \/ Reverse(p, q)
  /\ \E t \in posted' \ posted, stamp \in Time :
       entries' = entries \o Legs(t, Cardinality(posted'), stamp)
=============================================================================
