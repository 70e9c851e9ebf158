------------------------------- MODULE MCReads -------------------------------
(***************************************************************************)
(* Small instances of the readers: an account of ana's in each of two      *)
(* currencies, with one unit in it.                                        *)
(***************************************************************************)
EXTENDS ReadsInvariant, TLC

CONSTANTS ana, operator

MCUsers == {1, 2}
MCTransfers == 11 .. 14
MCSystem == {8, 9}
MCCurrencyOf == 1 :> "USD" @@ 2 :> "EUR" @@ 8 :> "USD" @@ 9 :> "EUR"
MCOwner == [a \in MCUsers |-> ana]
MCOpening == [a \in MCUsers |-> 1]

Movement(caller, source, destination, currency) ==
  [op |-> "transfer", caller |-> caller, key |-> 10 * source + destination, source |-> source,
   destination |-> destination, amount |-> 1, currency |-> currency]

Reversal(t) == [op |-> "revert", caller |-> operator, key |-> IF t = 1 THEN 1 ELSE 2, target |-> t]

MCKeys == MCUsers \cup Attempt \cup {18, 81, 29}

(* Money is spent, the deposit it came from is reversed, the debt is paid, *)
(* and that payment is reversed too; or the deposit of account 2 is, with  *)
(* the same key.                                                           *)
MCRequests ==
  {Movement(ana, 1, 8, "USD"), Movement(ana, 8, 1, "USD"), Movement(ana, 2, 9, "EUR")}
    \cup {Reversal(t) : t \in MCUsers \cup {13}}
=============================================================================
