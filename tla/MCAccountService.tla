-------------------------- MODULE MCAccountService --------------------------
(***************************************************************************)
(* Small instances of AccountService.  Two USER accounts of two owners and *)
(* the FUNDING account of one currency; account 1 starts with one deposit. *)
(***************************************************************************)
EXTENDS AccountServiceInvariant, TLC

CONSTANTS ana, bruno, operator, k1, k2

MCUsers == {1, 2}
MCSystem == {0}
MCCurrencyOf == [a \in 0 .. 2 |-> "USD"]
MCOwner == 1 :> ana @@ 2 :> bruno
MCOpening == 1 :> 2 @@ 2 :> 1
MCOpeningForBoth == 1 :> 3 @@ 2 :> 1
MCKeys == {k1, k2} \cup MCUsers
MCCallers == {ana, bruno, operator}

Transfers(caller, keys, source, destination, amounts) ==
  {[op |-> "transfer", caller |-> caller, key |-> k, source |-> source,
    destination |-> destination, amount |-> n, currency |-> "USD"] :
     k \in keys, n \in amounts}

Reversals(caller, keys, targets) ==
  {[op |-> "revert", caller |-> caller, key |-> k, target |-> t] :
     k \in keys, t \in targets}

Closure(caller, a) == [op |-> "close", caller |-> caller, account |-> a]

(* The same money spent twice, a transfer the other way, and a closure;    *)
(* one key carried by several attempts, with one payload and with two that *)
(* account 1 can pay both of.                                              *)
MCCrossing ==
  Transfers(ana, {k1}, 1, 2, {1, 2}) \cup Transfers(ana, {k2}, 1, 2, {2})
    \cup Transfers(bruno, {k1}, 2, 1, {1}) \cup {Closure(ana, 1)}

(* Reversals under two keys of a deposit and of any transfer posted in the *)
(* run, against spending and closing.                                      *)
MCReversing ==
  Transfers(ana, {k1}, 1, 2, {2})
    \cup Reversals(operator, {k1, k2}, {1}) \cup Reversals(operator, {k1}, Attempt)
    \cup {Closure(ana, 1)}

(* Everything one attempt may wait for another for: the key, the rows of   *)
(* two legs, in both directions, the row of an account to close and the    *)
(* one reversal of a transfer; and requests that are refused.              *)
MCWaiting ==
  Transfers(ana, {k1}, 1, 2, {1}) \cup Transfers(bruno, {k1}, 2, 1, {1})
    \cup Reversals(operator, {k1, k2}, {1}) \cup {Closure(ana, 1)}

MCRefused ==
  Transfers(ana, {k1}, 1, 2, {0}) \cup Transfers(ana, {k1}, 2, 1, {1})
    \cup Transfers(ana, {k1}, 0, 0, {1}) \cup Transfers(ana, {k1}, 0, 1, {9})
    \cup Reversals(ana, {k1}, {1}) \cup {Closure(ana, 9)}

MCLive == MCWaiting \cup MCRefused

Symmetry == Permutations(Attempt)
=============================================================================
