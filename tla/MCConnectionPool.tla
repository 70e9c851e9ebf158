-------------------------- MODULE MCConnectionPool --------------------------
(* Small instances of ConnectionPool.                                      *)
EXTENDS ConnectionPool, TLC

Ask(op, locked) == [op |-> op, wants |-> locked]

(* A transfer between both accounts, deposits under one key, a closure and *)
(* a read.                                                                 *)
MCAsks ==
  {Ask("transfer", {1, 2}), Ask("deposit", {0, 1}), Ask("close", {2}),
   Ask("movements", {}), Ask("open", {})}
=============================================================================
