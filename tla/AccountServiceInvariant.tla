---------------------- MODULE AccountServiceInvariant ----------------------
(***************************************************************************)
(* The inductive invariant of AccountService.  The safety properties of    *)
(* that module are not inductive: they say what is committed, and whether  *)
(* a commit keeps them depends on what the committing transaction has read *)
(* and holds.  The conjuncts below say what an attempt may rely on at each *)
(* of its steps; TLC checks their conjunction, and AccountServiceProofs    *)
(* proves it inductive.                                                    *)
(***************************************************************************)
EXTENDS AccountService

(* The steps between the INSERT of the idempotency record and the commit,  *)
(* and those after the movement has been drafted.                          *)
AfterInsert == {"read", "lock", "post", "commit"}
AfterRead == {"lock", "post", "commit"}

KeyHolder(p) == pc[p] \in AfterInsert /\ request[p].op # "close"

(* The draft is the movement the request stands for, and the refusals the  *)
(* unlocked reads can give have been given.                                *)
Drafted(p, q, d) ==
  \/ /\ q.op = "transfer"
     /\ {q.source, q.destination} \subseteq Account
     /\ AuthorizationRefusal(q) = "accepted"
     /\ d = TransferDraft(p, q)
  \/ /\ q.op = "revert"
     /\ \E o \in transfers : o.id = q.target /\ d = ReversalDraft(p, q, o)
  \/ /\ q.op = "close"
     /\ q.account \in UserAccount
     /\ Owner[q.account] = q.caller
     /\ d = None

(* What the request and the draft are at each step; the transfer id minted *)
(* by an attempt appears on the ledger as the attempt ends.                *)
FlowOK(p) ==
  /\ pc[p] # "idle" => request[p] \in Requests
  /\ pc[p] \notin {"idle", "done"} => MayStart(request[p])
  /\ pc[p] \in {"find", "insert", "recover"} => request[p].op # "close"
  /\ pc[p] \in AfterRead => Drafted(p, request[p], draft[p])
  /\ pc[p] # "done" => \A t \in transfers : t.id # p

(* A key holder has its uncommitted row, and no committed record has its   *)
(* key; who lost the race for a key finds the record that won.             *)
KeyOK(p) ==
  /\ pending[p] = IF KeyHolder(p) THEN {NewRecord(p)} ELSE {}
  /\ KeyHolder(p) => Known(request[p]) = {}
  /\ pc[p] = "recover" => Known(request[p]) # {}

(* A row lock belongs to an attempt that needs the row and has it as last  *)
(* committed; from "post" on every leg is locked.                          *)
LockOK(p) ==
  /\ \A a \in UserAccount :
       lock[a] = p => /\ pc[p] \in AfterRead
                      /\ a \in Legs(p)
                      /\ rows[p][a] = account[a]
  /\ pc[p] \in {"post", "commit"} => Legs(p) \subseteq Held(p)

(* What was accepted when it was posted still is when it commits.          *)
ReadyOK(p) == pc[p] = "commit" => PostStatus(p) = "accepted"

AnswerOK(p) ==
  answer[p] # None =>
    /\ pc[p] = "done"
    /\ answer[p].status # "RuntimeError"
    /\ answer[p].status = "created" =>
         \E t \in transfers : t.id = answer[p].transfer /\ Fulfils(t, request[p])

AttemptInv(p) == FlowOK(p) /\ KeyOK(p) /\ LockOK(p) /\ ReadyOK(p) /\ AnswerOK(p)

(* No two attempts hold one key, nor are ready to reverse one transfer.    *)
KeysDistinct ==
  \A p, o \in Attempt :
    p # o /\ KeyHolder(p) /\ KeyHolder(o) => ~SameKey(request[o], request[p])

Reverting(p) == pc[p] = "commit" /\ request[p].op = "revert"

ReversalsDistinct ==
  \A p, o \in Attempt :
    p # o /\ Reverting(p) /\ Reverting(o) => draft[p].reverses # draft[o].reverses

UniqueIds == \A t, u \in transfers : t.id = u.id => t = u

NoSelfTransfer == \A t \in transfers : t.source # t.destination

(* What the committed tables satisfy between any two commits.              *)
StoreInv ==
  /\ KeySpentIffPosted /\ UniqueIds /\ OnePostingPerKey
  /\ ReversedOnceInFull /\ NoSelfTransfer /\ ClosedIsEmpty

(* What every reachable state satisfies: the types, the committed tables,  *)
(* what each attempt relies on at its step, and no two attempts with one   *)
(* uncommitted key or one uncommitted reversal.                            *)
Inductive ==
  /\ TypeOK
  /\ StoreInv
  /\ \A p \in Attempt : AttemptInv(p)
  /\ KeysDistinct
  /\ ReversalsDistinct
=============================================================================
