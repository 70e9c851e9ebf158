--------------------------- MODULE ConnectionPool ---------------------------
(***************************************************************************)
(* One task's engine and the requests it serves.  A session checks a       *)
(* connection out of the pool at its first statement and returns it when   *)
(* it is closed; a request is one session, or several one after the other. *)
(* Inside PostgreSQL a session may wait for what another one has locked,   *)
(* and keeps its connection while it waits.  A failover severs every       *)
(* connection, the idle ones in the pool included.                         *)
(***************************************************************************)
EXTENDS Naturals, FiniteSets, Sequences

CONSTANTS
  Request,       \* the HTTP requests
  Account,       \* the ids of the USER accounts, naturals above 0
  PoolSize,      \* db_pool_size; db_max_overflow is 0
  Asks,          \* what requests may ask: [op, wants]
  MaxFailovers,  \* how often the database may fail over
  None

(* Mutant of Conn: the library's overflow.                                 *)
ConnWithOverflow == 1 .. PoolSize + 1

Conn == 1 .. PoolSize

(* What a session can make another one wait for, in the order in which it  *)
(* asks: the idempotency key that requests share, then the account rows.   *)
Key == 0
Lockable == {Key} \cup Account

(* Mutant of Sessions: the posted transfer is read back in a session of    *)
(* its own.                                                                *)
SessionsReadingBack ==
  [transfer |-> <<"find", "statement">>,
   deposit |-> <<"statement", "find">>,
   close |-> <<"locking">>,
   open |-> <<"statement", "statement">>,
   movements |-> <<"statement", "statement">>,
   read |-> <<"statement">>]

(* The sessions of a request, each named for the step it starts with.      *)
(* transfer: also a reversal; deposit: also a withdrawal, after the SYSTEM *)
(* account is resolved; read: get_account, list_accounts, the collections  *)
(* report and /ready.                                                      *)
Sessions ==
  [transfer |-> <<"find">>,
   deposit |-> <<"statement", "find">>,
   close |-> <<"locking">>,
   open |-> <<"statement", "statement">>,
   movements |-> <<"statement", "statement">>,
   read |-> <<"statement">>]

ASSUME PoolAssumption ==
  /\ Account \subseteq Nat \ {0} /\ IsFiniteSet(Account)
  /\ PoolSize \in Nat \ {0}
  /\ MaxFailovers \in Nat
  /\ None \notin Request
  /\ Asks \subseteq [op : DOMAIN Sessions, wants : SUBSET Lockable]

VARIABLES
  at,      \* [Request -> Steps]
  todo,    \* [Request -> the sessions still to open]
  wants,   \* [Request -> SUBSET Lockable], what its unit of work locks
  conn,    \* [Request -> SUBSET Conn], the connections it has checked out
  since,   \* [Request -> Nat], the era in which it was given them; 0: it has none
  opened,  \* [Conn -> Nat], the era a connection was opened in; 0: it is not
  era,     \* 1 + the failovers there have been
  up,      \* the database accepts connections
  lock,    \* [Lockable -> Request \cup {None}]
  posted,  \* the requests whose unit of work has committed
  answer   \* [Request -> Answers]

vars == <<at, todo, wants, conn, since, opened, era, up, lock, posted, answer>>

InSession == {"statement", "find", "locking", "recover"}
Steps == {"idle", "queued", "done"} \cup InSession
Answers == {"none", "ok", "timeout", "error"}

Init ==
  /\ at = [r \in Request |-> "idle"]
  /\ todo = [r \in Request |-> <<>>]
  /\ wants = [r \in Request |-> {}]
  /\ conn = [r \in Request |-> {}]
  /\ since = [r \in Request |-> 0]
  /\ opened = [c \in Conn |-> 0]
  /\ era = 1 /\ up = TRUE
  /\ lock = [x \in Lockable |-> None]
  /\ posted = {}
  /\ answer = [r \in Request |-> "none"]

-----------------------------------------------------------------------------
Free == Conn \ UNION {conn[r] : r \in Request}

Held(r) == {x \in Lockable : lock[x] = r}

(* The connections of r are those PostgreSQL still knows.                  *)
Live(r) == \A c \in conn[r] : opened[c] = era

(* Closing a session returns its connection and ends its transaction.      *)
Close(r) ==
  /\ conn' = [conn EXCEPT ![r] = {}]
  /\ since' = [since EXCEPT ![r] = 0]
  /\ lock' = [x \in Lockable |-> IF lock[x] = r THEN None ELSE lock[x]]

Reply(r, how) ==
  /\ at' = [at EXCEPT ![r] = "done"]
  /\ answer' = [answer EXCEPT ![r] = how]
  /\ todo' = [todo EXCEPT ![r] = <<>>]

(* The next session, if the request has one, or its answer.                *)
Continue(r) ==
  IF todo[r] = <<>> THEN Reply(r, "ok")
  ELSE at' = [at EXCEPT ![r] = "queued"] /\ UNCHANGED <<todo, answer>>

-----------------------------------------------------------------------------
Arrive(r) ==
  /\ at[r] = "idle"
  /\ \E q \in Asks :
       /\ todo' = [todo EXCEPT ![r] = Sessions[q.op]]
       /\ wants' = [wants EXCEPT ![r] = q.wants]
  /\ at' = [at EXCEPT ![r] = "queued"]
  /\ UNCHANGED <<conn, since, opened, era, up, lock, posted, answer>>

(* Mutant of HandedOut: no pre_ping, a connection is opened only once.     *)
HandedOutUnpinged(c) == IF opened[c] = 0 THEN era ELSE opened[c]

(* pool_pre_ping: a severed connection is replaced before it is used.      *)
HandedOut(c) == era

Checkout(r) ==
  /\ at[r] = "queued" /\ up
  /\ \E c \in Free :
       /\ conn' = [conn EXCEPT ![r] = @ \cup {c}]
       /\ opened' = [opened EXCEPT ![c] = HandedOut(c)]
  /\ since' = [since EXCEPT ![r] = era]
  /\ at' = [at EXCEPT ![r] = Head(todo[r])]
  /\ todo' = [todo EXCEPT ![r] = Tail(@)]
  /\ UNCHANGED <<wants, era, up, lock, posted, answer>>

(* There is a slot and nobody to connect to.                               *)
CannotConnect(r) ==
  /\ at[r] = "queued" /\ ~up /\ Free # {}
  /\ Reply(r, "error")
  /\ UNCHANGED <<wants, conn, since, opened, era, up, lock, posted>>

(* db_pool_timeout_seconds pass and every connection is still in use.      *)
TimeOut(r) ==
  /\ at[r] = "queued" /\ Free = {}
  /\ Reply(r, "timeout")
  /\ UNCHANGED <<wants, conn, since, opened, era, up, lock, posted>>

-----------------------------------------------------------------------------
(* Mutant of EndStatement: a session stays open while the request goes on. *)
EndStatementKeepingSession(r) ==
  /\ at[r] = "statement" /\ Live(r)
  /\ IF todo[r] = <<>> THEN Close(r) ELSE UNCHANGED <<conn, since, lock>>
  /\ Continue(r)
  /\ UNCHANGED <<wants, opened, era, up, posted>>

(* A session of one statement.                                             *)
EndStatement(r) ==
  /\ at[r] = "statement" /\ Live(r)
  /\ Close(r)
  /\ Continue(r)
  /\ UNCHANGED <<wants, opened, era, up, posted>>

(* The key's record is committed.                                          *)
Spent == \E w \in posted : Key \in wants[w]

(* The unit of work looks its key up: a replay, or a request to carry out. *)
Find(r) ==
  /\ at[r] = "find" /\ Live(r)
  /\ IF Key \in wants[r] /\ Spent
     THEN Close(r) /\ Continue(r)
     ELSE at' = [at EXCEPT ![r] = "locking"] /\ UNCHANGED <<conn, since, lock, todo, answer>>
  /\ UNCHANGED <<wants, opened, era, up, posted>>

(* Mutant of Due: rows are locked in the order of the legs.                *)
DueInAnyOrder(r, x) == x \in wants[r] \ Held(r)

(* The key first, then the rows in the order of their ids.                 *)
Due(r, x) ==
  /\ x \in wants[r] \ Held(r)
  /\ \A y \in wants[r] \ Held(r) : x <= y

Lock(r) ==
  /\ at[r] = "locking" /\ Live(r)
  /\ \E x \in Lockable :
       /\ Due(r, x) /\ lock[x] = None
       /\ x = Key => ~Spent
       /\ lock' = [lock EXCEPT ![x] = r]
  /\ UNCHANGED <<at, todo, wants, conn, since, opened, era, up, posted, answer>>

(* The key was spent since it was looked up: the unit of work is rolled    *)
(* back and closed, and a second one looks up what the winner recorded.    *)
LoseRace(r) ==
  /\ at[r] = "locking" /\ Live(r)
  /\ Due(r, Key) /\ lock[Key] = None /\ Spent
  /\ Close(r)
  /\ at' = [at EXCEPT ![r] = "queued"]
  /\ todo' = [todo EXCEPT ![r] = <<"recover">> \o @]
  /\ UNCHANGED <<wants, opened, era, up, posted, answer>>

Recover(r) ==
  /\ at[r] = "recover" /\ Live(r)
  /\ Close(r)
  /\ Continue(r)
  /\ UNCHANGED <<wants, opened, era, up, posted>>

Commit(r) ==
  /\ at[r] = "locking" /\ Live(r)
  /\ wants[r] \subseteq Held(r)
  /\ posted' = posted \cup {r}
  /\ Close(r)
  /\ Continue(r) \/ Reply(r, "error")
  /\ UNCHANGED <<wants, opened, era, up>>

(* A refusal, a failing statement or a cancelled request: __aexit__ rolls  *)
(* back and closes.                                                        *)
Abort(r) ==
  /\ at[r] \in InSession /\ Live(r)
  /\ Close(r)
  /\ Reply(r, "error")
  /\ UNCHANGED <<wants, opened, era, up, posted>>

(* The next statement on a severed connection fails; the pool drops it.    *)
Break(r) ==
  /\ at[r] \in InSession /\ ~Live(r)
  /\ Close(r)
  /\ opened' = [c \in Conn |-> IF c \in conn[r] THEN 0 ELSE opened[c]]
  /\ Reply(r, "error")
  /\ UNCHANGED <<wants, era, up, posted>>

-----------------------------------------------------------------------------
(* RDS fails over: every session is gone, with its locks.                  *)
Failover ==
  /\ era <= MaxFailovers
  /\ era' = era + 1 /\ up' = FALSE
  /\ lock' = [x \in Lockable |-> None]
  /\ UNCHANGED <<at, todo, wants, conn, since, opened, posted, answer>>

ComesUp ==
  /\ ~up /\ up' = TRUE
  /\ UNCHANGED <<at, todo, wants, conn, since, opened, era, lock, posted, answer>>

Proceed(r) ==
  \/ Checkout(r) \/ CannotConnect(r) \/ TimeOut(r) \/ EndStatement(r) \/ Find(r)
  \/ Lock(r) \/ LoseRace(r) \/ Recover(r) \/ Commit(r) \/ Break(r)

AllServed == (\A r \in Request : at[r] = "done") /\ UNCHANGED vars

Next ==
  \/ \E r \in Request : Arrive(r) \/ Proceed(r) \/ Abort(r)
  \/ Failover \/ ComesUp \/ AllServed

(* The event loop runs what is ready and PostgreSQL grants released locks. *)
Fairness == \A r \in Request : WF_vars(Proceed(r))

Spec == Init /\ [][Next]_vars /\ Fairness
-----------------------------------------------------------------------------
(* Properties.                                                             *)

(* Every variable holds what it can; the process never has more than       *)
(* max_database_connections_per_process connections open, the number the   *)
(* fleet's budget is divided by.                                           *)
TypeOK ==
  /\ at \in [Request -> Steps]
  /\ todo \in [Request -> Seq(InSession)]
  /\ wants \in [Request -> SUBSET Lockable]
  /\ conn \in [Request -> SUBSET (1 .. PoolSize)]
  /\ since \in [Request -> Nat]
  /\ opened \in [Conn -> Nat]
  /\ era \in Nat \ {0} /\ up \in BOOLEAN
  /\ lock \in [Lockable -> Request \cup {None}]
  /\ posted \in SUBSET Request
  /\ answer \in [Request -> Answers]

(* A connection serves one request at a time, and a request that waits for *)
(* one holds none and has nothing locked: the pool is never what a chain   *)
(* of waits closes over.                                                   *)
NoHoldAndWait ==
  /\ \A r, s \in Request : r # s => conn[r] \cap conn[s] = {}
  /\ \A r \in Request : at[r] = "queued" => conn[r] = {} /\ Held(r) = {}

(* A request waits inside PostgreSQL for what another one has locked.      *)
Blocked(r) ==
  /\ at[r] = "locking" /\ Live(r)
  /\ \E x \in Lockable : Due(r, x) /\ lock[x] # None

(* settings.py, the bottleneck is the row lock: requests waiting for rows  *)
(* may fill the pool, but somebody in it can always go on, so a saturated  *)
(* pool empties by itself and not only by timeouts.                        *)
SaturatedPoolMoves ==
  Free = {} => \E r \in Request : conn[r] # {} /\ at[r] # "queued" /\ ~Blocked(r)

(* settings.py, a saturated task fails fast and the caller retries safely: *)
(* a request that gave up waiting for a connection has posted nothing.     *)
TimedOutPostedNothing == \A r \in Request : answer[r] = "timeout" => r \notin posted

(* settings.py, db_pool_pre_ping: nobody is given a connection that a      *)
(* failover has severed before; only who holds one during it is hurt.      *)
NoStaleCheckout ==
  \A r \in Request : \A c \in conn[r] : opened[c] = since[r]

(* Every request is answered, whatever is locked, saturated or severed.    *)
EveryRequestEnds == \A r \in Request : at[r] = "queued" ~> at[r] = "done"
=============================================================================
