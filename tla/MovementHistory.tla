--------------------------- MODULE MovementHistory ---------------------------
(***************************************************************************)
(* GET /accounts/{id}/movements and the screen that pages through it while *)
(* postings go on.  A page is what one statement finds below a cursor; the *)
(* account is read before it in a session of its own, of which only the    *)
(* owner matters, who never changes.  The screen's picker stays usable     *)
(* while a page is on its way, so calls overlap and are answered in any    *)
(* order.                                                                  *)
(***************************************************************************)
EXTENDS LedgerHistory

CONSTANTS
  Viewer,    \* the identity active in the browser
  PageSize,  \* limit
  Slot,      \* 1 .. the requests that may be on their way at once
  MaxLoads,  \* first pages asked for
  MaxListed  \* transfers there are while the screen is in use

VARIABLES
  selected,  \* accountId, None for ''
  rows,      \* movements
  cursor,    \* of the next page, None if there is none
  loading,
  error,     \* an error banner is up
  calls,     \* [Slot -> a request on its way, or None]
  loads,     \* first pages asked for so far
  statement  \* not in the code: what the rows are made of, see Deliver

screenVars == <<selected, rows, cursor, loading, error, calls, loads, statement>>
vars == <<balance, closed, posted, entries, selected, rows, cursor, loading,
          error, calls, loads, statement>>

Cursor == [occurredAt : Nat, id : Nat]

ASSUME ScreenAssumption ==
  /\ Viewer \in Caller
  /\ PageSize \in 1 .. 100
  /\ Slot \subseteq Nat /\ IsFiniteSet(Slot)
  /\ {MaxLoads, MaxListed} \subseteq Nat
  /\ None \notin Cursor

(* _to_movement: the entry as the holder of its account sees it.           *)
MovementOf(e) ==
  LET t == CHOOSE t \in posted : t.id = e.transfer
  IN [id |-> e.id, occurredAt |-> e.occurredAt, direction |-> e.direction,
      amount |-> e.amount,
      counterparty |-> IF e.account = t.source THEN t.destination ELSE t.source]

(* encode_movement_cursor: the decoded value comes back as it was.         *)
CursorAfter(e) == [occurredAt |-> e.occurredAt, id |-> e.id]

(* ORDER BY occurred_at DESC, entry_id DESC.                               *)
NewestFirst(found) ==
  [i \in 1 .. Cardinality(found) |->
     CHOOSE e \in found : Cardinality({f \in found : Older(e, f)}) = i - 1]

(* Mutant of Below: the cursor is the time alone.                          *)
BelowByTime(e, after) == after = None \/ e.occurredAt < after.occurredAt

(* Mutant of Below: the last row of a page is found again.                 *)
BelowOrAt(e, after) == after = None \/ ~Older(after, e)

Below(e, after) == after = None \/ Older(e, after)

(* Mutant of Page: the cursor is the row beyond the page.                  *)
PageSkippingOne(a, after) ==
  LET found == NewestFirst({e \in EntriesOf(a) : Below(e, after)})
      hasMore == Len(found) > PageSize
  IN [items |-> [i \in 1 .. Min({Len(found), PageSize}) |-> MovementOf(found[i])],
      next |-> IF hasMore THEN CursorAfter(found[PageSize + 1]) ELSE None]

(* find_by_account: one row beyond the page tells whether there is more.   *)
Page(a, after) ==
  LET found == NewestFirst({e \in EntriesOf(a) : Below(e, after)})
      hasMore == Len(found) > PageSize
  IN [items |-> [i \in 1 .. Min({Len(found), PageSize}) |-> MovementOf(found[i])],
      next |-> IF hasMore THEN CursorAfter(found[PageSize]) ELSE None]

(* GET /accounts, what the picker offers.                                  *)
ListAccounts(caller) == {a \in UserAccount : Owner[a] = caller}

(* ListMovements.execute, and what the route makes of it.                  *)
ListMovements(a, caller, after) ==
  IF a \notin Account THEN "AccountNotFoundError"
  ELSE IF a \notin ListAccounts(caller) THEN "AccountOwnershipError"
  ELSE IF after \notin Cursor \cup {None} THEN "InvalidMovementCursorError"
  ELSE "ok"

-----------------------------------------------------------------------------
NothingLoaded == [account |-> None, from |-> 0]

ScreenInit ==
  /\ selected = None
  /\ rows = <<>> /\ cursor = None
  /\ loading = FALSE /\ error = FALSE
  /\ calls = [s \in Slot |-> None]
  /\ loads = 0
  /\ statement = NothingLoaded

Init == HistoryInit /\ ScreenInit

FreeSlots == {s \in Slot : calls[s] = None}

(* page stays None until the service has served the request; from is how   *)
(* many entries there were then.                                           *)
Ask(a, after, first) ==
  calls' = [calls EXCEPT ![Min(FreeSlots)] =
              [account |-> a, after |-> after, first |-> first,
               page |-> None, from |-> 0]]

LoadFirstPage(a) ==
  /\ selected' = a
  /\ rows' = <<>> /\ cursor' = None /\ error' = FALSE
  /\ statement' = NothingLoaded
  /\ IF a = None THEN UNCHANGED <<loading, calls, loads>>
     ELSE /\ FreeSlots # {} /\ loads < MaxLoads /\ Cardinality(posted) <= MaxListed
          /\ loads' = loads + 1
          /\ loading' = TRUE
          /\ Ask(a, None, TRUE)

(* The picker offers the viewer's accounts, and none.                      *)
Pick ==
  /\ \E a \in ListAccounts(Viewer) \cup {None} :
       a # selected /\ LoadFirstPage(a)
  /\ UNCHANGED historyVars

Retry == error /\ LoadFirstPage(selected) /\ UNCHANGED historyVars

LoadMore ==
  /\ selected # None /\ ~error /\ cursor # None /\ ~loading
  /\ FreeSlots # {}
  /\ loading' = TRUE
  /\ Ask(selected, cursor, FALSE)
  /\ UNCHANGED <<historyVars, selected, rows, cursor, error, loads, statement>>

Serve(s) ==
  /\ calls[s] # None /\ calls[s].page = None
  /\ ListMovements(calls[s].account, Viewer, calls[s].after) = "ok"
  /\ calls' = [calls EXCEPT ![s].page = Page(calls[s].account, calls[s].after),
                            ![s].from = Len(entries)]
  /\ UNCHANGED <<historyVars, selected, rows, cursor, loading, error, loads, statement>>

(* The answer is shown whatever has been asked for since.  statement keeps *)
(* the account the rows are a statement of, and how many entries there     *)
(* were when its first page was read: as long as the first page was for    *)
(* the selected account, and every other one was read later, for the rows  *)
(* it is put below.                                                        *)
Deliver(s) ==
  /\ calls[s] # None /\ calls[s].page # None
  /\ LET c == calls[s]
     IN /\ rows' = (IF c.first THEN <<>> ELSE rows) \o c.page.items
        /\ cursor' = c.page.next
        /\ statement' =
             IF c.first /\ c.account = selected THEN [account |-> c.account, from |-> c.from]
             ELSE IF c.first \/ c.account # statement.account \/ c.after # cursor
                     \/ c.from < statement.from
             THEN NothingLoaded ELSE statement
  /\ loading' = FALSE
  /\ calls' = [calls EXCEPT ![s] = None]
  /\ UNCHANGED <<historyVars, selected, error, loads>>

(* A network failure or an error answer puts up the banner; an answer that *)
(* breaks off after its headers is no ApiError, and only the loading flag  *)
(* falls.                                                                  *)
Fail(s) ==
  /\ calls[s] # None
  /\ error' \in {TRUE, error}
  /\ loading' = FALSE
  /\ calls' = [calls EXCEPT ![s] = None]
  /\ UNCHANGED <<historyVars, selected, rows, cursor, loads, statement>>

(* Another tab of the page: the screen is gone, and answers to it are not  *)
(* shown.                                                                  *)
Leave ==
  /\ selected # None
  /\ selected' = None
  /\ rows' = <<>> /\ cursor' = None /\ loading' = FALSE /\ error' = FALSE
  /\ calls' = [s \in Slot |-> None]
  /\ statement' = NothingLoaded
  /\ UNCHANGED <<historyVars, loads>>

Screen ==
  \/ Pick \/ Retry \/ LoadMore \/ Leave
  \/ \E s \in Slot : Serve(s) \/ Deliver(s) \/ Fail(s)

PostMeanwhile ==
  /\ loads = 0 \/ Cardinality(posted) < MaxListed
  /\ Post /\ UNCHANGED screenVars

Next == PostMeanwhile \/ Screen

Spec == Init /\ [][Next]_vars
-----------------------------------------------------------------------------
(* Properties.                                                             *)

MovementRow ==
  [id : Nat, occurredAt : Nat, direction : {"DEBIT", "CREDIT"}, amount : Nat,
   counterparty : Account]

CallRecord ==
  [account : UserAccount, after : Cursor \cup {None}, first : BOOLEAN,
   page : {None} \cup [items : Seq(MovementRow), next : Cursor \cup {None}],
   from : Nat]

(* Every variable holds what it can; an id names one entry, and the        *)
(* entries of an account add up to its balance, for what the readers make  *)
(* of the table rests on it.                                               *)
TypeOK ==
  /\ entries \in Seq(Entry)
  /\ \A i, j \in DOMAIN entries : entries[i].id = entries[j].id => i = j
  /\ \A a \in UserAccount : MapThenSumSet(Signed, EntriesOf(a)) = balance[a]
  /\ selected \in UserAccount \cup {None}
  /\ rows \in Seq(MovementRow)
  /\ cursor \in Cursor \cup {None}
  /\ {loading, error} \subseteq BOOLEAN
  /\ calls \in [Slot -> CallRecord \cup {None}]
  /\ loads \in 0 .. MaxLoads

RowIds == {rows[i].id : i \in DOMAIN rows}

(* web-ui-plan 6.2, cursor and not offset: whatever is posted between two  *)
(* pages, also with an earlier stamp, the rows of a statement stand newest *)
(* first and none is listed twice.                                         *)
NewestFirstOnce ==
  statement # NothingLoaded =>
    \A i, j \in DOMAIN rows : i < j => Older(rows[j], rows[i])

(* A row lists an entry: under its id, with the account of the other leg   *)
(* of its transfer as the counterparty.                                    *)
Listed(e) ==
  \E i \in DOMAIN rows, j \in DOMAIN entries :
    /\ rows[i].id = e.id
    /\ entries[j].transfer = e.transfer /\ entries[j].id # e.id
    /\ entries[j].account = rows[i].counterparty

(* Nothing that was there when the first page was read is ever skipped: it *)
(* is listed, or still below the cursor; so a statement read to its end    *)
(* has all of it.                                                          *)
NothingSkipped ==
  statement # NothingLoaded =>
    \A i \in 1 .. statement.from :
      entries[i].account = statement.account =>
        \/ Listed(entries[i])
        \/ cursor # None /\ Older(entries[i], cursor)

(* MovementHistoryScreen.tsx, "a statement for one of the caller's own     *)
(* accounts": what is listed under an account are entries of it.           *)
StatementOfSelected ==
  selected # None /\ ~error =>
    RowIds \subseteq {e.id : e \in EntriesOf(selected)}
=============================================================================
