--------------------------- MODULE ReadsInvariant ---------------------------
(***************************************************************************)
(* The inductive invariant of MovementHistory, on which the readers' safety *)
(* properties rest: what the tables satisfy between any two postings, what *)
(* an answer on its way says of the entries there were when it was read,   *)
(* and what the rows on the screen say of them while they are a statement. *)
(* TLC checks it; ReadsProofs proves it inductive.                         *)
(***************************************************************************)
EXTENDS CollectionsReport, MovementHistory

(* The transfers are movements of a positive amount between two accounts,  *)
(* no two of one name.                                                     *)
PostedOK ==
  /\ posted \subseteq Transfer /\ IsFiniteSet(posted)
  /\ \A t \in posted : t.amount > 0 /\ t.source # t.destination
  /\ \A t, u \in posted : t.id = u.id => t = u

(* The j-th and the k-th entry are the legs of transfer t.                 *)
LegsOfOne(j, k, t) ==
  /\ entries[j].transfer = t.id /\ entries[k].transfer = t.id
  /\ \/ entries[j].account = t.source /\ entries[k].account = t.destination
     \/ entries[j].account = t.destination /\ entries[k].account = t.source

(* An entry's id is its place in the table, and its transfer has another.  *)
EntriesOK ==
  /\ entries \in Seq(Entry)
  /\ Len(entries) = 2 * Cardinality(posted)
  /\ \A j \in DOMAIN entries :
       /\ entries[j].id = j
       /\ \E k \in DOMAIN entries \ {j}, t \in posted : LegsOfOne(j, k, t)

(* What the rows of an account add up to is its balance.                   *)
Total(S) == MapThenSumSet(Signed, S)

BalancesOK ==
  /\ balance \in [UserAccount -> Int]
  /\ \A a \in UserAccount : Total(EntriesOf(a)) = balance[a]

HistoryInv == PostedOK /\ EntriesOK /\ BalancesOK

(* Row m is what the screen should show of an entry of account a.          *)
Shows(m, a) ==
  /\ m.id \in DOMAIN entries
  /\ entries[m.id].account = a
  /\ m.occurredAt = entries[m.id].occurredAt
  /\ \E k \in DOMAIN entries \ {m.id} :
       /\ entries[k].transfer = entries[m.id].transfer
       /\ entries[k].account = m.counterparty

(* The rows of list are entries of a, newest first, none of them past next; *)
(* and of the first n entries, those of a below after are in the list or   *)
(* below next.                                                             *)
Lists(list, a, after, next, n) ==
  /\ n \in 0 .. Len(entries)
  /\ \A i \in DOMAIN list :
       /\ Shows(list[i], a)
       /\ Below(list[i], after)
       /\ next # None => ~Older(list[i], next)
  /\ \A i, j \in DOMAIN list : i < j => Older(list[j], list[i])
  /\ next # None => Below(next, after)
  /\ \A k \in 1 .. n :
       entries[k].account = a /\ Below(entries[k], after) =>
         \/ \E i \in DOMAIN list : list[i].id = k
         \/ next # None /\ Older(entries[k], next)

(* The first page is asked for without a cursor, the others with one; a    *)
(* page lists what there was when it was read.                             *)
CallOK(c) ==
  /\ c.first <=> c.after = None
  /\ c.page # None => Lists(c.page.items, c.account, c.after, c.page.next, c.from)

StatementOK ==
  \/ statement = NothingLoaded
  \/ /\ statement.account \in UserAccount
     /\ Lists(rows, statement.account, None, cursor, statement.from)

ScreenInv ==
  /\ TypeOK
  /\ \A s \in Slot : calls[s] # None => CallOK(calls[s])
  /\ StatementOK

(* What every reachable state satisfies: the tables, the answers on their  *)
(* way and the rows.                                                       *)
ReadsInductive == HistoryInv /\ ScreenInv
=============================================================================
