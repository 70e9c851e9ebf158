----------------------------- MODULE ReadsProofs -----------------------------
(***************************************************************************)
(* Proofs about those who read the ledger back, the movement history and   *)
(* the collections report, for any accounts, requests and page size.       *)
(***************************************************************************)
EXTENDS ReadsInvariant, FiniteSetFacts, TLAPS

-----------------------------------------------------------------------------
(* Sums of entries.                                                        *)

LEMMA SignedType ==
  ASSUME NEW e \in Entry
  PROVE  Signed(e) \in Int
BY DEF Entry, Signed

LEMMA TotalIsSum ==
  ASSUME NEW S, IsFiniteSet(S)
  PROVE  Total(S) = SumOver([e \in S |-> Signed(e)], S)
<1> DEFINE g == [e \in S |-> Signed(e)]
           Goes(iter) == iter = [s \in SUBSET S |->
                                   IF s = {} THEN 0
                                   ELSE Signed(Some(s)) + iter[s \ {Some(s)}]]
<1>1. Total(S) = (CHOOSE iter : Goes(iter))[S]
  BY Zenon DEF Total, MapThenSumSet, MapThenFoldSet, Some
<1>2. \A iter : Goes(iter) <=> SumsUp(g, S, iter)
  <2>1. \A s \in SUBSET S : s # {} => g[Some(s)] = Signed(Some(s))
    BY DEF Some
  <2> HIDE DEF g
  <2> QED
    BY <2>1 DEF SumsUp
<1>3. \E iter : Goes(iter)
  BY <1>2, SumsUpExists
<1> DEFINE chosen == CHOOSE iter : Goes(iter)
<1>4. SumsUp(g, S, chosen)
  BY <1>2, <1>3
<1> HIDE DEF g, chosen
<1>5. SumOver(g, S) = chosen[S]
  BY <1>4, SumIs
<1> QED
  BY <1>1, <1>5 DEF g, chosen

LEMMA TotalOfNone == Total({}) = 0
BY TotalIsSum, SumOfNone, FS_EmptySet

LEMMA TotalType ==
  ASSUME NEW S, IsFiniteSet(S), S \subseteq Entry
  PROVE  Total(S) \in Int
<1> DEFINE g == [e \in S |-> Signed(e)]
<1>1. \A e \in S : g[e] \in Int
  BY SignedType
<1> HIDE DEF g
<1>2. SumOver(g, S) \in Int
  BY <1>1, SumType
<1> QED
  BY <1>2, TotalIsSum DEF g

LEMMA TotalAdd ==
  ASSUME NEW S, IsFiniteSet(S), S \subseteq Entry, NEW e \in Entry, e \notin S
  PROVE  Total(S \cup {e}) = Signed(e) + Total(S)
<1> DEFINE T == S \cup {e}
           g == [f \in S |-> Signed(f)]
           h == [f \in T |-> Signed(f)]
<1>1. IsFiniteSet(T)
  BY FS_AddElement
<1>2. /\ h[e] = Signed(e) /\ h[e] \in Int
      /\ \A f \in S : h[f] \in Int /\ g[f] = h[f]
  BY SignedType
<1> HIDE DEF g, h
<1>3. SumOver(h, S \cup {e}) = h[e] + SumOver(h, S)
  BY <1>2, SumAdd
<1>4. SumOver(g, S) = SumOver(h, S)
  BY <1>2, SumSame
<1>5. Total(T) = SumOver(h, T) /\ Total(S) = SumOver(g, S)
  BY <1>1, TotalIsSum DEF g, h
<1> QED
  BY <1>2, <1>3, <1>4, <1>5

-----------------------------------------------------------------------------
(* The order of (occurred_at, entry_id).                                   *)

(* Its pairs: the first is the newer.                                      *)
NewerIn(S) == {pair \in S \X S : Older(pair[2], pair[1])}

(* Things with a day and an id of their own.                               *)
Stamped(S) ==
  /\ \A e \in S : e.occurredAt \in Nat /\ e.id \in Nat
  /\ \A e, f \in S : e.id = f.id => e = f

LEMMA OlderIsStrict ==
  ASSUME NEW e, NEW f, NEW g,
         \A x \in {e, f, g} : x.occurredAt \in Nat /\ x.id \in Nat
  PROVE  /\ ~Older(e, e)
         /\ Older(e, f) => ~Older(f, e)
         /\ Older(e, f) /\ Older(f, g) => Older(e, g)
         /\ Older(e, f) /\ ~Older(g, f) => Older(e, g)
         /\ e.id # f.id => Older(e, f) \/ Older(f, e)
BY DEF Older

LEMMA NewerOrders ==
  ASSUME NEW S, Stamped(S)
  PROVE  /\ StrictOrder(NewerIn(S), S)
         /\ \A e, f \in S : <<f, e>> \in NewerIn(S) <=> Older(e, f)
         /\ \A e \in S : Rank(NewerIn(S), S, e) = Cardinality({f \in S : Older(e, f)})
<1>1. \A e, f \in S : <<f, e>> \in NewerIn(S) <=> Older(e, f)
  BY DEF NewerIn
<1>2. StrictOrder(NewerIn(S), S)
  <2>1. \A e, f, g \in S : \A x \in {e, f, g} : x.occurredAt \in Nat /\ x.id \in Nat
    BY DEF Stamped
  <2>2. \A e \in S : ~Older(e, e)
    BY <2>1, OlderIsStrict
  <2>3. \A e, f, g \in S : Older(g, f) /\ Older(f, e) => Older(g, e)
    BY <2>1, OlderIsStrict
  <2>4. \A e, f \in S : e = f \/ Older(f, e) \/ Older(e, f)
    BY <2>1, OlderIsStrict DEF Stamped
  <2> QED
    BY <1>1, <2>2, <2>3, <2>4 DEF StrictOrder
<1>3. ASSUME NEW e \in S
      PROVE  Rank(NewerIn(S), S, e) = Cardinality({f \in S : Older(e, f)})
  <2>1. {f \in S : <<f, e>> \in NewerIn(S)} = {f \in S : Older(e, f)}
    BY <1>1
  <2> QED
    BY <2>1 DEF Rank
<1> QED
  BY <1>1, <1>2, <1>3

(* NewestFirst lists all there is, each once, in its order.                *)
LEMMA NewestFirstLists ==
  ASSUME NEW S, IsFiniteSet(S), Stamped(S)
  PROVE  /\ NewestFirst(S) \in Seq(S)
         /\ Len(NewestFirst(S)) = Cardinality(S)
         /\ \A i, j \in 1 .. Cardinality(S) :
              i < j => Older(NewestFirst(S)[j], NewestFirst(S)[i])
         /\ \A e \in S : \E i \in 1 .. Cardinality(S) : NewestFirst(S)[i] = e
<1> DEFINE n == Cardinality(S)
           R == NewerIn(S)
           pick(i) == CHOOSE e \in S : Cardinality({f \in S : Older(e, f)}) = i - 1
           list == NewestFirst(S)
<1>1. /\ StrictOrder(R, S)
      /\ \A e, f \in S : <<f, e>> \in R <=> Older(e, f)
      /\ \A e \in S : Rank(R, S, e) = Cardinality({f \in S : Older(e, f)})
  BY NewerOrders
<1>2. list = [i \in 1 .. n |-> pick(i)]
  BY Zenon DEF NewestFirst
<1>3. \A i : (\E e \in S : Cardinality({f \in S : Older(e, f)}) = i - 1) =>
              pick(i) \in S /\ Cardinality({f \in S : Older(pick(i), f)}) = i - 1
  OBVIOUS
<1> HIDE DEF n, R, pick, list
<1>4. \A i \in 1 .. n :
        (\E e \in S : Rank(R, S, e) = i - 1) => list[i] \in S /\ Rank(R, S, list[i]) = i - 1
  BY <1>1, <1>2, <1>3
<1>5. ListedByRank(list, R, S)
  <2>1. list \in [1 .. n -> {pick(i) : i \in 1 .. n}]
    BY <1>2
  <2> QED
    BY <1>4, <2>1 DEF n, ListedByRank
<1>6. /\ list \in Seq(S) /\ Len(list) = n
      /\ \A i, j \in 1 .. n : i < j => <<list[i], list[j]>> \in R
      /\ \A e \in S : \E i \in 1 .. n : list[i] = e
  BY <1>1, <1>5, RankedList DEF n
<1>7. \A i \in 1 .. n : list[i] \in S
  <2>1. n \in Nat
    BY FS_CardinalityType DEF n
  <2> QED
    BY <1>6, <2>1
<1> QED
  BY <1>1, <1>6, <1>7 DEF n, list

-----------------------------------------------------------------------------
(* What the readers find in the tables.                                    *)

LEMMA EntriesOfAccount ==
  ASSUME EntriesOK, NEW a
  PROVE  /\ EntriesOf(a) \subseteq Entry /\ IsFiniteSet(EntriesOf(a))
         /\ Stamped(EntriesOf(a))
         /\ \A e \in EntriesOf(a) :
              e.id \in DOMAIN entries /\ entries[e.id] = e /\ e.account = a
         /\ \A j \in DOMAIN entries : entries[j].account = a => entries[j] \in EntriesOf(a)
<1> DEFINE places == {j \in DOMAIN entries : entries[j].account = a}
<1>1. EntriesOf(a) = {entries[j] : j \in places}
  BY DEF EntriesOf
<1>2. \A j \in DOMAIN entries : entries[j] \in Entry /\ entries[j].id = j
  BY DEF EntriesOK
<1>3. IsFiniteSet(places)
  <2>1. DOMAIN entries = 1 .. Len(entries) /\ Len(entries) \in Nat
    BY DEF EntriesOK
  <2>2. IsFiniteSet(1 .. Len(entries))
    BY <2>1, FS_Interval
  <2> QED
    BY <2>1, <2>2, FS_Subset
<1>4. IsFiniteSet(EntriesOf(a))
  BY <1>1, <1>3, ImageIsFinite
<1>5. \A e \in EntriesOf(a) :
        e \in Entry /\ e.id \in DOMAIN entries /\ entries[e.id] = e /\ e.account = a
  BY <1>1, <1>2
<1>6. Stamped(EntriesOf(a))
  BY <1>5 DEF Stamped, Entry
<1> QED
  BY <1>1, <1>4, <1>5, <1>6

(* What is made of an entry shows it, with the other leg's account.        *)
LEMMA MovementShows ==
  ASSUME PostedOK, EntriesOK, NEW a, NEW e \in EntriesOf(a)
  PROVE  /\ MovementOf(e) \in MovementRow
         /\ MovementOf(e).id = e.id /\ MovementOf(e).occurredAt = e.occurredAt
         /\ Shows(MovementOf(e), a)
<1>1. e \in Entry /\ e.id \in DOMAIN entries /\ entries[e.id] = e /\ e.account = a
  BY EntriesOfAccount
<1>2. PICK k \in DOMAIN entries \ {e.id}, t \in posted : LegsOfOne(e.id, k, t)
  BY <1>1 DEF EntriesOK
<1>3. t = CHOOSE u \in posted : u.id = e.transfer
  BY <1>1, <1>2 DEF LegsOfOne, PostedOK
<1>4. /\ t.source \in Account /\ t.destination \in Account /\ t.source # t.destination
  BY DEF PostedOK, Transfer
<1>5. MovementOf(e) =
        [id |-> e.id, occurredAt |-> e.occurredAt, direction |-> e.direction,
         amount |-> e.amount,
         counterparty |-> IF e.account = t.source THEN t.destination ELSE t.source]
  BY <1>3 DEF MovementOf
<1>6. MovementOf(e).counterparty = entries[k].account
  BY <1>1, <1>2, <1>4, <1>5 DEF LegsOfOne
<1>7. MovementOf(e) \in MovementRow
  BY <1>1, <1>4, <1>5 DEF MovementRow, Entry
<1>8. entries[k].transfer = e.transfer
  BY <1>1, <1>2 DEF LegsOfOne
<1> QED
  BY <1>1, <1>2, <1>5, <1>6, <1>7, <1>8 DEF Shows

(* A page lists what there is below its cursor, and where to go on.        *)
LEMMA PageLists ==
  ASSUME PostedOK, EntriesOK, NEW a \in UserAccount, NEW after \in Cursor \cup {None}
  PROVE  /\ Page(a, after) \in [items : Seq(MovementRow), next : Cursor \cup {None}]
         /\ Lists(Page(a, after).items, a, after, Page(a, after).next, Len(entries))
<1> DEFINE S == {e \in EntriesOf(a) : Below(e, after)}
           found == NewestFirst(S)
           n == Cardinality(S)
           size == Min({Len(found), PageSize})
           items == [i \in 1 .. size |-> MovementOf(found[i])]
           next == IF Len(found) > PageSize THEN CursorAfter(found[PageSize]) ELSE None
<1>1. /\ S \subseteq Entry /\ IsFiniteSet(S) /\ Stamped(S)
      /\ \A e \in S : /\ e \in EntriesOf(a) /\ Below(e, after)
                      /\ e.id \in DOMAIN entries /\ entries[e.id] = e
  BY EntriesOfAccount, FS_Subset DEF Stamped
<1>2. /\ found \in Seq(S) /\ Len(found) = n
      /\ \A i, j \in 1 .. n : i < j => Older(found[j], found[i])
      /\ \A e \in S : \E i \in 1 .. n : found[i] = e
  BY <1>1, NewestFirstLists
<1>3. n \in Nat /\ PageSize \in Nat /\ PageSize > 0
  BY <1>1, FS_CardinalityType, ScreenAssumption
<1>4. Page(a, after) = [items |-> items, next |-> next]
  BY DEF Page
<1> HIDE DEF S, found, n
<1>5. /\ size \in 0 .. n
      /\ n <= PageSize => size = n
      /\ n > PageSize => size = PageSize
  <2>1. {Len(found), PageSize} = {n, PageSize}
    BY <1>2
  <2> QED
    BY <1>3, <2>1 DEF Min
<1> HIDE DEF size
<1>6. \A i \in 1 .. n : found[i] \in S
  BY <1>2, <1>3
<1>7. /\ items \in Seq(MovementRow) /\ DOMAIN items = 1 .. size
      /\ \A i \in 1 .. size :
           /\ items[i] = MovementOf(found[i]) /\ found[i] \in S /\ i \in 1 .. n
           /\ items[i].id = found[i].id /\ items[i].occurredAt = found[i].occurredAt
           /\ Shows(items[i], a)
  <2>1. \A i \in 1 .. size : i \in 1 .. n /\ found[i] \in S /\ found[i] \in EntriesOf(a)
    BY <1>1, <1>3, <1>5, <1>6
  <2>2. \A i \in 1 .. size : /\ MovementOf(found[i]) \in MovementRow
                             /\ MovementOf(found[i]).id = found[i].id
                             /\ MovementOf(found[i]).occurredAt = found[i].occurredAt
                             /\ Shows(MovementOf(found[i]), a)
    BY <2>1, MovementShows
  <2>3. size \in Nat
    BY <1>3, <1>5
  <2> QED
    BY <2>1, <2>2, <2>3
<1>8. /\ n <= PageSize => next = None
      /\ n > PageSize => /\ next = CursorAfter(found[PageSize]) /\ next # None
                         /\ PageSize \in 1 .. n /\ found[PageSize] \in S
                         /\ next \in Cursor
                         /\ next.occurredAt = found[PageSize].occurredAt
                         /\ next.id = found[PageSize].id
  <2>1. n > PageSize => PageSize \in 1 .. n /\ found[PageSize] \in S
    BY <1>3, <1>6
  <2>2. n > PageSize => CursorAfter(found[PageSize]) \in Cursor
    BY <1>1, <2>1 DEF CursorAfter, Cursor, Entry
  <2> QED
    BY <1>2, <1>3, <2>1, <2>2, ScreenAssumption DEF CursorAfter
<1> HIDE DEF items, next
<1>9. \A i \in DOMAIN items : Below(items[i], after)
  BY <1>1, <1>7 DEF Below, Older
<1>10. \A i, j \in DOMAIN items : i < j => Older(items[j], items[i])
  BY <1>2, <1>7 DEF Older
<1>11. ASSUME next # None, NEW i \in DOMAIN items PROVE ~Older(items[i], next)
  <2>1. n > PageSize /\ size = PageSize
    BY <1>3, <1>5, <1>8, <1>11
  <2>2. i \in 1 .. PageSize /\ found[i] \in S /\ found[PageSize] \in S
    BY <1>7, <1>8, <2>1
  <2>3. ~Older(found[i], found[PageSize])
    <3>1. CASE i = PageSize
      BY <1>1, <2>2, <3>1, OlderIsStrict DEF Stamped
    <3>2. CASE i # PageSize
      <4>1. Older(found[PageSize], found[i])
        BY <1>2, <1>3, <1>8, <2>1, <2>2, <3>2
      <4> QED
        BY <1>1, <2>2, <4>1, OlderIsStrict DEF Stamped
    <3> QED
      BY <3>1, <3>2
  <2> QED
    BY <1>7, <1>8, <2>1, <2>3 DEF Older
<1>12. next # None => Below(next, after)
  BY <1>1, <1>3, <1>8 DEF Below, Older
<1>13. ASSUME NEW k \in 1 .. Len(entries), entries[k].account = a, Below(entries[k], after)
       PROVE  \/ \E i \in DOMAIN items : items[i].id = k
              \/ next # None /\ Older(entries[k], next)
  <2>1. entries[k] \in S /\ entries[k].id = k
    BY <1>13, EntriesOfAccount DEF EntriesOK, S
  <2>2. PICK i \in 1 .. n : found[i] = entries[k]
    BY <1>2, <2>1
  <2>3. CASE i <= size
    <3>1. i \in 1 .. size
      BY <1>3, <1>5, <2>3
    <3> QED
      BY <1>7, <2>1, <2>2, <3>1
  <2>4. CASE ~(i <= size)
    <3>1. n > PageSize /\ size = PageSize /\ PageSize < i
      BY <1>3, <1>5, <2>4
    <3>2. Older(found[i], found[PageSize])
      BY <1>2, <1>8, <3>1
    <3> QED
      BY <1>8, <2>2, <3>1, <3>2 DEF Older
  <2> QED
    BY <2>3, <2>4
<1>14. Len(entries) \in 0 .. Len(entries)
  BY DEF EntriesOK
<1>15. next \in Cursor \cup {None}
  BY <1>3, <1>8
<1> QED
  BY <1>4, <1>7, <1>9, <1>10, <1>11, <1>12, <1>13, <1>14, <1>15 DEF Lists

-----------------------------------------------------------------------------
(* A posting.                                                              *)

LEMMA PostEffect ==
  ASSUME PostedOK, Post
  PROVE  \E d \in Transfer, stamp \in Time :
           /\ d.amount > 0 /\ d.source # d.destination
           /\ d \notin posted /\ \A u \in posted : u.id # d.id
           /\ posted' = posted \cup {d}
           /\ balance' = [a \in UserAccount |-> balance[a] + Net(d, a)]
           /\ entries' = entries \o Legs(d, Cardinality(posted'), stamp)
<1>1. PICK p \in Attempt, q \in Requests : Move(p, q) \/ Reverse(p, q)
  <2>1. (CHOOSE p \in Unused : TRUE) \in Attempt
    BY DEF Post, Unused
  <2> QED
    BY <2>1 DEF Post
<1>2. \E d \in Transfer : d.amount > 0 /\ d.source # d.destination /\ Book(d)
  <2>1. CASE Move(p, q)
    <3>1. q \in TransferRequest
      BY <2>1, MovementsAssumption DEF Move, RevertRequest, CloseRequest
    <3>2. TransferDraft(p, q) \in Transfer
      BY <2>1, <3>1 DEF Move, TransferDraft, Transfer, TransferRequest, TransferId
    <3> QED
      BY <2>1, <3>2 DEF Move, TransferDraft
  <2>2. CASE Reverse(p, q)
    <3>1. q \in RevertRequest
      BY <2>2, MovementsAssumption DEF Reverse, TransferRequest, CloseRequest
    <3>2. PICK o \in posted : Book(ReversalDraft(p, q, o))
      BY <2>2 DEF Reverse
    <3>3. o \in Transfer /\ o.amount > 0 /\ o.source # o.destination
      BY DEF PostedOK
    <3>4. ReversalDraft(p, q, o) \in Transfer
      BY <3>1, <3>3 DEF ReversalDraft, Transfer, RevertRequest, TransferId
    <3>5. ReversalDraft(p, q, o).amount > 0
          /\ ReversalDraft(p, q, o).source # ReversalDraft(p, q, o).destination
      BY <3>3 DEF ReversalDraft
    <3> QED
      BY <3>2, <3>4, <3>5
  <2> QED
    BY <1>1, <2>1, <2>2
<1>3. PICK d \in Transfer : d.amount > 0 /\ d.source # d.destination /\ Book(d)
  BY <1>2
<1>4. /\ \A u \in posted : u.id # d.id
      /\ posted' = posted \cup {d}
      /\ balance' = [a \in UserAccount |-> balance[a] + Net(d, a)]
  BY <1>3 DEF Book
<1>5. PICK t \in posted' \ posted, stamp \in Time :
        entries' = entries \o Legs(t, Cardinality(posted'), stamp)
  BY DEF Post
<1>6. t = d
  BY <1>4, <1>5
<1> QED
  BY <1>3, <1>4, <1>5, <1>6

LEMMA Places ==
  ASSUME NEW S, NEW s \in Seq(S)
  PROVE  DOMAIN s = 1 .. Len(s) /\ Len(s) \in Nat
OBVIOUS

LEMMA AppendPair ==
  ASSUME NEW S, NEW s \in Seq(S), NEW x \in S, NEW y \in S
  PROVE  /\ s \o <<x, y>> \in Seq(S) /\ Len(s \o <<x, y>>) = Len(s) + 2
         /\ \A j \in 1 .. Len(s) : (s \o <<x, y>>)[j] = s[j]
         /\ (s \o <<x, y>>)[Len(s) + 1] = x /\ (s \o <<x, y>>)[Len(s) + 2] = y
<1>1. <<x, y>> \in Seq(S) /\ Len(<<x, y>>) = 2 /\ <<x, y>>[1] = x /\ <<x, y>>[2] = y
  OBVIOUS
<1> DEFINE t == <<x, y>>
<1> HIDE DEF t
<1>2. s \o t \in Seq(S) /\ Len(s \o t) = Len(s) + 2
  BY <1>1 DEF t
<1>3. \A j \in 1 .. Len(s) : (s \o t)[j] = s[j]
  BY <1>1 DEF t
<1>4. (s \o t)[Len(s) + 1] = t[1] /\ (s \o t)[Len(s) + 2] = t[2]
  BY <1>1 DEF t
<1> QED
  BY <1>1, <1>2, <1>3, <1>4 DEF t

(* The table grows by the legs of one new transfer.                        *)
LEMMA TableGrows ==
  ASSUME PostedOK, EntriesOK, NEW d \in Transfer, NEW stamp \in Time, d.amount > 0,
         d \notin posted, posted' = posted \cup {d},
         entries' = entries \o Legs(d, Cardinality(posted'), stamp)
  PROVE  LET n == Len(entries)
         IN /\ n \in Nat /\ Len(entries') = n + 2 /\ entries' \in Seq(Entry)
            /\ DOMAIN entries = 1 .. n /\ DOMAIN entries' = 1 .. (n + 2)
            /\ IsFiniteSet(posted') /\ n + 2 = 2 * Cardinality(posted')
            /\ \A j \in 1 .. n : entries'[j] = entries[j]
            /\ entries'[n + 1] = Leg(d, "DEBIT", n + 1, stamp)
            /\ entries'[n + 2] = Leg(d, "CREDIT", n + 2, stamp)
            /\ {Leg(d, "DEBIT", n + 1, stamp), Leg(d, "CREDIT", n + 2, stamp)} \subseteq Entry
<1> DEFINE n == Len(entries)
           c == Cardinality(posted)
<1>1. IsFiniteSet(posted') /\ Cardinality(posted') = c + 1 /\ c \in Nat
  BY FS_AddElement, FS_CardinalityType DEF PostedOK
<1>2. n = 2 * c /\ entries \in Seq(Entry) /\ n \in Nat
  BY DEF EntriesOK
<1>3. 2 * (c + 1) - 1 = n + 1 /\ 2 * (c + 1) = n + 2
  BY <1>1, <1>2
<1> HIDE DEF n, c
<1>4. Legs(d, Cardinality(posted'), stamp)
        = <<Leg(d, "DEBIT", n + 1, stamp), Leg(d, "CREDIT", n + 2, stamp)>>
  BY <1>1, <1>3 DEF Legs
<1>5. \A k \in Nat : \A direction \in {"DEBIT", "CREDIT"} :
        Leg(d, direction, k, stamp) \in Entry
  BY HistoryAssumption DEF Leg, Entry, Transfer
<1>6. {Leg(d, "DEBIT", n + 1, stamp), Leg(d, "CREDIT", n + 2, stamp)} \subseteq Entry
  BY <1>2, <1>5
<1> DEFINE x == Leg(d, "DEBIT", n + 1, stamp)
           y == Leg(d, "CREDIT", n + 2, stamp)
<1>7. entries' = entries \o <<x, y>> /\ x \in Entry /\ y \in Entry
  BY <1>4, <1>6
<1>8. n = Len(entries)
  BY DEF n
<1> HIDE DEF x, y
<1>9. /\ Len(entries') = n + 2 /\ entries' \in Seq(Entry)
      /\ \A j \in 1 .. n : entries'[j] = entries[j]
      /\ entries'[n + 1] = x /\ entries'[n + 2] = y
  <2> DEFINE longer == entries \o <<x, y>>
  <2>1. /\ longer \in Seq(Entry) /\ Len(longer) = Len(entries) + 2
        /\ \A j \in 1 .. Len(entries) : longer[j] = entries[j]
        /\ longer[Len(entries) + 1] = x /\ longer[Len(entries) + 2] = y
    BY <1>2, <1>7, AppendPair
  <2>2. entries' = longer
    BY <1>7
  <2> HIDE DEF longer
  <2> QED
    BY <1>8, <2>1, <2>2
<1>10. DOMAIN entries = 1 .. n /\ DOMAIN entries' = 1 .. (n + 2)
  BY <1>2, <1>8, <1>9, Places
<1> QED
  BY <1>1, <1>2, <1>3, <1>6, <1>9, <1>10 DEF x, y, n

(* What was in the table stays where it is.                                *)
Extended ==
  /\ Len(entries) <= Len(entries')
  /\ DOMAIN entries \subseteq DOMAIN entries'
  /\ \A j \in DOMAIN entries : entries'[j] = entries[j]

LEMMA PostKeepsEntries ==
  ASSUME PostedOK, EntriesOK, NEW d \in Transfer, NEW stamp \in Time, d.amount > 0,
         d \notin posted, posted' = posted \cup {d},
         entries' = entries \o Legs(d, Cardinality(posted'), stamp)
  PROVE  EntriesOK' /\ Extended
<1>0. PICK n \in Nat : n = Len(entries)
  BY TableGrows
<1> DEFINE x == Leg(d, "DEBIT", n + 1, stamp)
           y == Leg(d, "CREDIT", n + 2, stamp)
<1>1. /\ Len(entries') = n + 2 /\ entries' \in Seq(Entry)
      /\ n + 2 = 2 * Cardinality(posted')
  BY <1>0, TableGrows
<1>2. /\ DOMAIN entries = 1 .. n /\ DOMAIN entries' = 1 .. (n + 2)
      /\ \A j \in 1 .. n : entries'[j] = entries[j]
      /\ entries'[n + 1] = x /\ entries'[n + 2] = y
  BY <1>0, TableGrows
<1>4. /\ n \in Nat /\ 1 .. n \subseteq 1 .. (n + 2)
      /\ n + 1 \in 1 .. (n + 2) /\ n + 2 \in 1 .. (n + 2) /\ n + 1 # n + 2
      /\ \A j \in 1 .. (n + 2) : j \in 1 .. n \/ j = n + 1 \/ j = n + 2
  OBVIOUS
<1>3. /\ x.id = n + 1 /\ x.transfer = d.id /\ x.account = d.source
      /\ y.id = n + 2 /\ y.transfer = d.id /\ y.account = d.destination
  BY DEF Leg
<1> HIDE DEF x, y
<1>5. Extended
  <2>1. n <= n + 2
    BY <1>4
  <2> QED
    BY <1>0, <1>1, <1>2, <1>4, <2>1 DEF Extended
<1>6. ASSUME NEW j \in 1 .. (n + 2)
      PROVE  /\ entries'[j].id = j
             /\ \E k \in 1 .. (n + 2) : k # j /\ \E t \in posted' : LegsOfOne(j, k, t)'
  <2>1. CASE j \in 1 .. n
    <3>1. PICK k \in 1 .. n, t \in posted : k # j /\ LegsOfOne(j, k, t)
      BY <1>2, <2>1 DEF EntriesOK
    <3>2. k \in 1 .. (n + 2) /\ t \in posted' /\ LegsOfOne(j, k, t)'
      BY <1>4, <1>2, <2>1, <3>1 DEF LegsOfOne
    <3>3. entries'[j].id = j
      BY <1>2, <2>1 DEF EntriesOK
    <3> QED
      BY <3>1, <3>2, <3>3
  <2>2. CASE j \notin 1 .. n
    <3>1. j = n + 1 \/ j = n + 2
      BY <1>4, <2>2
    <3>2. LegsOfOne(n + 1, n + 2, d)' /\ LegsOfOne(n + 2, n + 1, d)'
      BY <1>2, <1>3 DEF LegsOfOne
    <3>3. d \in posted' /\ entries'[n + 1].id = n + 1 /\ entries'[n + 2].id = n + 2
      BY <1>2, <1>3
    <3> QED
      BY <1>4, <3>1, <3>2, <3>3
  <2> QED
    BY <2>1, <2>2
<1>7. EntriesOK'
  BY <1>1, <1>2, <1>6 DEF EntriesOK
<1> QED
  BY <1>5, <1>7

(* The new leg on an account, if there is one, adds what is booked on it.  *)
LEMMA PostKeepsBalances ==
  ASSUME PostedOK, EntriesOK, BalancesOK,
         NEW d \in Transfer, NEW stamp \in Time, d.amount > 0, d.source # d.destination,
         d \notin posted, posted' = posted \cup {d},
         balance' = [a \in UserAccount |-> balance[a] + Net(d, a)],
         entries' = entries \o Legs(d, Cardinality(posted'), stamp)
  PROVE  BalancesOK'
<1> DEFINE n == Len(entries)
           x == Leg(d, "DEBIT", n + 1, stamp)
           y == Leg(d, "CREDIT", n + 2, stamp)
<1>1. /\ n \in Nat /\ x \in Entry /\ y \in Entry
      /\ \A j \in 1 .. n : entries'[j] = entries[j]
      /\ entries'[n + 1] = x /\ entries'[n + 2] = y
  BY TableGrows
<1>2. DOMAIN entries = 1 .. n /\ DOMAIN entries' = 1 .. (n + 2)
  BY TableGrows
<1>3. /\ x.id = n + 1 /\ x.account = d.source /\ Signed(x) = -d.amount
      /\ y.id = n + 2 /\ y.account = d.destination /\ Signed(y) = d.amount
  BY DEF Leg, Signed
<1>4. d.amount \in Int
  BY DEF Transfer
<1> HIDE DEF n, x, y
<1>5. ASSUME NEW a \in UserAccount
      PROVE  /\ balance[a] + Net(d, a) \in Int
             /\ Total(EntriesOf(a)') = balance[a] + Net(d, a)
  <2> DEFINE S == EntriesOf(a)
  <2>1. S \subseteq Entry /\ IsFiniteSet(S) /\ \A e \in S : e.id \in 1 .. n
    BY <1>2, EntriesOfAccount
  <2>2. x \notin S /\ y \notin S
    BY <1>1, <1>3, <2>1
  <2>3. EntriesOf(a)' = S \cup {e \in {x, y} : e.account = a}
    <3>1. EntriesOf(a)' = {entries'[j] : j \in {i \in 1 .. (n + 2) : entries'[i].account = a}}
      BY <1>2 DEF EntriesOf
    <3>2. S = {entries'[j] : j \in {i \in 1 .. n : entries'[i].account = a}}
      BY <1>1, <1>2 DEF EntriesOf
    <3>3. 1 .. (n + 2) = (1 .. n) \cup {n + 1, n + 2}
      BY <1>1
    <3>4. \A j \in {n + 1, n + 2} : entries'[j] \in {x, y}
      BY <1>1
    <3>5. \A e \in {x, y} : \E j \in {n + 1, n + 2} : entries'[j] = e
      BY <1>1
    <3>6. ASSUME NEW e \in EntriesOf(a)' PROVE e \in S \cup {f \in {x, y} : f.account = a}
      BY <3>1, <3>2, <3>3, <3>4, <3>6
    <3>7. ASSUME NEW e \in S \cup {f \in {x, y} : f.account = a} PROVE e \in EntriesOf(a)'
      BY <3>1, <3>2, <3>3, <3>5, <3>7
    <3> QED
      BY <3>6, <3>7
  <2>4. Total(S) = balance[a] /\ balance[a] \in Int
    BY DEF BalancesOK
  <2> HIDE DEF S
  <2>5. CASE d.source = a
    <3>1. EntriesOf(a)' = S \cup {x}
      BY <1>3, <2>3, <2>5
    <3>2. Total(S \cup {x}) = Signed(x) + Total(S)
      BY <1>1, <2>1, <2>2, TotalAdd
    <3>3. Net(d, a) = -d.amount
      BY <1>4, <2>5 DEF Net
    <3> QED
      BY <1>3, <1>4, <2>4, <3>1, <3>2, <3>3
  <2>6. CASE d.destination = a
    <3>1. EntriesOf(a)' = S \cup {y}
      BY <1>3, <2>3, <2>6
    <3>2. Total(S \cup {y}) = Signed(y) + Total(S)
      BY <1>1, <2>1, <2>2, TotalAdd
    <3>3. Net(d, a) = d.amount
      BY <1>4, <2>6 DEF Net
    <3> QED
      BY <1>3, <1>4, <2>4, <3>1, <3>2, <3>3
  <2>7. CASE d.source # a /\ d.destination # a
    <3>1. EntriesOf(a)' = S
      BY <1>3, <2>3, <2>7
    <3>2. Net(d, a) = 0
      BY <2>7 DEF Net
    <3> QED
      BY <2>4, <3>1, <3>2
  <2> QED
    BY <2>5, <2>6, <2>7
<1> QED
  BY <1>5, Zenon DEF BalancesOK, Total

LEMMA PostKeepsHistory ==
  ASSUME HistoryInv, Post
  PROVE  HistoryInv' /\ Extended
<1>1. PICK d \in Transfer, stamp \in Time :
        /\ d.amount > 0 /\ d.source # d.destination
        /\ d \notin posted /\ \A u \in posted : u.id # d.id
        /\ posted' = posted \cup {d}
        /\ balance' = [a \in UserAccount |-> balance[a] + Net(d, a)]
        /\ entries' = entries \o Legs(d, Cardinality(posted'), stamp)
  BY PostEffect DEF HistoryInv
<1>2. PostedOK'
  <2>1. IsFiniteSet(posted')
    BY <1>1, FS_AddElement DEF HistoryInv, PostedOK
  <2> QED
    BY <1>1, <2>1 DEF HistoryInv, PostedOK
<1>3. EntriesOK' /\ Extended
  BY <1>1, PostKeepsEntries DEF HistoryInv
<1>4. BalancesOK'
  BY <1>1, PostKeepsBalances DEF HistoryInv
<1> QED
  BY <1>2, <1>3, <1>4 DEF HistoryInv

-----------------------------------------------------------------------------
(* The tables the readers start from.                                      *)

LEMMA OpeningDepositIs ==
  ASSUME NEW a \in Funded
  PROVE  /\ OpeningDeposit(a) \in Transfer
         /\ OpeningDeposit(a).id = a /\ OpeningDeposit(a).destination = a
         /\ OpeningDeposit(a).source \in SystemAccount
         /\ OpeningDeposit(a).source # a
         /\ OpeningDeposit(a).amount = Opening[a] /\ Opening[a] \in Nat /\ Opening[a] > 0
<1>1. OpeningSource(a) \in SystemAccount
  BY MovementsAssumption DEF OpeningSource, Funded
<1>2. a \in UserAccount /\ Opening[a] \in Nat /\ Opening[a] > 0
  BY MovementsAssumption, AccountAssumption DEF Funded
<1>3. CurrencyOf[a] \in Currency /\ Owner[a] \in Caller /\ a \in Key /\ a \in TransferId
  BY <1>2, MovementsAssumption, AccountAssumption DEF Account, TransferId
<1> QED
  BY <1>1, <1>2, <1>3, AccountAssumption DEF OpeningDeposit, Transfer, Account

LEMMA OpeningPosted ==
  ASSUME posted = OpeningDeposits
  PROVE  /\ IsFiniteSet(Funded) /\ PostedOK
         /\ Cardinality(posted) = Cardinality(Funded)
<1> DEFINE f == [a \in Funded |-> OpeningDeposit(a)]
<1>1. IsFiniteSet(Funded)
  BY AccountAssumption, FS_Subset DEF Funded
<1>2. posted = {f[a] : a \in Funded}
  BY DEF OpeningDeposits
<1>3. \A a \in Funded : f[a] = OpeningDeposit(a)
  OBVIOUS
<1>4. f \in Surjection(Funded, posted) /\ \A a, b \in Funded : f[a] = f[b] => a = b
  BY <1>2, OpeningDepositIs DEF Surjection
<1> HIDE DEF f
<1>5. IsFiniteSet(posted) /\ Cardinality(posted) = Cardinality(Funded)
  <2>1. f \in Injection(Funded, posted)
    BY <1>4 DEF Injection, IsInjective, Surjection
  <2> QED
    BY <1>1, <1>4, <2>1, FS_Surjection
<1>6. \A t \in posted :
        /\ t \in Transfer /\ t.amount > 0 /\ t.source # t.destination
        /\ t = OpeningDeposit(t.id)
  BY <1>2, <1>3, OpeningDepositIs
<1> QED
  BY <1>1, <1>5, <1>6 DEF PostedOK

(* They are numbered in the order of their accounts, each once.            *)
LEMMA FundedInOrder ==
  /\ Cardinality(Funded) \in Nat
  /\ \A i \in 1 .. Cardinality(Funded) :
       /\ NthFunded(i) \in Funded
       /\ \A j \in 1 .. Cardinality(Funded) : NthFunded(i) = NthFunded(j) => i = j
  /\ \A a \in Funded : \E i \in 1 .. Cardinality(Funded) : NthFunded(i) = a
<1> DEFINE n == Cardinality(Funded)
           R == {pair \in Funded \X Funded : pair[1] < pair[2]}
           upto(a) == {b \in Funded : b <= a}
<1>1. Funded \subseteq Nat /\ IsFiniteSet(Funded)
  BY AccountAssumption, FS_Subset DEF Funded
<1>2. n \in Nat
  BY <1>1, FS_CardinalityType
<1>3. StrictOrder(R, Funded)
  BY <1>1 DEF StrictOrder
<1>4. ASSUME NEW a \in Funded PROVE Cardinality(upto(a)) = Rank(R, Funded, a) + 1
  <2> DEFINE under == {b \in Funded : <<b, a>> \in R}
  <2>1. upto(a) = under \cup {a} /\ a \notin under
    <3>1. \A b \in Funded : <<b, a>> \in R <=> b < a
      OBVIOUS
    <3>2. \A b \in Funded : b <= a <=> b < a \/ b = a
      BY <1>1
    <3>3. a \in Nat /\ ~(a < a)
      BY <1>1
    <3>4. \A b \in Funded : b \in upto(a) <=> b <= a
      OBVIOUS
    <3>5. \A b \in Funded : b \in under <=> b < a
      BY <3>1
    <3>6. under \subseteq Funded /\ upto(a) \subseteq Funded
      OBVIOUS
    <3> HIDE DEF under, upto, R
    <3> QED
      BY <3>2, <3>3, <3>4, <3>5, <3>6
  <2>2. IsFiniteSet(under)
    BY <1>1, FS_Subset
  <2> HIDE DEF under, upto
  <2>3. Cardinality(under \cup {a}) = Cardinality(under) + 1
    BY <2>1, <2>2, FS_AddElement
  <2> QED
    BY <2>1, <2>3 DEF Rank, under
<1>5. /\ \A a \in Funded : Rank(R, Funded, a) \in 0 .. n - 1
      /\ \A a, b \in Funded : <<a, b>> \in R <=> Rank(R, Funded, a) < Rank(R, Funded, b)
      /\ \A k \in 0 .. n - 1 : \E a \in Funded : Rank(R, Funded, a) = k
  <2> HIDE DEF R
  <2>1. IsFiniteSet(Funded)
    BY <1>1
  <2> QED
    BY <1>3, <2>1, RanksNumber
<1>6. \A i : NthFunded(i) = CHOOSE a \in Funded : Cardinality(upto(a)) = i
  BY DEF NthFunded
<1> HIDE DEF R, n, upto
<1>7. ASSUME NEW i \in 1 .. n
      PROVE  NthFunded(i) \in Funded /\ Cardinality(upto(NthFunded(i))) = i
  <2>1. i - 1 \in 0 .. n - 1
    BY <1>2
  <2>2. PICK a \in Funded : Rank(R, Funded, a) = i - 1
    BY <1>5, <2>1
  <2>3. Cardinality(upto(a)) = i
    BY <1>2, <1>4, <2>2
  <2> QED
    BY <1>6, <2>3
<1>8. ASSUME NEW a \in Funded PROVE \E i \in 1 .. n : NthFunded(i) = a
  <2> DEFINE i == Rank(R, Funded, a) + 1
  <2>1. Rank(R, Funded, a) \in 0 .. n - 1
    BY <1>5
  <2>2. i \in 1 .. n
    BY <1>2, <2>1
  <2>3. NthFunded(i) \in Funded /\ Rank(R, Funded, NthFunded(i)) + 1 = i
    BY <1>4, <1>7, <2>2
  <2>4. Rank(R, Funded, NthFunded(i)) \in 0 .. n - 1
    BY <1>5, <2>3
  <2>5. ~(Rank(R, Funded, a) < Rank(R, Funded, NthFunded(i)))
        /\ ~(Rank(R, Funded, NthFunded(i)) < Rank(R, Funded, a))
    BY <1>2, <2>1, <2>3, <2>4
  <2>6. a = NthFunded(i)
    BY <1>3, <1>5, <2>3, <2>5 DEF StrictOrder
  <2> QED
    BY <2>2, <2>6
<1> QED
  BY <1>2, <1>7, <1>8 DEF n

LEMMA Halves ==
  ASSUME NEW n \in Nat, NEW j \in 1 .. 2 * n
  PROVE  /\ (j + 1) \div 2 \in 1 .. n
         /\ j % 2 = 1 => j = 2 * ((j + 1) \div 2) - 1 /\ j + 1 \in 1 .. 2 * n
                         /\ (j + 1) % 2 # 1 /\ (j + 2) \div 2 = (j + 1) \div 2
         /\ j % 2 # 1 => j = 2 * ((j + 1) \div 2) /\ j - 1 \in 1 .. 2 * n
                         /\ (j - 1) % 2 = 1 /\ j \div 2 = (j + 1) \div 2
OBVIOUS

(* The j-th entry is a leg of the deposit that j stands for.               *)
LEMMA OpeningEntries ==
  ASSUME HistoryInit
  PROVE  LET n == Cardinality(Funded)
         IN /\ DOMAIN entries = 1 .. 2 * n
            /\ \A j \in 1 .. 2 * n :
                 entries[j] = Leg(OpeningDeposit(NthFunded((j + 1) \div 2)),
                                  IF j % 2 = 1 THEN "DEBIT" ELSE "CREDIT", j, Min(Time))
<1> DEFINE n == Cardinality(Funded)
<1>1. /\ DOMAIN entries = 1 .. 2 * n
      /\ \A j \in 1 .. 2 * n :
           entries[j] = OpeningLegs((j + 1) \div 2)[IF j % 2 = 1 THEN 1 ELSE 2]
  BY DEF HistoryInit
<1>2. n \in Nat
  BY FundedInOrder
<1> HIDE DEF n
<1>3. ASSUME NEW j \in 1 .. 2 * n
      PROVE  entries[j] = Leg(OpeningDeposit(NthFunded((j + 1) \div 2)),
                              IF j % 2 = 1 THEN "DEBIT" ELSE "CREDIT", j, Min(Time))
  <2> DEFINE m == (j + 1) \div 2
             t == OpeningDeposit(NthFunded(m))
  <2>1. OpeningLegs(m) = <<Leg(t, "DEBIT", 2 * m - 1, Min(Time)),
                           Leg(t, "CREDIT", 2 * m, Min(Time))>>
    BY DEF OpeningLegs, Legs
  <2>2. entries[j] = OpeningLegs(m)[IF j % 2 = 1 THEN 1 ELSE 2]
    BY <1>1
  <2>3. /\ j % 2 = 1 => j = 2 * m - 1
        /\ j % 2 # 1 => j = 2 * m
    BY <1>2, Halves
  <2> HIDE DEF m, t
  <2>4. CASE j % 2 = 1
    BY <2>1, <2>2, <2>3, <2>4 DEF t, m
  <2>5. CASE j % 2 # 1
    BY <2>1, <2>2, <2>3, <2>5 DEF t, m
  <2> QED
    BY <2>4, <2>5
<1> QED
  BY <1>1, <1>3 DEF n

LEMMA OpeningEntriesOK ==
  ASSUME HistoryInit
  PROVE  EntriesOK
<1> DEFINE n == Cardinality(Funded)
           m(j) == (j + 1) \div 2
           t(j) == OpeningDeposit(NthFunded(m(j)))
           side(j) == IF j % 2 = 1 THEN "DEBIT" ELSE "CREDIT"
<1>1. posted = OpeningDeposits /\ n \in Nat /\ Cardinality(posted) = n
  BY OpeningPosted, FundedInOrder DEF HistoryInit, LedgerInit
<1>2. /\ DOMAIN entries = 1 .. 2 * n
      /\ \A j \in 1 .. 2 * n : entries[j] = Leg(t(j), side(j), j, Min(Time))
  BY OpeningEntries
<1>3. Min(Time) \in Nat
  <2>1. \E x \in Time : \A y \in Time : x <= y
    BY LeastOf, HistoryAssumption
  <2> QED
    BY <2>1, HistoryAssumption DEF Min
<1>4. \A j \in 1 .. 2 * n : NthFunded(m(j)) \in Funded
  BY <1>1, Halves, FundedInOrder
<1>5. \A j \in 1 .. 2 * n :
        /\ t(j) \in Transfer /\ t(j) \in posted /\ t(j).amount > 0
        /\ t(j).source # t(j).destination
  BY <1>1, <1>4, OpeningDepositIs DEF OpeningDeposits
<1>6. \A j \in 1 .. 2 * n :
        /\ entries[j].id = j /\ entries[j].transfer = t(j).id
        /\ entries[j].account = IF j % 2 = 1 THEN t(j).source ELSE t(j).destination
        /\ entries[j] \in Entry
  <2> SUFFICES ASSUME NEW j \in 1 .. 2 * n
               PROVE  /\ entries[j].id = j /\ entries[j].transfer = t(j).id
                      /\ entries[j].account =
                           IF j % 2 = 1 THEN t(j).source ELSE t(j).destination
                      /\ entries[j] \in Entry
    OBVIOUS
  <2>1. entries[j] = Leg(t(j), side(j), j, Min(Time)) /\ j \in Nat
    BY <1>1, <1>2
  <2>2. t(j) \in Transfer /\ t(j).amount > 0
    BY <1>5
  <2>3. side(j) \in {"DEBIT", "CREDIT"} /\ (side(j) = "DEBIT" <=> j % 2 = 1)
    OBVIOUS
  <2> HIDE DEF t, side
  <2> QED
    BY <1>3, <2>1, <2>2, <2>3 DEF Leg, Entry, Transfer
<1>7. ASSUME NEW j \in 1 .. 2 * n
      PROVE  \E k \in 1 .. 2 * n : k # j /\ \E u \in posted : LegsOfOne(j, k, u)
  <2>1. CASE j % 2 = 1
    <3>1. j + 1 \in 1 .. 2 * n /\ (j + 1) % 2 # 1 /\ m(j + 1) = m(j) /\ j + 1 # j
      <4>1. (j + 1) + 1 = j + 2
        BY <1>1
      <4> QED
        BY <1>1, <2>1, <4>1, Halves
    <3>2. t(j + 1) = t(j)
      BY <3>1
    <3> HIDE DEF t, m, side, n
    <3>3. LegsOfOne(j, j + 1, t(j))
      BY <1>6, <2>1, <3>1, <3>2 DEF LegsOfOne
    <3> QED
      BY <1>5, <3>1, <3>3
  <2>2. CASE j % 2 # 1
    <3>1. j - 1 \in 1 .. 2 * n /\ (j - 1) % 2 = 1 /\ m(j - 1) = m(j) /\ j - 1 # j
      <4>1. (j - 1) + 1 = j
        BY <1>1
      <4> QED
        BY <1>1, <2>2, <4>1, Halves
    <3>2. t(j - 1) = t(j)
      BY <3>1
    <3> HIDE DEF t, m, side, n
    <3>3. LegsOfOne(j, j - 1, t(j))
      BY <1>6, <2>2, <3>1, <3>2 DEF LegsOfOne
    <3> QED
      BY <1>5, <3>1, <3>3
  <2> QED
    BY <2>1, <2>2
<1>8. entries \in Seq(Entry) /\ Len(entries) = 2 * n
  <2>1. entries = [j \in 1 .. 2 * n |-> entries[j]]
    <3> DEFINE row(j) == OpeningLegs((j + 1) \div 2)[IF j % 2 = 1 THEN 1 ELSE 2]
    <3>1. entries = [j \in 1 .. 2 * n |-> row(j)]
      BY DEF HistoryInit
    <3> HIDE DEF row, n
    <3> QED
      BY <3>1
  <2>2. entries \in [1 .. 2 * n -> Entry]
    <3> HIDE DEF t, m, side, n
    <3> QED
      BY <1>6, <2>1
  <2>3. 2 * n \in Nat
    BY <1>1
  <2> HIDE DEF n
  <2> QED
    BY <2>2, <2>3
<1> HIDE DEF t, m, side
<1> QED
  BY <1>1, <1>2, <1>6, <1>7, <1>8 DEF EntriesOK

(* A deposit's account has its credit leg, and no account has another.     *)
LEMMA OpeningBalancesOK ==
  ASSUME HistoryInit, EntriesOK
  PROVE  BalancesOK
<1> DEFINE n == Cardinality(Funded)
           m(j) == (j + 1) \div 2
           t(j) == OpeningDeposit(NthFunded(m(j)))
           side(j) == IF j % 2 = 1 THEN "DEBIT" ELSE "CREDIT"
<1>1. n \in Nat /\ \A j \in 1 .. 2 * n : m(j) \in 1 .. n /\ NthFunded(m(j)) \in Funded
  BY FundedInOrder, Halves
<1>2. /\ DOMAIN entries = 1 .. 2 * n
      /\ \A j \in 1 .. 2 * n : entries[j] = Leg(t(j), side(j), j, Min(Time))
  BY OpeningEntries
<1>3. \A j \in 1 .. 2 * n : side(j) = IF j % 2 = 1 THEN "DEBIT" ELSE "CREDIT"
  OBVIOUS
<1>4. \A j \in 1 .. 2 * n : /\ t(j).source \in SystemAccount
                            /\ t(j).destination = NthFunded(m(j))
                            /\ t(j).amount = Opening[NthFunded(m(j))]
  BY <1>1, OpeningDepositIs
<1> HIDE DEF n, m, t, side
<1>5. \A j \in 1 .. 2 * n : entries[j].account \in UserAccount =>
        /\ j % 2 # 1 /\ entries[j].account = NthFunded(m(j))
        /\ entries[j].direction = "CREDIT" /\ entries[j].amount = Opening[NthFunded(m(j))]
  <2> SUFFICES ASSUME NEW j \in 1 .. 2 * n, entries[j].account \in UserAccount
               PROVE  /\ j % 2 # 1 /\ entries[j].account = NthFunded(m(j))
                      /\ entries[j].direction = "CREDIT"
                      /\ entries[j].amount = Opening[NthFunded(m(j))]
    OBVIOUS
  <2>1. entries[j] = Leg(t(j), side(j), j, Min(Time))
    BY <1>2
  <2>2. CASE j % 2 = 1
    <3>1. entries[j].account = t(j).source
      BY <1>3, <2>1, <2>2 DEF Leg
    <3> QED
      BY <1>4, <3>1, AccountAssumption
  <2>3. CASE j % 2 # 1
    <3>1. /\ entries[j].account = t(j).destination /\ entries[j].amount = t(j).amount
          /\ entries[j].direction = "CREDIT"
      BY <1>3, <2>1, <2>3 DEF Leg
    <3> QED
      BY <1>4, <2>3, <3>1
  <2> QED
    BY <2>2, <2>3
<1>6. balance = Opening /\ balance \in [UserAccount -> Nat]
  BY MovementsAssumption, AccountAssumption DEF HistoryInit, LedgerInit
<1>7. ASSUME NEW a \in UserAccount PROVE Total(EntriesOf(a)) = balance[a]
  <2>1. CASE a \in Funded
    <3>1. PICK i \in 1 .. n : NthFunded(i) = a
      BY <2>1, FundedInOrder DEF n
    <3> DEFINE k == 2 * i
               e == entries[k]
    <3>2. k \in 1 .. 2 * n /\ k % 2 # 1 /\ m(k) = i
      BY <1>1 DEF m
    <3>3. /\ e.account = a /\ e.direction = "CREDIT" /\ e.amount = Opening[a]
      BY <1>2, <1>3, <1>4, <3>1, <3>2 DEF Leg
    <3>4. e \in Entry /\ e \in EntriesOf(a)
      BY <1>2, <3>2, <3>3, EntriesOfAccount DEF EntriesOK
    <3>5. ASSUME NEW f \in EntriesOf(a) PROVE f = e
      <4>1. f.id \in 1 .. 2 * n /\ entries[f.id] = f /\ f.account = a
        BY <1>2, EntriesOfAccount
      <4>2. f.id % 2 # 1 /\ NthFunded(m(f.id)) = a /\ m(f.id) \in 1 .. n
        BY <1>1, <1>5, <4>1
      <4>3. m(f.id) = i
        BY <3>1, <4>2, FundedInOrder DEF n
      <4>4. f.id = 2 * m(f.id)
        BY <1>1, <4>1, <4>2, Halves DEF m
      <4> QED
        BY <4>1, <4>3, <4>4
    <3> HIDE DEF e, k
    <3>6. EntriesOf(a) = {} \cup {e}
      BY <3>4, <3>5
    <3>7. Total({} \cup {e}) = Signed(e) + Total({})
      BY <3>4, TotalAdd, FS_EmptySet
    <3>8. Signed(e) = Opening[a] /\ Opening[a] \in Int
      BY <1>6, <3>3 DEF Signed
    <3> QED
      BY <1>6, <3>6, <3>7, <3>8, TotalOfNone
  <2>2. CASE a \notin Funded
    <3>1. EntriesOf(a) = {}
      <4>1. ASSUME NEW f \in EntriesOf(a) PROVE FALSE
        <5>1. f.id \in 1 .. 2 * n /\ entries[f.id] = f /\ f.account = a
          BY <1>2, EntriesOfAccount
        <5> QED
          BY <1>1, <1>5, <2>2, <5>1
      <4> QED
        BY <4>1
    <3>2. Opening[a] = 0
      BY <1>6, <2>2 DEF Funded
    <3> QED
      BY <1>6, <3>1, <3>2, TotalOfNone
  <2> QED
    BY <2>1, <2>2
<1> QED
  BY <1>6, <1>7 DEF BalancesOK

LEMMA HistoryStarts ==
  ASSUME HistoryInit
  PROVE  HistoryInv
<1>1. PostedOK
  BY OpeningPosted DEF HistoryInit, LedgerInit
<1> QED
  BY <1>1, OpeningEntriesOK, OpeningBalancesOK DEF HistoryInv

LEMMA HistoryStays ==
  ASSUME HistoryInv, UNCHANGED historyVars
  PROVE  HistoryInv'
<1>1. /\ posted' = posted /\ entries' = entries /\ balance' = balance
  BY DEF historyVars
<1>2. PostedOK'
  BY <1>1 DEF HistoryInv, PostedOK
<1>3. EntriesOK'
  BY <1>1 DEF HistoryInv, EntriesOK, LegsOfOne
<1>4. \A a : EntriesOf(a)' = EntriesOf(a)
  BY <1>1 DEF EntriesOf
<1>5. BalancesOK'
  BY <1>1, <1>4, Zenon DEF HistoryInv, BalancesOK, Total
<1> QED
  BY <1>2, <1>3, <1>5 DEF HistoryInv

-----------------------------------------------------------------------------
(* Lists: what they say of the table, and how they grow.                   *)

LEMMA ListedRowsStamped ==
  ASSUME EntriesOK, NEW list, NEW a, NEW after, NEW next, NEW n,
         Lists(list, a, after, next, n), NEW i \in DOMAIN list
  PROVE  list[i].occurredAt \in Nat /\ list[i].id \in Nat
<1>1. Shows(list[i], a)
  BY DEF Lists
<1>2. list[i].id \in DOMAIN entries /\ list[i].occurredAt = entries[list[i].id].occurredAt
  BY <1>1 DEF Shows
<1>3. \A j \in DOMAIN entries : entries[j] \in Entry /\ j \in Nat
  BY DEF EntriesOK
<1> QED
  BY <1>2, <1>3 DEF Entry

(* What a list says stays true when the table grows.                       *)
LEMMA ListsStay ==
  ASSUME EntriesOK, EntriesOK', Extended,
         NEW list, NEW a, NEW after, NEW next, NEW n,
         Lists(list, a, after, next, n)
  PROVE  Lists(list, a, after, next, n)'
<1>1. /\ \A j \in DOMAIN entries : j \in DOMAIN entries' /\ entries'[j] = entries[j]
      /\ Len(entries) <= Len(entries')
  BY DEF Extended
<1>2. /\ Len(entries) \in Nat /\ Len(entries') \in Nat
      /\ DOMAIN entries = 1 .. Len(entries)
  <2>1. entries \in Seq(Entry) /\ entries' \in Seq(Entry)
    BY DEF EntriesOK
  <2> QED
    BY <2>1, Places
<1>3. n \in 0 .. Len(entries) /\ n \in 0 .. Len(entries')
  BY <1>1, <1>2 DEF Lists
<1>4. \A m : Shows(m, a) => Shows(m, a)'
  BY <1>1 DEF Shows
<1>5. \A k \in 1 .. n : k \in DOMAIN entries /\ entries'[k] = entries[k]
  BY <1>1, <1>2, <1>3
<1>6. \A i \in DOMAIN list :
        Shows(list[i], a)' /\ Below(list[i], after) /\ (next # None => ~Older(list[i], next))
  BY <1>4 DEF Lists
<1>7. \A k \in 1 .. n :
        entries'[k].account = a /\ Below(entries'[k], after) =>
          \/ \E i \in DOMAIN list : list[i].id = k
          \/ next # None /\ Older(entries'[k], next)
  BY <1>5 DEF Lists
<1> QED
  BY <1>3, <1>6, <1>7 DEF Lists, Below, Older

LEMMA Joined ==
  ASSUME NEW S, NEW s \in Seq(S), NEW t \in Seq(S)
  PROVE  /\ s \o t \in Seq(S)
         /\ DOMAIN s = 1 .. Len(s) /\ Len(s) \in Nat /\ DOMAIN t = 1 .. Len(t)
         /\ \A i \in DOMAIN s : i \in DOMAIN (s \o t) /\ (s \o t)[i] = s[i]
         /\ \A i \in DOMAIN t : Len(s) + i \in DOMAIN (s \o t) /\ (s \o t)[Len(s) + i] = t[i]
         /\ \A i \in DOMAIN (s \o t) :
              i \in DOMAIN s \/ \E j \in DOMAIN t : i = Len(s) + j
<1>1. /\ Len(s) \in Nat /\ Len(t) \in Nat /\ s \o t \in Seq(S)
      /\ Len(s \o t) = Len(s) + Len(t)
      /\ DOMAIN s = 1 .. Len(s) /\ DOMAIN t = 1 .. Len(t)
      /\ DOMAIN (s \o t) = 1 .. Len(s) + Len(t)
  OBVIOUS
<1>2. \A i \in 1 .. Len(s) + Len(t) :
        (s \o t)[i] = IF i <= Len(s) THEN s[i] ELSE t[i - Len(s)]
  OBVIOUS
<1> DEFINE n == Len(s)
           k == Len(t)
           u == s \o t
<1> HIDE DEF n, k, u
<1>3. \A i \in 1 .. n : i \in 1 .. n + k /\ u[i] = s[i]
  BY <1>1, <1>2 DEF n, k, u
<1>4. \A i \in 1 .. k : n + i \in 1 .. n + k /\ u[n + i] = t[i]
  <2> SUFFICES ASSUME NEW i \in 1 .. k PROVE n + i \in 1 .. n + k /\ u[n + i] = t[i]
    OBVIOUS
  <2>1. n + i \in 1 .. n + k /\ ~(n + i <= n) /\ (n + i) - n = i
    BY <1>1 DEF n, k
  <2> QED
    BY <1>2, <2>1 DEF n, k, u
<1>5. \A i \in 1 .. n + k : i \in 1 .. n \/ \E j \in 1 .. k : i = n + j
  <2> SUFFICES ASSUME NEW i \in 1 .. n + k, i \notin 1 .. n
               PROVE  \E j \in 1 .. k : i = n + j
    OBVIOUS
  <2>1. i - n \in 1 .. k /\ i = n + (i - n)
    BY <1>1 DEF n, k
  <2> QED
    BY <2>1
<1> QED
  BY <1>1, <1>3, <1>4, <1>5 DEF n, k, u

(* A page put below the rows it was asked for.                             *)
LEMMA ListsJoin ==
  ASSUME EntriesOK, NEW a, NEW cur \in Cursor, NEW next \in Cursor \cup {None},
         NEW list \in Seq(MovementRow), NEW items \in Seq(MovementRow),
         NEW n, NEW m, n <= m,
         Lists(list, a, None, cur, n), Lists(items, a, cur, next, m)
  PROVE  Lists(list \o items, a, None, next, n)
<1> DEFINE all == list \o items
<1>1. /\ cur # None /\ cur.occurredAt \in Nat /\ cur.id \in Nat
      /\ next # None => next.occurredAt \in Nat /\ next.id \in Nat
  BY ScreenAssumption DEF Cursor
<1>2. /\ Len(list) \in Nat /\ DOMAIN list = 1 .. Len(list) /\ DOMAIN items = 1 .. Len(items)
      /\ \A i \in DOMAIN list : i \in DOMAIN all /\ all[i] = list[i]
      /\ \A i \in DOMAIN items : Len(list) + i \in DOMAIN all /\ all[Len(list) + i] = items[i]
      /\ \A i \in DOMAIN all : i \in DOMAIN list \/ \E j \in DOMAIN items : i = Len(list) + j
  BY Joined
<1> HIDE DEF all
<1>3. /\ \A i \in DOMAIN list : list[i].occurredAt \in Nat /\ list[i].id \in Nat
      /\ \A i \in DOMAIN items : items[i].occurredAt \in Nat /\ items[i].id \in Nat
  BY ListedRowsStamped
<1>4. /\ n \in 0 .. Len(entries) /\ m \in 0 .. Len(entries)
      /\ \A i \in DOMAIN list : Shows(list[i], a) /\ ~Older(list[i], cur)
      /\ \A i \in DOMAIN items : /\ Shows(items[i], a) /\ Older(items[i], cur)
                                 /\ next # None => ~Older(items[i], next)
      /\ next # None => Older(next, cur)
  BY <1>1 DEF Lists, Below
<1>5. ASSUME NEW i \in DOMAIN all
      PROVE  Shows(all[i], a) /\ (next # None => ~Older(all[i], next))
  <2>1. CASE i \in DOMAIN list
    <3>1. all[i] = list[i] /\ Shows(list[i], a) /\ ~Older(list[i], cur)
      BY <1>2, <1>4, <2>1
    <3>2. next # None => ~Older(list[i], next)
      BY <1>1, <1>3, <1>4, <2>1, <3>1, OlderIsStrict
    <3> QED
      BY <3>1, <3>2
  <2>2. CASE i \notin DOMAIN list
    <3>1. PICK j \in DOMAIN items : i = Len(list) + j
      BY <1>2, <2>2
    <3> QED
      BY <1>2, <1>4, <3>1
  <2> QED
    BY <2>1, <2>2
<1>6. ASSUME NEW i \in DOMAIN all, NEW j \in DOMAIN all, i < j
      PROVE  Older(all[j], all[i])
  <2>1. CASE j \in DOMAIN list
    <3>1. i \in DOMAIN list
      <4>1. ASSUME NEW h \in DOMAIN items, i = Len(list) + h PROVE FALSE
        BY <1>2, <1>6, <2>1, <4>1
      <4> QED
        BY <1>2, <4>1
    <3> QED
      BY <1>2, <1>6, <2>1, <3>1 DEF Lists
  <2>2. CASE j \notin DOMAIN list
    <3>1. PICK k \in DOMAIN items : j = Len(list) + k
      BY <1>2, <2>2
    <3>2. CASE i \in DOMAIN list
      <4>1. Older(items[k], cur) /\ ~Older(list[i], cur)
        BY <1>4, <3>2
      <4>2. Older(items[k], list[i])
        BY <1>1, <1>3, <3>2, <4>1, OlderIsStrict
      <4> QED
        BY <1>2, <3>1, <3>2, <4>2
    <3>3. CASE i \notin DOMAIN list
      <4>1. PICK h \in DOMAIN items : i = Len(list) + h
        BY <1>2, <3>3
      <4>2. h < k
        BY <1>2, <1>6, <3>1, <4>1
      <4>3. Older(items[k], items[h])
        BY <4>2 DEF Lists
      <4> QED
        BY <1>2, <3>1, <4>1, <4>3
    <3> QED
      BY <3>2, <3>3
  <2> QED
    BY <2>1, <2>2
<1>7. ASSUME NEW k \in 1 .. n, entries[k].account = a
      PROVE  \/ \E i \in DOMAIN all : all[i].id = k
             \/ next # None /\ Older(entries[k], next)
  <2>1. CASE \E i \in DOMAIN list : list[i].id = k
    BY <1>2, <2>1
  <2>2. CASE Older(entries[k], cur)
    <3>1. k \in 1 .. m
      BY <1>4
    <3>2. Below(entries[k], cur)
      BY <2>2 DEF Below
    <3>3. \/ \E i \in DOMAIN items : items[i].id = k
          \/ next # None /\ Older(entries[k], next)
      BY <1>7, <3>1, <3>2 DEF Lists
    <3> QED
      BY <1>2, <3>3
  <2>3. Below(entries[k], None)
    BY DEF Below
  <2>4. (\E i \in DOMAIN list : list[i].id = k) \/ Older(entries[k], cur)
    BY <1>7, <2>3 DEF Lists
  <2> QED
    BY <2>1, <2>2, <2>4
<1> QED
  BY <1>4, <1>5, <1>6, <1>7 DEF Lists, Below, all

-----------------------------------------------------------------------------
(* The screen.                                                             *)

(* A screen that shows lists, and calls whose answers are.                 *)
ScreenOK ==
  /\ selected \in UserAccount \cup {None}
  /\ rows \in Seq(MovementRow)
  /\ cursor \in Cursor \cup {None}
  /\ {loading, error} \subseteq BOOLEAN
  /\ calls \in [Slot -> CallRecord \cup {None}]
  /\ loads \in 0 .. MaxLoads
  /\ \A s \in Slot : calls[s] # None => CallOK(calls[s])
  /\ StatementOK

LEMMA ScreenParts ==
  HistoryInv => (ScreenInv <=> ScreenOK)
<1> SUFFICES ASSUME HistoryInv PROVE ScreenInv <=> ScreenOK
  OBVIOUS
<1>1. entries \in Seq(Entry)
  BY DEF HistoryInv, EntriesOK
<1>2. \A i, j \in DOMAIN entries : entries[i].id = entries[j].id => i = j
  BY DEF HistoryInv, EntriesOK
<1>3. \A a \in UserAccount : MapThenSumSet(Signed, EntriesOf(a)) = balance[a]
  BY Zenon DEF HistoryInv, BalancesOK, Total
<1> QED
  BY <1>1, <1>2, <1>3, Zenon DEF ScreenInv, ScreenOK, TypeOK

LEMMA ScreenStarts ==
  ASSUME ScreenInit
  PROVE  ScreenOK
<1>1. calls \in [Slot -> CallRecord \cup {None}] /\ \A s \in Slot : calls[s] = None
  BY DEF ScreenInit
<1>2. loads \in 0 .. MaxLoads
  BY ScreenAssumption DEF ScreenInit
<1>3. /\ selected \in UserAccount \cup {None} /\ cursor \in Cursor \cup {None}
      /\ {loading, error} \subseteq BOOLEAN
  BY DEF ScreenInit
<1>5. rows \in Seq(MovementRow)
  <2>1. rows = <<>>
    BY DEF ScreenInit
  <2> QED
    BY <2>1
<1>4. StatementOK
  BY DEF ScreenInit, StatementOK
<1> QED
  BY <1>1, <1>2, <1>3, <1>4, <1>5 DEF ScreenOK

(* Whatever is posted, the answers and the rows list what they listed.     *)
LEMMA PostKeepsScreen ==
  ASSUME HistoryInv, HistoryInv', Extended, ScreenOK, UNCHANGED screenVars
  PROVE  ScreenOK'
<1>1. EntriesOK /\ EntriesOK'
  BY DEF HistoryInv
<1>2. /\ selected' = selected /\ rows' = rows /\ cursor' = cursor /\ loading' = loading
      /\ error' = error /\ calls' = calls /\ loads' = loads /\ statement' = statement
  BY DEF screenVars
<1>3. \A list, a, after, next, n :
        Lists(list, a, after, next, n) => Lists(list, a, after, next, n)'
  BY <1>1, ListsStay
<1>4. \A s \in Slot : calls'[s] # None => CallOK(calls[s])'
  <2> SUFFICES ASSUME NEW s \in Slot, calls[s] # None PROVE CallOK(calls[s])'
    BY <1>2
  <2>1. PICK c : c = calls[s]
    OBVIOUS
  <2>2. CallOK(c)
    BY <2>1 DEF ScreenOK
  <2>3. CallOK(c)'
    BY <1>3, <2>2 DEF CallOK
  <2> QED
    BY <1>2, <2>1, <2>3
<1>5. StatementOK'
  <2>1. PICK r, c, z : r = rows /\ c = cursor /\ z = statement
    OBVIOUS
  <2>2. CASE z = NothingLoaded
    BY <1>2, <2>1, <2>2 DEF StatementOK, NothingLoaded
  <2>3. CASE z # NothingLoaded
    <3>1. z.account \in UserAccount /\ Lists(r, z.account, None, c, z.from)
      BY <2>1, <2>3 DEF ScreenOK, StatementOK
    <3>2. Lists(r, z.account, None, c, z.from)'
      BY <1>3, <3>1
    <3> QED
      BY <1>2, <2>1, <3>1, <3>2 DEF StatementOK
  <2> QED
    BY <2>2, <2>3
<1> QED
  BY <1>2, <1>4, <1>5 DEF ScreenOK

LEMMA ListsUnchanged ==
  ASSUME entries' = entries, NEW list, NEW a, NEW after, NEW next, NEW n
  PROVE  Lists(list, a, after, next, n)' <=> Lists(list, a, after, next, n)
BY DEF Lists, Shows

LEMMA CallUnchanged ==
  ASSUME entries' = entries, NEW c
  PROVE  CallOK(c)' <=> CallOK(c)
BY ListsUnchanged DEF CallOK

(* A call of the least free slot is one that has no answer yet.            *)
LEMMA AskAsks ==
  ASSUME ScreenOK, entries' = entries, FreeSlots # {},
         NEW a \in UserAccount, NEW after \in Cursor \cup {None}, NEW first \in BOOLEAN,
         first <=> after = None, Ask(a, after, first)
  PROVE  /\ calls' \in [Slot -> CallRecord \cup {None}]
         /\ \A s \in Slot : calls'[s] # None => CallOK(calls[s])'
<1> DEFINE s0 == Min(FreeSlots)
           c0 == [account |-> a, after |-> after, first |-> first, page |-> None, from |-> 0]
<1>1. s0 \in Slot
  <2>1. FreeSlots \subseteq Nat /\ FreeSlots \subseteq Slot
    BY ScreenAssumption DEF FreeSlots
  <2>2. \E s \in FreeSlots : \A t \in FreeSlots : s <= t
    BY <2>1, LeastOf
  <2> QED
    BY <2>1, <2>2 DEF Min
<1>2. c0 \in CallRecord /\ CallOK(c0)
  BY DEF CallRecord, CallOK
<1>3. calls' = [calls EXCEPT ![s0] = c0]
  BY DEF Ask
<1> HIDE DEF s0, c0
<1>4. /\ calls' \in [Slot -> CallRecord \cup {None}]
      /\ \A s \in Slot : calls'[s] = calls[s] \/ calls'[s] = c0
  BY <1>1, <1>2, <1>3 DEF ScreenOK
<1>5. \A s \in Slot : calls'[s] # None => CallOK(calls'[s])
  BY <1>2, <1>4 DEF ScreenOK
<1>6. \A c : CallOK(c) => CallOK(c)'
  BY CallUnchanged
<1>7. \A s \in Slot : calls'[s] # None => CallOK(calls[s])'
  <2> SUFFICES ASSUME NEW s \in Slot, calls'[s] # None PROVE CallOK(calls[s])'
    OBVIOUS
  <2>1. PICK c : c = calls'[s]
    OBVIOUS
  <2> QED
    BY <1>5, <1>6, <2>1
<1> QED
  BY <1>4, <1>7

LEMMA LoadKeepsScreen ==
  ASSUME ScreenOK, entries' = entries, NEW a \in UserAccount \cup {None}, LoadFirstPage(a)
  PROVE  ScreenOK'
<1>1. /\ selected' = a /\ rows' = <<>> /\ cursor' = None /\ error' = FALSE
      /\ statement' = NothingLoaded
  BY DEF LoadFirstPage
<1>2. StatementOK'
  BY <1>1 DEF StatementOK, NothingLoaded
<1>3. rows' \in Seq(MovementRow)
  BY <1>1
<1>4. CASE a = None
  <2>1. loading' = loading /\ calls' = calls /\ loads' = loads
    BY <1>4 DEF LoadFirstPage
  <2>2. \A s \in Slot : calls'[s] # None => CallOK(calls[s])'
    <3> SUFFICES ASSUME NEW s \in Slot, calls[s] # None PROVE CallOK(calls[s])'
      BY <2>1
    <3>1. PICK c : c = calls[s]
      OBVIOUS
    <3> QED
      BY <2>1, <3>1, CallUnchanged DEF ScreenOK
  <2> QED
    BY <1>1, <1>2, <1>3, <2>1, <2>2 DEF ScreenOK
<1>5. CASE a # None
  <2>1. /\ FreeSlots # {} /\ loads < MaxLoads /\ loads' = loads + 1 /\ loading' = TRUE
        /\ Ask(a, None, TRUE)
    BY <1>5 DEF LoadFirstPage
  <2>2. /\ calls' \in [Slot -> CallRecord \cup {None}]
        /\ \A s \in Slot : calls'[s] # None => CallOK(calls[s])'
    BY <1>5, <2>1, AskAsks
  <2>3. loads' \in 0 .. MaxLoads
    BY <2>1, ScreenAssumption DEF ScreenOK
  <2> QED
    BY <1>1, <1>2, <1>3, <2>1, <2>2, <2>3 DEF ScreenOK
<1> QED
  BY <1>4, <1>5

LEMMA MoreKeepsScreen ==
  ASSUME ScreenOK, LoadMore
  PROVE  ScreenOK'
<1>1. /\ entries' = entries /\ selected' = selected /\ rows' = rows /\ cursor' = cursor
      /\ error' = error /\ loads' = loads /\ statement' = statement /\ loading' = TRUE
      /\ selected # None /\ cursor # None /\ FreeSlots # {} /\ Ask(selected, cursor, FALSE)
  BY DEF LoadMore, historyVars
<1>2. selected \in UserAccount /\ cursor \in Cursor \cup {None}
  BY <1>1 DEF ScreenOK
<1>3. PICK a, after : a = selected /\ after = cursor
  OBVIOUS
<1>4. /\ calls' \in [Slot -> CallRecord \cup {None}]
      /\ \A s \in Slot : calls'[s] # None => CallOK(calls[s])'
  <2>1. a \in UserAccount /\ after \in Cursor \cup {None} /\ after # None
        /\ Ask(a, after, FALSE)
    BY <1>1, <1>2, <1>3
  <2> QED
    BY <1>1, <2>1, AskAsks
<1>5. StatementOK'
  BY <1>1, ListsUnchanged DEF ScreenOK, StatementOK, NothingLoaded
<1> QED
  BY <1>1, <1>4, <1>5 DEF ScreenOK

LEMMA CallsFall ==
  ASSUME ScreenOK, entries' = entries,
         NEW S, calls' = [s \in Slot |-> IF s \in S THEN None ELSE calls[s]]
  PROVE  /\ calls' \in [Slot -> CallRecord \cup {None}]
         /\ \A s \in Slot : calls'[s] # None => CallOK(calls[s])'
<1>1. \A s \in Slot : calls'[s] = None \/ calls'[s] = calls[s]
  OBVIOUS
<1>2. calls' \in [Slot -> CallRecord \cup {None}]
  BY DEF ScreenOK
<1>3. ASSUME NEW s \in Slot, calls'[s] # None PROVE CallOK(calls[s])'
  <2>1. PICK c : c = calls'[s]
    OBVIOUS
  <2>2. CallOK(c)
    BY <1>1, <1>3, <2>1 DEF ScreenOK
  <2> QED
    BY <2>1, <2>2, CallUnchanged
<1> QED
  BY <1>2, <1>3

LEMMA ServeKeepsScreen ==
  ASSUME HistoryInv, ScreenOK, NEW s \in Slot, Serve(s)
  PROVE  ScreenOK'
<1>1. /\ entries' = entries /\ selected' = selected /\ rows' = rows /\ cursor' = cursor
      /\ error' = error /\ loads' = loads /\ statement' = statement /\ loading' = loading
      /\ calls[s] # None
      /\ calls' = [calls EXCEPT ![s].page = Page(calls[s].account, calls[s].after),
                                ![s].from = Len(entries)]
  BY DEF Serve, historyVars
<1>2. PICK c : c = calls[s]
  OBVIOUS
<1>3. c \in CallRecord /\ CallOK(c)
  BY <1>1, <1>2 DEF ScreenOK
<1>4. c.account \in UserAccount /\ c.after \in Cursor \cup {None}
  BY <1>3 DEF CallRecord
<1> DEFINE page == Page(c.account, c.after)
           answered == [c EXCEPT !.page = page, !.from = Len(entries)]
<1>5. /\ page \in [items : Seq(MovementRow), next : Cursor \cup {None}]
      /\ Lists(page.items, c.account, c.after, page.next, Len(entries))
      /\ Len(entries) \in Nat
  BY <1>4, PageLists DEF HistoryInv, EntriesOK
<1>6. calls' = [calls EXCEPT ![s] = answered]
  BY <1>1, <1>2
<1> HIDE DEF page
<1>7. answered \in CallRecord /\ CallOK(answered)
  <2>1. answered \in CallRecord
    BY <1>3, <1>5 DEF CallRecord
  <2>2. /\ answered.account = c.account /\ answered.after = c.after
        /\ answered.first = c.first /\ answered.page = page /\ answered.from = Len(entries)
    BY <1>3 DEF CallRecord
  <2> HIDE DEF answered
  <2> QED
    BY <1>3, <1>5, <2>1, <2>2 DEF CallOK
<1>8. /\ calls' \in [Slot -> CallRecord \cup {None}]
      /\ \A z \in Slot : calls'[z] = answered \/ calls'[z] = calls[z]
  <2> HIDE DEF answered
  <2> QED
    BY <1>6, <1>7 DEF ScreenOK
<1> HIDE DEF answered
<1>9. ASSUME NEW z \in Slot, calls'[z] # None PROVE CallOK(calls[z])'
  <2>1. PICK d : d = calls'[z]
    OBVIOUS
  <2>2. CallOK(d)
    BY <1>7, <1>8, <1>9, <2>1 DEF ScreenOK
  <2> QED
    BY <1>1, <2>1, <2>2, CallUnchanged
<1>10. StatementOK'
  BY <1>1, ListsUnchanged DEF ScreenOK, StatementOK, NothingLoaded
<1> QED
  BY <1>1, <1>8, <1>9, <1>10 DEF ScreenOK

LEMMA DeliverKeepsScreen ==
  ASSUME HistoryInv, ScreenOK, NEW s \in Slot, Deliver(s)
  PROVE  ScreenOK'
<1>1. PICK c, r, cur, z : c = calls[s] /\ r = rows /\ cur = cursor /\ z = statement
  OBVIOUS
<1>2. /\ entries' = entries /\ selected' = selected /\ error' = error /\ loads' = loads
      /\ loading' = FALSE
      /\ c # None /\ c.page # None
      /\ rows' = (IF c.first THEN <<>> ELSE r) \o c.page.items
      /\ cursor' = c.page.next
      /\ statement' =
           IF c.first /\ c.account = selected THEN [account |-> c.account, from |-> c.from]
           ELSE IF c.first \/ c.account # z.account \/ c.after # cur \/ c.from < z.from
           THEN NothingLoaded ELSE z
      /\ calls' = [calls EXCEPT ![s] = None]
  BY <1>1 DEF Deliver, historyVars
<1>3. c \in CallRecord /\ CallOK(c)
  BY <1>1, <1>2 DEF ScreenOK
<1>4. PICK items, next : items = c.page.items /\ next = c.page.next
  OBVIOUS
<1>5. /\ items \in Seq(MovementRow) /\ next \in Cursor \cup {None}
      /\ c.account \in UserAccount /\ c.after \in Cursor \cup {None} /\ c.from \in Nat
      /\ c.first <=> c.after = None
      /\ Lists(items, c.account, c.after, next, c.from)
  BY <1>2, <1>3, <1>4 DEF CallRecord, CallOK
<1>6. r \in Seq(MovementRow)
  BY <1>1 DEF ScreenOK
<1>7. /\ c.first => rows' = items
      /\ ~c.first => rows' = r \o items
      /\ rows' \in Seq(MovementRow)
  <2>1. <<>> \o items = items /\ r \o items \in Seq(MovementRow)
    BY <1>5, <1>6
  <2> QED
    BY <1>2, <1>4, <1>5, <2>1
<1>8. StatementOK'
  <2>1. CASE c.first /\ c.account = selected
    <3>1. statement' = [account |-> c.account, from |-> c.from]
      BY <1>2, <2>1
    <3>2. Lists(items, c.account, None, next, c.from)'
      BY <1>2, <1>5, <2>1, ListsUnchanged
    <3> QED
      BY <1>2, <1>4, <1>5, <1>7, <2>1, <3>1, <3>2 DEF StatementOK
  <2>2. CASE ~c.first /\ c.account = z.account /\ c.after = cur /\ ~(c.from < z.from)
             /\ z # NothingLoaded
    <3>1. /\ z.account \in UserAccount
          /\ Lists(r, z.account, None, cur, z.from)
      BY <1>1, <2>2 DEF ScreenOK, StatementOK
    <3>2. z.from \in Nat /\ z.from <= c.from
      <4>1. z.from \in 0 .. Len(entries)
        BY <3>1 DEF Lists
      <4> QED
        BY <1>5, <2>2, <4>1
    <3>3. cur \in Cursor /\ Lists(items, z.account, cur, next, c.from)
      BY <1>5, <2>2
    <3>4. Lists(r \o items, z.account, None, next, z.from)
      BY <1>5, <1>6, <3>1, <3>2, <3>3, ListsJoin DEF HistoryInv
    <3>5. Lists(r \o items, z.account, None, next, z.from)'
      BY <1>2, <3>4, ListsUnchanged
    <3>6. statement' = z
      BY <1>2, <2>2
    <3> QED
      BY <1>2, <1>4, <1>7, <2>2, <3>1, <3>5, <3>6 DEF StatementOK
  <2>3. CASE statement' = NothingLoaded
    BY <2>3 DEF StatementOK, NothingLoaded
  <2> QED
    BY <1>2, <2>1, <2>2, <2>3
<1>9. calls' = [t \in Slot |-> IF t \in {s} THEN None ELSE calls[t]]
  BY <1>2 DEF ScreenOK
<1>10. /\ calls' \in [Slot -> CallRecord \cup {None}]
       /\ \A t \in Slot : calls'[t] # None => CallOK(calls[t])'
  BY <1>2, <1>9, CallsFall
<1> QED
  BY <1>2, <1>4, <1>5, <1>7, <1>8, <1>10 DEF ScreenOK

LEMMA FailKeepsScreen ==
  ASSUME ScreenOK, NEW s \in Slot, Fail(s)
  PROVE  ScreenOK'
<1>1. /\ entries' = entries /\ selected' = selected /\ rows' = rows /\ cursor' = cursor
      /\ loads' = loads /\ statement' = statement /\ loading' = FALSE
      /\ error' \in {TRUE, error} /\ calls' = [calls EXCEPT ![s] = None]
  BY DEF Fail, historyVars
<1>2. calls' = [t \in Slot |-> IF t \in {s} THEN None ELSE calls[t]]
  BY <1>1 DEF ScreenOK
<1>3. /\ calls' \in [Slot -> CallRecord \cup {None}]
      /\ \A t \in Slot : calls'[t] # None => CallOK(calls[t])'
  BY <1>1, <1>2, CallsFall
<1>4. StatementOK'
  BY <1>1, ListsUnchanged DEF ScreenOK, StatementOK, NothingLoaded
<1> QED
  BY <1>1, <1>3, <1>4 DEF ScreenOK

LEMMA LeaveKeepsScreen ==
  ASSUME ScreenOK, Leave
  PROVE  ScreenOK'
<1>1. /\ entries' = entries /\ selected' = None /\ rows' = <<>> /\ cursor' = None
      /\ loads' = loads /\ statement' = NothingLoaded /\ loading' = FALSE /\ error' = FALSE
      /\ calls' = [s \in Slot |-> None]
  BY DEF Leave, historyVars
<1>2. calls' \in [Slot -> CallRecord \cup {None}] /\ \A s \in Slot : calls'[s] = None
  BY <1>1
<1>3. StatementOK'
  BY <1>1 DEF StatementOK, NothingLoaded
<1>4. rows' \in Seq(MovementRow)
  BY <1>1
<1> QED
  BY <1>1, <1>2, <1>3, <1>4 DEF ScreenOK

LEMMA ScreenKeepsScreen ==
  ASSUME HistoryInv, ScreenOK, Screen
  PROVE  ScreenOK' /\ UNCHANGED historyVars
<1>1. CASE Pick
  <2>1. UNCHANGED historyVars /\ entries' = entries
    BY <1>1 DEF Pick, historyVars
  <2>2. PICK a \in ListAccounts(Viewer) \cup {None} : LoadFirstPage(a)
    BY <1>1 DEF Pick
  <2>3. a \in UserAccount \cup {None}
    BY DEF ListAccounts
  <2> QED
    BY <2>1, <2>2, <2>3, LoadKeepsScreen
<1>2. CASE Retry
  <2>1. UNCHANGED historyVars /\ entries' = entries
    BY <1>2 DEF Retry, historyVars
  <2>2. PICK a : a = selected
    OBVIOUS
  <2>3. a \in UserAccount \cup {None} /\ LoadFirstPage(a)
    BY <1>2, <2>2 DEF Retry, ScreenOK
  <2> QED
    BY <2>1, <2>3, LoadKeepsScreen
<1>3. CASE LoadMore
  BY <1>3, MoreKeepsScreen DEF LoadMore
<1>4. CASE Leave
  BY <1>4, LeaveKeepsScreen DEF Leave
<1>5. CASE \E s \in Slot : Serve(s) \/ Deliver(s) \/ Fail(s)
  <2>1. PICK s \in Slot : Serve(s) \/ Deliver(s) \/ Fail(s)
    BY <1>5
  <2>2. UNCHANGED historyVars
    BY <2>1 DEF Serve, Deliver, Fail
  <2> QED
    BY <2>1, <2>2, ServeKeepsScreen, DeliverKeepsScreen, FailKeepsScreen
<1> QED
  BY <1>1, <1>2, <1>3, <1>4, <1>5 DEF Screen

-----------------------------------------------------------------------------
(* The invariant of the readers.                                           *)

(* Whatever is posted, asked, answered, lost or left, in any order: every  *)
(* balance is the sum of its account's rows, every answer on its way lists *)
(* what was there when it was read, and the rows of a statement list what  *)
(* was there when its first page was.                                      *)
THEOREM ReadsAreFaithful == Spec => []ReadsInductive
<1>1. Init => ReadsInductive
  BY HistoryStarts, ScreenStarts, ScreenParts DEF Init, ReadsInductive
<1>2. ReadsInductive /\ [Next]_vars => ReadsInductive'
  <2> SUFFICES ASSUME ReadsInductive, [Next]_vars PROVE ReadsInductive'
    OBVIOUS
  <2>1. HistoryInv /\ ScreenOK
    BY ScreenParts DEF ReadsInductive
  <2>2. HistoryInv' => (ScreenInv' <=> ScreenOK')
    BY ScreenParts, PTL
  <2>3. CASE PostMeanwhile
    <3>1. Post /\ UNCHANGED screenVars
      BY <2>3 DEF PostMeanwhile
    <3> QED
      BY <2>1, <2>2, <3>1, PostKeepsHistory, PostKeepsScreen DEF ReadsInductive
  <2>4. CASE Screen
    BY <2>1, <2>2, <2>4, ScreenKeepsScreen, HistoryStays DEF ReadsInductive
  <2>5. CASE UNCHANGED vars
    <3>1. UNCHANGED historyVars /\ UNCHANGED screenVars
      BY <2>5 DEF vars, historyVars, screenVars
    <3>2. HistoryInv'
      BY <2>1, <3>1, HistoryStays
    <3>3. Extended
      <4>1. entries' = entries /\ Len(entries) \in Nat
        BY <2>1, <3>1 DEF historyVars, HistoryInv, EntriesOK
      <4> QED
        BY <4>1 DEF Extended
    <3> QED
      BY <2>1, <2>2, <3>1, <3>2, <3>3, PostKeepsScreen DEF ReadsInductive
  <2> QED
    BY <2>3, <2>4, <2>5 DEF Next
<1> QED
  BY <1>1, <1>2, PTL DEF Spec

(* What the readers read is a ledger that keeps the service's promise:     *)
(* every step of theirs posts one transfer as Ledger does, or leaves the   *)
(* ledger as it was.                                                       *)
THEOREM ReadersReadTheLedger == Spec => LedgerSpec
<1>1. Init => LedgerInit
  BY DEF Init, HistoryInit
<1>2. [Next]_vars => [LedgerNext]_ledgerVars
  <2> SUFFICES ASSUME [Next]_vars PROVE [LedgerNext]_ledgerVars
    OBVIOUS
  <2>1. CASE PostMeanwhile
    <3>1. PICK p \in Attempt, q \in Requests : Move(p, q) \/ Reverse(p, q)
      BY <2>1 DEF PostMeanwhile, Post, Unused
    <3> QED
      BY <3>1 DEF LedgerNext
  <2>2. CASE Screen
    BY <2>2 DEF Screen, Pick, Retry, LoadMore, Serve, Deliver, Fail, Leave, historyVars, ledgerVars
  <2>3. CASE UNCHANGED vars
    BY <2>3 DEF vars, ledgerVars
  <2> QED
    BY <2>1, <2>2, <2>3 DEF Next
<1> QED
  BY <1>1, <1>2, PTL DEF Spec, LedgerSpec

(* Every variable of the reader holds what it can, an id names one entry,  *)
(* and the entries of an account add up to its balance, however many       *)
(* postings and readers there are.                                         *)
THEOREM MovementHistoryTypeCorrect == Spec => []TypeOK
<1>1. ReadsInductive => TypeOK
  BY DEF ReadsInductive, ScreenInv
<1> QED
  BY <1>1, ReadsAreFaithful, PTL

(* The rows of a statement stand newest first and none is listed twice,    *)
(* for any page size and whatever is posted between two pages, also with   *)
(* an earlier stamp than what has been read.                               *)
THEOREM StatementsAreOrdered == Spec => []NewestFirstOnce
<1>1. ReadsInductive => NewestFirstOnce
  BY DEF ReadsInductive, ScreenInv, StatementOK, Lists, NewestFirstOnce
<1> QED
  BY <1>1, ReadsAreFaithful, PTL

(* Nothing that was there when the first page was read is ever skipped: it *)
(* is listed under its own id with the account of its other leg, or is     *)
(* still below the cursor.                                                 *)
THEOREM StatementsAreComplete == Spec => []NothingSkipped
<1>1. ASSUME ReadsInductive, statement # NothingLoaded, NEW k \in 1 .. statement.from,
             entries[k].account = statement.account
      PROVE  Listed(entries[k]) \/ (cursor # None /\ Older(entries[k], cursor))
  <2>1. Lists(rows, statement.account, None, cursor, statement.from)
    BY <1>1 DEF ReadsInductive, ScreenInv, StatementOK
  <2>2. /\ DOMAIN entries = 1 .. Len(entries) /\ Len(entries) \in Nat
        /\ \A j \in DOMAIN entries : entries[j].id = j
    BY <1>1, Places DEF ReadsInductive, HistoryInv, EntriesOK
  <2>3. k \in DOMAIN entries
    BY <2>1, <2>2 DEF Lists
  <2>4. CASE \E i \in DOMAIN rows : rows[i].id = k
    <3>1. PICK i \in DOMAIN rows : rows[i].id = k
      BY <2>4
    <3>2. Shows(rows[i], statement.account)
      BY <2>1 DEF Lists
    <3>3. PICK j \in DOMAIN entries \ {k} :
            entries[j].transfer = entries[k].transfer
            /\ entries[j].account = rows[i].counterparty
      BY <3>1, <3>2 DEF Shows
    <3> QED
      BY <2>2, <2>3, <3>1, <3>3 DEF Listed
  <2>5. Below(entries[k], None)
    BY DEF Below
  <2> QED
    BY <1>1, <2>1, <2>4, <2>5 DEF Lists
<1>2. ReadsInductive => NothingSkipped
  BY <1>1 DEF NothingSkipped
<1> QED
  BY <1>2, ReadsAreFaithful, PTL

-----------------------------------------------------------------------------
(* The collections report: the window functions.                           *)

(* Of some entries of one account there is an oldest and a newest.         *)
LEMMA OldestAndNewest ==
  ASSUME NEW S, IsFiniteSet(S), Stamped(S), S # {}
  PROVE  /\ \E e \in S : \A f \in S : ~Older(f, e)
         /\ \E e \in S : \A f \in S : ~Older(e, f)
<1> DEFINE R == NewerIn(S)
<1>1. StrictOrder(R, S) /\ \A e, f \in S : <<f, e>> \in R <=> Older(e, f)
  BY NewerOrders
<1> HIDE DEF R
<1>2. /\ \E e \in S : \A f \in S : <<f, e>> \notin R
      /\ \E e \in S : \A f \in S : <<e, f>> \notin R
  BY <1>1, FirstAndLast
<1> QED
  BY <1>1, <1>2

Earlier(e, a) == {f \in EntriesOf(a) : Older(f, e)}

LEMMA RunningBalances ==
  ASSUME EntriesOK, NEW a, NEW e \in EntriesOf(a)
  PROVE  /\ RunningBalance(e) = Total({f \in EntriesOf(a) : ~Older(e, f)})
         /\ PreviousBalance(e) = Total(Earlier(e, a))
         /\ RunningBalance(e) = PreviousBalance(e) + Signed(e)
         /\ RunningBalance(e) \in Int /\ PreviousBalance(e) \in Int
         /\ Earlier(e, a) = {} => PreviousBalance(e) = 0
         /\ \A p \in Earlier(e, a) :
              (\A f \in Earlier(e, a) : ~Older(p, f)) => PreviousBalance(e) = RunningBalance(p)
<1> DEFINE E == EntriesOf(a)
           before == Earlier(e, a)
           upto(f) == {g \in E : ~Older(f, g)}
<1>1. E \subseteq Entry /\ IsFiniteSet(E) /\ Stamped(E) /\ \A f \in E : f.account = a
  BY EntriesOfAccount
<1>2. \A f, g, h \in E : \A x \in {f, g, h} : x.occurredAt \in Nat /\ x.id \in Nat
  BY <1>1 DEF Stamped
<1>3. ASSUME NEW f \in E PROVE RunningBalance(f) = Total(upto(f))
  <2>1. f.account = a
    BY <1>1
  <2> QED
    BY <2>1, Zenon DEF RunningBalance, Total
<1>4. /\ before \subseteq E /\ IsFiniteSet(before) /\ e \notin before
      /\ \A f \in E : f \in before <=> Older(f, e)
  <2>1. ~Older(e, e)
    BY <1>2, OlderIsStrict
  <2> QED
    BY <1>1, <2>1, FS_Subset DEF Earlier
<1>5. PreviousBalance(e) =
        IF before = {} THEN 0
        ELSE RunningBalance(CHOOSE f \in before : \A g \in before : ~Older(f, g))
  <2>1. e.account = a
    BY <1>1
  <2>2. Earlier(e, e.account) = before
    BY <2>1
  <2>3. PreviousBalance(e) =
          IF Earlier(e, e.account) = {} THEN 0
          ELSE RunningBalance(CHOOSE f \in Earlier(e, e.account) :
                                \A g \in Earlier(e, e.account) : ~Older(f, g))
    BY Zenon DEF PreviousBalance, Earlier
  <2> QED
    BY <2>2, <2>3
<1> HIDE DEF before, E
<1>6. ASSUME NEW p \in before, \A f \in before : ~Older(p, f)
      PROVE  upto(p) = before
  <2>1. \A f \in before : f \in upto(p)
    BY <1>4, <1>6
  <2>2. ASSUME NEW f \in upto(p) PROVE f \in before
    <3>1. f \in E /\ ~Older(p, f) /\ p \in E /\ Older(p, e) /\ e \in E
      BY <1>4 DEF E
    <3> QED
      BY <1>2, <1>4, <3>1, OlderIsStrict
  <2> QED
    BY <2>1, <2>2
<1>7. ASSUME before # {}
      PROVE  \E p \in before : \A f \in before : ~Older(p, f)
  <2>1. Stamped(before)
    BY <1>1, <1>4 DEF Stamped
  <2> QED
    BY <1>4, <1>7, <2>1, OldestAndNewest
<1>8. PreviousBalance(e) = Total(before)
  <2>1. CASE before = {}
    BY <1>5, <2>1, TotalOfNone
  <2>2. CASE before # {}
    <3> DEFINE p == CHOOSE f \in before : \A g \in before : ~Older(f, g)
    <3>1. p \in before /\ \A f \in before : ~Older(p, f)
      BY <1>7, <2>2
    <3>2. PreviousBalance(e) = RunningBalance(p)
      BY <1>5, <2>2
    <3> HIDE DEF p
    <3> QED
      BY <1>3, <1>4, <1>6, <3>1, <3>2
  <2> QED
    BY <2>1, <2>2
<1>9. upto(e) = before \cup {e}
  <2>1. ASSUME NEW f \in E PROVE f \in upto(e) <=> f \in before \cup {e}
    <3>1. e \in E
      BY DEF E
    <3>2. ~Older(e, e) /\ (Older(f, e) => ~Older(e, f))
          /\ (f.id # e.id => Older(f, e) \/ Older(e, f))
      BY <1>2, <3>1, OlderIsStrict
    <3>3. f.id = e.id => f = e
      BY <1>1, <3>1 DEF Stamped
    <3>4. f \in before <=> Older(f, e)
      BY <1>4
    <3>5. f \in upto(e) <=> ~Older(e, f)
      OBVIOUS
    <3> QED
      BY <3>2, <3>3, <3>4, <3>5
  <2> QED
    BY <1>4, <2>1 DEF E
<1>10. Total(before \cup {e}) = Signed(e) + Total(before)
       /\ Signed(e) \in Int /\ Total(before) \in Int
  <2>1. before \subseteq Entry /\ e \in Entry
    BY <1>1, <1>4 DEF E
  <2> QED
    BY <1>4, <2>1, TotalAdd, TotalType, SignedType
<1>11. RunningBalance(e) = Total(upto(e))
  BY <1>3 DEF E
<1>12. RunningBalance(e) = PreviousBalance(e) + Signed(e)
       /\ RunningBalance(e) \in Int /\ PreviousBalance(e) \in Int
  <2> HIDE DEF upto
  <2> QED
    BY <1>8, <1>9, <1>10, <1>11
<1>13. before = {} => PreviousBalance(e) = 0
  BY <1>5
<1>14. ASSUME NEW p \in before, \A f \in before : ~Older(p, f)
       PROVE  PreviousBalance(e) = RunningBalance(p)
  BY <1>3, <1>4, <1>6, <1>8, <1>14
<1> QED
  BY <1>8, <1>11, <1>12, <1>13, <1>14 DEF before, E

(* A negative account has an entry since which it has been negative; it    *)
(* starts an episode, and none that starts one is newer.                   *)
LEMMA LastStart ==
  ASSUME HistoryInv, NEW a \in NegativeUserAccounts
  PROVE  \E s \in EpisodeStarts(a) :
           /\ \A e \in EpisodeStarts(a) : ~Older(s, e)
           /\ \A e \in EntriesOf(a) : ~Older(e, s) => RunningBalance(e) < 0
<1> DEFINE E == EntriesOf(a)
           T == {e \in E : \A f \in E : ~Older(f, e) => RunningBalance(f) < 0}
<1>1. EntriesOK /\ E \subseteq Entry /\ IsFiniteSet(E) /\ Stamped(E)
  BY EntriesOfAccount DEF HistoryInv
<1>2. \A f, g, h \in E : \A x \in {f, g, h} : x.occurredAt \in Nat /\ x.id \in Nat
  BY <1>1 DEF Stamped
<1>3. \A e, f \in E : /\ ~Older(e, e) /\ (Older(e, f) => ~Older(f, e))
                      /\ e = f \/ Older(e, f) \/ Older(f, e)
  <2>1. \A e, f \in E : /\ ~Older(e, e) /\ (Older(e, f) => ~Older(f, e))
                        /\ e.id # f.id => Older(e, f) \/ Older(f, e)
    BY <1>2, OlderIsStrict
  <2>2. \A e, f \in E : e.id = f.id => e = f
    BY <1>1 DEF Stamped
  <2> QED
    BY <2>1, <2>2
<1>4. Total(E) = balance[a] /\ balance[a] < 0
  BY DEF HistoryInv, BalancesOK, NegativeUserAccounts
<1>5. E # {}
  BY <1>4, TotalOfNone
<1>6. PICK l \in E : \A f \in E : ~Older(l, f)
  BY <1>1, <1>5, OldestAndNewest
<1>7. RunningBalance(l) < 0
  <2>1. {f \in E : ~Older(l, f)} = E
    BY <1>6
  <2>2. RunningBalance(l) = Total({f \in E : ~Older(l, f)})
    BY <1>1, RunningBalances
  <2> QED
    BY <1>4, <2>1, <2>2
<1>8. l \in T
  <2>1. ASSUME NEW f \in E, ~Older(f, l) PROVE f = l
    BY <1>3, <1>6, <2>1
  <2> QED
    BY <1>7, <2>1
<1>9. PICK s \in T : \A f \in T : ~Older(f, s)
  <2>1. IsFiniteSet(T) /\ Stamped(T)
    BY <1>1, FS_Subset DEF Stamped
  <2> HIDE DEF T
  <2> QED
    BY <1>8, <2>1, OldestAndNewest
<1>10. s \in E /\ \A f \in E : ~Older(f, s) => RunningBalance(f) < 0
  OBVIOUS
<1>11. \A f \in E : (\A g \in E : ~Older(g, f) => RunningBalance(g) < 0) => ~Older(f, s)
  BY <1>9
<1>12. ASSUME NEW e \in E, Earlier(e, a) # {}
       PROVE  \E p \in E : /\ Older(p, e) /\ PreviousBalance(e) = RunningBalance(p)
                           /\ \A f \in E : Older(f, e) => ~Older(p, f)
  <2>1. Earlier(e, a) \subseteq E /\ \A f \in E : f \in Earlier(e, a) <=> Older(f, e)
    BY DEF Earlier
  <2>2. IsFiniteSet(Earlier(e, a)) /\ Stamped(Earlier(e, a))
    BY <1>1, <2>1, FS_Subset DEF Stamped
  <2>3. PICK p \in Earlier(e, a) : \A f \in Earlier(e, a) : ~Older(p, f)
    BY <1>12, <2>2, OldestAndNewest
  <2>4. PreviousBalance(e) = RunningBalance(p)
    BY <1>1, <2>3, RunningBalances
  <2> QED
    BY <2>1, <2>3, <2>4
<1>13. \A e \in E : /\ RunningBalance(e) \in Int /\ PreviousBalance(e) \in Int
                    /\ Earlier(e, a) = {} => PreviousBalance(e) = 0
  BY <1>1, RunningBalances
<1>14. EpisodeStarts(a) = {e \in E : RunningBalance(e) < 0 /\ PreviousBalance(e) >= 0}
  BY DEF EpisodeStarts
<1>15. \A e \in E : Earlier(e, a) = {f \in E : Older(f, e)}
  BY DEF Earlier
<1> HIDE DEF E, T
<1>16. PreviousBalance(s) >= 0
  <2>1. CASE Earlier(s, a) = {}
    BY <1>10, <1>13, <2>1
  <2>2. CASE Earlier(s, a) # {}
    <3>1. PICK p \in E : /\ Older(p, s) /\ PreviousBalance(s) = RunningBalance(p)
                         /\ \A f \in E : Older(f, s) => ~Older(p, f)
      BY <1>10, <1>12, <2>2
    <3>2. SUFFICES ASSUME RunningBalance(p) < 0 PROVE FALSE
      BY <1>13, <3>1
    <3>3. ASSUME NEW f \in E, ~Older(f, p) PROVE RunningBalance(f) < 0
      BY <1>3, <1>10, <3>1, <3>2, <3>3
    <3> QED
      BY <1>11, <3>1, <3>3
  <2> QED
    BY <2>1, <2>2
<1>17. s \in EpisodeStarts(a)
  BY <1>3, <1>10, <1>14, <1>16
<1>18. ASSUME NEW e \in EpisodeStarts(a), Older(s, e) PROVE FALSE
  <2>1. e \in E /\ PreviousBalance(e) >= 0
    BY <1>14
  <2>2. Earlier(e, a) # {}
    BY <1>10, <1>15, <1>18, <2>1
  <2>3. PICK p \in E : /\ Older(p, e) /\ PreviousBalance(e) = RunningBalance(p)
                       /\ \A f \in E : Older(f, e) => ~Older(p, f)
    BY <1>12, <2>1, <2>2
  <2>4. RunningBalance(p) < 0
    BY <1>10, <1>18, <2>3
  <2> QED
    BY <1>13, <2>1, <2>3, <2>4
<1> QED
  BY <1>10, <1>17, <1>18 DEF E

(* The rows of a among the first n.                                        *)
FirstOf(a, n) == {f \in EntriesOf(a) : f.id <= n}

(* What CommittedBalance adds up, row by row.                              *)
Change(a, i) == IF entries[i].account = a THEN Signed(entries[i]) ELSE 0

LEMMA CommittedIsSum ==
  ASSUME NEW a, NEW n \in Nat, NEW g, \A i \in 1 .. n : g[i] = Change(a, i)
  PROVE  CommittedBalance(a, n) = SumOver(g, 1 .. n)
<1> DEFINE S == 1 .. n
           Goes(iter) == iter = [s \in SUBSET S |->
                                   IF s = {} THEN 0
                                   ELSE Change(a, Some(s)) + iter[s \ {Some(s)}]]
<1>1. CommittedBalance(a, n) = (CHOOSE iter : Goes(iter))[S]
  BY Zenon DEF CommittedBalance, MapThenSumSet, MapThenFoldSet, Some, Change
<1>2. IsFiniteSet(S)
  BY FS_Interval
<1>3. \A iter : Goes(iter) <=> SumsUp(g, S, iter)
  <2>1. \A s \in SUBSET S : s # {} => g[Some(s)] = Change(a, Some(s))
    BY DEF Some
  <2> QED
    BY <2>1 DEF SumsUp
<1> HIDE DEF S
<1>4. \E iter : Goes(iter)
  BY <1>2, <1>3, SumsUpExists
<1> DEFINE chosen == CHOOSE iter : Goes(iter)
<1>5. SumsUp(g, S, chosen)
  BY <1>3, <1>4
<1> HIDE DEF chosen
<1>6. SumOver(g, S) = chosen[S]
  BY <1>2, <1>5, SumIs
<1> QED
  BY <1>1, <1>6 DEF chosen, S

(* The balance after the first n commits is the sum of the account's rows  *)
(* among them.                                                             *)
LEMMA CommittedBalances ==
  ASSUME EntriesOK, NEW a, NEW n \in 0 .. Len(entries)
  PROVE  CommittedBalance(a, n) = Total(FirstOf(a, n))
<1> DEFINE E == EntriesOf(a)
           g == [i \in DOMAIN entries |-> Change(a, i)]
           N == {m \in Nat : m <= Len(entries) => SumOver(g, 1 .. m) = Total(FirstOf(a, m))}
<1>1. /\ E \subseteq Entry /\ IsFiniteSet(E)
      /\ \A e \in E : e.id \in DOMAIN entries /\ entries[e.id] = e /\ e.account = a
      /\ \A j \in DOMAIN entries : entries[j].account = a => entries[j] \in E
  BY EntriesOfAccount
<1>2. /\ DOMAIN entries = 1 .. Len(entries) /\ Len(entries) \in Nat
      /\ \A j \in DOMAIN entries : entries[j].id = j /\ entries[j] \in Entry
  BY Places DEF EntriesOK
<1>3. \A i \in DOMAIN entries : g[i] = Change(a, i) /\ g[i] \in Int
  BY <1>2, SignedType DEF Change
<1>4. \A m : FirstOf(a, m) = {f \in E : f.id <= m}
  BY DEF FirstOf
<1> HIDE DEF E, g
<1>5. 0 \in N
  <2>1. 1 .. 0 = {} /\ FirstOf(a, 0) = {}
    BY <1>1, <1>2, <1>4
  <2> QED
    BY <2>1, SumOfNone, TotalOfNone
<1>6. ASSUME NEW m \in Nat, m \in N PROVE m + 1 \in N
  <2> SUFFICES ASSUME m + 1 <= Len(entries)
               PROVE  SumOver(g, 1 .. (m + 1)) = Total(FirstOf(a, m + 1))
    OBVIOUS
  <2>1. SumOver(g, 1 .. m) = Total(FirstOf(a, m))
    BY <1>2, <1>6
  <2>2. /\ m + 1 \in DOMAIN entries /\ 1 .. m \subseteq DOMAIN entries
        /\ 1 .. (m + 1) = (1 .. m) \cup {m + 1} /\ m + 1 \notin 1 .. m
    BY <1>2
  <2>3. IsFiniteSet(1 .. m) /\ g[m + 1] \in Int /\ \A i \in 1 .. m : g[i] \in Int
    <3>1. IsFiniteSet(1 .. m)
      BY FS_Interval
    <3> QED
      BY <1>3, <2>2, <3>1
  <2>4. SumOver(g, (1 .. m) \cup {m + 1}) = g[m + 1] + SumOver(g, 1 .. m)
    BY <2>2, <2>3, SumAdd
  <2>5. FirstOf(a, m) \subseteq Entry /\ IsFiniteSet(FirstOf(a, m))
    BY <1>1, <1>4, FS_Subset
  <2>6. Total(FirstOf(a, m)) \in Int
    BY <2>5, TotalType
  <2> DEFINE e == entries[m + 1]
  <2>7. e.id = m + 1 /\ e \in Entry
    BY <1>2, <2>2
  <2>8. ASSUME NEW f \in E PROVE f.id <= m + 1 <=> f.id <= m \/ f = e
    <3>1. f.id \in Nat /\ entries[f.id] = f
      BY <1>1, <1>2
    <3>2. f.id <= m + 1 <=> f.id <= m \/ f.id = m + 1
      BY <3>1
    <3>3. f.id = m + 1 <=> f = e
      BY <2>7, <3>1
    <3> QED
      BY <3>2, <3>3
  <2>9. CASE e.account = a
    <3>1. e \in E /\ e \notin FirstOf(a, m)
      BY <1>1, <1>4, <2>2, <2>7, <2>9
    <3> HIDE DEF e
    <3>2. FirstOf(a, m + 1) = FirstOf(a, m) \cup {e}
      BY <1>4, <2>8, <3>1
    <3>3. Total(FirstOf(a, m) \cup {e}) = Signed(e) + Total(FirstOf(a, m))
      BY <2>5, <2>7, <3>1, TotalAdd
    <3>4. g[m + 1] = Signed(e)
      BY <1>3, <2>2, <2>9 DEF Change, e
    <3> QED
      BY <2>1, <2>2, <2>4, <3>2, <3>3, <3>4
  <2>10. CASE e.account # a
    <3>1. e \notin E
      BY <1>1, <2>10
    <3>2. FirstOf(a, m + 1) = FirstOf(a, m)
      BY <1>4, <2>8, <3>1
    <3>3. g[m + 1] = 0
      BY <1>3, <2>2, <2>10 DEF Change
    <3>4. SumOver(g, 1 .. (m + 1)) = 0 + Total(FirstOf(a, m))
      BY <2>1, <2>2, <2>4, <3>3
    <3> QED
      BY <2>6, <3>2, <3>4
  <2> QED
    BY <2>9, <2>10
<1>7. SumOver(g, 1 .. n) = Total(FirstOf(a, n))
  <2>1. n \in Nat /\ n <= Len(entries)
    BY <1>2
  <2> HIDE DEF N
  <2>2. n \in N
    BY <1>5, <1>6, <2>1, NumberInduction
  <2> QED
    BY <2>1, <2>2 DEF N
<1>8. n \in Nat /\ \A i \in 1 .. n : g[i] = Change(a, i)
  BY <1>2, <1>3
<1> QED
  BY <1>7, <1>8, CommittedIsSum

(* Where stamps follow commits, running balances are the committed ones.   *)
LEMMA CrossingsAreStarts ==
  ASSUME EntriesOK, NEW a, StampedInOrder(a)
  PROVE  \A n : n \in Crossings(a) <=>
                  n \in DOMAIN entries /\ entries[n] \in EpisodeStarts(a)
<1> DEFINE E == EntriesOf(a)
<1>1. /\ IsFiniteSet(E) /\ Stamped(E)
      /\ \A e \in E : e.id \in DOMAIN entries /\ entries[e.id] = e /\ e.account = a
      /\ \A j \in DOMAIN entries : entries[j].account = a => entries[j] \in E
  BY EntriesOfAccount
<1>2. /\ DOMAIN entries = 1 .. Len(entries) /\ Len(entries) \in Nat
      /\ \A j \in DOMAIN entries : entries[j].id = j
  BY Places DEF EntriesOK
<1>3. ASSUME NEW e \in E, NEW f \in E PROVE Older(e, f) <=> e.id < f.id
  <2>1. /\ e.id \in Nat /\ f.id \in Nat /\ (e.id = f.id => e = f)
        /\ ~Older(e, e) /\ (Older(f, e) => ~Older(e, f))
    BY <1>1, OlderIsStrict DEF Stamped
  <2>2. /\ e.id < f.id => Older(e, f)
        /\ f.id < e.id => Older(f, e)
    BY <1>1 DEF StampedInOrder
  <2> QED
    BY <2>1, <2>2
<1>4. ASSUME NEW n \in DOMAIN entries, entries[n].account = a
      PROVE  /\ RunningBalance(entries[n]) = CommittedBalance(a, n)
             /\ PreviousBalance(entries[n]) = CommittedBalance(a, n - 1)
  <2> DEFINE e == entries[n]
  <2>1. e \in E /\ e.id = n
    BY <1>1, <1>2, <1>4
  <2>2. n \in 0 .. Len(entries) /\ n - 1 \in 0 .. Len(entries) /\ n \in Nat
    BY <1>2
  <2>3. \A f \in E : f.id \in Nat
    BY <1>1, <1>2
  <2> HIDE DEF e
  <2>4. {f \in E : ~Older(e, f)} = FirstOf(a, n)
    BY <1>3, <2>1, <2>2, <2>3 DEF FirstOf
  <2>5. Earlier(e, a) = FirstOf(a, n - 1)
    BY <1>3, <2>1, <2>2, <2>3 DEF FirstOf, Earlier
  <2>6. /\ RunningBalance(e) = Total({f \in E : ~Older(e, f)})
        /\ PreviousBalance(e) = Total(Earlier(e, a))
    BY <2>1, RunningBalances
  <2>7. /\ CommittedBalance(a, n) = Total(FirstOf(a, n))
        /\ CommittedBalance(a, n - 1) = Total(FirstOf(a, n - 1))
    BY <2>2, CommittedBalances
  <2> QED
    BY <2>4, <2>5, <2>6, <2>7 DEF e
<1>5. ASSUME NEW n \in DOMAIN entries, entries[n].account # a
      PROVE  n \notin Crossings(a)
  <2>1. n \in 0 .. Len(entries) /\ n - 1 \in 0 .. Len(entries) /\ n \in Nat
    BY <1>2
  <2>2. FirstOf(a, n) = FirstOf(a, n - 1)
    <3>1. \A f \in E : f.id \in Nat /\ f.id # n
      BY <1>1, <1>2, <1>5
    <3>2. \A f \in E : f.id <= n <=> f.id <= n - 1
      BY <2>1, <3>1
    <3> QED
      BY <3>2 DEF FirstOf
  <2>3. CommittedBalance(a, n) = CommittedBalance(a, n - 1)
    BY <2>1, <2>2, CommittedBalances
  <2>4. CommittedBalance(a, n) \in Int
    <3>1. FirstOf(a, n) \subseteq Entry /\ IsFiniteSet(FirstOf(a, n))
      BY EntriesOfAccount, FS_Subset DEF FirstOf
    <3> QED
      BY <2>1, <3>1, TotalType, CommittedBalances
  <2> QED
    BY <2>3, <2>4 DEF Crossings
<1>6. ASSUME NEW n \in DOMAIN entries
      PROVE  n \in Crossings(a) <=> entries[n] \in EpisodeStarts(a)
  <2>1. CASE entries[n].account = a
    <3>1. entries[n] \in E
      BY <1>1, <2>1
    <3> QED
      BY <1>4, <2>1, <3>1 DEF Crossings, EpisodeStarts
  <2>2. CASE entries[n].account # a
    <3>1. entries[n] \notin E
      BY <1>1, <2>2
    <3> QED
      BY <1>5, <2>2, <3>1 DEF EpisodeStarts
  <2> QED
    BY <2>1, <2>2
<1> QED
  BY <1>6 DEF Crossings

(* Its date is the start of its last episode.                              *)
LEMMA SinceIsADay ==
  ASSUME HistoryInv, NEW a \in NegativeUserAccounts
  PROVE  /\ NegativeSince(a) \in Nat
         /\ \E s \in EpisodeStarts(a) :
              /\ NegativeSince(a) = s.occurredAt
              /\ \A e \in EpisodeStarts(a) : ~Older(s, e)
              /\ \A e \in EntriesOf(a) : ~Older(e, s) => RunningBalance(e) < 0
<1>1. PICK s \in EpisodeStarts(a) :
        /\ \A e \in EpisodeStarts(a) : ~Older(s, e)
        /\ \A e \in EntriesOf(a) : ~Older(e, s) => RunningBalance(e) < 0
  BY LastStart
<1>2. Stamped(EntriesOf(a)) /\ EpisodeStarts(a) \subseteq EntriesOf(a)
  BY EntriesOfAccount DEF HistoryInv, EpisodeStarts
<1> DEFINE days == {e.occurredAt : e \in EpisodeStarts(a)}
<1>3. days \subseteq Nat /\ s.occurredAt \in days /\ \A d \in days : s.occurredAt >= d
  <2>1. \A e \in EpisodeStarts(a) : e.occurredAt \in Nat
    BY <1>2 DEF Stamped
  <2>2. \A e \in EpisodeStarts(a) : ~(s.occurredAt < e.occurredAt)
    BY <1>1 DEF Older
  <2> QED
    BY <2>1, <2>2
<1>4. NegativeSince(a) = Max(days)
  BY <1>1 DEF NegativeSince
<1> HIDE DEF days
<1>5. Max(days) = s.occurredAt
  BY <1>3, MaxIs
<1> QED
  BY <1>1, <1>3, <1>4, <1>5

(* In whatever order postings commit and are stamped, every negative       *)
(* account is explained by the start of an episode from which it has not   *)
(* recovered, and where the stamps follow the commits by the posting that  *)
(* took it below zero last.                                                *)
THEOREM DebtsAreDated == Spec => []DebtIsDated
<1>1. ASSUME HistoryInv, NEW a \in NegativeUserAccounts
      PROVE  /\ \E s \in EpisodeStarts(a) :
                  /\ NegativeSince(a) = s.occurredAt
                  /\ \A e \in EntriesOf(a) : ~Older(e, s) => RunningBalance(e) < 0
             /\ StampedInOrder(a) =>
                  NegativeSince(a) = entries[Max(Crossings(a))].occurredAt
  <2>1. PICK s \in EpisodeStarts(a) :
          /\ NegativeSince(a) = s.occurredAt
          /\ \A e \in EpisodeStarts(a) : ~Older(s, e)
          /\ \A e \in EntriesOf(a) : ~Older(e, s) => RunningBalance(e) < 0
    BY <1>1, SinceIsADay
  <2>2. /\ EntriesOK /\ Stamped(EntriesOf(a))
        /\ \A e \in EntriesOf(a) : e.id \in DOMAIN entries /\ entries[e.id] = e
    BY <1>1, EntriesOfAccount DEF HistoryInv
  <2>3. EpisodeStarts(a) \subseteq EntriesOf(a)
    BY DEF EpisodeStarts
  <2>4. ASSUME StampedInOrder(a) PROVE s.occurredAt = entries[Max(Crossings(a))].occurredAt
    <3>1. /\ DOMAIN entries = 1 .. Len(entries) /\ Len(entries) \in Nat
          /\ \A j \in DOMAIN entries : entries[j].id = j
      BY <2>2, Places DEF EntriesOK
    <3>2. \A n : n \in Crossings(a) <=>
                   n \in DOMAIN entries /\ entries[n] \in EpisodeStarts(a)
      BY <2>2, <2>4, CrossingsAreStarts
    <3>3. s.id \in Crossings(a) /\ entries[s.id] = s /\ Crossings(a) \subseteq Nat
      BY <2>2, <2>3, <3>1, <3>2
    <3>4. ASSUME NEW n \in Crossings(a) PROVE s.id >= n
      <4>1. /\ n \in DOMAIN entries /\ s.id \in DOMAIN entries
            /\ ~Older(entries[s.id], entries[n])
            /\ entries[n].account = a /\ entries[s.id].account = a
        <5>1. entries[n] \in EpisodeStarts(a) /\ s.id \in DOMAIN entries /\ n \in DOMAIN entries
          BY <3>2, <3>3
        <5>2. \A e \in EntriesOf(a) : e.account = a
          BY <2>2, EntriesOfAccount
        <5> QED
          BY <2>1, <2>3, <3>3, <5>1, <5>2
      <4>2. ~(s.id < n)
        BY <2>4, <4>1 DEF StampedInOrder
      <4> QED
        BY <3>1, <4>1, <4>2
    <3>5. Max(Crossings(a)) = s.id
      BY <3>3, <3>4, MaxIs
    <3> QED
      BY <3>3, <3>5
  <2> QED
    BY <2>1, <2>4
<1>2. ReadsInductive => DebtIsDated
  BY <1>1 DEF ReadsInductive, DebtIsDated
<1> QED
  BY <1>2, ReadsAreFaithful, PTL

-----------------------------------------------------------------------------
(* The collections report: its rows and their order.                       *)

RowOf(a) ==
  [account |-> a, owner |-> Owner[a], currency |-> CurrencyOf[a],
   balance |-> balance[a], since |-> NegativeSince(a)]

LEMMA ReportRows ==
  ASSUME HistoryInv
  PROVE  /\ NegativeUserAccounts \subseteq Nat /\ IsFiniteSet(NegativeUserAccounts)
         /\ NegativeBalances = {RowOf(a) : a \in NegativeUserAccounts}
         /\ IsFiniteSet(NegativeBalances)
         /\ Cardinality(NegativeBalances) = Cardinality(NegativeUserAccounts)
         /\ \A r \in NegativeBalances :
              /\ r.account \in NegativeUserAccounts /\ r = RowOf(r.account)
              /\ r.since \in Nat
         /\ Dated(NegativeBalances) = NegativeBalances
<1> DEFINE f == [a \in NegativeUserAccounts |-> RowOf(a)]
<1>1. NegativeUserAccounts \subseteq Nat /\ IsFiniteSet(NegativeUserAccounts)
  BY AccountAssumption, FS_Subset DEF NegativeUserAccounts
<1>2. NegativeBalances = {RowOf(a) : a \in NegativeUserAccounts}
  BY DEF NegativeBalances, RowOf
<1>3. /\ \A a, b \in NegativeUserAccounts : f[a] = f[b] => a = b
      /\ NegativeBalances = {f[a] : a \in NegativeUserAccounts}
  <2>1. \A a \in NegativeUserAccounts : f[a].account = a
    BY DEF RowOf
  <2>2. {f[a] : a \in NegativeUserAccounts} = {RowOf(a) : a \in NegativeUserAccounts}
    OBVIOUS
  <2> HIDE DEF f
  <2> QED
    BY <1>2, <2>1, <2>2
<1> HIDE DEF f
<1>4. IsFiniteSet(NegativeBalances)
      /\ Cardinality(NegativeBalances) = Cardinality(NegativeUserAccounts)
  BY <1>1, <1>3, ImageIsFinite, ImageIsAsLarge
<1>5. \A r \in NegativeBalances :
        r.account \in NegativeUserAccounts /\ r = RowOf(r.account) /\ r.since \in Nat
  <2>1. \A a \in NegativeUserAccounts :
          RowOf(a).account = a /\ RowOf(a).since = NegativeSince(a)
    BY DEF RowOf
  <2>2. \A a \in NegativeUserAccounts : NegativeSince(a) \in Nat
    BY SinceIsADay
  <2> QED
    BY <1>2, <2>1, <2>2
<1>6. Dated(NegativeBalances) = NegativeBalances
  BY <1>5, HistoryAssumption DEF Dated
<1> QED
  BY <1>1, <1>2, <1>4, <1>5, <1>6

(* sorted() puts them all in a list, the oldest debt first.                *)
LEMMA ReportIsSorted ==
  ASSUME HistoryInv
  PROVE  /\ Ordered(NegativeBalances) \in Seq(NegativeBalances)
         /\ Len(Ordered(NegativeBalances)) = Cardinality(NegativeUserAccounts)
         /\ \A i, j \in 1 .. Cardinality(NegativeUserAccounts) : i < j =>
              Ordered(NegativeBalances)[i].since <= Ordered(NegativeBalances)[j].since
         /\ \A r \in NegativeBalances :
              \E i \in 1 .. Cardinality(NegativeUserAccounts) :
                Ordered(NegativeBalances)[i] = r
<1> DEFINE S == NegativeBalances
           n == Cardinality(S)
           R == {pair \in S \X S : Before(pair[1], pair[2])}
           pick(i) == CHOOSE r \in S : Cardinality({s \in S : Before(s, r)}) = i - 1
           list == Ordered(S)
<1>1. /\ IsFiniteSet(S) /\ n = Cardinality(NegativeUserAccounts) /\ n \in Nat
      /\ \A r \in S : r.since \in Nat /\ r.since # None /\ r.account \in Nat
      /\ \A r, s \in S : r.account = s.account => r = s
  <2>1. /\ IsFiniteSet(S) /\ n = Cardinality(NegativeUserAccounts)
        /\ \A r \in S : r.since \in Nat /\ r.account \in Nat
        /\ \A r, s \in S : r.account = s.account => r = s
    BY ReportRows
  <2>2. n \in Nat
    BY <2>1, FS_CardinalityType
  <2> QED
    BY <2>1, <2>2, HistoryAssumption
<1>2. \A r, s \in S : <<s, r>> \in R <=> Before(s, r)
  OBVIOUS
<1>3. \A r, s \in S :
        Before(s, r) <=> s.since < r.since \/ (s.since = r.since /\ s.account < r.account)
  BY <1>1 DEF Before
<1>4. list = [i \in 1 .. n |-> pick(i)]
  BY Zenon DEF Ordered
<1>5. \A i : (\E r \in S : Cardinality({s \in S : Before(s, r)}) = i - 1) =>
              pick(i) \in S /\ Cardinality({s \in S : Before(s, pick(i))}) = i - 1
  OBVIOUS
<1> HIDE DEF S, n, R, pick, list
<1>6. StrictOrder(R, S)
  <2>1. \A r \in S : ~Before(r, r)
    BY <1>1, <1>3
  <2>2. ASSUME NEW r \in S, NEW s \in S, NEW t \in S, Before(r, s), Before(s, t)
        PROVE  Before(r, t)
    <3>1. /\ r.since \in Nat /\ s.since \in Nat /\ t.since \in Nat
          /\ r.account \in Nat /\ s.account \in Nat /\ t.account \in Nat
      BY <1>1
    <3>2. /\ r.since < s.since \/ (r.since = s.since /\ r.account < s.account)
          /\ s.since < t.since \/ (s.since = t.since /\ s.account < t.account)
      BY <1>3, <2>2
    <3>3. r.since < t.since \/ (r.since = t.since /\ r.account < t.account)
      BY <3>1, <3>2
    <3> QED
      BY <1>3, <3>3
  <2>3. ASSUME NEW r \in S, NEW s \in S PROVE r = s \/ Before(r, s) \/ Before(s, r)
    <3>1. r.since < s.since \/ s.since < r.since \/ r.since = s.since
      BY <1>1
    <3>2. r.account < s.account \/ s.account < r.account \/ r.account = s.account
      BY <1>1
    <3> QED
      BY <1>1, <1>3, <3>1, <3>2
  <2> QED
    BY <1>2, <2>1, <2>2, <2>3 DEF StrictOrder
<1>7. \A r \in S : Rank(R, S, r) = Cardinality({s \in S : Before(s, r)})
  <2>1. \A r \in S : {s \in S : <<s, r>> \in R} = {s \in S : Before(s, r)}
    BY <1>2
  <2> QED
    BY <2>1 DEF Rank
<1>8. \A i \in 1 .. n :
        (\E r \in S : Rank(R, S, r) = i - 1) => list[i] \in S /\ Rank(R, S, list[i]) = i - 1
  BY <1>4, <1>5, <1>7
<1>9. ListedByRank(list, R, S)
  <2>1. list \in [1 .. n -> {pick(i) : i \in 1 .. n}]
    BY <1>4
  <2> QED
    BY <1>8, <2>1 DEF n, ListedByRank
<1>10. /\ list \in Seq(S) /\ Len(list) = n
       /\ \A i, j \in 1 .. n : i < j => <<list[i], list[j]>> \in R
       /\ \A r \in S : \E i \in 1 .. n : list[i] = r
  BY <1>1, <1>6, <1>9, RankedList DEF n
<1>11. ASSUME NEW i \in 1 .. n, NEW j \in 1 .. n, i < j
       PROVE  list[i].since <= list[j].since
  <2>1. list[i] \in S /\ list[j] \in S
    BY <1>1, <1>10
  <2>2. Before(list[i], list[j])
    BY <1>2, <1>10, <1>11, <2>1
  <2>3. list[i].since < list[j].since \/ list[i].since = list[j].since
    BY <1>3, <2>1, <2>2
  <2>4. list[i].since \in Nat /\ list[j].since \in Nat
    BY <1>1, <2>1
  <2> QED
    BY <2>3, <2>4
<1> QED
  BY <1>1, <1>10, <1>11 DEF S, list

-----------------------------------------------------------------------------
(* The collections report: its age buckets.                                *)

LEMMA BucketsAre ==
  /\ \A age \in Int : \E b \in Buckets : BucketOf(age) = {b}
  /\ \A age, elder \in Int : age <= elder =>
       \A b \in BucketOf(age), c \in BucketOf(elder) : b <= c
<1> DEFINE above(age) == {i \in Buckets : i = Len(Ceilings) + 1 \/ age < Ceilings[i]}
<1>1. /\ Len(Ceilings) = 3 /\ Buckets = 1 .. 4
      /\ Ceilings[1] = 1 /\ Ceilings[2] = 7 /\ Ceilings[3] = 30
  BY DEF Ceilings, Buckets
<1>2. \A i \in Buckets : i = 1 \/ i = 2 \/ i = 3 \/ i = 4
  BY <1>1
<1>3. \A age : BucketOf(age) = {Min(above(age))}
  BY DEF BucketOf
<1>4. ASSUME NEW age \in Int
      PROVE  /\ Min(above(age)) \in above(age)
             /\ \A i \in above(age) : Min(above(age)) <= i
  <2>1. above(age) \subseteq Nat /\ 4 \in above(age)
    BY <1>1
  <2> HIDE DEF above
  <2>2. \E i \in above(age) : \A j \in above(age) : i <= j
    BY <2>1, LeastOf
  <2> QED
    BY <2>2, Zenon DEF Min
<1>5. \A age \in Int : above(age) \subseteq Buckets
  OBVIOUS
<1>6. ASSUME NEW age \in Int, NEW elder \in Int, age <= elder
      PROVE  above(elder) \subseteq above(age)
  <2>1. ASSUME NEW i \in above(elder) PROVE i \in above(age)
    <3>1. i \in Buckets /\ (i = 4 \/ elder < Ceilings[i])
      BY <1>1
    <3>2. i = 4 \/ (Ceilings[i] \in Int /\ elder < Ceilings[i])
      BY <1>1, <1>2, <3>1
    <3>3. i = 4 \/ age < Ceilings[i]
      BY <1>6, <3>2
    <3> QED
      BY <1>1, <3>1, <3>3
  <2> QED
    BY <2>1
<1> HIDE DEF above
<1> QED
  BY <1>3, <1>4, <1>5, <1>6

(* Each row is counted in one.                                             *)
LEMMA BucketsAddUp ==
  ASSUME HistoryInv, NEW asOf \in Nat
  PROVE  SumOver(AgeBuckets(NegativeBalances, asOf), Buckets)
           = Cardinality(NegativeUserAccounts)
<1> DEFINE S == NegativeBalances
           bucket(r) == CHOOSE b \in Buckets : BucketOf(asOf - r.since) = {b}
           f == [r \in S |-> bucket(r)]
           g == AgeBuckets(S, asOf)
<1>1. /\ IsFiniteSet(S) /\ Cardinality(S) = Cardinality(NegativeUserAccounts)
      /\ Dated(S) = S /\ \A r \in S : r.since \in Nat
  BY ReportRows
<1>2. \A r \in S : f[r] \in Buckets /\ BucketOf(asOf - r.since) = {f[r]}
  <2>1. \A r \in S : asOf - r.since \in Int
    BY <1>1
  <2>2. \A r \in S : \E b \in Buckets : BucketOf(asOf - r.since) = {b}
    BY <2>1, BucketsAre
  <2> QED
    BY <2>2
<1>3. \A b \in Buckets : g[b] = Cardinality({r \in S : b \in BucketOf(asOf - r.since)})
  BY <1>1 DEF AgeBuckets
<1> HIDE DEF S, f, g
<1>4. \A b \in Buckets : g[b] = Cardinality(Part(S, f, b))
  <2>1. \A b \in Buckets : {r \in S : b \in BucketOf(asOf - r.since)} = Part(S, f, b)
    BY <1>2 DEF Part
  <2> QED
    BY <1>3, <2>1
<1>5. IsFiniteSet(Buckets)
  <2>1. Buckets = 1 .. 4 /\ 1 \in Int /\ 4 \in Int
    BY DEF Buckets, Ceilings
  <2>2. IsFiniteSet(1 .. 4)
    BY <2>1, FS_Interval
  <2> QED
    BY <2>1, <2>2
<1>6. SumOver(g, Buckets) = Cardinality(S)
  <2>1. \A r \in S : f[r] \in Buckets
    BY <1>2
  <2>2. IsFiniteSet(S)
    BY <1>1
  <2> QED
    BY <1>4, <1>5, <2>1, <2>2, SumOfParts
<1> QED
  BY <1>1, <1>6 DEF S, g

-----------------------------------------------------------------------------
(* The collections report: what is owed in a currency.                     *)

LEMMA TotalUnion ==
  ASSUME NEW S, IsFiniteSet(S), S \subseteq Entry,
         NEW T, IsFiniteSet(T), T \subseteq Entry, S \cap T = {}
  PROVE  Total(S \cup T) = Total(S) + Total(T)
<1> DEFINE F == {U \in SUBSET T : Total(S \cup U) = Total(S) + Total(U)}
<1>1. Total(S) \in Int
  BY TotalType
<1>2. {} \in F
  <2>1. S \cup {} = S
    OBVIOUS
  <2> QED
    BY <1>1, <2>1, TotalOfNone
<1>3. ASSUME NEW U \in SUBSET T, NEW e \in T \ U, U \in F PROVE U \cup {e} \in F
  <2>1. IsFiniteSet(U) /\ U \subseteq Entry /\ e \in Entry /\ e \notin U
    BY FS_Subset
  <2>2. IsFiniteSet(S \cup U) /\ S \cup U \subseteq Entry /\ e \notin S \cup U
    BY <2>1, FS_Union
  <2>3. Total((S \cup U) \cup {e}) = Signed(e) + Total(S \cup U)
    BY <2>1, <2>2, TotalAdd
  <2>4. Total(U \cup {e}) = Signed(e) + Total(U)
    BY <2>1, TotalAdd
  <2>5. Signed(e) \in Int /\ Total(U) \in Int
    BY <2>1, SignedType, TotalType
  <2>6. S \cup (U \cup {e}) = (S \cup U) \cup {e}
    OBVIOUS
  <2>7. Total(S \cup U) = Total(S) + Total(U)
    BY <1>3
  <2>8. Total(S \cup (U \cup {e})) = Total(S) + Total(U \cup {e})
    <3>1. Total(S \cup (U \cup {e})) = Signed(e) + Total(S \cup U)
      BY <2>3, <2>6
    <3> QED
      BY <1>1, <2>4, <2>5, <2>7, <3>1
  <2> QED
    BY <2>8
<1> HIDE DEF F
<1>4. T \in F
  BY <1>2, <1>3, SubsetInduction
<1> QED
  BY <1>4 DEF F

Owed(r) == -r.balance

LEMMA OwedIsSum ==
  ASSUME NEW S, IsFiniteSet(S)
  PROVE  MapThenSumSet(Owed, S) = SumOver([r \in S |-> Owed(r)], S)
<1> DEFINE g == [r \in S |-> Owed(r)]
           Goes(iter) == iter = [s \in SUBSET S |->
                                   IF s = {} THEN 0
                                   ELSE Owed(Some(s)) + iter[s \ {Some(s)}]]
<1>1. MapThenSumSet(Owed, S) = (CHOOSE iter : Goes(iter))[S]
  BY Zenon DEF MapThenSumSet, MapThenFoldSet, Some
<1>2. \A iter : Goes(iter) <=> SumsUp(g, S, iter)
  <2>1. \A s \in SUBSET S : s # {} => g[Some(s)] = Owed(Some(s))
    BY DEF Some
  <2> HIDE DEF g
  <2> QED
    BY <2>1 DEF SumsUp
<1>3. \E iter : Goes(iter)
  BY <1>2, SumsUpExists
<1> DEFINE chosen == CHOOSE iter : Goes(iter)
<1>4. SumsUp(g, S, chosen)
  BY <1>2, <1>3
<1> HIDE DEF g, chosen
<1>5. SumOver(g, S) = chosen[S]
  BY <1>4, SumIs
<1> QED
  BY <1>1, <1>5 DEF g, chosen

(* What some accounts owe is what their entries say.                       *)
LEMMA OwedByEntries ==
  ASSUME HistoryInv, NEW A \in SUBSET NegativeUserAccounts
  PROVE  /\ IsFiniteSet({RowOf(a) : a \in A})
         /\ Cardinality({RowOf(a) : a \in A}) = Cardinality(A)
         /\ MapThenSumSet(Owed, {RowOf(a) : a \in A})
              = -Total(UNION {EntriesOf(a) : a \in A})
<1> DEFINE N == NegativeUserAccounts
           S == {RowOf(a) : a \in N}
           g == [r \in S |-> Owed(r)]
           rowsOf(T) == {RowOf(a) : a \in T}
           rowsIn(T) == UNION {EntriesOf(a) : a \in T}
           F == {T \in SUBSET N : /\ IsFiniteSet(rowsIn(T)) /\ rowsIn(T) \subseteq Entry
                                  /\ SumOver(g, rowsOf(T)) = -Total(rowsIn(T))}
<1>1. EntriesOK /\ IsFiniteSet(N) /\ IsFiniteSet(S)
  BY ReportRows DEF HistoryInv
<1>2. \A a \in N : /\ g[RowOf(a)] = -balance[a] /\ balance[a] \in Int
                   /\ Total(EntriesOf(a)) = balance[a] /\ RowOf(a).account = a
  BY DEF HistoryInv, BalancesOK, NegativeUserAccounts, Owed, RowOf
<1>3. \A a \in N : /\ EntriesOf(a) \subseteq Entry /\ IsFiniteSet(EntriesOf(a))
                   /\ \A e \in EntriesOf(a) : e.account = a
  BY <1>1, EntriesOfAccount
<1>4. {} \in F
  <2>1. rowsOf({}) = {} /\ rowsIn({}) = {}
    OBVIOUS
  <2> QED
    BY <2>1, SumOfNone, TotalOfNone, FS_EmptySet
<1>5. ASSUME NEW T \in SUBSET N, NEW a \in N \ T, T \in F PROVE T \cup {a} \in F
  <2>1. /\ rowsOf(T \cup {a}) = rowsOf(T) \cup {RowOf(a)}
        /\ rowsIn(T \cup {a}) = rowsIn(T) \cup EntriesOf(a)
        /\ rowsOf(T) \in SUBSET S
    OBVIOUS
  <2>2. RowOf(a) \notin rowsOf(T)
    BY <1>2
  <2>3. rowsIn(T) \cap EntriesOf(a) = {}
    BY <1>3
  <2>4. IsFiniteSet(rowsOf(T)) /\ \A r \in rowsOf(T) : g[r] \in Int
    <3>1. \A b \in T : g[RowOf(b)] \in Int
      BY <1>2
    <3>2. \A r \in rowsOf(T) : g[r] \in Int
      <4> HIDE DEF g
      <4> QED
        BY <3>1
    <3>3. IsFiniteSet(rowsOf(T))
      <4> HIDE DEF S, rowsOf
      <4> QED
        BY <1>1, <2>1, FS_Subset
    <3> QED
      BY <3>2, <3>3
  <2>5. /\ IsFiniteSet(rowsIn(T)) /\ rowsIn(T) \subseteq Entry
        /\ SumOver(g, rowsOf(T)) = -Total(rowsIn(T))
    BY <1>5
  <2>6. /\ g[RowOf(a)] = -balance[a] /\ balance[a] \in Int
        /\ Total(EntriesOf(a)) = balance[a]
        /\ EntriesOf(a) \subseteq Entry /\ IsFiniteSet(EntriesOf(a))
    BY <1>2, <1>3
  <2> HIDE DEF g, rowsOf, rowsIn
  <2>7. SumOver(g, rowsOf(T) \cup {RowOf(a)}) = g[RowOf(a)] + SumOver(g, rowsOf(T))
    <3>1. g[RowOf(a)] \in Int
      BY <2>6
    <3> QED
      BY <2>2, <2>4, <3>1, SumAdd
  <2>8. Total(rowsIn(T) \cup EntriesOf(a)) = Total(rowsIn(T)) + Total(EntriesOf(a))
    BY <2>3, <2>5, <2>6, TotalUnion
  <2>9. Total(rowsIn(T)) \in Int
    BY <2>5, TotalType
  <2>10. SumOver(g, rowsOf(T \cup {a})) = -Total(rowsIn(T \cup {a}))
    <3>1. SumOver(g, rowsOf(T \cup {a})) = g[RowOf(a)] + SumOver(g, rowsOf(T))
      BY <2>1, <2>7
    <3>2. Total(rowsIn(T \cup {a})) = Total(rowsIn(T)) + Total(EntriesOf(a))
      BY <2>1, <2>8
    <3> QED
      BY <2>5, <2>6, <2>9, <3>1, <3>2
  <2>11. IsFiniteSet(rowsIn(T \cup {a})) /\ rowsIn(T \cup {a}) \subseteq Entry
    <3>1. IsFiniteSet(rowsIn(T) \cup EntriesOf(a))
      BY <2>5, <2>6, FS_Union
    <3> QED
      BY <2>1, <2>5, <2>6, <3>1
  <2> QED
    BY <2>10, <2>11
<1> HIDE DEF F
<1>6. \A T \in SUBSET N : T \in F
  <2> SUFFICES ASSUME NEW T \in SUBSET N PROVE T \in F
    OBVIOUS
  <2>1. IsFiniteSet(T)
    BY <1>1, FS_Subset
  <2>2. \A U \in SUBSET T : \A a \in T \ U : U \in F => U \cup {a} \in F
    BY <1>5
  <2> QED
    BY <1>4, <2>1, <2>2, SubsetInduction
<1>7. SumOver(g, rowsOf(A)) = -Total(rowsIn(A))
  BY <1>6 DEF F
<1>8. IsFiniteSet(rowsOf(A)) /\ Cardinality(rowsOf(A)) = Cardinality(A)
  <2> DEFINE f == [a \in N |-> RowOf(a)]
  <2>1. IsFiniteSet(A)
    BY <1>1, FS_Subset
  <2>2. rowsOf(A) = {f[a] : a \in A}
    OBVIOUS
  <2>3. \A a, b \in A : f[a] = f[b] => a = b
    BY <1>2
  <2> HIDE DEF f, rowsOf
  <2> QED
    BY <2>1, <2>2, <2>3, ImageIsFinite, ImageIsAsLarge
<1>9. MapThenSumSet(Owed, rowsOf(A)) = SumOver(g, rowsOf(A))
  <2> DEFINE h == [r \in rowsOf(A) |-> Owed(r)]
  <2>1. \A r \in rowsOf(A) : h[r] = g[r]
    OBVIOUS
  <2> HIDE DEF h, g, rowsOf
  <2>2. SumOver(h, rowsOf(A)) = SumOver(g, rowsOf(A))
    BY <1>8, <2>1, SumSame
  <2> QED
    BY <1>8, <2>2, OwedIsSum DEF h
<1> QED
  BY <1>7, <1>8, <1>9

LEMMA ExposuresAre ==
  ASSUME HistoryInv, NEW c \in {CurrencyOf[a] : a \in NegativeUserAccounts}
  PROVE  LET A == {a \in NegativeUserAccounts : CurrencyOf[a] = c}
         IN /\ Exposures(NegativeBalances)[c].count = Cardinality(A)
            /\ Exposures(NegativeBalances)[c].owed = -Total(UNION {EntriesOf(a) : a \in A})
<1> DEFINE A == {a \in NegativeUserAccounts : CurrencyOf[a] = c}
           R == {RowOf(a) : a \in A}
           X == Exposures(NegativeBalances)[c]
<1>1. NegativeBalances = {RowOf(a) : a \in NegativeUserAccounts}
  BY ReportRows
<1>2. \A a : RowOf(a).currency = CurrencyOf[a]
  BY DEF RowOf
<1>3. {r \in NegativeBalances : r.currency = c} = R
  BY <1>1, <1>2
<1>4. c \in {r.currency : r \in NegativeBalances}
  BY <1>1, <1>2
<1>5. X = [count |-> Cardinality({r \in NegativeBalances : r.currency = c}),
           owed |-> MapThenSumSet(Owed, {r \in NegativeBalances : r.currency = c})]
  BY <1>4, Zenon DEF Exposures, Owed
<1>6. X.count = Cardinality(R) /\ X.owed = MapThenSumSet(Owed, R)
  BY <1>3, <1>5
<1>7. Cardinality(R) = Cardinality(A)
      /\ MapThenSumSet(Owed, R) = -Total(UNION {EntriesOf(a) : a \in A})
  <2>1. A \in SUBSET NegativeUserAccounts
    OBVIOUS
  <2> QED
    BY <2>1, OwedByEntries
<1> QED
  BY <1>6, <1>7

-----------------------------------------------------------------------------
(* The collections report.                                                 *)

LEMMA ReportIs ==
  ASSUME NEW asOf
  PROVE  LET r == Collections(Admin, asOf)
         IN /\ r.asOf = asOf /\ r.accounts = Ordered(NegativeBalances)
            /\ r.exposures = Exposures(NegativeBalances)
            /\ r.ageBuckets = AgeBuckets(NegativeBalances, asOf)
            /\ r.unexplained = Cardinality(NegativeBalances \ Dated(NegativeBalances))
            /\ r.oldest = LET dates == {b.since : b \in Dated(NegativeBalances)}
                          IN IF dates = {} THEN None ELSE Min(dates)
BY DEF Collections, ReportOf

(* Every debt is in the report once, as a row, in the exposure of its      *)
(* currency and in the bucket of its age, whatever day it is asked for;    *)
(* the exposures are what the entries say is owed; and the rows stand by   *)
(* age, the oldest first.                                                  *)
THEOREM ReportsAddUp == Spec => []ReportAddsUp
<1>1. ASSUME HistoryInv, NegativeUserAccounts # {}, NEW asOf \in AsOf,
             NEW r, r = Collections(Admin, asOf),
             NEW n, n = Cardinality(NegativeUserAccounts)
      PROVE  /\ {r.accounts[i].account : i \in 1 .. Len(r.accounts)} = NegativeUserAccounts
             /\ Len(r.accounts) = n
             /\ r.unexplained + SumOver(r.ageBuckets, Buckets) = n
             /\ r.oldest = r.accounts[1].since
             /\ \A i, j \in 1 .. n : i < j =>
                  \A b \in BucketOf(r.asOf - r.accounts[i].since),
                     c \in BucketOf(r.asOf - r.accounts[j].since) : b >= c
             /\ \A c \in {CurrencyOf[a] : a \in NegativeUserAccounts} :
                  LET A == {a \in NegativeUserAccounts : CurrencyOf[a] = c}
                  IN /\ r.exposures[c].count = Cardinality(A)
                     /\ r.exposures[c].owed = -Total(UNION {EntriesOf(a) : a \in A})
  <2> DEFINE S == NegativeBalances
             list == Ordered(S)
  <2>1. /\ r.asOf = asOf /\ r.accounts = list /\ r.exposures = Exposures(S)
        /\ r.ageBuckets = AgeBuckets(S, asOf)
        /\ r.unexplained = Cardinality(S \ Dated(S))
        /\ r.oldest = LET dates == {b.since : b \in Dated(S)}
                      IN IF dates = {} THEN None ELSE Min(dates)
    BY <1>1, ReportIs
  <2>2. /\ S = {RowOf(a) : a \in NegativeUserAccounts} /\ Dated(S) = S
        /\ \A s \in S : s.account \in NegativeUserAccounts /\ s.since \in Nat
    BY <1>1, ReportRows
  <2>3. n \in Nat /\ 1 \in 1 .. n
    <3>1. IsFiniteSet(NegativeUserAccounts)
      BY <1>1, ReportRows
    <3>2. n \in Nat /\ n # 0
      BY <1>1, <3>1, FS_CardinalityType, FS_EmptySet
    <3> QED
      BY <3>2
  <2>4. asOf \in Nat
    BY ReportAssumption
  <2>5. /\ list \in Seq(S) /\ Len(list) = n
        /\ \A i, j \in 1 .. n : i < j => list[i].since <= list[j].since
        /\ \A s \in S : \E i \in 1 .. n : list[i] = s
    BY <1>1, ReportIsSorted
  <2>6. \A a \in NegativeUserAccounts : RowOf(a).account = a /\ RowOf(a) \in S
    BY <2>2 DEF RowOf
  <2>7. SumOver(AgeBuckets(S, asOf), Buckets) = n
    BY <1>1, <2>4, BucketsAddUp
  <2>8. \A c \in {CurrencyOf[a] : a \in NegativeUserAccounts} :
          LET A == {a \in NegativeUserAccounts : CurrencyOf[a] = c}
          IN /\ Exposures(S)[c].count = Cardinality(A)
             /\ Exposures(S)[c].owed = -Total(UNION {EntriesOf(a) : a \in A})
    BY <1>1, ExposuresAre
  <2> HIDE DEF S, list
  <2>9. \A i \in 1 .. n : list[i] \in S /\ list[i].since \in Nat
    BY <2>2, <2>3, <2>5
  <2>10. {list[i].account : i \in 1 .. n} = NegativeUserAccounts
    <3>1. \A i \in 1 .. n : list[i].account \in NegativeUserAccounts
      BY <2>2, <2>9
    <3>2. \A a \in NegativeUserAccounts : \E i \in 1 .. n : list[i].account = a
      BY <2>5, <2>6
    <3> QED
      BY <3>1, <3>2
  <2>11. r.unexplained + SumOver(r.ageBuckets, Buckets) = n
    <3>1. S \ Dated(S) = {}
      BY <2>2
    <3>2. r.unexplained = 0
      BY <2>1, <3>1, FS_EmptySet
    <3>3. SumOver(r.ageBuckets, Buckets) = n
      BY <2>1, <2>7
    <3> QED
      BY <2>3, <3>2, <3>3
  <2>12. r.oldest = list[1].since
    <3> DEFINE dates == {s.since : s \in S}
    <3>1. dates \subseteq Nat /\ list[1].since \in dates
      BY <2>2, <2>3, <2>9
    <3>2. ASSUME NEW d \in dates PROVE list[1].since <= d
      <4>1. PICK i \in 1 .. n : list[i].since = d
        BY <2>5
      <4>2. CASE i = 1
        BY <2>9, <4>1, <4>2
      <4>3. CASE i # 1
        BY <2>3, <2>5, <4>1, <4>3
      <4> QED
        BY <4>2, <4>3
    <3>3. r.oldest = IF dates = {} THEN None ELSE Min(dates)
      BY <2>1, <2>2
    <3> HIDE DEF dates
    <3>4. Min(dates) = list[1].since
      BY <3>1, <3>2, MinIs
    <3> QED
      BY <3>1, <3>3, <3>4
  <2>13. ASSUME NEW i \in 1 .. n, NEW j \in 1 .. n, i < j,
                NEW b \in BucketOf(asOf - list[i].since),
                NEW c \in BucketOf(asOf - list[j].since)
         PROVE  b >= c
    <3>1. /\ asOf - list[i].since \in Int /\ asOf - list[j].since \in Int
          /\ asOf - list[j].since <= asOf - list[i].since
      <4>1. list[i].since \in Nat /\ list[j].since \in Nat /\ list[i].since <= list[j].since
        BY <2>5, <2>9, <2>13
      <4> QED
        BY <2>4, <4>1
    <3>2. c <= b
      BY <3>1, BucketsAre
    <3>3. b \in Int /\ c \in Int
      <4>1. \A d \in Buckets : d \in Int
        BY DEF Buckets, Ceilings
      <4> QED
        BY <3>1, <4>1, BucketsAre
    <3> QED
      BY <3>2, <3>3
  <2> QED
    BY <2>1, <2>5, <2>8, <2>10, <2>11, <2>12, <2>13
<1> DEFINE Report(asOf) == Collections(Admin, asOf)
           Rows(r) == {r.accounts[i].account : i \in 1 .. Len(r.accounts)}
           Counted(r) == r.unexplained + MapThenSumSet(LAMBDA b : r.ageBuckets[b], Buckets)
           ByAge(r) == \A i, j \in 1 .. Cardinality(NegativeUserAccounts) : i < j =>
                         \A b \in BucketOf(r.asOf - r.accounts[i].since),
                            c \in BucketOf(r.asOf - r.accounts[j].since) : b >= c
           Owes(c) == {a \in NegativeUserAccounts : CurrencyOf[a] = c}
           Exposed(r) == \A c \in {CurrencyOf[a] : a \in NegativeUserAccounts} :
                           /\ r.exposures[c].count = Cardinality(Owes(c))
                           /\ r.exposures[c].owed =
                                -MapThenSumSet(Signed, UNION {EntriesOf(a) : a \in Owes(c)})
           AddsUp(r) ==
             /\ Rows(r) = NegativeUserAccounts
             /\ Len(r.accounts) = Cardinality(NegativeUserAccounts)
             /\ Counted(r) = Cardinality(NegativeUserAccounts)
             /\ r.oldest = r.accounts[1].since
             /\ ByAge(r)
             /\ Exposed(r)
<1>2. ASSUME HistoryInv, NegativeUserAccounts # {}, NEW asOf \in AsOf
      PROVE  AddsUp(Report(asOf))
  <2>1. PICK r, n : r = Report(asOf) /\ n = Cardinality(NegativeUserAccounts)
    OBVIOUS
  <2>2. /\ Rows(r) = NegativeUserAccounts
        /\ Len(r.accounts) = n
        /\ r.oldest = r.accounts[1].since
        /\ ByAge(r)
    BY <1>1, <1>2, <2>1
  <2>3. Counted(r) = n
    <3>1. r.unexplained + SumOver(r.ageBuckets, Buckets) = n
      BY <1>1, <1>2, <2>1
    <3> QED
      BY <3>1, Zenon DEF SumOver
  <2>4. Exposed(r)
    <3>1. \A c \in {CurrencyOf[a] : a \in NegativeUserAccounts} :
            /\ r.exposures[c].count = Cardinality(Owes(c))
            /\ r.exposures[c].owed = -Total(UNION {EntriesOf(a) : a \in Owes(c)})
      BY <1>1, <1>2, <2>1
    <3> QED
      BY <3>1, Zenon DEF Total
  <2> HIDE DEF Report, Rows, Counted, ByAge, Exposed
  <2> QED
    BY <2>1, <2>2, <2>3, <2>4
<1>3. ReportAddsUp <=>
        (NegativeUserAccounts # {} =>
           \A r \in {Report(asOf) : asOf \in AsOf} : AddsUp(r))
  BY Zenon DEF ReportAddsUp
<1>4. HistoryInv => ReportAddsUp
  <2> HIDE DEF Report, AddsUp
  <2> QED
    BY <1>2, <1>3
<1>5. ReadsInductive => ReportAddsUp
  BY <1>4 DEF ReadsInductive
<1> QED
  BY <1>5, ReadsAreFaithful, PTL
=============================================================================
