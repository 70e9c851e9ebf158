-------------------------- MODULE CollectionsReport --------------------------
(***************************************************************************)
(* GET /collections: who owes money, how much, and since when.  One        *)
(* statement reads accounts and entries in one snapshot, so the report is  *)
(* an operator of the committed state: what holds of it in every state     *)
(* holds whenever it is asked for.                                         *)
(***************************************************************************)
EXTENDS LedgerHistory

CONSTANT AsOf  \* the days on which a report is asked for

ASSUME ReportAssumption == AsOf \subseteq Nat

NegativeUserAccounts == {a \in UserAccount : balance[a] < 0}

(* SUM(...) OVER (... ROWS BETWEEN UNBOUNDED PRECEDING AND CURRENT ROW).   *)
RunningBalance(e) ==
  MapThenSumSet(Signed, {f \in EntriesOf(e.account) : ~Older(e, f)})

(* LAG(running_balance, 1, 0).                                             *)
PreviousBalance(e) ==
  LET before == {f \in EntriesOf(e.account) : Older(f, e)}
  IN IF before = {} THEN 0
     ELSE RunningBalance(CHOOSE f \in before : \A g \in before : ~Older(f, g))

EpisodeStarts(a) ==
  {e \in EntriesOf(a) : RunningBalance(e) < 0 /\ PreviousBalance(e) >= 0}

(* Mutant of NegativeSince: the entry that first made it negative.         *)
NegativeSinceFirst(a) ==
  IF EpisodeStarts(a) = {} THEN None
  ELSE Min({e.occurredAt : e \in EpisodeStarts(a)})

(* The LEFT JOIN of the last episode's start.                              *)
NegativeSince(a) ==
  IF EpisodeStarts(a) = {} THEN None
  ELSE Max({e.occurredAt : e \in EpisodeStarts(a)})

NegativeBalances ==
  {[account |-> a, owner |-> Owner[a], currency |-> CurrencyOf[a],
    balance |-> balance[a], since |-> NegativeSince(a)] : a \in NegativeUserAccounts}

-----------------------------------------------------------------------------
(* GetCollectionsReport.                                                   *)

Dated(rows) == {r \in rows : r.since # None}

(* What sorted() puts before r: the unexplained, then the oldest; rows of  *)
(* one age are left as they came, here by account.                         *)
Before(s, r) ==
  \/ s.since = None /\ r.since # None
  \/ s.since # None /\ r.since # None /\ s.since < r.since
  \/ s.since = r.since /\ s.account < r.account

Ordered(rows) ==
  [i \in 1 .. Cardinality(rows) |->
     CHOOSE r \in rows : Cardinality({s \in rows : Before(s, r)}) = i - 1]

Exposures(rows) ==
  [c \in {r.currency : r \in rows} |->
     LET inC == {r \in rows : r.currency = c}
         Owed(r) == -r.balance
     IN [count |-> Cardinality(inC), owed |-> MapThenSumSet(Owed, inC)]]

(* _BUCKET_CEILINGS in days; the last bucket has none.                     *)
Ceilings == <<1, 7, 30>>
Buckets == 1 .. Len(Ceilings) + 1

(* Mutant of BucketOf: every ceiling above the age counts it.              *)
BucketOfAny(age) == {i \in Buckets : i = Len(Ceilings) + 1 \/ age < Ceilings[i]}

(* The first bucket whose ceiling is above the age.                        *)
BucketOf(age) == {Min({i \in Buckets : i = Len(Ceilings) + 1 \/ age < Ceilings[i]})}

AgeBuckets(rows, asOf) ==
  [b \in Buckets |-> Cardinality({r \in Dated(rows) : b \in BucketOf(asOf - r.since)})]

ReportOf(rows, asOf) ==
  LET dates == {r.since : r \in Dated(rows)}
  IN [asOf |-> asOf, accounts |-> Ordered(rows), exposures |-> Exposures(rows),
      ageBuckets |-> AgeBuckets(rows, asOf),
      unexplained |-> Cardinality(rows \ Dated(rows)),
      oldest |-> IF dates = {} THEN None ELSE Min(dates)]

(* Nobody but the operator is told who owes what.                          *)
Collections(caller, asOf) ==
  IF caller # Admin THEN "UnauthorizedPrincipalError"
  ELSE ReportOf(NegativeBalances, asOf)

-----------------------------------------------------------------------------
(* Properties.                                                             *)

(* The balance of account a after the first n rows were committed.         *)
CommittedBalance(a, n) ==
  MapThenSumSet(LAMBDA i : IF entries[i].account = a THEN Signed(entries[i]) ELSE 0, 1 .. n)

StampedInOrder(a) ==
  \A i, j \in DOMAIN entries :
    i < j /\ entries[i].account = a /\ entries[j].account = a => Older(entries[i], entries[j])

Crossings(a) ==
  {n \in DOMAIN entries : CommittedBalance(a, n) < 0 /\ CommittedBalance(a, n - 1) >= 0}

(* negative_balances.py, the current, still-open episode: in whatever      *)
(* order entries commit and are stamped, a negative account is explained,  *)
(* its date is the start of an episode, and by the stamps it has not       *)
(* recovered since; and where they were stamped in the order in which they *)
(* were applied, that is the posting that took it below zero last: the     *)
(* window functions find what UserAccount lived through.                   *)
DebtIsDated ==
  \A a \in NegativeUserAccounts :
    /\ \E s \in EpisodeStarts(a) :
         /\ NegativeSince(a) = s.occurredAt
         /\ \A e \in EntriesOf(a) : ~Older(e, s) => RunningBalance(e) < 0
    /\ StampedInOrder(a) => NegativeSince(a) = entries[Max(Crossings(a))].occurredAt

(* Every debt is in the report once: as a row, in the exposure of its      *)
(* currency, and in the bucket of its age; the exposures are what the      *)
(* entries say is owed; and an older debt stands before a younger one and  *)
(* never in a younger bucket.                                              *)
ReportAddsUp ==
  NegativeUserAccounts # {} =>
    LET reports == {Collections(Admin, asOf) : asOf \in AsOf}
        n == Cardinality(NegativeUserAccounts)
        Owes(c) == {a \in NegativeUserAccounts : CurrencyOf[a] = c}
    IN \A r \in reports :
         /\ {r.accounts[i].account : i \in 1 .. Len(r.accounts)} = NegativeUserAccounts
         /\ Len(r.accounts) = n
         /\ r.unexplained + MapThenSumSet(LAMBDA b : r.ageBuckets[b], Buckets) = n
         /\ r.oldest = r.accounts[1].since
         /\ \A i, j \in 1 .. n : i < j =>
              \A b \in BucketOf(r.asOf - r.accounts[i].since),
                 c \in BucketOf(r.asOf - r.accounts[j].since) : b >= c
         /\ \A c \in {CurrencyOf[a] : a \in NegativeUserAccounts} :
              /\ r.exposures[c].count = Cardinality(Owes(c))
              /\ r.exposures[c].owed =
                   -MapThenSumSet(Signed, UNION {EntriesOf(a) : a \in Owes(c)})
=============================================================================
