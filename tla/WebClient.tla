----------------------------- MODULE WebClient -----------------------------
(***************************************************************************)
(* The browser's side of moving money: MoveMoneyScreen, the retry policy   *)
(* of api/client.ts and the one pending operation of api/idempotency.ts.   *)
(* The tabs of a browser share its localStorage; an asynchronous call goes *)
(* on when its screen is left, and ends with its tab.  The network loses   *)
(* requests and answers, and may deliver a request after its sender gave   *)
(* up on it.  The service is the promise of Ledger: a key posts once.      *)
(***************************************************************************)
EXTENDS Naturals, FiniteSets

CONSTANTS
  Tab,       \* tabs of the browser
  Key,       \* idempotency keys crypto.randomUUID() may return
  Body,      \* what a form may ask for
  MaxCalls,  \* bound: executions of confirm() and resumeInterrupted()
  MaxTries,  \* RETRY_DELAYS_MS.length + 1
  None

Call == 1 .. MaxCalls

(* PendingOperation: the key minted for an intent, and the intent.         *)
Operation == [key : Key, body : Body]

(* What the error banner shows: whose failure it is (which the page does   *)
(* not remember), and whether it offers a Retry button.                    *)
Banner == [op : Operation, retry : BOOLEAN]

Statuses == {"created", "refused", "conflict", "not operational", "fault"}

ASSUME ClientAssumption ==
  /\ MaxCalls \in Nat
  /\ MaxTries \in Nat \ {0}
  /\ None \notin Tab \cup Call \cup Operation \cup Banner \cup Statuses

VARIABLES
  stored,  \* localStorage's scf.pendingOperation
  page,    \* [Tab -> the state of its MoveMoneyScreen]
  call,    \* [Call -> one execution of confirm() or resumeInterrupted()]
  wire,    \* requests on their way, [call, try, op, key]
  posted,  \* the service's transfers, [op, key]
  minted   \* the keys used so far

vars == <<stored, page, call, wire, posted, minted>>

Steps == {"away", "form", "confirm", "receipt"}
Phases == {"unused", "fetching", "sleeping", "over"}

(* App starts on another screen.                                           *)
Away == [step |-> "away", pending |-> None, interrupted |-> None,
         call |-> None, error |-> None, receipt |-> None]

NotRunning(phase) ==
  [tab |-> None, mounted |-> FALSE, op |-> None, kind |-> "submit",
   tries |-> 0, phase |-> phase, reply |-> None]

Unused == NotRunning("unused")
Over == NotRunning("over")

Init ==
  /\ stored = None
  /\ page = [t \in Tab |-> Away]
  /\ call = [c \in Call |-> Unused]
  /\ wire = {}
  /\ posted = {}
  /\ minted = {}

Running(c) == call[c].phase \in {"fetching", "sleeping"}
Visible(t) == page[t].step # "away"

-----------------------------------------------------------------------------
(* The screen.                                                             *)

Visit(t) ==
  /\ ~Visible(t)
  /\ page' = [page EXCEPT ![t] = [Away EXCEPT !.step = "form", !.interrupted = stored]]
  /\ UNCHANGED <<stored, call, wire, posted, minted>>

(* Leaving unmounts the screen; what it awaits goes on without it.         *)
Leave(t) ==
  /\ Visible(t)
  /\ page' = [page EXCEPT ![t] = Away]
  /\ call' = [c \in Call |-> IF call[c].tab = t THEN [call[c] EXCEPT !.mounted = FALSE]
                                                ELSE call[c]]
  /\ UNCHANGED <<stored, wire, posted, minted>>

(* A reload, or a closed tab, ends what it awaits (without any, it is a    *)
(* Leave).                                                                 *)
Reload(t) ==
  /\ \E c \in Call : call[c].tab = t /\ Running(c)
  /\ page' = [page EXCEPT ![t] = Away]
  /\ call' = [c \in Call |->
       IF call[c].tab = t THEN Over ELSE call[c]]
  /\ UNCHANGED <<stored, wire, posted, minted>>

(* Mutant of MintableKeys: a second review keeps the key of the first.     *)
MintableKeysOfStored(t) ==
  IF stored = None THEN Key \ minted ELSE {stored.key}

MintableKeys(t) == Key \ minted

(* review()                                                                *)
Review(t) ==
  /\ page[t].step = "form"
  /\ \E k \in MintableKeys(t), b \in Body :
       LET op == [key |-> k, body |-> b]
       IN  /\ stored' = op
           /\ page' = [page EXCEPT ![t].pending = op, ![t].step = "confirm"]
           /\ minted' = minted \cup {k}
  /\ UNCHANGED <<call, wire, posted>>

(* editForm(), which leaves the error banner where it is.                  *)
Edit(t) ==
  /\ page[t].step = "confirm"
  /\ stored' = None
  /\ page' = [page EXCEPT ![t].pending = None, ![t].step = "form"]
  /\ UNCHANGED <<call, wire, posted, minted>>

(* resetForm(): another mode, or "New movement" below a receipt.           *)
Reset(t) ==
  /\ Visible(t)
  /\ page' = [page EXCEPT ![t].step = "form", ![t].error = None,
                          ![t].receipt = None, ![t].pending = None]
  /\ UNCHANGED <<stored, call, wire, posted, minted>>

(* discardInterrupted()                                                    *)
Discard(t) ==
  /\ page[t].interrupted # None
  /\ stored' = None
  /\ page' = [page EXCEPT ![t].interrupted = None]
  /\ UNCHANGED <<call, wire, posted, minted>>

-----------------------------------------------------------------------------
(* Sending.                                                                *)

(* Mutant of KeySent: a key per attempt and not per intent.                *)
KeySentPerAttempt(op, n) == <<op.key, n>>

KeySent(op, n) == op.key

Request(c, op, n) == [call |-> c, try |-> n, op |-> op, key |-> KeySent(op, n)]

(* Mutant of Submitting: nothing disables the buttons.                     *)
SubmittingNever(t) == FALSE

(* What disables the buttons of both cards.                                *)
Submitting(t) == page[t].call # None

(* confirm() and resumeInterrupted() up to their first await.              *)
Start(t, op, kind) ==
  \E c \in Call :
    /\ call[c] = Unused
    /\ \A d \in Call : call[d] = Unused => c <= d
    /\ call' = [call EXCEPT ![c] =
         [tab |-> t, mounted |-> TRUE, op |-> op, kind |-> kind,
          tries |-> 1, phase |-> "fetching", reply |-> None]]
    /\ wire' = wire \cup {Request(c, op, 1)}
    /\ page' = [page EXCEPT ![t].call = c, ![t].error = None]
    /\ UNCHANGED <<stored, posted, minted>>

(* The Confirm button.                                                     *)
Confirm(t) ==
  /\ page[t].step = "confirm"
  /\ ~Submitting(t)
  /\ Start(t, page[t].pending, "submit")

(* The Retry button of ErrorBanner, never disabled: confirm() again.       *)
RetryShown(t) ==
  /\ page[t].step \in {"form", "confirm"}
  /\ page[t].error # None
  /\ page[t].error.retry

Retry(t) ==
  /\ RetryShown(t)
  /\ page[t].pending # None
  /\ Start(t, page[t].pending, "submit")

(* The Retry button of the interrupted banner.                             *)
Resume(t) ==
  /\ page[t].interrupted # None
  /\ ~Submitting(t)
  /\ Start(t, page[t].interrupted, "resume")

-----------------------------------------------------------------------------
(* The service and the network.                                            *)

(* What the service may answer to a request, with what it then has posted. *)
Outcome(m) ==
  LET mine == {x \in posted : x.key = m.key}
  IN  IF mine # {}
      THEN {[status |-> IF \E x \in mine : x.op.body = m.op.body
                        THEN "created" ELSE "conflict", posted |-> posted]}
      ELSE [status : {"refused", "not operational", "fault"}, posted : {posted}]
             \cup [status : {"created", "fault"},
                   posted : {posted \cup {[op |-> m.op, key |-> m.key]}}]

Awaited(m) == call[m.call].phase = "fetching" /\ call[m.call].tries = m.try

Serve(m) ==
  /\ \E o \in Outcome(m) :
       /\ posted' = o.posted
       /\ call' = IF Awaited(m) THEN [call EXCEPT ![m.call].reply = o.status] ELSE call
  /\ wire' = wire \ {m}
  /\ UNCHANGED <<stored, page, minted>>

LoseRequest(m) ==
  /\ wire' = wire \ {m}
  /\ UNCHANGED <<stored, page, call, posted, minted>>

-----------------------------------------------------------------------------
(* Receiving.                                                              *)

(* Mutant of IsSuccess: response.ok is not tested.                         *)
IsSuccessAlways(status) == TRUE

IsSuccess(status) == status = "created"

(* Mutant of StoredOnSuccess: the pending operation is not cleared.        *)
StoredOnSuccessKept == stored

(* clearPendingOperation()                                                 *)
StoredOnSuccess == None

Succeed(c) ==
  LET t == call[c].tab
      op == call[c].op
  IN  /\ stored' = StoredOnSuccess
      /\ call' = [call EXCEPT ![c] = Over]
      /\ page' = IF ~call[c].mounted THEN page ELSE
           [page EXCEPT ![t].call = None, ![t].receipt = op, ![t].step = "receipt",
              ![t].interrupted = IF call[c].kind = "resume" THEN None ELSE @]

(* Mutant of MayRetry: one delay too many.                                 *)
MayRetryOnceMore(c, retryable) ==
  retryable /\ call[c].kind = "submit" /\ call[c].tries <= MaxTries

(* Only a submission retries by itself; a resumed one is tried once.       *)
MayRetry(c, retryable) ==
  retryable /\ call[c].kind = "submit" /\ call[c].tries < MaxTries

Fail(c, retryable) ==
  LET t == call[c].tab
  IN  /\ call' = [call EXCEPT ![c] = IF MayRetry(c, retryable)
                                    THEN [@ EXCEPT !.phase = "sleeping", !.reply = None]
                                    ELSE Over]
      /\ page' = IF MayRetry(c, retryable) \/ ~call[c].mounted THEN page ELSE
           [page EXCEPT ![t].call = None,
              ![t].error = [op |-> call[c].op, retry |-> retryable]]
      /\ UNCHANGED stored

Settle(c) ==
  /\ call[c].phase = "fetching"
  /\ call[c].reply # None
  /\ IF IsSuccess(call[c].reply) THEN Succeed(c) ELSE Fail(c, call[c].reply = "fault")
  /\ UNCHANGED <<wire, posted, minted>>

(* fetch rejects: the request, or its answer, never arrived in time.       *)
Unreachable(c) ==
  /\ call[c].phase = "fetching"
  /\ Fail(c, TRUE)
  /\ UNCHANGED <<wire, posted, minted>>

(* The connection breaks after the headers: reading the body throws what   *)
(* is no ApiError, so nobody retries and no banner is set.                 *)
CutShort(c) ==
  /\ call[c].phase = "fetching"
  /\ call[c].reply # None
  /\ call' = [call EXCEPT ![c] = Over]
  /\ page' = IF call[c].mounted THEN [page EXCEPT ![call[c].tab].call = None] ELSE page
  /\ UNCHANGED <<stored, wire, posted, minted>>

(* Mutant of TryAfter: the loop does not count its attempts.               *)
TryAfterUncounted(n) == n

TryAfter(n) == n + 1

(* sleep() is over: the next attempt of postMoneyMovementWithRetry.        *)
Wake(c) ==
  LET n == TryAfter(call[c].tries)
  IN  /\ call[c].phase = "sleeping"
      /\ call' = [call EXCEPT ![c].phase = "fetching", ![c].tries = n]
      /\ wire' = wire \cup {Request(c, call[c].op, n)}
      /\ UNCHANGED <<stored, page, posted, minted>>

Use(t) ==
  \/ Visit(t) \/ Leave(t) \/ Reload(t) \/ Review(t) \/ Edit(t) \/ Reset(t)
  \/ Discard(t) \/ Confirm(t) \/ Retry(t) \/ Resume(t)

Progress(c) == Settle(c) \/ Unreachable(c) \/ CutShort(c) \/ Wake(c)

Next ==
  \/ \E t \in Tab : Use(t)
  \/ \E c \in Call : Progress(c)
  \/ \E m \in wire : Serve(m) \/ LoseRequest(m)

(* fetch always settles, and timers fire; users and the network are free.  *)
Fairness == \A c \in Call : WF_vars(Progress(c))

Spec == Init /\ [][Next]_vars /\ Fairness
-----------------------------------------------------------------------------
(* Properties.                                                             *)

Page ==
  [step : Steps, pending : Operation \cup {None}, interrupted : Operation \cup {None},
   call : Call \cup {None}, error : Banner \cup {None}, receipt : Operation \cup {None}]

Execution ==
  [tab : Tab \cup {None}, mounted : BOOLEAN, op : Operation \cup {None},
   kind : {"submit", "resume"}, tries : 0 .. MaxTries, phase : Phases,
   reply : Statuses \cup {None}]

(* Every variable holds what the storage, the page or the message can; in  *)
(* particular no call sends its request more than MaxTries times.          *)
TypeOK ==
  /\ stored \in Operation \cup {None}
  /\ page \in [Tab -> Page]
  /\ call \in [Call -> Execution]
  /\ wire \subseteq [call : Call, try : 1 .. MaxTries, op : Operation, key : Key]
  /\ posted \subseteq [op : Operation, key : Key]
  /\ minted \subseteq Key

(* A page has one submission at a time, although the banner's Retry button *)
(* is not disabled: submitting starts by removing the banner.              *)
OneCallPerPage ==
  \A t \in Tab : \A c \in Call :
    (Running(c) /\ call[c].mounted /\ call[c].tab = t) => page[t].call = c

(* However often an operation is retried, resumed, or found again by       *)
(* another tab, and whatever the network does, it moves money once.        *)
OncePerIntent ==
  \A x, y \in posted : x.op = y.op => x = y

(* No sequence of clicks makes the client send one key with two bodies.    *)
NeverAConflict ==
  \A c \in Call : call[c].reply # "conflict"

(* A receipt is only shown for a transfer the service has posted, and that *)
(* operation is not offered again when a page is opened later.             *)
ReceiptIsTrue ==
  \A t \in Tab : page[t].receipt # None =>
    /\ \E x \in posted : x.op = page[t].receipt
    /\ stored # page[t].receipt

(* Every submission ends: the buttons it disabled are enabled again.       *)
EverySubmissionEnds ==
  \A t \in Tab : page[t].call # None ~> page[t].call = None

(* docs/web-ui-plan.md: the Retry button still reuses the same key.        *)
RetryCarriesTheSameKey ==
  \A t \in Tab :
    RetryShown(t) /\ page[t].pending # None => page[t].pending = page[t].error.op
=============================================================================
