-------------------------- MODULE WebClientProofs --------------------------
(* The client moves money once per intent, for any number of tabs, calls   *)
(* and attempts.                                                           *)
EXTENDS WebClient, TLAPS

-----------------------------------------------------------------------------
(* The inductive invariant.                                                *)

(* The operations that are still anywhere.                                 *)
OnPage(op) ==
  \E t \in Tab :
    \/ op \in {page[t].pending, page[t].interrupted, page[t].receipt}
    \/ page[t].error # None /\ op = page[t].error.op

InUse(op) ==
  \/ op = stored
  \/ OnPage(op)
  \/ \E c \in Call : op = call[c].op
  \/ \E m \in wire : op = m.op
  \/ \E x \in posted : op = x.op

(* Their keys are minted, and a key belongs to one of them.                *)
KeysMinted == \A op \in Operation : InUse(op) => op.key \in minted

OneIntentPerKey ==
  \A x, y \in Operation : InUse(x) /\ InUse(y) /\ x.key = y.key => x = y

(* Requests and transfers carry their operation's key, and an operation    *)
(* is sent by running calls under its own name.                            *)
RequestsOK ==
  /\ \A m \in wire :
       /\ m.key = m.op.key
       /\ call[m.call].phase # "unused"
       /\ Running(m.call) => m.op = call[m.call].op
  /\ \A x \in posted : x.key = x.op.key

(* What a call relies on: who awaits it, and what it has been told.        *)
CallOK(c) ==
  /\ Running(c) => call[c].tab \in Tab /\ call[c].op \in Operation
  /\ call[c].phase = "sleeping" => call[c].tries < MaxTries
  /\ call[c].phase = "unused" => call[c] = Unused
  /\ call[c].reply # "conflict"
  /\ call[c].reply = "created" => \E x \in posted : x.op = call[c].op
  /\ Running(c) /\ call[c].mounted => page[call[c].tab].call = c

(* While a page awaits a call it shows no error, so no Retry button.       *)
PageOK(t) ==
  page[t].call # None =>
    /\ page[t].error = None
    /\ Running(page[t].call)
    /\ call[page[t].call].mounted
    /\ call[page[t].call].tab = t

(* What the screen shows follows from what it is doing.                    *)
PageStepOK(t) ==
  /\ page[t].step = "away" => page[t].call = None /\ page[t].interrupted = None
  /\ page[t].step = "confirm" => page[t].pending # None

(* What every reachable state satisfies.                                   *)
ClientInductive ==
  /\ TypeOK
  /\ KeysMinted
  /\ OneIntentPerKey
  /\ RequestsOK
  /\ \A c \in Call : CallOK(c)
  /\ \A t \in Tab : PageOK(t) /\ PageStepOK(t)
  /\ ReceiptIsTrue


-----------------------------------------------------------------------------
(* The rows the steps' proofs share.                                       *)

(* A step that brings no operation in keeps what is said of all of them.   *)
LEMMA SameOperations ==
  ASSUME KeysMinted, OneIntentPerKey, minted' = minted,
         \A op \in Operation : InUse(op)' => InUse(op)
  PROVE  KeysMinted' /\ OneIntentPerKey'
BY DEF KeysMinted, OneIntentPerKey

(* The records that are written keep their types.                          *)
LEMMA PageTypes ==
  /\ Away \in Page
  /\ \A p \in Page :
       /\ [p EXCEPT !.step = "form", !.error = None, !.receipt = None, !.pending = None] \in Page
       /\ \A c \in Call : [p EXCEPT !.call = c, !.error = None] \in Page
       /\ \A b \in Banner \cup {None} : [p EXCEPT !.call = None, !.error = b] \in Page
       /\ \A o \in Operation, i \in Operation \cup {None} :
            [p EXCEPT !.call = None, !.receipt = o, !.step = "receipt", !.interrupted = i] \in Page
BY ClientAssumption DEF Page, Away, Steps

LEMMA CallTypes ==
  /\ Unused \in Execution /\ Over \in Execution
  /\ \A e \in Execution : [e EXCEPT !.mounted = FALSE] \in Execution
<1>1. Unused \in Execution /\ Over \in Execution
  BY ClientAssumption DEF Execution, Unused, Over, NotRunning, Phases
<1>2. \A e \in Execution : [e EXCEPT !.mounted = FALSE] \in Execution
  BY DEF Execution
<1> QED BY <1>1, <1>2

(* What is asked of a call that is over.                                   *)
LEMMA OverOK ==
  ASSUME NEW c \in Call, call'[c] = Over
  PROVE  CallOK(c)'
<1>1. Over.phase = "over" /\ Over.reply = None
  BY DEF Over, NotRunning
<1>2. None # "created" /\ None # "conflict"
  BY ClientAssumption DEF Statuses
<1> QED BY <1>1, <1>2 DEF CallOK, Running

(* The screen comes up empty.                                              *)
LEMMA ClientInit == Init => ClientInductive
<1> SUFFICES ASSUME Init PROVE ClientInductive
  OBVIOUS
<1>1. TypeOK
  BY PageTypes, CallTypes DEF Init, TypeOK
<1>2. KeysMinted /\ OneIntentPerKey
  BY ClientAssumption
     DEF Init, KeysMinted, OneIntentPerKey, InUse, OnPage, Away, Unused, NotRunning
<1>3. RequestsOK
  BY DEF Init, RequestsOK
<1>4. \A c \in Call : CallOK(c)
  BY ClientAssumption DEF Init, CallOK, Running, Unused, NotRunning, Statuses
<1>5. \A t \in Tab : PageOK(t) /\ PageStepOK(t)
  BY DEF Init, PageOK, PageStepOK, Away
<1>6. ReceiptIsTrue
  BY DEF Init, ReceiptIsTrue, Away
<1> QED BY <1>1, <1>2, <1>3, <1>4, <1>5, <1>6 DEF ClientInductive

(* The screen is opened.                                                   *)
LEMMA VisitKeeps ==
  ASSUME ClientInductive, NEW t \in Tab, Visit(t)
  PROVE  ClientInductive'
<1> USE ClientAssumption DEF ClientInductive, TypeOK, Visit, Visible, Away
<1>1. TypeOK'
  <2>1. page' \in [Tab -> Page]
    BY DEF Page, Steps, Banner
  <2>2. call' \in [Call -> Execution]
    BY DEF Execution, Phases
  <2> QED BY <2>1, <2>2
<1>2. \A op \in Operation : InUse(op)' => InUse(op)
  BY DEF InUse, OnPage
<1>3. KeysMinted' /\ OneIntentPerKey'
  BY <1>2, SameOperations
<1>4. RequestsOK'
  BY DEF RequestsOK, Running
<1>5. \A c \in Call : CallOK(c)'
  <2> SUFFICES ASSUME NEW c \in Call PROVE CallOK(c)'
    OBVIOUS
  <2>1. CallOK(c) /\ call[c] \in Execution
    OBVIOUS
  <2> QED BY <2>1 DEF CallOK, PageOK, PageStepOK, Running, Execution
<1>6. \A o \in Tab : PageOK(o)' /\ PageStepOK(o)'
  BY DEF PageOK, PageStepOK, CallOK, Running, Page
<1>7. ReceiptIsTrue'
  BY DEF ReceiptIsTrue
<1> QED BY <1>1, <1>3, <1>4, <1>5, <1>6, <1>7

(* The screen is left.                                                     *)
LEMMA LeaveKeeps ==
  ASSUME ClientInductive, NEW t \in Tab, Leave(t)
  PROVE  ClientInductive'
<1> USE ClientAssumption DEF ClientInductive, TypeOK, Leave, Visible, Away
<1>1. TypeOK'
  <2>1. page' \in [Tab -> Page]
    BY DEF Page, Steps, Banner
  <2>2. call' \in [Call -> Execution]
    BY CallTypes
  <2> QED BY <2>1, <2>2
<1>2. \A op \in Operation : InUse(op)' => InUse(op)
  BY DEF InUse, OnPage
<1>3. KeysMinted' /\ OneIntentPerKey'
  BY <1>2, SameOperations
<1>4. RequestsOK'
  BY DEF RequestsOK, Running
<1>5. \A c \in Call : CallOK(c)'
  <2> SUFFICES ASSUME NEW c \in Call PROVE CallOK(c)'
    OBVIOUS
  <2>1. CallOK(c) /\ call[c] \in Execution
    OBVIOUS
  <2>2. CASE call[c].tab = t
    <3>1. call'[c] = [call[c] EXCEPT !.mounted = FALSE] /\ call[c] # Unused
      BY <2>2 DEF Unused, NotRunning
    <3> QED BY <2>1, <3>1 DEF CallOK, Running, Execution
  <2>3. CASE call[c].tab # t
    <3>1. call'[c] = call[c] /\ (call[c].tab \in Tab => page'[call[c].tab] = page[call[c].tab])
      BY <2>3
    <3> QED BY <2>1, <3>1 DEF CallOK, Running
  <2> QED BY <2>2, <2>3
<1>6. \A o \in Tab : PageOK(o)' /\ PageStepOK(o)'
  BY DEF PageOK, PageStepOK, CallOK, Running, Page
<1>7. ReceiptIsTrue'
  BY DEF ReceiptIsTrue
<1> QED BY <1>1, <1>3, <1>4, <1>5, <1>6, <1>7

(* The tab is reloaded.                                                    *)
LEMMA ReloadKeeps ==
  ASSUME ClientInductive, NEW t \in Tab, Reload(t)
  PROVE  ClientInductive'
<1> USE ClientAssumption DEF ClientInductive, TypeOK, Reload, Away
<1>1. TypeOK'
  <2>1. page' \in [Tab -> Page]
    BY DEF Page, Steps, Banner
  <2>2. call' \in [Call -> Execution]
    BY CallTypes
  <2> QED BY <2>1, <2>2
<1>2. \A op \in Operation : InUse(op)' => InUse(op)
  BY DEF InUse, OnPage, Over, NotRunning
<1>3. KeysMinted' /\ OneIntentPerKey'
  BY <1>2, SameOperations
<1>4. RequestsOK'
  BY DEF RequestsOK, Running, Over, NotRunning
<1>5. \A c \in Call : CallOK(c)'
  <2> SUFFICES ASSUME NEW c \in Call PROVE CallOK(c)'
    OBVIOUS
  <2>1. CallOK(c) /\ call[c] \in Execution
    OBVIOUS
  <2>2. CASE call[c].tab = t
    <3>1. call'[c] = Over
      BY <2>2
    <3> QED BY <3>1, OverOK
  <2>3. CASE call[c].tab # t
    <3>1. call'[c] = call[c] /\ (call[c].tab \in Tab => page'[call[c].tab] = page[call[c].tab])
      BY <2>3
    <3> QED BY <2>1, <3>1 DEF CallOK, Running
  <2> QED BY <2>2, <2>3
<1>6. \A o \in Tab : PageOK(o)' /\ PageStepOK(o)'
  BY DEF PageOK, PageStepOK, CallOK, Running, Page, Over, NotRunning
<1>7. ReceiptIsTrue'
  BY DEF ReceiptIsTrue
<1> QED BY <1>1, <1>3, <1>4, <1>5, <1>6, <1>7

(* editForm()                                                              *)
LEMMA EditKeeps ==
  ASSUME ClientInductive, NEW t \in Tab, Edit(t)
  PROVE  ClientInductive'
<1> USE ClientAssumption DEF ClientInductive, TypeOK, Edit
<1>1. TypeOK'
  <2>1. page' \in [Tab -> Page]
    BY DEF Page, Steps, Banner
  <2>2. call' \in [Call -> Execution]
    BY DEF Execution, Phases
  <2> QED BY <2>1, <2>2
<1>2. \A op \in Operation : InUse(op)' => InUse(op)
  BY DEF InUse, OnPage
<1>3. KeysMinted' /\ OneIntentPerKey'
  BY <1>2, SameOperations
<1>4. RequestsOK'
  BY DEF RequestsOK, Running
<1>5. \A c \in Call : CallOK(c)'
  <2> SUFFICES ASSUME NEW c \in Call PROVE CallOK(c)'
    OBVIOUS
  <2>1. CallOK(c) /\ call[c] \in Execution
    OBVIOUS
  <2> QED BY <2>1 DEF CallOK, PageOK, PageStepOK, Running, Execution
<1>6. \A o \in Tab : PageOK(o)' /\ PageStepOK(o)'
  BY DEF PageOK, PageStepOK, CallOK, Running, Page
<1>7. ReceiptIsTrue'
  BY DEF ReceiptIsTrue
<1> QED BY <1>1, <1>3, <1>4, <1>5, <1>6, <1>7

(* resetForm()                                                             *)
LEMMA ResetKeeps ==
  ASSUME ClientInductive, NEW t \in Tab, Reset(t)
  PROVE  ClientInductive'
<1> USE ClientAssumption DEF ClientInductive, TypeOK, Reset, Visible
<1>1. TypeOK'
  <2>1. page' \in [Tab -> Page]
    <3> HIDE DEF ClientInductive, TypeOK, Reset
    <3> DEFINE p == [page[t] EXCEPT !.step = "form", !.error = None,
                                    !.receipt = None, !.pending = None]
    <3>1. page \in [Tab -> Page]
      BY DEF ClientInductive, TypeOK
    <3>2. page' = [page EXCEPT ![t] = p]
      BY <3>1 DEF Reset
    <3>3. p \in Page
      BY <3>1, PageTypes
    <3> HIDE DEF p
    <3> QED BY <3>1, <3>2, <3>3
  <2>2. call' \in [Call -> Execution]
    BY DEF Execution, Phases
  <2> QED BY <2>1, <2>2
<1>2. \A op \in Operation : InUse(op)' => InUse(op)
  BY DEF InUse, OnPage
<1>3. KeysMinted' /\ OneIntentPerKey'
  BY <1>2, SameOperations
<1>4. RequestsOK'
  BY DEF RequestsOK, Running
<1>5. \A c \in Call : CallOK(c)'
  <2> SUFFICES ASSUME NEW c \in Call PROVE CallOK(c)'
    OBVIOUS
  <2>1. CallOK(c) /\ call[c] \in Execution
    OBVIOUS
  <2> QED BY <2>1 DEF CallOK, PageOK, PageStepOK, Running, Execution
<1>6. \A o \in Tab : PageOK(o)' /\ PageStepOK(o)'
  BY DEF PageOK, PageStepOK, CallOK, Running, Page
<1>7. ReceiptIsTrue'
  BY DEF ReceiptIsTrue
<1> QED BY <1>1, <1>3, <1>4, <1>5, <1>6, <1>7

(* discardInterrupted()                                                    *)
LEMMA DiscardKeeps ==
  ASSUME ClientInductive, NEW t \in Tab, Discard(t)
  PROVE  ClientInductive'
<1> USE ClientAssumption DEF ClientInductive, TypeOK, Discard
<1>1. TypeOK'
  <2>1. page' \in [Tab -> Page]
    BY DEF Page, Steps, Banner
  <2>2. call' \in [Call -> Execution]
    BY DEF Execution, Phases
  <2> QED BY <2>1, <2>2
<1>2. \A op \in Operation : InUse(op)' => InUse(op)
  BY DEF InUse, OnPage
<1>3. KeysMinted' /\ OneIntentPerKey'
  BY <1>2, SameOperations
<1>4. RequestsOK'
  BY DEF RequestsOK, Running
<1>5. \A c \in Call : CallOK(c)'
  <2> SUFFICES ASSUME NEW c \in Call PROVE CallOK(c)'
    OBVIOUS
  <2>1. CallOK(c) /\ call[c] \in Execution
    OBVIOUS
  <2> QED BY <2>1 DEF CallOK, PageOK, PageStepOK, Running, Execution
<1>6. \A o \in Tab : PageOK(o)' /\ PageStepOK(o)'
  BY DEF PageOK, PageStepOK, CallOK, Running, Page
<1>7. ReceiptIsTrue'
  BY DEF ReceiptIsTrue
<1> QED BY <1>1, <1>3, <1>4, <1>5, <1>6, <1>7

(* A step that brings in one operation under a fresh key keeps it, too.    *)
LEMMA FreshOperation ==
  ASSUME KeysMinted, OneIntentPerKey, NEW op \in Operation,
         op.key \notin minted, minted' = minted \cup {op.key},
         \A o \in Operation : InUse(o)' => InUse(o) \/ o = op
  PROVE  KeysMinted' /\ OneIntentPerKey'
BY DEF KeysMinted, OneIntentPerKey

(* review()                                                                *)
LEMMA ReviewKeeps ==
  ASSUME ClientInductive, NEW t \in Tab, Review(t)
  PROVE  ClientInductive'
<1> USE ClientAssumption DEF ClientInductive, TypeOK
<1>1. PICK k \in Key \ minted, b \in Body :
        /\ stored' = [key |-> k, body |-> b]
        /\ page' = [page EXCEPT ![t].pending = [key |-> k, body |-> b], ![t].step = "confirm"]
        /\ minted' = minted \cup {k}
  BY DEF Review, MintableKeys
<1> DEFINE op == [key |-> k, body |-> b]
<1>2. op \in Operation /\ op.key = k /\ op # None
  BY DEF Operation
<1>3. stored' = op /\ page' = [page EXCEPT ![t] = [@ EXCEPT !.pending = op, !.step = "confirm"]]
  BY <1>1
<1>4. page[t].step = "form" /\ UNCHANGED <<call, wire, posted>>
  BY DEF Review
<1> HIDE DEF op
<1>5. TypeOK'
  <2>1. page' \in [Tab -> Page]
    BY <1>2, <1>3 DEF Page, Steps, Banner
  <2> QED BY <2>1, <1>1, <1>2, <1>3, <1>4
<1>6. KeysMinted' /\ OneIntentPerKey'
  <2>1. \A o \in Operation : InUse(o)' => InUse(o) \/ o = op
    BY <1>3, <1>4 DEF InUse, OnPage
  <2> QED BY <2>1, <1>1, <1>2, FreshOperation
<1>7. RequestsOK'
  BY <1>4 DEF RequestsOK, Running
<1>8. \A c \in Call : CallOK(c)'
  <2> SUFFICES ASSUME NEW c \in Call PROVE CallOK(c)'
    OBVIOUS
  <2>1. CallOK(c) /\ call[c] \in Execution
    OBVIOUS
  <2> QED BY <2>1, <1>3, <1>4 DEF CallOK, Running, Execution
<1>9. \A o \in Tab : PageOK(o)' /\ PageStepOK(o)'
  BY <1>2, <1>3, <1>4 DEF PageOK, PageStepOK, Running, Page
<1>10. ReceiptIsTrue'
  <2>1. \A o \in Tab : page'[o].receipt = page[o].receipt
    BY <1>3 DEF Page
  <2>2. \A o \in Tab : page[o].receipt # None => page[o].receipt # op
    <3> SUFFICES ASSUME NEW o \in Tab, page[o].receipt # None PROVE page[o].receipt # op
      OBVIOUS
    <3>1. page[o].receipt \in Operation /\ InUse(page[o].receipt)
      BY DEF InUse, OnPage, Page
    <3> QED BY <3>1, <1>2, <1>1 DEF KeysMinted
  <2> QED BY <2>1, <2>2, <1>3, <1>4 DEF ReceiptIsTrue
<1> QED BY <1>5, <1>6, <1>7, <1>8, <1>9, <1>10

(* A call is started, for an operation of a page that awaits none.         *)
LEMMA StartKeeps ==
  ASSUME ClientInductive, NEW t \in Tab, NEW op \in Operation, InUse(op),
         page[t].step # "away", page[t].call = None,
         NEW kind \in {"submit", "resume"}, Start(t, op, kind)
  PROVE  ClientInductive'
<1> USE ClientAssumption DEF ClientInductive, TypeOK
<1> DEFINE e == [tab |-> t, mounted |-> TRUE, op |-> op, kind |-> kind,
                 tries |-> 1, phase |-> "fetching", reply |-> None]
<1>1. PICK c \in Call :
        /\ call[c] = Unused
        /\ call' = [call EXCEPT ![c] = e]
        /\ wire' = wire \cup {[call |-> c, try |-> 1, op |-> op, key |-> op.key]}
        /\ page' = [page EXCEPT ![t].call = c, ![t].error = None]
  <2> HIDE DEF ClientInductive, TypeOK
  <2> QED BY DEF Start, Request, KeySent
<1>2. UNCHANGED <<stored, posted, minted>>
  BY DEF Start
<1>3. /\ call'[c] = e
      /\ \A d \in Call : d # c => call'[d] = call[d]
      /\ ~Running(c) /\ call[c].phase = "unused"
  BY <1>1 DEF Running, Unused, NotRunning
<1>4. e \in Execution /\ op.key \in Key
  BY DEF Execution, Phases, Operation
<1>5. /\ e.tab = t /\ e.mounted = TRUE /\ e.op = op
      /\ e.phase = "fetching" /\ e.reply = None
  OBVIOUS
<1> HIDE DEF e
<1>6. TypeOK'
  <2>1. page' \in [Tab -> Page]
    <3> DEFINE p == [page[t] EXCEPT !.call = c, !.error = None]
    <3>1. page' = [page EXCEPT ![t] = p]
      BY <1>1
    <3>2. p \in Page
      <4> HIDE DEF ClientInductive
      <4> QED BY PageTypes DEF ClientInductive
    <3> HIDE DEF p
    <3> QED BY <3>1, <3>2
  <2>2. call' \in [Call -> Execution]
    BY <1>1, <1>4
  <2>3. wire' \subseteq [call : Call, try : 1 .. MaxTries, op : Operation, key : Key]
    BY <1>1, <1>4
  <2> QED BY <2>1, <2>2, <2>3, <1>2
<1>7. KeysMinted' /\ OneIntentPerKey'
  <2>1. \A o \in Operation : InUse(o)' => InUse(o)
    <3> SUFFICES ASSUME NEW o \in Operation, InUse(o)', o # op PROVE InUse(o)
      OBVIOUS
    <3>1. OnPage(o)' => OnPage(o)
      BY <1>1 DEF OnPage
    <3>2. (\E d \in Call : o = call'[d].op) => \E d \in Call : o = call[d].op
      BY <1>3, <1>5
    <3>3. (\E m \in wire' : o = m.op) => \E m \in wire : o = m.op
      BY <1>1
    <3> QED BY <3>1, <3>2, <3>3, <1>2 DEF InUse
  <2> QED BY <2>1, <1>2, SameOperations
<1>8. RequestsOK'
  <2>1. \A m \in wire : m.call # c
    BY <1>3 DEF RequestsOK
  <2>2. \A m \in wire : call'[m.call] = call[m.call]
    BY <2>1, <1>3
  <2> QED BY <2>2, <1>1, <1>2, <1>3, <1>5 DEF RequestsOK, Running
<1>9. \A d \in Call : CallOK(d)'
  <2> SUFFICES ASSUME NEW d \in Call PROVE CallOK(d)'
    OBVIOUS
  <2>1. CASE d = c
    <3>1. page'[t].call = c
      BY <1>1 DEF Page
    <3>2. e.reply # "created" /\ e.reply # "conflict" /\ call'[d] = e
      BY <2>1, <1>3, <1>5 DEF Statuses
    <3> QED BY <2>1, <3>1, <3>2, <1>5 DEF CallOK, Running
  <2>2. CASE d # c
    <3>1. CallOK(d) /\ call'[d] = call[d] /\ c # None
      BY <2>2, <1>3
    <3>2. Running(d) /\ call[d].mounted => call[d].tab \in Tab \ {t}
      BY <3>1 DEF CallOK
    <3>3. \A o \in Tab \ {t} : page'[o] = page[o]
      BY <1>1
    <3> QED BY <3>1, <3>2, <3>3, <1>2 DEF CallOK, Running
  <2> QED BY <2>1, <2>2
<1>10. \A o \in Tab : PageOK(o)' /\ PageStepOK(o)'
  <2> SUFFICES ASSUME NEW o \in Tab PROVE PageOK(o)' /\ PageStepOK(o)'
    OBVIOUS
  <2>1. CASE o = t
    <3>1. /\ page'[t].call = c /\ page'[t].error = None
          /\ page'[t].step = page[t].step /\ page'[t].pending = page[t].pending
      BY <1>1 DEF Page
    <3> QED BY <2>1, <3>1, <1>3, <1>5 DEF PageOK, PageStepOK, Running
  <2>2. CASE o # t
    <3>1. page'[o] = page[o] /\ PageOK(o) /\ PageStepOK(o)
      BY <2>2, <1>1
    <3>2. page[o].call # None => call'[page[o].call] = call[page[o].call]
      <4>1. page[o].call \in Call \cup {None}
        BY DEF Page
      <4> QED BY <4>1, <3>1, <1>3 DEF PageOK
    <3> QED BY <3>1, <3>2 DEF PageOK, PageStepOK, Running
  <2> QED BY <2>1, <2>2
<1>11. ReceiptIsTrue'
  <2>1. \A o \in Tab : page'[o].receipt = page[o].receipt
    BY <1>1 DEF Page
  <2> QED BY <2>1, <1>2 DEF ReceiptIsTrue
<1> QED BY <1>6, <1>7, <1>8, <1>9, <1>10, <1>11

(* The service answers a request: never with a conflict, because what it   *)
(* has posted under the key is this operation.                             *)
LEMMA ServeKeeps ==
  ASSUME ClientInductive, NEW m \in wire, Serve(m)
  PROVE  ClientInductive'
<1> USE ClientAssumption DEF ClientInductive, TypeOK
<1>1. PICK o \in Outcome(m) :
        /\ posted' = o.posted
        /\ call' = IF Awaited(m) THEN [call EXCEPT ![m.call].reply = o.status] ELSE call
  BY DEF Serve
<1>2. wire' = wire \ {m} /\ UNCHANGED <<stored, page, minted>>
  BY DEF Serve
<1>3. m.call \in Call /\ m.op \in Operation /\ m.key \in Key /\ m.key = m.op.key
  BY DEF RequestsOK
<1> DEFINE new == [op |-> m.op, key |-> m.key]
<1>4. /\ posted' \in {posted, posted \cup {new}}
      /\ o.status \in Statuses \ {"conflict"}
      /\ o.status = "created" => \E x \in posted' : x.op = m.op
  <2> DEFINE mine == {x \in posted : x.key = m.key}
  <2>1. CASE mine # {}
    <3>1. PICK x \in posted : x.key = m.key
      BY <2>1
    <3>2. x.op = m.op
      <4>1. x.op \in Operation /\ InUse(x.op) /\ InUse(m.op)
        BY <1>3, <3>1 DEF InUse
      <4>2. x.op.key = m.op.key
        BY <1>3, <3>1 DEF RequestsOK
      <4> QED BY <1>3, <4>1, <4>2 DEF OneIntentPerKey
    <3>3. o = [status |-> "created", posted |-> posted]
      BY <2>1, <3>1, <3>2 DEF Outcome
    <3>4. posted' = posted /\ o.status = "created"
      BY <1>1, <3>3
    <3> QED BY <3>1, <3>2, <3>4 DEF Statuses
  <2>2. CASE mine = {}
    <3>1. \/ o \in [status : {"refused", "not operational", "fault"}, posted : {posted}]
          \/ o \in [status : {"created", "fault"}, posted : {posted \cup {new}}]
      BY <2>2 DEF Outcome
    <3>2. /\ o.status \in {"refused", "not operational", "fault", "created"}
          /\ \/ posted' = posted /\ o.status # "created"
             \/ posted' = posted \cup {new}
      BY <1>1, <3>1
    <3>3. new \in posted \cup {new} /\ new.op = m.op
      OBVIOUS
    <3> HIDE DEF new
    <3> QED BY <3>2, <3>3 DEF Statuses
  <2> QED BY <2>1, <2>2
<1>5. new \in [op : Operation, key : Key] /\ new.op = m.op /\ new.key = new.op.key
  BY <1>3
<1> HIDE DEF new
<1>6. \A c \in Call :
        /\ call'[c] \in Execution
        /\ call'[c] = call[c] \/
             /\ c = m.call /\ call[c].phase = "fetching"
             /\ call'[c] = [call[c] EXCEPT !.reply = o.status]
  BY <1>1, <1>3, <1>4 DEF Awaited, Execution
<1>7. \A c \in Call :
        /\ call'[c].tab = call[c].tab /\ call'[c].mounted = call[c].mounted
        /\ call'[c].op = call[c].op /\ call'[c].phase = call[c].phase
        /\ call'[c].tries = call[c].tries
  <2> SUFFICES ASSUME NEW c \in Call, call'[c] = [call[c] EXCEPT !.reply = o.status]
               PROVE  /\ call'[c].tab = call[c].tab /\ call'[c].mounted = call[c].mounted
                      /\ call'[c].op = call[c].op /\ call'[c].phase = call[c].phase
                      /\ call'[c].tries = call[c].tries
    BY <1>6
  <2>1. call[c] \in Execution
    OBVIOUS
  <2> HIDE DEF ClientInductive, TypeOK
  <2> QED BY <2>1 DEF Execution
<1>8. TypeOK'
  <2>1. call' \in [Call -> Execution]
    <3>1. call' \in [Call -> Execution] \/ call' = [call EXCEPT ![m.call].reply = o.status]
      BY <1>1
    <3> QED BY <3>1, <1>6
  <2>2. posted' \subseteq [op : Operation, key : Key]
    BY <1>4, <1>5
  <2> QED BY <2>1, <2>2, <1>2
<1>9. KeysMinted' /\ OneIntentPerKey'
  <2>1. \A op \in Operation : InUse(op)' => InUse(op)
    <3> SUFFICES ASSUME NEW op \in Operation, InUse(op)' PROVE InUse(op)
      OBVIOUS
    <3>1. OnPage(op)' => OnPage(op)
      BY <1>2 DEF OnPage
    <3>2. (\E c \in Call : op = call'[c].op) => \E c \in Call : op = call[c].op
      BY <1>7
    <3>3. (\E x \in posted' : op = x.op) => (\E x \in posted : op = x.op) \/ op = m.op
      BY <1>4, <1>5
    <3> QED BY <3>1, <3>2, <3>3, <1>2 DEF InUse
  <2> QED BY <2>1, <1>2, SameOperations
<1>10. RequestsOK'
  <2>1. \A n \in wire' : n \in wire /\ n.call \in Call
    BY <1>2
  <2> QED BY <2>1, <1>4, <1>5, <1>7 DEF RequestsOK, Running
<1>11. \A c \in Call : CallOK(c)'
  <2> SUFFICES ASSUME NEW c \in Call PROVE CallOK(c)'
    OBVIOUS
  <2>1. CallOK(c) /\ posted \subseteq posted'
    BY <1>4
  <2>2. CASE call'[c] = call[c]
    BY <2>1, <2>2, <1>2 DEF CallOK, Running
  <2>3. CASE call'[c] # call[c]
    <3>1. c = m.call /\ call[c].phase = "fetching" /\ call'[c].reply = o.status
      BY <2>3, <1>6 DEF Execution
    <3>2. m.op = call[c].op
      BY <3>1 DEF RequestsOK, Running
    <3> QED BY <2>1, <3>1, <3>2, <1>2, <1>4, <1>7 DEF CallOK, Running
  <2> QED BY <2>2, <2>3
<1>12. \A t \in Tab : PageOK(t)' /\ PageStepOK(t)'
  <2> SUFFICES ASSUME NEW t \in Tab PROVE PageOK(t)' /\ PageStepOK(t)'
    OBVIOUS
  <2>1. page[t].call \in Call \cup {None} /\ PageOK(t) /\ PageStepOK(t)
    BY DEF Page
  <2> QED BY <2>1, <1>2, <1>7 DEF PageOK, PageStepOK, Running
<1>13. ReceiptIsTrue'
  BY <1>2, <1>4 DEF ReceiptIsTrue
<1> QED BY <1>8, <1>9, <1>10, <1>11, <1>12, <1>13

(* A request is lost.                                                      *)
LEMMA LoseRequestKeeps ==
  ASSUME ClientInductive, NEW m \in wire, LoseRequest(m)
  PROVE  ClientInductive'
<1> USE DEF ClientInductive, TypeOK, LoseRequest
<1>1. TypeOK'
  OBVIOUS
<1>2. KeysMinted' /\ OneIntentPerKey'
  <2>1. \A op \in Operation : InUse(op)' => InUse(op)
    BY DEF InUse, OnPage
  <2> QED BY <2>1, SameOperations
<1>3. RequestsOK'
  BY DEF RequestsOK, Running
<1>4. \A c \in Call : CallOK(c)'
  BY DEF CallOK, Running
<1>5. \A t \in Tab : PageOK(t)' /\ PageStepOK(t)'
  BY DEF PageOK, PageStepOK, Running
<1>6. ReceiptIsTrue'
  BY DEF ReceiptIsTrue
<1> QED BY <1>1, <1>2, <1>3, <1>4, <1>5, <1>6

(* A call's transfer is posted: its page shows a receipt.                  *)
LEMMA SucceedKeeps ==
  ASSUME ClientInductive, NEW c \in Call, call[c].phase = "fetching",
         call[c].reply = "created", Succeed(c), UNCHANGED <<wire, posted, minted>>
  PROVE  ClientInductive'
<1> USE ClientAssumption DEF ClientInductive, TypeOK
<1> DEFINE t == call[c].tab
           op == call[c].op
           shown == IF call[c].kind = "resume" THEN None ELSE page[t].interrupted
           new == [page[t] EXCEPT !.call = None, !.receipt = op, !.step = "receipt",
                                  !.interrupted = shown]
<1>1. /\ Running(c) /\ CallOK(c) /\ t \in Tab /\ op \in Operation /\ op # None
      /\ page[t] \in Page
  BY DEF CallOK, Running
<1>2. stored' = None /\ call' = [call EXCEPT ![c] = Over]
  BY DEF Succeed, StoredOnSuccess
<1>3. page' = IF call[c].mounted THEN [page EXCEPT ![t] = new] ELSE page
  <2> HIDE DEF ClientInductive
  <2> QED BY <1>1 DEF Succeed
<1>4. shown \in {None, page[t].interrupted} /\ page[t].interrupted \in Operation \cup {None}
  BY <1>1 DEF Page
<1>5. /\ new \in Page
      /\ new.call = None /\ new.receipt = op /\ new.step = "receipt"
      /\ new.pending = page[t].pending /\ new.error = page[t].error
      /\ new.interrupted = shown
  <2> HIDE DEF ClientInductive, TypeOK, t, op, shown
  <2>1. new \in Page
    BY <1>1, <1>4, PageTypes
  <2> QED BY <1>1, <2>1 DEF Page
<1>6. /\ call'[c] = Over /\ \A d \in Call : d # c => call'[d] = call[d]
      /\ \A o \in Tab : page'[o] = page[o] \/ (o = t /\ page'[o] = new /\ call[c].mounted)
      /\ call[c].mounted => page'[t] = new
  BY <1>1, <1>2, <1>3
<1> HIDE DEF new, shown
<1>7. TypeOK'
  <2>1. page' \in [Tab -> Page]
    BY <1>1, <1>3, <1>5
  <2>2. call' \in [Call -> Execution]
    BY <1>2, CallTypes
  <2> QED BY <2>1, <2>2, <1>2
<1>8. KeysMinted' /\ OneIntentPerKey'
  <2>1. \A o \in Operation : InUse(o)' => InUse(o)
    <3> SUFFICES ASSUME NEW o \in Operation, InUse(o)' PROVE InUse(o)
      OBVIOUS
    <3>1. OnPage(o)' => OnPage(o) \/ o = op
      BY <1>1, <1>4, <1>5, <1>6 DEF OnPage
    <3>2. (\E d \in Call : o = call'[d].op) => \E d \in Call : o = call[d].op
      BY <1>6 DEF Over, NotRunning
    <3> QED BY <3>1, <3>2, <1>1, <1>2 DEF InUse
  <2> QED BY <2>1, SameOperations
<1>9. RequestsOK'
  BY <1>6 DEF RequestsOK, Running, Over, NotRunning
<1>10. \A d \in Call : CallOK(d)'
  <2> SUFFICES ASSUME NEW d \in Call PROVE CallOK(d)'
    OBVIOUS
  <2>1. CASE d = c
    BY <2>1, <1>6, OverOK
  <2>2. CASE d # c
    <3>1. CallOK(d) /\ call'[d] = call[d]
      BY <2>2, <1>6
    <3>2. Running(d) /\ call[d].mounted => page'[call[d].tab].call = d
      <4> SUFFICES ASSUME Running(d), call[d].mounted PROVE page'[call[d].tab].call = d
        OBVIOUS
      <4>1. call[d].tab \in Tab /\ page[call[d].tab].call = d
        BY <3>1 DEF CallOK
      <4>2. call[c].mounted => call[d].tab # t
        BY <4>1, <2>2, <1>1 DEF CallOK
      <4> QED BY <4>1, <4>2, <1>6
    <3> QED BY <3>1, <3>2 DEF CallOK, Running
  <2> QED BY <2>1, <2>2
<1>11. \A o \in Tab : PageOK(o)' /\ PageStepOK(o)'
  <2> SUFFICES ASSUME NEW o \in Tab PROVE PageOK(o)' /\ PageStepOK(o)'
    OBVIOUS
  <2>1. CASE page'[o] = new
    BY <2>1, <1>5 DEF PageOK, PageStepOK
  <2>2. CASE page'[o] # new
    <3>1. page'[o] = page[o] /\ PageOK(o) /\ PageStepOK(o)
      BY <2>2, <1>6
    <3>2. page[o].call # None => call'[page[o].call] = call[page[o].call]
      <4>1. page[o].call \in Call \cup {None}
        BY DEF Page
      <4>2. page[o].call # c
        BY <3>1, <2>2, <1>1, <1>6 DEF PageOK
      <4> QED BY <4>1, <4>2, <1>6
    <3> QED BY <3>1, <3>2 DEF PageOK, PageStepOK, Running
  <2> QED BY <2>1, <2>2
<1>12. ReceiptIsTrue'
  <2>1. \E x \in posted : x.op = op
    BY <1>1 DEF CallOK
  <2> QED BY <2>1, <1>2, <1>5, <1>6 DEF ReceiptIsTrue
<1> QED BY <1>7, <1>8, <1>9, <1>10, <1>11, <1>12

(* A call ends without a receipt: its page, if it still waits, may show an *)
(* error of that call's operation.                                         *)
LEMMA EndKeeps ==
  ASSUME ClientInductive, NEW c \in Call, call[c].phase = "fetching",
         NEW error \in Banner \cup {None}, error # None => error.op = call[c].op,
         call' = [call EXCEPT ![c] = Over],
         page' = IF call[c].mounted
                 THEN [page EXCEPT ![call[c].tab].call = None, ![call[c].tab].error = error]
                 ELSE page,
         UNCHANGED <<stored, wire, posted, minted>>
  PROVE  ClientInductive'
<1> USE ClientAssumption DEF ClientInductive, TypeOK
<1> DEFINE t == call[c].tab
           new == [page[t] EXCEPT !.call = None, !.error = error]
<1>1. /\ Running(c) /\ CallOK(c) /\ t \in Tab /\ call[c].op \in Operation
      /\ page[t] \in Page
  BY DEF CallOK, Running
<1>2. page' = IF call[c].mounted THEN [page EXCEPT ![t] = new] ELSE page
  <2> HIDE DEF ClientInductive
  <2> QED BY <1>1
<1>3. /\ new \in Page
      /\ new.call = None /\ new.error = error
      /\ new.step = page[t].step /\ new.pending = page[t].pending
      /\ new.receipt = page[t].receipt /\ new.interrupted = page[t].interrupted
  <2> HIDE DEF ClientInductive, TypeOK, t
  <2>1. new \in Page
    BY <1>1, PageTypes
  <2> QED BY <1>1, <2>1 DEF Page
<1>4. /\ call'[c] = Over /\ \A d \in Call : d # c => call'[d] = call[d]
      /\ \A o \in Tab : page'[o] = page[o] \/ (o = t /\ page'[o] = new /\ call[c].mounted)
      /\ call[c].mounted => page'[t] = new
  BY <1>1, <1>2
<1> HIDE DEF new
<1>5. TypeOK'
  <2>1. page' \in [Tab -> Page]
    BY <1>1, <1>2, <1>3
  <2>2. call' \in [Call -> Execution]
    BY <1>1, CallTypes
  <2> QED BY <2>1, <2>2, <1>1
<1>6. KeysMinted' /\ OneIntentPerKey'
  <2>1. \A o \in Operation : InUse(o)' => InUse(o)
    <3> SUFFICES ASSUME NEW o \in Operation, InUse(o)' PROVE InUse(o)
      OBVIOUS
    <3>1. OnPage(o)' => OnPage(o) \/ o = call[c].op
      BY <1>1, <1>3, <1>4 DEF OnPage
    <3>2. (\E d \in Call : o = call'[d].op) => \E d \in Call : o = call[d].op
      BY <1>4 DEF Over, NotRunning
    <3> QED BY <3>1, <3>2, <1>1 DEF InUse
  <2> QED BY <2>1, SameOperations
<1>7. RequestsOK'
  BY <1>4 DEF RequestsOK, Running, Over, NotRunning
<1>8. \A d \in Call : CallOK(d)'
  <2> SUFFICES ASSUME NEW d \in Call PROVE CallOK(d)'
    OBVIOUS
  <2>1. CASE d = c
    BY <2>1, <1>4, OverOK
  <2>2. CASE d # c
    <3>1. CallOK(d) /\ call'[d] = call[d]
      BY <2>2, <1>4
    <3>2. Running(d) /\ call[d].mounted => page'[call[d].tab].call = d
      <4> SUFFICES ASSUME Running(d), call[d].mounted PROVE page'[call[d].tab].call = d
        OBVIOUS
      <4>1. call[d].tab \in Tab /\ page[call[d].tab].call = d
        BY <3>1 DEF CallOK
      <4>2. call[c].mounted => call[d].tab # t
        BY <4>1, <2>2, <1>1 DEF CallOK
      <4> QED BY <4>1, <4>2, <1>4
    <3> QED BY <3>1, <3>2 DEF CallOK, Running
  <2> QED BY <2>1, <2>2
<1>9. \A o \in Tab : PageOK(o)' /\ PageStepOK(o)'
  <2> SUFFICES ASSUME NEW o \in Tab PROVE PageOK(o)' /\ PageStepOK(o)'
    OBVIOUS
  <2>1. CASE page'[o] = new
    <3>1. o = t \/ page[o] = new
      BY <2>1, <1>4
    <3>2. PageStepOK(t) /\ PageStepOK(o) /\ PageOK(o)
      BY <1>1
    <3> QED BY <2>1, <3>1, <3>2, <1>3 DEF PageOK, PageStepOK
  <2>2. CASE page'[o] # new
    <3>1. page'[o] = page[o] /\ PageOK(o) /\ PageStepOK(o)
      BY <2>2, <1>4
    <3>2. page[o].call # None => call'[page[o].call] = call[page[o].call]
      <4>1. page[o].call \in Call \cup {None}
        BY DEF Page
      <4>2. page[o].call # c
        <5> SUFFICES ASSUME page[o].call = c PROVE FALSE
          OBVIOUS
        <5>1. c # None
          OBVIOUS
        <5>2. call[c].mounted /\ call[c].tab = o
          BY <5>1, <3>1 DEF PageOK
        <5> QED BY <5>2, <2>2, <1>4
      <4> QED BY <4>1, <4>2, <1>4
    <3> QED BY <3>1, <3>2 DEF PageOK, PageStepOK, Running
  <2> QED BY <2>1, <2>2
<1>10. ReceiptIsTrue'
  BY <1>1, <1>3, <1>4 DEF ReceiptIsTrue
<1> QED BY <1>5, <1>6, <1>7, <1>8, <1>9, <1>10


(* A call fails: it sleeps before its next attempt, or its page shows the  *)
(* error.                                                                  *)
LEMMA FailKeeps ==
  ASSUME ClientInductive, NEW c \in Call, call[c].phase = "fetching",
         NEW retryable \in BOOLEAN, Fail(c, retryable), UNCHANGED <<wire, posted, minted>>
  PROVE  ClientInductive'
<1> USE ClientAssumption DEF ClientInductive, TypeOK
<1> DEFINE t == call[c].tab
           banner == [op |-> call[c].op, retry |-> retryable]
           new == [page[t] EXCEPT !.call = None, !.error = banner]
           asleep == [call[c] EXCEPT !.phase = "sleeping", !.reply = None]
<1>1. /\ Running(c) /\ CallOK(c) /\ t \in Tab /\ call[c].op \in Operation
      /\ page[t] \in Page /\ call[c] \in Execution
  BY DEF CallOK, Running
<1>2. CASE MayRetry(c, retryable)
  <2>1. /\ call' = [call EXCEPT ![c] = asleep] /\ UNCHANGED <<page, stored>>
        /\ call[c].tries < MaxTries
    BY <1>2 DEF Fail, MayRetry
  <2>2. /\ asleep \in Execution /\ asleep.phase = "sleeping" /\ asleep.reply = None
        /\ asleep.tab = t /\ asleep.mounted = call[c].mounted /\ asleep.op = call[c].op
        /\ asleep.tries = call[c].tries
    <3> HIDE DEF ClientInductive, TypeOK, t
    <3>1. asleep \in Execution
      BY <1>1 DEF Execution, Phases
    <3> QED BY <1>1, <3>1 DEF Execution, t
  <2>3. call'[c] = asleep /\ \A d \in Call : d # c => call'[d] = call[d]
    BY <2>1
  <2> HIDE DEF asleep
  <2>4. \A d \in Call :
          /\ call'[d].tab = call[d].tab /\ call'[d].mounted = call[d].mounted
          /\ call'[d].op = call[d].op /\ (Running(d)' <=> Running(d))
    BY <2>2, <2>3, <1>1 DEF Running
  <2>5. TypeOK'
    BY <2>1, <2>2
  <2>6. KeysMinted' /\ OneIntentPerKey'
    <3>1. \A o \in Operation : InUse(o)' => InUse(o)
      BY <2>1, <2>4 DEF InUse, OnPage
    <3> QED BY <3>1, SameOperations
  <2>7. RequestsOK'
    BY <2>2, <2>3, <2>4 DEF RequestsOK
  <2>8. \A d \in Call : CallOK(d)'
    <3> SUFFICES ASSUME NEW d \in Call PROVE CallOK(d)'
      OBVIOUS
    <3>1. CASE d = c
      <4>1. asleep.reply # "conflict" /\ asleep.reply # "created"
        BY <2>2 DEF Statuses
      <4> QED BY <3>1, <4>1, <1>1, <2>1, <2>2, <2>3, <2>4 DEF CallOK
    <3>2. CASE d # c
      BY <3>2, <2>1, <2>3 DEF CallOK, Running
    <3> QED BY <3>1, <3>2
  <2>9. \A o \in Tab : PageOK(o)' /\ PageStepOK(o)'
    <3> SUFFICES ASSUME NEW o \in Tab PROVE PageOK(o)' /\ PageStepOK(o)'
      OBVIOUS
    <3>1. page[o].call \in Call \cup {None} /\ PageOK(o) /\ PageStepOK(o)
      BY DEF Page
    <3> QED BY <3>1, <2>1, <2>4 DEF PageOK, PageStepOK
  <2>10. ReceiptIsTrue'
    BY <2>1 DEF ReceiptIsTrue
  <2> QED BY <2>5, <2>6, <2>7, <2>8, <2>9, <2>10
<1>3. CASE ~MayRetry(c, retryable)
  <2>1. banner \in Banner /\ banner.op = call[c].op /\ banner # None
    BY <1>1 DEF Banner
  <2>2. /\ call' = [call EXCEPT ![c] = Over] /\ stored' = stored
        /\ page' = IF call[c].mounted
                   THEN [page EXCEPT ![call[c].tab].call = None,
                                     ![call[c].tab].error = banner]
                   ELSE page
    BY <1>3 DEF Fail
  <2> HIDE DEF banner, ClientInductive, t
  <2> QED BY <2>1, <2>2, EndKeeps
<1> QED BY <1>2, <1>3

(* A call whose answer is cut short ends without a word: its page shows no *)
(* error, as it did while it waited.                                       *)
LEMMA CutShortKeeps ==
  ASSUME ClientInductive, NEW c \in Call, CutShort(c)
  PROVE  ClientInductive'
<1>1. /\ call[c].phase = "fetching" /\ call' = [call EXCEPT ![c] = Over]
      /\ UNCHANGED <<stored, wire, posted, minted>>
  BY DEF CutShort
<1>2. CASE ~call[c].mounted
  BY <1>1, <1>2, EndKeeps DEF CutShort
<1>3. CASE call[c].mounted
  <2> DEFINE t == call[c].tab
  <2>1. t \in Tab /\ c # None /\ page[t].call = c /\ page[t].error = None
    BY <1>1, <1>3, ClientAssumption DEF ClientInductive, CallOK, PageOK, Running
  <2>2. page \in [Tab -> Page] /\ page[t] \in Page
    BY <2>1 DEF ClientInductive, TypeOK
  <2>3. page' = [page EXCEPT ![t] = [page[t] EXCEPT !.call = None]]
    BY <1>3, <2>1, <2>2 DEF CutShort
  <2>4. [page[t] EXCEPT !.call = None] = [page[t] EXCEPT !.call = None, !.error = None]
    <3> HIDE DEF t
    <3> QED BY <2>1, <2>2 DEF Page
  <2>5. page' = [page EXCEPT ![t].call = None, ![t].error = None]
    BY <2>1, <2>2, <2>3, <2>4
  <2> QED BY <1>1, <1>3, <2>5, EndKeeps
<1> QED BY <1>2, <1>3

(* The service answers, and the call succeeds or fails.                    *)
LEMMA SettleKeeps ==
  ASSUME ClientInductive, NEW c \in Call, Settle(c)
  PROVE  ClientInductive'
<1>1. call[c].phase = "fetching" /\ UNCHANGED <<wire, posted, minted>>
  BY DEF Settle
<1>2. CASE call[c].reply = "created"
  BY <1>1, <1>2, SucceedKeeps DEF Settle, IsSuccess
<1>3. CASE call[c].reply # "created"
  <2>1. Fail(c, call[c].reply = "fault")
    BY <1>3 DEF Settle, IsSuccess
  <2> DEFINE retryable == call[c].reply = "fault"
  <2>2. retryable \in BOOLEAN /\ Fail(c, retryable)
    BY <2>1
  <2> HIDE DEF retryable
  <2> QED BY <1>1, <2>2, FailKeeps
<1> QED BY <1>2, <1>3

(* The network does not.                                                   *)
LEMMA UnreachableKeeps ==
  ASSUME ClientInductive, NEW c \in Call, Unreachable(c)
  PROVE  ClientInductive'
BY FailKeeps DEF Unreachable

(* The next attempt: there are tries left, and the request is the same.    *)
LEMMA WakeKeeps ==
  ASSUME ClientInductive, NEW c \in Call, Wake(c)
  PROVE  ClientInductive'
<1> USE ClientAssumption DEF ClientInductive, TypeOK
<1> DEFINE n == call[c].tries + 1
           awake == [call[c] EXCEPT !.phase = "fetching", !.tries = n]
           op == call[c].op
<1>1. /\ call[c].phase = "sleeping" /\ call' = [call EXCEPT ![c] = awake]
      /\ wire' = wire \cup {[call |-> c, try |-> n, op |-> op, key |-> op.key]}
      /\ UNCHANGED <<stored, page, posted, minted>>
  BY DEF Wake, TryAfter, Request, KeySent
<1>2. /\ CallOK(c) /\ Running(c) /\ op \in Operation /\ op.key \in Key
      /\ call[c] \in Execution /\ call[c].tries \in 0 .. MaxTries /\ n \in 1 .. MaxTries
  <2>1. CallOK(c) /\ Running(c) /\ call[c] \in Execution
    BY <1>1 DEF Running
  <2>2. op \in Operation /\ call[c].tries \in 0 .. MaxTries /\ call[c].tries < MaxTries
    BY <1>1, <2>1 DEF CallOK, Execution
  <2> QED BY <2>1, <2>2 DEF Operation
<1>3. /\ awake \in Execution /\ awake.phase = "fetching" /\ awake.tries = n
      /\ awake.tab = call[c].tab /\ awake.mounted = call[c].mounted /\ awake.op = op
      /\ awake.reply = call[c].reply
  <2> HIDE DEF ClientInductive, TypeOK, op
  <2>1. n \in 0 .. MaxTries
    BY <1>2
  <2> HIDE DEF n
  <2>2. awake \in Execution
    BY <1>2, <2>1 DEF Execution, Phases
  <2> QED BY <1>2, <2>2 DEF Execution, op
<1> HIDE DEF awake, n
<1>4. call'[c] = awake /\ \A d \in Call : d # c => call'[d] = call[d]
  BY <1>1
<1>5. \A d \in Call :
        /\ call'[d].tab = call[d].tab /\ call'[d].mounted = call[d].mounted
        /\ call'[d].op = call[d].op /\ call'[d].reply = call[d].reply
        /\ (Running(d)' <=> Running(d)) /\ (call'[d].phase = "sleeping" => d # c)
        /\ call'[d].phase = "unused" => d # c
  BY <1>2, <1>3, <1>4 DEF Running
<1>6. TypeOK'
  BY <1>1, <1>2, <1>3
<1>7. KeysMinted' /\ OneIntentPerKey'
  <2>1. \A o \in Operation : InUse(o)' => InUse(o)
    <3> SUFFICES ASSUME NEW o \in Operation, InUse(o)' PROVE InUse(o)
      OBVIOUS
    <3>1. OnPage(o)' => OnPage(o)
      BY <1>1 DEF OnPage
    <3>2. (\E m \in wire' : o = m.op) => (\E m \in wire : o = m.op) \/ o = op
      BY <1>1
    <3> QED BY <3>1, <3>2, <1>1, <1>5 DEF InUse
  <2> QED BY <2>1, <1>1, SameOperations
<1>8. RequestsOK'
  <2>1. \A m \in wire' :
          \/ m \in wire /\ m.call \in Call
          \/ m.call = c /\ m.op = op /\ m.key = op.key
    BY <1>1
  <2> QED BY <2>1, <1>1, <1>3, <1>4, <1>5 DEF RequestsOK
<1>9. \A d \in Call : CallOK(d)'
  <2> SUFFICES ASSUME NEW d \in Call PROVE CallOK(d)'
    OBVIOUS
  <2>1. CallOK(d)
    OBVIOUS
  <2>2. CASE d = c
    BY <2>1, <2>2, <1>1, <1>5 DEF CallOK
  <2>3. CASE d # c
    BY <2>1, <2>3, <1>1, <1>4 DEF CallOK, Running
  <2> QED BY <2>2, <2>3
<1>10. \A t \in Tab : PageOK(t)' /\ PageStepOK(t)'
  <2> SUFFICES ASSUME NEW t \in Tab PROVE PageOK(t)' /\ PageStepOK(t)'
    OBVIOUS
  <2>1. page[t].call \in Call \cup {None} /\ PageOK(t) /\ PageStepOK(t)
    BY DEF Page
  <2> QED BY <2>1, <1>1, <1>5 DEF PageOK, PageStepOK
<1>11. ReceiptIsTrue'
  BY <1>1 DEF ReceiptIsTrue
<1> QED BY <1>6, <1>7, <1>8, <1>9, <1>10, <1>11

-----------------------------------------------------------------------------
(* Every step of the client, and what follows.                             *)

(* Confirm, Retry and Resume start a call for an operation of their page,  *)
(* which awaits none: Retry because it shows an error.                     *)
LEMMA SubmissionKeeps ==
  ASSUME ClientInductive, NEW t \in Tab, Confirm(t) \/ Retry(t) \/ Resume(t)
  PROVE  ClientInductive'
<1>1. /\ page[t].pending # None => page[t].pending \in Operation /\ InUse(page[t].pending)
      /\ page[t].interrupted # None =>
           page[t].interrupted \in Operation /\ InUse(page[t].interrupted)
  BY DEF ClientInductive, TypeOK, Page, InUse, OnPage
<1>2. PageOK(t) /\ PageStepOK(t)
  BY DEF ClientInductive
<1>3. CASE Confirm(t)
  BY <1>1, <1>2, <1>3, StartKeeps DEF Confirm, Submitting, PageStepOK
<1>4. CASE Retry(t)
  BY <1>1, <1>2, <1>4, StartKeeps DEF Retry, RetryShown, PageOK
<1>5. CASE Resume(t)
  BY <1>1, <1>2, <1>5, StartKeeps DEF Resume, Submitting, PageStepOK
<1> QED BY <1>3, <1>4, <1>5

LEMMA ClientStep == ClientInductive /\ [Next]_vars => ClientInductive'
<1> SUFFICES ASSUME ClientInductive, [Next]_vars PROVE ClientInductive'
  OBVIOUS
<1>1. ASSUME NEW t \in Tab, Use(t) PROVE ClientInductive'
  BY <1>1, VisitKeeps, LeaveKeeps, ReloadKeeps, ReviewKeeps, EditKeeps, ResetKeeps,
     DiscardKeeps, SubmissionKeeps DEF Use
<1>2. ASSUME NEW c \in Call, Progress(c) PROVE ClientInductive'
  BY <1>2, SettleKeeps, UnreachableKeeps, CutShortKeeps, WakeKeeps DEF Progress
<1>3. ASSUME NEW m \in wire, Serve(m) \/ LoseRequest(m) PROVE ClientInductive'
  BY <1>3, ServeKeeps, LoseRequestKeeps
<1>4. CASE UNCHANGED vars
  BY <1>4
     DEF vars, ClientInductive, TypeOK, KeysMinted, OneIntentPerKey, InUse, OnPage,
         RequestsOK, CallOK, Running, PageOK, PageStepOK, ReceiptIsTrue
<1> QED BY <1>1, <1>2, <1>3, <1>4 DEF Next

(* The invariant holds in every reachable state, for any tabs and calls.   *)
THEOREM ClientInvariant == Spec => []ClientInductive
BY ClientInit, ClientStep, PTL DEF Spec

(* Storage, pages and messages keep their types, and no call tries more    *)
(* often than its delays allow.                                            *)
THEOREM ClientTypes == Spec => []TypeOK
<1>1. ClientInductive => TypeOK
  BY DEF ClientInductive
<1> QED BY <1>1, ClientInvariant, PTL

(* A page never has two submissions: its Retry button is only there when   *)
(* the last one has failed.                                                *)
THEOREM OneCall == Spec => []OneCallPerPage
<1>1. ClientInductive => OneCallPerPage
  BY DEF ClientInductive, CallOK, OneCallPerPage
<1> QED BY <1>1, ClientInvariant, PTL

(* However often an intent is sent, and by whichever tab, it posts once.   *)
THEOREM MovesMoneyOnce == Spec => []OncePerIntent
<1>1. ClientInductive => OncePerIntent
  <2> SUFFICES ASSUME ClientInductive, NEW x \in posted, NEW y \in posted, x.op = y.op
               PROVE  x = y
    BY DEF OncePerIntent
  <2>1. x \in [op : Operation, key : Key] /\ y \in [op : Operation, key : Key]
    BY DEF ClientInductive, TypeOK
  <2>2. x.key = y.key
    BY DEF ClientInductive, RequestsOK
  <2> QED BY <2>1, <2>2
<1> QED BY <1>1, ClientInvariant, PTL

(* The client never gives one key two bodies, so it is never told of a     *)
(* conflict.                                                               *)
THEOREM NoConflict == Spec => []NeverAConflict
<1>1. ClientInductive => NeverAConflict
  BY DEF ClientInductive, CallOK, NeverAConflict
<1> QED BY <1>1, ClientInvariant, PTL

(* What a receipt shows was posted, and is no longer pending.              *)
THEOREM TrueReceipts == Spec => []ReceiptIsTrue
<1>1. ClientInductive => ReceiptIsTrue
  BY DEF ClientInductive
<1> QED BY <1>1, ClientInvariant, PTL
=============================================================================
