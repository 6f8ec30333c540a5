------------------------ MODULE KioskOrdering_proofs ------------------------
(***************************************************************************)
(* Theorems about KioskOrdering, for any number of presses, backends and   *)
(* crashes.                                                                *)
(***************************************************************************)
EXTENDS KioskOrdering, FiniteSetTheorems, TLAPS

(***************************************************************************)
(* Type correctness.                                                       *)
(***************************************************************************)

\* The initial values are in their types.
UiTypeOK ==
    /\ alive \in BOOLEAN
    /\ hasVideo \in BOOLEAN
    /\ screen \in {"menu", "video", "blank"}
    /\ dialogs \in Seq(Dialog)
    /\ cart \in SUBSET Items
    /\ button \in BOOLEAN
    /\ cartTouched \in BOOLEAN

\* Closing the dialog on top leaves the others, and a chooser is about an item.
LEMMA TopDialog ==
    ASSUME dialogs \in Seq(Dialog), dialogs # <<>>
    PROVE  /\ Tail(dialogs) \in Seq(Dialog)
           /\ Head(dialogs) \in Dialog
           /\ Head(dialogs).kind = "choose" => Head(dialogs).item \in Items
<1>1. Head(dialogs) \in Dialog /\ Tail(dialogs) \in Seq(Dialog)
  OBVIOUS
<1> QED
  BY <1>1 DEF Dialog

\* A dialog opened on top of the others.
LEMMA OpenedDialog ==
    ASSUME dialogs \in Seq(Dialog), NEW kind, NEW item, Open(kind, item),
           [kind |-> kind, item |-> item] \in Dialog
    PROVE  dialogs' \in Seq(Dialog)
BY DEF Open

\* Everything but presses, threads and handlers: the window's variables.
LEMMA UiTypeKept == TypeOK /\ [Next]_vars => UiTypeOK'
<1> SUFFICES ASSUME TypeOK, [Next]_vars PROVE UiTypeOK'
  OBVIOUS
<1> USE DEF TypeOK, UiTypeOK, OnMenu, RefreshCart, NoteTouch, uiVars, OnTop
<1>1. ASSUME NEW i \in Items, AddToCart(i) \/ RemoveFromCart(i) PROVE UiTypeOK'
  BY <1>1 DEF AddToCart, RemoveFromCart
<1>2. ASSUME NEW i \in Items, OpenChooser(i) PROVE UiTypeOK'
  <2>1. [kind |-> "choose", item |-> i] \in Dialog
    BY DEF Dialog
  <2> QED
    BY <1>2, <2>1, OpenedDialog DEF OpenChooser
<1>3. CASE AcceptChooser \/ CancelChooser \/ CloseDialog
  BY <1>3, TopDialog DEF AcceptChooser, CancelChooser, CloseDialog
<1>4. CASE TouchScreen \/ IdleTimeout
  BY <1>4 DEF TouchScreen, IdleTimeout
<1>5. ASSUME NEW p \in Presses, PressOrder(p) PROVE UiTypeOK'
  BY <1>5 DEF PressOrder
<1>6. ASSUME NEW p \in Presses, OnOrderSuccess(p) \/ OnOrderFailed(p) PROVE UiTypeOK'
  <2>1. \A kind \in {"confirmed", "failed"} : [kind |-> kind, item |-> NoItem] \in Dialog
    BY DEF Dialog
  <2> QED
    BY <1>6, <2>1, OpenedDialog DEF OnOrderSuccess, OnOrderFailed
<1>7. CASE Abort
  BY <1>7 DEF Abort
<1>8. CASE UNCHANGED <<alive, hasVideo, uiVars, cartTouched>>
  BY <1>8
<1>9. ASSUME NEW p \in Presses, Submitter(p)
      PROVE  UNCHANGED <<alive, hasVideo, uiVars, cartTouched>>
  BY <1>9 DEF Submitter, Answered, TryNext, GiveUp
<1>10. ASSUME NEW p \in Presses, NEW b \in Backends, Backend(p, b)
       PROVE  UNCHANGED <<alive, hasVideo, uiVars, cartTouched>>
  BY <1>10 DEF Backend, CreateOrder, PrintKitchenTicket, CommitOrder, HandlerFails, Crash
<1>11. CASE UNCHANGED vars
  BY <1>8, <1>11 DEF vars
<1>12. CASE Customer
  <2>1. AcceptChooserTooLate => Abort
    BY DEF AcceptChooserTooLate
  <2> HIDE DEF TypeOK, UiTypeOK, OnMenu, RefreshCart, NoteTouch, OnTop, uiVars
  <2>2. CASE \E i \in Items : AddToCart(i) \/ RemoveFromCart(i)
    BY <1>1, <2>2
  <2>3. CASE \E i \in Items : OpenChooser(i)
    BY <1>2, <2>3
  <2>4. CASE AcceptChooser \/ CancelChooser \/ CloseDialog \/ TouchScreen \/ AcceptChooserTooLate
    BY <1>3, <1>4, <1>7, <2>1, <2>4
  <2>5. CASE \E p \in Presses : PressOrder(p)
    BY <1>5, <2>5
  <2>6. CASE ClearCart
    BY <2>6 DEF ClearCart, RefreshCart, NoteTouch, TypeOK, UiTypeOK
  <2> QED
    BY <1>12, <2>2, <2>3, <2>4, <2>5, <2>6 DEF Customer
<1>13. CASE ClockTick \/ \E p \in Presses : Outcome(p) \/ ThreadDestroyed(p)
  BY <1>6, <1>7, <1>13 DEF ClockTick, Outcome, OutcomeTooLate, ThreadDestroyed
<1>14. CASE \E p \in Presses : Submitter(p)
  BY ONLY <1>8, <1>9, <1>14
<1>15. CASE \E p \in Presses, b \in Backends : Backend(p, b)
  BY ONLY <1>8, <1>10, <1>15
<1> QED
  BY ONLY [Next]_vars, <1>4, <1>11, <1>12, <1>13, <1>14, <1>15 DEF Next

ThreadTypeOK ==
    /\ active \in Backends
    /\ thread \in [Presses -> ThreadStates]
    /\ lines \in [Presses -> SUBSET Items]
    /\ tried \in [Presses -> SUBSET Backends]
    /\ at \in [Presses -> Backends]
    /\ orphans \in SUBSET Presses
    /\ \A p \in Presses : thread[p] = "unused" <=> lines[p] = {}
    /\ \A p \in Presses : thread[p] = "unused" => tried[p] = {}

ServerTypeOK ==
    /\ handler \in [Presses -> [Backends -> HandlerStates]]
    /\ tickets \in SUBSET (Presses \X Backends)
    /\ crashes \in 0 .. MaxCrashes
    /\ \A p \in Presses, b \in Backends : handler[p][b] # "none" => b \in tried[p]

LEMMA TypeParts == TypeOK <=> UiTypeOK /\ ThreadTypeOK /\ ServerTypeOK
BY DEF TypeOK, UiTypeOK, ThreadTypeOK, ServerTypeOK

\* The initial values are in their types.
LEMMA InitType == Init => TypeOK
<1> SUFFICES ASSUME Init PROVE TypeOK
  OBVIOUS
<1>1. UiTypeOK
  <2>1. <<>> \in Seq(Dialog)
    OBVIOUS
  <2> QED
    BY <2>1 DEF Init, UiTypeOK
<1>2. ThreadTypeOK
  BY PrimaryAssumption DEF Init, ThreadTypeOK, ThreadStates
<1>3. ServerTypeOK
  BY CrashAssumption DEF Init, ServerTypeOK, HandlerStates
<1> QED
  BY <1>1, <1>2, <1>3, TypeParts

\* What the threads do.
LEMMA ThreadTypeKept == TypeOK /\ [Next]_vars => ThreadTypeOK'
<1> SUFFICES ASSUME TypeOK, [Next]_vars PROVE ThreadTypeOK'
  OBVIOUS
<1>0. ThreadTypeOK
  BY TypeParts
<1> USE DEF ThreadTypeOK
<1>1. CASE UNCHANGED threadVars
  BY <1>0, <1>1 DEF threadVars
<1>2. ASSUME NEW p \in Presses, PressOrder(p) PROVE ThreadTypeOK'
  <2>1. cart \in SUBSET Items /\ cart # {}
    BY <1>2 DEF TypeOK, PressOrder
  <2>2. /\ thread' = [thread EXCEPT ![p] = "sending"] /\ lines' = [lines EXCEPT ![p] = cart]
        /\ tried' = [tried EXCEPT ![p] = {active}] /\ at' = [at EXCEPT ![p] = active]
        /\ orphans' = orphans \cup Sending /\ active' = active
    BY <1>2 DEF PressOrder
  <2>3. Sending \in SUBSET Presses
    BY DEF Sending
  <2>4. thread' \in [Presses -> ThreadStates] /\ lines' \in [Presses -> SUBSET Items]
    BY <1>0, <2>1, <2>2 DEF ThreadStates
  <2>5. tried' \in [Presses -> SUBSET Backends] /\ at' \in [Presses -> Backends]
    BY <1>0, <2>2
  <2>6. \A q \in Presses : /\ thread'[q] = "unused" <=> lines'[q] = {}
                           /\ thread'[q] = "unused" => tried'[q] = {}
    BY <1>0, <2>1, <2>2
  <2> QED
    BY <1>0, <2>2, <2>3, <2>4, <2>5, <2>6
<1>3. ASSUME NEW p \in Presses, NEW s \in ThreadStates \ {"unused"}, thread[p] # "unused",
             thread' = [thread EXCEPT ![p] = s],
             active' \in Backends, UNCHANGED <<lines, tried, at, orphans>>
      PROVE  ThreadTypeOK'
  BY <1>0, <1>3
<1>4. ASSUME NEW p \in Presses, Outcome(p) PROVE ThreadTypeOK'
  BY <1>0, <1>1, <1>3, <1>4
  DEF Outcome, OnOrderSuccess, OnOrderFailed, OutcomeTooLate, Abort, ThreadStates
<1>5. ASSUME NEW p \in Presses, Answered(p) \/ GiveUp(p) PROVE ThreadTypeOK'
  BY <1>0, <1>3, <1>5 DEF Answered, GiveUp, ThreadStates
<1>6. ASSUME NEW p \in Presses, TryNext(p) PROVE ThreadTypeOK'
  BY <1>0, <1>6 DEF TryNext
<1>7. ASSUME NEW p \in Presses, NEW b \in Backends, Backend(p, b) PROVE UNCHANGED threadVars
  BY <1>7 DEF Backend, CreateOrder, PrintKitchenTicket, CommitOrder, HandlerFails, Crash
<1>8. ASSUME Customer, ~(\E p \in Presses : PressOrder(p)) PROVE UNCHANGED threadVars
  BY <1>8
  DEF Customer, AddToCart, OpenChooser, AcceptChooser, AcceptChooserTooLate, CancelChooser,
      RemoveFromCart, ClearCart, CloseDialog, TouchScreen, Abort
<1>9. CASE IdleTimeout \/ ClockTick \/ UNCHANGED vars \/ \E p \in Presses : ThreadDestroyed(p)
  BY <1>1, <1>9 DEF IdleTimeout, ClockTick, ThreadDestroyed, Abort, vars
<1>10. CASE \E p \in Presses : Submitter(p)
  BY <1>5, <1>6, <1>10 DEF Submitter
<1> QED
  BY ONLY [Next]_vars, <1>1, <1>2, <1>4, <1>7, <1>8, <1>9, <1>10 DEF Next

\* What the handlers do: each step of one is about a try that was sent.
LEMMA ServerTypeKept == TypeOK /\ [Next]_vars => ServerTypeOK'
<1> SUFFICES ASSUME TypeOK, [Next]_vars PROVE ServerTypeOK'
  OBVIOUS
<1>0. ServerTypeOK /\ ThreadTypeOK
  BY TypeParts
<1> USE DEF ServerTypeOK
<1>1. ASSUME UNCHANGED serverVars, \A p \in Presses : tried[p] \subseteq tried'[p]
      PROVE  ServerTypeOK'
  BY <1>0, <1>1 DEF serverVars
<1>2. ASSUME NEW p \in Presses, NEW b \in Backends, NEW s \in HandlerStates, Becomes(p, b, s),
             b \in tried[p], tried' = tried,
             tickets' \in SUBSET (Presses \X Backends), crashes' \in 0 .. MaxCrashes
      PROVE  ServerTypeOK'
  <2>1. handler' \in [Presses -> [Backends -> HandlerStates]]
    BY <1>0, <1>2 DEF Becomes
  <2>2. ASSUME NEW q \in Presses, NEW c \in Backends, handler'[q][c] # "none" PROVE c \in tried'[q]
    <3>1. CASE q = p /\ c = b
      BY <1>2, <3>1
    <3>2. CASE ~(q = p /\ c = b)
      BY <1>0, <1>2, <2>2, <3>2 DEF Becomes
    <3> QED
      BY <3>1, <3>2
  <2> QED
    BY <1>2, <2>1, <2>2
<1>3. ASSUME NEW p \in Presses, NEW b \in Backends, Backend(p, b) PROVE ServerTypeOK'
  <2>1. CASE CreateOrder(p, b)
    BY <1>0, <1>2, <2>1 DEF CreateOrder, HandlerStates, threadVars
  <2>2. CASE PrintKitchenTicket(p, b)
    <3>1. tickets' \in SUBSET (Presses \X Backends) /\ b \in tried[p] /\ Becomes(p, b, "printed")
          /\ tried' = tried /\ crashes' = crashes
      BY <1>0, <2>2 DEF PrintKitchenTicket, threadVars
    <3> QED
      BY ONLY <1>0, <1>2, <3>1 DEF HandlerStates, ServerTypeOK
  <2>3. CASE CommitOrder(p, b) \/ HandlerFails(p, b)
    BY <1>0, <1>2, <2>3 DEF CommitOrder, HandlerFails, HandlerStates, threadVars
  <2>4. CASE Crash(p, b)
    <3>1. crashes' \in 0 .. MaxCrashes
      BY <1>0, <2>4, CrashAssumption DEF Crash
    <3> QED
      BY <1>0, <1>2, <2>4, <3>1 DEF Crash, HandlerStates, threadVars
  <2> QED
    BY <1>3, <2>1, <2>2, <2>3, <2>4 DEF Backend
\* Nothing was sent for the thread of a press before.
<1>4. ASSUME NEW p \in Presses, PressOrder(p) PROVE ServerTypeOK'
  <2>1. tried[p] = {} /\ tried' = [tried EXCEPT ![p] = {active}] /\ UNCHANGED serverVars
    BY <1>0, <1>4 DEF PressOrder, ThreadTypeOK
  <2>2. \A q \in Presses : tried[q] \subseteq tried'[q]
    BY <1>0, <2>1 DEF ThreadTypeOK
  <2> QED
    BY <1>1, <2>1, <2>2
<1>5. ASSUME NEW p \in Presses, Outcome(p) \/ Submitter(p) PROVE ServerTypeOK'
  BY <1>0, <1>1, <1>5
  DEF Outcome, OnOrderSuccess, OnOrderFailed, OutcomeTooLate, Abort, Submitter, Answered, TryNext,
      GiveUp, ThreadTypeOK, threadVars
<1>6. ASSUME Customer, ~(\E p \in Presses : PressOrder(p)) PROVE UNCHANGED <<tried, serverVars>>
  BY <1>6
  DEF Customer, AddToCart, OpenChooser, AcceptChooser, AcceptChooserTooLate, CancelChooser,
      RemoveFromCart, ClearCart, CloseDialog, TouchScreen, Abort, threadVars
<1>7. CASE IdleTimeout \/ ClockTick \/ UNCHANGED vars \/ \E p \in Presses : ThreadDestroyed(p)
  BY <1>1, <1>7 DEF IdleTimeout, ClockTick, ThreadDestroyed, Abort, vars, threadVars
<1> QED
  BY ONLY [Next]_vars, <1>1, <1>3, <1>4, <1>5, <1>6, <1>7 DEF Next

\* Every variable keeps its type: an order on its way has lines, and a handler runs only
\* where the order was sent.
THEOREM KioskTypeCorrect == Spec => []TypeOK
<1>1. TypeOK /\ [Next]_vars => TypeOK'
  BY UiTypeKept, ThreadTypeKept, ServerTypeKept, TypeParts, PTL
<1> QED
  BY <1>1, InitType, PTL DEF Spec

-----------------------------------------------------------------------------
(***************************************************************************)
(* The number the customer is given.                                       *)
(***************************************************************************)

\* A stored order stays stored, whatever happens to the other tries.
LEMMA StoredStays ==
    ASSUME TypeOK, [Next]_vars, NEW p \in Presses, NEW b \in Backends, handler[p][b] = "stored"
    PROVE  handler'[p][b] = "stored"
<1>1. CASE UNCHANGED handler
  BY <1>1
<1>2. ASSUME NEW q \in Presses, NEW c \in Backends, Backend(q, c) PROVE handler'[p][b] = "stored"
  <2>1. \E s \in HandlerStates : Becomes(q, c, s) /\ (handler[q][c] = "stored" => s = "stored")
    BY <1>2
    DEF Backend, CreateOrder, PrintKitchenTicket, CommitOrder, HandlerFails, Crash, HandlerStates
  <2>2. handler \in [Presses -> [Backends -> HandlerStates]]
    BY DEF TypeOK
  <2> QED
    BY <2>1, <2>2 DEF Becomes
<1>3. CASE Customer \/ IdleTimeout \/ ClockTick \/ UNCHANGED vars
  BY <1>1, <1>3
  DEF Customer, AddToCart, OpenChooser, AcceptChooser, AcceptChooserTooLate, CancelChooser, PressOrder,
      RemoveFromCart, ClearCart, CloseDialog, TouchScreen, Abort, IdleTimeout, ClockTick,
      vars, serverVars
<1>4. CASE \E q \in Presses : Outcome(q) \/ Submitter(q) \/ ThreadDestroyed(q)
  BY <1>1, <1>4
  DEF Outcome, OnOrderSuccess, OnOrderFailed, OutcomeTooLate, ThreadDestroyed, Abort,
      Submitter, Answered, TryNext, GiveUp, serverVars
<1> QED
  BY ONLY [Next]_vars, <1>2, <1>3, <1>4 DEF Next

\* A thread has succeeded only through a handler that had stored the order.
LEMMA AcceptedAfterStored ==
    ASSUME TypeOK, [Next]_vars, NEW p \in Presses, thread'[p] \in {"accepted", "confirmed"}
    PROVE  \/ thread[p] \in {"accepted", "confirmed"}
           \/ \E b \in Backends : handler[p][b] = "stored"
<1>1. CASE UNCHANGED thread
  BY <1>1
<1>2. ASSUME NEW q \in Presses, PressOrder(q) \/ Outcome(q) \/ TryNext(q) \/ GiveUp(q)
      PROVE  thread[p] \in {"accepted", "confirmed"}
  BY <1>2
  DEF TypeOK, PressOrder, Outcome, OnOrderSuccess, OnOrderFailed, OutcomeTooLate, Abort, TryNext, GiveUp,
      threadVars
<1>3. ASSUME NEW q \in Presses, Answered(q)
      PROVE  thread[p] \in {"accepted", "confirmed"} \/ \E b \in Backends : handler[p][b] = "stored"
  BY <1>3 DEF TypeOK, Answered
<1>4. CASE Customer /\ ~(\E q \in Presses : PressOrder(q))
  BY <1>1, <1>4
  DEF Customer, AddToCart, OpenChooser, AcceptChooser, AcceptChooserTooLate, CancelChooser,
      RemoveFromCart, ClearCart, CloseDialog, TouchScreen, Abort, threadVars
<1>5. CASE IdleTimeout \/ ClockTick \/ UNCHANGED vars \/ \E q \in Presses : ThreadDestroyed(q)
  BY <1>1, <1>5 DEF IdleTimeout, ClockTick, ThreadDestroyed, Abort, vars, threadVars
<1>6. CASE \E q \in Presses, c \in Backends : Backend(q, c)
  BY <1>1, <1>6
  DEF Backend, CreateOrder, PrintKitchenTicket, CommitOrder, HandlerFails, Crash, threadVars
<1> QED
  BY ONLY [Next]_vars, <1>2, <1>3, <1>4, <1>5, <1>6 DEF Next, Submitter

\* A customer who has been given a number has an order in the database.
THEOREM NumberMeansOrder == Spec => []ConfirmedIsStored
<1>1. Init => ConfirmedIsStored
  BY DEF Init, ConfirmedIsStored
<1>2. TypeOK /\ ConfirmedIsStored /\ [Next]_vars => ConfirmedIsStored'
  BY StoredStays, AcceptedAfterStored DEF ConfirmedIsStored
<1> QED
  BY <1>1, <1>2, KioskTypeCorrect, PTL DEF Spec

-----------------------------------------------------------------------------
(***************************************************************************)
(* Why the kiosk aborts, and why one order is on its way at a time.        *)
(***************************************************************************)

\* The button comes back during a submission only with a change of the cart.
ButtonAsleep == button /\ Underway # {} => cartTouched

OneUnderway == \A p, q \in Underway : p # q => cartTouched

NothingReplaced == orphans # {} => cartTouched

KioskInv ==
    /\ ButtonAsleep
    /\ OneUnderway
    /\ NothingReplaced
    /\ MenuSurvives

\* A step in a living process, or one that leaves the process and its screen alone, after
\* which no more is under way.
LEMMA QuietStep ==
    ASSUME KioskInv, alive' \/ UNCHANGED <<alive, screen>>, orphans' = orphans,
           Underway' \subseteq Underway,
           cartTouched => cartTouched',
           button' => button \/ cartTouched' \/ Underway' = {}
    PROVE  KioskInv'
BY DEF KioskInv, ButtonAsleep, OneUnderway, NothingReplaced, MenuSurvives

\* The customer's steps that neither press the button nor abort the process.
LEMMA KioskInvCustomer ==
    ASSUME TypeOK, KioskInv, Customer, ~(\E p \in Presses : PressOrder(p)), ~AcceptChooserTooLate
    PROVE  KioskInv'
<1>1. Underway' = Underway
  BY DEF Customer, AddToCart, OpenChooser, AcceptChooser, CancelChooser, RemoveFromCart, ClearCart,
         CloseDialog, TouchScreen, Underway, threadVars
<1>2. ASSUME NEW i \in Items, AddToCart(i) \/ RemoveFromCart(i) PROVE KioskInv'
  <2>1. UNCHANGED <<alive, screen, orphans, dialogs>> /\ NoteTouch
    BY <1>2 DEF AddToCart, RemoveFromCart, threadVars
  <2> QED
    BY <1>1, <2>1, QuietStep DEF NoteTouch
<1>3. CASE \E i \in Items : OpenChooser(i)
  BY <1>1, <1>3, QuietStep DEF OpenChooser, OnMenu, threadVars
<1>4. CASE AcceptChooser
  BY <1>1, <1>4, QuietStep DEF AcceptChooser, OnTop, NoteTouch, threadVars
<1>5. CASE ClearCart
  BY <1>1, <1>5, QuietStep DEF ClearCart, NoteTouch, threadVars
<1>6. CASE CancelChooser \/ CloseDialog
  BY <1>1, <1>6, QuietStep DEF CancelChooser, CloseDialog, OnTop, threadVars
<1>7. CASE TouchScreen
  BY <1>1, <1>7, QuietStep DEF TouchScreen, threadVars
<1> QED
  BY <1>2, <1>3, <1>4, <1>5, <1>6, <1>7 DEF Customer

\* The button is asleep while anything is under way, unless the cart was changed.
LEMMA KioskInvPress ==
    ASSUME TypeOK, KioskInv, NEW p \in Presses, PressOrder(p)
    PROVE  KioskInv'
<1>1. Underway # {} => cartTouched
  BY DEF PressOrder, KioskInv, ButtonAsleep
<1>2. Underway' = Underway \cup {p}
  BY DEF PressOrder, Underway, TypeOK
<1>3. Sending \subseteq Underway
  BY DEF Sending, Underway
<1>4. NothingReplaced'
  BY <1>1, <1>3 DEF PressOrder, KioskInv, NothingReplaced
<1>5. OneUnderway'
  BY <1>1, <1>2 DEF PressOrder, OneUnderway
<1>6. ButtonAsleep' /\ MenuSurvives'
  BY DEF PressOrder, OnMenu, ButtonAsleep, KioskInv, MenuSurvives
<1> QED
  BY <1>4, <1>5, <1>6 DEF KioskInv

\* The outcome of one thread leaves fewer under way; the button comes back with a failure.
LEMMA KioskInvOutcome ==
    ASSUME TypeOK, KioskInv, NEW p \in Presses, OnOrderSuccess(p) \/ OnOrderFailed(p)
    PROVE  KioskInv'
<1>1. p \in Underway /\ Underway' = Underway \ {p}
  BY DEF OnOrderSuccess, OnOrderFailed, Underway, TypeOK
<1>2. Underway' # {} => cartTouched
  BY <1>1 DEF KioskInv, OneUnderway
<1> QED
  BY <1>1, <1>2, QuietStep DEF OnOrderSuccess, OnOrderFailed

\* The process is aborted when a slot misses the menu, or a replaced thread is destroyed.
LEMMA KioskInvAbort ==
    ASSUME TypeOK, KioskInv,
           \/ AcceptChooserTooLate \/ ClockTick
           \/ \E p \in Presses : OutcomeTooLate(p) \/ ThreadDestroyed(p)
    PROVE  KioskInv'
<1>1. Abort /\ (screen # "menu" \/ cartTouched)
  BY DEF AcceptChooserTooLate, ClockTick, OutcomeTooLate, ThreadDestroyed, KioskInv, NothingReplaced
<1> QED
  BY <1>1
  DEF Abort, KioskInv, ButtonAsleep, OneUnderway, NothingReplaced, MenuSurvives, Underway, threadVars,
      uiVars

\* A thread whose try ends stays under way until its signal is handled.
LEMMA KioskInvElsewhere ==
    ASSUME TypeOK, KioskInv,
           \/ \E p \in Presses : Submitter(p)
           \/ \E p \in Presses, b \in Backends : Backend(p, b)
    PROVE  KioskInv'
<1>1. UNCHANGED <<alive, uiVars, orphans, cartTouched>>
  BY DEF Submitter, Answered, TryNext, GiveUp, Backend, CreateOrder, PrintKitchenTicket, CommitOrder,
         HandlerFails, Crash, threadVars
<1>2. CASE \E p \in Presses : Submitter(p)
  <2>1. Underway' = Underway
    BY <1>2 DEF Submitter, Answered, TryNext, GiveUp, Underway, TypeOK
  <2> QED
    BY <1>1, <2>1, QuietStep DEF uiVars
<1>3. CASE \E p \in Presses, b \in Backends : Backend(p, b)
  <2>1. Underway' = Underway
    BY <1>3
    DEF Backend, CreateOrder, PrintKitchenTicket, CommitOrder, HandlerFails, Crash, Underway, threadVars
  <2> QED
    BY <1>1, <2>1, QuietStep DEF uiVars
<1> QED
  BY <1>2, <1>3

LEMMA KioskInvInit == Init => KioskInv
BY DEF Init, KioskInv, ButtonAsleep, OneUnderway, NothingReplaced, MenuSurvives,
       Underway

LEMMA KioskInvStep == TypeOK /\ KioskInv /\ [Next]_vars => KioskInv'
<1> SUFFICES ASSUME TypeOK, KioskInv, [Next]_vars PROVE KioskInv'
  OBVIOUS
<1>1. CASE IdleTimeout
  <2>1. Underway' = Underway
    BY <1>1 DEF IdleTimeout, Underway, threadVars
  <2> QED
    BY <1>1, <2>1, QuietStep DEF IdleTimeout, threadVars
<1>2. CASE UNCHANGED vars
  <2>1. Underway' = Underway
    BY <1>2 DEF Underway, vars, threadVars
  <2> QED
    BY <1>2, <2>1, QuietStep DEF vars, uiVars, threadVars
<1>3. CASE Customer
  BY <1>3, KioskInvCustomer, KioskInvPress, KioskInvAbort
<1>4. CASE ClockTick \/ \E p \in Presses : Outcome(p) \/ ThreadDestroyed(p)
  BY <1>4, KioskInvOutcome, KioskInvAbort DEF Outcome
<1> QED
  BY ONLY TypeOK, KioskInv, [Next]_vars, <1>1, <1>2, <1>3, <1>4, KioskInvElsewhere DEF Next

\* The invariant of the window holds.
LEMMA KioskInvHolds == Spec => []KioskInv
BY KioskInvInit, KioskInvStep, KioskTypeCorrect, PTL DEF Spec

\* Whatever is pressed and whatever the backends answer, the process does not end while
\* the menu is on the screen, unless the cart was changed during a submission.
THEOREM AbortExplained == Spec => []MenuSurvives
<1>1. KioskInv => MenuSurvives
  BY DEF KioskInv
<1> QED
  BY <1>1, KioskInvHolds, PTL

\* However often the order button is pressed, a second order goes out before the customer
\* is told of the first only if the cart was changed meanwhile.
THEOREM PressedTwiceSentOnce == Spec => []OneOrderUntilTold
<1>1. KioskInv => OneOrderUntilTold
  <2> SUFFICES ASSUME KioskInv, ~cartTouched PROVE ~(Cardinality(Underway) > 1)
    BY DEF OneOrderUntilTold
  <2>1. \A p, q \in Underway : p = q
    BY DEF KioskInv, OneUnderway
  <2>2. CASE Underway = {}
    BY <2>2, FS_EmptySet
  <2>3. CASE Underway # {}
    <3>1. PICK p \in Underway : TRUE
      BY <2>3
    <3>2. Underway = {p}
      BY <2>1, <3>1
    <3>3. Cardinality({p}) = 1
      BY FS_Singleton
    <3> QED
      BY <3>2, <3>3
  <2> QED
    BY <2>2, <2>3
<1> QED
  BY <1>1, KioskInvHolds, PTL

-----------------------------------------------------------------------------
(***************************************************************************)
(* Kitchen tickets without an order.                                       *)
(***************************************************************************)
Ghosts == {t \in tickets : handler[t[1]][t[2]] = "failed"}

\* A ticket is printed by a handler that is past printing, and crashes pay for ghosts.
TicketInv ==
    /\ IsFiniteSet(tickets)
    /\ \A t \in tickets : handler[t[1]][t[2]] \in {"printed", "stored", "failed"}
    /\ Cardinality(Ghosts) <= crashes

LEMMA TicketInvInit == Init => TicketInv
<1> SUFFICES ASSUME Init PROVE TicketInv
  OBVIOUS
<1>1. Ghosts = {} /\ tickets = {} /\ crashes = 0
  BY DEF Init, Ghosts
<1> QED
  BY <1>1, FS_EmptySet DEF TicketInv

\* A handler's step: only a crash turns a ticket into a ghost, and that one at most.
LEMMA TicketInvBackend ==
    ASSUME TypeOK, TicketInv, NEW p \in Presses, NEW b \in Backends, Backend(p, b)
    PROVE  TicketInv'
<1> DEFINE here == <<p, b>>
<1>1. /\ handler \in [Presses -> [Backends -> HandlerStates]]
      /\ tickets \subseteq Presses \X Backends
      /\ crashes \in Nat
  BY CrashAssumption DEF TypeOK
<1>2. ASSUME NEW s \in HandlerStates, Becomes(p, b, s), NEW t \in Presses \X Backends
      PROVE  handler'[t[1]][t[2]] = IF t = here THEN s ELSE handler[t[1]][t[2]]
  BY <1>1, <1>2 DEF Becomes
<1>3. CASE CreateOrder(p, b) \/ HandlerFails(p, b)
  <2>1. here \notin tickets
    BY <1>3 DEF TicketInv, CreateOrder, HandlerFails
  <2>2. \E s \in HandlerStates : Becomes(p, b, s) /\ UNCHANGED <<tickets, crashes>>
    BY <1>3 DEF CreateOrder, HandlerFails, HandlerStates
  <2>3. \A t \in tickets : handler'[t[1]][t[2]] = handler[t[1]][t[2]]
    BY <1>1, <1>2, <2>1, <2>2
  <2>4. Ghosts' = Ghosts
    BY <2>2, <2>3 DEF Ghosts
  <2> QED
    BY <2>2, <2>3, <2>4 DEF TicketInv
<1>4. CASE PrintKitchenTicket(p, b)
  <2>1. /\ handler[p][b] = "open" /\ Becomes(p, b, "printed") /\ "printed" \in HandlerStates
        /\ tickets' \in {tickets, tickets \cup {here}} /\ crashes' = crashes
    BY <1>4 DEF PrintKitchenTicket, HandlerStates
  <2>2. here \notin tickets
    BY <2>1 DEF TicketInv
  <2>3. \A t \in tickets : handler'[t[1]][t[2]] = handler[t[1]][t[2]]
    BY <1>1, <1>2, <2>1, <2>2
  <2>4. handler'[here[1]][here[2]] = "printed"
    BY <1>2, <2>1
  <2>5. Ghosts' = Ghosts
    BY <2>1, <2>3, <2>4 DEF Ghosts
  <2>6. IsFiniteSet(tickets')
    BY <2>1, FS_AddElement DEF TicketInv
  <2> QED
    BY <2>1, <2>3, <2>4, <2>5, <2>6 DEF TicketInv
<1>5. CASE CommitOrder(p, b)
  <2>1. /\ handler[p][b] = "printed" /\ Becomes(p, b, "stored") /\ "stored" \in HandlerStates
        /\ UNCHANGED <<tickets, crashes>>
    BY <1>5 DEF CommitOrder, HandlerStates
  <2>2. \A t \in tickets : handler'[t[1]][t[2]] = IF t = here THEN "stored" ELSE handler[t[1]][t[2]]
    BY <1>1, <1>2, <2>1
  <2>3. Ghosts' = Ghosts
    BY <2>1, <2>2 DEF Ghosts
  <2> QED
    BY <2>1, <2>2, <2>3 DEF TicketInv
<1>6. CASE Crash(p, b)
  <2>1. /\ Becomes(p, b, "failed") /\ "failed" \in HandlerStates
        /\ tickets' = tickets /\ crashes' = crashes + 1
    BY <1>6 DEF Crash, HandlerStates
  <2>2. \A t \in tickets : handler'[t[1]][t[2]] = IF t = here THEN "failed" ELSE handler[t[1]][t[2]]
    BY <1>1, <1>2, <2>1
  <2>3. Ghosts' \subseteq Ghosts \cup {here}
    BY <2>1, <2>2 DEF Ghosts
  <2>4. IsFiniteSet(Ghosts)
    BY FS_Subset DEF Ghosts, TicketInv
  <2>5. IsFiniteSet(Ghosts \cup {here}) /\ Cardinality(Ghosts \cup {here}) <= Cardinality(Ghosts) + 1
    <3>1. Cardinality(Ghosts) \in Nat
      BY <2>4, FS_CardinalityType
    <3>2. CASE here \in Ghosts
      <4>1. Ghosts \cup {here} = Ghosts
        BY <3>2
      <4>2. Cardinality(Ghosts) <= Cardinality(Ghosts) + 1
        BY <3>1
      <4> HIDE DEF here
      <4>3. IsFiniteSet(Ghosts \cup {here}) /\ Cardinality(Ghosts \cup {here}) = Cardinality(Ghosts)
        BY ONLY <2>4, <4>1, Zenon
      <4> QED
        BY ONLY <3>1, <4>2, <4>3
    <3>3. CASE here \notin Ghosts
      <4> HIDE DEF here
      <4>1. IsFiniteSet(Ghosts \cup {here})
            /\ (here \notin Ghosts => Cardinality(Ghosts \cup {here}) = Cardinality(Ghosts) + 1)
        BY ONLY <2>4, FS_AddElement, Zenon
      <4> QED
        BY <3>1, <3>3, <4>1
    <3> QED
      BY <3>2, <3>3
  <2>6. Cardinality(Ghosts') <= Cardinality(Ghosts \cup {here}) /\ IsFiniteSet(Ghosts')
    BY <2>3, <2>5, FS_Subset
  <2>7. Cardinality(Ghosts') \in Nat /\ Cardinality(Ghosts) \in Nat
        /\ Cardinality(Ghosts \cup {here}) \in Nat
    BY <2>4, <2>5, <2>6, FS_CardinalityType
  <2>8. Cardinality(Ghosts') <= crashes'
    BY <1>1, <2>1, <2>5, <2>6, <2>7 DEF TicketInv
  <2> QED
    BY <2>1, <2>2, <2>8 DEF TicketInv
<1> QED
  BY <1>3, <1>4, <1>5, <1>6 DEF Backend

\* Nothing but a handler's step touches the tickets and the handlers.
LEMMA TicketInvStep == TypeOK /\ TicketInv /\ [Next]_vars => TicketInv'
<1> SUFFICES ASSUME TypeOK, TicketInv, [Next]_vars PROVE TicketInv'
  OBVIOUS
<1>1. CASE UNCHANGED serverVars
  BY <1>1 DEF TicketInv, Ghosts, serverVars
<1>2. CASE Customer \/ IdleTimeout \/ ClockTick \/ UNCHANGED vars
  BY <1>1, <1>2
  DEF Customer, AddToCart, OpenChooser, AcceptChooser, AcceptChooserTooLate, CancelChooser, PressOrder,
      RemoveFromCart, ClearCart, CloseDialog, TouchScreen, Abort, IdleTimeout, ClockTick, vars
<1>3. CASE \E p \in Presses : Outcome(p) \/ Submitter(p) \/ ThreadDestroyed(p)
  BY <1>1, <1>3
  DEF Outcome, OnOrderSuccess, OnOrderFailed, OutcomeTooLate, ThreadDestroyed, Abort,
      Submitter, Answered, TryNext, GiveUp
<1> QED
  BY ONLY TypeOK, TicketInv, [Next]_vars, <1>2, <1>3, TicketInvBackend DEF Next

\* A refused order is never printed: every ticket without an order is paid for by a
\* crash between printing and commit.
THEOREM GhostsAreCrashes == Spec => []GhostTicketsNeedCrash
<1>1. TicketInv => GhostTicketsNeedCrash
  BY DEF TicketInv, GhostTicketsNeedCrash, Ghosts
<1> QED
  BY <1>1, TicketInvInit, TicketInvStep, KioskTypeCorrect, PTL DEF Spec

-----------------------------------------------------------------------------
(***************************************************************************)
(* Kiosk and handlers implement the ledger.                                *)
(***************************************************************************)

\* The stored orders of each press, and the presses whose customer has a number.
Entries == [p \in Presses |-> Cardinality(StoredAt(p))]
Told    == {p \in Presses : thread[p] = "confirmed"}

\* The stored orders of a press can be counted: there are finitely many backends.
LEMMA StoredAtFinite == ASSUME NEW p PROVE IsFiniteSet(StoredAt(p))
<1>1. StoredAt(p) \in SUBSET Backends
  BY DEF StoredAt
<1> QED
  BY <1>1, FS_Subset, BackendAssumption

\* A handler's step adds a stored order only when it commits, and takes none away.
LEMMA BackendStores ==
    ASSUME TypeOK, NEW p \in Presses, NEW b \in Backends, Backend(p, b)
    PROVE  /\ thread' = thread
           /\ \A q \in Presses \ {p} : StoredAt(q)' = StoredAt(q)
           /\ \/ StoredAt(p)' = StoredAt(p)
              \/ b \notin StoredAt(p) /\ StoredAt(p)' = StoredAt(p) \cup {b}
<1>1. /\ thread' = thread /\ handler[p][b] # "stored"
      /\ \E s \in HandlerStates : Becomes(p, b, s)
  BY DEF Backend, CreateOrder, PrintKitchenTicket, CommitOrder, HandlerFails, Crash, HandlerStates,
         threadVars
<1>2. PICK s \in HandlerStates : Becomes(p, b, s)
  BY <1>1
<1>3. handler \in [Presses -> [Backends -> HandlerStates]]
  BY DEF TypeOK
<1>4. \A q \in Presses \ {p} : handler'[q] = handler[q]
  BY <1>2, <1>3 DEF Becomes
<1>5. handler'[p][b] = s /\ \A c \in Backends \ {b} : handler'[p][c] = handler[p][c]
  BY <1>2, <1>3 DEF Becomes
<1> QED
  BY <1>1, <1>4, <1>5 DEF StoredAt

\* One stored order more is one entry more.
LEMMA StoringEnters ==
    ASSUME NEW p \in Presses, NEW b \in Backends, thread' = thread, b \notin StoredAt(p),
           StoredAt(p)' = StoredAt(p) \cup {b},
           \A q \in Presses \ {p} : StoredAt(q)' = StoredAt(q)
    PROVE  OrderLedger!Next
<1>1. Cardinality(StoredAt(p)') = Cardinality(StoredAt(p)) + 1
  BY StoredAtFinite, FS_AddElement
<1>2. Entries' = [Entries EXCEPT ![p] = Entries[p] + 1]
  BY <1>1 DEF Entries
<1>3. Told' = Told
  BY DEF Told
<1>4. OrderLedger!Enter(p) <=>
          /\ p \in {} => Entries[p] = 0
          /\ Entries' = [Entries EXCEPT ![p] = Entries[p] + 1]
          /\ Told' = Told
  BY DEF OrderLedger!Enter, Entries, Told
<1>5. OrderLedger!Enter(p)
  BY <1>2, <1>3, <1>4
<1> QED
  BY <1>5 DEF OrderLedger!Next

\* A customer is given the number of an order that has been entered.
LEMMA SuccessTells ==
    ASSUME TypeOK, ConfirmedIsStored, NEW p \in Presses, OnOrderSuccess(p)
    PROVE  OrderLedger!Next
<1>1. StoredAt(p) # {}
  BY DEF OnOrderSuccess, ConfirmedIsStored, StoredAt
<1>2. Cardinality(StoredAt(p)) \in Nat /\ Cardinality(StoredAt(p)) # 0
  BY <1>1, StoredAtFinite, FS_CardinalityType, FS_EmptySet
<1>3. Entries[p] > 0
  BY <1>2 DEF Entries
<1>4. Entries' = Entries
  BY DEF OnOrderSuccess, serverVars, Entries, StoredAt
<1>5. Told' = Told \cup {p}
  BY DEF OnOrderSuccess, TypeOK, Told
<1>6. OrderLedger!Tell(p) <=> Entries[p] > 0 /\ Told' = Told \cup {p} /\ Entries' = Entries
  BY DEF OrderLedger!Tell, Entries, Told
<1>7. OrderLedger!Tell(p)
  BY <1>3, <1>4, <1>5, <1>6
<1> QED
  BY <1>7 DEF OrderLedger!Next

\* Every step is one of the ledger or leaves it alone.
LEMMA LedgerStep ==
    ASSUME TypeOK, ConfirmedIsStored, [Next]_vars
    PROVE  [OrderLedger!Next]_<<Entries, Told>>
<1>1. ASSUME NEW p \in Presses, NEW b \in Backends, Backend(p, b)
      PROVE  [OrderLedger!Next]_<<Entries, Told>>
  <2>1. CASE b \notin StoredAt(p) /\ StoredAt(p)' = StoredAt(p) \cup {b}
    BY <1>1, <2>1, BackendStores, StoringEnters
  <2>2. CASE StoredAt(p)' = StoredAt(p)
    <3>1. thread' = thread /\ \A q \in Presses : StoredAt(q)' = StoredAt(q)
      BY <1>1, <2>2, BackendStores
    <3> QED
      BY <3>1 DEF Entries, Told
  <2> QED
    BY <1>1, <2>1, <2>2, BackendStores
<1>2. CASE handler' = handler /\ Told' = Told
  BY <1>2 DEF Entries, StoredAt
<1>3. ASSUME NEW p \in Presses, PressOrder(p) \/ Submitter(p) \/ OnOrderFailed(p)
      PROVE  handler' = handler /\ Told' = Told
  BY <1>3
  DEF PressOrder, Submitter, Answered, TryNext, GiveUp, OnOrderFailed, serverVars, Told, TypeOK
<1>4. CASE \/ Customer /\ ~(\E p \in Presses : PressOrder(p))
           \/ IdleTimeout \/ ClockTick
           \/ \E p \in Presses : OutcomeTooLate(p) \/ ThreadDestroyed(p)
           \/ UNCHANGED vars
  BY <1>2, <1>4
  DEF Customer, AddToCart, OpenChooser, AcceptChooser, AcceptChooserTooLate, CancelChooser,
      RemoveFromCart, ClearCart, CloseDialog, TouchScreen, IdleTimeout, ClockTick, OutcomeTooLate,
      ThreadDestroyed, Abort, threadVars, serverVars, vars, Told
<1> QED
  BY ONLY TypeOK, ConfirmedIsStored, [Next]_vars, <1>1, <1>2, <1>3, <1>4, SuccessTells DEF Next, Outcome

\* Kiosk and handlers implement the ledger: no failure elsewhere, no timeout and no crash
\* takes a stored order away, and a customer is told only of an order that is entered.
THEOREM KioskKeepsLedger == Spec => ImplementsLedger
<1>1. Init => OrderLedger!Init
  <2> SUFFICES ASSUME Init PROVE OrderLedger!Init
    OBVIOUS
  <2>1. \A p \in Presses : StoredAt(p) = {}
    BY DEF Init, StoredAt
  <2>2. Entries = [p \in Presses |-> 0] /\ Told = {}
    BY <2>1, FS_EmptySet DEF Entries, Told, Init
  <2> QED
    BY <2>2 DEF OrderLedger!Init, Entries, Told
<1>2. TypeOK /\ ConfirmedIsStored /\ [Next]_vars => [OrderLedger!Next]_<<Entries, Told>>
  BY LedgerStep
<1> QED
  BY <1>1, <1>2, KioskTypeCorrect, NumberMeansOrder, PTL
  DEF Spec, ImplementsLedger, OrderLedger!Spec, Entries, Told

=============================================================================
