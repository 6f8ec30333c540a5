--------------------------- MODULE CashierStation ---------------------------
(***************************************************************************)
(* One cashier station.  A thread polls GET /orders and hands each list to *)
(* the window as a queued signal; the window lists the unpaid orders and   *)
(* takes their payments with PATCH /orders/{id}/payment, which blocks it.  *)
(* Everybody else (kiosks, the admin page, another cashier) changes orders *)
(* meanwhile.  Orders are numbered in the order of their created_at, which *)
(* is set when their handlers insert them, and come to be in the order of  *)
(* the commits, which need not be the same.                                *)
(***************************************************************************)
EXTENDS Naturals, FiniteSets, Sequences

CONSTANTS
    MaxOrders,   \* bound: orders placed
    Window,      \* the limit of the request for orders, 100 in the code
    Hosts,       \* number of backends a request is tried at, one after the other
    MaxInbox,    \* bound: lists read and not yet handled by the window
    MaxPays,     \* bound: payments confirmed at this station
    MaxOthers,   \* bound: orders prepaid, cancelled, or paid elsewhere
    MaxCrashes   \* bound: worker processes or DB connections lost

Orders  == 1 .. MaxOrders
NoOrder == 0
Pays    == 1 .. MaxPays

ASSUME OrdersAssumption == MaxOrders \in Nat /\ MaxCrashes \in Nat
ASSUME WindowAssumption == Window \in Nat
ASSUME HostsAssumption == Hosts \in Nat \ {0}
ASSUME QueueAssumption == MaxInbox \in Nat /\ MaxPays \in Nat /\ MaxOthers \in Nat

VARIABLES
    \* the database, as committed
    placed,     \* the orders that have been committed
    paid,       \* those with payment_status 'paid'
    cancelled,  \* those with status 'cancelled'
    others,     \* how many of MaxOthers so far
    crashes,    \* number of crashes so far
    \* the window
    ui,         \* what the cashier sees
    cards,      \* _cards: the orders listed
    selected,   \* _selected_id
    detail,     \* _detail._order
    asked,      \* the order of the payment dialog
    inbox,      \* lists read by the poller, on their way to the window
    \* the payments
    pays,       \* number of payments confirmed in the dialog
    of,         \* the order of each
    tries,      \* how many of the backends each was sent to
    handler,    \* update_order_payment for each payment's try at each backend
    receipts,   \* the orders a receipt was printed for
    \* history
    reported,   \* the orders reported to the cashier as marked paid
    failed,     \* the payments reported to the cashier as failed
    reoffered   \* reported, and yet listed again or still

dbVars      == <<placed, paid, cancelled, others, crashes>>
windowVars  == <<ui, cards, selected, detail, asked, inbox>>
payVars     == <<pays, of, tries, handler, receipts>>
historyVars == <<reported, failed, reoffered>>
vars == <<dbVars, windowVars, payVars, historyVars>>

Screens == {
    "list",     \* the main window accepts clicks
    "dialog",   \* PaymentDialog.exec_()
    "paying",   \* the window's thread waits for a backend
    "recorded", \* message box: marked as PAID
    "error"}    \* message box: could not update payment

HandlerStates == {
    "none",     \* not begun                                    next: PrintReceipt
    "open",     \* payment flushed and receipt tried, not committed  next: Commit
    "stored",   \* committed and answered
    "lost"}     \* rolled back

TypeOK ==
    /\ placed \subseteq Orders
    /\ paid \subseteq placed /\ cancelled \subseteq placed
    /\ others \in 0 .. MaxOthers /\ crashes \in 0 .. MaxCrashes
    /\ ui \in Screens
    /\ cards \subseteq placed
    /\ selected \in cards \cup {NoOrder}
    /\ {detail, asked} \subseteq placed \cup {NoOrder}
    /\ inbox \in Seq([orders : SUBSET Orders, due : SUBSET Orders])
    /\ Len(inbox) <= MaxInbox
    /\ \A k \in 1 .. Len(inbox) : inbox[k].orders \cup inbox[k].due \subseteq placed
    /\ pays \in 0 .. MaxPays
    /\ of \in [Pays -> placed \cup {NoOrder}]
    /\ tries \in [Pays -> 0 .. Hosts]
    /\ handler \in [Pays -> [1 .. Hosts -> HandlerStates]]
    /\ \A n \in Pays, i \in 1 .. Hosts : handler[n][i] # "none" => i <= tries[n] /\ n <= pays
    /\ receipts \subseteq placed
    /\ reported \subseteq placed
    /\ failed \subseteq 1 .. pays
    /\ reoffered \subseteq reported

Init ==
    /\ placed = {} /\ paid = {} /\ cancelled = {} /\ others = 0 /\ crashes = 0
    /\ ui = "list" /\ cards = {} /\ selected = NoOrder /\ detail = NoOrder
    /\ asked = NoOrder /\ inbox = <<>>
    /\ pays = 0
    /\ of = [n \in Pays |-> NoOrder]
    /\ tries = [n \in Pays |-> 0]
    /\ handler = [n \in Pays |-> [i \in 1 .. Hosts |-> "none"]]
    /\ receipts = {}
    /\ reported = {} /\ failed = {} /\ reoffered = {}

-----------------------------------------------------------------------------
\* Those created after an order.
Younger(o) == {p \in placed : p > o}

\* GET /orders?limit=...: the latest orders of any kind ...
Latest == {o \in placed : Cardinality(Younger(o)) < Window}

\* ... of which the station keeps those still to be paid.
Due    == placed \ (paid \cup cancelled)
Listed == Latest \cap Due

\* Each of the station's requests locks its row in machines until it commits.
Idle == \A n \in Pays, i \in 1 .. Hosts : handler[n][i] # "open"

\* _on_orders: cards of orders that are gone are removed, and with the selected one
\* the selection; cards of new orders are added.
ShowOrders(orders) ==
    /\ cards' = orders
    /\ selected' = IF selected \in orders THEN selected ELSE NoOrder
    /\ detail' = IF selected \in cards \ orders THEN NoOrder ELSE detail

HandlerAt(n, i, state) == handler' = [handler EXCEPT ![n][i] = state]

-----------------------------------------------------------------------------
(***************************************************************************)
(* Everybody else.                                                         *)
(***************************************************************************)

\* At a kiosk.  The handlers of younger orders may have committed before.
PlaceOrder(o) ==
    /\ o \notin placed
    /\ placed' = placed \cup {o}
    /\ UNCHANGED <<paid, cancelled, others, crashes, windowVars, payVars, historyVars>>

Other == others < MaxOthers /\ others' = others + 1

\* Through a delivery platform, which has been paid.
PlacePrepaid(o) ==
    /\ o \notin placed
    /\ Other
    /\ placed' = placed \cup {o}
    /\ paid' = paid \cup {o}
    /\ UNCHANGED <<cancelled, crashes, windowVars, payVars, historyVars>>

\* Fault: cancelling an order undoes its payment.
CancelAndRefund(o) ==
    /\ o \in placed \ cancelled
    /\ Other
    /\ cancelled' = cancelled \cup {o}
    /\ paid' = paid \ {o}
    /\ UNCHANGED <<placed, crashes, windowVars, payVars, historyVars>>

\* The admin page, or anybody who sends a status.
CancelOrder(o) ==
    /\ o \in placed \ cancelled
    /\ Other
    /\ cancelled' = cancelled \cup {o}
    /\ UNCHANGED <<placed, paid, crashes, windowVars, payVars, historyVars>>

\* A cancelled order is given another status, which the handlers do not prevent.  It is
\* bounded by the cancellations before.
ReopenOrder(o) ==
    /\ o \in cancelled
    /\ cancelled' = cancelled \ {o}
    /\ UNCHANGED <<placed, paid, others, crashes, windowVars, payVars, historyVars>>

\* Another cashier takes the payment.
OtherPays(o) ==
    /\ o \in placed \ paid
    /\ Other
    /\ paid' = paid \cup {o}
    /\ UNCHANGED <<placed, cancelled, crashes, windowVars, payVars, historyVars>>

-----------------------------------------------------------------------------
(***************************************************************************)
(* The list.                                                               *)
(***************************************************************************)

\* One round of the poller's loop that gets an answer.  The answer is on its way
\* until the window's thread handles it.  That it also says which orders are to be paid
\* is history.
Poll ==
    /\ Idle
    /\ Len(inbox) < MaxInbox
    /\ inbox' = Append(inbox, [orders |-> Listed, due |-> Due])
    /\ UNCHANGED <<dbVars, ui, cards, selected, detail, asked, payVars, historyVars>>

\* Fault: cards of orders that are gone are left to the refresh button.
OnOrdersAdding ==
    /\ ui # "paying"
    /\ inbox # <<>>
    /\ ShowOrders(cards \cup Head(inbox).orders)
    /\ inbox' = Tail(inbox)
    /\ reoffered' = reoffered \cup (Head(inbox).orders \cap reported)
    /\ UNCHANGED <<dbVars, ui, asked, payVars, reported, failed>>

\* The window handles the oldest list, also under a dialog or a message box.
OnOrders ==
    /\ ui # "paying"
    /\ inbox # <<>>
    /\ ShowOrders(Head(inbox).orders)
    /\ inbox' = Tail(inbox)
    /\ reoffered' = reoffered \cup (Head(inbox).orders \cap reported)
    /\ UNCHANGED <<dbVars, ui, asked, payVars, reported, failed>>

\* Fault: an error is taken for an empty list.
RefreshOrEmpty == \E orders \in {Listed, {}} : ShowOrders(orders)

\* _manual_refresh: the window reads the list itself.
Refresh == Idle /\ ShowOrders(Listed)

\* The refresh button; when no backend answers, nothing changes.
PressRefresh ==
    /\ ui = "list"
    /\ Refresh
    /\ UNCHANGED <<dbVars, ui, asked, inbox, payVars, historyVars>>

\* A click on a card.
SelectCard(o) ==
    /\ ui = "list"
    /\ o \in cards
    /\ selected' = o
    /\ detail' = o
    /\ UNCHANGED <<dbVars, ui, cards, asked, inbox, payVars, historyVars>>

-----------------------------------------------------------------------------
(***************************************************************************)
(* Payment.                                                                *)
(***************************************************************************)

\* "Process Payment": the dialog is about the order the panel shows now.
OpenDialog ==
    /\ ui = "list"
    /\ detail # NoOrder
    /\ ui' = "dialog"
    /\ asked' = detail
    /\ UNCHANGED <<dbVars, cards, selected, detail, inbox, payVars, historyVars>>

CancelDialog ==
    /\ ui = "dialog"
    /\ ui' = "list"
    /\ asked' = NoOrder
    /\ UNCHANGED <<dbVars, cards, selected, detail, inbox, payVars, historyVars>>

\* "Mark as PAID": the payment is sent to the first backend.
ConfirmPayment ==
    /\ ui = "dialog"
    /\ pays < MaxPays
    /\ ui' = "paying"
    /\ pays' = pays + 1
    /\ of' = [of EXCEPT ![pays'] = asked]
    /\ tries' = [tries EXCEPT ![pays'] = 1]
    /\ UNCHANGED <<dbVars, cards, selected, detail, asked, inbox, handler, receipts, historyVars>>

\* update_order_payment, for one of the tries, perhaps one already given up, once it
\* has the lock of the machine's row.  The receipt is printed before the commit; the
\* printer may not work, and the handler goes on all the same.
PrintReceipt(n, i) ==
    /\ i <= tries[n] /\ handler[n][i] = "none"
    /\ Idle
    /\ HandlerAt(n, i, "open")
    /\ receipts' \in {receipts, receipts \cup {of[n]}}
    /\ UNCHANGED <<dbVars, windowVars, pays, of, tries, historyVars>>

\* Fault: an error after the receipt, one of the printer say, undoes the payment.
CommitOrUndo(n, i) ==
    /\ handler[n][i] = "open"
    /\ \/ HandlerAt(n, i, "stored") /\ paid' = paid \cup {of[n]}
       \/ HandlerAt(n, i, "lost") /\ UNCHANGED paid
    /\ UNCHANGED <<placed, cancelled, others, crashes, windowVars, pays, of, tries, receipts, historyVars>>

\* It is paid now, whatever it was before.
Commit(n, i) ==
    /\ handler[n][i] = "open"
    /\ HandlerAt(n, i, "stored")
    /\ paid' = paid \cup {of[n]}
    /\ UNCHANGED <<placed, cancelled, others, crashes, windowVars, pays, of, tries, receipts, historyVars>>

Crash(n, i) ==
    /\ handler[n][i] = "open"
    /\ crashes < MaxCrashes
    /\ crashes' = crashes + 1
    /\ HandlerAt(n, i, "lost")
    /\ UNCHANGED <<placed, paid, cancelled, others, windowVars, pays, of, tries, receipts, historyVars>>

\* Fault: the handler answers before get_db commits.
AnsweredEarly ==
    /\ ui = "paying"
    /\ handler[pays][tries[pays]] \in {"open", "stored"}
    /\ ui' = "recorded"
    /\ reported' = reported \cup {asked}
    /\ UNCHANGED <<dbVars, cards, selected, detail, asked, inbox, payVars, failed, reoffered>>

\* The answer to the latest try arrives: the message box opens.
Answered ==
    /\ ui = "paying"
    /\ handler[pays][tries[pays]] = "stored"
    /\ ui' = "recorded"
    /\ reported' = reported \cup {asked}
    /\ UNCHANGED <<dbVars, cards, selected, detail, asked, inbox, payVars, failed, reoffered>>

\* Refused, answered with an error, or no answer within 10 s: the next backend.
TryNext ==
    /\ ui = "paying"
    /\ tries[pays] < Hosts
    /\ tries' = [tries EXCEPT ![pays] = @ + 1]
    /\ UNCHANGED <<dbVars, windowVars, pays, of, handler, receipts, historyVars>>

GiveUp ==
    /\ ui = "paying"
    /\ tries[pays] = Hosts
    /\ ui' = "error"
    /\ failed' = failed \cup {pays}
    /\ UNCHANGED <<dbVars, cards, selected, detail, asked, inbox, payVars, reported, reoffered>>

\* Fault: the list is left to the next poll.
CloseRecordedLeavingList ==
    /\ ui = "recorded"
    /\ ui' = "list" /\ asked' = NoOrder
    /\ UNCHANGED <<dbVars, cards, selected, detail, inbox, payVars, historyVars>>

\* The message box is closed and the list read anew ...
CloseRecorded ==
    /\ ui = "recorded"
    /\ ui' = "list" /\ asked' = NoOrder
    /\ Refresh
    /\ UNCHANGED <<dbVars, inbox, payVars, historyVars>>

\* ... unless no backend answers: card and panel stay as they are.
CloseRecordedNoRefresh ==
    /\ ui = "recorded"
    /\ ui' = "list" /\ asked' = NoOrder
    /\ reoffered' = reoffered \cup ({asked} \cap cards)
    /\ UNCHANGED <<dbVars, cards, selected, detail, inbox, payVars, reported, failed>>

CloseError ==
    /\ ui = "error"
    /\ ui' = "list" /\ asked' = NoOrder
    /\ UNCHANGED <<dbVars, cards, selected, detail, inbox, payVars, historyVars>>

-----------------------------------------------------------------------------
Others ==
    \/ \E o \in Orders : PlaceOrder(o)
    \/ \E o \in Orders : PlacePrepaid(o)
    \/ \E o \in Orders : CancelOrder(o)
    \/ \E o \in Orders : ReopenOrder(o)
    \/ \E o \in Orders : OtherPays(o)

Cashier ==
    \/ PressRefresh
    \/ \E o \in Orders : SelectCard(o)
    \/ OpenDialog
    \/ CancelDialog
    \/ ConfirmPayment
    \/ CloseRecorded
    \/ CloseRecordedNoRefresh
    \/ CloseError

Waiting ==
    \/ Answered
    \/ TryNext
    \/ GiveUp

Handler(n, i) ==
    \/ PrintReceipt(n, i)
    \/ Commit(n, i)
    \/ Crash(n, i)

Next ==
    \/ Others
    \/ Cashier
    \/ Poll
    \/ OnOrders
    \/ Waiting
    \/ \E n \in Pays, i \in 1 .. Hosts : Handler(n, i)

Spec == Init /\ [][Next]_vars

\* Signals are delivered, a payment's requests end with their timeouts, handlers
\* that have begun end, and again and again a backend answers a poll.
Fairness ==
    /\ SF_vars(Poll)
    /\ WF_vars(OnOrders)
    /\ WF_vars(Waiting)
    /\ \A n \in Pays, i \in 1 .. Hosts : WF_vars(Commit(n, i) \/ Crash(n, i))

FairSpec == Spec /\ Fairness

-----------------------------------------------------------------------------
(***************************************************************************)
(* Properties.                                                             *)
(***************************************************************************)

\* What the cashier is told is marked as PAID is paid in the database, also when
\* the worker is lost right after the receipt is printed.
ReportedIsPaid == reported \subseteq paid

\* The payments as a ledger: an order is entered when it is paid.
PaymentLedger == INSTANCE Ledger WITH
    Keyed <- Orders,
    entries <- [o \in Orders |-> IF o \in paid THEN 1 ELSE 0],
    told <- reported

\* Every step of the station, its handlers and everybody else leaves the ledger alone, or
\* enters one payment, or tells the cashier of one that is entered: a payment is not
\* undone by a handler that fails or comes late, nor by the other backend.
ImplementsLedger == PaymentLedger!Spec

\* A receipt printed for an order that is not paid belongs to a handler still at
\* work, or a crash has undone the payment after the receipt was printed.
GhostReceiptNeedsCrash ==
    \A o \in receipts \ paid :
        \/ crashes > 0
        \/ \E n \in 1 .. pays, i \in 1 .. Hosts : of[n] = o /\ handler[n][i] = "open"

\* The station takes the payment of an order again only if the payment before was
\* reported as failed, or it was reported as recorded and the order was listed again
\* by a list read earlier, or was left there since the list could not be read.
SecondPaymentHasCause ==
    \A m \in 1 .. pays, n \in 1 .. pays :
        m < n /\ of[m] = of[n] => m \in failed \/ of[m] \in reoffered

\* An order that is still to be paid loses its card only by being pushed out of the
\* latest Window orders, or for the time being by a list that was read when it was not to
\* be paid: before its handler had committed, or while it was cancelled.
VanishHasCause ==
    [][\A o \in cards \ cards' :
        \/ o \notin Due
        \/ Cardinality(Younger(o)) >= Window
        \/ inbox # <<>> /\ inbox' = Tail(inbox) /\ o \notin Head(inbox).due]_vars

\* When the orders stop changing, the list comes to show just the unpaid orders
\* among the latest ones, and stays that way.
ListConverges == <>[](cards = Listed)

=============================================================================
