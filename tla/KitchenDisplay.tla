--------------------------- MODULE KitchenDisplay ---------------------------
(***************************************************************************)
(* One kitchen display and the two requests it sends: GET /api/v1/queue,   *)
(* from a new Poller thread at every tick of a timer and after every       *)
(* status change, and PATCH /api/v1/orders/{id}/status, from a             *)
(* StatusUpdater thread for every press of a card's button.  The threads   *)
(* answer in any order, each answer redraws all cards, and a PATCH given   *)
(* up by its thread may still take effect later.                           *)
(***************************************************************************)
EXTENDS Naturals, Sequences

CONSTANTS
    Orders,
    Hosts,          \* number of backends a request is tried at, one after the other
    Pollers,        \* bound: poller threads at a time
    Presses,        \* bound: presses of cards' buttons, one thread each
    ShowStatuses,   \* show_statuses of kitchen.ini
    OtherStatuses,  \* the statuses other callers set
    MaxChanges      \* bound: status changes by others

Chain  == <<"pending", "confirmed", "preparing", "ready">>
Queued == {Chain[i] : i \in DOMAIN Chain}
Status == Queued \cup {"completed", "cancelled"}

ASSUME OrderAssumption == Orders # {}
ASSUME HostAssumption == Hosts \in Nat \ {0}
ASSUME StatusAssumption == ShowStatuses \subseteq Status /\ OtherStatuses \subseteq Status
ASSUME ChangeAssumption == MaxChanges \in Nat

VARIABLES
    status,   \* committed orders.status, "none" before the order is placed
    reached,  \* history: the statuses each order has had
    changes,  \* number of changes by others so far
    \* the window
    shown,    \* the status on each order's card, "none" without a card
    busy,     \* the orders whose card's button is disabled
    \* the threads
    poll,     \* the state of each poller thread
    seen,     \* the queue it was sent
    thread,   \* the state of each updater thread
    target,   \* the order and status it sends
    tries,    \* how many of the backends it has sent them to
    applied,  \* the tries whose requests have been committed
    redrawn   \* history: the cards were redrawn during an update

serverVars == <<status, reached, changes>>
windowVars == <<shown, busy>>
pollVars   == <<poll, seen>>
updateVars == <<thread, target, tries, applied>>
vars == <<serverVars, windowVars, pollVars, updateVars, redrawn>>

Card     == Status \cup {"none"}
Shown    == (ShowStatuses \cap Queued) \cup {"none"}
Target   == [order : Orders, to : Queued]
NoTarget == [order |-> CHOOSE o \in Orders : TRUE, to |-> "pending"]
Nothing  == [o \in Orders |-> "none"]

TypeOK ==
    /\ status \in [Orders -> Card]
    /\ reached \in [Orders -> SUBSET Status]
    /\ changes \in 0 .. MaxChanges
    /\ shown \in [Orders -> Shown]
    /\ busy \in SUBSET {o \in Orders : shown[o] # "none"}
    /\ poll \in [Pollers -> {"idle", "asking", "answered", "failed"}]
    /\ seen \in [Pollers -> [Orders -> Shown]]
    /\ thread \in [Presses -> {"unused", "sending", "ok", "error", "over"}]
    /\ target \in [Presses -> Target]
    /\ tries \in [Presses -> 0 .. Hosts]
    /\ applied \in [Presses -> SUBSET (1 .. Hosts)]
    /\ \A u \in Presses : applied[u] \subseteq 1 .. tries[u]
    /\ \A u \in Presses : thread[u] = "unused" <=> tries[u] = 0
    /\ redrawn \in BOOLEAN

Init ==
    /\ status = Nothing
    /\ reached = [o \in Orders |-> {}]
    /\ changes = 0
    /\ shown = Nothing
    /\ busy = {}
    /\ poll = [p \in Pollers |-> "idle"]
    /\ seen = [p \in Pollers |-> Nothing]
    /\ thread = [u \in Presses |-> "unused"]
    /\ target = [u \in Presses |-> NoTarget]
    /\ tries = [u \in Presses |-> 0]
    /\ applied = [u \in Presses |-> {}]
    /\ redrawn = FALSE

-----------------------------------------------------------------------------
\* NEXT_STATUS: what the button of a card asks for.
HasButton(s)  == s \in {"pending", "confirmed", "preparing"}
NextStatus(s) == Chain[1 + CHOOSE i \in DOMAIN Chain : Chain[i] = s]

\* What get_queue returns of an order, after the filter of Poller.run.
Visible(o) == IF status[o] \in Queued \cap ShowStatuses THEN status[o] ELSE "none"

\* From the press until the outcome is handled.
Underway == {u \in Presses : thread[u] \in {"sending", "ok", "error"}}

SetStatus(o, s) ==
    /\ status' = [status EXCEPT ![o] = s]
    /\ reached' = [reached EXCEPT ![o] = @ \cup {s}]

Becomes(u, state) == thread' = [thread EXCEPT ![u] = state]

-----------------------------------------------------------------------------
(***************************************************************************)
(* Everybody else.                                                         *)
(***************************************************************************)

\* A kiosk or a delivery platform places an order.
PlaceOrder(o) ==
    /\ status[o] = "none"
    /\ SetStatus(o, "pending")
    /\ UNCHANGED <<changes, windowVars, pollVars, updateVars, redrawn>>

\* The admin page, or a machine other than this display.
OtherChange(o, s) ==
    /\ changes < MaxChanges
    /\ status[o] \notin {"none", s}
    /\ SetStatus(o, s)
    /\ changes' = changes + 1
    /\ UNCHANGED <<windowVars, pollVars, updateVars, redrawn>>

-----------------------------------------------------------------------------
(***************************************************************************)
(* Polling.                                                                *)
(***************************************************************************)

\* _poll: a new poller thread, whether or not the one before it has answered.
StartPoll(p) ==
    /\ poll[p] = "idle"
    /\ poll' = [poll EXCEPT ![p] = "asking"]
    /\ UNCHANGED seen

\* The timer, or F5.
Poll(p) ==
    /\ StartPoll(p)
    /\ UNCHANGED <<serverVars, windowVars, updateVars, redrawn>>

\* One of the backends answers; the SELECT sees what is committed.
ReadQueue(p) ==
    /\ poll[p] = "asking"
    /\ seen' = [seen EXCEPT ![p] = [o \in Orders |-> Visible(o)]]
    /\ poll' = [poll EXCEPT ![p] = "answered"]
    /\ UNCHANGED <<serverVars, windowVars, updateVars, redrawn>>

\* Neither backend answers in time.
PollFails(p) ==
    /\ poll[p] = "asking"
    /\ poll' = [poll EXCEPT ![p] = "failed"]
    /\ UNCHANGED <<serverVars, windowVars, seen, updateVars, redrawn>>

\* The thread's signal is handled, and the thread is over.
EndPoll(p) ==
    /\ poll' = [poll EXCEPT ![p] = "idle"]
    /\ seen' = [seen EXCEPT ![p] = Nothing]

\* Fault: a card whose button is disabled survives the redraw.
OnDataKeepingBusy(p) ==
    /\ poll[p] = "answered"
    /\ shown' = [o \in Orders |-> IF o \in busy THEN shown[o] ELSE seen[p][o]]
    /\ redrawn' = (redrawn \/ Underway # {})
    /\ EndPoll(p)
    /\ UNCHANGED <<serverVars, busy, updateVars>>

\* All cards are built anew, every button enabled.
OnData(p) ==
    /\ poll[p] = "answered"
    /\ shown' = seen[p]
    /\ busy' = {}
    /\ redrawn' = (redrawn \/ Underway # {})
    /\ EndPoll(p)
    /\ UNCHANGED <<serverVars, updateVars>>

\* The cards stay as they are.
OnError(p) ==
    /\ poll[p] = "failed"
    /\ EndPoll(p)
    /\ UNCHANGED <<serverVars, windowVars, updateVars, redrawn>>

-----------------------------------------------------------------------------
(***************************************************************************)
(* Status updates.                                                         *)
(***************************************************************************)

\* Thread u sends the order's next status to the first backend.
StartUpdater(u, o) ==
    /\ thread[u] = "unused"
    /\ HasButton(shown[o]) /\ o \notin busy
    /\ Becomes(u, "sending")
    /\ target' = [target EXCEPT ![u] = [order |-> o, to |-> NextStatus(shown[o])]]
    /\ tries' = [tries EXCEPT ![u] = 1]

\* Fault: the button stays enabled.
PressAgain(u, o) ==
    /\ StartUpdater(u, o)
    /\ UNCHANGED <<serverVars, windowVars, pollVars, applied, redrawn>>

\* Fault: the card moves on at once, without waiting for the backend.
PressAhead(u, o) ==
    /\ StartUpdater(u, o)
    /\ shown' = [shown EXCEPT ![o] = IF HasButton(NextStatus(@)) THEN NextStatus(@) ELSE "none"]
    /\ UNCHANGED <<serverVars, busy, pollVars, applied, redrawn>>

\* _on_status_change.
Press(u, o) ==
    /\ StartUpdater(u, o)
    /\ busy' = busy \cup {o}
    /\ UNCHANGED <<serverVars, shown, pollVars, applied, redrawn>>

\* update_order_status commits for one of the tries, perhaps long after the thread
\* has given it up.  It sets the status whatever it was before.
Apply(u, i) ==
    /\ i \in 1 .. tries[u] \ applied[u]
    /\ applied' = [applied EXCEPT ![u] = @ \cup {i}]
    /\ SetStatus(target[u].order, target[u].to)
    /\ UNCHANGED <<changes, windowVars, pollVars, thread, target, tries, redrawn>>

\* The answer to the latest try arrives.
Answered(u) ==
    /\ thread[u] = "sending"
    /\ tries[u] \in applied[u]
    /\ Becomes(u, "ok")
    /\ UNCHANGED <<serverVars, windowVars, pollVars, target, tries, applied, redrawn>>

\* Refused, answered with an error, or timed out: the next backend is tried.
TryNext(u) ==
    /\ thread[u] = "sending"
    /\ tries[u] < Hosts
    /\ tries' = [tries EXCEPT ![u] = @ + 1]
    /\ UNCHANGED <<serverVars, windowVars, pollVars, thread, target, applied, redrawn>>

GiveUp(u) ==
    /\ thread[u] = "sending"
    /\ tries[u] = Hosts
    /\ Becomes(u, "error")
    /\ UNCHANGED <<serverVars, windowVars, pollVars, target, tries, applied, redrawn>>

\* A fresh poll follows; until it answers the button stays disabled.
OnStatusOk(u) ==
    /\ thread[u] = "ok"
    /\ Becomes(u, "over")
    /\ \E p \in Pollers : StartPoll(p)
    /\ UNCHANGED <<serverVars, windowVars, target, tries, applied, redrawn>>

OnStatusErr(u) ==
    /\ thread[u] = "error"
    /\ Becomes(u, "over")
    /\ busy' = busy \ {target[u].order}
    /\ UNCHANGED <<serverVars, shown, pollVars, target, tries, applied, redrawn>>

-----------------------------------------------------------------------------
Others ==
    \/ \E o \in Orders : PlaceOrder(o)
    \/ \E o \in Orders, s \in OtherStatuses : OtherChange(o, s)

Polling(p) ==
    \/ ReadQueue(p)
    \/ PollFails(p)
    \/ OnData(p)
    \/ OnError(p)

Updating(u) ==
    \/ \E o \in Orders : Press(u, o)
    \/ \E i \in 1 .. Hosts : Apply(u, i)
    \/ Answered(u)
    \/ TryNext(u)
    \/ GiveUp(u)
    \/ OnStatusOk(u)
    \/ OnStatusErr(u)

Next ==
    \/ Others
    \/ \E p \in Pollers : Poll(p)
    \/ \E p \in Pollers : Polling(p)
    \/ \E u \in Presses : Updating(u)

Spec == Init /\ [][Next]_vars

\* The timer goes on ticking, requests end at the latest with their timeouts, and
\* their signals are delivered; again and again a backend is there to answer.
Fairness ==
    /\ WF_vars(\E p \in Pollers : Poll(p))
    /\ SF_vars(\E p \in Pollers : ReadQueue(p))
    /\ \A p \in Pollers : WF_vars(Polling(p))

FairSpec == Spec /\ Fairness

-----------------------------------------------------------------------------
(***************************************************************************)
(* Properties.                                                             *)
(***************************************************************************)

\* As long as the others only complete and cancel orders, none reaches a status
\* without having had the one before it: cards out of date, presses repeated after
\* a redraw and requests that arrive late never make an order skip a step.
NoStepSkipped ==
    \A o \in Orders : \A i \in 2 .. Len(Chain) :
        Chain[i] \in reached[o] => Chain[i - 1] \in reached[o]

\* Two updates of one order are under way together only if the cards were redrawn
\* during an update: the disabled button holds off a second press until then.
DoublePressNeedsRedraw ==
    (\E u, v \in Underway : u # v /\ target[u].order = target[v].order) => redrawn

\* When the orders stop changing, the display comes to show just those it should,
\* each with its status and an enabled button, and stays that way: no answer out
\* of date and no disabled button remains, however the threads overlapped.
DisplayConverges ==
    <>[](busy = {} /\ \A o \in Orders : shown[o] = Visible(o))

=============================================================================
