--------------------------- MODULE KioskOrdering ---------------------------
(***************************************************************************)
(* A kiosk and POST /api/v1/orders.  The kiosk's user interface is one     *)
(* thread that handles events, also while a modal dialog is open; every    *)
(* press of the order button starts an OrderSubmitter thread, which tries  *)
(* the backends one after the other.  The handler of each try runs on its  *)
(* own: the kiosk may have given it up long before it commits.             *)
(***************************************************************************)
EXTENDS Naturals, FiniteSets, Sequences

CONSTANTS
    Items,       \* things on the menu, each put into the cart at most once
    NoItem,      \* in a dialog that is not about an item
    Backends,    \* primary_host and secondary_host
    Primary,     \* the URL the kiosk starts with
    Presses,     \* bound: presses of the order button, one thread each
    MaxCrashes   \* bound: worker processes or DB connections lost

ASSUME PrimaryAssumption == Primary \in Backends
ASSUME BackendAssumption == IsFiniteSet(Backends)
ASSUME ItemAssumption == NoItem \notin Items
ASSUME CrashAssumption == MaxCrashes \in Nat

VARIABLES
    alive,     \* the kiosk process has not been aborted
    hasVideo,  \* an idle video is configured
    screen,    \* the central widget: "menu", "video" or "blank"
    dialogs,   \* the modal dialogs open, the topmost one first
    cart,      \* self.cart
    button,    \* the order button is enabled
    active,    \* _active_base_url
    thread,    \* the state of each submitter thread
    lines,     \* the order it sends
    tried,     \* the backends it has sent it to
    at,        \* the backend it is waiting for
    orphans,   \* threads replaced in self._submitter while they were running
    handler,   \* the state of the handler of each thread's try at each backend
    tickets,   \* kitchen tickets printed
    crashes,   \* number of backend crashes so far
    cartTouched \* history: the cart was changed during a submission

uiVars      == <<screen, dialogs, cart, button>>
threadVars  == <<active, thread, lines, tried, at, orphans>>
serverVars  == <<handler, tickets, crashes>>
vars == <<alive, hasVideo, uiVars, threadVars, serverVars, cartTouched>>

Dialog == [kind : {"choose"}, item : Items] \cup [kind : {"confirmed", "failed"}, item : {NoItem}]

ThreadStates == {
    "unused",    \* not started                       next: PressOrder
    "sending",   \* waiting for a backend             next: Answered, TryNext, GiveUp
    "accepted",  \* success emitted                   next: OnOrderSuccess
    "rejected",  \* failed emitted                    next: OnOrderFailed
    "confirmed", \* the customer has a number
    "notified"}  \* the customer has been told of the failure

HandlerStates == {
    "none",      \* not begun                         next: CreateOrder
    "open",      \* rows inserted, not committed      next: PrintKitchenTicket
    "printed",   \* printing attempted                next: CommitOrder
    "stored",    \* committed, answered with 201
    "failed"}    \* rolled back, answered with an error, or lost

TypeOK ==
    /\ alive \in BOOLEAN
    /\ hasVideo \in BOOLEAN
    /\ screen \in {"menu", "video", "blank"}
    /\ dialogs \in Seq(Dialog)
    /\ cart \in SUBSET Items
    /\ button \in BOOLEAN
    /\ active \in Backends
    /\ thread \in [Presses -> ThreadStates]
    /\ lines \in [Presses -> SUBSET Items]
    /\ tried \in [Presses -> SUBSET Backends]
    /\ at \in [Presses -> Backends]
    /\ orphans \in SUBSET Presses
    /\ handler \in [Presses -> [Backends -> HandlerStates]]
    /\ tickets \in SUBSET (Presses \X Backends)
    /\ crashes \in 0 .. MaxCrashes
    /\ cartTouched \in BOOLEAN
    /\ \A p \in Presses : thread[p] = "unused" <=> lines[p] = {}
    /\ \A p \in Presses : thread[p] = "unused" => tried[p] = {}
    /\ \A p \in Presses, b \in Backends : handler[p][b] # "none" => b \in tried[p]

Init ==
    /\ alive = TRUE
    /\ hasVideo \in BOOLEAN
    /\ screen = "menu"
    /\ dialogs = <<>>
    /\ cart = {}
    /\ button = FALSE
    /\ active = Primary
    /\ thread = [p \in Presses |-> "unused"]
    /\ lines = [p \in Presses |-> {}]
    /\ tried = [p \in Presses |-> {}]
    /\ at = [p \in Presses |-> Primary]
    /\ orphans = {}
    /\ handler = [p \in Presses |-> [b \in Backends |-> "none"]]
    /\ tickets = {}
    /\ crashes = 0
    /\ cartTouched = FALSE

-----------------------------------------------------------------------------
Sending == {p \in Presses : thread[p] = "sending"}

\* From the press until the customer is told of the outcome.
Underway == {p \in Presses : thread[p] \in {"sending", "accepted", "rejected"}}

OnMenu == alive /\ screen = "menu" /\ dialogs = <<>>

Open(kind, item) == dialogs' = <<[kind |-> kind, item |-> item]>> \o dialogs

OnTop(kind) == dialogs # <<>> /\ Head(dialogs).kind = kind

\* The cart is redrawn, which also enables the order button if there is anything in it.
RefreshCart(content) == cart' = content /\ button' = (content # {})

\* A slot touches a widget that went away with the menu: RuntimeError, and PyQt
\* aborts the process.
Abort ==
    /\ alive' = FALSE
    /\ UNCHANGED <<hasVideo, uiVars, threadVars, serverVars, cartTouched>>

NoteTouch == cartTouched' = (cartTouched \/ Underway # {})

-----------------------------------------------------------------------------
(***************************************************************************)
(* The customer.                                                           *)
(***************************************************************************)

\* An item without options goes straight into the cart.
AddToCart(i) ==
    /\ OnMenu
    /\ i \notin cart
    /\ RefreshCart(cart \cup {i})
    /\ NoteTouch
    /\ UNCHANGED <<alive, hasVideo, screen, dialogs, threadVars, serverVars>>

OpenChooser(i) ==
    /\ OnMenu
    /\ i \notin cart
    /\ Open("choose", i)
    /\ UNCHANGED <<alive, hasVideo, screen, cart, button, threadVars, serverVars, cartTouched>>

\* "Add to cart" in the dialog, on the menu it was opened from.
AcceptChooser ==
    /\ alive /\ OnTop("choose") /\ screen = "menu"
    /\ RefreshCart(cart \cup {Head(dialogs).item})
    /\ dialogs' = Tail(dialogs)
    /\ NoteTouch
    /\ UNCHANGED <<alive, hasVideo, screen, threadVars, serverVars>>

\* The idle screen has replaced the menu under the dialog.
AcceptChooserTooLate ==
    /\ alive /\ OnTop("choose") /\ screen # "menu"
    /\ Abort

CancelChooser ==
    /\ alive /\ OnTop("choose")
    /\ dialogs' = Tail(dialogs)
    /\ UNCHANGED <<alive, hasVideo, screen, cart, button, threadVars, serverVars, cartTouched>>

RemoveFromCart(i) ==
    /\ OnMenu
    /\ i \in cart
    /\ RefreshCart(cart \ {i})
    /\ NoteTouch
    /\ UNCHANGED <<alive, hasVideo, screen, dialogs, threadVars, serverVars>>

ClearCart ==
    /\ OnMenu
    /\ RefreshCart({})
    /\ NoteTouch
    /\ UNCHANGED <<alive, hasVideo, screen, dialogs, threadVars, serverVars>>

\* Fault: the button stays enabled while the order is sent.
PressOrderAgain(p) ==
    /\ OnMenu
    /\ button /\ cart # {}
    /\ thread[p] = "unused"
    /\ thread' = [thread EXCEPT ![p] = "sending"]
    /\ lines' = [lines EXCEPT ![p] = cart]
    /\ tried' = [tried EXCEPT ![p] = {active}]
    /\ at' = [at EXCEPT ![p] = active]
    /\ orphans' = orphans \cup Sending
    /\ UNCHANGED <<alive, hasVideo, uiVars, active, serverVars, cartTouched>>

\* _place_order: a new submitter thread replaces the one before it.
PressOrder(p) ==
    /\ OnMenu
    /\ button /\ cart # {}
    /\ thread[p] = "unused"
    /\ button' = FALSE
    /\ thread' = [thread EXCEPT ![p] = "sending"]
    /\ lines' = [lines EXCEPT ![p] = cart]
    /\ tried' = [tried EXCEPT ![p] = {active}]
    /\ at' = [at EXCEPT ![p] = active]
    /\ orphans' = orphans \cup Sending
    /\ UNCHANGED <<alive, hasVideo, screen, dialogs, cart, active, serverVars, cartTouched>>

\* The dialogs also close by themselves or at a touch.
CloseDialog ==
    /\ alive /\ (OnTop("confirmed") \/ OnTop("failed"))
    /\ dialogs' = Tail(dialogs)
    /\ UNCHANGED <<alive, hasVideo, screen, cart, button, threadVars, serverVars, cartTouched>>

\* mousePressEvent: only the video gives way to a new menu, with an idle button.
TouchScreen ==
    /\ alive /\ dialogs = <<>> /\ screen = "video"
    /\ screen' = "menu"
    /\ button' = FALSE
    /\ UNCHANGED <<alive, hasVideo, dialogs, cart, threadVars, serverVars, cartTouched>>

-----------------------------------------------------------------------------
(***************************************************************************)
(* The timer and the signals of the threads.                               *)
(***************************************************************************)

\* Nobody has touched the menu for idle_timeout_sec: the cart is cleared, and the
\* menu replaced by the video, or by a screen that says "Touch screen to order".
IdleTimeout ==
    /\ alive /\ screen = "menu"
    /\ cart' = {}
    /\ button' = (button /\ cart = {})
    /\ screen' = IF hasVideo THEN "video" ELSE "blank"
    /\ UNCHANGED <<alive, hasVideo, dialogs, threadVars, serverVars, cartTouched>>

\* Whatever the cart holds by now is cleared.
OnOrderSuccess(p) ==
    /\ alive /\ screen = "menu"
    /\ thread[p] = "accepted"
    /\ thread' = [thread EXCEPT ![p] = "confirmed"]
    /\ cart' = {}
    /\ button' = FALSE
    /\ Open("confirmed", NoItem)
    /\ UNCHANGED <<alive, hasVideo, screen, active, lines, tried, at, orphans, serverVars, cartTouched>>

OnOrderFailed(p) ==
    /\ alive /\ screen = "menu"
    /\ thread[p] = "rejected"
    /\ thread' = [thread EXCEPT ![p] = "notified"]
    /\ button' = TRUE
    /\ Open("failed", NoItem)
    /\ UNCHANGED <<alive, hasVideo, screen, cart, active, lines, tried, at, orphans, serverVars, cartTouched>>

\* The menu's clock is set every 10 s by a timer of the window, which goes on when the
\* menu has gone.
ClockTick ==
    /\ alive /\ screen # "menu"
    /\ Abort

\* The outcome arrives when the menu has gone.
OutcomeTooLate(p) ==
    /\ alive /\ screen # "menu"
    /\ thread[p] \in {"accepted", "rejected"}
    /\ Abort

-----------------------------------------------------------------------------
(***************************************************************************)
(* The submitter threads.                                                  *)
(***************************************************************************)

\* Fault: any answer that comes from the backend before the timeout will do.
AnsweredEarly(p) ==
    /\ alive
    /\ thread[p] = "sending"
    /\ handler[p][at[p]] \in {"printed", "stored"}
    /\ thread' = [thread EXCEPT ![p] = "accepted"]
    /\ active' = at[p]
    /\ UNCHANGED <<alive, hasVideo, uiVars, lines, tried, at, orphans, serverVars, cartTouched>>

\* 201: a backend other than the active one becomes the active one.
Answered(p) ==
    /\ alive
    /\ thread[p] = "sending"
    /\ handler[p][at[p]] = "stored"
    /\ thread' = [thread EXCEPT ![p] = "accepted"]
    /\ active' = at[p]
    /\ UNCHANGED <<alive, hasVideo, uiVars, lines, tried, at, orphans, serverVars, cartTouched>>

\* Refused, answered with an error, or timed out: the other backend is tried.
TryNext(p) ==
    /\ alive
    /\ thread[p] = "sending"
    /\ \E b \in Backends \ tried[p] :
          /\ tried' = [tried EXCEPT ![p] = @ \cup {b}]
          /\ at' = [at EXCEPT ![p] = b]
    /\ UNCHANGED <<alive, hasVideo, uiVars, active, thread, lines, orphans, serverVars, cartTouched>>

\* Fault: the backends are tried in turns without an end.
KeepTrying(p) ==
    /\ alive
    /\ thread[p] = "sending"
    /\ tried[p] = Backends
    /\ at' = [at EXCEPT ![p] = Primary]
    /\ UNCHANGED <<alive, hasVideo, uiVars, active, thread, lines, tried, orphans, serverVars, cartTouched>>

GiveUp(p) ==
    /\ alive
    /\ thread[p] = "sending"
    /\ tried[p] = Backends
    /\ thread' = [thread EXCEPT ![p] = "rejected"]
    /\ UNCHANGED <<alive, hasVideo, uiVars, active, lines, tried, at, orphans, serverVars, cartTouched>>

\* A thread nothing refers to any more is destroyed at the end of its run(), and Qt
\* may abort the process, before its signal is handled or after.
ThreadDestroyed(p) ==
    /\ alive
    /\ thread[p] \in {"accepted", "rejected", "confirmed", "notified"}
    /\ p \in orphans
    /\ Abort

-----------------------------------------------------------------------------
(***************************************************************************)
(* create_order, once for each try.                                        *)
(***************************************************************************)
Becomes(p, b, state) == handler' = [handler EXCEPT ![p][b] = state]

\* The request arrives, perhaps after the kiosk has given it up.
CreateOrder(p, b) ==
    /\ b \in tried[p]
    /\ handler[p][b] = "none"
    /\ Becomes(p, b, "open")
    /\ UNCHANGED <<alive, hasVideo, uiVars, threadVars, tickets, crashes, cartTouched>>

\* Printing comes before the commit; a printer that fails holds nothing up.
PrintKitchenTicket(p, b) ==
    /\ handler[p][b] = "open"
    /\ Becomes(p, b, "printed")
    /\ tickets' \in {tickets, tickets \cup {<<p, b>>}}
    /\ UNCHANGED <<alive, hasVideo, uiVars, threadVars, crashes, cartTouched>>

CommitOrder(p, b) ==
    /\ handler[p][b] = "printed"
    /\ Becomes(p, b, "stored")
    /\ UNCHANGED <<alive, hasVideo, uiVars, threadVars, tickets, crashes, cartTouched>>

\* Fault: the ticket has been printed when the request is refused.
HandlerFailsLate(p, b) ==
    /\ handler[p][b] = "printed"
    /\ Becomes(p, b, "failed")
    /\ UNCHANGED <<alive, hasVideo, uiVars, threadVars, tickets, crashes, cartTouched>>

\* The key is refused, or the database: an error is the answer.
HandlerFails(p, b) ==
    /\ handler[p][b] = "open"
    /\ Becomes(p, b, "failed")
    /\ UNCHANGED <<alive, hasVideo, uiVars, threadVars, tickets, crashes, cartTouched>>

\* Fault: the commit is not durable (synchronous_commit is off).
CrashLosingCommit(p, b) ==
    /\ handler[p][b] \in {"open", "printed", "stored"}
    /\ crashes < MaxCrashes
    /\ crashes' = crashes + 1
    /\ Becomes(p, b, "failed")
    /\ UNCHANGED <<alive, hasVideo, uiVars, threadVars, tickets, cartTouched>>

\* The worker or its database connection is lost: ROLLBACK.
Crash(p, b) ==
    /\ handler[p][b] \in {"open", "printed"}
    /\ crashes < MaxCrashes
    /\ crashes' = crashes + 1
    /\ Becomes(p, b, "failed")
    /\ UNCHANGED <<alive, hasVideo, uiVars, threadVars, tickets, cartTouched>>

-----------------------------------------------------------------------------
Customer ==
    \/ \E i \in Items : AddToCart(i)
    \/ \E i \in Items : OpenChooser(i)
    \/ AcceptChooser
    \/ AcceptChooserTooLate
    \/ CancelChooser
    \/ \E i \in Items : RemoveFromCart(i)
    \/ ClearCart
    \/ \E p \in Presses : PressOrder(p)
    \/ CloseDialog
    \/ TouchScreen

Outcome(p) ==
    \/ OnOrderSuccess(p)
    \/ OnOrderFailed(p)
    \/ OutcomeTooLate(p)

Submitter(p) ==
    \/ Answered(p)
    \/ TryNext(p)
    \/ GiveUp(p)

Backend(p, b) ==
    \/ CreateOrder(p, b)
    \/ PrintKitchenTicket(p, b)
    \/ CommitOrder(p, b)
    \/ HandlerFails(p, b)
    \/ Crash(p, b)

Next ==
    \/ Customer
    \/ IdleTimeout
    \/ ClockTick
    \/ \E p \in Presses : Outcome(p)
    \/ \E p \in Presses : Submitter(p)
    \/ \E p \in Presses : ThreadDestroyed(p)
    \/ \E p \in Presses, b \in Backends : Backend(p, b)

Spec == Init /\ [][Next]_vars

\* A try ends, at the latest with its timeout; Qt delivers the signals; and dialogs
\* close themselves or are closed.
Fairness ==
    /\ \A p \in Presses : WF_vars(Submitter(p)) /\ WF_vars(Outcome(p))
    /\ WF_vars(CloseDialog) /\ WF_vars(CancelChooser)

FairSpec == Spec /\ Fairness

-----------------------------------------------------------------------------
(***************************************************************************)
(* Properties.                                                             *)
(***************************************************************************)

\* A customer who has been given a number has an order in the database, whichever
\* try it came from and whatever became of the others.
ConfirmedIsStored ==
    \A p \in Presses : thread[p] \in {"accepted", "confirmed"} =>
        \E b \in Backends : handler[p][b] = "stored"

\* Until the customer has been told of the outcome, no second order goes out, however
\* often the button is pressed, unless the cart was changed.  Once a failure has been
\* reported a second one may, although a late handler may still store the first.
OneOrderUntilTold == Cardinality(Underway) > 1 => cartTouched

\* As long as the menu is on the screen the process survives, whatever is pressed and
\* whatever the backends answer, unless the cart was changed during a submission.
MenuSurvives == ~alive => screen # "menu" \/ cartTouched

\* A ticket for an order that is not in the database is the work of a crash between
\* printing and commit: a refused order is never printed.
GhostTicketsNeedCrash ==
    Cardinality({t \in tickets : handler[t[1]][t[2]] = "failed"}) <= crashes

\* The orders of a kiosk as a ledger: each press is one, entered by every backend that
\* stores it.
StoredAt(p) == {b \in Backends : handler[p][b] = "stored"}

OrderLedger == INSTANCE Ledger WITH
    Orders <- Presses, Keyed <- {},
    entries <- [p \in Presses |-> Cardinality(StoredAt(p))],
    told <- {p \in Presses : thread[p] = "confirmed"}

\* Every step of kiosk and handlers leaves the ledger alone, or enters an order, or gives
\* the customer the number of one that is entered: no failure at another backend, no
\* timeout and no crash takes back what has been stored or what a customer was told.
ImplementsLedger == OrderLedger!Spec

\* Every press is answered with a number or a message, unless the process dies.
PressAnswered ==
    \A p \in Presses : thread[p] = "sending" ~> thread[p] \in {"confirmed", "notified"} \/ ~alive

=============================================================================
