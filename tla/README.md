# A formal model of the self-order kiosk system

TLA+ modules of the ordering system in `src/`: kiosks, kitchen displays, cashier stations and
order monitors (PyQt5 programs) that talk over HTTP to two identical FastAPI backends, which
share one PostgreSQL database and call the NAV Online Invoice service, kitchen printers and
receipt printers. TLC checks the modules on small instances; TLAPS proves the safety properties of
all of them for every value of the constants (section 6).

Run a check with `tlc -workers 2 -config X.cfg M.tla` and a proof with `tlapm M.tla` in this
directory; `PROJECT.json` lists the runs, the source lines behind every definition, the mutants
(a plausible bug for each property, which the property must catch), the hazards and the theorems.

## 1. Inventory

| Component | State | Operations | Hard behaviour |
|---|---|---|---|
| Order status and NAV invoicing: `routes/api.py`, `routes/admin.py`, `services/nav_invoice.py`, `services/auth.py`, `database.py` | `orders.status`, `nav_settings` (switches, counter), `nav_invoice_submissions`, `machines.last_seen` | status update by a machine or by the admin page, automatic submission, settings form, status query, manual submission | several workers of two backends, row locks held to the end of a request, a call to NAV inside the transaction, crash between NAV's acceptance and the commit, turn of the year |
| Delivery webhooks: `routes/webhooks.py`, `services/delivery_normalizer.py` | `delivery_integrations`, `orders` with their UNIQUE key | one endpoint per platform: check, normalise, insert, commit, print, answer | retries that overlap the first call on another backend, lost answers, crash between commit and ticket |
| Webhook signature: `_verify_hmac_sha256` | none | compare a header with a digest | string prefixes against character sets |
| Kiosk: `kiosk/kiosk.py` with `POST /orders` | cart, button, screen, dialogs, submitter threads | cart operations, order button, idle timeout, failover | signals that arrive when the screen has changed, a timeout racing a late commit |
| Kitchen display: `kitchen/kitchen.py` with `GET /queue`, `PATCH /status` | cards, busy buttons, poller and updater threads | timer, press, answers | answers out of order, redraw during an update, late updates |
| Cashier station: `cashier/cashier.py` with `GET /orders`, `PATCH /payment` | list of unpaid orders, selection, payment dialog | poll, select, pay, receipt | a window of 100 orders filtered afterwards, two cashiers, failover of a payment, receipt before commit |
| Order monitor: `order_monitor/monitor.py` with `GET /queue`, `GET /completed` | preparing and ready numbers, completed column | poll in three requests | an order that moves between the requests, overlapping polls |
| Queue numbers: `schema.sql:149` | a sequence 1..9999 that cycles | one number per inserted order | wrap-around, numbers used up by rolled-back inserts, commits out of turn |
| Menu administration and the kiosk's menu: `routes/admin.py`, `GET /categories`, `GET /items`, `kiosk.py:425-480` | rows of categories, items and options; the lines of orders; loader thread, retry timers | forms, deletions, loading, ordering | foreign keys between a deletion and an order under way, deadlock, a menu read in two requests, overlapping loads |
| Pricing and invoice amounts: `kiosk.py:673-763`, `api.py:83-150`, `delivery_normalizer.py`, `nav_invoice.py:657-707` | cart, stored order, invoice | item price, tax, total, invoice lines | options charged twice, tax on top of a gross price, three ways of rounding |
| Settings and machines administration: `routes/admin.py` | rows of settings and machines | forms, one row and one transaction each | none of its own |
| HAProxy, installation scripts, templates, translations, logging | configuration | | infrastructure and presentation |

What makes each part correct:

- *Invoicing*: an order is invoiced once; the numbers of a year run 1, 2, 3, ... ; no two invoices
  at NAV share one; what NAV holds can be found in the database; every request ends.
- *Webhooks*: an order the platform believes accepted is stored, exactly once if it has an id, with
  one ticket; the platform always gets an answer that stops its retries.
- *Kiosk*: one press, one order, one answer on the screen; the process survives.
- *Kitchen*: the display agrees with the database again and again; no step of an order is skipped.
- *Cashier*: an unpaid order is in the list until it is paid; what is reported as paid is paid; it
  is paid once, and a receipt has its payment.
- *Order monitor*: every order on its way is in one of the columns; the numbers tell orders apart.
- *Menu*: an order refers only to rows that exist; the kiosk gets a menu, with everything on sale.
- *Amounts*: the customer pays what the screen shows, and the invoice says the same.

How the parts meet: everything goes through the database. The clients never call each other; a
client gives a request up after a timeout and repeats it at the other backend, and the handler it
gave up runs on. `update_order_status` is shared by kitchen, cashier and admin page, and is where
orders meet invoicing.

## 2. Plan

| # | Module | State |
|---|---|---|
| 1 | `OrderInvoicing` implementing `InvoiceJournal` | done, proved |
| 2 | `DeliveryIntake` | done, proved |
| 3 | `KioskOrdering` (kiosk and create_order composed over the network) | done, proved |
| 4 | `KitchenDisplay` | done, proved |
| 5 | `CashierStation` | done, proved |
| 6 | `OrderMonitor`, with the queue numbers | done, proved |
| 7 | `OrderAmounts` and `WebhookSignature`, composed by `Calculations` | done, proved |
| 8 | `KioskMenu` | done, proved |
| 9 | `InvoiceStatus`: NAV's verdict, its query and late answers, as an extension of `OrderInvoicing` | open |
| 10 | `Ledger`, the abstract ledger that `DeliveryIntake`, `KioskOrdering` and `CashierStation` implement | done, proved |
| 11 | The numbering across the turn of a year, as a property of each year's journal | open |

The proofs of a component are in a module of its name with `_proofs`, the instances for TLC in one
with `MC` before it (`CashierStation` needs none: its constants are numbers).

## 3. The modules

### OrderInvoicing and InvoiceJournal

A request is a slot with a program counter. FastAPI gives it one session and one transaction
(`get_db`), so `OrderInvoicing` keeps only committed rows as state, and derives what an open
transaction has written from its program counter: `WroteStatus`, `WroteCounter`, `WroteRow`. The
row locks of PostgreSQL follow from the same predicates. `verify_api_key` updates
`machines.last_seen`, so the requests of one machine exclude each other (`Begin`); the UPDATE of
the order waits for another open one (`FlushStatus`), that of `nav_settings` likewise
(`ReserveNumber`). `UpdatedCounter` writes only the columns the session believes changed, as
SQLAlchemy does.

One action per statement that reads or writes the database or talks to NAV, in the order of
`update_order_status` and `_auto_nav_submit`: `Begin`, `FlushStatus`, `SkipInvoice` (early
returns) or `ReadSettings`, `NextInvoiceNumber`, `ReserveNumber`, `InsertSubmission` or
`DuplicateNumber` (UNIQUE violated: caught, but the session is in its failed state and the request
is rolled back), `NavAccept`, `NavFail` (logged only), `RecordSubmitted`, `Commit`. `AdminAutoSubmit`
is the admin page's variant: `_do_nav_submit` uses `Decimal`, which admin.py does not import, and
its caller swallows the NameError. `Crash` rolls a request back at any point; `orphans` remembers
what NAV had accepted by then.

`InvoiceJournal` is the promise: a journal that grows only at its end and in which an order occurs
once. `JournalOf` reads the committed rows in the order of their numbers.

### Ledger

What three components promise alike, each to somebody else: the webhook handlers to a platform,
`create_order` to a kiosk and its customer, `update_order_payment` to a cashier. `Enter` adds an
entry and `Tell` tells somebody of one that is there; there is no action that takes anything back,
and a keyed order is entered once. Each component has its refinement mapping under the name
`OrderLedger` or `PaymentLedger`, and `ImplementsLedger` as the property:

| | `DeliveryIntake` | `KioskOrdering` | `CashierStation` |
|---|---|---|---|
| entries of an order | committed rows (`stored`) | handlers of a press that have committed (`StoredAt`) | 1 when `paid` |
| told | a platform that received ok or duplicate | a customer on whose screen the number is (`confirmed`) | a cashier who read "marked as PAID" (`reported`) |
| keyed | orders with the platform's id | none: a press may be stored by both backends | all: a second payment enters nothing |

### DeliveryIntake and WebhookSignature

`DeliveryIntake` is `_handle_webhook` for one platform. The checks before the first write are one
action each (`Ignore`, `RefuseSignature`, `RefuseBody`, `RefusePayload`, `Admit`), in the code's
order, since each excludes the ones before. Inserting waits for an open transaction that holds the
same key; afterwards it either goes on or is a duplicate. Unlike the other handlers this one
commits before it prints, so a crash in between is a state of its own (`missed`). What the platform
sends is abstracted to five sets (`Identified`, `Unverifiable`, ...). The platform's side is
external: it calls again, also while an earlier call is being handled, until an answer with HTTP
200 reaches it.

`WebhookSignature` evaluates `_verify_hmac_sha256` on every digest and header of bounded length,
with `str.lstrip` as what it is, the removal of characters out of a set.

### KioskOrdering

One thread for the user interface, one thread per press of the order button, one handler per press
and backend. Modal dialogs run a nested event loop, so timers and signals go on under them: the
stack `dialogs` says which one the customer can reach, and every slot may find the menu replaced by
the idle screen, which ends the process (PyQt aborts on an unhandled exception). A try may be
abandoned while its handler goes on; the handler prints before it commits.
The clock of the menu is set by a timer of the window, which goes on when the menu and the clock's
label have gone: its next tick is `ClockTick`, by which the idle screen ends the process all by itself
(section 5). `cartTouched` is a history variable, one that properties blame.

### KitchenDisplay

Poller threads (`poll`, `seen`), updater threads (`thread`, `target`, `tries`), the cards (`shown`,
`busy`). A PATCH is one step (`Apply`) although it is a transaction: it sets the status whatever it
was, so it has the same effect as if it had happened at one moment. It can happen after the thread
has given that try up. Which of the two backends serves a try makes no difference to the shared
database, so tries are counted rather than named. When Qt aborts the process because a thread
object is dropped before its thread has ended (`kitchen.py:418`, `:471`, `:476`), nothing happens on
the display any more; that end is not modelled.

### CashierStation

The window is one thread with a screen (`ui`), its cards and a queue of lists the poller has read
(`inbox`). The window handles them also under a dialog or message box, but not while a payment's
request blocks it (`paying`). Orders are numbered in the order of their `created_at`, which
`create_order` sets when it inserts them; it commits only after printing, on either backend, so they
come to be in any order (`placed` is a set). The request for the latest 100 is the set `Latest`, of
which the station keeps those `Due` (`Listed`): unpaid and not cancelled, which an order may be
again when somebody gives it another status (`ReopenOrder`). A list on its way carries what was due
when it was read, as history. The dialog's order (`asked`) is fixed when it opens.
`update_order_payment` is two steps, `PrintReceipt` and `Commit`, since the receipt is printed
before the commit; a handler whose try has been given up runs on. `verify_api_key` locks the row of
the station's machine, so the station's own requests exclude each other (`Idle`). Kiosks, platforms,
the admin page and another cashier are the actions of `Others`. `reported`, `failed` and `reoffered`
record what the cashier has been told.

### OrderMonitor

`Insert` draws a queue number inside a transaction that commits later (`CommitInsert`) or is rolled
back (`LoseInsert`), so numbers can be used up and appear out of turn; `era` records how often the
sequence had cycled. `finished` is the order `get_completed` sorts by, and any other update of a
completed order moves it to the end (`Touch`). It follows the commits, whereas `updated_at` is the
start of the updating transaction (`NOW()`, `schema.sql:249-250`), so that two orders completed at
the same time may really be the other way round. No property depends on which of them comes first:
`NoneVanishes` asks whether an order is in the column or the column is full. A poll reads queue,
completed orders and settings in three requests (`ReadQueue`, `ReadCompleted`, `ReadSettings`),
between which everything else may happen. The timer replaces the thread object even when it still
waits; the old thread then ends the process (`Destroyed`).

### OrderAmounts

All money is in cents. `AddToCart`, `RemoveFromCart`, `CreateOrder`, `PersistOrder` (one case for
each kind of platform adapter) and `MakeInvoice` follow one order from the cart to the document for
NAV, with the rounding of each place: `round()` to even on exact decimals (`HalfEven`), `HalfUp` in
the invoice, and either neighbour where a binary fraction may lie on either side of half a cent
(`Inexact`). `Calculations` puts it next to `WebhookSignature`, with which it shares nothing, so that
one of the two calculations runs at a time; `MCCalculations` gives it its bounded inputs.

### KioskMenu

The rows of categories, items and options, the lines of orders that refer to them, and a kiosk that
loads the menu in two requests (settings and categories in one step, then items). Every form is one
step but the deletion of an item, which removes options first and then waits for the lines that
refer to the item (`BeginDeletion`, `FinishDeletion`, `RefuseDeletion`). Orders insert their line
and then its options (`InsertLine`, `InsertOptions`); the row locks behind the foreign keys let each
wait for the other, which PostgreSQL ends with an error (`BreakDeadlock`). The loader is a thread in
`self.loader`, replaced by `_load_data` even when it still waits; a failure starts a single-shot
timer, and the retry button leaves that timer running. Once a menu has been shown, the timer of its
clock runs (`clock`), and its tick ends the process when the loading screen has replaced the menu
(`ClockTick`). `steady` is a history variable: the items on
sale during the whole of a load. One item is deleted at a time, the locks of several options are
taken at once, and the bound on the admin's steps ends with the kiosk. The idle screen is in
`KioskOrdering` only.

## 4. The runs

| Run | States | What it shows |
|---|---|---|
| `Invoicing_faults` | 1.5 M | Two requests from two machines and the admin page, two orders completed, reopened and completed again, one crash anywhere, the turn of a year: `OneSubmissionPerOrder`, `LedgerAccounted`, `NavNumbersDistinct`, `InvoicedOnCompletion`. |
| `Invoicing_journal` | 47 k | Two requests, two orders, one year, under fairness: `GaplessNumbers`, `ImplementsJournal`, `EveryRequestEnds`. |
| `Invoicing_fire_and_forget` | | Expects a violation, see section 5. |
| `Delivery_retries` | 1.4 M | Three overlapping calls, orders with and without an id and one the database refuses, a crash: `StoredOnce`, `AcceptedIsStored`, `TicketsAccounted`, `ImplementsLedger`. |
| `Delivery_answers` | 87 k | Two calls, all refusals, the integration switched, answers lost, no crash, under fairness: `ReadableOrdersAnswered`. |
| `Calculations` | 177 k | All digests of three characters with all headers, all carts of up to three things, one-line payloads: `SignatureJudged`, `StoredExceedsShownByOptions`, `InvoiceNearLines`, `DeclaredRateHolds`. |
| `Kiosk_ui` | 0.6 M | Two items, two presses, all dialogs, the idle timeout and the clock: `OneOrderUntilTold`, `MenuSurvives`. |
| `Kiosk_press` | 64 k | One press, two backends, two crashes, under fairness: `ConfirmedIsStored`, `GhostTicketsNeedCrash`, `ImplementsLedger`, `PressAnswered`. |
| `Kiosk_menu` | 0.3 M | An item with an option, moved and deleted while the kiosk loads it and two customers order it, failures, the retry button, under fairness: `LinesReferToMenu`, `FailedOrderMetDeletion`, `SteadyItemsShown`, `AttemptsAccounted`, `MenuComes`, `RequestsEnd`. |
| `Kitchen_display` | 0.9 M | One order, two presses, two pollers, two backends, another machine, under fairness: `NoStepSkipped`, `DoublePressNeedsRedraw`, `DisplayConverges`. |
| `Cashier_payments` | 1.4 M | Two orders committed in any order and a window of one, two payments, two backends, one change by others, who reopen what they cancelled, one crash, under fairness: `ReportedIsPaid`, `ImplementsLedger`, `GhostReceiptNeedsCrash`, `SecondPaymentHasCause`, `VanishHasCause`, `ListConverges`. |
| `Monitor_board` | 0.9 M | Two orders, numbers up to two that cycle, a completed column of one, under fairness: `NoneVanishes`, `NumbersTellApart`, `BoardConverges`. |

The type invariants are theorems and have no run. Properties of the form "X
needs Y" or "has a cause" say exactly which interference the code does not handle: the run shows
that nothing else leads there.

Bounds. Two requests suffice for the races on counter and rows, since each is a conflict of one
stale reader with one writer; the proofs cover every number. `Reopened` consists of the initial
status and `completed`: an order that is not completed behaves the same whatever its status. One
crash is enough because the properties compare a state with one interrupted request; in
`Kiosk_press` there are two, one for each backend. `Delivery_answers` has none: its answers are lost
anyway, which sends the platform through the same retries. `MaxRows` (2) bounds the rows of an order
without an id, which nothing in the code bounds. Three characters of a digest stand for 64: the
verdict depends only on the first character outside the prefixes. `Presses`, `MaxChanges`,
`MaxPays`, `MaxOthers`, `MaxEdits`, `MaxDeletions` and `MaxPresses` bound what people do; two
presses are the fewest that can skip a step or overlap, two payments the fewest that can be of the
same order, two edits (of the admin) the fewest that can create a row and move it; reopening an
order is bounded by the cancellation before it. A window or a column of one with two orders is full
as 100 or 20 are, and a sequence up to two cycles within the run; `MaxCycles` bounds only the
rolled-back inserts. `MaxInbox` (1) bounds the signals waiting at the window: each replaces the one
before. `Limit` and `Window` stand for 20 and 100. Prices in `Calculations` are chosen around half a
cent, rates are whole and broken percentages. Symmetry is used only in runs without liveness.
Deadlock is checked except where the system may stop: a dead kiosk or monitor, a kiosk that has its
menu, and the calculations, which end.

Fairness.
- *Invoicing*: a handler that can run does (`WF`); PostgreSQL queues the waiters of a row lock, so
  a request is not overtaken for ever (`SF` on the two UPDATEs that wait); `NavFail` stands for the
  timeout of the NAV client.
- *Webhooks*: handlers run (`WF`); the platform's retries and its hearing one of the answers are
  assumptions about the platform (`SF`). Nothing is assumed of crashes or of the integration form.
- *Kiosk*: a try ends at the latest with its timeout of 10 s, Qt delivers signals, dialogs close by
  their own timers (`WF`). Nothing is assumed of customers or backends.
- *Menu*: handlers run and locks are granted, requests end with their timeouts, signals and timers
  are delivered (`WF`); again and again a backend answers each of the loader's two requests (`SF`),
  without which no menu can come. Nothing is assumed of the admin, the customers or the button.
- *Kitchen*: the timer ticks, requests end with their timeouts of 6 s, signals are delivered
  (`WF`); again and again a backend answers a poll (`SF`), without which nothing can be shown.
- *Cashier*: signals are delivered, a payment's requests end with their timeouts, handlers that
  have begun end (`WF`); again and again a backend answers a poll (`SF`). Nothing is assumed of the
  cashier, who may leave every dialog open: `OnOrders` runs under it.
- *Order monitor*: the timer ticks, requests end, signals are delivered (`WF`); again and again each
  of a poll's three requests is answered (`SF`).

## 5. Where the code departs from its documentation

`Invoicing_fire_and_forget` expects a violation of what `api.py:301` says, "fire-and-forget": of two
completions that compute the same invoice number, the second loses its status update as well.

Met while modelling, without a run of their own. *Invoicing*:

- completing an order on the admin page submits nothing, as `_do_nav_submit` ends in a NameError
  (`admin.py:809`; `nav_invoicing.html:188` says every completed order is submitted);
- a failed submission is never tried again (`api.py:344`, against `README.md:53`); a crash after
  NAV's acceptance leaves no row (`schema.sql:224` promises one per invoice sent); a request that
  read the counter in the old year can leave it at a value other than 1 in the new one
  (`nav_invoice.py:642`).

*Orders and amounts*:

- one press can store two orders: a backend that answers late commits after the kiosk has gone to
  the other one (`kiosk.py:113`; `README.md:176`, the client switches transparently);
- options are charged twice (`kiosk.py:683` with `api.py:106`), which `StoredExceedsShownByOptions`
  states to the cent, and the tax is added to a price that `nav_invoice.py:673` calls gross, so the
  invoice is below the stored total (`InvoiceNearLines`);
- a payload with the subtotal 0 of the generic adapter has it computed from its lines.

*Webhooks*: a genuine signature is refused when its digest begins with a character of the prefixes
(`webhooks.py:51`; `:49` says with or without prefix), as `SignatureJudged` states; a database error
other than the duplicate key is answered with HTTP 500 (`webhooks.py:17` promises 200); while the
integration is disabled an order is answered with 200 and lost (`webhooks.py:145`).

*Kiosk and menu*:

- the idle screen ends the process: it deletes the menu with the label of its clock, but the timer
  that sets the clock belongs to the window (`kiosk.py:549`), so that at its next tick, 10 s later at
  most, `hasattr` still finds the label, `setText` raises RuntimeError (`kiosk.py:855`) and PyQt5 aborts
  (`ClockTick`), whereas `kiosk.py:355` describes a video that loops during idle;
- the kiosk says "Could not send order. Please try again." (`translations.py:33`) after its timeout of
  10 s, while the handler goes on and may store the order: who tries again has two. Until the
  customer is told, no second order goes out (`OneOrderUntilTold`);
- without an idle video the screen "Touch screen to order" does not react (`kiosk.py:842`);
- things put into the cart during a submission are cleared by its success (`kiosk.py:770`);
- the retry button leaves the timer of the failure running, which replaces a menu that has come by
  the loading screen, or a thread still waiting, which aborts the process (`kiosk.py:458`);
- the menu is loaded once, so what is deleted stays on the kiosk until its restart (`kiosk.py:475`),
  and an order of it is refused by every backend (`FailedOrderMetDeletion`);
- the boxes Available and Active cannot be unticked: the form does not send an unticked box and the
  handler takes a missing field for TRUE (`admin.py:120`, `:172`; `items.html:93`, `categories.html:53`);
- a customer may leave a required group of options empty.

*Kitchen, cashier, monitor*:

- a late status update moves an order back along the chain of `README.md:337`;
- an unpaid order leaves the cashier's list when 100 newer ones of any kind exist (`cashier.py:134`;
  `README.md:47` speaks of the unpaid orders), which `VanishHasCause` names;
- a receipt is printed before the payment is committed (`api.py:284`);
- the monitor's requests have a timeout of 6 s and its timer an interval of 5 s, so an unresponsive
  host ends the process, whereas `README.md:49` describes a display that refreshes by itself.

## 6. What is proved

Every theorem holds for any sets and bounds that satisfy the assumptions named in its module, and
starts from the type invariant.

`OrderInvoicing_proofs`, for any requests, machines, orders and number of crashes:

- `TypeCorrect`: `TypeOK` is an invariant.
- `NoOrderInvoicedTwice`: `OneSubmissionPerOrder`. It is not inductive: that the check for an
  existing row stays true until the INSERT commits rests on `FindingsStayTrue`, and that on
  `LocksExclusive` and `OnlyCompletions` (a request that deals with an invoice has locked the order's
  row because it changes its status to completed). Together they are `RowsInv`.
- `InductiveInvariant`, `DatabaseKnowsWhatNavHas`, `NoNumberSentTwice`: `NavInv` adds that a request
  with NAV's answer has its invoice in the ledger, and carries `LedgerAccounted` and
  `NavNumbersDistinct`; `IInv` is the conjunction.
- `InvoicesComeWithCompletion`: `InvoicedOnCompletion`, an action property, from `OnlyCompletions`.
- `InvoiceNumbersHaveNoGaps` and `ImplementsInvoiceJournal`, assuming `FirstYear = LastYear`: a
  request's idea of the counter may be out of date but never ahead (`CounterInv`), so the number it
  computes is either the next one or already taken, and a taken one is refused. The refinement
  proof maps each commit of a row to `Issue` and every other step to a stutter.

`DeliveryIntake_proofs`: `DeliveryTypeCorrect`, `StoredAtMostOnce`, `AcceptedOrdersAreStored`. Of
the unfinished transactions at most one holds a key, and none of a stored order (`KeyHeld`); an
answer still to be sent is true (`RepliesTrue`). `RowsHaveTickets` counts: the rows of an order are
its tickets, those known to be lost, and the calls between commit and printing. `Calls` is
assumed finite for the counting.

`KioskOrdering_proofs`: `KioskTypeCorrect`, `NumberMeansOrder`, and, by `KioskInv`, `AbortExplained`
(`MenuSurvives`) and `PressedTwiceSentOnce` (`OneOrderUntilTold`): unless the cart was touched
during a submission the button sleeps while one is under way, there is at most one, and no thread is
replaced; what is left to end the process are slots that look for a menu that has gone.
`GhostsAreCrashes`: the tickets without an order are those of failed handlers, at most one for each
crash (`TicketInv`).

`KitchenDisplay_proofs`: `DisplayTypeCorrect`; `NoOrderSkipsAStep` by `ChainInv`, which says that
whatever a card or an updater proposes was prepared by the status before, assuming that the other
machines only complete and cancel (no status of theirs is one the queue shows);
`ButtonHoldsOffASecondPress` by `ButtonHeld`.

`CashierStation_proofs`: `CashierTypeCorrect`; `ReportedOrdersArePaid`, since a stored handler's
order is paid; `GhostReceiptsAreCrashes`; `SecondPaymentExplained` by `ReportInv`, which says that an
order reported as paid and still shown was listed again; `VanishExplained`, an action property, by
`ListsInv`: whatever a list on its way leaves out was not due when it was read, or has been pushed out
of the window, where it stays (`PushedOutStays`). It holds in whatever order handlers commit:
the case of a list that holds a younger order but not yet the older one, both within the window,
needs a larger window than the run's, and is the theorem's alone.

`KioskMenu_proofs`: `MenuTypeCorrect`, `StoredLinesReferToMenu`, `RefusalMetDeletion`,
`MenuHasSteadyItems`, `AttemptsFollow`. The invariant is `IInv` with `SteadyLoaded`: a menu names
only rows that are or were there (`MenusKnown`), an order only what a menu named (`ContentKnown`);
the rows an open order has locked are there (`LinesHere`); a refusal is explained by a deletion or a
deadlock (`TriesExplained`); attempts to load are counted by timers and presses (`ChainsCounted`),
which is `AttemptsAccounted`. Each step is one of the database, the orders or the kiosk, and the
three parts are proved apart.

`OrderMonitor_proofs`, for any limit of the column and any length of the cycle. `QueueNumbersInTurn`,
for every two orders that have drawn a number, by `SequenceAhead`: the sequence is ahead of every
number drawn in its present cycle. `NumbersOnScreenTellApart` follows, since whatever a picture
contains has been drawn (`Numbered`). `NoOrderVanishes`: between the two requests an order without a
tile is a completed one (`HalfCovers`); the second finds it among the last of the completed ones or
finds as many as the limit (`DoneOrFull`), and from then on the picture `Covers` it.
`MonitorTypeCorrect` needs that the list of completed orders has each of them once (`ListInv`).

`Calculations_proofs`, for every menu with finitely many options, all prices, every rate and every
length of a digest. `SignaturesJudged`: what stripping leaves begins at the first character that is
not stripped (`Stripped`), so a header that verifies ends in the digest after characters of the
prefixes (`AcceptedEndsInDigest`), and one that consists of a prefix and a digest is cut exactly
between them unless the digest begins with such a character (`GenuineVerified`).
`StoredExceedsShown`, `InvoiceComesToLines` and `VatIsAtDeclaredRate` are about sums over carts and
lines of any length. A sum is a recursive fold, and the library's induction theorems are out of the
provers' reach; `FiniteSetsInduction` states induction over the subsets of a finite set as a fact
about sets of sets, from which the sums get their existence, additivity and linear bounds
(`SumOfSums`, `SumBounded`). Each rounding is off by at most half its unit (`HalfUpBounds`), which
the bounds add up over the lines. The invariant is `AmountsInv`: the cart has no two entries alike,
the screen shows its total, the stored order is that of the cart, the invoice that of the order.

The ledger. `WebhooksKeepLedger`, `KioskKeepsLedger` and `PaymentsKeepLedger` prove
`ImplementsLedger` step by step in the proof modules of the three components: a commit maps to
`Enter`, what an answer tells to `Tell`, and every other step, crashes and failures included, to a
stutter. They rest on the invariants above: that a key is held by one open transaction
(`KeyHeld`) makes the entry of a keyed order the first, and that answers are true
(`RepliesTrue`, `ConfirmedIsStored`, `StoredIsPaid`) gives `Tell` its guard. The kiosk's entries are
counted, so the backends are assumed finite (`BackendAssumption`).

Only model-checked: every liveness property (fairness and ENABLED are beyond the prover). The
numbering across the turn of a year, where numbers restart, is neither stated nor proved beyond
`NavNumbersDistinct`.

## 7. What is not modelled

- Invoicing: the query of NAV's verdict, manual submission (it ends in the same NameError), a
  changed prefix (it would make old and new numbers differ), clocks that disagree between backends,
  statuses outside the CHECK constraint (HTTP 500, no effect).
- Webhooks: the fields of a payload but for the amounts; other platforms (they share nothing but
  the handler).
- Kiosk: the language selector. Menu: names, prices, pictures and the sorting of rows; in an order
  of `KioskMenu` one line stands for several.
- Kitchen: labels, the connection indicator, the process abort described in section 3.
- Cashier: the currency and settings loaded at start, refunds (`payment_status` may be set to
  `refunded`, which no client does), labels.
- Order monitor: the flash of new numbers, colours, the clock.
- Process aborts: a thread object dropped too early aborts the process at the end of its `run()`; what
  a handler begun before that does to the database is still explored, the orders of other machines
  are not.
- Settings and machines administration: forms that write one row in one transaction. The two others
  depend on (the NAV settings, the delivery integrations) are actions of `OrderInvoicing` and
  `DeliveryIntake`.
- HAProxy, installation, migration, templates, translations, logging, printing formats, NAV's XML
  and cryptography: infrastructure or formats without state.
