--------------------------- MODULE OrderInvoicing ---------------------------
(***************************************************************************)
(* The status handlers of the backend, PATCH /api/v1/orders/{id}/status    *)
(* and POST /admin/orders/{id}/status, with the NAV invoice that           *)
(* completing an order submits.  Every request runs in one PostgreSQL      *)
(* transaction (READ COMMITTED): it reads the committed rows, its own      *)
(* writes stay invisible until it commits, and the row lock each write     *)
(* takes is held until then.  A request is therefore a process with a      *)
(* program counter, and what it has written and locked follows from how    *)
(* far it has come (WroteStatus, WroteCounter, WroteRow).                  *)
(***************************************************************************)
EXTENDS Naturals, FiniteSets

CONSTANTS
    Requests,       \* slots for requests being handled, over both backends
    Machines,       \* registered kiosks, kitchen screens, cashiers (API keys)
    AdminUI,        \* the caller of the admin page: it authenticates no machine
    Orders,         \* rows of table orders
    NoOrder,        \* the order of an idle slot
    ClientStatuses, \* the statuses callers ask for
    FirstYear,      \* calendar year the system is set up in
    LastYear,       \* bound: last calendar year
    MaxCrashes      \* bound: worker processes or DB connections lost

\* The CHECK constraint on orders.status.
Status == {"pending", "confirmed", "preparing", "ready", "completed", "cancelled"}

ASSUME CallerAssumption == AdminUI \notin Machines
ASSUME OrderAssumption == NoOrder \notin Orders
ASSUME StatusAssumption == ClientStatuses \subseteq Status
ASSUME YearAssumption ==
    /\ FirstYear \in Nat \ {0}
    /\ LastYear \in Nat
    /\ FirstYear <= LastYear
ASSUME CrashAssumption == MaxCrashes \in Nat

VARIABLES
    \* committed rows of the database
    status,      \* orders.status
    autoSubmit,  \* nav_settings.enabled and nav_settings.auto_submit
    counter,     \* nav_settings.invoice_seq and invoice_year (year 0: NULL)
    rows,        \* nav_invoice_submissions: order, number, submitted or pending
    \* the requests being handled
    pc,          \* the step each request has reached
    job,         \* its caller, order, target status, and the status it loaded
    seen,        \* the counter it loaded
    num,         \* the invoice number it computed
    \* the world outside
    ledger,      \* invoices NAV has accepted, one record per transaction id
    navTxns,     \* number of transaction ids NAV has given out
    orphans,     \* history: accepted invoices whose request was rolled back
    year,        \* calendar year on the backends' clocks
    crashes      \* number of crashes so far

dbVars  == <<status, autoSubmit, counter, rows>>
reqVars == <<pc, job, seen, num>>
navVars == <<ledger, navTxns, orphans>>
vars    == <<dbVars, reqVars, navVars, year, crashes>>

Callers == Machines \cup {AdminUI}

Number   == [year : 0 .. LastYear, seq : Nat]
NoNumber == [year |-> 0, seq |-> 0]
Job      == [caller : Callers, order : Orders \cup {NoOrder}, old : Status, to : Status]
NoJob    == [caller |-> AdminUI, order |-> NoOrder, old |-> "pending", to |-> "pending"]
Row      == [order : Orders, number : Number, submitted : BOOLEAN]
Entry    == [txn : Nat, order : Orders, number : Number]

Steps == {
    "idle",      \* no request                       next: Begin
    "loaded",    \* authenticated, order read        next: FlushStatus
    "flushed",   \* status written, now completed    next: ReadSettings and kin
    "settings",  \* invoice wanted, counter read     next: NextInvoiceNumber
    "numbered",  \* number computed                  next: ReserveNumber
    "reserved",  \* counter written                  next: InsertSubmission
    "calling",   \* submission row written           next: NavAccept, NavFail
    "accepted",  \* NAV has taken the invoice        next: RecordSubmitted, NavFail
    "swallowed", \* submission failed, error caught  next: Commit
    "done"}      \* nothing left but the commit      next: Commit

TypeOK ==
    /\ status \in [Orders -> Status]
    /\ autoSubmit \in BOOLEAN
    /\ counter \in Number
    /\ rows \in SUBSET Row
    /\ pc \in [Requests -> Steps]
    /\ job \in [Requests -> Job]
    /\ seen \in [Requests -> Number]
    /\ num \in [Requests -> Number]
    /\ \A r \in Requests : pc[r] # "idle" => job[r].order \in Orders
    /\ ledger \in SUBSET Entry
    /\ navTxns \in Nat
    /\ orphans \in SUBSET Entry
    /\ year \in FirstYear .. LastYear
    /\ crashes \in 0 .. MaxCrashes

-----------------------------------------------------------------------------
(***************************************************************************)
(* What an open transaction has written, and so locked.                    *)
(***************************************************************************)
Busy(r) == pc[r] # "idle"

\* SQLAlchemy emits no UPDATE for an attribute set to the value it had.
WroteStatus(r) == pc[r] \notin {"idle", "loaded"} /\ job[r].to # job[r].old

WroteRow(r) == pc[r] \in {"calling", "accepted", "swallowed"}

WroteCounter(r) == pc[r] = "reserved" \/ WroteRow(r)

\* The UPDATE of machines.last_seen locks the machine's row from the start.
MachineLocked(m) == \E r \in Requests : Busy(r) /\ job[r].caller = m

OrderLocked(o) == \E r \in Requests : WroteStatus(r) /\ job[r].order = o

SettingsLocked == \E r \in Requests : WroteCounter(r)

HasRow(o) == \E x \in rows : x.order = o

Numbers == {x.number : x \in rows}

\* An UPDATE sets the columns the handler changed and leaves the others alone.
UpdatedCounter(r) ==
    [year |-> IF num[r].year # seen[r].year THEN num[r].year ELSE counter.year,
     seq  |-> IF num[r].seq # seen[r].seq THEN num[r].seq ELSE counter.seq]

NewRow(r, submitted) ==
    [order |-> job[r].order, number |-> num[r], submitted |-> submitted]

-----------------------------------------------------------------------------
Init ==
    /\ status = [o \in Orders |-> "pending"]
    /\ autoSubmit \in BOOLEAN
    /\ counter = NoNumber
    /\ rows = {}
    /\ pc = [r \in Requests |-> "idle"]
    /\ job = [r \in Requests |-> NoJob]
    /\ seen = [r \in Requests |-> NoNumber]
    /\ num = [r \in Requests |-> NoNumber]
    /\ ledger = {}
    /\ navTxns = 0
    /\ orphans = {}
    /\ year = FirstYear
    /\ crashes = 0

Goto(r, step) == pc' = [pc EXCEPT ![r] = step]

\* The session is closed: the slot is free again.
Finish(r) ==
    /\ Goto(r, "idle")
    /\ job' = [job EXCEPT ![r] = NoJob]
    /\ seen' = [seen EXCEPT ![r] = NoNumber]
    /\ num' = [num EXCEPT ![r] = NoNumber]

\* Fault: the transaction that inserts the row forgets the status it wrote.
CommitRowOnly(r, submitted) ==
    /\ status' = IF WroteStatus(r) /\ ~WroteRow(r)
                 THEN [status EXCEPT ![job[r].order] = job[r].to] ELSE status
    /\ counter' = IF WroteCounter(r) THEN UpdatedCounter(r) ELSE counter
    /\ rows' = IF WroteRow(r) THEN rows \cup {NewRow(r, submitted)} ELSE rows
    /\ Finish(r)
    /\ UNCHANGED <<autoSubmit, navVars, year, crashes>>

\* COMMIT of r's writes; submitted is the status of the row it inserted, if any.
CommitWrites(r, submitted) ==
    /\ status' = IF WroteStatus(r)
                 THEN [status EXCEPT ![job[r].order] = job[r].to] ELSE status
    /\ counter' = IF WroteCounter(r) THEN UpdatedCounter(r) ELSE counter
    /\ rows' = IF WroteRow(r) THEN rows \cup {NewRow(r, submitted)} ELSE rows
    /\ Finish(r)
    /\ UNCHANGED <<autoSubmit, navVars, year, crashes>>

-----------------------------------------------------------------------------
(***************************************************************************)
(* The handlers.                                                           *)
(***************************************************************************)

\* Authentication (for the API) and SELECT of the order.  The lock on the
\* machine's row makes the requests of one machine run one after the other.
Begin(r, c, o, s) ==
    /\ ~Busy(r)
    /\ c \in Machines => ~MachineLocked(c)
    /\ job' = [job EXCEPT ![r] = [caller |-> c, order |-> o, old |-> status[o], to |-> s]]
    /\ Goto(r, "loaded")
    /\ UNCHANGED <<dbVars, seen, num, navVars, year, crashes>>

\* UPDATE orders SET status: waits for the row, whatever it holds by then.
FlushStatus(r) ==
    /\ pc[r] = "loaded"
    /\ job[r].to # job[r].old => ~OrderLocked(job[r].order)
    /\ Goto(r, IF job[r].to = "completed" /\ job[r].old # "completed"
               THEN "flushed" ELSE "done")
    /\ UNCHANGED <<dbVars, job, seen, num, navVars, year, crashes>>

\* _auto_nav_submit of the API returns early.
SkipInvoice(r) ==
    /\ pc[r] = "flushed"
    /\ job[r].caller \in Machines
    /\ ~autoSubmit \/ HasRow(job[r].order)
    /\ Goto(r, "done")
    /\ UNCHANGED <<dbVars, job, seen, num, navVars, year, crashes>>

\* Fault: no check for an existing submission.
ReadSettingsUnchecked(r) ==
    /\ pc[r] = "flushed"
    /\ job[r].caller \in Machines
    /\ autoSubmit
    /\ seen' = [seen EXCEPT ![r] = counter]
    /\ Goto(r, "settings")
    /\ UNCHANGED <<dbVars, job, num, navVars, year, crashes>>

\* _auto_nav_submit of the API goes on, with the counter it has just read.
ReadSettings(r) ==
    /\ pc[r] = "flushed"
    /\ job[r].caller \in Machines
    /\ autoSubmit
    /\ ~HasRow(job[r].order)
    /\ seen' = [seen EXCEPT ![r] = counter]
    /\ Goto(r, "settings")
    /\ UNCHANGED <<dbVars, job, num, navVars, year, crashes>>

\* _maybe_auto_submit_nav of the admin page: it returns early, or _do_nav_submit
\* raises NameError (admin.py never imports Decimal) before it writes anything,
\* and the error is caught.
AdminAutoSubmit(r) ==
    /\ pc[r] = "flushed"
    /\ job[r].caller = AdminUI
    /\ Goto(r, "done")
    /\ UNCHANGED <<dbVars, job, seen, num, navVars, year, crashes>>

NextInvoiceNumber(r) ==
    /\ pc[r] = "settings"
    /\ num' = [num EXCEPT ![r] =
                 [year |-> year,
                  seq  |-> IF seen[r].year # year THEN 1 ELSE seen[r].seq + 1]]
    /\ Goto(r, "numbered")
    /\ UNCHANGED <<dbVars, job, seen, navVars, year, crashes>>

\* UPDATE nav_settings: waits for the only row of that table.
ReserveNumber(r) ==
    /\ pc[r] = "numbered"
    /\ ~SettingsLocked
    /\ Goto(r, "reserved")
    /\ UNCHANGED <<dbVars, job, seen, num, navVars, year, crashes>>

\* Fault: invoice_number is not UNIQUE.
InsertSubmissionAnyway(r) ==
    /\ pc[r] = "reserved"
    /\ Goto(r, "calling")
    /\ UNCHANGED <<dbVars, job, seen, num, navVars, year, crashes>>

\* INSERT of the submission row, which the UNIQUE constraint lets through.
InsertSubmission(r) ==
    /\ pc[r] = "reserved"
    /\ num[r] \notin Numbers
    /\ Goto(r, "calling")
    /\ UNCHANGED <<dbVars, job, seen, num, navVars, year, crashes>>

\* Fault: INSERT ... ON CONFLICT DO UPDATE.
DuplicateNumberUpserts(r) ==
    /\ pc[r] = "reserved"
    /\ num[r] \in Numbers
    /\ rows' = {x \in rows : x.number # num[r]} \cup {NewRow(r, FALSE)}
    /\ Finish(r)
    /\ UNCHANGED <<status, autoSubmit, counter, navVars, year, crashes>>

\* Fault: the same number is tried again, without reading the counter afresh.
DuplicateNumberRetried(r) ==
    /\ pc[r] = "reserved"
    /\ num[r] \in Numbers
    /\ Goto(r, "settings")
    /\ UNCHANGED <<dbVars, job, seen, num, navVars, year, crashes>>

\* The UNIQUE constraint refuses the row: IntegrityError is caught, but the
\* session is in its failed state and the whole transaction is rolled back.
DuplicateNumber(r) ==
    /\ pc[r] = "reserved"
    /\ num[r] \in Numbers
    /\ Finish(r)
    /\ UNCHANGED <<dbVars, navVars, year, crashes>>

\* NAV accepts the invoice; its answer is on the way.
NavAccept(r) ==
    /\ pc[r] = "calling"
    /\ ledger' = ledger \cup
         {[txn |-> navTxns + 1, order |-> job[r].order, number |-> num[r]]}
    /\ navTxns' = navTxns + 1
    /\ Goto(r, "accepted")
    /\ UNCHANGED <<dbVars, job, seen, num, orphans, year, crashes>>

\* Fault: the error is raised again, and the transaction rolled back.
NavFailRollsBack(r) ==
    /\ pc[r] \in {"calling", "accepted"}
    /\ Finish(r)
    /\ UNCHANGED <<dbVars, navVars, year, crashes>>

\* NAV refuses, is unreachable, or its answer never arrives: the error is
\* logged and nothing else is done about it.
NavFail(r) ==
    /\ pc[r] \in {"calling", "accepted"}
    /\ Goto(r, "swallowed")
    /\ UNCHANGED <<dbVars, job, seen, num, navVars, year, crashes>>

\* The answer arrives: transaction id and status "submitted", then COMMIT.
RecordSubmitted(r) ==
    /\ pc[r] = "accepted"
    /\ CommitWrites(r, TRUE)

\* Fault: the row of a failed submission is dropped, but its number stays taken.
CommitWithoutFailedRow(r) ==
    /\ pc[r] \in {"swallowed", "done"}
    /\ status' = [status EXCEPT ![job[r].order] = IF WroteStatus(r) THEN job[r].to ELSE @]
    /\ counter' = IF WroteCounter(r) THEN UpdatedCounter(r) ELSE counter
    /\ Finish(r)
    /\ UNCHANGED <<autoSubmit, rows, navVars, year, crashes>>

\* The handler returns and get_db commits.
Commit(r) ==
    /\ pc[r] \in {"swallowed", "done"}
    /\ CommitWrites(r, FALSE)

\* The worker or its database connection is lost: ROLLBACK.
Crash(r) ==
    /\ Busy(r)
    /\ crashes < MaxCrashes
    /\ crashes' = crashes + 1
    /\ orphans' = IF WroteRow(r)
                  THEN orphans \cup {e \in ledger : /\ e.order = job[r].order
                                                    /\ e.number = num[r]}
                  ELSE orphans
    /\ Finish(r)
    /\ UNCHANGED <<dbVars, ledger, navTxns, year>>

\* The admin saves the NAV settings form with the switch changed.
SaveNavSettings ==
    /\ ~SettingsLocked
    /\ autoSubmit' = ~autoSubmit
    /\ UNCHANGED <<status, counter, rows, reqVars, navVars, year, crashes>>

NewYear ==
    /\ year < LastYear
    /\ year' = year + 1
    /\ UNCHANGED <<dbVars, reqVars, navVars, crashes>>

\* What the backend and NAV do for request r once it has begun.
Handle(r) ==
    \/ FlushStatus(r)
    \/ SkipInvoice(r)
    \/ ReadSettings(r)
    \/ AdminAutoSubmit(r)
    \/ NextInvoiceNumber(r)
    \/ ReserveNumber(r)
    \/ InsertSubmission(r)
    \/ DuplicateNumber(r)
    \/ NavAccept(r)
    \/ NavFail(r)
    \/ RecordSubmitted(r)
    \/ Commit(r)

Next ==
    \/ \E r \in Requests, c \in Callers, o \in Orders, s \in ClientStatuses : Begin(r, c, o, s)
    \/ \E r \in Requests : Handle(r)
    \/ \E r \in Requests : Crash(r)
    \/ SaveNavSettings
    \/ NewYear

Spec == Init /\ [][Next]_vars

\* A handler that can run does run, and the NAV client gives up after its
\* timeout; PostgreSQL queues the waiters of a row lock, so a request waiting
\* for a row that is freed again and again gets it in the end.
Fairness ==
    \A r \in Requests :
        /\ WF_vars(Handle(r))
        /\ SF_vars(FlushStatus(r))
        /\ SF_vars(ReserveNumber(r))

FairSpec == Spec /\ Fairness

-----------------------------------------------------------------------------
(***************************************************************************)
(* Properties.                                                             *)
(***************************************************************************)

\* No order is ever invoiced twice in nav_invoice_submissions, although the
\* table does not forbid it: the check for an existing submission and the
\* INSERT are separate statements, and two machines may complete one order.
OneSubmissionPerOrder == \A x, y \in rows : x.order = y.order => x = y

\* Every invoice NAV accepted can be traced in the database: its submission row
\* is committed, or the request that sent it is still running; only a crash in
\* between leaves an invoice at NAV that the backend knows nothing about.
LedgerAccounted ==
    \A e \in ledger :
        \/ e \in orphans
        \/ \E x \in rows : x.order = e.order /\ x.number = e.number
        \/ \E r \in Requests : /\ pc[r] \in {"accepted", "swallowed"}
                               /\ job[r].order = e.order
                               /\ num[r] = e.number

\* A row says "submitted" only if NAV accepted that order under that number.
SubmittedMeansAccepted ==
    \A x \in rows : x.submitted =>
        \E e \in ledger : e.order = x.order /\ e.number = x.number

\* Two invoices at NAV have the same number only if one of them was sent by a
\* request that crashed: handlers that read the same counter never both reach NAV.
NavNumbersDistinct ==
    \A e, f \in ledger \ orphans : e.number = f.number => e = f

\* Within one calendar year the submissions are numbered 1 to invoice_seq without
\* a gap, whatever becomes of the requests that took a number: a number computed
\* from a counter that is stale by then never gets as far as a COMMIT.
GaplessNumbers ==
    {x.number.seq : x \in rows} = 1 .. counter.seq

\* An invoice appears in the same commit that completes its order.
InvoicedOnCompletion ==
    [][\A x \in rows' : x \in rows \/ status'[x.order] = "completed"]_vars

\* The rows, read in the order of their numbers: the journal they implement.
RowNumbered(i) == CHOOSE x \in rows : x.number.seq = i

JournalOf ==
    [i \in 1 .. counter.seq |->
        [order |-> RowNumbered(i).order, submitted |-> RowNumbered(i).submitted]]

Journal == INSTANCE InvoiceJournal WITH length <- counter.seq, journal <- JournalOf

\* Within one calendar year every step of the handlers leaves the journal alone
\* or appends one invoice to it: no update of another request is lost, no number
\* is used again and no row is rewritten.
ImplementsJournal == Journal!Spec

\* Every request ends: the locks on a machine, an order and the settings are
\* always taken in that order, and no handler waits for NAV for ever.
EveryRequestEnds == \A r \in Requests : Busy(r) ~> ~Busy(r)

-----------------------------------------------------------------------------
(***************************************************************************)
(* The inductive invariant behind the safety properties.                   *)
(***************************************************************************)

InvoicingSteps == {"settings", "numbered", "reserved", "calling", "accepted", "swallowed"}

\* At most one open transaction has written an order's row, and at most one the
\* settings' row.
LocksExclusive ==
    /\ \A q, r \in Requests :
          WroteStatus(q) /\ WroteStatus(r) /\ job[q].order = job[r].order => q = r
    /\ \A q, r \in Requests : WroteCounter(q) /\ WroteCounter(r) => q = r

\* Only a request that completes its order, and has locked it, deals with invoices.
OnlyCompletions ==
    \A r \in Requests : pc[r] \in InvoicingSteps \cup {"flushed"} =>
        job[r].to = "completed" /\ job[r].old # "completed"

\* What such a request found out stays true while it holds its locks.
FindingsStayTrue ==
    \A r \in Requests :
        /\ pc[r] \in InvoicingSteps => ~HasRow(job[r].order)
        /\ WroteRow(r) => num[r] \notin Numbers

\* The UNIQUE constraint on invoice_number.
NumbersUnique == \A x, y \in rows : x.number = y.number => x = y

\* A request that has NAV's answer has its invoice in NAV's ledger.
AnswerMeansAccepted ==
    \A r \in Requests : pc[r] = "accepted" =>
        \E e \in ledger : e.order = job[r].order /\ e.number = num[r]

RowsInv == /\ LocksExclusive
           /\ OnlyCompletions
           /\ FindingsStayTrue
           /\ NumbersUnique
           /\ OneSubmissionPerOrder

NavInv == /\ AnswerMeansAccepted
          /\ LedgerAccounted
          /\ SubmittedMeansAccepted
          /\ NavNumbersDistinct

IInv == TypeOK /\ RowsInv /\ NavInv

\* Within one calendar year: a request's idea of the counter may be out of date, but
\* it is never ahead, and the number that follows from it is the next one or taken.
CounterInv ==
    /\ counter.year \in {0, year}
    /\ counter.year = 0 => counter.seq = 0
    /\ \A x \in rows : x.number.year = year
    /\ GaplessNumbers
    /\ \A r \in Requests : pc[r] \in InvoicingSteps =>
          /\ seen[r].year \in {0, year}
          /\ seen[r].year = 0 => seen[r].seq = 0
          /\ seen[r].year = year => counter.year = year
          /\ seen[r].seq <= counter.seq
    /\ \A r \in Requests : pc[r] \in InvoicingSteps \ {"settings"} =>
          num[r] = [year |-> year, seq |-> seen[r].seq + 1]

-----------------------------------------------------------------------------
(***************************************************************************)
(* What the documentation and the comments claim.                          *)
(***************************************************************************)

\* api.py calls the submission "fire-and-forget": whatever happens to it, the
\* status update it follows takes effect.
FireAndForget ==
    [][\A r \in Requests :
          pc[r] \in {"settings", "numbered", "reserved", "calling", "accepted", "swallowed"}
            /\ pc'[r] = "idle" /\ crashes' = crashes
          => status'[job[r].order] = job[r].to]_vars

=============================================================================
