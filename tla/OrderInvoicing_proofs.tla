----------------------- MODULE OrderInvoicing_proofs ------------------------
(***************************************************************************)
(* Theorems about OrderInvoicing, for any number of requests, machines,    *)
(* orders, years and crashes.                                              *)
(***************************************************************************)
EXTENDS OrderInvoicing, TLAPS

(***************************************************************************)
(* Type correctness.                                                       *)
(***************************************************************************)

\* Closing a session leaves the request's own variables in their types.
LEMMA FinishType ==
    ASSUME TypeOK, NEW r \in Requests, Finish(r)
    PROVE  /\ pc' \in [Requests -> Steps]
           /\ job' \in [Requests -> Job]
           /\ seen' \in [Requests -> Number]
           /\ num' \in [Requests -> Number]
           /\ \A q \in Requests : pc'[q] # "idle" => job'[q].order \in Orders
<1>1. NoNumber \in Number
  BY YearAssumption DEF NoNumber, Number
<1>2. NoJob \in Job
  BY DEF NoJob, Job, Callers, Status
<1>3. QED
  BY <1>1, <1>2 DEF Finish, Goto, TypeOK, Steps

\* A COMMIT leaves every variable in its type, the merged counter included.
LEMMA CommitWritesType ==
    ASSUME TypeOK, NEW r \in Requests, Busy(r), NEW b \in BOOLEAN, CommitWrites(r, b)
    PROVE  TypeOK'
<1>1. UpdatedCounter(r) \in Number
  BY DEF TypeOK, UpdatedCounter, Number
<1>2. NewRow(r, b) \in Row
  BY DEF TypeOK, NewRow, Row, Busy
<1>3. job[r].to \in Status
  BY DEF TypeOK, Job
<1>4. /\ status' \in [Orders -> Status]
      /\ counter' \in Number
      /\ rows' \in SUBSET Row
  BY <1>1, <1>2, <1>3 DEF TypeOK, CommitWrites
<1>5. QED
  BY <1>4, FinishType DEF CommitWrites, TypeOK, navVars

\* Moving to another step disturbs the type of nothing else.
LEMMA GotoType ==
    ASSUME TypeOK, NEW r \in Requests, NEW s \in Steps, Busy(r), Goto(r, s)
    PROVE  /\ pc' \in [Requests -> Steps]
           /\ \A q \in Requests : pc'[q] # "idle" => job[q].order \in Orders
BY DEF TypeOK, Goto, Busy

\* The initial values are in their types.
LEMMA InitType == Init => TypeOK
BY YearAssumption, CrashAssumption
DEF Init, TypeOK, Status, NoNumber, Number, NoJob, Job, Callers, Steps

\* Every step keeps every variable in its type.
LEMMA NextType == TypeOK /\ [Next]_vars => TypeOK'
<1> SUFFICES ASSUME TypeOK, [Next]_vars PROVE TypeOK'
  OBVIOUS
<1>1. ASSUME NEW r \in Requests, NEW c \in Callers, NEW o \in Orders,
             NEW s \in ClientStatuses, Begin(r, c, o, s)
      PROVE  TypeOK'
  <2>1. [caller |-> c, order |-> o, old |-> status[o], to |-> s] \in Job
    BY StatusAssumption DEF TypeOK, Job
  <2>2. QED
    BY <1>1, <2>1 DEF TypeOK, Begin, Goto, Steps, dbVars, navVars
<1>2. ASSUME NEW r \in Requests, Handle(r)
      PROVE  TypeOK'
  <2>1. CASE FlushStatus(r)
    BY <2>1, GotoType DEF FlushStatus, Busy, TypeOK, Steps, dbVars, navVars
  <2>2. CASE SkipInvoice(r) \/ AdminAutoSubmit(r)
    BY <2>2, GotoType DEF SkipInvoice, AdminAutoSubmit, Busy, TypeOK, Steps, dbVars, navVars
  <2>3. CASE ReadSettings(r)
    BY <2>3, GotoType DEF ReadSettings, Busy, TypeOK, Steps, dbVars, navVars
  <2>4. CASE NextInvoiceNumber(r)
    <3>1. [year |-> year, seq |-> IF seen[r].year # year THEN 1 ELSE seen[r].seq + 1]
            \in Number
      BY YearAssumption DEF TypeOK, Number
    <3>2. QED
      BY <2>4, <3>1, GotoType DEF NextInvoiceNumber, Busy, TypeOK, Steps, dbVars, navVars
  <2>5. CASE ReserveNumber(r) \/ InsertSubmission(r)
    BY <2>5, GotoType DEF ReserveNumber, InsertSubmission, Busy, TypeOK, Steps, dbVars, navVars
  <2>6. CASE DuplicateNumber(r)
    BY <2>6, FinishType DEF DuplicateNumber, TypeOK, dbVars, navVars
  <2>7. CASE NavAccept(r)
    <3>1. [txn |-> navTxns + 1, order |-> job[r].order, number |-> num[r]] \in Entry
      BY <2>7 DEF NavAccept, TypeOK, Entry
    <3>2. QED
      BY <2>7, <3>1, GotoType DEF NavAccept, Busy, TypeOK, Steps, dbVars
  <2>8. CASE NavFail(r)
    BY <2>8, GotoType DEF NavFail, Busy, TypeOK, Steps, dbVars, navVars
  <2>9. CASE RecordSubmitted(r)
    BY <2>9, CommitWritesType DEF RecordSubmitted, Busy
  <2>10. CASE Commit(r)
    BY <2>10, CommitWritesType DEF Commit, Busy
  <2>11. QED
    BY <1>2, <2>1, <2>2, <2>3, <2>4, <2>5, <2>6, <2>7, <2>8, <2>9, <2>10 DEF Handle
<1>3. ASSUME NEW r \in Requests, Crash(r)
      PROVE  TypeOK'
  <2>1. crashes' \in 0 .. MaxCrashes
    BY <1>3, CrashAssumption DEF Crash, TypeOK
  <2>2. orphans' \in SUBSET Entry
    BY <1>3 DEF Crash, TypeOK
  <2>3. QED
    BY <1>3, <2>1, <2>2, FinishType DEF Crash, TypeOK, dbVars
<1>4. CASE SaveNavSettings
  BY <1>4 DEF SaveNavSettings, TypeOK, reqVars, navVars
<1>5. CASE NewYear
  BY <1>5, YearAssumption DEF NewYear, TypeOK, dbVars, reqVars, navVars
<1>6. CASE UNCHANGED vars
  BY <1>6 DEF vars, dbVars, reqVars, navVars, TypeOK
<1>7. QED
  BY <1>1, <1>2, <1>3, <1>4, <1>5, <1>6 DEF Next

\* Every variable keeps its type, whatever the requests do; in particular the
\* counter and the numbers stay natural numbers and every row has its order.
THEOREM TypeCorrect == Spec => []TypeOK
BY InitType, NextType, PTL DEF Spec

-----------------------------------------------------------------------------
(***************************************************************************)
(* The submissions table.                                                  *)
(***************************************************************************)

\* A request's step leaves the variables of every other request alone.
LEMMA OthersUnchanged ==
    ASSUME TypeOK, NEW r \in Requests,
           \/ Handle(r)
           \/ Crash(r)
           \/ \E c \in Callers, o \in Orders, s \in ClientStatuses : Begin(r, c, o, s)
    PROVE  \A q \in Requests \ {r} :
             pc'[q] = pc[q] /\ job'[q] = job[q] /\ num'[q] = num[q] /\ seen'[q] = seen[q]
BY DEF TypeOK, Handle, Crash, Begin, FlushStatus, SkipInvoice, ReadSettings, AdminAutoSubmit,
       NextInvoiceNumber, ReserveNumber, InsertSubmission, DuplicateNumber, NavAccept, NavFail,
       RecordSubmitted, Commit, CommitWrites, Finish, Goto

\* A finished request has written nothing.
LEMMA FinishedWroteNothing ==
    ASSUME TypeOK, NEW r \in Requests, Finish(r)
    PROVE  /\ ~WroteStatus(r)' /\ ~WroteCounter(r)' /\ ~WroteRow(r)'
           /\ pc'[r] = "idle"
BY DEF TypeOK, Finish, Goto, WroteStatus, WroteCounter, WroteRow

\* No request runs and no row exists at the start.
LEMMA RowsInit == Init => RowsInv
BY DEF Init, RowsInv, LocksExclusive, OnlyCompletions, FindingsStayTrue, NumbersUnique,
       OneSubmissionPerOrder, WroteStatus, WroteCounter, WroteRow, InvoicingSteps

\* The steps that insert no row: what matters is where they take the request.
LEMMA RowsKept ==
    ASSUME TypeOK, RowsInv, NEW r \in Requests, rows' = rows,
           \A q \in Requests \ {r} :
             pc'[q] = pc[q] /\ job'[q] = job[q] /\ num'[q] = num[q],
           WroteStatus(r)' =>
             (WroteStatus(r) /\ job'[r].order = job[r].order) \/ ~OrderLocked(job'[r].order),
           WroteCounter(r)' => WroteCounter(r) \/ ~SettingsLocked,
           pc'[r] \in InvoicingSteps \cup {"flushed"} =>
             job'[r].to = "completed" /\ job'[r].old # "completed",
           pc'[r] \in InvoicingSteps => ~HasRow(job'[r].order),
           WroteRow(r)' => num'[r] \notin Numbers
    PROVE  RowsInv'
<1>1. \A q \in Requests \ {r} :
         /\ WroteStatus(q)' <=> WroteStatus(q)
         /\ WroteCounter(q)' <=> WroteCounter(q)
         /\ WroteRow(q)' <=> WroteRow(q)
  BY DEF WroteStatus, WroteCounter, WroteRow
<1>2. LocksExclusive'
  BY <1>1 DEF RowsInv, LocksExclusive, OrderLocked, SettingsLocked
<1>3. OnlyCompletions'
  BY DEF RowsInv, OnlyCompletions
<1>4. FindingsStayTrue'
  BY <1>1 DEF RowsInv, FindingsStayTrue, HasRow, Numbers
<1>5. NumbersUnique' /\ OneSubmissionPerOrder'
  BY DEF RowsInv, NumbersUnique, OneSubmissionPerOrder
<1>6. QED
  BY <1>2, <1>3, <1>4, <1>5 DEF RowsInv

\* The commit of a new row: its order has no other row and its number is fresh,
\* and no other request is about to insert a row for either.
LEMMA RowInserted ==
    ASSUME TypeOK, RowsInv, NEW r \in Requests, NEW b \in BOOLEAN, WroteRow(r),
           rows' = rows \cup {NewRow(r, b)}, Finish(r),
           \A q \in Requests \ {r} :
             pc'[q] = pc[q] /\ job'[q] = job[q] /\ num'[q] = num[q]
    PROVE  RowsInv'
<1>1. /\ \A q \in Requests \ {r} :
            /\ WroteStatus(q)' <=> WroteStatus(q)
            /\ WroteCounter(q)' <=> WroteCounter(q)
            /\ WroteRow(q)' <=> WroteRow(q)
      /\ ~WroteStatus(r)' /\ ~WroteCounter(r)' /\ ~WroteRow(r)' /\ pc'[r] = "idle"
  BY FinishedWroteNothing DEF WroteStatus, WroteCounter, WroteRow
<1>2. /\ WroteStatus(r) /\ WroteCounter(r)
      /\ ~HasRow(job[r].order)
      /\ num[r] \notin Numbers
  BY DEF RowsInv, OnlyCompletions, FindingsStayTrue, InvoicingSteps, WroteRow, WroteCounter,
         WroteStatus
<1>3. LocksExclusive' /\ OnlyCompletions'
  BY <1>1 DEF RowsInv, LocksExclusive, OnlyCompletions, InvoicingSteps
<1>4. FindingsStayTrue'
  <2>1. ASSUME NEW q \in Requests, pc'[q] \in InvoicingSteps
        PROVE  ~HasRow(job[q].order)'
    <3>1. q # r /\ pc[q] \in InvoicingSteps
      BY <1>1, <2>1 DEF InvoicingSteps
    <3>2. WroteStatus(q)
      BY <3>1 DEF RowsInv, OnlyCompletions, InvoicingSteps, WroteStatus
    <3>3. job[q].order # job[r].order
      BY <1>2, <3>1, <3>2 DEF RowsInv, LocksExclusive
    <3>4. QED
      BY <3>1, <3>3 DEF RowsInv, FindingsStayTrue, HasRow, NewRow
  <2>2. ASSUME NEW q \in Requests, WroteRow(q)'
        PROVE  FALSE
    <3>1. q # r /\ WroteCounter(q)
      BY <1>1, <2>2 DEF WroteCounter
    <3>2. QED
      BY <1>2, <3>1 DEF RowsInv, LocksExclusive
  <2>3. QED
    BY <2>1, <2>2 DEF FindingsStayTrue
<1>5. NumbersUnique' /\ OneSubmissionPerOrder'
  BY <1>2 DEF RowsInv, NumbersUnique, OneSubmissionPerOrder, HasRow, Numbers, NewRow
<1>6. QED
  BY <1>3, <1>4, <1>5 DEF RowsInv

\* Every step preserves what is known of the rows and of the locks.
LEMMA RowsNext == TypeOK /\ RowsInv /\ [Next]_vars => RowsInv'
<1> SUFFICES ASSUME TypeOK, RowsInv, [Next]_vars PROVE RowsInv'
  OBVIOUS
<1> USE DEF InvoicingSteps, WroteStatus, WroteCounter, WroteRow, dbVars
<1>1. ASSUME NEW r \in Requests, NEW c \in Callers, NEW o \in Orders,
             NEW s \in ClientStatuses, Begin(r, c, o, s)
      PROVE  RowsInv'
  <2>1. \A q \in Requests \ {r} :
          pc'[q] = pc[q] /\ job'[q] = job[q] /\ num'[q] = num[q]
    BY <1>1, OthersUnchanged
  <2>2. pc'[r] = "loaded" /\ rows' = rows
    BY <1>1 DEF Begin, Goto, TypeOK
  <2>3. QED
    BY <2>1, <2>2, RowsKept
<1>2. ASSUME NEW r \in Requests, Handle(r)
      PROVE  RowsInv'
  <2>1. \A q \in Requests \ {r} :
          pc'[q] = pc[q] /\ job'[q] = job[q] /\ num'[q] = num[q]
    BY <1>2, OthersUnchanged
  <2>2. CASE FlushStatus(r)
    BY <2>1, <2>2, RowsKept DEF FlushStatus, Goto, TypeOK
  <2>3. CASE SkipInvoice(r) \/ AdminAutoSubmit(r)
    BY <2>1, <2>3, RowsKept DEF SkipInvoice, AdminAutoSubmit, Goto, TypeOK
  <2>4. CASE ReadSettings(r)
    <3>1. job[r].to = "completed" /\ job[r].old # "completed"
      BY <2>4 DEF ReadSettings, RowsInv, OnlyCompletions
    <3>2. /\ pc[r] = "flushed" /\ pc'[r] = "settings"
          /\ job' = job /\ rows' = rows /\ num' = num
          /\ ~HasRow(job[r].order)
      BY <2>4 DEF ReadSettings, Goto, TypeOK
    <3>3. QED
      BY <2>1, <3>1, <3>2, RowsKept
  <2>5. CASE NextInvoiceNumber(r)
    <3>1. pc[r] = "settings" /\ pc'[r] = "numbered" /\ job' = job /\ rows' = rows
      BY <2>5 DEF NextInvoiceNumber, Goto, TypeOK
    <3>2. /\ job[r].to = "completed" /\ job[r].old # "completed"
          /\ ~HasRow(job[r].order)
      BY <3>1 DEF RowsInv, OnlyCompletions, FindingsStayTrue
    <3>3. QED
      BY <2>1, <3>1, <3>2, RowsKept
  <2>6. CASE ReserveNumber(r)
    <3>1. /\ pc[r] = "numbered" /\ pc'[r] = "reserved"
          /\ job' = job /\ rows' = rows /\ num' = num
          /\ ~SettingsLocked
      BY <2>6 DEF ReserveNumber, Goto, TypeOK
    <3>2. /\ job[r].to = "completed" /\ job[r].old # "completed"
          /\ ~HasRow(job[r].order)
      BY <3>1 DEF RowsInv, OnlyCompletions, FindingsStayTrue
    <3>3. QED
      BY <2>1, <3>1, <3>2, RowsKept
  <2>7. CASE InsertSubmission(r)
    <3>1. /\ pc[r] = "reserved" /\ pc'[r] = "calling"
          /\ job' = job /\ rows' = rows /\ num' = num
          /\ num[r] \notin Numbers
      BY <2>7 DEF InsertSubmission, Goto, TypeOK
    <3>2. /\ job[r].to = "completed" /\ job[r].old # "completed"
          /\ ~HasRow(job[r].order)
      BY <3>1 DEF RowsInv, OnlyCompletions, FindingsStayTrue
    <3>3. QED
      BY <2>1, <3>1, <3>2, RowsKept
  <2>8. CASE DuplicateNumber(r)
    <3>1. rows' = rows /\ pc'[r] = "idle"
      BY <2>8 DEF DuplicateNumber, Finish, Goto, TypeOK
    <3>2. QED
      BY <2>1, <3>1, RowsKept
  <2>9. CASE NavAccept(r) \/ NavFail(r)
    <3>1. /\ pc[r] \in {"calling", "accepted"} /\ pc'[r] \in {"accepted", "swallowed"}
          /\ job' = job /\ rows' = rows /\ num' = num
      BY <2>9 DEF NavAccept, NavFail, Goto, TypeOK
    <3>2. /\ job[r].to = "completed" /\ job[r].old # "completed"
          /\ ~HasRow(job[r].order)
          /\ num[r] \notin Numbers
      BY <3>1 DEF RowsInv, OnlyCompletions, FindingsStayTrue
    <3>3. QED
      BY <2>1, <3>1, <3>2, RowsKept
  <2>10. CASE RecordSubmitted(r)
    BY <2>1, <2>10, RowInserted DEF RecordSubmitted, CommitWrites
  <2>11. CASE Commit(r)
    <3>1. CASE WroteRow(r)
      BY <2>1, <2>11, <3>1, RowInserted DEF Commit, CommitWrites
    <3>2. CASE ~WroteRow(r)
      <4>1. rows' = rows /\ pc'[r] = "idle"
        BY <2>11, <3>2 DEF Commit, CommitWrites, Finish, Goto, TypeOK
      <4>2. QED
        BY <2>1, <4>1, RowsKept
    <3>3. QED
      BY <3>1, <3>2
  <2>12. QED
    BY <1>2, <2>2, <2>3, <2>4, <2>5, <2>6, <2>7, <2>8, <2>9, <2>10, <2>11 DEF Handle
<1>3. ASSUME NEW r \in Requests, Crash(r)
      PROVE  RowsInv'
  <2>1. \A q \in Requests \ {r} :
          pc'[q] = pc[q] /\ job'[q] = job[q] /\ num'[q] = num[q]
    BY <1>3, OthersUnchanged
  <2>2. rows' = rows /\ pc'[r] = "idle"
    BY <1>3 DEF Crash, Finish, Goto, TypeOK
  <2>3. QED
    BY <2>1, <2>2, RowsKept
<1>4. CASE SaveNavSettings \/ NewYear \/ UNCHANGED vars
  <2>1. rows' = rows /\ pc' = pc /\ job' = job /\ num' = num
    BY <1>4 DEF SaveNavSettings, NewYear, vars, reqVars
  <2>2. QED
    BY <2>1 DEF RowsInv, LocksExclusive, OnlyCompletions, FindingsStayTrue, NumbersUnique,
                OneSubmissionPerOrder, HasRow, Numbers
<1>5. QED
  BY <1>1, <1>2, <1>3, <1>4 DEF Next

\* However many machines and admins complete an order at the same time, and in
\* whatever year, its invoice is issued at most once.
THEOREM NoOrderInvoicedTwice == Spec => []OneSubmissionPerOrder
<1>1. Init => TypeOK /\ RowsInv
  BY InitType, RowsInit
<1>2. TypeOK /\ RowsInv /\ [Next]_vars => (TypeOK /\ RowsInv)'
  BY NextType, RowsNext
<1>3. RowsInv => OneSubmissionPerOrder
  BY DEF RowsInv
<1>4. QED
  BY <1>1, <1>2, <1>3, PTL DEF Spec

-----------------------------------------------------------------------------
(***************************************************************************)
(* What NAV has, and what the database knows of it.                        *)
(***************************************************************************)

\* Nothing has been sent at the start.
LEMMA NavInit == Init => NavInv
BY DEF Init, NavInv, AnswerMeansAccepted, LedgerAccounted, SubmittedMeansAccepted,
       NavNumbersDistinct

\* Steps that neither talk to NAV nor commit a row.
LEMMA NavKept ==
    ASSUME NavInv, NEW r \in Requests,
           rows' = rows, ledger' = ledger, orphans' = orphans,
           \A q \in Requests \ {r} :
             pc'[q] = pc[q] /\ job'[q] = job[q] /\ num'[q] = num[q],
           pc'[r] = "accepted" => pc[r] = "accepted" /\ job'[r] = job[r] /\ num'[r] = num[r],
           pc[r] \in {"accepted", "swallowed"} =>
             /\ pc'[r] \in {"accepted", "swallowed"}
             /\ job'[r] = job[r] /\ num'[r] = num[r]
    PROVE  NavInv'
<1>1. AnswerMeansAccepted'
  BY DEF NavInv, AnswerMeansAccepted
<1>2. LedgerAccounted'
  BY DEF NavInv, LedgerAccounted
<1>3. SubmittedMeansAccepted' /\ NavNumbersDistinct'
  BY DEF NavInv, SubmittedMeansAccepted, NavNumbersDistinct
<1>4. QED
  BY <1>1, <1>2, <1>3 DEF NavInv

\* The commit of a row, which takes over from the request that inserted it.
LEMMA NavRowInserted ==
    ASSUME NavInv, NEW r \in Requests, NEW b \in BOOLEAN,
           rows' = rows \cup {NewRow(r, b)}, ledger' = ledger, orphans' = orphans,
           pc'[r] = "idle", b => pc[r] = "accepted",
           \A q \in Requests \ {r} :
             pc'[q] = pc[q] /\ job'[q] = job[q] /\ num'[q] = num[q]
    PROVE  NavInv'
<1>1. AnswerMeansAccepted'
  BY DEF NavInv, AnswerMeansAccepted
<1>2. LedgerAccounted'
  <2>1. SUFFICES ASSUME NEW e \in ledger, e \notin orphans
                 PROVE  \/ \E x \in rows' : x.order = e.order /\ x.number = e.number
                        \/ \E q \in Requests : /\ pc'[q] \in {"accepted", "swallowed"}
                                               /\ job'[q].order = e.order
                                               /\ num'[q] = e.number
    BY DEF LedgerAccounted
  <2>2. CASE \E x \in rows : x.order = e.order /\ x.number = e.number
    BY <2>2
  <2>3. ASSUME NEW q \in Requests, pc[q] \in {"accepted", "swallowed"},
               job[q].order = e.order, num[q] = e.number
        PROVE  \/ \E x \in rows' : x.order = e.order /\ x.number = e.number
               \/ pc'[q] = pc[q] /\ job'[q] = job[q] /\ num'[q] = num[q]
    <3>1. NewRow(r, b) \in rows' /\ NewRow(r, b).order = job[r].order
                                /\ NewRow(r, b).number = num[r]
      BY DEF NewRow
    <3>2. QED
      BY <2>3, <3>1
  <2>4. QED
    BY <2>1, <2>2, <2>3 DEF NavInv, LedgerAccounted
<1>3. SubmittedMeansAccepted'
  BY DEF NavInv, SubmittedMeansAccepted, AnswerMeansAccepted, NewRow
<1>4. NavNumbersDistinct'
  BY DEF NavInv, NavNumbersDistinct
<1>5. QED
  BY <1>1, <1>2, <1>3, <1>4 DEF NavInv

\* NAV takes an invoice: its number is that of no row and of no other request.
LEMMA NavAccepted ==
    ASSUME TypeOK, RowsInv, NavInv, NEW r \in Requests, NavAccept(r)
    PROVE  NavInv'
<1> DEFINE new == [txn |-> navTxns + 1, order |-> job[r].order, number |-> num[r]]
<1>1. /\ ledger' = ledger \cup {new} /\ orphans' = orphans /\ rows' = rows
      /\ job' = job /\ num' = num
      /\ pc[r] = "calling" /\ pc'[r] = "accepted"
      /\ \A q \in Requests \ {r} : pc'[q] = pc[q]
  BY DEF NavAccept, Goto, TypeOK, dbVars
<1>2. AnswerMeansAccepted'
  <2>1. new \in ledger' /\ new.order = job'[r].order /\ new.number = num'[r]
    BY <1>1
  <2>2. ASSUME NEW q \in Requests \ {r}, pc'[q] = "accepted"
        PROVE  \E e \in ledger' : e.order = job'[q].order /\ e.number = num'[q]
    BY <1>1, <2>2 DEF NavInv, AnswerMeansAccepted
  <2>3. QED
    BY <2>1, <2>2 DEF AnswerMeansAccepted
<1>3. LedgerAccounted'
  BY <1>1 DEF NavInv, LedgerAccounted
<1>4. SubmittedMeansAccepted'
  BY <1>1 DEF NavInv, SubmittedMeansAccepted
<1>5. \A e \in ledger \ orphans : e.number # num[r]
  <2>1. SUFFICES ASSUME NEW e \in ledger \ orphans, e.number = num[r] PROVE FALSE
    OBVIOUS
  <2>2. num[r] \notin Numbers
    BY <1>1 DEF RowsInv, FindingsStayTrue, WroteRow
  <2>3. PICK q \in Requests : pc[q] \in {"accepted", "swallowed"}
    BY <2>1, <2>2 DEF NavInv, LedgerAccounted, Numbers
  <2>4. q = r
    BY <1>1, <2>3 DEF RowsInv, LocksExclusive, WroteCounter, WroteRow
  <2>5. QED
    BY <1>1, <2>3, <2>4
<1>6. NavNumbersDistinct'
  BY <1>1, <1>5 DEF NavInv, NavNumbersDistinct
<1>7. QED
  BY <1>2, <1>3, <1>4, <1>6 DEF NavInv

\* A crash: what NAV had accepted for the request becomes an orphan.
LEMMA NavCrashed ==
    ASSUME TypeOK, NavInv, NEW r \in Requests, Crash(r)
    PROVE  NavInv'
<1>1. \A q \in Requests \ {r} :
        pc'[q] = pc[q] /\ job'[q] = job[q] /\ num'[q] = num[q]
  BY OthersUnchanged
<1>2. rows' = rows /\ ledger' = ledger /\ orphans \subseteq orphans' /\ pc'[r] = "idle"
  BY DEF Crash, Finish, Goto, TypeOK, dbVars
<1>3. AnswerMeansAccepted'
  BY <1>1, <1>2 DEF NavInv, AnswerMeansAccepted
<1>4. LedgerAccounted'
  BY <1>1, <1>2 DEF NavInv, LedgerAccounted, Crash, WroteRow
<1>5. SubmittedMeansAccepted' /\ NavNumbersDistinct'
  BY <1>2 DEF NavInv, SubmittedMeansAccepted, NavNumbersDistinct
<1>6. QED
  BY <1>3, <1>4, <1>5 DEF NavInv

\* Every step preserves what the database knows of NAV.
LEMMA NavNext == TypeOK /\ RowsInv /\ NavInv /\ [Next]_vars => NavInv'
<1> SUFFICES ASSUME TypeOK, RowsInv, NavInv, [Next]_vars PROVE NavInv'
  OBVIOUS
<1> USE DEF dbVars, navVars
<1>1. ASSUME NEW r \in Requests, NEW c \in Callers, NEW o \in Orders,
             NEW s \in ClientStatuses, Begin(r, c, o, s)
      PROVE  NavInv'
  <2>1. \A q \in Requests \ {r} :
          pc'[q] = pc[q] /\ job'[q] = job[q] /\ num'[q] = num[q]
    BY <1>1, OthersUnchanged
  <2>2. /\ pc[r] = "idle" /\ pc'[r] = "loaded"
        /\ rows' = rows /\ ledger' = ledger /\ orphans' = orphans
    BY <1>1 DEF Begin, Busy, Goto, TypeOK
  <2>3. QED
    BY <2>1, <2>2, NavKept
<1>2. ASSUME NEW r \in Requests, Handle(r)
      PROVE  NavInv'
  <2>1. \A q \in Requests \ {r} :
          pc'[q] = pc[q] /\ job'[q] = job[q] /\ num'[q] = num[q]
    BY <1>2, OthersUnchanged
  <2>2. CASE \/ FlushStatus(r) \/ SkipInvoice(r) \/ AdminAutoSubmit(r) \/ ReadSettings(r)
             \/ NextInvoiceNumber(r) \/ ReserveNumber(r) \/ InsertSubmission(r)
             \/ DuplicateNumber(r)
    <3>1. /\ rows' = rows /\ ledger' = ledger /\ orphans' = orphans
          /\ pc[r] \notin {"accepted", "swallowed"} /\ pc'[r] # "accepted"
      BY <2>2 DEF FlushStatus, SkipInvoice, AdminAutoSubmit, ReadSettings, NextInvoiceNumber,
                  ReserveNumber, InsertSubmission, DuplicateNumber, Finish, Goto, TypeOK
    <3>2. QED
      BY <2>1, <3>1, NavKept
  <2>3. CASE NavAccept(r)
    BY <2>3, NavAccepted
  <2>4. CASE NavFail(r)
    <3>1. /\ rows' = rows /\ ledger' = ledger /\ orphans' = orphans
          /\ job' = job /\ num' = num /\ pc'[r] = "swallowed"
      BY <2>4 DEF NavFail, Goto, TypeOK
    <3>2. QED
      BY <2>1, <3>1, NavKept
  <2>5. CASE RecordSubmitted(r)
    <3>1. /\ rows' = rows \cup {NewRow(r, TRUE)} /\ ledger' = ledger /\ orphans' = orphans
          /\ pc[r] = "accepted" /\ pc'[r] = "idle"
      BY <2>5 DEF RecordSubmitted, CommitWrites, WroteRow, Finish, Goto, TypeOK
    <3>2. QED
      BY <2>1, <3>1, NavRowInserted
  <2>6. CASE Commit(r)
    <3>1. /\ ledger' = ledger /\ orphans' = orphans /\ pc'[r] = "idle"
          /\ pc[r] = "swallowed" => rows' = rows \cup {NewRow(r, FALSE)}
          /\ pc[r] = "done" => rows' = rows
          /\ pc[r] \in {"swallowed", "done"}
      BY <2>6 DEF Commit, CommitWrites, WroteRow, Finish, Goto, TypeOK
    <3>2. CASE pc[r] = "swallowed"
      BY <2>1, <3>1, <3>2, NavRowInserted
    <3>3. CASE pc[r] = "done"
      BY <2>1, <3>1, <3>3, NavKept
    <3>4. QED
      BY <3>1, <3>2, <3>3
  <2>7. QED
    BY <1>2, <2>2, <2>3, <2>4, <2>5, <2>6 DEF Handle
<1>3. ASSUME NEW r \in Requests, Crash(r)
      PROVE  NavInv'
  BY <1>3, NavCrashed
<1>4. CASE SaveNavSettings \/ NewYear \/ UNCHANGED vars
  BY <1>4 DEF SaveNavSettings, NewYear, vars, reqVars, NavInv, AnswerMeansAccepted,
              LedgerAccounted, SubmittedMeansAccepted, NavNumbersDistinct
<1>5. QED
  BY <1>1, <1>2, <1>3, <1>4 DEF Next

\* The invariant the safety theorems rest on is inductive.
THEOREM InductiveInvariant == Spec => []IInv
<1>1. Init => IInv
  BY InitType, RowsInit, NavInit DEF IInv
<1>2. IInv /\ [Next]_vars => IInv'
  BY NextType, RowsNext, NavNext DEF IInv
<1>3. QED
  BY <1>1, <1>2, PTL DEF Spec

\* InvoicedOnCompletion: a submission row appears in no other commit than the one that
\* makes its order completed, since its request has written that status and holds the row.
THEOREM InvoicesComeWithCompletion == Spec => InvoicedOnCompletion
<1> DEFINE Completes(x) == x \in rows \/ status'[x.order] = "completed"
<1>1. ASSUME IInv, NEW r \in Requests, NEW b \in BOOLEAN, Busy(r), CommitWrites(r, b),
             NEW x \in rows'
      PROVE  Completes(x)
  <2>1. CASE x \in rows
    BY <2>1
  <2>2. CASE x \notin rows
    <3>1. WroteRow(r) /\ x.order = job[r].order
      BY <1>1, <2>2 DEF CommitWrites, NewRow
    <3>2. job[r].to = "completed" /\ job[r].old # "completed" /\ job[r].order \in Orders
      BY <1>1, <3>1 DEF IInv, TypeOK, RowsInv, OnlyCompletions, WroteRow, InvoicingSteps, Busy
    <3>3. WroteStatus(r)
      BY <3>1, <3>2 DEF WroteRow, WroteStatus
    <3> QED
      BY <1>1, <3>1, <3>2, <3>3 DEF CommitWrites, IInv, TypeOK
  <2> QED
    BY <2>1, <2>2
<1>2. ASSUME IInv, [Next]_vars, NEW x \in rows'
      PROVE  Completes(x)
  <2>1. ASSUME NEW r \in Requests, RecordSubmitted(r) \/ Commit(r)
        PROVE  Completes(x)
    <3>1. Busy(r) /\ (CommitWrites(r, TRUE) \/ CommitWrites(r, FALSE))
      BY <2>1 DEF RecordSubmitted, Commit, Busy
    <3> QED
      BY <1>1, <1>2, <3>1
  <2>2. CASE UNCHANGED rows
    BY <1>2, <2>2
  <2>3. CASE \E r \in Requests : Handle(r)
    <3>1. ASSUME NEW r \in Requests, Handle(r), ~(RecordSubmitted(r) \/ Commit(r))
          PROVE  UNCHANGED rows
      BY <3>1
      DEF Handle, FlushStatus, SkipInvoice, ReadSettings, AdminAutoSubmit, NextInvoiceNumber,
          ReserveNumber, InsertSubmission, DuplicateNumber, NavAccept, NavFail, dbVars
    <3> QED
      BY <2>1, <2>2, <2>3, <3>1
  <2>4. CASE \/ \E r \in Requests, c \in Callers, o \in Orders, s \in ClientStatuses : Begin(r, c, o, s)
             \/ \E r \in Requests : Crash(r)
             \/ SaveNavSettings
             \/ NewYear
             \/ UNCHANGED vars
    BY <2>2, <2>4 DEF Begin, Crash, SaveNavSettings, NewYear, dbVars, vars
  <2> QED
    BY ONLY [Next]_vars, <1>2, <2>3, <2>4 DEF Next
<1>3. IInv /\ [Next]_vars => [\A x \in rows' : Completes(x)]_vars
  BY <1>2
<1> QED
  BY <1>3, InductiveInvariant, PTL DEF Spec, InvoicedOnCompletion

\* An invoice at NAV is accounted for in the database unless the request that sent
\* it crashed, and what the database calls submitted was accepted by NAV.
THEOREM DatabaseKnowsWhatNavHas == Spec => [](LedgerAccounted /\ SubmittedMeansAccepted)
<1>1. IInv => LedgerAccounted /\ SubmittedMeansAccepted
  BY DEF IInv, NavInv
<1>2. QED
  BY <1>1, InductiveInvariant, PTL

\* Crashes apart, NAV never gets two invoices with one number, although two
\* handlers may compute the same number from the same counter.
THEOREM NoNumberSentTwice == Spec => []NavNumbersDistinct
<1>1. IInv => NavNumbersDistinct
  BY DEF IInv, NavInv
<1>2. QED
  BY <1>1, InductiveInvariant, PTL

-----------------------------------------------------------------------------
(***************************************************************************)
(* The numbering within one calendar year.                                 *)
(***************************************************************************)

\* The counter is unset and there are no rows at the start.
LEMMA CounterInit == Init => CounterInv
BY DEF Init, CounterInv, GaplessNumbers, NoNumber, InvoicingSteps

\* A request about to commit a row has the number that follows the counter: a
\* smaller one would be taken, and it would not have got past the UNIQUE constraint.
LEMMA NumberIsNext ==
    ASSUME TypeOK, RowsInv, CounterInv, NEW r \in Requests, WroteRow(r)
    PROVE  /\ num[r] = [year |-> year, seq |-> counter.seq + 1]
           /\ UpdatedCounter(r) = num[r]
<1>1. /\ pc[r] \in InvoicingSteps \ {"settings"}
      /\ num[r] \notin Numbers
  BY DEF WroteRow, InvoicingSteps, RowsInv, FindingsStayTrue
<1>2. /\ num[r] = [year |-> year, seq |-> seen[r].seq + 1]
      /\ seen[r].seq <= counter.seq
      /\ seen[r].seq \in Nat /\ counter.seq \in Nat
  BY <1>1 DEF CounterInv, TypeOK, Number
<1>3. seen[r].seq = counter.seq
  <2>1. SUFFICES ASSUME seen[r].seq + 1 <= counter.seq PROVE FALSE
    BY <1>2
  <2>2. seen[r].seq + 1 \in 1 .. counter.seq
    BY <1>2, <2>1
  <2>3. PICK x \in rows : x.number.seq = seen[r].seq + 1
    BY <2>2 DEF CounterInv, GaplessNumbers
  <2>4. x.number \in Number /\ x.number.year = year
    BY DEF TypeOK, Row, CounterInv
  <2>5. x.number = num[r]
    BY <1>2, <2>3, <2>4 DEF Number
  <2>6. QED
    BY <1>1, <2>5 DEF Numbers
<1>4. /\ seen[r].year \in {0, year}
      /\ seen[r].year = year => counter.year = year
  BY <1>1 DEF CounterInv
<1>5. QED
  BY <1>2, <1>3, <1>4 DEF UpdatedCounter

\* Steps that commit no invoice: a request may only have moved on, with a number
\* computed as it should be.
LEMMA CounterKept ==
    ASSUME TypeOK, CounterInv, NEW r \in Requests,
           rows' = rows, counter' = counter, year' = year,
           \A q \in Requests \ {r} :
             pc'[q] = pc[q] /\ num'[q] = num[q] /\ seen'[q] = seen[q],
           pc'[r] \in InvoicingSteps =>
             (pc[r] \in InvoicingSteps /\ seen'[r] = seen[r]) \/ seen'[r] = counter,
           pc'[r] \in InvoicingSteps \ {"settings"} =>
             num'[r] = [year |-> year, seq |-> seen'[r].seq + 1]
    PROVE  CounterInv'
<1>1. counter.seq \in Nat
  BY DEF TypeOK, Number
<1>2. GaplessNumbers' /\ \A x \in rows' : x.number.year = year'
  BY DEF CounterInv, GaplessNumbers
<1>3. \A q \in Requests : pc'[q] \in InvoicingSteps =>
        \/ pc[q] \in InvoicingSteps /\ seen'[q] = seen[q]
        \/ seen'[q] = counter
  OBVIOUS
<1>4. \A q \in Requests : pc'[q] \in InvoicingSteps =>
        /\ seen'[q].year \in {0, year'}
        /\ seen'[q].year = 0 => seen'[q].seq = 0
        /\ seen'[q].year = year' => counter'.year = year'
        /\ seen'[q].seq <= counter'.seq
  BY <1>1, <1>3 DEF CounterInv
<1>5. \A q \in Requests : pc'[q] \in InvoicingSteps \ {"settings"} =>
        num'[q] = [year |-> year', seq |-> seen'[q].seq + 1]
  BY DEF CounterInv
<1>6. QED
  BY <1>2, <1>4, <1>5 DEF CounterInv

\* The commit of a row moves the counter to its number.
LEMMA CounterMoves ==
    ASSUME TypeOK, RowsInv, CounterInv, NEW r \in Requests, NEW b \in BOOLEAN, WroteRow(r),
           rows' = rows \cup {NewRow(r, b)}, counter' = UpdatedCounter(r), year' = year,
           pc'[r] = "idle",
           \A q \in Requests \ {r} :
             pc'[q] = pc[q] /\ num'[q] = num[q] /\ seen'[q] = seen[q]
    PROVE  CounterInv'
<1>1. counter' = [year |-> year, seq |-> counter.seq + 1] /\ counter' = num[r]
  BY NumberIsNext
<1>2. /\ counter.seq \in Nat
      /\ \A q \in Requests : seen[q].seq \in Nat
  BY DEF TypeOK, Number
<1>3. NewRow(r, b).number = counter'
  BY <1>1 DEF NewRow
<1>4. /\ counter'.year \in {0, year'}
      /\ counter'.year = 0 => counter'.seq = 0
      /\ \A x \in rows' : x.number.year = year'
  BY <1>1, <1>3, YearAssumption DEF CounterInv, TypeOK
<1>5. GaplessNumbers'
  <2>1. {x.number.seq : x \in rows'} = {x.number.seq : x \in rows} \cup {counter.seq + 1}
    BY <1>1, <1>3
  <2>2. (1 .. counter.seq) \cup {counter.seq + 1} = 1 .. counter.seq + 1
    BY <1>2
  <2>3. {x.number.seq : x \in rows} = 1 .. counter.seq /\ counter'.seq = counter.seq + 1
    BY <1>1 DEF CounterInv, GaplessNumbers
  <2>4. QED
    BY <2>1, <2>2, <2>3 DEF GaplessNumbers
<1>6. \A q \in Requests : pc'[q] \in InvoicingSteps => q # r
  BY DEF InvoicingSteps
<1>7. \A q \in Requests : pc'[q] \in InvoicingSteps =>
        /\ seen'[q].year \in {0, year'}
        /\ seen'[q].year = 0 => seen'[q].seq = 0
        /\ seen'[q].year = year' => counter'.year = year'
        /\ seen'[q].seq <= counter'.seq
  BY <1>1, <1>2, <1>6 DEF CounterInv
<1>8. \A q \in Requests : pc'[q] \in InvoicingSteps \ {"settings"} =>
        num'[q] = [year |-> year', seq |-> seen'[q].seq + 1]
  BY <1>6 DEF CounterInv
<1>9. QED
  BY <1>4, <1>5, <1>7, <1>8 DEF CounterInv

\* Within one year, every step preserves what is known of the counter.
LEMMA CounterNext ==
    ASSUME FirstYear = LastYear
    PROVE  TypeOK /\ RowsInv /\ CounterInv /\ [Next]_vars => CounterInv'
<1> SUFFICES ASSUME TypeOK, RowsInv, CounterInv, [Next]_vars PROVE CounterInv'
  OBVIOUS
<1> USE DEF dbVars
<1>1. ASSUME NEW r \in Requests, NEW c \in Callers, NEW o \in Orders,
             NEW s \in ClientStatuses, Begin(r, c, o, s)
      PROVE  CounterInv'
  <2>1. \A q \in Requests \ {r} :
          pc'[q] = pc[q] /\ num'[q] = num[q] /\ seen'[q] = seen[q]
    BY <1>1, OthersUnchanged
  <2>2. pc'[r] = "loaded" /\ rows' = rows /\ counter' = counter /\ year' = year
    BY <1>1 DEF Begin, Goto, TypeOK
  <2>3. QED
    BY <2>1, <2>2, CounterKept DEF InvoicingSteps
<1>2. ASSUME NEW r \in Requests, Handle(r)
      PROVE  CounterInv'
  <2>1. \A q \in Requests \ {r} :
          pc'[q] = pc[q] /\ num'[q] = num[q] /\ seen'[q] = seen[q]
    BY <1>2, OthersUnchanged
  <2>2. CASE FlushStatus(r) \/ SkipInvoice(r) \/ AdminAutoSubmit(r) \/ DuplicateNumber(r)
    <3>1. /\ rows' = rows /\ counter' = counter /\ year' = year
          /\ pc'[r] \notin InvoicingSteps
      BY <2>2 DEF FlushStatus, SkipInvoice, AdminAutoSubmit, DuplicateNumber, Finish, Goto,
                  TypeOK, InvoicingSteps
    <3>2. QED
      BY <2>1, <3>1, CounterKept
  <2>3. CASE ReadSettings(r)
    <3>1. /\ rows' = rows /\ counter' = counter /\ year' = year
          /\ pc'[r] = "settings" /\ seen'[r] = counter
      BY <2>3 DEF ReadSettings, Goto, TypeOK
    <3>2. QED
      BY <2>1, <3>1, CounterKept
  <2>4. CASE NextInvoiceNumber(r)
    <3>1. /\ rows' = rows /\ counter' = counter /\ year' = year
          /\ pc[r] = "settings" /\ pc[r] \in InvoicingSteps /\ seen' = seen
          /\ num'[r] = [year |-> year,
                        seq  |-> IF seen[r].year # year THEN 1 ELSE seen[r].seq + 1]
      BY <2>4 DEF NextInvoiceNumber, Goto, TypeOK, InvoicingSteps
    <3>2. num'[r] = [year |-> year, seq |-> seen[r].seq + 1]
      BY <3>1, YearAssumption DEF CounterInv
    <3>3. QED
      BY <2>1, <3>1, <3>2, CounterKept
  <2>5. CASE ReserveNumber(r) \/ InsertSubmission(r) \/ NavAccept(r) \/ NavFail(r)
    <3>1. /\ rows' = rows /\ counter' = counter /\ year' = year
          /\ pc[r] \in InvoicingSteps \ {"settings"} /\ seen' = seen /\ num' = num
      BY <2>5 DEF ReserveNumber, InsertSubmission, NavAccept, NavFail, InvoicingSteps
    <3>2. num[r] = [year |-> year, seq |-> seen[r].seq + 1]
      BY <3>1 DEF CounterInv
    <3>3. QED
      BY <2>1, <3>1, <3>2, CounterKept
  <2>6. CASE RecordSubmitted(r)
    <3>1. /\ rows' = rows \cup {NewRow(r, TRUE)} /\ counter' = UpdatedCounter(r)
          /\ year' = year /\ pc'[r] = "idle" /\ WroteRow(r)
      BY <2>6 DEF RecordSubmitted, CommitWrites, WroteRow, WroteCounter, Finish, Goto, TypeOK
    <3>2. QED
      BY <2>1, <3>1, CounterMoves
  <2>7. CASE Commit(r)
    <3>1. year' = year /\ pc'[r] = "idle"
      BY <2>7 DEF Commit, CommitWrites, Finish, Goto, TypeOK
    <3>2. CASE pc[r] = "swallowed"
      <4>1. /\ rows' = rows \cup {NewRow(r, FALSE)} /\ counter' = UpdatedCounter(r)
            /\ WroteRow(r)
        BY <2>7, <3>2 DEF Commit, CommitWrites, WroteRow, WroteCounter
      <4>2. QED
        BY <2>1, <3>1, <4>1, CounterMoves
    <3>3. CASE pc[r] = "done"
      <4>1. rows' = rows /\ counter' = counter
        BY <2>7, <3>3 DEF Commit, CommitWrites, WroteRow, WroteCounter
      <4>2. QED
        BY <2>1, <3>1, <4>1, CounterKept DEF InvoicingSteps
    <3>4. QED
      BY <2>7, <3>2, <3>3 DEF Commit
  <2>8. QED
    BY <1>2, <2>2, <2>3, <2>4, <2>5, <2>6, <2>7 DEF Handle
<1>3. ASSUME NEW r \in Requests, Crash(r)
      PROVE  CounterInv'
  <2>1. \A q \in Requests \ {r} :
          pc'[q] = pc[q] /\ num'[q] = num[q] /\ seen'[q] = seen[q]
    BY <1>3, OthersUnchanged
  <2>2. pc'[r] = "idle" /\ rows' = rows /\ counter' = counter /\ year' = year
    BY <1>3 DEF Crash, Finish, Goto, TypeOK
  <2>3. QED
    BY <2>1, <2>2, CounterKept DEF InvoicingSteps
<1>4. CASE SaveNavSettings \/ UNCHANGED vars
  BY <1>4 DEF SaveNavSettings, vars, reqVars, CounterInv, GaplessNumbers
<1>5. CASE NewYear
  BY <1>5, YearAssumption DEF NewYear, TypeOK
<1>6. QED
  BY <1>1, <1>2, <1>3, <1>4, <1>5 DEF Next

\* Within one calendar year the invoices are numbered without a gap, although the
\* counter is read long before it is written and failed requests give numbers back.
THEOREM InvoiceNumbersHaveNoGaps ==
    ASSUME FirstYear = LastYear
    PROVE  Spec => []GaplessNumbers
<1>1. Init => TypeOK /\ RowsInv /\ CounterInv
  BY InitType, RowsInit, CounterInit
<1>2. TypeOK /\ RowsInv /\ CounterInv /\ [Next]_vars => (TypeOK /\ RowsInv /\ CounterInv)'
  BY NextType, RowsNext, CounterNext
<1>3. CounterInv => GaplessNumbers
  BY DEF CounterInv
<1>4. QED
  BY <1>1, <1>2, <1>3, PTL DEF Spec

-----------------------------------------------------------------------------
(***************************************************************************)
(* Within one calendar year, OrderInvoicing implements InvoiceJournal.     *)
(***************************************************************************)

\* Under each number used there is exactly one row.
OneRowPerNumber ==
    \A i \in 1 .. counter.seq :
        /\ RowNumbered(i) \in rows
        /\ RowNumbered(i).number.seq = i
        /\ \A x \in rows : x.number.seq = i => x = RowNumbered(i)

\* That follows from the numbers being unique and gapless.
LEMMA RowUnderNumber == TypeOK /\ RowsInv /\ CounterInv => OneRowPerNumber
<1> SUFFICES ASSUME TypeOK, RowsInv, CounterInv, NEW i \in 1 .. counter.seq
             PROVE  /\ RowNumbered(i) \in rows
                    /\ RowNumbered(i).number.seq = i
                    /\ \A x \in rows : x.number.seq = i => x = RowNumbered(i)
  BY DEF OneRowPerNumber
<1>1. \E x \in rows : x.number.seq = i
  BY DEF CounterInv, GaplessNumbers
<1>2. RowNumbered(i) \in rows /\ RowNumbered(i).number.seq = i
  BY <1>1 DEF RowNumbered
<1>3. ASSUME NEW x \in rows, x.number.seq = i
      PROVE  x = RowNumbered(i)
  <2>1. /\ x.number \in Number /\ RowNumbered(i).number \in Number
        /\ x.number.year = year /\ RowNumbered(i).number.year = year
    BY <1>2 DEF TypeOK, Row, CounterInv
  <2>2. x.number = RowNumbered(i).number
    BY <1>2, <1>3, <2>1 DEF Number
  <2>3. QED
    BY <1>2, <2>2 DEF RowsInv, NumbersUnique
<1>4. QED
  BY <1>2, <1>3

\* The journal is empty at the start.
LEMMA JournalInit == Init => Journal!Init
<1> SUFFICES ASSUME Init PROVE Journal!Init
  OBVIOUS
<1>1. counter.seq = 0
  BY DEF Init, NoNumber
<1>2. JournalOf = [i \in 1 .. 0 |-> {}]
  <2>1. DOMAIN JournalOf = 1 .. 0 /\ 1 .. 0 = {}
    BY <1>1 DEF JournalOf
  <2>2. QED
    BY <1>1 DEF JournalOf
<1>3. QED
  BY <1>1, <1>2 DEF Journal!Init

\* A step that leaves the rows and the counter alone leaves the journal alone.
LEMMA JournalKept ==
    ASSUME rows' = rows, counter' = counter
    PROVE  UNCHANGED <<counter.seq, JournalOf>>
BY DEF JournalOf, RowNumbered

\* The commit of a row appends it to the journal.
LEMMA JournalGrows ==
    ASSUME TypeOK, RowsInv, CounterInv, OneRowPerNumber, OneRowPerNumber',
           NEW r \in Requests, NEW b \in BOOLEAN, WroteRow(r),
           rows' = rows \cup {NewRow(r, b)}, counter' = UpdatedCounter(r)
    PROVE  Journal!Issue(job[r].order, b)
<1>0. counter.seq \in Nat
  BY DEF TypeOK, Number
<1>n. PICK n \in Nat : n = counter.seq
  BY <1>0
<1>o. PICK o : o = job[r].order
  OBVIOUS
<1>1. /\ num[r] = [year |-> year, seq |-> n + 1]
      /\ counter' = num[r]
      /\ counter'.seq = n + 1
  BY <1>n, NumberIsNext DEF TypeOK, Number
<1>2. ~HasRow(job[r].order)
  BY DEF RowsInv, FindingsStayTrue, WroteRow, InvoicingSteps
<1>3. \A i \in 1 .. n : JournalOf[i].order # o
  BY <1>n, <1>o, <1>2 DEF OneRowPerNumber, JournalOf, HasRow
<1>4. ASSUME NEW i \in 1 .. n PROVE RowNumbered(i)' = RowNumbered(i)
  <2>1. RowNumbered(i) \in rows' /\ RowNumbered(i).number.seq = i
    BY <1>n DEF OneRowPerNumber
  <2>2. i \in 1 .. counter'.seq
    BY <1>1
  <2>3. QED
    BY <2>1, <2>2 DEF OneRowPerNumber
<1>5. ASSUME NEW i, i = n + 1 PROVE RowNumbered(i)' = NewRow(r, b)
  <2>1. NewRow(r, b) \in rows' /\ NewRow(r, b).number.seq = i
    BY <1>1, <1>5 DEF NewRow
  <2>2. i \in 1 .. counter'.seq
    BY <1>1, <1>5
  <2>3. QED
    BY <2>1, <2>2 DEF OneRowPerNumber
<1>6. JournalOf' = [i \in 1 .. n + 1 |->
                      IF i <= n THEN JournalOf[i] ELSE [order |-> o, submitted |-> b]]
  <2>1. JournalOf' = [i \in 1 .. n + 1 |->
           [order |-> RowNumbered(i)'.order, submitted |-> RowNumbered(i)'.submitted]]
    BY <1>1 DEF JournalOf
  <2>2. ASSUME NEW i \in 1 .. n + 1
        PROVE  [order |-> RowNumbered(i)'.order, submitted |-> RowNumbered(i)'.submitted]
                = IF i <= n THEN JournalOf[i] ELSE [order |-> o, submitted |-> b]
    <3>1. CASE i <= n
      <4>1. JournalOf[i] = [order |-> RowNumbered(i).order,
                            submitted |-> RowNumbered(i).submitted]
        BY <1>n, <3>1 DEF JournalOf
      <4>2. RowNumbered(i)' = RowNumbered(i)
        BY <1>4, <3>1
      <4>3. QED
        BY <3>1, <4>1, <4>2
    <3>2. CASE ~(i <= n)
      <4>1. i = n + 1
        BY <3>2
      <4>2. NewRow(r, b).order = o /\ NewRow(r, b).submitted = b
        BY <1>o DEF NewRow
      <4>3. RowNumbered(i)' = NewRow(r, b)
        BY <1>5, <4>1
      <4>4. QED
        BY <3>2, <4>2, <4>3
    <3>3. QED
      BY <3>1, <3>2
  <2>3. QED
    BY <2>1, <2>2
<1>7. QED
  BY <1>n, <1>o, <1>1, <1>3, <1>6 DEF Journal!Issue

\* Every step leaves the journal alone or appends one invoice to it.
LEMMA JournalNext ==
    TypeOK /\ RowsInv /\ CounterInv /\ OneRowPerNumber /\ OneRowPerNumber' /\ [Next]_vars
      => [Journal!Next]_<<counter.seq, JournalOf>>
<1> SUFFICES ASSUME TypeOK, RowsInv, CounterInv, OneRowPerNumber, OneRowPerNumber', [Next]_vars
             PROVE  Journal!Next \/ UNCHANGED <<counter.seq, JournalOf>>
  OBVIOUS
<1> USE DEF dbVars
<1>1. ASSUME NEW r \in Requests, Handle(r)
      PROVE  Journal!Next \/ UNCHANGED <<counter.seq, JournalOf>>
  <2>1. CASE \/ FlushStatus(r) \/ SkipInvoice(r) \/ ReadSettings(r) \/ AdminAutoSubmit(r)
             \/ NextInvoiceNumber(r) \/ ReserveNumber(r) \/ InsertSubmission(r)
             \/ DuplicateNumber(r) \/ NavAccept(r) \/ NavFail(r)
    <3>1. rows' = rows /\ counter' = counter
      BY <2>1 DEF FlushStatus, SkipInvoice, ReadSettings, AdminAutoSubmit, NextInvoiceNumber,
                  ReserveNumber, InsertSubmission, DuplicateNumber, NavAccept, NavFail
    <3>2. QED
      BY <3>1, JournalKept
  <2>2. ASSUME NEW b \in BOOLEAN, CommitWrites(r, b), WroteRow(r)
        PROVE  Journal!Next
    <3>1. rows' = rows \cup {NewRow(r, b)} /\ counter' = UpdatedCounter(r)
      BY <2>2 DEF CommitWrites, WroteCounter
    <3>2. Journal!Issue(job[r].order, b)
      BY <2>2, <3>1, JournalGrows
    <3>3. job[r].order \in Orders
      BY <2>2 DEF TypeOK, WroteRow
    <3>4. QED
      BY <3>2, <3>3 DEF Journal!Next
  <2>3. CASE RecordSubmitted(r)
    BY <2>2, <2>3 DEF RecordSubmitted, WroteRow
  <2>4. CASE Commit(r) /\ pc[r] = "swallowed"
    BY <2>2, <2>4 DEF Commit, WroteRow
  <2>5. CASE Commit(r) /\ pc[r] = "done"
    <3>1. rows' = rows /\ counter' = counter
      BY <2>5 DEF Commit, CommitWrites, WroteRow, WroteCounter
    <3>2. QED
      BY <3>1, JournalKept
  <2>6. QED
    BY <1>1, <2>1, <2>3, <2>4, <2>5 DEF Handle, Commit
<1>2. CASE \/ \E r \in Requests, c \in Callers, o \in Orders, s \in ClientStatuses : Begin(r, c, o, s)
           \/ \E r \in Requests : Crash(r)
           \/ SaveNavSettings
           \/ NewYear
           \/ UNCHANGED vars
  <2>1. rows' = rows /\ counter' = counter
    BY <1>2 DEF Begin, Crash, SaveNavSettings, NewYear, vars
  <2>2. QED
    BY <2>1, JournalKept
<1>3. QED
  BY <1>1, <1>2 DEF Next

\* Within one calendar year the status handlers implement the invoice journal:
\* whatever the interleaving, the crashes and NAV's answers, each step leaves it
\* alone or appends the invoice of an order that had none under the next number.
THEOREM ImplementsInvoiceJournal ==
    ASSUME FirstYear = LastYear
    PROVE  Spec => ImplementsJournal
<1>1. Init => TypeOK /\ RowsInv /\ CounterInv
  BY InitType, RowsInit, CounterInit
<1>2. TypeOK /\ RowsInv /\ CounterInv /\ [Next]_vars => (TypeOK /\ RowsInv /\ CounterInv)'
  BY NextType, RowsNext, CounterNext
<1>3. QED
  BY <1>1, <1>2, RowUnderNumber, JournalInit, JournalNext, PTL
  DEF Spec, ImplementsJournal, Journal!Spec

=============================================================================
