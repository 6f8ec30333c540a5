---------------------------- MODULE OrderMonitor ----------------------------
(***************************************************************************)
(* The display for customers and the numbers it shows.  A timer starts a   *)
(* Poller thread, which asks the backend for the queue, the completed      *)
(* orders and the settings in three requests one after the other, and the  *)
(* window draws what it gets.  A queue number is drawn from a sequence     *)
(* that cycles, inside the transaction that inserts the order.             *)
(***************************************************************************)
EXTENDS Naturals, Sequences, FiniteSets, SequencesExt

CONSTANTS
    MaxOrders,  \* bound: orders inserted
    MaxCycles,  \* bound: cycles of the sequence after which no insert is rolled back
    MaxNumber,  \* MAXVALUE of order_queue_seq, 9999 in the code
    Limit,      \* the limit of get_completed, 20 in the code
    Chain,      \* the statuses get_queue asks for, in their order
    MaxBack,    \* bound: orders cancelled or reopened, each once
    MaxTouches  \* bound: other updates of completed orders

Orders == 1 .. MaxOrders
Active == {Chain[i] : i \in DOMAIN Chain}

ASSUME NumberAssumption == MaxNumber \in Nat \ {0}
ASSUME BoundAssumption ==
    MaxOrders \in Nat /\ MaxCycles \in Nat /\ Limit \in Nat /\ MaxBack \in Nat /\ MaxTouches \in Nat
ASSUME ChainAssumption ==
    Chain \in Seq({"pending", "confirmed", "preparing", "ready"}) /\ Chain # <<>>

VARIABLES
    \* the database
    status,    \* orders.status; "none" before the insert, "open" until it commits
    number,    \* orders.queue_number
    era,       \* history: how often the sequence had cycled when it was drawn
    drawn,     \* numbers drawn so far
    seq,       \* order_queue_seq: the next number, and how often it has cycled
    finished,  \* the completed orders, by updated_at
    back,      \* the orders ever cancelled or reopened
    touches,   \* number of other updates so far
    \* the monitor
    alive,     \* the process has not been aborted
    poll,      \* the state of the thread in self.poller
    seen,      \* what it has been sent
    orphaned,  \* a thread replaced in self.poller is still running
    screen     \* what the window shows

dbVars      == <<status, number, era, drawn, seq, finished, back, touches>>
monitorVars == <<alive, poll, seen, orphaned, screen>>
vars == <<dbVars, monitorVars>>

Statuses == {"none", "open", "completed", "cancelled"} \cup Active

PollStates == {
    "idle",      \* not started, or over                  next: Tick
    "queue",     \* waiting for GET /queue                next: ReadQueue, PollFails
    "completed", \* waiting for GET /completed            next: ReadCompleted, PollFails
    "settings",  \* waiting for GET /settings             next: ReadSettings, PollFails
    "answered",  \* run() is over, data_ready emitted     next: OnData
    "failed"}    \* run() is over, error emitted          next: OnError

\* The tiles with their status, the completed column, and the orders there were.
Picture == [tiles : [Orders -> Active \cup {"none"}], done : SUBSET Orders, known : SUBSET Orders]
Nothing == [tiles |-> [o \in Orders |-> "none"], done |-> {}, known |-> {}]

TypeOK ==
    /\ status \in [Orders -> Statuses]
    /\ drawn \in 0 .. MaxOrders
    /\ \A o \in Orders : status[o] = "none" <=> o > drawn
    /\ number \in [Orders -> 0 .. MaxNumber]
    /\ \A o \in 1 .. drawn : number[o] # 0
    /\ era \in [Orders -> 0 .. MaxCycles + MaxOrders]
    /\ seq \in [next : 1 .. MaxNumber, cycles : 0 .. MaxCycles + MaxOrders]
    /\ finished \in Seq(Orders)
    /\ {finished[i] : i \in DOMAIN finished} = {o \in Orders : status[o] = "completed"}
    /\ Len(finished) = Cardinality({o \in Orders : status[o] = "completed"})
    /\ back \subseteq Orders /\ Cardinality(back) <= MaxBack
    /\ touches \in 0 .. MaxTouches
    /\ alive \in BOOLEAN
    /\ poll \in PollStates
    /\ seen \in Picture
    /\ orphaned \in BOOLEAN
    /\ screen \in Picture

Init ==
    /\ status = [o \in Orders |-> "none"]
    /\ number = [o \in Orders |-> 0]
    /\ era = [o \in Orders |-> 0]
    /\ drawn = 0
    /\ seq = [next |-> 1, cycles |-> 0]
    /\ finished = <<>> /\ back = {} /\ touches = 0
    /\ alive = TRUE
    /\ poll = "idle"
    /\ seen = Nothing
    /\ orphaned = FALSE
    /\ screen = Nothing

-----------------------------------------------------------------------------
(***************************************************************************)
(* Orders.                                                                 *)
(***************************************************************************)
InTable(o) == status[o] \notin {"none", "open"}

Without(o) == RemoveAt(finished, CHOOSE i \in DOMAIN finished : finished[i] = o)

SetStatus(o, s) == status' = [status EXCEPT ![o] = s]

\* nextval('order_queue_seq')
StepSequence ==
    seq' = IF seq.next = MaxNumber THEN [next |-> 1, cycles |-> seq.cycles + 1]
                                   ELSE [seq EXCEPT !.next = @ + 1]

\* Fault: the number after that of the latest committed order.
NextAfterLatest(o) ==
    LET table == {p \in Orders : InTable(p)}
        latest == CHOOSE p \in table : \A q \in table : q <= p
        last == IF table = {} THEN 0 ELSE number[latest]
    IN  /\ number' = [number EXCEPT ![o] = 1 + (last % MaxNumber)]
        /\ era' = [era EXCEPT ![o] = seq.cycles]
        /\ seq' = [seq EXCEPT !.cycles = @ + (IF last = MaxNumber THEN 1 ELSE 0)]

NextVal(o) ==
    /\ number' = [number EXCEPT ![o] = seq.next]
    /\ era' = [era EXCEPT ![o] = seq.cycles]
    /\ StepSequence

\* A kiosk's or a platform's order is inserted, several perhaps at a time.
Insert(o) ==
    /\ o = drawn + 1
    /\ drawn' = o
    /\ SetStatus(o, "open")
    /\ NextVal(o)
    /\ UNCHANGED <<finished, back, touches, monitorVars>>

CommitInsert(o) ==
    /\ status[o] = "open"
    /\ SetStatus(o, Chain[1])
    /\ UNCHANGED <<number, era, drawn, seq, finished, back, touches, monitorVars>>

\* The transaction of an insert is rolled back: its number is used up all the same.
LoseInsert ==
    /\ seq.cycles < MaxCycles
    /\ StepSequence
    /\ UNCHANGED <<status, number, era, drawn, finished, back, touches, monitorVars>>

\* Some machine moves an order to the next status ...
Advance(o) ==
    /\ \E i \in 1 .. Len(Chain) - 1 : status[o] = Chain[i] /\ SetStatus(o, Chain[i + 1])
    /\ UNCHANGED <<number, era, drawn, seq, finished, back, touches, monitorVars>>

\* ... or the admin page completes it.
Complete(o) ==
    /\ status[o] \in Active
    /\ SetStatus(o, "completed")
    /\ finished' = Append(finished, o)
    /\ UNCHANGED <<number, era, drawn, seq, back, touches, monitorVars>>

\* It is cancelled, or given an earlier status again.
TakeBack(o, s) ==
    /\ InTable(o)
    /\ o \notin back /\ Cardinality(back) < MaxBack
    /\ s \in {Chain[1], "cancelled"} \ {status[o]}
    /\ SetStatus(o, s)
    /\ finished' = IF status[o] = "completed" THEN Without(o) ELSE finished
    /\ back' = back \cup {o}
    /\ UNCHANGED <<number, era, drawn, seq, touches, monitorVars>>

\* Any other update of the row, a payment say, makes its updated_at the latest.
Touch(o) ==
    /\ status[o] = "completed"
    /\ touches < MaxTouches
    /\ touches' = touches + 1
    /\ finished' = Append(Without(o), o)
    /\ UNCHANGED <<status, number, era, drawn, seq, back, monitorVars>>

-----------------------------------------------------------------------------
(***************************************************************************)
(* Polling.                                                                *)
(***************************************************************************)

\* get_queue
Tiles == [o \in Orders |-> IF status[o] \in Active THEN status[o] ELSE "none"]

\* get_completed: the ones updated last.
Done == {finished[i] : i \in {j \in DOMAIN finished : j + Limit > Len(finished)}}

Waiting == poll \in {"queue", "completed", "settings"}

\* _poll: a new thread replaces self.poller, also when it is still waiting.  Posted
\* signals are handled before timers.
Tick ==
    /\ alive
    /\ poll \notin {"answered", "failed"}
    /\ poll' = "queue"
    /\ seen' = Nothing
    /\ orphaned' = (orphaned \/ Waiting)
    /\ UNCHANGED <<dbVars, alive, screen>>

\* A replaced thread is destroyed at the end of its run(), before Qt takes it for
\* finished, and Qt aborts the process.  Should its signal be handled just before, it
\* makes no difference any more.
Destroyed ==
    /\ alive /\ orphaned
    /\ alive' = FALSE
    /\ UNCHANGED <<dbVars, poll, seen, orphaned, screen>>

ReadQueue ==
    /\ alive /\ poll = "queue"
    /\ poll' = "completed"
    /\ seen' = [seen EXCEPT !.tiles = Tiles, !.known = {o \in Orders : InTable(o)}]
    /\ UNCHANGED <<dbVars, alive, orphaned, screen>>

ReadCompleted ==
    /\ alive /\ poll = "completed"
    /\ poll' = "settings"
    /\ seen' = [seen EXCEPT !.done = Done]
    /\ UNCHANGED <<dbVars, alive, orphaned, screen>>

\* The restaurant's name; run() ends with the signal.
ReadSettings ==
    /\ alive /\ poll = "settings"
    /\ poll' = "answered"
    /\ UNCHANGED <<dbVars, alive, seen, orphaned, screen>>

\* None of the backends answers one of the requests.
PollFails ==
    /\ alive /\ Waiting
    /\ poll' = "failed"
    /\ UNCHANGED <<dbVars, alive, seen, orphaned, screen>>

EndPoll == poll' = "idle" /\ seen' = Nothing

\* Both columns are drawn anew.
OnData ==
    /\ alive /\ poll = "answered"
    /\ screen' = seen
    /\ EndPoll
    /\ UNCHANGED <<dbVars, alive, orphaned>>

\* Fault: after an error the timer is not started again.
OnErrorStopping ==
    /\ alive /\ poll = "failed"
    /\ UNCHANGED <<dbVars, monitorVars>>

\* The columns stay as they are.
OnError ==
    /\ alive /\ poll = "failed"
    /\ EndPoll
    /\ UNCHANGED <<dbVars, alive, orphaned, screen>>

-----------------------------------------------------------------------------
OrderStep(o) ==
    \/ Insert(o)
    \/ CommitInsert(o)
    \/ Advance(o)
    \/ Complete(o)
    \/ \E s \in Statuses : TakeBack(o, s)
    \/ Touch(o)

\* Fault: the completed orders are asked for first ...
ReadCompletedFirst ==
    /\ alive /\ poll = "queue"
    /\ poll' = "completed"
    /\ seen' = [seen EXCEPT !.done = Done, !.known = {o \in Orders : InTable(o)}]
    /\ UNCHANGED <<dbVars, alive, orphaned, screen>>

\* ... and then the queue.
ReadQueueSecond ==
    /\ alive /\ poll = "completed"
    /\ poll' = "settings"
    /\ seen' = [seen EXCEPT !.tiles = Tiles]
    /\ UNCHANGED <<dbVars, alive, orphaned, screen>>

PollStepReversed ==
    \/ ReadCompletedFirst
    \/ ReadQueueSecond
    \/ ReadSettings
    \/ PollFails

\* Poller.run: the requests in their order.
PollStep ==
    \/ ReadQueue
    \/ ReadCompleted
    \/ ReadSettings
    \/ PollFails

Signal ==
    \/ OnData
    \/ OnError

\* Bound: once the process is aborted there is nothing more to see.
Next ==
    \/ alive /\ (LoseInsert \/ \E o \in Orders : OrderStep(o))
    \/ Tick
    \/ PollStep
    \/ Signal
    \/ Destroyed

Spec == Init /\ [][Next]_vars

\* The timer ticks, signals are delivered, and a request ends with its timeout; again
\* and again each kind of request is answered.
Fairness ==
    /\ WF_vars(Tick)
    /\ WF_vars(PollStep)
    /\ WF_vars(Signal)
    /\ WF_vars(Destroyed)
    /\ SF_vars(ReadQueue)
    /\ SF_vars(ReadCompleted)
    /\ SF_vars(ReadSettings)

FairSpec == Spec /\ Fairness

-----------------------------------------------------------------------------
(***************************************************************************)
(* Properties.                                                             *)
(***************************************************************************)
Shown == {o \in Orders : screen.tiles[o] # "none"} \cup screen.done

\* An order that only moves forward, though it may do so between the requests of one
\* poll, is in one of the columns; it is missing only when the completed one is full.
NoneVanishes ==
    \A o \in screen.known \ back : o \in Shown \/ Cardinality(screen.done) = Limit

\* Two orders on the screen have different numbers, the smaller one drawn earlier,
\* unless the sequence has cycled between them: also with inserts that overlap, commit
\* out of turn or are rolled back.
NumbersTellApart ==
    \A o, p \in Shown : o < p => number[o] < number[p] \/ era[o] < era[p]

\* When the orders stop changing, the display comes to show the queue and the latest
\* completed orders, and stays that way, unless the process is aborted because a poll
\* has outlasted the timer's interval.
BoardConverges ==
    <>[](~alive \/ (screen.tiles = Tiles /\ screen.done = Done))

=============================================================================
