--------------------------- MODULE DeliveryIntake ---------------------------
(***************************************************************************)
(* POST /webhooks/{platform}: the orders of one delivery platform come in. *)
(* The platform calls again until an answer with HTTP 200 reaches it, also *)
(* while an earlier call for the same order is still being handled by one  *)
(* of the backends.  A call keeps its database session open from end to    *)
(* end, but commits the order before it prints the kitchen ticket.         *)
(***************************************************************************)
EXTENDS Naturals, FiniteSets

CONSTANTS
    Calls,         \* slots for webhook calls being handled, over both backends
    PlatformOrders,\* orders placed on the platform
    NoOrder,       \* the order of an idle slot
    Identified,    \* those whose payload carries the platform's order id
    Unverifiable,  \* those whose signature is missing or does not verify
    Unparsable,    \* those whose body is not JSON
    Unknown,       \* those the adapter of the platform cannot read
    Oversized,     \* those with a text too long for its column
    MaxRows,       \* bound: rows of one order without an id
    MaxCrashes     \* bound: worker processes or DB connections lost

ASSUME OrderAssumption ==
    /\ NoOrder \notin PlatformOrders
    /\ Identified \subseteq PlatformOrders
ASSUME CallAssumption == IsFiniteSet(Calls)
ASSUME BoundAssumption == MaxRows \in Nat /\ MaxCrashes \in Nat

VARIABLES
    integration, \* delivery_integrations: enabled, and whether a secret is set
    stored,      \* committed rows of table orders for each order
    tickets,     \* kitchen tickets printed for each order
    missed,      \* history: rows for which no ticket was printed
    pc,          \* the step each call has reached
    target,      \* the order it delivers
    reply,       \* the answer it is about to give
    answers,     \* the answers the platform has received for each order
    crashes      \* number of crashes so far

dbVars   == <<integration, stored>>
callVars == <<pc, target, reply>>
vars     == <<dbVars, tickets, missed, callVars, answers, crashes>>

Integration == [enabled : BOOLEAN, secret : BOOLEAN]

Accepting == {"ok", "duplicate"}
Http200   == Accepting \cup {"ignored", "error"}
Refusals  == {"unauthorized", "bad_request", "failed"}
Answers   == Http200 \cup Refusals

Steps == {
    "idle",      \* no call                             next: Deliver
    "admitted",  \* order normalised                    next: InsertOrder, Duplicate, Fail
    "inserted",  \* order row written, not committed    next: StoreOrder, Fail
    "stored",    \* committed                           next: PrintTicket, MissTicket
    "answering"} \* reply determined                    next: Reply, LoseReply

TypeOK ==
    /\ integration \in Integration
    /\ stored \in [PlatformOrders -> Nat]
    /\ tickets \in [PlatformOrders -> Nat]
    /\ missed \in [PlatformOrders -> Nat]
    /\ pc \in [Calls -> Steps]
    /\ target \in [Calls -> PlatformOrders \cup {NoOrder}]
    /\ reply \in [Calls -> Answers]
    /\ \A c \in Calls : pc[c] # "idle" => target[c] \in PlatformOrders
    /\ answers \in [PlatformOrders -> SUBSET Answers]
    /\ crashes \in 0 .. MaxCrashes

Init ==
    /\ integration \in Integration
    /\ stored = [o \in PlatformOrders |-> 0]
    /\ tickets = [o \in PlatformOrders |-> 0]
    /\ missed = [o \in PlatformOrders |-> 0]
    /\ pc = [c \in Calls |-> "idle"]
    /\ target = [c \in Calls |-> NoOrder]
    /\ reply = [c \in Calls |-> "ok"]
    /\ answers = [o \in PlatformOrders |-> {}]
    /\ crashes = 0

-----------------------------------------------------------------------------
Goto(c, step) == pc' = [pc EXCEPT ![c] = step]

\* The call is over, whether or not its answer arrives.
Finish(c) ==
    /\ Goto(c, "idle")
    /\ target' = [target EXCEPT ![c] = NoOrder]
    /\ reply' = [reply EXCEPT ![c] = "ok"]

Answer(c, a) ==
    /\ Goto(c, "answering")
    /\ reply' = [reply EXCEPT ![c] = a]

\* The calls that have got as far as step with order o.
CallsAt(step, o) == {c \in Calls : pc[c] = step /\ target[c] = o}

\* A row inserted under the same key by a transaction that is still open.
KeyInDoubt(o) == o \in Identified /\ CallsAt("inserted", o) # {}

KeyTaken(o) == o \in Identified /\ stored[o] > 0

-----------------------------------------------------------------------------
\* The platform calls, unless it has been answered with HTTP 200 before.
Arrive(c, o) ==
    /\ pc[c] = "idle"
    /\ answers[o] \cap Http200 = {}
    /\ o \in Identified \/ stored[o] + Cardinality({d \in Calls : target[d] = o}) < MaxRows
    /\ target' = [target EXCEPT ![c] = o]

\* The handler loads the integration, and checks the call against it before it
\* touches the database again.
Ignore(c, o) ==
    /\ Arrive(c, o)
    /\ ~integration.enabled
    /\ Answer(c, "ignored")
    /\ UNCHANGED <<dbVars, tickets, missed, answers, crashes>>

SignatureAccepted(o) == integration.secret => o \notin Unverifiable

RefuseSignature(c, o) ==
    /\ Arrive(c, o)
    /\ integration.enabled
    /\ ~SignatureAccepted(o)
    /\ Answer(c, "unauthorized")
    /\ UNCHANGED <<dbVars, tickets, missed, answers, crashes>>

RefuseBody(c, o) ==
    /\ Arrive(c, o)
    /\ integration.enabled /\ SignatureAccepted(o)
    /\ o \in Unparsable
    /\ Answer(c, "bad_request")
    /\ UNCHANGED <<dbVars, tickets, missed, answers, crashes>>

RefusePayload(c, o) ==
    /\ Arrive(c, o)
    /\ integration.enabled /\ SignatureAccepted(o)
    /\ o \in Unknown \ Unparsable
    /\ Answer(c, "error")
    /\ UNCHANGED <<dbVars, tickets, missed, answers, crashes>>

Admit(c, o) ==
    /\ Arrive(c, o)
    /\ integration.enabled /\ SignatureAccepted(o)
    /\ o \notin Unparsable \cup Unknown
    /\ Goto(c, "admitted")
    /\ UNCHANGED <<dbVars, tickets, missed, reply, answers, crashes>>

\* Fault: the key is not UNIQUE, an earlier row is looked for instead.
InsertOrderIfNotSeen(c) ==
    /\ pc[c] = "admitted"
    /\ ~KeyTaken(target[c])
    /\ Goto(c, "inserted")
    /\ UNCHANGED <<dbVars, tickets, missed, target, reply, answers, crashes>>

\* INSERT INTO orders: waits while an open transaction has inserted the key.
InsertOrder(c) ==
    /\ pc[c] = "admitted"
    /\ ~KeyInDoubt(target[c])
    /\ ~KeyTaken(target[c])
    /\ Goto(c, "inserted")
    /\ UNCHANGED <<dbVars, tickets, missed, target, reply, answers, crashes>>

\* Fault: an order that is being inserted already counts as a duplicate.
DuplicateInDoubt(c) ==
    /\ pc[c] = "admitted"
    /\ KeyInDoubt(target[c]) \/ KeyTaken(target[c])
    /\ Answer(c, "duplicate")
    /\ UNCHANGED <<target, dbVars, tickets, missed, answers, crashes>>

\* Fault: no early return, the ticket is printed for a duplicate too.
DuplicatePrinted(c) ==
    /\ pc[c] = "admitted"
    /\ ~KeyInDoubt(target[c])
    /\ KeyTaken(target[c])
    /\ Goto(c, "stored")
    /\ UNCHANGED <<dbVars, tickets, missed, target, reply, answers, crashes>>

\* Fault: IntegrityError is not caught.
DuplicateFails(c) ==
    /\ pc[c] = "admitted"
    /\ ~KeyInDoubt(target[c])
    /\ KeyTaken(target[c])
    /\ Answer(c, "failed")
    /\ UNCHANGED <<target, dbVars, tickets, missed, answers, crashes>>

\* UNIQUE (source, external_order_id) refuses the row: IntegrityError, ROLLBACK.
Duplicate(c) ==
    /\ pc[c] = "admitted"
    /\ ~KeyInDoubt(target[c])
    /\ KeyTaken(target[c])
    /\ Answer(c, "duplicate")
    /\ UNCHANGED <<target, dbVars, tickets, missed, answers, crashes>>

\* Any other database error, on the order row or on one of its lines, is not
\* caught: the session is rolled back and the call answered with HTTP 500.
Fail(c) ==
    /\ pc[c] \in {"admitted", "inserted"}
    /\ target[c] \in Oversized
    /\ Answer(c, "failed")
    /\ UNCHANGED <<target, dbVars, tickets, missed, answers, crashes>>

\* The lines are inserted and the transaction commits.
StoreOrder(c) ==
    /\ pc[c] = "inserted"
    /\ target[c] \notin Oversized
    /\ stored' = [stored EXCEPT ![target[c]] = @ + 1]
    /\ Goto(c, "stored")
    /\ UNCHANGED <<integration, tickets, missed, target, reply, answers, crashes>>

PrintTicket(c) ==
    /\ pc[c] = "stored"
    /\ tickets' = [tickets EXCEPT ![target[c]] = @ + 1]
    /\ Answer(c, "ok")
    /\ UNCHANGED <<target, dbVars, missed, answers, crashes>>

\* No kitchen printer is configured, or it cannot be reached: _send logs the error.
MissTicket(c) ==
    /\ pc[c] = "stored"
    /\ missed' = [missed EXCEPT ![target[c]] = @ + 1]
    /\ Answer(c, "ok")
    /\ UNCHANGED <<target, dbVars, tickets, answers, crashes>>

Reply(c) ==
    /\ pc[c] = "answering"
    /\ answers' = [answers EXCEPT ![target[c]] = @ \cup {reply[c]}]
    /\ Finish(c)
    /\ UNCHANGED <<dbVars, tickets, missed, crashes>>

\* The platform no longer listens: it has run into its timeout.
LoseReply(c) ==
    /\ pc[c] = "answering"
    /\ Finish(c)
    /\ UNCHANGED <<dbVars, tickets, missed, answers, crashes>>

\* Fault: the commit is not durable (synchronous_commit is off).
CrashLosingCommit(c) ==
    /\ pc[c] # "idle"
    /\ crashes < MaxCrashes
    /\ crashes' = crashes + 1
    /\ stored' = IF pc[c] = "stored" THEN [stored EXCEPT ![target[c]] = @ - 1] ELSE stored
    /\ Finish(c)
    /\ UNCHANGED <<integration, tickets, missed, answers>>

\* The worker or its database connection is lost: ROLLBACK of what is not
\* committed, and no ticket any more for what is.
Crash(c) ==
    /\ pc[c] # "idle"
    /\ crashes < MaxCrashes
    /\ crashes' = crashes + 1
    /\ missed' = IF pc[c] = "stored" THEN [missed EXCEPT ![target[c]] = @ + 1] ELSE missed
    /\ Finish(c)
    /\ UNCHANGED <<dbVars, tickets, answers>>

\* The admin saves the form of the integration.
SaveIntegration ==
    /\ integration' \in Integration
    /\ UNCHANGED <<stored, tickets, missed, callVars, answers, crashes>>

Deliver(c, o) ==
    \/ Ignore(c, o)
    \/ RefuseSignature(c, o)
    \/ RefuseBody(c, o)
    \/ RefusePayload(c, o)
    \/ Admit(c, o)

\* What a backend does for call c once it has been checked.
Handle(c) ==
    \/ InsertOrder(c)
    \/ Duplicate(c)
    \/ Fail(c)
    \/ StoreOrder(c)
    \/ PrintTicket(c)
    \/ MissTicket(c)
    \/ Reply(c)
    \/ LoseReply(c)

Next ==
    \/ \E c \in Calls, o \in PlatformOrders : Deliver(c, o)
    \/ \E c \in Calls : Handle(c)
    \/ \E c \in Calls : Crash(c)
    \/ SaveIntegration

Spec == Init /\ [][Next]_vars

\* A handler that can run does run; a backend has room for every caller some day;
\* and the platform, which keeps calling, hears an answer some day.
Fairness ==
    /\ \A c \in Calls : WF_vars(Handle(c))
    /\ \A o \in PlatformOrders : SF_vars(\E c \in Calls : Deliver(c, o))
    /\ \A o \in PlatformOrders : SF_vars(\E c \in Calls : target[c] = o /\ Reply(c))

FairSpec == Spec /\ Fairness

-----------------------------------------------------------------------------
(***************************************************************************)
(* Properties.                                                             *)
(***************************************************************************)

\* However often the platform delivers an order that has an id, and on however
\* many backends at once, at most one row of it is ever committed.
StoredOnce == \A o \in Identified : stored[o] <= 1

\* An order the platform believes accepted is in the database: "duplicate" is
\* answered only when the other call has committed, not while it may still fail.
AcceptedIsStored ==
    \A o \in PlatformOrders : answers[o] \cap Accepting # {} => stored[o] > 0

\* Every committed row has its kitchen ticket, printed once, unless its call was
\* lost before printing or the printer failed: no retry prints a second ticket,
\* and none is printed for an order that is not in the database.
TicketsAccounted ==
    \A o \in PlatformOrders :
        stored[o] = tickets[o] + missed[o] + Cardinality(CallsAt("stored", o))

\* The entrances of a platform's orders as a ledger.
OrderLedger == INSTANCE Ledger WITH
    Orders <- PlatformOrders, Keyed <- Identified, entries <- stored,
    told <- {o \in PlatformOrders : answers[o] \cap Accepting # {}}

\* Whatever is retried, overlaps, fails or is lost in a crash, every step leaves rows and
\* acceptances alone, or enters one order (with an id: for the first time), or tells the
\* platform of an order that is entered: no row and no acceptance is ever taken back.
ImplementsLedger == OrderLedger!Spec

\* An order the backend can read gets an answer that makes the platform stop
\* calling, for all the lost answers and calls waiting for each other.
ReadableOrdersAnswered ==
    \A o \in PlatformOrders \ (Unverifiable \cup Unparsable \cup Oversized) :
        <>(answers[o] \cap Http200 # {})

=============================================================================
