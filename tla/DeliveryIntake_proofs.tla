----------------------- MODULE DeliveryIntake_proofs ------------------------
(***************************************************************************)
(* Theorems about DeliveryIntake, for any number of overlapping calls,     *)
(* orders and crashes.                                                     *)
(***************************************************************************)
EXTENDS DeliveryIntake, FiniteSetTheorems, TLAPS

(***************************************************************************)
(* Type correctness.                                                       *)
(***************************************************************************)

\* The initial values are in their types.
LEMMA InitType == Init => TypeOK
BY BoundAssumption DEF Init, TypeOK, Steps, Answers, Http200, Accepting

\* Every step keeps every variable in its type.
LEMMA NextType == TypeOK /\ [Next]_vars => TypeOK'
<1> SUFFICES ASSUME TypeOK, [Next]_vars PROVE TypeOK'
  OBVIOUS
<1> USE DEF TypeOK, Goto, Answer, Finish, dbVars, callVars, Steps, Answers, Http200, Accepting,
            Refusals
<1>1. ASSUME NEW c \in Calls, NEW o \in PlatformOrders, Deliver(c, o) PROVE TypeOK'
  BY <1>1 DEF Deliver, Arrive, Ignore, RefuseSignature, RefuseBody, RefusePayload, Admit
<1>2. ASSUME NEW c \in Calls, InsertOrder(c) \/ Duplicate(c) \/ Fail(c) PROVE TypeOK'
  BY <1>2 DEF InsertOrder, Duplicate, Fail
<1>3. ASSUME NEW c \in Calls, StoreOrder(c) PROVE TypeOK'
  BY <1>3 DEF StoreOrder
<1>4. ASSUME NEW c \in Calls, PrintTicket(c) \/ MissTicket(c) PROVE TypeOK'
  BY <1>4 DEF PrintTicket, MissTicket
<1>5. ASSUME NEW c \in Calls, Reply(c) \/ LoseReply(c) PROVE TypeOK'
  BY <1>5 DEF Reply, LoseReply
<1>6. ASSUME NEW c \in Calls, Crash(c) PROVE TypeOK'
  BY <1>6, BoundAssumption DEF Crash
<1>7. CASE SaveIntegration
  BY <1>7 DEF SaveIntegration
<1>8. CASE UNCHANGED vars
  BY <1>8 DEF vars
<1> QED
  BY <1>1, <1>2, <1>3, <1>4, <1>5, <1>6, <1>7, <1>8 DEF Next, Handle

\* The variables keep their types; every call that is being handled has an order.
THEOREM DeliveryTypeCorrect == Spec => []TypeOK
<1> QED
  BY InitType, NextType, PTL DEF Spec

-----------------------------------------------------------------------------
(***************************************************************************)
(* One row for each order that has an id, and no acceptance without a row. *)
(***************************************************************************)

\* A call that has inserted an order with an id is alone in this, and before the commit:
\* the UNIQUE key makes every other one wait.
KeyHeld ==
    \A c \in Calls : pc[c] = "inserted" /\ target[c] \in Identified =>
        /\ stored[target[c]] = 0
        /\ \A d \in Calls : pc[d] = "inserted" /\ target[d] = target[c] => d = c

\* What a call is about to say of its order is so.
RepliesTrue ==
    \A c \in Calls :
        /\ pc[c] = "stored" => stored[target[c]] > 0
        /\ pc[c] = "answering" /\ reply[c] \in Accepting => stored[target[c]] > 0

RowsInv == TypeOK /\ KeyHeld /\ StoredOnce /\ RepliesTrue /\ AcceptedIsStored

\* There are no rows at first.
LEMMA InitRows == Init => RowsInv
<1> SUFFICES ASSUME Init PROVE RowsInv
  OBVIOUS
<1>1. TypeOK
  BY InitType
<1>2. KeyHeld /\ RepliesTrue
  BY DEF Init, KeyHeld, RepliesTrue
<1>3. StoredOnce /\ AcceptedIsStored
  BY OrderAssumption DEF Init, StoredOnce, AcceptedIsStored
<1> QED
  BY <1>1, <1>2, <1>3 DEF RowsInv

\* Every step preserves the invariant.
LEMMA NextRows == RowsInv /\ [Next]_vars => RowsInv'
<1> SUFFICES ASSUME RowsInv, [Next]_vars PROVE RowsInv'
  OBVIOUS
<1>1. TypeOK'
  BY NextType DEF RowsInv
<1> USE OrderAssumption
        DEF RowsInv, TypeOK, KeyHeld, StoredOnce, RepliesTrue, AcceptedIsStored, Goto, Answer,
            Finish, dbVars, callVars, Accepting
<1>2. ASSUME NEW c \in Calls, NEW o \in PlatformOrders, Deliver(c, o) PROVE RowsInv'
  BY <1>1, <1>2 DEF Deliver, Arrive, Ignore, RefuseSignature, RefuseBody, RefusePayload, Admit
<1>3. ASSUME NEW c \in Calls, InsertOrder(c) PROVE RowsInv'
  <2>1. target[c] \in Identified =>
           /\ stored[target[c]] = 0
           /\ \A d \in Calls : pc[d] = "inserted" => target[d] # target[c]
    BY <1>3 DEF InsertOrder, KeyInDoubt, KeyTaken, CallsAt
  <2> QED
    BY <1>1, <1>3, <2>1 DEF InsertOrder
<1>4. ASSUME NEW c \in Calls, Duplicate(c) PROVE RowsInv'
  BY <1>1, <1>4 DEF Duplicate, KeyTaken
<1>5. ASSUME NEW c \in Calls, Fail(c) PROVE RowsInv'
  BY <1>1, <1>5 DEF Fail
<1>6. ASSUME NEW c \in Calls, StoreOrder(c) PROVE RowsInv'
  <2>1. /\ stored' = [stored EXCEPT ![target[c]] = @ + 1]
        /\ target[c] \in PlatformOrders
        /\ \A o \in PlatformOrders : stored[o] > 0 => stored'[o] > 0
        /\ stored'[target[c]] > 0
    BY <1>6 DEF StoreOrder
  <2>2. KeyHeld' /\ StoredOnce'
    BY <1>6, <2>1 DEF StoreOrder
  <2>3. RepliesTrue' /\ AcceptedIsStored'
    BY <1>6, <2>1 DEF StoreOrder
  <2> QED
    BY <1>1, <2>2, <2>3
<1>7. ASSUME NEW c \in Calls, PrintTicket(c) \/ MissTicket(c) PROVE RowsInv'
  BY <1>1, <1>7 DEF PrintTicket, MissTicket
<1>8. ASSUME NEW c \in Calls, Reply(c) \/ LoseReply(c) PROVE RowsInv'
  BY <1>1, <1>8 DEF Reply, LoseReply
<1>9. ASSUME NEW c \in Calls, Crash(c) PROVE RowsInv'
  BY <1>1, <1>9 DEF Crash
<1>10. CASE SaveIntegration \/ UNCHANGED vars
  BY <1>1, <1>10 DEF SaveIntegration, vars
<1> QED
  BY <1>2, <1>3, <1>4, <1>5, <1>6, <1>7, <1>8, <1>9, <1>10 DEF Next, Handle

\* However many calls deliver an order that has an id, at most one row of it is committed
\* (_persist_order and the UNIQUE key).
THEOREM StoredAtMostOnce == Spec => []StoredOnce
<1>1. RowsInv => StoredOnce
  BY DEF RowsInv
<1> QED
  BY <1>1, InitRows, NextRows, PTL DEF Spec

\* The platform is told that an order is accepted only when it is committed.
THEOREM AcceptedOrdersAreStored == Spec => []AcceptedIsStored
<1>1. RowsInv => AcceptedIsStored
  BY DEF RowsInv
<1> QED
  BY <1>1, InitRows, NextRows, PTL DEF Spec

-----------------------------------------------------------------------------
(***************************************************************************)
(* One ticket for each row.                                                *)
(***************************************************************************)

\* The calls between commit and ticket can be counted, one more or one less.
LEMMA CallsCounted ==
    ASSUME NEW o, NEW c, c \notin CallsAt("stored", o)
    PROVE  /\ Cardinality(CallsAt("stored", o)) \in Nat
           /\ Cardinality(CallsAt("stored", o) \cup {c}) = Cardinality(CallsAt("stored", o)) + 1
<1>1. CallsAt("stored", o) \in SUBSET Calls
  BY DEF CallsAt
<1>2. IsFiniteSet(CallsAt("stored", o))
  BY <1>1, FS_Subset, CallAssumption
<1> QED
  BY <1>2, FS_AddElement, FS_CardinalityType

\* Rows and tickets change only with these calls.
LEMMA NextTickets == TypeOK /\ TicketsAccounted /\ [Next]_vars => TicketsAccounted'
<1> SUFFICES ASSUME TypeOK, TicketsAccounted, [Next]_vars,
                    NEW o \in PlatformOrders
             PROVE  stored'[o] = tickets'[o] + missed'[o] + Cardinality(CallsAt("stored", o)')
  BY DEF TicketsAccounted
<1> DEFINE S == CallsAt("stored", o)
<1>1. stored[o] = tickets[o] + missed[o] + Cardinality(S)
  BY DEF TicketsAccounted
<1>2. stored[o] \in Nat /\ tickets[o] \in Nat /\ missed[o] \in Nat /\ Cardinality(S) \in Nat
  <2>1. S \in SUBSET Calls
    BY DEF CallsAt
  <2> QED
    BY <2>1, FS_Subset, FS_CardinalityType, CallAssumption DEF TypeOK
<1> USE DEF TypeOK, Goto, Answer, Finish, dbVars, callVars
<1>3. CASE S' = S /\ UNCHANGED <<stored, tickets, missed>>
  BY <1>1, <1>3
<1>4. ASSUME NEW c \in Calls, NEW p \in PlatformOrders, Deliver(c, p)
      PROVE  S' = S /\ UNCHANGED <<stored, tickets, missed>>
  BY <1>4 DEF Deliver, Arrive, Ignore, RefuseSignature, RefuseBody, RefusePayload, Admit, CallsAt
<1>5. ASSUME NEW c \in Calls,
             InsertOrder(c) \/ Duplicate(c) \/ Fail(c) \/ Reply(c) \/ LoseReply(c)
      PROVE  S' = S /\ UNCHANGED <<stored, tickets, missed>>
  BY <1>5 DEF InsertOrder, Duplicate, Fail, Reply, LoseReply, CallsAt
<1>6. ASSUME NEW c \in Calls, StoreOrder(c)
      PROVE  stored'[o] = tickets'[o] + missed'[o] + Cardinality(S')
  <2>1. CASE target[c] = o
    <3>1. c \notin S /\ S' = S \cup {c}
      BY <1>6, <2>1 DEF StoreOrder, CallsAt
    <3>2. Cardinality(S') = Cardinality(S) + 1
      BY <3>1, CallsCounted
    <3>3. stored'[o] = stored[o] + 1 /\ UNCHANGED <<tickets, missed>>
      BY <1>6, <2>1 DEF StoreOrder
    <3> HIDE DEF S
    <3> QED
      BY <1>1, <1>2, <3>2, <3>3
  <2>2. CASE target[c] # o
    <3>1. S' = S /\ stored'[o] = stored[o] /\ UNCHANGED <<tickets, missed>>
      BY <1>6, <2>2 DEF StoreOrder, CallsAt
    <3> QED
      BY <1>1, <3>1
  <2> QED
    BY <2>1, <2>2
<1>7. ASSUME NEW c \in Calls, pc[c] = "stored", PrintTicket(c) \/ MissTicket(c) \/ Crash(c)
      PROVE  stored'[o] = tickets'[o] + missed'[o] + Cardinality(S')
  <2>1. CASE target[c] = o
    <3>1. c \notin S' /\ S = S' \cup {c}
      BY <1>7, <2>1 DEF PrintTicket, MissTicket, Crash, CallsAt
    <3>2. Cardinality(S') \in Nat /\ Cardinality(S) = Cardinality(S') + 1
      <4>1. S' \in SUBSET Calls
        BY DEF CallsAt
      <4> HIDE DEF S
      <4> QED
        BY <3>1, <4>1, FS_Subset, FS_AddElement, FS_CardinalityType, CallAssumption
    <3>3. /\ stored'[o] = stored[o]
          /\ \/ tickets'[o] = tickets[o] + 1 /\ missed'[o] = missed[o]
             \/ tickets'[o] = tickets[o] /\ missed'[o] = missed[o] + 1
      BY <1>7, <2>1 DEF PrintTicket, MissTicket, Crash
    <3> HIDE DEF S
    <3> QED
      BY <1>1, <1>2, <3>2, <3>3
  <2>2. CASE target[c] # o
    <3>1. /\ S' = S
          /\ stored'[o] = stored[o] /\ tickets'[o] = tickets[o] /\ missed'[o] = missed[o]
      BY <1>7, <2>2 DEF PrintTicket, MissTicket, Crash, CallsAt
    <3> QED
      BY <1>1, <3>1
  <2> QED
    BY <2>1, <2>2
<1>8. ASSUME NEW c \in Calls, Crash(c), pc[c] # "stored"
      PROVE  S' = S /\ UNCHANGED <<stored, tickets, missed>>
  BY <1>8 DEF Crash, CallsAt
<1>9. CASE SaveIntegration \/ UNCHANGED vars
  BY <1>9, <1>3 DEF SaveIntegration, vars, CallsAt
<1> QED
  BY <1>3, <1>4, <1>5, <1>6, <1>7, <1>8, <1>9 DEF Next, Handle, PrintTicket, MissTicket

\* Every committed row has one ticket, unless its call was lost before printing or the
\* printer failed, for any number of calls and crashes.
THEOREM RowsHaveTickets == Spec => []TicketsAccounted
<1>1. Init => TicketsAccounted
  <2> SUFFICES ASSUME Init, NEW o \in PlatformOrders
               PROVE  stored[o] = tickets[o] + missed[o] + Cardinality(CallsAt("stored", o))
    BY DEF TicketsAccounted
  <2>1. CallsAt("stored", o) = {}
    BY DEF Init, CallsAt
  <2> QED
    BY <2>1, FS_EmptySet DEF Init
<1> QED
  BY <1>1, InitType, NextType, NextTickets, PTL DEF Spec

-----------------------------------------------------------------------------
(***************************************************************************)
(* The handlers implement the ledger.                                      *)
(***************************************************************************)

\* The orders the platform believes accepted.
Told == {o \in PlatformOrders : answers[o] \cap Accepting # {}}

\* A commit enters an order; one that has an id has not been entered before.
LEMMA CommitEnters ==
    ASSUME RowsInv, NEW c \in Calls, StoreOrder(c)
    PROVE  target[c] \in PlatformOrders /\ OrderLedger!Enter(target[c])
<1>1. target[c] \in PlatformOrders /\ target[c] \in Identified => stored[target[c]] = 0
  BY DEF StoreOrder, RowsInv, TypeOK, KeyHeld
<1>2. stored' = [stored EXCEPT ![target[c]] = @ + 1] /\ Told' = Told
  BY DEF StoreOrder, Told
<1>3. target[c] \in PlatformOrders
  BY DEF StoreOrder, RowsInv, TypeOK
<1> QED
  BY <1>1, <1>2, <1>3 DEF OrderLedger!Enter, Told

\* An answer that reaches the platform tells it of an order that is entered, or nothing.
LEMMA AnswerTells ==
    ASSUME RowsInv, NEW c \in Calls, Reply(c)
    PROVE  /\ target[c] \in PlatformOrders /\ stored' = stored
           /\ OrderLedger!Tell(target[c]) \/ Told' = Told
<1> DEFINE o == target[c]
<1>1. /\ o \in PlatformOrders /\ stored' = stored
      /\ answers \in [PlatformOrders -> SUBSET Answers]
      /\ answers' = [answers EXCEPT ![o] = @ \cup {reply[c]}]
  BY DEF Reply, RowsInv, TypeOK, dbVars
<1>2. CASE reply[c] \in Accepting
  <2>1. stored[o] > 0
    BY <1>2 DEF Reply, RowsInv, RepliesTrue
  <2>2. Told' = Told \cup {o}
    BY <1>1, <1>2 DEF Told
  <2> QED
    BY <1>1, <2>1, <2>2 DEF OrderLedger!Tell, Told
<1>3. CASE reply[c] \notin Accepting
  <2>1. Told' = Told
    BY <1>1, <1>3 DEF Told
  <2> QED
    BY <1>1, <2>1
<1> QED
  BY <1>2, <1>3

\* Every step is one of the ledger or leaves it alone.
LEMMA LedgerStep ==
    ASSUME RowsInv, [Next]_vars
    PROVE  [OrderLedger!Next]_<<stored, Told>>
<1>1. ASSUME NEW c \in Calls, StoreOrder(c) PROVE OrderLedger!Next
  BY <1>1, CommitEnters DEF OrderLedger!Next
<1>2. ASSUME NEW c \in Calls, Reply(c) PROVE OrderLedger!Next \/ UNCHANGED <<stored, Told>>
  <2>1. target[c] \in PlatformOrders /\ stored' = stored
    BY <1>2, AnswerTells
  <2>2. CASE OrderLedger!Tell(target[c])
    BY <2>1, <2>2 DEF OrderLedger!Next, OrderLedger!Tell
  <2>3. CASE Told' = Told
    BY <2>1, <2>3
  <2> QED
    BY <1>2, <2>2, <2>3, AnswerTells
<1>3. ASSUME NEW c \in Calls, NEW o \in PlatformOrders, Deliver(c, o)
      PROVE  UNCHANGED <<stored, answers>>
  BY <1>3 DEF Deliver, Ignore, RefuseSignature, RefuseBody, RefusePayload, Admit, dbVars
<1>4. ASSUME NEW c \in Calls,
             \/ InsertOrder(c) \/ Duplicate(c) \/ Fail(c) \/ PrintTicket(c) \/ MissTicket(c)
             \/ LoseReply(c) \/ Crash(c)
      PROVE  UNCHANGED <<stored, answers>>
  BY <1>4 DEF InsertOrder, Duplicate, Fail, PrintTicket, MissTicket, LoseReply, Crash, dbVars
<1>5. CASE SaveIntegration \/ UNCHANGED vars
  BY <1>5 DEF SaveIntegration, vars, dbVars, Told
<1>6. CASE UNCHANGED <<stored, answers>>
  BY <1>6 DEF Told
<1> QED
  BY <1>1, <1>2, <1>3, <1>4, <1>5, <1>6 DEF Next, Handle

\* The webhook handlers implement the ledger: rows and acceptances are never taken back, an
\* order that has an id is entered once, and the platform is told only of what is entered.
THEOREM WebhooksKeepLedger == Spec => ImplementsLedger
<1>1. Init => OrderLedger!Init
  BY DEF Init, OrderLedger!Init
<1> QED
  BY <1>1, InitRows, NextRows, LedgerStep, PTL
  DEF Spec, ImplementsLedger, OrderLedger!Spec, Told

=============================================================================
