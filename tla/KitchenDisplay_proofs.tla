------------------------ MODULE KitchenDisplay_proofs ------------------------
(***************************************************************************)
(* Theorems about KitchenDisplay, for any number of orders, pollers,       *)
(* presses, backends and status changes by others.                         *)
(***************************************************************************)
EXTENDS KitchenDisplay, TLAPS

\* The steps of the chain: a button moves an order to the status after its own.
LEMMA ChainSteps ==
    /\ Queued = {"pending", "confirmed", "preparing", "ready"}
    /\ NextStatus("pending") = "confirmed"
    /\ NextStatus("confirmed") = "preparing"
    /\ NextStatus("preparing") = "ready"
<1>1. DOMAIN Chain = 1 .. 4 /\ Len(Chain) = 4
  BY DEF Chain
<1>2. Chain[1] = "pending" /\ Chain[2] = "confirmed" /\ Chain[3] = "preparing" /\ Chain[4] = "ready"
  BY DEF Chain
<1>3. 1 .. 4 = {1, 2, 3, 4}
  OBVIOUS
<1>4. (CHOOSE i \in DOMAIN Chain : Chain[i] = "pending") = 1
  BY <1>1, <1>2, <1>3
<1>5. (CHOOSE i \in DOMAIN Chain : Chain[i] = "confirmed") = 2
  BY <1>1, <1>2, <1>3
<1>6. (CHOOSE i \in DOMAIN Chain : Chain[i] = "preparing") = 3
  BY <1>1, <1>2, <1>3
<1>7. Queued = {"pending", "confirmed", "preparing", "ready"}
  BY <1>1, <1>2, <1>3 DEF Queued
<1>8. 1 + 1 = 2 /\ 1 + 2 = 3 /\ 1 + 3 = 4
  OBVIOUS
<1>9. /\ NextStatus("pending") = Chain[2]
      /\ NextStatus("confirmed") = Chain[3]
      /\ NextStatus("preparing") = Chain[4]
  BY ONLY <1>4, <1>5, <1>6, <1>8 DEF NextStatus
<1> QED
  BY ONLY <1>2, <1>7, <1>9

\* An order that has had these statuses may have this one next.
Prepared(s, had) ==
    /\ s = "confirmed" => "pending" \in had
    /\ s = "preparing" => "confirmed" \in had
    /\ s = "ready" => "preparing" \in had

NoGaps(had) == \A s \in had : Prepared(s, had)

LEMMA NoGapsMeansNoneSkipped ==
    NoStepSkipped <=> \A o \in Orders : NoGaps(reached[o])
<1>1. Len(Chain) = 4 /\ 2 .. 4 = {2, 3, 4}
  BY DEF Chain
<1>2. Chain[1] = "pending" /\ Chain[2] = "confirmed" /\ Chain[3] = "preparing" /\ Chain[4] = "ready"
  BY DEF Chain
<1>3. 2 - 1 = 1 /\ 3 - 1 = 2 /\ 4 - 1 = 3
  OBVIOUS
<1> QED
  BY <1>1, <1>2, <1>3 DEF NoStepSkipped, NoGaps, Prepared

LEMMA ButtonMoves ==
    ASSUME NEW s, HasButton(s)
    PROVE  s \in Queued /\ NextStatus(s) \in Queued
BY ChainSteps DEF HasButton

-----------------------------------------------------------------------------
(***************************************************************************)
(* Type correctness.                                                       *)
(***************************************************************************)
ServerTypeOK ==
    /\ status \in [Orders -> Card]
    /\ reached \in [Orders -> SUBSET Status]
    /\ changes \in 0 .. MaxChanges

WindowTypeOK ==
    /\ shown \in [Orders -> Shown]
    /\ busy \in SUBSET {o \in Orders : shown[o] # "none"}
    /\ poll \in [Pollers -> {"idle", "asking", "answered", "failed"}]
    /\ seen \in [Pollers -> [Orders -> Shown]]
    /\ redrawn \in BOOLEAN

UpdateTypeOK ==
    /\ thread \in [Presses -> {"unused", "sending", "ok", "error", "over"}]
    /\ target \in [Presses -> Target]
    /\ tries \in [Presses -> 0 .. Hosts]
    /\ applied \in [Presses -> SUBSET (1 .. Hosts)]
    /\ \A u \in Presses : applied[u] \subseteq 1 .. tries[u]
    /\ \A u \in Presses : thread[u] = "unused" <=> tries[u] = 0

LEMMA TypeParts == TypeOK <=> ServerTypeOK /\ WindowTypeOK /\ UpdateTypeOK
BY DEF TypeOK, ServerTypeOK, WindowTypeOK, UpdateTypeOK

LEMMA InitType == Init => TypeOK
<1> SUFFICES ASSUME Init PROVE TypeOK
  OBVIOUS
<1>1. ServerTypeOK
  BY ChangeAssumption DEF Init, ServerTypeOK, Nothing, Card
<1>2. WindowTypeOK
  BY DEF Init, WindowTypeOK, Nothing, Shown
<1>3. NoTarget \in Target
  BY OrderAssumption, ChainSteps DEF NoTarget, Target
<1>4. UpdateTypeOK
  BY <1>3, HostAssumption DEF Init, UpdateTypeOK
<1> QED
  BY <1>1, <1>2, <1>4, TypeParts

\* The statuses of orders stay statuses.
LEMMA ServerTypeKept == TypeOK /\ [Next]_vars => ServerTypeOK'
<1> SUFFICES ASSUME TypeOK, [Next]_vars PROVE ServerTypeOK'
  OBVIOUS
<1>0. ServerTypeOK /\ UpdateTypeOK
  BY TypeParts
<1>1. ASSUME NEW o \in Orders, NEW s \in Status, SetStatus(o, s), changes' \in 0 .. MaxChanges
      PROVE  ServerTypeOK'
  BY <1>0, <1>1 DEF ServerTypeOK, SetStatus, Card
<1>2. CASE UNCHANGED serverVars
  BY <1>0, <1>2 DEF ServerTypeOK, serverVars
<1>3. CASE Others
  <2>1. ASSUME NEW o \in Orders, PlaceOrder(o) PROVE ServerTypeOK'
    BY <1>0, <1>1, <2>1, ChainSteps DEF PlaceOrder, ServerTypeOK, Status
  <2>2. ASSUME NEW o \in Orders, NEW s \in OtherStatuses, OtherChange(o, s) PROVE ServerTypeOK'
    <3>1. s \in Status /\ changes' \in 0 .. MaxChanges /\ SetStatus(o, s)
      BY <1>0, <2>2, StatusAssumption, ChangeAssumption DEF OtherChange, ServerTypeOK
    <3> QED
      BY <1>1, <3>1
  <2> QED
    BY <1>3, <2>1, <2>2 DEF Others
<1>4. ASSUME NEW u \in Presses, NEW i \in 1 .. Hosts, Apply(u, i) PROVE ServerTypeOK'
  <2>1. target[u].order \in Orders /\ target[u].to \in Status
    BY <1>0 DEF UpdateTypeOK, Target, Status
  <2> QED
    BY <1>0, <1>1, <1>4, <2>1 DEF Apply, ServerTypeOK
<1>5. ASSUME NEW u \in Presses, Updating(u), ~(\E i \in 1 .. Hosts : Apply(u, i))
      PROVE  UNCHANGED serverVars
  BY <1>5 DEF Updating, Press, Answered, TryNext, GiveUp, OnStatusOk, OnStatusErr
<1>6. CASE \E p \in Pollers : Poll(p) \/ Polling(p)
  BY <1>2, <1>6 DEF Poll, Polling, ReadQueue, PollFails, OnData, OnError
<1>7. CASE UNCHANGED vars
  BY <1>2, <1>7 DEF vars
<1> QED
  BY ONLY [Next]_vars, <1>2, <1>3, <1>4, <1>5, <1>6, <1>7 DEF Next

LEMMA EndPollType ==
    ASSUME WindowTypeOK, NEW p \in Pollers, EndPoll(p)
    PROVE  /\ poll' \in [Pollers -> {"idle", "asking", "answered", "failed"}]
           /\ seen' \in [Pollers -> [Orders -> Shown]]
<1>1. Nothing \in [Orders -> Shown]
  BY DEF Nothing, Shown
<1> QED
  BY <1>1 DEF WindowTypeOK, EndPoll

\* A card shows what a queue was read as; only an order with a card has a busy button.
LEMMA WindowTypeKept == TypeOK /\ [Next]_vars => WindowTypeOK'
<1> SUFFICES ASSUME TypeOK, [Next]_vars PROVE WindowTypeOK'
  OBVIOUS
<1>0. WindowTypeOK
  BY TypeParts
<1>1. CASE UNCHANGED <<windowVars, pollVars, redrawn>>
  BY <1>0, <1>1 DEF WindowTypeOK, windowVars, pollVars
<1>2. ASSUME NEW p \in Pollers, StartPoll(p), UNCHANGED <<windowVars, redrawn>> PROVE WindowTypeOK'
  BY <1>0, <1>2 DEF WindowTypeOK, StartPoll, windowVars
<1>3. ASSUME NEW p \in Pollers, ReadQueue(p) PROVE WindowTypeOK'
  <2>1. [o \in Orders |-> Visible(o)] \in [Orders -> Shown]
    BY DEF Visible, Shown
  <2> QED
    BY <1>0, <1>3, <2>1 DEF ReadQueue, WindowTypeOK, windowVars
<1>4. ASSUME NEW p \in Pollers, PollFails(p) PROVE WindowTypeOK'
  BY <1>0, <1>4 DEF PollFails, WindowTypeOK, windowVars
<1>5. ASSUME NEW p \in Pollers, OnData(p) PROVE WindowTypeOK'
  BY <1>0, <1>5, EndPollType DEF OnData, WindowTypeOK
<1>6. ASSUME NEW p \in Pollers, OnError(p) PROVE WindowTypeOK'
  BY <1>0, <1>6, EndPollType DEF OnError, WindowTypeOK, windowVars
<1>7. ASSUME NEW u \in Presses, NEW o \in Orders, Press(u, o) PROVE WindowTypeOK'
  <2>1. shown[o] # "none"
    BY <1>7 DEF Press, StartUpdater, HasButton
  <2> QED
    BY <1>0, <1>7, <2>1 DEF Press, WindowTypeOK, pollVars
<1>8. ASSUME NEW u \in Presses, OnStatusOk(u) \/ OnStatusErr(u) PROVE WindowTypeOK'
  BY <1>0, <1>2, <1>8 DEF OnStatusOk, OnStatusErr, WindowTypeOK, pollVars
<1>9. ASSUME NEW u \in Presses,
             \/ \E i \in 1 .. Hosts : Apply(u, i)
             \/ Answered(u) \/ TryNext(u) \/ GiveUp(u)
      PROVE  WindowTypeOK'
  BY <1>1, <1>9 DEF Apply, Answered, TryNext, GiveUp
<1>10. CASE Others \/ UNCHANGED vars
  BY <1>1, <1>10 DEF Others, PlaceOrder, OtherChange, vars
<1>11. ASSUME NEW p \in Pollers, Poll(p) PROVE WindowTypeOK'
  BY <1>2, <1>11 DEF Poll
<1> QED
  BY ONLY [Next]_vars, <1>3, <1>4, <1>5, <1>6, <1>7, <1>8, <1>9, <1>10, <1>11
  DEF Next, Polling, Updating

\* A thread that has sent anything has a target and at least one try.
LEMMA UpdateTypeKept == TypeOK /\ [Next]_vars => UpdateTypeOK'
<1> SUFFICES ASSUME TypeOK, [Next]_vars PROVE UpdateTypeOK'
  OBVIOUS
<1>0. UpdateTypeOK
  BY TypeParts
<1>1. CASE UNCHANGED updateVars
  BY <1>0, <1>1 DEF UpdateTypeOK, updateVars
<1>2. ASSUME NEW u \in Presses, NEW o \in Orders, Press(u, o) PROVE UpdateTypeOK'
  <2>1. [order |-> o, to |-> NextStatus(shown[o])] \in Target
    BY <1>2, ButtonMoves DEF Press, StartUpdater, Target
  <2>2. 1 \in 0 .. Hosts /\ 1 # 0
    BY HostAssumption
  <2>3. applied[u] = {}
    BY <1>0, <1>2 DEF Press, StartUpdater, UpdateTypeOK
  <2>4. /\ thread' = [thread EXCEPT ![u] = "sending"]
        /\ target' = [target EXCEPT ![u] = [order |-> o, to |-> NextStatus(shown[o])]]
        /\ tries' = [tries EXCEPT ![u] = 1]
        /\ applied' = applied
    BY <1>2 DEF Press, StartUpdater, Becomes
  <2> QED
    BY <1>0, <2>1, <2>2, <2>3, <2>4 DEF UpdateTypeOK
<1>3. ASSUME NEW u \in Presses, NEW i \in 1 .. Hosts, Apply(u, i) PROVE UpdateTypeOK'
  BY <1>0, <1>3 DEF Apply, UpdateTypeOK
<1>4. ASSUME NEW u \in Presses, NEW s \in {"ok", "error", "over"}, Becomes(u, s),
             thread[u] # "unused", UNCHANGED <<target, tries, applied>>
      PROVE  UpdateTypeOK'
  BY <1>0, <1>4 DEF Becomes, UpdateTypeOK
<1>5. ASSUME NEW u \in Presses, TryNext(u) PROVE UpdateTypeOK'
  <2>1. /\ tries' = [tries EXCEPT ![u] = tries[u] + 1]
        /\ thread[u] # "unused" /\ UNCHANGED <<thread, target, applied>>
    BY <1>5 DEF TryNext
  <2>2. tries[u] \in 0 .. Hosts /\ tries[u] + 1 \in 0 .. Hosts /\ tries[u] + 1 # 0
        /\ 1 .. tries[u] \subseteq 1 .. tries[u] + 1
    BY <1>0, <1>5, HostAssumption DEF TryNext, UpdateTypeOK
  <2> QED
    BY <1>0, <2>1, <2>2 DEF UpdateTypeOK
<1>6. ASSUME NEW u \in Presses, Answered(u) \/ GiveUp(u) \/ OnStatusOk(u) \/ OnStatusErr(u)
      PROVE  UpdateTypeOK'
  BY <1>4, <1>6 DEF Answered, GiveUp, OnStatusOk, OnStatusErr
<1>7. CASE Others \/ UNCHANGED vars \/ \E p \in Pollers : Poll(p) \/ Polling(p)
  BY <1>1, <1>7
  DEF Others, PlaceOrder, OtherChange, Poll, Polling, ReadQueue, PollFails, OnData, OnError, vars
<1> QED
  BY ONLY [Next]_vars, <1>2, <1>3, <1>5, <1>6, <1>7 DEF Next, Updating

\* Every variable keeps its type: a card shows a status of the queue that this display
\* is for, and a request is on its way only for a press.
THEOREM DisplayTypeCorrect == Spec => []TypeOK
<1>1. TypeOK /\ [Next]_vars => TypeOK'
  BY ServerTypeKept, WindowTypeKept, UpdateTypeKept, TypeParts, PTL
<1> QED
  BY <1>1, InitType, PTL DEF Spec

-----------------------------------------------------------------------------
(***************************************************************************)
(* No order skips a step.                                                  *)
(***************************************************************************)

\* What a card shows, a queue was read as and a press asks for is no further than
\* one step ahead of what the order has been through.
ChainInv ==
    /\ \A o \in Orders : NoGaps(reached[o])
    /\ \A o \in Orders : status[o] # "none" => status[o] \in reached[o]
    /\ \A o \in Orders : shown[o] # "none" => shown[o] \in reached[o]
    /\ \A p \in Pollers, o \in Orders : seen[p][o] # "none" => seen[p][o] \in reached[o]
    /\ \A u \in Presses : thread[u] # "unused" => Prepared(target[u].to, reached[target[u].order])

LEMMA ChainInvInit == Init => ChainInv
BY DEF Init, ChainInv, NoGaps, Nothing

\* A status the order is prepared for.
LEMMA ChainInvServer ==
    ASSUME TypeOK, ChainInv, NEW o \in Orders, NEW s \in Status, SetStatus(o, s),
           Prepared(s, reached[o]), UNCHANGED <<shown, pollVars, thread, target>>
    PROVE  ChainInv'
<1>1. status \in [Orders -> Card] /\ reached \in [Orders -> SUBSET Status]
      /\ \A u \in Presses : target[u].order \in Orders
  BY DEF TypeOK, Target
<1>2. reached'[o] = reached[o] \cup {s} /\ status'[o] = s
  BY <1>1 DEF SetStatus
<1>3. \A q \in Orders \ {o} : reached'[q] = reached[q] /\ status'[q] = status[q]
  BY <1>1 DEF SetStatus
<1>4. \A q \in Orders : reached[q] \subseteq reached'[q]
  BY <1>2, <1>3
<1>5. \A q \in Orders : NoGaps(reached'[q])
  BY <1>2, <1>3 DEF ChainInv, NoGaps, Prepared
<1>6. \A q \in Orders : status'[q] # "none" => status'[q] \in reached'[q]
  BY <1>2, <1>3 DEF ChainInv
<1>7. \A u \in Presses : thread'[u] # "unused" => Prepared(target'[u].to, reached'[target'[u].order])
  BY <1>1, <1>4 DEF ChainInv, Prepared
<1> QED
  BY <1>4, <1>5, <1>6, <1>7 DEF ChainInv, pollVars

\* A step that commits nothing: what is shown or read is what was read or committed.
LEMMA ChainInvElsewhere ==
    ASSUME ChainInv, UNCHANGED <<status, reached>>,
           \A o \in Orders : shown'[o] \in {shown[o], "none"} \/ \E p \in Pollers : shown'[o] = seen[p][o],
           \A p \in Pollers, o \in Orders : seen'[p][o] \in {seen[p][o], status[o], "none"},
           \A u \in Presses :
               thread'[u] # "unused" => Prepared(target'[u].to, reached[target'[u].order])
    PROVE  ChainInv'
BY DEF ChainInv

\* Others only complete and cancel orders: everything else is a step of the chain.
LEMMA ChainInvStep ==
    ASSUME OtherStatuses \cap Queued = {}, TypeOK, ChainInv, [Next]_vars
    PROVE  ChainInv'
<1>0. /\ shown \in [Orders -> Shown] /\ seen \in [Pollers -> [Orders -> Shown]]
      /\ thread \in [Presses -> {"unused", "sending", "ok", "error", "over"}]
      /\ target \in [Presses -> Target]
  BY DEF TypeOK
<1>1. CASE Others
  <2>1. ASSUME NEW o \in Orders, PlaceOrder(o) PROVE ChainInv'
    <3>1. "pending" \in Status /\ Prepared("pending", reached[o])
      BY ChainSteps DEF Status, Prepared
    <3> QED
      BY <2>1, <3>1, ChainInvServer DEF PlaceOrder, windowVars, updateVars
  <2>2. ASSUME NEW o \in Orders, NEW s \in OtherStatuses, OtherChange(o, s) PROVE ChainInv'
    <3>1. s \in Status /\ Prepared(s, reached[o])
      BY ChainSteps, StatusAssumption DEF Prepared
    <3> QED
      BY <2>2, <3>1, ChainInvServer DEF OtherChange, windowVars, updateVars
  <2> QED
    BY <1>1, <2>1, <2>2 DEF Others
<1>2. ASSUME NEW u \in Presses, NEW i \in 1 .. Hosts, Apply(u, i) PROVE ChainInv'
  <2>1. target[u].order \in Orders /\ target[u].to \in Status
    BY <1>0 DEF Target, Status
  <2>2. thread[u] # "unused"
    <3>1. tries[u] # 0
      BY <1>2, HostAssumption DEF Apply, TypeOK
    <3> QED
      BY <3>1 DEF TypeOK
  <2>3. Prepared(target[u].to, reached[target[u].order])
    BY <2>2 DEF ChainInv
  <2> QED
    BY <1>2, <2>1, <2>3, ChainInvServer DEF Apply, windowVars
<1>3. ASSUME NEW u \in Presses, NEW o \in Orders, Press(u, o) PROVE ChainInv'
  <2>1. Prepared(NextStatus(shown[o]), reached[o])
    BY <1>3, ChainSteps DEF Press, StartUpdater, HasButton, ChainInv, Prepared
  <2>2. /\ thread' = [thread EXCEPT ![u] = "sending"]
        /\ target' = [target EXCEPT ![u] = [order |-> o, to |-> NextStatus(shown[o])]]
        /\ UNCHANGED <<status, reached, shown, seen>>
    BY <1>3 DEF Press, StartUpdater, Becomes, serverVars, pollVars
  <2>3. \A v \in Presses :
            thread'[v] # "unused" => Prepared(target'[v].to, reached[target'[v].order])
    BY <1>0, <2>1, <2>2 DEF ChainInv
  <2> QED
    BY <2>2, <2>3, ChainInvElsewhere
<1>4. ASSUME NEW p \in Pollers, ReadQueue(p) PROVE ChainInv'
  <2>1. /\ seen' = [seen EXCEPT ![p] = [o \in Orders |-> Visible(o)]]
        /\ UNCHANGED <<status, reached, shown, thread, target>>
    BY <1>4 DEF ReadQueue, serverVars, windowVars, updateVars
  <2>2. \A o \in Orders : Visible(o) \in {status[o], "none"}
    BY DEF Visible
  <2>3. \A q \in Pollers, o \in Orders : seen'[q][o] \in {seen[q][o], status[o], "none"}
    BY <1>0, <2>1, <2>2
  <2> QED
    BY <2>1, <2>3, ChainInvElsewhere DEF ChainInv
<1>5. ASSUME NEW p \in Pollers, OnData(p) \/ OnError(p) PROVE ChainInv'
  <2>1. /\ seen' = [seen EXCEPT ![p] = Nothing] /\ shown' \in {shown, seen[p]}
        /\ UNCHANGED <<status, reached, thread, target>>
    BY <1>5 DEF OnData, OnError, EndPoll, serverVars, windowVars, updateVars
  <2>2. \A q \in Pollers, o \in Orders : seen'[q][o] \in {seen[q][o], "none"}
    BY <1>0, <2>1 DEF Nothing
  <2>3. \A o \in Orders : shown'[o] = shown[o] \/ shown'[o] = seen[p][o]
    BY <2>1
  <2> QED
    BY <2>1, <2>2, <2>3, ChainInvElsewhere DEF ChainInv
<1>6. ASSUME NEW u \in Presses, NEW s \in {"ok", "error", "over"}, thread[u] # "unused", Becomes(u, s),
             UNCHANGED <<status, reached, shown, seen, target>>
      PROVE  ChainInv'
  <2>1. \A v \in Presses : thread'[v] # "unused" => thread[v] # "unused"
    BY <1>0, <1>6 DEF Becomes
  <2> QED
    BY <1>6, <2>1, ChainInvElsewhere DEF ChainInv
<1>7. ASSUME NEW u \in Presses, Answered(u) \/ GiveUp(u) \/ OnStatusOk(u) \/ OnStatusErr(u)
      PROVE  ChainInv'
  BY <1>6, <1>7
  DEF Answered, GiveUp, OnStatusOk, OnStatusErr, StartPoll, serverVars, windowVars, pollVars
<1>8. CASE UNCHANGED <<status, reached, shown, seen, thread, target>>
  BY <1>8, ChainInvElsewhere DEF ChainInv
<1>9. ASSUME NEW u \in Presses, TryNext(u) PROVE ChainInv'
  BY <1>8, <1>9 DEF TryNext, serverVars, windowVars, pollVars
<1>10. CASE UNCHANGED vars \/ \E p \in Pollers : Poll(p) \/ PollFails(p)
  BY <1>8, <1>10
  DEF Poll, StartPoll, PollFails, serverVars, windowVars, pollVars, updateVars, vars
<1> QED
  BY ONLY [Next]_vars, <1>1, <1>2, <1>3, <1>4, <1>5, <1>7, <1>9, <1>10 DEF Next, Polling, Updating

\* As long as the others only complete and cancel orders, no order reaches a status
\* without having had the one before it: cards out of date, presses repeated after a
\* redraw and requests committed late make none skip a step.
THEOREM NoOrderSkipsAStep ==
    ASSUME OtherStatuses \cap Queued = {}
    PROVE  Spec => []NoStepSkipped
<1>1. TypeOK /\ ChainInv /\ [Next]_vars => ChainInv'
  BY ChainInvStep
<1>2. ChainInv => NoStepSkipped
  BY NoGapsMeansNoneSkipped DEF ChainInv
<1> QED
  BY <1>1, <1>2, ChainInvInit, DisplayTypeCorrect, PTL DEF Spec

-----------------------------------------------------------------------------
(***************************************************************************)
(* The disabled button.                                                    *)
(***************************************************************************)

\* Until the cards are redrawn, each update under way holds the button of its order.
ButtonHeld ==
    ~redrawn => \A u \in Underway :
        /\ target[u].order \in busy
        /\ \A v \in Underway : target[v].order = target[u].order => u = v

LEMMA ButtonHeldStep ==
    ASSUME TypeOK, ButtonHeld, [Next]_vars
    PROVE  ButtonHeld'
<1>0. /\ thread \in [Presses -> {"unused", "sending", "ok", "error", "over"}]
      /\ target \in [Presses -> Target] /\ redrawn \in BOOLEAN
  BY DEF TypeOK
<1>1. ASSUME Underway' \subseteq Underway, UNCHANGED <<target, busy, redrawn>>
      PROVE  ButtonHeld'
  BY <1>1 DEF ButtonHeld
<1>2. ASSUME NEW u \in Presses, NEW o \in Orders, Press(u, o) PROVE ButtonHeld'
  <2>1. /\ thread' = [thread EXCEPT ![u] = "sending"]
        /\ target' = [target EXCEPT ![u] = [order |-> o, to |-> NextStatus(shown[o])]]
        /\ busy' = busy \cup {o} /\ o \notin busy /\ redrawn' = redrawn /\ thread[u] = "unused"
    BY <1>2 DEF Press, StartUpdater, Becomes
  <2>2. Underway' = Underway \cup {u} /\ u \notin Underway
    BY <1>0, <2>1 DEF Underway
  <2>3. target'[u].order = o /\ \A v \in Underway : target'[v] = target[v]
    BY <1>0, <2>1, <2>2 DEF Underway
  <2> QED
    BY <2>1, <2>2, <2>3 DEF ButtonHeld
<1>3. ASSUME NEW p \in Pollers, OnData(p) PROVE ButtonHeld'
  <2>1. Underway' = Underway /\ redrawn' = (redrawn \/ Underway # {})
    BY <1>3 DEF OnData, Underway, updateVars
  <2> QED
    BY <2>1 DEF ButtonHeld
<1>4. ASSUME NEW u \in Presses, OnStatusErr(u) PROVE ButtonHeld'
  <2>1. /\ thread[u] = "error" /\ thread' = [thread EXCEPT ![u] = "over"]
        /\ busy' = busy \ {target[u].order} /\ UNCHANGED <<target, redrawn>>
    BY <1>4 DEF OnStatusErr, Becomes
  <2>2. u \in Underway /\ Underway' = Underway \ {u}
    BY <1>0, <2>1 DEF Underway
  <2> QED
    BY <2>1, <2>2 DEF ButtonHeld
<1>5. ASSUME NEW u \in Presses,
             \/ \E i \in 1 .. Hosts : Apply(u, i)
             \/ Answered(u) \/ TryNext(u) \/ GiveUp(u) \/ OnStatusOk(u)
      PROVE  ButtonHeld'
  <2>1. UNCHANGED <<target, busy, redrawn>>
    BY <1>5 DEF Apply, Answered, TryNext, GiveUp, OnStatusOk, windowVars
  <2>2. Underway' \subseteq Underway
    BY <1>0, <1>5 DEF Apply, Answered, TryNext, GiveUp, OnStatusOk, Becomes, Underway
  <2> QED
    BY <1>1, <2>1, <2>2
<1>6. CASE Others \/ UNCHANGED vars \/ \E p \in Pollers : Poll(p) \/ ReadQueue(p) \/ PollFails(p) \/ OnError(p)
  <2>1. UNCHANGED <<thread, target, busy, redrawn>>
    BY <1>6
    DEF Others, PlaceOrder, OtherChange, Poll, ReadQueue, PollFails, OnError, vars, windowVars, updateVars
  <2>2. Underway' = Underway
    BY <2>1 DEF Underway
  <2> QED
    BY <1>1, <2>1, <2>2
<1> QED
  BY ONLY [Next]_vars, <1>2, <1>3, <1>4, <1>5, <1>6 DEF Next, Polling, Updating

\* Two updates of one order are under way together only if the cards were redrawn
\* during an update.
THEOREM ButtonHoldsOffASecondPress == Spec => []DoublePressNeedsRedraw
<1>1. Init => ButtonHeld
  BY DEF Init, ButtonHeld, Underway
<1>2. TypeOK /\ ButtonHeld /\ [Next]_vars => ButtonHeld'
  BY ButtonHeldStep
<1>3. ButtonHeld => DoublePressNeedsRedraw
  BY DEF ButtonHeld, DoublePressNeedsRedraw
<1> QED
  BY <1>1, <1>2, <1>3, DisplayTypeCorrect, PTL DEF Spec

=============================================================================
