----------------------- MODULE CashierStation_proofs -----------------------
(***************************************************************************)
(* Theorems about CashierStation, for any number of orders, payments,      *)
(* backends, crashes and lists on their way, and any window.               *)
(***************************************************************************)
EXTENDS CashierStation, FiniteSetTheorems, TLAPS

ListRecord == [orders : SUBSET Orders, due : SUBSET Orders]

DbTypeOK ==
    /\ placed \subseteq Orders
    /\ paid \subseteq placed /\ cancelled \subseteq placed
    /\ others \in 0 .. MaxOthers /\ crashes \in 0 .. MaxCrashes

CardTypeOK ==
    /\ cards \subseteq placed
    /\ selected \in cards \cup {NoOrder}
    /\ detail \in placed \cup {NoOrder}

InboxTypeOK ==
    /\ inbox \in Seq(ListRecord)
    /\ Len(inbox) <= MaxInbox
    /\ \A k \in 1 .. Len(inbox) : inbox[k].orders \cup inbox[k].due \subseteq placed

PayTypeOK ==
    /\ pays \in 0 .. MaxPays
    /\ of \in [Pays -> placed \cup {NoOrder}]
    /\ tries \in [Pays -> 0 .. Hosts]
    /\ handler \in [Pays -> [1 .. Hosts -> HandlerStates]]
    /\ \A n \in Pays, i \in 1 .. Hosts : handler[n][i] # "none" => i <= tries[n] /\ n <= pays
    /\ receipts \subseteq placed

ReportTypeOK ==
    /\ ui \in Screens
    /\ asked \in placed \cup {NoOrder}
    /\ reported \subseteq placed
    /\ failed \subseteq 1 .. pays
    /\ reoffered \subseteq reported

LEMMA TypeParts ==
    TypeOK <=> DbTypeOK /\ CardTypeOK /\ InboxTypeOK /\ PayTypeOK /\ ReportTypeOK
BY DEF TypeOK, DbTypeOK, CardTypeOK, InboxTypeOK, PayTypeOK, ReportTypeOK, ListRecord

\* A dialog, a payment and a message are about an order, and a payment that was sent
\* is the latest one while the window waits.
AskedInv ==
    /\ ui # "list" => asked \in placed
    /\ \A n \in Pays : tries[n] > 0 <=> n <= pays
    /\ \A n \in Pays : n <= pays => of[n] \in placed
    /\ ui = "paying" => pays > 0 /\ of[pays] = asked
    /\ ui = "recorded" => asked \in reported

Base == TypeOK /\ AskedInv

LEMMA BaseInit == Init => Base
<1> SUFFICES ASSUME Init PROVE Base
  OBVIOUS
<1> USE OrdersAssumption, HostsAssumption, QueueAssumption
<1>1. DbTypeOK
  BY DEF Init, DbTypeOK
<1>2. CardTypeOK
  BY DEF Init, CardTypeOK, NoOrder
<1>3. InboxTypeOK
  <2>1. <<>> \in Seq(ListRecord) /\ Len(<<>>) = 0
    OBVIOUS
  <2> QED
    BY <2>1 DEF Init, InboxTypeOK
<1>4. PayTypeOK
  BY DEF Init, PayTypeOK, NoOrder, HandlerStates
<1>5. ReportTypeOK
  BY DEF Init, ReportTypeOK, Screens, NoOrder
<1>6. AskedInv
  BY DEF Init, AskedInv, Pays
<1> QED
  BY <1>1, <1>2, <1>3, <1>4, <1>5, <1>6, TypeParts DEF Base

-----------------------------------------------------------------------------
(***************************************************************************)
(* What each step leaves alone.                                            *)
(***************************************************************************)

LEMMA NoOrderIsNone == NoOrder \notin Orders
BY OrdersAssumption DEF NoOrder, Orders

\* Orders and payments are never taken back.
LEMMA DbGrows ==
    ASSUME Base, [Next]_vars
    PROVE  /\ DbTypeOK'
           /\ placed \subseteq placed'
           /\ paid \subseteq paid'
<1> USE OrdersAssumption, QueueAssumption
<1>0. DbTypeOK /\ AskedInv /\ PayTypeOK
  BY TypeParts DEF Base
<1>1. CASE UNCHANGED dbVars
  BY <1>0, <1>1 DEF DbTypeOK, dbVars
<1>2. ASSUME NEW o \in Orders, PlaceOrder(o) \/ PlacePrepaid(o) PROVE
        /\ DbTypeOK'
        /\ placed \subseteq placed'
        /\ paid \subseteq paid'
  <2>1. /\ placed' = placed \cup {o} /\ cancelled' = cancelled
        /\ paid' \in {paid, paid \cup {o}} /\ crashes' = crashes
    BY <1>2 DEF PlaceOrder, PlacePrepaid
  <2>2. others' \in 0 .. MaxOthers
    BY <1>0, <1>2 DEF PlaceOrder, PlacePrepaid, Other, DbTypeOK
  <2> QED
    BY <1>0, <2>1, <2>2 DEF DbTypeOK
<1>3. ASSUME NEW o \in Orders, CancelOrder(o) \/ ReopenOrder(o) \/ OtherPays(o) PROVE
        /\ DbTypeOK'
        /\ placed' = placed
        /\ paid \subseteq paid'
  <2>1. /\ placed' = placed /\ crashes' = crashes /\ o \in placed
        /\ paid' \in {paid, paid \cup {o}}
        /\ cancelled' \in {cancelled, cancelled \cup {o}, cancelled \ {o}}
    BY <1>0, <1>3 DEF CancelOrder, ReopenOrder, OtherPays, DbTypeOK
  <2>2. others' \in 0 .. MaxOthers
    BY <1>0, <1>3 DEF CancelOrder, ReopenOrder, OtherPays, Other, DbTypeOK
  <2> QED
    BY <1>0, <2>1, <2>2 DEF DbTypeOK
<1>4. ASSUME NEW n \in Pays, NEW i \in 1 .. Hosts, Handler(n, i) PROVE
        /\ DbTypeOK'
        /\ placed' = placed
        /\ paid \subseteq paid'
  <2>1. CASE PrintReceipt(n, i)
    BY <1>0, <2>1 DEF PrintReceipt, dbVars, DbTypeOK
  <2>2. CASE Commit(n, i)
    <3>1. of[n] \in placed
      BY <1>0, <2>2 DEF Commit, PayTypeOK, AskedInv
    <3> QED
      BY <1>0, <2>2, <3>1 DEF Commit, DbTypeOK
  <2>3. CASE Crash(n, i)
    BY <1>0, <2>3 DEF Crash, DbTypeOK
  <2> QED
    BY <1>4, <2>1, <2>2, <2>3 DEF Handler
<1>5. CASE Cashier \/ Poll \/ OnOrders \/ Waiting \/ UNCHANGED vars
  BY <1>1, <1>5
  DEF Cashier, PressRefresh, SelectCard, OpenDialog, CancelDialog, ConfirmPayment, CloseRecorded,
      CloseRecordedNoRefresh, CloseError, Poll, OnOrders, Waiting, Answered, TryNext, GiveUp, vars
<1> QED
  BY ONLY [Next]_vars, <1>2, <1>3, <1>4, <1>5 DEF Next, Others

-----------------------------------------------------------------------------
(***************************************************************************)
(* Type correctness.                                                       *)
(***************************************************************************)

\* A list the window shows.
LEMMA ShownList ==
    ASSUME CardTypeOK, placed \subseteq placed', placed \cup {NoOrder} \subseteq placed' \cup {NoOrder},
           NoOrder \in placed' \cup {NoOrder}, NEW list, list \subseteq placed, ShowOrders(list)
    PROVE  CardTypeOK'
<1>1. cards' \subseteq placed' /\ selected' \in cards' \cup {NoOrder}
  BY DEF CardTypeOK, ShowOrders
<1>2. detail' \in {detail, NoOrder}
  BY DEF ShowOrders
<1> QED
  BY <1>1, <1>2 DEF CardTypeOK

LEMMA ListedExist == DbTypeOK => Listed \subseteq placed
BY DEF Listed, Latest

\* The list on its way that is handled first is one of orders that exist.
LEMMA FirstList ==
    ASSUME InboxTypeOK, inbox # <<>>
    PROVE  /\ Head(inbox) = inbox[1] /\ 1 \in 1 .. Len(inbox)
           /\ Head(inbox).orders \subseteq placed
<1>1. Len(inbox) \in Nat /\ Len(inbox) # 0
  BY DEF InboxTypeOK
<1> QED
  BY <1>1 DEF InboxTypeOK

\* Cards, selection and panel show orders that exist.
LEMMA CardTypeKept == Base /\ [Next]_vars => CardTypeOK'
<1> SUFFICES ASSUME Base, [Next]_vars PROVE CardTypeOK'
  OBVIOUS
<1>0. CardTypeOK /\ DbTypeOK /\ InboxTypeOK
  BY TypeParts DEF Base
<1>1. placed \subseteq placed' /\ NoOrder \in placed' \cup {NoOrder}
  BY DbGrows, OrdersAssumption DEF NoOrder, DbTypeOK
<1>2. CASE UNCHANGED <<cards, selected, detail>>
  BY <1>0, <1>1, <1>2 DEF CardTypeOK
<1>3. CASE PressRefresh \/ CloseRecorded
  BY <1>0, <1>1, <1>3, ShownList, ListedExist DEF PressRefresh, CloseRecorded, Refresh
<1>4. CASE OnOrders
  BY <1>0, <1>1, <1>4, ShownList, FirstList DEF OnOrders
<1>5. ASSUME NEW o \in Orders, SelectCard(o) PROVE CardTypeOK'
  <2>1. o \in placed /\ o \in cards /\ o \in placed \cup {NoOrder} /\ placed' = placed
    BY <1>0, <1>5 DEF SelectCard, CardTypeOK, dbVars
  <2> QED
    BY <1>0, <1>5, <2>1 DEF SelectCard, CardTypeOK
<1>6. CASE OpenDialog \/ CancelDialog \/ ConfirmPayment \/ CloseRecordedNoRefresh \/ CloseError
  BY <1>2, <1>6 DEF OpenDialog, CancelDialog, ConfirmPayment, CloseRecordedNoRefresh, CloseError
<1>7. CASE Others \/ Poll \/ Waiting \/ UNCHANGED vars
  BY <1>2, <1>7
  DEF Others, PlaceOrder, PlacePrepaid, CancelOrder, ReopenOrder, OtherPays, Poll, Waiting, Answered, TryNext,
      GiveUp, windowVars, vars
<1>8. CASE \E n \in Pays, i \in 1 .. Hosts : Handler(n, i)
  BY <1>2, <1>8 DEF Handler, PrintReceipt, Commit, Crash, windowVars
<1> QED
  BY ONLY [Next]_vars, <1>3, <1>4, <1>5, <1>6, <1>7, <1>8 DEF Next, Cashier

\* A list on its way.
LEMMA InboxTypeKept == Base /\ [Next]_vars => InboxTypeOK'
<1> SUFFICES ASSUME Base, [Next]_vars PROVE InboxTypeOK'
  OBVIOUS
<1>0. DbTypeOK /\ InboxTypeOK
  BY TypeParts DEF Base
<1>1. placed \subseteq placed'
  BY DbGrows
<1>2. \A k \in 1 .. Len(inbox) : inbox[k].orders \cup inbox[k].due \subseteq placed'
  BY <1>0, <1>1 DEF InboxTypeOK
<1>3. CASE UNCHANGED inbox
  BY <1>0, <1>2, <1>3 DEF InboxTypeOK
<1>4. CASE Poll
  <2> DEFINE list == [orders |-> Listed, due |-> Due]
  <2>1. list \in ListRecord /\ list.orders \cup list.due \subseteq placed'
    BY <1>0, <1>1, ListedExist DEF ListRecord, Due, DbTypeOK
  <2>2. inbox' = Append(inbox, list) /\ Len(inbox) < MaxInbox
    BY <1>4 DEF Poll
  <2> HIDE DEF list
  <2>3. inbox \in Seq(ListRecord) /\ Len(inbox) \in Nat
    BY <1>0 DEF InboxTypeOK
  <2>4. inbox' \in Seq(ListRecord) /\ Len(inbox') = Len(inbox) + 1 /\ inbox'[Len(inbox) + 1] = list
        /\ \A k \in 1 .. Len(inbox) : inbox'[k] = inbox[k]
    BY <2>1, <2>2, <2>3
  <2>5. \A k \in 1 .. Len(inbox') : k = Len(inbox) + 1 \/ k \in 1 .. Len(inbox)
    BY <2>3, <2>4
  <2>6. Len(inbox') <= MaxInbox
    BY <2>2, <2>3, <2>4, QueueAssumption
  <2> QED
    BY <1>2, <2>1, <2>4, <2>5, <2>6 DEF InboxTypeOK
<1>5. CASE OnOrders
  <2>1. inbox # <<>> /\ inbox' = Tail(inbox)
    BY <1>5 DEF OnOrders
  <2>2. inbox \in Seq(ListRecord) /\ Len(inbox) \in Nat /\ Len(inbox) <= MaxInbox
    BY <1>0 DEF InboxTypeOK
  <2>3. inbox' \in Seq(ListRecord) /\ Len(inbox') = Len(inbox) - 1 /\ Len(inbox) # 0
        /\ \A k \in 1 .. Len(inbox) - 1 : inbox'[k] = inbox[k + 1]
    BY <2>1, <2>2
  <2>4. \A k \in 1 .. Len(inbox) - 1 : k + 1 \in 1 .. Len(inbox)
    BY <2>2
  <2>5. Len(inbox') <= MaxInbox
    BY <2>2, <2>3, QueueAssumption
  <2> QED
    BY <1>2, <2>3, <2>4, <2>5 DEF InboxTypeOK
<1>6. CASE Cashier
  BY <1>3, <1>6
  DEF Cashier, PressRefresh, SelectCard, OpenDialog, CancelDialog, ConfirmPayment, CloseRecorded,
      CloseRecordedNoRefresh, CloseError
<1>7. CASE Others \/ Waiting \/ UNCHANGED vars
  BY <1>3, <1>7
  DEF Others, PlaceOrder, PlacePrepaid, CancelOrder, ReopenOrder, OtherPays, Waiting, Answered, TryNext, GiveUp,
      windowVars, vars
<1>8. CASE \E n \in Pays, i \in 1 .. Hosts : Handler(n, i)
  BY <1>3, <1>8 DEF Handler, PrintReceipt, Commit, Crash, windowVars
<1> QED
  BY ONLY [Next]_vars, <1>4, <1>5, <1>6, <1>7, <1>8 DEF Next

\* A try of a payment.
LEMMA TryType ==
    ASSUME Base, NEW n \in Pays, NEW i \in 1 .. Hosts, i <= tries[n]
    PROVE  n <= pays /\ of[n] \in placed
<1>1. PayTypeOK /\ AskedInv
  BY TypeParts DEF Base
<1>2. tries[n] \in Nat /\ tries[n] > 0
  BY <1>1, HostsAssumption DEF PayTypeOK
<1> QED
  BY <1>1, <1>2 DEF AskedInv

\* A payment under way is the latest one.
LEMMA LatestPayment ==
    ASSUME Base, ui = "paying"
    PROVE  /\ pays \in Pays /\ of[pays] = asked /\ asked \in placed
           /\ tries[pays] \in 1 .. Hosts /\ pays \in Nat /\ pays \in 1 .. pays
<1>1. PayTypeOK /\ AskedInv
  BY TypeParts DEF Base
<1>2. pays \in Pays /\ pays \in Nat /\ pays \in 1 .. pays
  BY <1>1, QueueAssumption DEF PayTypeOK, AskedInv, Pays
<1>3. tries[pays] \in 0 .. Hosts /\ tries[pays] > 0
  BY <1>1, <1>2 DEF PayTypeOK, AskedInv
<1> QED
  BY <1>1, <1>2, <1>3, HostsAssumption DEF AskedInv

\* A payment confirmed in the dialog is a new one.
LEMMA NewPayment ==
    ASSUME Base, ConfirmPayment
    PROVE  /\ pays' = pays + 1 /\ pays' \in Pays /\ pays \in Nat
           /\ of' = [of EXCEPT ![pays'] = asked] /\ tries' = [tries EXCEPT ![pays'] = 1]
           /\ handler' = handler /\ receipts' = receipts /\ placed' = placed
           /\ asked \in placed /\ asked' = asked /\ ui' = "paying"
           /\ \A n \in Pays : n <= pays' <=> n <= pays \/ n = pays'
           /\ ~(pays' <= pays)
<1>1. PayTypeOK /\ AskedInv
  BY TypeParts DEF Base
<1>2. /\ pays' = pays + 1 /\ pays < MaxPays /\ ui = "dialog"
      /\ of' = [of EXCEPT ![pays'] = asked] /\ tries' = [tries EXCEPT ![pays'] = 1]
      /\ handler' = handler /\ receipts' = receipts /\ placed' = placed
      /\ asked' = asked /\ ui' = "paying"
  BY DEF ConfirmPayment, dbVars
<1>3. pays \in Nat /\ pays' \in Pays
  BY <1>1, <1>2, QueueAssumption DEF PayTypeOK, Pays
<1>4. \A n \in Pays : n <= pays' <=> n <= pays \/ n = pays'
  BY <1>2, <1>3, QueueAssumption DEF Pays
<1>5. ~(pays' <= pays)
  BY <1>2, <1>3
<1> QED
  BY <1>1, <1>2, <1>3, <1>4, <1>5 DEF AskedInv

\* A step that is about no payment.
LEMMA NoPaymentStep ==
    ASSUME Others \/ Poll \/ OnOrders \/ UNCHANGED vars \/ (Cashier /\ ~ConfirmPayment)
           \/ Answered \/ GiveUp
    PROVE  UNCHANGED payVars
BY DEF Others, PlaceOrder, PlacePrepaid, CancelOrder, ReopenOrder, OtherPays, Poll, OnOrders, vars, Cashier,
       PressRefresh, SelectCard, OpenDialog, CancelDialog, CloseRecorded, CloseRecordedNoRefresh,
       CloseError, Answered, GiveUp

LEMMA PayTypeKept == Base /\ [Next]_vars => PayTypeOK'
<1> SUFFICES ASSUME Base, [Next]_vars PROVE PayTypeOK'
  OBVIOUS
<1>0. PayTypeOK
  BY TypeParts DEF Base
<1>1. placed \subseteq placed'
  BY DbGrows
<1>2. CASE UNCHANGED payVars
  BY <1>0, <1>1, <1>2 DEF PayTypeOK, payVars
<1>3. CASE ConfirmPayment
  <2>1. /\ pays' = pays + 1 /\ pays' \in Pays /\ pays \in Nat
        /\ of' = [of EXCEPT ![pays'] = asked] /\ tries' = [tries EXCEPT ![pays'] = 1]
        /\ handler' = handler /\ receipts' = receipts /\ placed' = placed
        /\ asked \in placed
        /\ \A n \in Pays : n <= pays' <=> n <= pays \/ n = pays'
        /\ ~(pays' <= pays)
    BY <1>3, NewPayment
  <2>2. pays' \in 0 .. MaxPays /\ 1 \in 0 .. Hosts /\ asked \in placed \cup {NoOrder}
    BY <2>1, QueueAssumption, HostsAssumption, OrdersAssumption, TypeParts DEF Pays, Base, DbTypeOK
  <2>3. of' \in [Pays -> placed' \cup {NoOrder}] /\ tries' \in [Pays -> 0 .. Hosts]
    BY <1>0, <2>1, <2>2 DEF PayTypeOK
  <2>4. \A n \in Pays, i \in 1 .. Hosts : handler'[n][i] # "none" => i <= tries'[n] /\ n <= pays'
    BY <1>0, <2>1 DEF PayTypeOK
  <2> QED
    BY <1>0, <1>1, <2>1, <2>2, <2>3, <2>4 DEF PayTypeOK
<1>4. CASE TryNext
  <2>1. /\ tries' = [tries EXCEPT ![pays] = tries[pays] + 1] /\ ui = "paying"
        /\ tries[pays] < Hosts /\ UNCHANGED <<placed, pays, of, handler, receipts>>
    BY <1>4 DEF TryNext, dbVars
  <2>2. tries[pays] \in 1 .. Hosts /\ pays \in Pays
    BY <2>1, LatestPayment
  <2>3. tries[pays] + 1 \in 0 .. Hosts /\ \A i \in 1 .. Hosts : i <= tries[pays] => i <= tries[pays] + 1
    BY <2>1, <2>2, HostsAssumption
  <2> QED
    BY <1>0, <2>1, <2>2, <2>3 DEF PayTypeOK
<1>5. ASSUME NEW n \in Pays, NEW i \in 1 .. Hosts, Handler(n, i) PROVE PayTypeOK'
  <2>1. \E s \in HandlerStates : HandlerAt(n, i, s)
    BY <1>5 DEF Handler, PrintReceipt, Commit, Crash, HandlerStates
  <2>2. i <= tries[n]
    BY <1>0, <1>5 DEF Handler, PrintReceipt, Commit, Crash, PayTypeOK
  <2>3. n <= pays /\ of[n] \in placed
    BY <2>2, TryType
  <2>4. UNCHANGED <<placed, pays, of, tries>> /\ receipts' \in {receipts, receipts \cup {of[n]}}
    BY <1>5 DEF Handler, PrintReceipt, Commit, Crash, dbVars
  <2>5. /\ handler' \in [Pays -> [1 .. Hosts -> HandlerStates]]
        /\ \A m \in Pays, j \in 1 .. Hosts : (m # n \/ j # i) => handler'[m][j] = handler[m][j]
    BY <1>0, <2>1 DEF HandlerAt, PayTypeOK
  <2>6. \A m \in Pays, j \in 1 .. Hosts : handler'[m][j] # "none" => j <= tries'[m] /\ m <= pays'
    BY <1>0, <2>2, <2>3, <2>4, <2>5 DEF PayTypeOK
  <2> QED
    BY <1>0, <2>3, <2>4, <2>5, <2>6 DEF PayTypeOK
<1> QED
  BY ONLY [Next]_vars, <1>2, <1>3, <1>4, <1>5, NoPaymentStep DEF Next, Waiting

\* What the window asks and what was reported.
LEMMA ReportTypeKept == Base /\ [Next]_vars => ReportTypeOK' /\ AskedInv'
<1> SUFFICES ASSUME Base, [Next]_vars PROVE ReportTypeOK' /\ AskedInv'
  OBVIOUS
<1>0. ReportTypeOK /\ AskedInv /\ PayTypeOK /\ CardTypeOK
  BY TypeParts DEF Base
<1>1. placed \subseteq placed'
  BY DbGrows
<1>2. ASSUME UNCHANGED <<ui, asked, payVars, reported, failed>>, reoffered' \subseteq reported
      PROVE  ReportTypeOK' /\ AskedInv'
  BY <1>0, <1>1, <1>2 DEF ReportTypeOK, AskedInv, payVars
<1>3. CASE Others \/ Poll \/ PressRefresh \/ (\E o \in Orders : SelectCard(o)) \/ UNCHANGED vars
  BY <1>0, <1>2, <1>3
  DEF Others, PlaceOrder, PlacePrepaid, CancelOrder, ReopenOrder, OtherPays, Poll, PressRefresh, SelectCard,
      windowVars, historyVars, vars, ReportTypeOK
<1>4. CASE OnOrders
  BY <1>0, <1>2, <1>4 DEF OnOrders, ReportTypeOK
<1>5. CASE OpenDialog
  <2>1. detail \in placed /\ detail \in placed \cup {NoOrder}
    BY <1>0, <1>1, <1>5 DEF OpenDialog, CardTypeOK, NoOrder
  <2> QED
    BY <1>0, <1>5, <2>1
    DEF OpenDialog, ReportTypeOK, AskedInv, dbVars, payVars, historyVars, Screens
<1>6. CASE CancelDialog \/ CloseRecorded \/ CloseRecordedNoRefresh \/ CloseError
  <2>1. /\ ui' = "list" /\ asked' = NoOrder /\ UNCHANGED <<placed, payVars, reported, failed>>
        /\ reoffered' \subseteq reported
    BY <1>0, <1>6
    DEF CancelDialog, CloseRecorded, CloseRecordedNoRefresh, CloseError, AskedInv, ReportTypeOK,
        dbVars, historyVars
  <2> QED
    BY <1>0, <1>1, <2>1 DEF ReportTypeOK, AskedInv, payVars, Screens
<1>7. CASE ConfirmPayment
  <2>1. /\ pays' = pays + 1 /\ pays' \in Pays /\ pays \in Nat
        /\ of' = [of EXCEPT ![pays'] = asked] /\ tries' = [tries EXCEPT ![pays'] = 1]
        /\ placed' = placed /\ asked \in placed /\ asked' = asked /\ ui' = "paying"
        /\ \A n \in Pays : n <= pays' <=> n <= pays \/ n = pays'
    BY <1>7, NewPayment
  <2>2. UNCHANGED historyVars
    BY <1>7 DEF ConfirmPayment
  <2>3. pays' > 0 /\ 1 > 0 /\ 1 .. pays \subseteq 1 .. pays'
    BY <2>1
  <2>4. AskedInv'
    BY <1>0, <2>1, <2>3 DEF AskedInv, PayTypeOK
  <2> QED
    BY <1>0, <2>1, <2>2, <2>3, <2>4 DEF ReportTypeOK, historyVars, Screens
<1>8. CASE Answered
  <2>1. asked \in placed
    BY <1>8, LatestPayment DEF Answered
  <2> QED
    BY <1>0, <1>8, <2>1 DEF Answered, ReportTypeOK, AskedInv, dbVars, payVars, Screens
<1>9. CASE GiveUp
  <2>1. pays \in 1 .. pays
    BY <1>9, LatestPayment DEF GiveUp
  <2> QED
    BY <1>0, <1>9, <2>1 DEF GiveUp, ReportTypeOK, AskedInv, dbVars, payVars, Screens
<1>10. CASE TryNext
  <2>1. /\ tries' = [tries EXCEPT ![pays] = tries[pays] + 1]
        /\ UNCHANGED <<placed, ui, asked, pays, of, historyVars>>
    BY <1>10 DEF TryNext, dbVars, windowVars
  <2>2. tries[pays] \in 1 .. Hosts /\ pays \in Pays
    BY <1>10, LatestPayment DEF TryNext
  <2>3. tries[pays] + 1 > 0 /\ tries[pays] > 0
    BY <2>2
  <2>4. tries'[pays] = tries[pays] + 1 /\ \A n \in Pays \ {pays} : tries'[n] = tries[n]
    BY <1>0, <2>1, <2>2 DEF PayTypeOK
  <2>5. \A n \in Pays : tries'[n] > 0 <=> n <= pays
    BY <1>0, <2>2, <2>3, <2>4 DEF AskedInv
  <2>6. AskedInv'
    BY <1>0, <2>1, <2>5 DEF AskedInv, historyVars
  <2> QED
    BY <1>0, <2>1, <2>6 DEF ReportTypeOK, historyVars
<1>11. CASE \E n \in Pays, i \in 1 .. Hosts : Handler(n, i)
  <2>1. UNCHANGED <<placed, ui, asked, pays, of, tries, historyVars>>
    BY <1>11 DEF Handler, PrintReceipt, Commit, Crash, dbVars, windowVars
  <2> QED
    BY <1>0, <2>1 DEF ReportTypeOK, AskedInv, historyVars
<1> QED
  BY ONLY [Next]_vars, <1>3, <1>4, <1>5, <1>6, <1>7, <1>8, <1>9, <1>10, <1>11 DEF Next, Cashier, Waiting

LEMMA BaseHolds == Spec => []Base
<1>1. Base /\ [Next]_vars => Base'
  <2> SUFFICES ASSUME Base, [Next]_vars PROVE Base'
    OBVIOUS
  <2>1. DbTypeOK' /\ CardTypeOK' /\ InboxTypeOK' /\ PayTypeOK' /\ ReportTypeOK' /\ AskedInv'
    BY DbGrows, CardTypeKept, InboxTypeKept, PayTypeKept, ReportTypeKept
  <2>2. TypeOK'
    BY <2>1, TypeParts, PTL
  <2> QED
    BY <2>1, <2>2 DEF Base
<1> QED
  BY <1>1, BaseInit, PTL DEF Spec

\* Every variable keeps its type: cards, panel, dialog and payments are about orders
\* that exist, and only a payment that was sent has a handler.
THEOREM CashierTypeCorrect == Spec => []TypeOK
<1>1. Base => TypeOK
  BY DEF Base
<1> QED
  BY <1>1, BaseHolds, PTL

-----------------------------------------------------------------------------
(***************************************************************************)
(* What is marked as paid is paid, and what is printed is paid.            *)
(***************************************************************************)
StoredIsPaid ==
    \A n \in Pays, i \in 1 .. Hosts : handler[n][i] = "stored" => of[n] \in paid

\* A payment keeps its order from the moment it is sent.
LEMMA OrderOfPaymentStays ==
    ASSUME Base, [Next]_vars, NEW n \in Pays, n <= pays
    PROVE  of'[n] = of[n] /\ n <= pays'
<1>0. PayTypeOK
  BY TypeParts DEF Base
<1>1. CASE UNCHANGED payVars
  BY <1>1 DEF payVars
<1>2. CASE ConfirmPayment
  BY <1>0, <1>2, NewPayment DEF PayTypeOK
<1>3. CASE TryNext \/ \E m \in Pays, i \in 1 .. Hosts : Handler(m, i)
  BY <1>3 DEF TryNext, Handler, PrintReceipt, Commit, Crash
<1> QED
  BY ONLY [Next]_vars, <1>1, <1>2, <1>3, NoPaymentStep DEF Next, Waiting

\* Handlers move only by steps of their own.
LEMMA HandlerStep ==
    ASSUME Base, [Next]_vars
    PROVE  \/ UNCHANGED <<handler, receipts>>
           \/ \E n \in Pays, i \in 1 .. Hosts : Handler(n, i)
<1>1. ConfirmPayment \/ TryNext => UNCHANGED <<handler, receipts>>
  BY DEF ConfirmPayment, TryNext
<1> QED
  BY <1>1, NoPaymentStep DEF Next, Waiting, payVars

LEMMA OtherHandlersStay ==
    ASSUME PayTypeOK, NEW n \in Pays, NEW i \in 1 .. Hosts, Handler(n, i)
    PROVE  \A m \in Pays, j \in 1 .. Hosts : (m # n \/ j # i) => handler'[m][j] = handler[m][j]
<1>1. \E s \in HandlerStates : HandlerAt(n, i, s)
  BY DEF Handler, PrintReceipt, Commit, Crash, HandlerStates
<1> QED
  BY <1>1 DEF HandlerAt, PayTypeOK

LEMMA StoredIsPaidStep ==
    ASSUME Base, StoredIsPaid, [Next]_vars
    PROVE  StoredIsPaid'
<1>0. PayTypeOK /\ paid \subseteq paid'
  BY TypeParts, DbGrows DEF Base
<1>1. \A n \in Pays, i \in 1 .. Hosts : handler[n][i] # "none" => of'[n] = of[n]
  BY <1>0, OrderOfPaymentStays DEF PayTypeOK
<1>2. CASE UNCHANGED handler
  BY <1>0, <1>1, <1>2 DEF StoredIsPaid
<1>3. ASSUME NEW n \in Pays, NEW i \in 1 .. Hosts, Handler(n, i) PROVE StoredIsPaid'
  <2>1. of' = of
    BY <1>3 DEF Handler, PrintReceipt, Commit, Crash
  <2>2. \A m \in Pays, j \in 1 .. Hosts : (m # n \/ j # i) => handler'[m][j] = handler[m][j]
    BY <1>0, <1>3, OtherHandlersStay
  <2>3. handler'[n][i] = "stored" => of[n] \in paid'
    <3>1. CASE PrintReceipt(n, i)
      BY <1>0, <3>1 DEF PrintReceipt, HandlerAt, PayTypeOK
    <3>2. CASE Commit(n, i)
      BY <1>0, <3>2 DEF Commit, HandlerAt, PayTypeOK
    <3>3. CASE Crash(n, i)
      BY <1>0, <3>3 DEF Crash, HandlerAt, PayTypeOK
    <3> QED
      BY <1>3, <3>1, <3>2, <3>3 DEF Handler
  <2> QED
    BY <1>0, <2>1, <2>2, <2>3 DEF StoredIsPaid
<1> QED
  BY <1>2, <1>3, HandlerStep

\* What the cashier is told is marked as PAID is paid in the database.
THEOREM ReportedOrdersArePaid == Spec => []ReportedIsPaid
<1>1. Init => StoredIsPaid /\ ReportedIsPaid
  BY DEF Init, StoredIsPaid, ReportedIsPaid
<1>2. Base /\ StoredIsPaid /\ [Next]_vars => StoredIsPaid'
  BY StoredIsPaidStep
<1>3. Base /\ StoredIsPaid /\ ReportedIsPaid /\ [Next]_vars => ReportedIsPaid'
  <2> SUFFICES ASSUME Base, StoredIsPaid, ReportedIsPaid, [Next]_vars PROVE ReportedIsPaid'
    OBVIOUS
  <2>1. paid \subseteq paid'
    BY DbGrows
  <2>2. CASE Answered
    <3>1. asked \in paid
      BY <2>2, LatestPayment DEF Answered, StoredIsPaid
    <3> QED
      BY <2>1, <2>2, <3>1 DEF Answered, ReportedIsPaid
  <2>3. CASE UNCHANGED reported
    BY <2>1, <2>3 DEF ReportedIsPaid
  <2>4. CASE Cashier \/ Others \/ Poll \/ OnOrders \/ TryNext \/ GiveUp \/ UNCHANGED vars
    BY <2>3, <2>4
    DEF Cashier, PressRefresh, SelectCard, OpenDialog, CancelDialog, ConfirmPayment, CloseRecorded,
        CloseRecordedNoRefresh, CloseError, Others, PlaceOrder, PlacePrepaid, CancelOrder, ReopenOrder, OtherPays,
        Poll, OnOrders, TryNext, GiveUp, historyVars, vars
  <2>5. CASE \E n \in Pays, i \in 1 .. Hosts : Handler(n, i)
    BY <2>3, <2>5 DEF Handler, PrintReceipt, Commit, Crash, historyVars
  <2> QED
    BY ONLY [Next]_vars, <2>2, <2>4, <2>5 DEF Next, Waiting
<1> QED
  BY <1>1, <1>2, <1>3, BaseHolds, PTL DEF Spec

LEMMA GhostStep ==
    ASSUME Base, GhostReceiptNeedsCrash, [Next]_vars
    PROVE  GhostReceiptNeedsCrash'
<1>0. PayTypeOK /\ DbTypeOK /\ paid \subseteq paid'
  BY TypeParts, DbGrows DEF Base
<1>1. crashes \in Nat /\ pays \in Nat /\ \A n \in 1 .. pays : n \in Pays /\ n <= pays
  BY <1>0, OrdersAssumption, QueueAssumption DEF DbTypeOK, PayTypeOK, Pays
<1>2. \A n \in 1 .. pays : n \in 1 .. pays' /\ of'[n] = of[n]
  <2>1. pays' \in Nat
    BY PayTypeKept, QueueAssumption DEF PayTypeOK
  <2> QED
    BY <1>1, <2>1, OrderOfPaymentStays
<1>3. CASE UNCHANGED <<handler, receipts>>
  <2>1. crashes' = crashes \/ \E n \in Pays, i \in 1 .. Hosts : Crash(n, i)
    BY DEF Next, Others, PlaceOrder, PlacePrepaid, CancelOrder, ReopenOrder, OtherPays, Cashier, PressRefresh,
           SelectCard, OpenDialog, CancelDialog, ConfirmPayment, CloseRecorded, CloseRecordedNoRefresh,
           CloseError, Poll, OnOrders, Waiting, Answered, TryNext, GiveUp, Handler, PrintReceipt,
           Commit, dbVars, vars
  <2>2. crashes > 0 => crashes' > 0
    BY <1>1, <2>1 DEF Crash
  <2> QED
    BY <1>0, <1>2, <1>3, <2>2 DEF GhostReceiptNeedsCrash
<1>4. ASSUME NEW n \in Pays, NEW i \in 1 .. Hosts, Handler(n, i) PROVE GhostReceiptNeedsCrash'
  <2>1. \A m \in Pays, j \in 1 .. Hosts : (m # n \/ j # i) => handler'[m][j] = handler[m][j]
    BY <1>0, <1>4, OtherHandlersStay
  <2>2. CASE PrintReceipt(n, i)
    <3>1. n \in 1 .. pays /\ pays' = pays /\ of' = of /\ crashes' = crashes
      BY <1>1, <2>2, TryType DEF PrintReceipt, dbVars, Pays
    <3>2. handler'[n][i] = "open" /\ handler[n][i] = "none" /\ receipts' \subseteq receipts \cup {of[n]}
      BY <1>0, <2>2 DEF PrintReceipt, HandlerAt, PayTypeOK
    <3> QED
      BY <1>0, <1>1, <2>1, <3>1, <3>2 DEF GhostReceiptNeedsCrash
  <2>3. CASE Commit(n, i)
    <3>1. /\ pays' = pays /\ of' = of /\ crashes' = crashes /\ receipts' = receipts
          /\ of[n] \in paid'
      BY <2>3 DEF Commit
    <3> QED
      BY <1>0, <1>1, <2>1, <3>1 DEF GhostReceiptNeedsCrash
  <2>4. CASE Crash(n, i)
    BY <1>1, <2>4 DEF Crash, GhostReceiptNeedsCrash
  <2> QED
    BY <1>4, <2>2, <2>3, <2>4 DEF Handler
<1> QED
  BY <1>3, <1>4, HandlerStep

\* A receipt printed for an order that is not paid belongs to a handler still at work,
\* or to a crash after printing.
THEOREM GhostReceiptsAreCrashes == Spec => []GhostReceiptNeedsCrash
<1>1. Init => GhostReceiptNeedsCrash
  BY DEF Init, GhostReceiptNeedsCrash
<1> QED
  BY <1>1, GhostStep, BaseHolds, PTL DEF Spec

-----------------------------------------------------------------------------
(***************************************************************************)
(* Taking a payment twice.                                                 *)
(***************************************************************************)

\* The panel shows the order selected; an order reported as paid that has a card again,
\* or is in a dialog again, was listed again; and each payment before the one the
\* window waits for was reported, one way or the other.
ReportInv ==
    /\ detail = selected
    /\ reported \cap cards \subseteq reoffered \cup (IF ui = "recorded" THEN {asked} ELSE {})
    /\ ui \in {"dialog", "paying"} /\ asked \in reported => asked \in reoffered
    /\ \A m \in 1 .. pays :
           m \in failed \/ of[m] \in reported \/ (ui = "paying" /\ m = pays)

SecondInv == ReportInv /\ SecondPaymentHasCause

LEMMA SecondInvInit == Init => SecondInv
<1> SUFFICES ASSUME Init PROVE SecondInv
  OBVIOUS
<1>1. 1 .. pays = {}
  BY DEF Init
<1> QED
  BY <1>1 DEF Init, SecondInv, ReportInv, SecondPaymentHasCause, NoOrder

\* A list replaces the cards, and with a card that goes the selection.
LEMMA SelectionFollows ==
    ASSUME Base, detail = selected, NEW list, list \subseteq placed, ShowOrders(list)
    PROVE  detail' = selected' /\ cards' = list
<1>1. selected \in cards \cup {NoOrder} /\ NoOrder \notin list
  BY TypeParts, NoOrderIsNone DEF Base, CardTypeOK, DbTypeOK
<1> QED
  BY <1>1 DEF ShowOrders

\* A step of the window in which no payment begins or ends.
LEMMA SecondInvQuiet ==
    ASSUME Base, SecondInv, UNCHANGED <<pays, of, failed, reported>>, reoffered \subseteq reoffered',
           detail' = selected',
           reported \cap cards' \subseteq reoffered' \cup (IF ui' = "recorded" THEN {asked'} ELSE {}),
           ui' \in {"dialog", "paying"} /\ asked' \in reported => asked' \in reoffered',
           ui = "paying" => ui' = "paying"
    PROVE  SecondInv'
BY DEF SecondInv, ReportInv, SecondPaymentHasCause

LEMMA SecondInvStep ==
    ASSUME Base, ReportedIsPaid, SecondInv, [Next]_vars
    PROVE  SecondInv'
<1>0. DbTypeOK /\ CardTypeOK /\ InboxTypeOK /\ PayTypeOK /\ ReportTypeOK /\ AskedInv
  BY TypeParts DEF Base
<1>1. CASE UNCHANGED <<pays, of, windowVars, historyVars>>
  BY <1>1, SecondInvQuiet DEF windowVars, historyVars, SecondInv, ReportInv
<1>2. CASE \/ Others \/ TryNext \/ UNCHANGED vars
           \/ \E n \in Pays, i \in 1 .. Hosts : Handler(n, i)
  BY <1>1, <1>2
  DEF Others, PlaceOrder, PlacePrepaid, CancelOrder, ReopenOrder, OtherPays, TryNext, Handler, PrintReceipt, Commit,
      Crash, vars, payVars
<1>3. CASE Poll
  BY <1>3, SecondInvQuiet DEF Poll, payVars, historyVars, SecondInv, ReportInv
<1>4. CASE OnOrders
  <2>1. Head(inbox).orders \subseteq placed
    BY <1>0, <1>4, FirstList DEF OnOrders
  <2>2. detail' = selected' /\ cards' = Head(inbox).orders
    BY <1>4, <2>1, SelectionFollows DEF OnOrders, SecondInv, ReportInv
  <2> QED
    BY <1>4, <2>2, SecondInvQuiet DEF OnOrders, payVars, SecondInv, ReportInv
<1>5. CASE PressRefresh \/ CloseRecorded
  <2>1. detail' = selected' /\ cards' = Listed
    BY <1>0, <1>5, SelectionFollows, ListedExist
    DEF PressRefresh, CloseRecorded, Refresh, SecondInv, ReportInv
  <2>2. reported \cap Listed = {}
    BY DEF Listed, Due, ReportedIsPaid
  <2> QED
    BY <1>5, <2>1, <2>2, SecondInvQuiet
    DEF PressRefresh, CloseRecorded, payVars, historyVars, SecondInv, ReportInv
<1>6. ASSUME NEW o \in Orders, SelectCard(o) PROVE SecondInv'
  BY <1>6, SecondInvQuiet DEF SelectCard, payVars, historyVars, SecondInv, ReportInv
<1>7. CASE OpenDialog
  <2>1. asked' \in cards
    BY <1>0, <1>7 DEF OpenDialog, CardTypeOK, SecondInv, ReportInv
  <2> QED
    BY <1>7, <2>1, SecondInvQuiet DEF OpenDialog, payVars, historyVars, SecondInv, ReportInv
<1>8. CASE CancelDialog \/ CloseError \/ CloseRecordedNoRefresh
  BY <1>8, SecondInvQuiet
  DEF CancelDialog, CloseError, CloseRecordedNoRefresh, payVars, historyVars, SecondInv, ReportInv
<1>9. CASE ConfirmPayment
  <2>1. /\ pays' = pays + 1 /\ pays' \in Pays /\ pays \in Nat
        /\ of' = [of EXCEPT ![pays'] = asked] /\ asked' = asked /\ ui' = "paying"
    BY <1>9, NewPayment
  <2>2. UNCHANGED <<cards, selected, detail, historyVars>> /\ ui = "dialog"
    BY <1>9 DEF ConfirmPayment
  <2>3. \A m \in 1 .. pays' : m = pays' \/ m \in 1 .. pays
    BY <2>1
  <2>4. \A m \in 1 .. pays : m \in Pays /\ m # pays'
    BY <2>1, QueueAssumption DEF Pays
  <2>5. of'[pays'] = asked /\ \A m \in 1 .. pays : of'[m] = of[m]
    BY <1>0, <2>1, <2>4 DEF PayTypeOK
  <2>6. \A m \in 1 .. pays : m \in failed \/ of[m] \in reported
    BY <2>2 DEF SecondInv, ReportInv
  <2>7. asked \in reported => asked \in reoffered
    BY <2>2 DEF SecondInv, ReportInv
  <2>8. ReportInv'
    <3>1. \A m \in 1 .. pays' : m \in failed \/ of'[m] \in reported \/ m = pays'
      BY <2>3, <2>5, <2>6
    <3>2. detail = selected /\ reported \cap cards \subseteq reoffered
      BY <2>2 DEF SecondInv, ReportInv
    <3>3. ui' # "recorded" /\ UNCHANGED <<cards, selected, detail, asked, reported, failed, reoffered>>
      BY <2>1, <2>2 DEF historyVars
    <3>4. \A m \in 1 .. pays' : m \in failed' \/ of'[m] \in reported' \/ (ui' = "paying" /\ m = pays')
      BY <2>1, <3>1, <3>3
    <3>5. detail' = selected'
      BY <3>2, <3>3
    <3>6. reported' \cap cards' \subseteq reoffered' \cup (IF ui' = "recorded" THEN {asked'} ELSE {})
      BY ONLY <3>2, <3>3
    <3>7. ui' \in {"dialog", "paying"} /\ asked' \in reported' => asked' \in reoffered'
      BY ONLY <2>7, <3>3
    <3> QED
      BY ONLY <3>4, <3>5, <3>6, <3>7 DEF ReportInv
  <2>9. ASSUME NEW m \in 1 .. pays', NEW n \in 1 .. pays', m < n, of'[m] = of'[n]
        PROVE  m \in failed' \/ of'[m] \in reoffered'
    <3>1. m \in 1 .. pays
      BY <2>1, <2>9
    <3>2. CASE n = pays'
      BY <2>2, <2>5, <2>6, <2>7, <2>9, <3>1, <3>2 DEF historyVars
    <3>3. CASE n \in 1 .. pays
      BY <2>2, <2>5, <2>9, <3>1, <3>3 DEF SecondInv, SecondPaymentHasCause, historyVars
    <3> QED
      BY <2>3, <3>2, <3>3
  <2> QED
    BY <2>8, <2>9 DEF SecondInv, SecondPaymentHasCause
<1>10. CASE Answered \/ GiveUp
  <2>1. of[pays] = asked
    BY <1>10, LatestPayment DEF Answered, GiveUp
  <2>2. /\ UNCHANGED <<cards, selected, detail, asked, pays, of, reoffered>> /\ ui = "paying"
        /\ \/ ui' = "recorded" /\ reported' = reported \cup {asked} /\ failed' = failed
           \/ ui' = "error" /\ reported' = reported /\ failed' = failed \cup {pays}
    BY <1>10 DEF Answered, GiveUp, payVars
  <2>3. ReportInv'
    BY <2>1, <2>2 DEF ReportInv, SecondInv
  <2> QED
    BY <2>2, <2>3 DEF SecondInv, SecondPaymentHasCause
<1> QED
  BY ONLY [Next]_vars, <1>2, <1>3, <1>4, <1>5, <1>6, <1>7, <1>8, <1>9, <1>10 DEF Next, Cashier, Waiting

\* The station takes the payment of an order again only after the payment before was
\* reported as failed, or the order was listed again although it was reported as paid.
THEOREM SecondPaymentExplained == Spec => []SecondPaymentHasCause
<1>1. SecondInv => SecondPaymentHasCause
  BY DEF SecondInv
<1>2. Base /\ ReportedIsPaid /\ SecondInv /\ [Next]_vars => SecondInv'
  BY SecondInvStep
<1> QED
  BY <1>1, <1>2, SecondInvInit, BaseHolds, ReportedOrdersArePaid, PTL DEF Spec

-----------------------------------------------------------------------------
(***************************************************************************)
(* Cards that vanish.                                                      *)
(***************************************************************************)

\* Orders are pushed out of the window and do not come back.
PushedOut(o) == Cardinality(Younger(o)) >= Window

\* An order that is not on a list read was not to be paid then, or was pushed out.
ListsInv ==
    \A k \in 1 .. Len(inbox) : \A o \in placed \ inbox[k].orders :
        o \in inbox[k].due => PushedOut(o)

\* Those younger than an order are counted by a number.
LEMMA YoungerCounted ==
    ASSUME DbTypeOK, NEW o
    PROVE  IsFiniteSet(Younger(o)) /\ Cardinality(Younger(o)) \in Nat
<1>1. IsFiniteSet(Orders)
  BY FS_Interval, OrdersAssumption DEF Orders
<1>2. Younger(o) \subseteq Orders
  BY DEF Younger, DbTypeOK
<1> QED
  BY <1>1, <1>2, FS_Subset, FS_CardinalityType

LEMMA PushedOutStays ==
    ASSUME DbTypeOK, DbTypeOK', placed \subseteq placed', NEW o, PushedOut(o)
    PROVE  PushedOut(o)'
<1> DEFINE young == Cardinality(Younger(o))
           youngNext == Cardinality(Younger(o)')
<1>1. young \in Nat
  BY YoungerCounted
<1>2. IsFiniteSet(Younger(o)') /\ youngNext \in Nat
  <2>1. IsFiniteSet(Orders)
    BY FS_Interval, OrdersAssumption DEF Orders
  <2>2. Younger(o)' \subseteq Orders
    BY DEF Younger, DbTypeOK
  <2> QED
    BY <2>1, <2>2, FS_Subset, FS_CardinalityType
<1>3. Younger(o) \subseteq Younger(o)'
  BY DEF Younger
<1>4. young <= youngNext
  BY <1>2, <1>3, FS_Subset
<1>5. young >= Window
  BY DEF PushedOut
<1> HIDE DEF young, youngNext
<1>6. youngNext >= Window
  BY <1>1, <1>2, <1>4, <1>5, WindowAssumption
<1> QED
  BY <1>6 DEF PushedOut, youngNext

\* A list just read leaves out only orders that are settled or too old.
LEMMA ListedExcuses == DbTypeOK => \A o \in placed \ Listed : o \in Due => PushedOut(o)
<1> SUFFICES ASSUME DbTypeOK, NEW o \in placed \ Listed, o \in Due PROVE PushedOut(o)
  OBVIOUS
<1>1. ~(Cardinality(Younger(o)) < Window)
  BY DEF Listed, Latest
<1>2. Cardinality(Younger(o)) \in Nat
  BY YoungerCounted
<1> QED
  BY <1>1, <1>2, WindowAssumption DEF PushedOut

LEMMA ListsInvStep ==
    ASSUME Base, ListsInv, [Next]_vars
    PROVE  ListsInv'
<1>0. DbTypeOK /\ InboxTypeOK
  BY TypeParts DEF Base
<1>1. DbTypeOK' /\ placed \subseteq placed'
  BY DbGrows
<1>2. \A o : PushedOut(o) => PushedOut(o)'
  BY <1>0, <1>1, PushedOutStays
<1>3. ASSUME NEW k \in 1 .. Len(inbox), NEW o \in placed' \ inbox[k].orders, o \in inbox[k].due
      PROVE  PushedOut(o)'
  <2>1. o \in placed
    BY <1>0, <1>3 DEF InboxTypeOK
  <2> QED
    BY <1>2, <1>3, <2>1 DEF ListsInv
<1>4. CASE UNCHANGED inbox
  BY <1>3, <1>4 DEF ListsInv
<1>5. CASE Poll
  <2> DEFINE list == [orders |-> Listed, due |-> Due]
  <2>1. inbox' = Append(inbox, list) /\ placed' = placed
    BY <1>5 DEF Poll, dbVars
  <2>2. inbox \in Seq(ListRecord) /\ Len(inbox) \in Nat
    BY <1>0 DEF InboxTypeOK
  <2>3. \A o \in placed \ list.orders : o \in list.due => PushedOut(o)
    BY <1>0, ListedExcuses
  <2> HIDE DEF list
  <2>4. Len(inbox') = Len(inbox) + 1 /\ inbox'[Len(inbox) + 1] = list
        /\ \A k \in 1 .. Len(inbox) : inbox'[k] = inbox[k]
    BY <2>1, <2>2
  <2>5. \A k \in 1 .. Len(inbox') : k = Len(inbox) + 1 \/ k \in 1 .. Len(inbox)
    BY <2>2, <2>4
  <2>6. \A k \in 1 .. Len(inbox') : \A o \in placed \ inbox'[k].orders :
            o \in inbox'[k].due => PushedOut(o)
    BY <2>3, <2>4, <2>5 DEF ListsInv
  <2> QED
    BY <1>2, <2>1, <2>6 DEF ListsInv
<1>6. CASE OnOrders
  <2>1. inbox # <<>> /\ inbox' = Tail(inbox)
    BY <1>6 DEF OnOrders
  <2>2. inbox \in Seq(ListRecord) /\ Len(inbox) \in Nat
    BY <1>0 DEF InboxTypeOK
  <2>3. Len(inbox') = Len(inbox) - 1 /\ \A k \in 1 .. Len(inbox) - 1 : inbox'[k] = inbox[k + 1]
    BY <2>1, <2>2
  <2>4. \A k \in 1 .. Len(inbox) - 1 : k + 1 \in 1 .. Len(inbox)
    BY <2>2
  <2> QED
    BY <1>3, <2>3, <2>4 DEF ListsInv
<1>7. CASE Cashier \/ Others \/ Waiting \/ UNCHANGED vars
  BY <1>4, <1>7
  DEF Cashier, PressRefresh, SelectCard, OpenDialog, CancelDialog, ConfirmPayment, CloseRecorded,
      CloseRecordedNoRefresh, CloseError, Others, PlaceOrder, PlacePrepaid, CancelOrder, ReopenOrder, OtherPays,
      Waiting, Answered, TryNext, GiveUp, windowVars, vars
<1>8. CASE \E n \in Pays, i \in 1 .. Hosts : Handler(n, i)
  BY <1>4, <1>8 DEF Handler, PrintReceipt, Commit, Crash, windowVars
<1> QED
  BY ONLY [Next]_vars, <1>5, <1>6, <1>7, <1>8 DEF Next

\* An order that is still to be paid loses its card only by being pushed out of the
\* window, or for the time being by a list read before its handler had committed or while
\* it was cancelled.
THEOREM VanishExplained == Spec => VanishHasCause
<1> DEFINE Cause(o) ==
        \/ o \notin Due
        \/ Cardinality(Younger(o)) >= Window
        \/ inbox # <<>> /\ inbox' = Tail(inbox) /\ o \notin Head(inbox).due
<1>1. Init => ListsInv
  BY DEF Init, ListsInv
<1>2. Base /\ ListsInv /\ [Next]_vars => ListsInv'
  BY ListsInvStep
<1>3. Base /\ ListsInv /\ [Next]_vars => [\A o \in cards \ cards' : Cause(o)]_vars
  <2> SUFFICES ASSUME Base, ListsInv, [Next]_vars, NEW o \in cards, o \notin cards' PROVE Cause(o)
    OBVIOUS
  <2>0. CardTypeOK /\ DbTypeOK /\ InboxTypeOK /\ o \in placed
    BY TypeParts DEF Base, CardTypeOK
  <2>1. CASE PressRefresh \/ CloseRecorded
    <3>1. o \in placed \ Listed
      BY <2>0, <2>1 DEF PressRefresh, CloseRecorded, Refresh, ShowOrders
    <3> QED
      BY <2>0, <3>1, ListedExcuses DEF PushedOut
  <2>2. CASE OnOrders
    <3>1. inbox # <<>> /\ inbox' = Tail(inbox) /\ o \notin Head(inbox).orders
      BY <2>2 DEF OnOrders, ShowOrders
    <3>2. Head(inbox) = inbox[1] /\ 1 \in 1 .. Len(inbox)
      BY <2>0, <3>1, FirstList
    <3>3. o \in Head(inbox).due => PushedOut(o)
      BY <2>0, <3>1, <3>2 DEF ListsInv
    <3> QED
      BY <3>1, <3>3 DEF PushedOut
  <2>3. CASE \/ \E c \in Orders : SelectCard(c)
             \/ OpenDialog \/ CancelDialog \/ ConfirmPayment \/ CloseRecordedNoRefresh \/ CloseError
             \/ Others \/ Poll \/ Waiting \/ UNCHANGED vars
             \/ \E n \in Pays, i \in 1 .. Hosts : Handler(n, i)
    <3>1. cards' = cards
      BY <2>3
      DEF SelectCard, OpenDialog, CancelDialog, ConfirmPayment, CloseRecordedNoRefresh, CloseError, Others,
          PlaceOrder, PlacePrepaid, CancelOrder, ReopenOrder, OtherPays, Poll, Waiting, Answered, TryNext, GiveUp,
          Handler, PrintReceipt, Commit, Crash, windowVars, vars
    <3> QED
      BY <3>1
  <2> HIDE DEF Cause
  <2> QED
    BY ONLY [Next]_vars, <2>1, <2>2, <2>3 DEF Next, Cashier
<1> QED
  BY <1>1, <1>2, <1>3, BaseHolds, PTL DEF Spec, VanishHasCause

-----------------------------------------------------------------------------
(***************************************************************************)
(* Station and handlers implement the ledger.                              *)
(***************************************************************************)

\* The payments as entries.
Paid == [o \in Orders |-> IF o \in paid THEN 1 ELSE 0]

\* To pay an order that is not paid is to enter it.
LEMMA PayingEnters ==
    ASSUME NEW o \in Orders, o \notin paid, paid' = paid \cup {o}, reported' = reported
    PROVE  PaymentLedger!Next
<1>1. Paid[o] = 0
  BY DEF Paid
<1>2. Paid' = [Paid EXCEPT ![o] = 1]
  BY DEF Paid
<1>3. PaymentLedger!Enter(o) <=>
          (o \in Orders => Paid[o] = 0) /\ Paid' = [Paid EXCEPT ![o] = Paid[o] + 1] /\ UNCHANGED reported
  BY DEF PaymentLedger!Enter, Paid
<1>4. PaymentLedger!Enter(o)
  BY <1>1, <1>2, <1>3
<1> QED
  BY <1>4 DEF PaymentLedger!Next

\* Every step is one of the ledger or leaves it alone: the station pays what is unpaid or
\* changes nothing, and what it reports has been paid.
LEMMA LedgerStep ==
    ASSUME Base, StoredIsPaid, [Next]_vars
    PROVE  [PaymentLedger!Next]_<<Paid, reported>>
<1>0. DbTypeOK /\ PayTypeOK
  BY TypeParts DEF Base
<1>1. ASSUME NEW o \in Orders, paid' = paid \cup {o}, reported' = reported
      PROVE  [PaymentLedger!Next]_<<Paid, reported>>
  <2>1. CASE o \in paid
    BY <1>1, <2>1 DEF Paid
  <2>2. CASE o \notin paid
    BY <1>1, <2>2, PayingEnters
  <2> QED
    BY <2>1, <2>2
<1>2. ASSUME NEW o \in Orders, PlacePrepaid(o) PROVE [PaymentLedger!Next]_<<Paid, reported>>
  BY <1>1, <1>2 DEF PlacePrepaid, historyVars
<1>3. ASSUME NEW o \in Orders, OtherPays(o) PROVE [PaymentLedger!Next]_<<Paid, reported>>
  BY <1>1, <1>3 DEF OtherPays, historyVars
<1>4. ASSUME NEW n \in Pays, NEW i \in 1 .. Hosts, Commit(n, i)
      PROVE  [PaymentLedger!Next]_<<Paid, reported>>
  <2>1. of[n] \in placed
    BY <1>0, <1>4, TryType DEF Commit, PayTypeOK
  <2>2. of[n] \in Orders
    BY <1>0, <2>1, OrdersAssumption DEF DbTypeOK, Orders
  <2> QED
    BY <1>1, <1>4, <2>2 DEF Commit, historyVars
<1>5. CASE Answered
  <2>1. asked \in paid /\ asked \in Orders
    BY <1>0, <1>5, LatestPayment, OrdersAssumption DEF Answered, StoredIsPaid, DbTypeOK, Orders
  <2>2. Paid[asked] > 0 /\ Paid' = Paid /\ reported' = reported \cup {asked}
    BY <1>5, <2>1 DEF Answered, dbVars, Paid
  <2> QED
    BY <2>1, <2>2 DEF PaymentLedger!Next, PaymentLedger!Tell, Paid
<1>6. CASE UNCHANGED <<paid, reported>>
  BY <1>6 DEF Paid
<1>7. CASE Cashier \/ Poll \/ OnOrders \/ TryNext \/ GiveUp \/ UNCHANGED vars
  BY <1>6, <1>7
  DEF Cashier, PressRefresh, SelectCard, OpenDialog, CancelDialog, ConfirmPayment, CloseRecorded,
      CloseRecordedNoRefresh, CloseError, Poll, OnOrders, TryNext, GiveUp, historyVars, dbVars, vars
<1>8. CASE \E o \in Orders : PlaceOrder(o) \/ CancelOrder(o) \/ ReopenOrder(o)
  BY <1>6, <1>8 DEF PlaceOrder, CancelOrder, ReopenOrder, historyVars
<1>9. CASE \E n \in Pays, i \in 1 .. Hosts : PrintReceipt(n, i) \/ Crash(n, i)
  BY <1>6, <1>9 DEF PrintReceipt, Crash, historyVars, dbVars
<1> QED
  BY ONLY [Next]_vars, <1>2, <1>3, <1>4, <1>5, <1>7, <1>8, <1>9 DEF Next, Others, Waiting, Handler

\* Station, handlers and everybody else implement the ledger: a payment is never undone,
\* and the cashier is told only of payments that are entered.
THEOREM PaymentsKeepLedger == Spec => ImplementsLedger
<1>1. Init => StoredIsPaid /\ PaymentLedger!Init
  BY DEF Init, StoredIsPaid, PaymentLedger!Init
<1>2. Base /\ StoredIsPaid /\ [Next]_vars => StoredIsPaid'
  BY StoredIsPaidStep
<1> QED
  BY <1>1, <1>2, BaseHolds, LedgerStep, PTL
  DEF Spec, ImplementsLedger, PaymentLedger!Spec, Paid

=============================================================================
