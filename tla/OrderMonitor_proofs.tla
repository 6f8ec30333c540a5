------------------------ MODULE OrderMonitor_proofs ------------------------
(***************************************************************************)
(* Theorems about OrderMonitor, for any sequence of queue numbers, any     *)
(* column limit and any number of orders.                                  *)
(***************************************************************************)
EXTENDS OrderMonitor, FiniteSetTheorems, SequenceTheorems, FunctionTheorems, TLAPS

(***************************************************************************)
(* Queue numbers.                                                          *)
(***************************************************************************)

\* Two orders inserted one after the other have numbers in that order, as long as the
\* sequence does not cycle between them.
NumbersInTurn ==
    \A o, p \in 1 .. drawn : o < p => number[o] < number[p] \/ era[o] < era[p]

NumberTypeOK ==
    /\ drawn \in 0 .. MaxOrders
    /\ number \in [Orders -> 0 .. MaxNumber]
    /\ era \in [Orders -> 0 .. MaxCycles + MaxOrders]
    /\ seq \in [next : 1 .. MaxNumber, cycles : 0 .. MaxCycles + drawn]

\* The sequence is past every number drawn in this cycle, and never goes back a cycle.
SequenceAhead ==
    \A o \in 1 .. drawn :
        /\ number[o] \in 1 .. MaxNumber
        /\ era[o] < seq.cycles \/ (era[o] = seq.cycles /\ number[o] < seq.next)

NumberInv == NumberTypeOK /\ SequenceAhead /\ NumbersInTurn

\* nextval moves on in the cycle or begins the next one.
LEMMA SequenceStep ==
    ASSUME NumberTypeOK, StepSequence
    PROVE  /\ seq' \in [next : 1 .. MaxNumber, cycles : Nat]
           /\ \/ seq'.cycles = seq.cycles /\ seq'.next = seq.next + 1
              \/ seq'.cycles = seq.cycles + 1 /\ seq.next = MaxNumber
BY NumberAssumption DEF NumberTypeOK, StepSequence

LEMMA NumberInvInit == Init => NumberInv
<1> SUFFICES ASSUME Init PROVE NumberInv
  OBVIOUS
<1>1. NumberTypeOK
  BY NumberAssumption, BoundAssumption DEF Init, NumberTypeOK
<1>2. 1 .. drawn = {}
  BY DEF Init
<1> QED
  BY <1>1, <1>2 DEF NumberInv, SequenceAhead, NumbersInTurn

\* Whatever is drawn is past all that was drawn before.
LEMMA NumberInvInsert ==
    ASSUME NumberInv, NEW o \in Orders, Insert(o)
    PROVE  NumberInv'
<1>1. NumberTypeOK /\ SequenceAhead /\ NumbersInTurn
  BY DEF NumberInv
<1>2. /\ o = drawn + 1 /\ drawn' = o /\ StepSequence
      /\ number' = [number EXCEPT ![o] = seq.next] /\ era' = [era EXCEPT ![o] = seq.cycles]
  BY DEF Insert, NextVal
<1>3. /\ seq' \in [next : 1 .. MaxNumber, cycles : Nat]
      /\ \/ seq'.cycles = seq.cycles /\ seq'.next = seq.next + 1
         \/ seq'.cycles = seq.cycles + 1 /\ seq.next = MaxNumber
  BY <1>1, <1>2, SequenceStep
<1>4. seq.next \in 1 .. MaxNumber /\ seq.cycles \in Nat /\ MaxNumber \in Nat /\ drawn \in Nat
  BY <1>1, NumberAssumption DEF NumberTypeOK
<1>5. NumberTypeOK'
  <2>1. o \in 0 .. MaxOrders /\ seq.cycles \in 0 .. MaxCycles + drawn
    BY <1>1, <1>2, <1>4, BoundAssumption DEF NumberTypeOK, Orders
  <2>2. seq.cycles \in 0 .. MaxCycles + MaxOrders
    BY <1>2, <1>4, <2>1, BoundAssumption
  <2>3. /\ number' \in [Orders -> 0 .. MaxNumber]
        /\ era' \in [Orders -> 0 .. MaxCycles + MaxOrders]
    BY <1>1, <1>2, <1>4, <2>2 DEF NumberTypeOK
  <2>4. seq'.cycles \in 0 .. MaxCycles + drawn'
    BY <1>2, <1>3, <1>4, <2>1, BoundAssumption
  <2> QED
    BY <1>2, <1>3, <2>1, <2>3, <2>4 DEF NumberTypeOK
<1>6. \A p \in 1 .. drawn' : p = o \/ p \in 1 .. drawn
  BY <1>2, <1>4
<1>7. /\ number'[o] = seq.next /\ era'[o] = seq.cycles
      /\ \A p \in 1 .. drawn : number'[p] = number[p] /\ era'[p] = era[p] /\ p # o
  BY <1>1, <1>2, <1>4 DEF NumberTypeOK
<1>8. \A p \in 1 .. drawn : era[p] \in Nat /\ number[p] \in 1 .. MaxNumber
          /\ (era[p] < seq.cycles \/ (era[p] = seq.cycles /\ number[p] < seq.next))
  BY <1>1, <1>4, BoundAssumption DEF NumberTypeOK, SequenceAhead, Orders
<1>9. SequenceAhead'
  BY <1>3, <1>4, <1>6, <1>7, <1>8 DEF SequenceAhead
<1>10. NumbersInTurn'
  <2> SUFFICES ASSUME NEW p \in 1 .. drawn', NEW q \in 1 .. drawn', p < q
               PROVE  number'[p] < number'[q] \/ era'[p] < era'[q]
    BY DEF NumbersInTurn
  <2>1. p \in 1 .. drawn
    BY <1>2, <1>4
  <2>2. CASE q = o
    BY <1>7, <1>8, <2>1, <2>2
  <2>3. CASE q \in 1 .. drawn
    BY <1>1, <1>7, <2>1, <2>3 DEF NumbersInTurn
  <2> QED
    BY <1>6, <2>2, <2>3
<1> QED
  BY <1>5, <1>9, <1>10 DEF NumberInv

LEMMA NumberInvStep == NumberInv /\ [Next]_vars => NumberInv'
<1> SUFFICES ASSUME NumberInv, [Next]_vars PROVE NumberInv'
  OBVIOUS
<1>1. CASE UNCHANGED <<drawn, number, era, seq>>
  BY <1>1 DEF NumberInv, NumberTypeOK, SequenceAhead, NumbersInTurn
<1>2. CASE LoseInsert
  <2>1. NumberTypeOK /\ SequenceAhead /\ StepSequence /\ UNCHANGED <<drawn, number, era>>
    BY <1>2 DEF NumberInv, LoseInsert
  <2>0. seq.cycles < MaxCycles
    BY <1>2 DEF LoseInsert
  <2>2. /\ seq' \in [next : 1 .. MaxNumber, cycles : Nat]
        /\ \/ seq'.cycles = seq.cycles /\ seq'.next = seq.next + 1
           \/ seq'.cycles = seq.cycles + 1 /\ seq.next = MaxNumber
    BY <2>1, SequenceStep
  <2>3. \A o \in 1 .. drawn : era[o] \in Nat /\ number[o] \in 1 .. MaxNumber
    BY <2>1, BoundAssumption DEF NumberTypeOK, SequenceAhead, Orders
  <2>4. SequenceAhead'
    BY <2>1, <2>2, <2>3, NumberAssumption DEF NumberTypeOK, SequenceAhead
  <2>5. NumberTypeOK'
    BY <2>0, <2>1, <2>2, BoundAssumption DEF NumberTypeOK
  <2> QED
    BY <2>1, <2>4, <2>5 DEF NumberInv, NumbersInTurn
<1>3. CASE \E o \in Orders : OrderStep(o)
  <2>1. ASSUME NEW o \in Orders,
               \/ CommitInsert(o) \/ Advance(o) \/ Complete(o) \/ Touch(o)
               \/ \E s \in Statuses : TakeBack(o, s)
        PROVE  UNCHANGED <<drawn, number, era, seq>>
    BY <2>1 DEF CommitInsert, Advance, Complete, Touch, TakeBack
  <2> QED
    BY <1>1, <1>3, <2>1, NumberInvInsert DEF OrderStep
<1>4. CASE Tick \/ PollStep \/ Signal \/ Destroyed \/ UNCHANGED vars
  BY <1>1, <1>4
  DEF Tick, PollStep, ReadQueue, ReadCompleted, ReadSettings, PollFails, Signal, OnData, OnError,
      Destroyed, dbVars, vars
<1> QED
  BY ONLY [Next]_vars, <1>2, <1>3, <1>4 DEF Next

\* For any MaxNumber, the numbers of two orders tell them apart until the sequence
\* cycles, also when inserts overlap, are rolled back or commit out of turn.
THEOREM QueueNumbersInTurn == Spec => []NumbersInTurn
<1>1. NumberInv => NumbersInTurn
  BY DEF NumberInv
<1> QED
  BY <1>1, NumberInvInit, NumberInvStep, PTL DEF Spec

-----------------------------------------------------------------------------
(***************************************************************************)
(* The orders' states, and the list of the completed ones.                 *)
(***************************************************************************)

\* Each completed order is in the list once, and no other one.
ListInv ==
    /\ finished \in Seq(Orders)
    /\ \A i, j \in 1 .. Len(finished) : finished[i] = finished[j] => i = j
    /\ \A i \in 1 .. Len(finished) : status[finished[i]] = "completed"
    /\ \A o \in Orders : status[o] = "completed" => \E i \in 1 .. Len(finished) : finished[i] = o

StatusTypeOK ==
    /\ status \in [Orders -> Statuses]
    /\ drawn \in 0 .. MaxOrders
    /\ \A o \in Orders : status[o] = "none" <=> o > drawn
    /\ back \subseteq Orders /\ IsFiniteSet(back) /\ Cardinality(back) <= MaxBack
    /\ \A o \in Orders : status[o] = "cancelled" => o \in back
    /\ touches \in 0 .. MaxTouches

StatusInv == StatusTypeOK /\ ListInv

LEMMA ChainInActive ==
    /\ Len(Chain) \in Nat \ {0}
    /\ \A i \in 1 .. Len(Chain) : Chain[i] \in Active
    /\ Active \subseteq {"pending", "confirmed", "preparing", "ready"}
BY ChainAssumption DEF Active

\* The list without an order that was in it.
LEMMA WithoutOne ==
    ASSUME ListInv, NEW k \in 1 .. Len(finished), NEW o, o = finished[k]
    PROVE  /\ Without(o) \in Seq(Orders)
           /\ Len(Without(o)) = Len(finished) - 1
           /\ \A j \in 1 .. Len(finished) - 1 :
                  Without(o)[j] = IF j < k THEN finished[j] ELSE finished[j + 1]
<1> DEFINE n     == Len(finished)
           left  == SubSeq(finished, 1, k - 1)
           right == SubSeq(finished, k + 1, n)
<1>0. n \in Nat /\ k \in 1 .. n
  BY DEF ListInv
<1>1. finished \in Seq(Orders) /\ n \in Nat /\ DOMAIN finished = 1 .. n
  BY DEF ListInv
<1>2. \A i \in 1 .. n : finished[i] \in Orders
  BY <1>1
<1>3. k = CHOOSE i \in DOMAIN finished : finished[i] = o
  BY <1>1 DEF ListInv
<1>4. Without(o) = left \o right
  BY <1>3 DEF Without, RemoveAt
<1>5. k - 1 \in Int /\ k + 1 \in Int /\ n \in Int /\ 1 \in Int
  BY <1>1
<1>6. /\ left \in Seq(Orders) /\ Len(left) = k - 1
      /\ \A i \in 1 .. k - 1 : left[i] = finished[i]
  <2>1. \A i \in 1 .. k - 1 : finished[i] \in Orders
    BY <1>1, <1>2
  <2>2. /\ left \in Seq(Orders) /\ Len(left) = IF 1 <= k - 1 THEN (k - 1) - 1 + 1 ELSE 0
        /\ \A i \in 1 .. (k - 1) - 1 + 1 : left[i] = finished[1 + i - 1]
    BY <1>5, <2>1, SubSeqProperties
  <2> QED
    BY <1>1, <2>2
<1>7. /\ right \in Seq(Orders) /\ Len(right) = n - k
      /\ \A i \in 1 .. n - k : right[i] = finished[k + i]
  <2>1. \A i \in k + 1 .. n : finished[i] \in Orders
    BY <1>1, <1>2
  <2>2. /\ right \in Seq(Orders) /\ Len(right) = IF k + 1 <= n THEN n - (k + 1) + 1 ELSE 0
        /\ \A i \in 1 .. n - (k + 1) + 1 : right[i] = finished[(k + 1) + i - 1]
    BY <1>5, <2>1, SubSeqProperties
  <2> HIDE DEF right
  <2>3. (IF k + 1 <= n THEN n - (k + 1) + 1 ELSE 0) = n - k
    <3> HIDE DEF n
    <3> QED
      BY <1>0
  <2>4. \A i \in 1 .. n - k : i \in 1 .. n - (k + 1) + 1 /\ (k + 1) + i - 1 = k + i
    BY <1>1
  <2>5. Len(right) = n - k
    BY <2>2, <2>3
  <2> QED
    BY <2>2, <2>4, <2>5
<1>8. /\ left \o right \in Seq(Orders)
      /\ Len(left \o right) = Len(left) + Len(right)
      /\ \A i \in 1 .. Len(left) + Len(right) :
             (left \o right)[i] = IF i <= Len(left) THEN left[i] ELSE right[i - Len(left)]
  BY <1>6, <1>7, ConcatProperties
<1> HIDE DEF left, right
<1> QED
  BY <1>1, <1>4, <1>6, <1>7, <1>8

\* ... has every other order still once.
LEMMA WithoutInv ==
    ASSUME ListInv, NEW o \in Orders, status[o] = "completed"
    PROVE  /\ Without(o) \in Seq(Orders)
           /\ \A i, j \in 1 .. Len(Without(o)) : Without(o)[i] = Without(o)[j] => i = j
           /\ \A i \in 1 .. Len(Without(o)) :
                  Without(o)[i] # o /\ \E j \in 1 .. Len(finished) : Without(o)[i] = finished[j]
           /\ \A j \in 1 .. Len(finished) :
                  finished[j] # o => \E i \in 1 .. Len(Without(o)) : Without(o)[i] = finished[j]
<1>0. PICK k \in 1 .. Len(finished) : finished[k] = o
  BY DEF ListInv
<1>1. /\ Without(o) \in Seq(Orders)
      /\ Len(Without(o)) = Len(finished) - 1
      /\ \A j \in 1 .. Len(finished) - 1 :
             Without(o)[j] = IF j < k THEN finished[j] ELSE finished[j + 1]
  BY <1>0, WithoutOne
<1>2. Len(finished) \in Nat /\ \A i, j \in 1 .. Len(finished) : finished[i] = finished[j] => i = j
  BY DEF ListInv
<1>3. \A i \in 1 .. Len(finished) - 1 : (IF i < k THEN i ELSE i + 1) \in 1 .. Len(finished)
  BY <1>0, <1>2
<1>4. \A i, j \in 1 .. Len(Without(o)) : Without(o)[i] = Without(o)[j] => i = j
  BY <1>0, <1>1, <1>2, <1>3
<1>5. \A i \in 1 .. Len(Without(o)) :
          Without(o)[i] # o /\ \E j \in 1 .. Len(finished) : Without(o)[i] = finished[j]
  BY <1>0, <1>1, <1>2, <1>3
<1>6. ASSUME NEW j \in 1 .. Len(finished), finished[j] # o
      PROVE  \E i \in 1 .. Len(Without(o)) : Without(o)[i] = finished[j]
  <2>3. j # k
    BY <1>0, <1>6
  <2>1. CASE j < k
    <3>1. j \in 1 .. Len(Without(o)) /\ Without(o)[j] = finished[j]
      BY <1>0, <1>1, <1>2, <2>1
    <3> QED
      BY <3>1
  <2>2. CASE j > k
    <3>1. j - 1 \in 1 .. Len(Without(o)) /\ Without(o)[j - 1] = finished[j]
      BY <1>0, <1>1, <1>2, <2>2
    <3> QED
      BY <3>1
  <2> QED
    BY <1>0, <1>2, <2>1, <2>2, <2>3
<1> QED
  BY <1>1, <1>4, <1>5, <1>6

\* The list as a set.
LEMMA ListAsSet ==
    ASSUME StatusInv
    PROVE  /\ {finished[i] : i \in DOMAIN finished} = {o \in Orders : status[o] = "completed"}
           /\ Len(finished) = Cardinality({o \in Orders : status[o] = "completed"})
<1> DEFINE n == Len(finished)
           C == {o \in Orders : status[o] = "completed"}
<1>1. n \in Nat /\ DOMAIN finished = 1 .. n /\ finished \in [1 .. n -> C]
  BY DEF StatusInv, ListInv
<1>2. finished \in Bijection(1 .. n, C)
  BY <1>1, Fun_IsBij DEF StatusInv, ListInv
<1>3. ExistsBijection(1 .. n, C)
  BY <1>2 DEF ExistsBijection
<1>4. Cardinality(C) = n
  BY <1>1, <1>3, FS_CountingElements
<1> QED
  BY <1>1, <1>2, <1>4 DEF StatusInv, ListInv

\* The column shows a completed order, or it is full.
LEMMA DoneOrFull ==
    ASSUME StatusInv, NEW o \in Orders, status[o] = "completed", o \notin Done
    PROVE  Cardinality(Done) = Limit
<1> DEFINE n == Len(finished)
           last == [k \in 1 .. Limit |-> finished[(n - Limit) + k]]
<1>1. n \in Nat /\ DOMAIN finished = 1 .. n /\ Limit \in Nat
  BY BoundAssumption DEF StatusInv, ListInv
<1>2. PICK i \in 1 .. n : finished[i] = o
  BY DEF StatusInv, ListInv
<1>3. i + Limit <= n
  BY <1>1, <1>2 DEF Done
<1>4. Done = {finished[j] : j \in {m \in 1 .. n : m + Limit > n}}
  BY <1>1 DEF Done
<1>5. \A k \in 1 .. Limit : (n - Limit) + k \in 1 .. n /\ ((n - Limit) + k) + Limit > n
  BY <1>1, <1>3
<1>6. \A j \in 1 .. n : j + Limit > n =>
          j - (n - Limit) \in 1 .. Limit /\ (n - Limit) + (j - (n - Limit)) = j
  BY <1>1, <1>3
<1>7. last \in [1 .. Limit -> Done]
  BY <1>4, <1>5
<1>8. \A j, k \in 1 .. Limit : last[j] = last[k] => j = k
  BY <1>1, <1>5 DEF StatusInv, ListInv
<1>9. \A d \in Done : \E k \in 1 .. Limit : last[k] = d
  <2> SUFFICES ASSUME NEW d \in Done PROVE \E k \in 1 .. Limit : last[k] = d
    OBVIOUS
  <2>1. PICK j \in 1 .. n : j + Limit > n /\ d = finished[j]
    BY <1>4
  <2>2. j - (n - Limit) \in 1 .. Limit /\ last[j - (n - Limit)] = d
    BY <1>6, <2>1
  <2> QED
    BY <2>2
<1>10. last \in Bijection(1 .. Limit, Done)
  BY <1>7, <1>8, <1>9, Fun_IsBij
<1>11. ExistsBijection(1 .. Limit, Done)
  BY <1>10 DEF ExistsBijection
<1> QED
  BY <1>1, <1>11, FS_CountingElements

LEMMA StatusInvInit == Init => StatusInv
<1> SUFFICES ASSUME Init PROVE StatusInv
  OBVIOUS
<1>1. finished = <<>> /\ Len(finished) = 0 /\ 1 .. Len(finished) = {} /\ back = {} /\ touches = 0
  BY DEF Init
<1>2. IsFiniteSet(back) /\ Cardinality(back) = 0
  BY <1>1, FS_EmptySet
<1>3. status = [o \in Orders |-> "none"] /\ drawn = 0
  BY DEF Init
<1>4. \A o \in Orders : o \in Nat /\ o > 0
  BY BoundAssumption DEF Orders
<1>5. ListInv
  BY <1>1, <1>3 DEF ListInv
<1>6. StatusTypeOK
  BY <1>1, <1>2, <1>3, <1>4, BoundAssumption DEF StatusTypeOK, Statuses
<1> QED
  BY <1>5, <1>6 DEF StatusInv

\* A status that is neither the old nor the new completed leaves the list alone.
LEMMA OtherStatusKeepsList ==
    ASSUME StatusInv, NEW o \in Orders, NEW s, SetStatus(o, s), UNCHANGED finished,
           status[o] # "completed", s # "completed"
    PROVE  ListInv'
<1>1. \A p \in Orders : status'[p] = "completed" <=> status[p] = "completed"
  BY DEF StatusInv, StatusTypeOK, SetStatus
<1>2. \A i \in 1 .. Len(finished) : finished[i] \in Orders
  BY DEF StatusInv, ListInv
<1> QED
  BY <1>1, <1>2 DEF StatusInv, ListInv

LEMMA StatusInvInsert ==
    ASSUME StatusInv, NEW o \in Orders, Insert(o) \/ CommitInsert(o) \/ Advance(o)
    PROVE  StatusInv'
<1>0. StatusTypeOK /\ ListInv /\ drawn \in Nat /\ o \in 1 .. MaxOrders /\ MaxOrders \in Nat
  BY BoundAssumption DEF StatusInv, StatusTypeOK, Orders
<1>1. CASE Insert(o)
  <2>1. /\ SetStatus(o, "open") /\ o = drawn + 1 /\ drawn' = o
        /\ UNCHANGED <<finished, back, touches>>
    BY <1>1 DEF Insert
  <2>2. status[o] = "none"
    BY <1>0, <2>1 DEF StatusTypeOK
  <2>3. ListInv'
    BY <2>1, <2>2, OtherStatusKeepsList
  <2>4. \A p \in Orders : status'[p] = "none" <=> p > drawn'
    <3>1. \A p \in Orders : p \in Nat
      BY <1>0 DEF Orders
    <3>2. \A p \in Orders : p # o => status'[p] = status[p]
      BY <1>0, <2>1 DEF SetStatus, StatusTypeOK
    <3>3. status'[o] = "open"
      BY <1>0, <2>1 DEF SetStatus, StatusTypeOK
    <3>4. \A p \in Orders : p # o => (p > drawn <=> p > drawn')
      BY <1>0, <2>1, <3>1
    <3> QED
      BY <1>0, <2>1, <3>1, <3>2, <3>3, <3>4 DEF StatusTypeOK
  <2>5. /\ status' \in [Orders -> Statuses] /\ drawn' \in 0 .. MaxOrders
        /\ \A p \in Orders : status'[p] = "cancelled" => p \in back'
    BY <1>0, <2>1 DEF SetStatus, StatusTypeOK, Statuses
  <2> QED
    BY <1>0, <2>1, <2>3, <2>4, <2>5 DEF StatusInv, StatusTypeOK
<1>2. CASE CommitInsert(o) \/ Advance(o)
  <2>1. PICK s \in Active :
            /\ SetStatus(o, s)
            /\ status[o] \in Active \cup {"open"}
    <3>1. CASE CommitInsert(o)
      <4>1. Chain[1] \in Active
        BY ChainInActive
      <4> QED
        BY <3>1, <4>1 DEF CommitInsert
    <3>2. CASE Advance(o)
      <4>1. PICK i \in 1 .. Len(Chain) - 1 : status[o] = Chain[i] /\ SetStatus(o, Chain[i + 1])
        BY <3>2 DEF Advance
      <4>2. Chain[i] \in Active /\ Chain[i + 1] \in Active
        BY ChainInActive
      <4> QED
        BY <4>1, <4>2
    <3> QED
      BY <1>2, <3>1, <3>2
  <2>2. UNCHANGED <<drawn, finished, back, touches>>
    BY <1>2 DEF CommitInsert, Advance
  <2>3. /\ s \notin {"none", "open", "completed", "cancelled"}
        /\ status[o] \notin {"none", "completed"}
    BY <2>1, ChainInActive
  <2>4. ListInv'
    BY <2>1, <2>2, <2>3, OtherStatusKeepsList
  <2>5. /\ status' \in [Orders -> Statuses]
        /\ \A p \in Orders : status'[p] = "none" <=> status[p] = "none"
        /\ \A p \in Orders : status'[p] = "cancelled" => p \in back
    BY <1>0, <2>1, <2>3 DEF SetStatus, StatusTypeOK, Statuses
  <2> QED
    BY <1>0, <2>2, <2>4, <2>5 DEF StatusInv, StatusTypeOK
<1> QED
  BY <1>1, <1>2

LEMMA StatusInvComplete ==
    ASSUME StatusInv, NEW o \in Orders, Complete(o)
    PROVE  StatusInv'
<1>0. StatusTypeOK /\ ListInv
  BY DEF StatusInv
<1>1. /\ status[o] \in Active /\ SetStatus(o, "completed") /\ finished' = Append(finished, o)
      /\ UNCHANGED <<drawn, back, touches>>
  BY DEF Complete
<1>2. status[o] # "completed" /\ status[o] # "none"
  BY <1>1, ChainInActive
<1>3. /\ status' \in [Orders -> Statuses]
      /\ \A p \in Orders : p # o => status'[p] = status[p]
      /\ status'[o] = "completed"
  BY <1>0, <1>1 DEF SetStatus, StatusTypeOK, Statuses
<1>4. StatusTypeOK'
  BY <1>0, <1>1, <1>2, <1>3 DEF StatusTypeOK
<1>5. /\ finished' \in Seq(Orders) /\ Len(finished') = Len(finished) + 1
      /\ Len(finished) \in Nat
      /\ \A i \in 1 .. Len(finished) : finished'[i] = finished[i]
      /\ finished'[Len(finished) + 1] = o
  BY <1>0, <1>1, AppendProperties DEF ListInv
<1>6. \A i \in 1 .. Len(finished) : finished[i] # o /\ finished[i] \in Orders
  BY <1>0, <1>2 DEF ListInv
<1>7. \A i, j \in 1 .. Len(finished') : finished'[i] = finished'[j] => i = j
  BY <1>0, <1>5, <1>6 DEF ListInv
<1>8. \A i \in 1 .. Len(finished') : status'[finished'[i]] = "completed"
  BY <1>0, <1>3, <1>5, <1>6 DEF ListInv
<1>9. ASSUME NEW p \in Orders, status'[p] = "completed"
      PROVE  \E i \in 1 .. Len(finished') : finished'[i] = p
  <2>1. CASE p = o
    BY <1>5, <2>1
  <2>2. CASE p # o
    <3>1. PICK i \in 1 .. Len(finished) : finished[i] = p
      BY <1>0, <1>3, <1>9, <2>2 DEF ListInv
    <3> QED
      BY <1>5, <3>1
  <2> QED
    BY <2>1, <2>2
<1> QED
  BY <1>4, <1>5, <1>7, <1>8, <1>9 DEF StatusInv, ListInv

LEMMA StatusInvTakeBack ==
    ASSUME StatusInv, NEW o \in Orders, NEW s \in Statuses, TakeBack(o, s)
    PROVE  StatusInv'
<1>0. StatusTypeOK /\ ListInv
  BY DEF StatusInv
<1>1. /\ status[o] # "none" /\ o \notin back /\ Cardinality(back) < MaxBack
      /\ s \in Active \cup {"cancelled"} /\ SetStatus(o, s)
      /\ finished' = IF status[o] = "completed" THEN Without(o) ELSE finished
      /\ back' = back \cup {o}
      /\ UNCHANGED <<drawn, touches>>
  BY ChainInActive DEF TakeBack, InTable
<1>2. s \notin {"none", "completed"}
  BY <1>1, ChainInActive
<1>3. /\ status' \in [Orders -> Statuses]
      /\ \A p \in Orders : p # o => status'[p] = status[p]
      /\ status'[o] = s
  BY <1>0, <1>1 DEF SetStatus, StatusTypeOK
<1>4. IsFiniteSet(back') /\ Cardinality(back') <= MaxBack
  <2>1. IsFiniteSet(back) /\ Cardinality(back) \in Nat
    BY <1>0, FS_CardinalityType DEF StatusTypeOK
  <2>2. IsFiniteSet(back') /\ Cardinality(back') = Cardinality(back) + 1
    BY <1>1, <2>1, FS_AddElement
  <2> QED
    BY <1>1, <2>1, <2>2, BoundAssumption
<1>5. StatusTypeOK'
  BY <1>0, <1>1, <1>2, <1>3, <1>4 DEF StatusTypeOK
<1>6. CASE status[o] = "completed"
  <2>2. /\ Without(o) \in Seq(Orders)
        /\ \A i, j \in 1 .. Len(Without(o)) : Without(o)[i] = Without(o)[j] => i = j
        /\ \A i \in 1 .. Len(Without(o)) :
               Without(o)[i] # o /\ \E j \in 1 .. Len(finished) : Without(o)[i] = finished[j]
        /\ \A j \in 1 .. Len(finished) :
               finished[j] # o => \E i \in 1 .. Len(Without(o)) : Without(o)[i] = finished[j]
    BY <1>0, <1>6, WithoutInv
  <2>6. finished' = Without(o)
    BY <1>1, <1>6
  <2>3. \A i \in 1 .. Len(finished) : finished[i] \in Orders
    BY <1>0 DEF ListInv
  <2>4. \A i \in 1 .. Len(finished') : status'[finished'[i]] = "completed"
    BY <1>0, <1>3, <2>2, <2>3, <2>6 DEF ListInv
  <2>5. ASSUME NEW p \in Orders, status'[p] = "completed"
        PROVE  \E i \in 1 .. Len(finished') : finished'[i] = p
    <3>1. p # o /\ status[p] = "completed"
      BY <1>2, <1>3, <2>5
    <3>2. PICK j \in 1 .. Len(finished) : finished[j] = p
      BY <1>0, <3>1 DEF ListInv
    <3> QED
      BY <2>2, <2>6, <3>1, <3>2
  <2> QED
    BY <1>5, <2>2, <2>4, <2>5, <2>6 DEF StatusInv, ListInv
<1>7. CASE status[o] # "completed"
  BY <1>1, <1>2, <1>5, <1>7, OtherStatusKeepsList DEF StatusInv
<1> QED
  BY <1>6, <1>7

LEMMA StatusInvTouch ==
    ASSUME StatusInv, NEW o \in Orders, Touch(o)
    PROVE  StatusInv'
<1>0. StatusTypeOK /\ ListInv
  BY DEF StatusInv
<1>1. /\ status[o] = "completed" /\ touches < MaxTouches /\ touches' = touches + 1
      /\ finished' = Append(Without(o), o)
      /\ UNCHANGED <<status, drawn, back>>
  BY DEF Touch
<1>2. StatusTypeOK'
  BY <1>0, <1>1, BoundAssumption DEF StatusTypeOK
<1> DEFINE rest == Without(o)
<1>4. /\ rest \in Seq(Orders)
      /\ \A i, j \in 1 .. Len(rest) : rest[i] = rest[j] => i = j
      /\ \A i \in 1 .. Len(rest) :
             rest[i] # o /\ \E j \in 1 .. Len(finished) : rest[i] = finished[j]
      /\ \A j \in 1 .. Len(finished) :
             finished[j] # o => \E i \in 1 .. Len(rest) : rest[i] = finished[j]
  BY <1>0, <1>1, WithoutInv
<1> HIDE DEF rest
<1>5. /\ finished' \in Seq(Orders) /\ Len(finished') = Len(rest) + 1 /\ Len(rest) \in Nat
      /\ \A i \in 1 .. Len(rest) : finished'[i] = rest[i]
      /\ finished'[Len(rest) + 1] = o
  BY <1>1, <1>4, AppendProperties DEF rest
<1>6. \A i, j \in 1 .. Len(finished') : finished'[i] = finished'[j] => i = j
  BY <1>4, <1>5
<1>7. \A i \in 1 .. Len(finished') : status'[finished'[i]] = "completed"
  <2>1. \A i \in 1 .. Len(rest) : status[rest[i]] = "completed"
    BY <1>0, <1>4 DEF ListInv
  <2> QED
    BY <1>1, <1>5, <2>1
<1>8. ASSUME NEW p \in Orders, status'[p] = "completed"
      PROVE  \E i \in 1 .. Len(finished') : finished'[i] = p
  <2>1. CASE p = o
    BY <1>5, <2>1
  <2>2. CASE p # o
    <3>1. PICK j \in 1 .. Len(finished) : finished[j] = p
      BY <1>0, <1>1, <1>8 DEF ListInv
    <3>2. PICK i \in 1 .. Len(rest) : rest[i] = p
      BY <1>4, <2>2, <3>1
    <3> QED
      BY <1>5, <3>2
  <2> QED
    BY <2>1, <2>2
<1> QED
  BY <1>2, <1>5, <1>6, <1>7, <1>8 DEF StatusInv, ListInv

LEMMA StatusInvStep == StatusInv /\ [Next]_vars => StatusInv'
<1> SUFFICES ASSUME StatusInv, [Next]_vars PROVE StatusInv'
  OBVIOUS
<1>1. CASE UNCHANGED <<status, drawn, finished, back, touches>>
  BY <1>1 DEF StatusInv, StatusTypeOK, ListInv
<1>2. CASE \E o \in Orders : OrderStep(o)
  BY <1>2, StatusInvInsert, StatusInvComplete, StatusInvTakeBack, StatusInvTouch DEF OrderStep
<1>3. CASE LoseInsert \/ Tick \/ PollStep \/ Signal \/ Destroyed \/ UNCHANGED vars
  BY <1>1, <1>3
  DEF LoseInsert, Tick, PollStep, ReadQueue, ReadCompleted, ReadSettings, PollFails, Signal, OnData,
      OnError, Destroyed, dbVars, vars
<1> QED
  BY ONLY [Next]_vars, <1>2, <1>3 DEF Next

-----------------------------------------------------------------------------
(***************************************************************************)
(* What the monitor has been sent, and shows.                              *)
(***************************************************************************)
BoardTypeOK ==
    /\ alive \in BOOLEAN /\ orphaned \in BOOLEAN
    /\ poll \in PollStates
    /\ seen \in Picture /\ screen \in Picture

\* A picture has only orders that have a number.
Numbered(picture) ==
    /\ \A o \in Orders : picture.tiles[o] # "none" => o <= drawn
    /\ \A o \in picture.done : o <= drawn

\* It misses an order that has only moved forward if its completed column is full.
Covers(picture) ==
    \A o \in picture.known \ back :
        \/ picture.tiles[o] # "none" \/ o \in picture.done
        \/ Cardinality(picture.done) = Limit

\* Between the two requests, an order without a tile is a completed one.
HalfCovers ==
    \A o \in seen.known \ back : seen.tiles[o] # "none" \/ status[o] = "completed"

BoardInv ==
    /\ BoardTypeOK
    /\ Numbered(seen) /\ Numbered(screen)
    /\ poll = "completed" => HalfCovers
    /\ poll \in {"settings", "answered"} => Covers(seen)
    /\ Covers(screen)

LEMMA NothingFits == Nothing \in Picture /\ Numbered(Nothing) /\ Covers(Nothing)
BY DEF Nothing, Picture, Numbered, Covers

LEMMA BoardInvInit == Init => BoardInv
BY NothingFits DEF Init, BoardInv, BoardTypeOK, PollStates

\* Orders are only added, and a completed one stays so unless it is taken back.
LEMMA OrdersOnward ==
    ASSUME StatusInv, LoseInsert \/ \E o \in Orders : OrderStep(o)
    PROVE  /\ drawn <= drawn' /\ drawn \in Nat /\ drawn' \in Nat
           /\ back \subseteq back'
           /\ \A p \in Orders \ back' : status[p] = "completed" => status'[p] = "completed"
           /\ UNCHANGED monitorVars
<1>0. status \in [Orders -> Statuses] /\ drawn \in 0 .. MaxOrders /\ MaxOrders \in Nat
  BY BoundAssumption DEF StatusInv, StatusTypeOK
<1>1. CASE LoseInsert
  BY <1>0, <1>1 DEF LoseInsert
<1>2. ASSUME NEW o \in Orders, OrderStep(o)
      PROVE  /\ drawn <= drawn' /\ drawn' \in Nat
             /\ back \subseteq back'
             /\ \A p \in Orders \ back' : status[p] = "completed" => status'[p] = "completed"
             /\ UNCHANGED monitorVars
  <2>1. CASE Insert(o)
    <3>1. status[o] = "none"
      BY <1>0, <2>1 DEF Insert, StatusInv, StatusTypeOK
    <3> QED
      BY <1>0, <2>1, <3>1 DEF Insert, SetStatus
  <2>2. CASE CommitInsert(o)
    BY <1>0, <2>2 DEF CommitInsert, SetStatus
  <2>3. CASE Advance(o)
    <3>1. PICK i \in 1 .. Len(Chain) - 1 : status[o] = Chain[i] /\ SetStatus(o, Chain[i + 1])
      BY <2>3 DEF Advance
    <3>2. status[o] # "completed"
      BY <3>1, ChainInActive
    <3> QED
      BY <1>0, <2>3, <3>1, <3>2 DEF Advance, SetStatus
  <2>4. CASE Complete(o)
    BY <1>0, <2>4 DEF Complete, SetStatus
  <2>5. CASE \E s \in Statuses : TakeBack(o, s)
    BY <1>0, <2>5 DEF TakeBack, SetStatus
  <2>6. CASE Touch(o)
    BY <1>0, <2>6 DEF Touch
  <2> QED
    BY <1>2, <2>1, <2>2, <2>3, <2>4, <2>5, <2>6 DEF OrderStep
<1> QED
  BY <1>0, <1>1, <1>2

LEMMA BoardInvOrders ==
    ASSUME StatusInv, BoardInv, LoseInsert \/ \E o \in Orders : OrderStep(o)
    PROVE  BoardInv'
<1>1. /\ drawn <= drawn' /\ drawn \in Nat /\ drawn' \in Nat
      /\ back \subseteq back'
      /\ \A p \in Orders \ back' : status[p] = "completed" => status'[p] = "completed"
      /\ UNCHANGED <<alive, poll, seen, orphaned, screen>>
  BY OrdersOnward DEF monitorVars
<1>2. BoardTypeOK'
  BY <1>1 DEF BoardInv, BoardTypeOK
<1>3. seen.known \subseteq Orders /\ seen.done \subseteq Orders /\ screen.done \subseteq Orders
  BY DEF BoardInv, BoardTypeOK, Picture
<1>4. \A o \in Orders : o \in Nat /\ (o <= drawn => o <= drawn')
  BY <1>1 DEF Orders
<1>5. Numbered(seen)' /\ Numbered(screen)'
  BY <1>1, <1>3, <1>4 DEF BoardInv, Numbered
<1>6. (poll = "completed" => HalfCovers)'
  BY <1>1, <1>3 DEF BoardInv, HalfCovers
<1>7. (poll \in {"settings", "answered"} => Covers(seen))' /\ Covers(screen)'
  BY <1>1 DEF BoardInv, Covers
<1> QED
  BY <1>2, <1>5, <1>6, <1>7 DEF BoardInv

\* The queue: whatever has no tile, and has not been taken back, is completed.
LEMMA BoardInvReadQueue ==
    ASSUME StatusInv, BoardInv, ReadQueue
    PROVE  BoardInv'
<1>1. /\ poll' = "completed"
      /\ seen' = [seen EXCEPT !.tiles = Tiles, !.known = {o \in Orders : InTable(o)}]
      /\ UNCHANGED <<status, drawn, back, alive, orphaned, screen>>
  BY DEF ReadQueue, dbVars
<1>2. seen \in Picture /\ Tiles \in [Orders -> Active \cup {"none"}]
  BY DEF BoardInv, BoardTypeOK, Tiles
<1>3. /\ seen'.tiles = Tiles /\ seen'.done = seen.done
      /\ seen'.known = {o \in Orders : InTable(o)} /\ seen' \in Picture
  BY <1>1, <1>2 DEF Picture
<1>4. BoardTypeOK'
  BY <1>1, <1>3 DEF BoardInv, BoardTypeOK, PollStates
<1>5. \A o \in Orders : status[o] \in Active => o <= drawn
  <2> SUFFICES ASSUME NEW o \in Orders, status[o] \in Active PROVE o <= drawn
    OBVIOUS
  <2>1. status[o] # "none"
    BY ChainInActive
  <2>2. ~(o > drawn) /\ o \in Nat /\ drawn \in Nat
    BY <2>1, BoundAssumption DEF StatusInv, StatusTypeOK, Orders
  <2> QED
    BY <2>2
<1>6. \A o \in Orders : Tiles[o] # "none" <=> status[o] \in Active
  BY ChainInActive DEF Tiles
<1>7. Numbered(seen)' /\ Numbered(screen)'
  BY <1>1, <1>3, <1>5, <1>6 DEF BoardInv, Numbered
<1>8. HalfCovers'
  <2> SUFFICES ASSUME NEW o \in Orders, InTable(o), o \notin back
               PROVE  status[o] \in Active \/ status[o] = "completed"
    BY <1>1, <1>3, <1>6 DEF HalfCovers
  <2> QED
    BY DEF StatusInv, StatusTypeOK, Statuses, InTable
<1> QED
  BY <1>1, <1>4, <1>7, <1>8 DEF BoardInv, Covers

\* The completed orders: the rest is in the column, or it is full.
LEMMA BoardInvReadCompleted ==
    ASSUME StatusInv, BoardInv, ReadCompleted
    PROVE  BoardInv'
<1>1. /\ poll = "completed" /\ poll' = "settings"
      /\ seen' = [seen EXCEPT !.done = Done]
      /\ UNCHANGED <<status, drawn, back, alive, orphaned, screen>>
  BY DEF ReadCompleted, dbVars
<1>2. \A o \in Done : o \in Orders /\ status[o] = "completed"
  BY DEF StatusInv, ListInv, Done
<1>3. /\ seen'.tiles = seen.tiles /\ seen'.done = Done /\ seen'.known = seen.known
      /\ seen' \in Picture /\ seen.known \subseteq Orders
  BY <1>1, <1>2 DEF BoardInv, BoardTypeOK, Picture
<1>4. BoardTypeOK'
  BY <1>1, <1>3 DEF BoardInv, BoardTypeOK, PollStates
<1>5. \A o \in Done : o <= drawn
  <2> SUFFICES ASSUME NEW o \in Done PROVE o <= drawn
    OBVIOUS
  <2>1. ~(o > drawn) /\ o \in Nat /\ drawn \in Nat
    BY <1>2, BoundAssumption DEF StatusInv, StatusTypeOK, Orders
  <2> QED
    BY <2>1
<1>6. Numbered(seen)' /\ Numbered(screen)'
  BY <1>1, <1>3, <1>5 DEF BoardInv, Numbered
<1>7. HalfCovers
  BY <1>1 DEF BoardInv
<1>8. Covers(seen)'
  BY <1>1, <1>3, <1>7, DoneOrFull DEF Covers, HalfCovers
<1> QED
  BY <1>1, <1>4, <1>6, <1>8 DEF BoardInv, Covers

LEMMA BoardInvStep == StatusInv /\ BoardInv /\ [Next]_vars => BoardInv'
<1> SUFFICES ASSUME StatusInv, BoardInv, [Next]_vars PROVE BoardInv'
  OBVIOUS
<1>1. CASE LoseInsert \/ \E o \in Orders : OrderStep(o)
  BY <1>1, BoardInvOrders
<1>2. CASE ReadQueue
  BY <1>2, BoardInvReadQueue
<1>3. CASE ReadCompleted
  BY <1>3, BoardInvReadCompleted
<1>4. CASE ReadSettings \/ PollFails
  BY <1>4 DEF ReadSettings, PollFails, BoardInv, BoardTypeOK, PollStates, Numbered, Covers, dbVars
<1>5. CASE Tick
  BY <1>5, NothingFits
  DEF Tick, Waiting, BoardInv, BoardTypeOK, PollStates, Numbered, Covers, dbVars
<1>6. CASE OnData \/ OnError
  BY <1>6, NothingFits
  DEF OnData, OnError, EndPoll, BoardInv, BoardTypeOK, PollStates, Numbered, Covers, dbVars
<1>7. CASE Destroyed \/ UNCHANGED vars
  BY <1>7
  DEF Destroyed, BoardInv, BoardTypeOK, Numbered, Covers, HalfCovers, dbVars, monitorVars, vars
<1> QED
  BY ONLY [Next]_vars, <1>1, <1>2, <1>3, <1>4, <1>5, <1>6, <1>7 DEF Next, PollStep, Signal

-----------------------------------------------------------------------------
IInv == NumberInv /\ StatusInv /\ BoardInv

LEMMA Invariance == Spec => []IInv
<1>1. Init => IInv
  BY NumberInvInit, StatusInvInit, BoardInvInit DEF IInv
<1>2. IInv /\ [Next]_vars => IInv'
  BY NumberInvStep, StatusInvStep, BoardInvStep DEF IInv
<1> QED
  BY <1>1, <1>2, PTL DEF Spec

\* TypeOK: rows, sequence and monitor keep their types, and the completed orders listed
\* are just those there are, for any bounds.
THEOREM MonitorTypeCorrect == Spec => []TypeOK
<1>1. IInv => TypeOK
  <2> SUFFICES ASSUME IInv PROVE TypeOK
    OBVIOUS
  <2>1. /\ {finished[i] : i \in DOMAIN finished} = {o \in Orders : status[o] = "completed"}
        /\ Len(finished) = Cardinality({o \in Orders : status[o] = "completed"})
    BY ListAsSet DEF IInv
  <2>2. seq \in [next : 1 .. MaxNumber, cycles : 0 .. MaxCycles + MaxOrders]
    BY BoundAssumption DEF IInv, NumberInv, NumberTypeOK
  <2>3. \A o \in 1 .. drawn : number[o] # 0
    BY NumberAssumption DEF IInv, NumberInv, SequenceAhead
  <2> QED
    BY <2>1, <2>2, <2>3
    DEF TypeOK, IInv, NumberInv, NumberTypeOK, StatusInv, StatusTypeOK, ListInv, BoardInv,
        BoardTypeOK
<1> QED
  BY <1>1, Invariance, PTL

\* NoneVanishes: whatever moves between the requests of a poll, an order the database had
\* when it began is in one of the columns, for any limit of the completed one.
THEOREM NoOrderVanishes == Spec => []NoneVanishes
<1>1. IInv => NoneVanishes
  BY DEF IInv, BoardInv, BoardTypeOK, Picture, Covers, NoneVanishes, Shown
<1> QED
  BY <1>1, Invariance, PTL

\* NumbersTellApart: so do the numbers of the orders on the screen, the completed ones
\* included.
THEOREM NumbersOnScreenTellApart == Spec => []NumbersTellApart
<1>1. IInv => NumbersTellApart
  <2> SUFFICES ASSUME IInv PROVE NumbersTellApart
    OBVIOUS
  <2>1. \A o \in Shown : o \in 1 .. drawn
    BY BoundAssumption
    DEF IInv, BoardInv, BoardTypeOK, Picture, Numbered, Shown, Orders, StatusInv, StatusTypeOK
  <2> QED
    BY <2>1 DEF IInv, NumberInv, NumbersInTurn, NumbersTellApart
<1> QED
  BY <1>1, Invariance, PTL

=============================================================================
