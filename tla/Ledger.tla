-------------------------------- MODULE Ledger --------------------------------
(***************************************************************************)
(* What the backends promise those who send them orders and payments: a    *)
(* ledger in which nothing is ever struck out.  An order with a key of its *)
(* own is entered once.  Somebody is told that an order is entered only    *)
(* when it is, and that is never taken back.                               *)
(***************************************************************************)
EXTENDS Naturals

CONSTANTS
    Orders,
    Keyed      \* those that are to be entered only once

VARIABLES
    entries,   \* how often each order has been entered
    told       \* the orders somebody has been told are entered

Init ==
    /\ entries = [o \in Orders |-> 0]
    /\ told = {}

Enter(o) ==
    /\ o \in Keyed => entries[o] = 0
    /\ entries' = [entries EXCEPT ![o] = @ + 1]
    /\ UNCHANGED told

Tell(o) ==
    /\ entries[o] > 0
    /\ told' = told \cup {o}
    /\ UNCHANGED entries

Next == \E o \in Orders : Enter(o) \/ Tell(o)

Spec == Init /\ [][Next]_<<entries, told>>

=============================================================================
