--------------------------- MODULE InvoiceJournal ---------------------------
(***************************************************************************)
(* What the invoice numbering of one calendar year promises: a journal of  *)
(* invoices, numbered 1, 2, 3, ... without a gap, that only ever grows at  *)
(* its end, in which an order occurs at most once, and which shows for     *)
(* each invoice whether NAV confirmed it.                                  *)
(***************************************************************************)
EXTENDS Naturals

CONSTANT Orders

VARIABLES
    length,   \* number of invoices issued
    journal   \* the invoice under each number: its order, and whether confirmed

Invoice == [order : Orders, submitted : BOOLEAN]

Init ==
    /\ length = 0
    /\ journal = [i \in 1 .. 0 |-> {}]

\* The next free number goes to an order that has no invoice yet.
Issue(o, confirmed) ==
    /\ \A i \in 1 .. length : journal[i].order # o
    /\ length' = length + 1
    /\ journal' = [i \in 1 .. length + 1 |->
                     IF i <= length THEN journal[i]
                     ELSE [order |-> o, submitted |-> confirmed]]

Next == \E o \in Orders, confirmed \in BOOLEAN : Issue(o, confirmed)

Spec == Init /\ [][Next]_<<length, journal>>

=============================================================================
