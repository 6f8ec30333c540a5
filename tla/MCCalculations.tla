--------------------------- MODULE MCCalculations ---------------------------
(* A burger with two options and a drink without any. *)
EXTENDS Calculations

CONSTANTS burger, cola, bacon, sauce

TwoDishes  == {burger, cola}
TwoOptions == {bacon, sauce}
Menu       == [d \in TwoDishes |-> IF d = burger THEN TwoOptions ELSE {}]

=============================================================================
