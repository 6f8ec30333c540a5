----------------------------- MODULE MCKioskMenu -----------------------------
(* Small instances of KioskMenu for TLC. *)
EXTENDS KioskMenu

CONSTANTS food, burger, sauce, o1, o2

OneCategory   == {food}
OneItem       == {burger}
OneOption     == {sauce}
WithSauce     == [i \in Items |-> IF i = burger THEN OneOption ELSE {}]
TwoOrders     == {o1, o2}

=============================================================================
