--------------------------- MODULE MCKioskOrdering ---------------------------
(* Small instances of KioskOrdering for TLC. *)
EXTENDS KioskOrdering, TLC

CONSTANTS burger, cola, primary, secondary, p1, p2, p3

OneItem    == {burger}
TwoItems   == {burger, cola}
OneHost    == {primary}
TwoHosts   == {primary, secondary}
OnePress   == {p1}
TwoPresses == {p1, p2}

Symmetry == Permutations(Items) \cup Permutations(Presses)

=============================================================================
