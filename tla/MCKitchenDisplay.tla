-------------------------- MODULE MCKitchenDisplay --------------------------
(* Small instances of KitchenDisplay for TLC. *)
EXTENDS KitchenDisplay

CONSTANTS o1, o2, p1, p2, u1, u2, u3

OneOrder     == {o1}
TwoPollers   == {p1, p2}
TwoPresses   == {u1, u2}
ThreePresses == {u1, u2, u3}

DefaultShow == {"pending", "confirmed", "preparing"}
Finished    == {"completed", "cancelled"}

=============================================================================
