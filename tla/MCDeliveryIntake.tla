-------------------------- MODULE MCDeliveryIntake --------------------------
(* Small instances of DeliveryIntake for TLC. *)
EXTENDS DeliveryIntake, TLC

CONSTANTS c1, c2, c3, plain, anonymous, long, garbled, foreign

TwoCalls   == {c1, c2}
ThreeCalls == {c1, c2, c3}

\* Orders that reach the database, and orders of which two never do.
Storable  == {plain, anonymous, long}
Mixed     == {plain, garbled, foreign}
LongPlain == {plain, long}
NoneOf    == {}
Long      == {long}
Garbled   == {garbled}
Foreign   == {foreign}

Symmetry == Permutations(Calls)

=============================================================================
