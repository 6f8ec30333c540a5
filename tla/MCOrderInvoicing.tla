-------------------------- MODULE MCOrderInvoicing --------------------------
(* OrderInvoicing on small sets, for TLC. *)
EXTENDS OrderInvoicing, TLC

CONSTANTS r1, r2, r3, kitchen, cashier, o1, o2, o3

TwoRequests   == {r1, r2}
ThreeRequests == {r1, r2, r3}
TwoMachines   == {kitchen, cashier}
TwoOrders     == {o1, o2}
ThreeOrders   == {o1, o2, o3}

Reopened  == {"pending", "completed"}
Completed == {"completed"}

\* Slots, machines and orders are interchangeable (safety runs only).
Symmetry ==
    Permutations({r1, r2, r3}) \cup Permutations(TwoMachines) \cup Permutations(ThreeOrders)

=============================================================================
