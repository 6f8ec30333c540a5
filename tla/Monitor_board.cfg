\* Two orders, numbers up to two, a completed column of one, under fairness.
CONSTANTS
    MaxOrders = 2
    MaxCycles = 1
    MaxNumber = 2
    Limit = 1
    Chain <- TwoStatuses
    MaxBack = 1
    MaxTouches = 1
SPECIFICATION FairSpec
INVARIANTS
    NoneVanishes
    NumbersTellApart
PROPERTIES
    BoardConverges
\* An aborted monitor does nothing any more.
CHECK_DEADLOCK FALSE
