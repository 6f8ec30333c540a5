\* Two requests at a time complete two orders in one calendar year.
CONSTANTS
    r1 = r1
    r2 = r2
    r3 = r3
    kitchen = kitchen
    cashier = cashier
    o1 = o1
    o2 = o2
    o3 = o3
    AdminUI = AdminUI
    NoOrder = NoOrder
    Requests <- TwoRequests
    Machines <- TwoMachines
    Orders <- TwoOrders
    ClientStatuses <- Completed
    FirstYear = 1
    LastYear = 1
    MaxCrashes = 0
SPECIFICATION FairSpec
INVARIANTS
    GaplessNumbers
PROPERTIES
    ImplementsJournal
    EveryRequestEnds
