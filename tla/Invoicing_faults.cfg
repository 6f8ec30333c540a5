\* Two requests, a crash at any point, the turn of a year; orders may be reopened.
CONSTANTS
    r1 = r1
    r2 = r2
    r3 = r3
    kitchen = kitchen
    cashier = cashier
    o1 = o1
    o2 = o2
    o3 = o3
    AdminUI = AdminUI
    NoOrder = NoOrder
    Requests <- TwoRequests
    Machines <- TwoMachines
    Orders <- TwoOrders
    ClientStatuses <- Reopened
    FirstYear = 1
    LastYear = 2
    MaxCrashes = 1
SPECIFICATION Spec
SYMMETRY Symmetry
INVARIANTS
    OneSubmissionPerOrder
    LedgerAccounted
    NavNumbersDistinct
PROPERTIES
    InvoicedOnCompletion
