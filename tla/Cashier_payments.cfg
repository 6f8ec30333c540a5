\* Two orders and a window of one, two payments, both backends, one crash, under fairness.
CONSTANTS
    MaxOrders = 2
    Window = 1
    Hosts = 2
    MaxInbox = 1
    MaxPays = 2
    MaxOthers = 1
    MaxCrashes = 1
SPECIFICATION FairSpec
INVARIANTS
    ReportedIsPaid
    GhostReceiptNeedsCrash
    SecondPaymentHasCause
PROPERTIES
    ImplementsLedger
    VanishHasCause
    ListConverges
