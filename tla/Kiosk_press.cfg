\* One press, two items, both backends, two backend crashes.
CONSTANTS
    burger = burger
    cola = cola
    primary = primary
    secondary = secondary
    p1 = p1
    p2 = p2
    p3 = p3
    NoItem = NoItem
    Items <- TwoItems
    Backends <- TwoHosts
    Primary = primary
    Presses <- OnePress
    MaxCrashes = 2
SPECIFICATION FairSpec
INVARIANTS
    ConfirmedIsStored
    GhostTicketsNeedCrash
PROPERTIES
    ImplementsLedger
    PressAnswered
\* The kiosk process may die, and the bound on presses may be reached.
CHECK_DEADLOCK FALSE
