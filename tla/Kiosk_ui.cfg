\* Two items, two presses of the order button, one backend.
CONSTANTS
    burger = burger
    cola = cola
    primary = primary
    secondary = secondary
    p1 = p1
    p2 = p2
    p3 = p3
    NoItem = NoItem
    Items <- TwoItems
    Backends <- OneHost
    Primary = primary
    Presses <- TwoPresses
    MaxCrashes = 1
SPECIFICATION Spec
SYMMETRY Symmetry
INVARIANTS
    OneOrderUntilTold
    MenuSurvives
\* The kiosk process may die, and the bound on presses may be reached.
CHECK_DEADLOCK FALSE
