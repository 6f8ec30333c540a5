\* One order, two presses, two pollers at a time, both backends, under fairness.
CONSTANTS
    o1 = o1
    o2 = o2
    p1 = p1
    p2 = p2
    u1 = u1
    u2 = u2
    u3 = u3
    Orders <- OneOrder
    Hosts = 2
    Pollers <- TwoPollers
    Presses <- TwoPresses
    ShowStatuses <- DefaultShow
    OtherStatuses <- Finished
    MaxChanges = 1
SPECIFICATION FairSpec
INVARIANTS
    NoStepSkipped
    DoublePressNeedsRedraw
PROPERTIES
    DisplayConverges
