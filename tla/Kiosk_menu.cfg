\* One item with an option, one category, two orders, both backends, under fairness.
CONSTANTS
    food = food
    burger = burger
    sauce = sauce
    o1 = o1
    o2 = o2
    NoCategory = NoCategory
    Categories <- OneCategory
    Items <- OneItem
    Options <- OneOption
    OptionsOf <- WithSauce
    Orders <- TwoOrders
    Hosts = 2
    MaxEdits = 2
    MaxDeletions = 2
    MaxPresses = 1
SPECIFICATION FairSpec
INVARIANTS
    LinesReferToMenu
    FailedOrderMetDeletion
    SteadyItemsShown
    AttemptsAccounted
PROPERTIES
    MenuComes
    RequestsEnd
\* Once the menu is there, nothing more need happen.
CHECK_DEADLOCK FALSE
