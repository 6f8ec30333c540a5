\* Orders with and without an id and one the database refuses, delivered up to three
\* times at once, with a crash at any point.
CONSTANTS
    c1 = c1
    c2 = c2
    c3 = c3
    plain = plain
    anonymous = anonymous
    long = long
    garbled = garbled
    foreign = foreign
    NoOrder = NoOrder
    Calls <- ThreeCalls
    PlatformOrders <- Storable
    Identified <- LongPlain
    Unverifiable <- NoneOf
    Unparsable <- NoneOf
    Unknown <- NoneOf
    Oversized <- Long
    MaxRows = 2
    MaxCrashes = 1
SPECIFICATION Spec
SYMMETRY Symmetry
INVARIANTS
    StoredOnce
    AcceptedIsStored
    TicketsAccounted
PROPERTIES
    ImplementsLedger
