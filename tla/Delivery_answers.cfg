\* An order like any other, one without signature or JSON, one the adapter cannot
\* read; two calls at a time, answers lost or late, under fairness. Crashes are left to
\* Delivery_retries: a lost answer already makes the platform call again.
CONSTANTS
    c1 = c1
    c2 = c2
    c3 = c3
    plain = plain
    anonymous = anonymous
    long = long
    garbled = garbled
    foreign = foreign
    NoOrder = NoOrder
    Calls <- TwoCalls
    PlatformOrders <- Mixed
    Identified <- Mixed
    Unverifiable <- Garbled
    Unparsable <- Garbled
    Unknown <- Foreign
    Oversized <- NoneOf
    MaxRows = 2
    MaxCrashes = 0
SPECIFICATION FairSpec
PROPERTIES
    ReadableOrdersAnswered
