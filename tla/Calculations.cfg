\* All digests of three characters and all headers up to that length; carts of up to
\* three things, payloads with one line, prices around half a cent, whole and broken
\* rates. The calculations end.
CONSTANTS
    HexDigits = {"0", "1", "2", "a"}
    DigestLength = 3
    burger = burger
    cola = cola
    bacon = bacon
    sauce = sauce
    Dishes <- TwoDishes
    Options <- TwoOptions
    OptionsOf <- Menu
    Prices = {63, 199, 1250}
    Extras = {0, 37}
    Rates = {0, 50, 55, 270}
    MaxUnits = 3
    Quantities = {1, 3}
    Tenths = {0, 630, 1995, 12505}
SPECIFICATION CalculationsSpec
CHECK_DEADLOCK FALSE
INVARIANTS
    SignatureJudged
    StoredExceedsShownByOptions
    InvoiceNearLines
    DeclaredRateHolds
