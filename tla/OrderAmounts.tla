---------------------------- MODULE OrderAmounts ----------------------------
(***************************************************************************)
(* The money of one order: in the cart of the kiosk or in the payload of a *)
(* delivery platform, in the row that create_order or _persist_order       *)
(* stores, and in the invoice made from the row's lines.  All amounts are  *)
(* in cents.  Where the code rounds a binary fraction that may lie on      *)
(* either side of half a cent, both outcomes are possible.                 *)
(***************************************************************************)
EXTENDS Naturals, Sequences, FiniteSets, Functions, SequencesExt

CONSTANTS
    Dishes,        \* items on the menu
    Options,       \* options of the items
    OptionsOf,     \* those of each item
    Prices,        \* prices of items
    Extras,        \* prices of options
    Rates,         \* settings.tax_rate, in tenths of a percent
    MaxUnits,      \* bound: things in the cart
    Quantities,    \* of a platform's lines
    Tenths         \* amounts a platform sends as decimals, in tenths of a cent

ASSUME MenuAssumption ==
    OptionsOf \in [Dishes -> SUBSET Options] /\ IsFiniteSet(Options)
ASSUME AmountAssumption ==
    /\ Prices \cup Extras \cup Rates \cup Tenths \subseteq Nat
    /\ Quantities \subseteq Nat \ {0} /\ MaxUnits \in Nat

VARIABLES
    price,   \* items.price
    extra,   \* customization_options.extra_price
    rate,    \* settings.tax_rate
    cart,    \* self.cart of the kiosk
    shown,   \* the total the kiosk shows
    order,   \* the row and its lines, once stored
    invoice  \* the totals of the document for NAV, once made

amountVars == <<price, extra, rate, cart, shown, order, invoice>>

Platforms == {"wolt", "foodpanda", "ubereats", "justeat", "generic"}

Entry == [item : Dishes, options : SUBSET Options, quantity : 1 .. MaxUnits]
NoOrder == [source |-> "none", lines |-> <<>>, subtotal |-> 0, tax |-> 0]
NoInvoice == [made |-> FALSE, net |-> 0, vat |-> 0, percentage |-> 0]

AmountsInit ==
    /\ price \in [Dishes -> Prices]
    /\ extra \in [Options -> Extras]
    /\ rate \in Rates
    /\ cart = <<>> /\ shown = 0
    /\ order = NoOrder
    /\ invoice = NoInvoice

-----------------------------------------------------------------------------
(***************************************************************************)
(* Rounding n / d to an integer.                                           *)
(***************************************************************************)
Tie(n, d) == 2 * (n % d) = d

HalfUp(n, d) == (2 * n + d) \div (2 * d)

HalfEven(n, d) ==
    LET q == n \div d IN IF Tie(n, d) THEN q + (q % 2) ELSE HalfUp(n, d)

\* The value is not exact: a tie goes either way.
Inexact(n, d) == IF Tie(n, d) THEN {n \div d, n \div d + 1} ELSE {HalfUp(n, d)}

SumOf(seq, Amount(_)) == SumFunction([k \in DOMAIN seq |-> Amount(seq[k])])

-----------------------------------------------------------------------------
(***************************************************************************)
(* The cart.                                                               *)
(***************************************************************************)
ExtrasOf(e) == SumFunctionOnSet(extra, e.options)

UnitPrice(e) == price[e.item] + ExtrasOf(e)

\* _refresh_cart
Display(entries) ==
    /\ cart' = entries
    /\ shown' = SumOf(entries, LAMBDA e : UnitPrice(e) * e.quantity)

Units == SumOf(cart, LAMBDA e : e.quantity)

Shopping == order = NoOrder

\* Entries of the same item with the same options are merged.
AddToCart(i, chosen) ==
    LET same == {k \in DOMAIN cart : cart[k].item = i /\ cart[k].options = chosen}
    IN  /\ Shopping /\ Units < MaxUnits
        /\ \/ \E k \in same : Display([cart EXCEPT ![k].quantity = @ + 1])
           \/ /\ same = {}
              /\ Display(Append(cart, [item |-> i, options |-> chosen, quantity |-> 1]))
        /\ UNCHANGED <<price, extra, rate, order, invoice>>

RemoveFromCart(k) ==
    /\ Shopping
    /\ Display(IF cart[k].quantity > 1 THEN [cart EXCEPT ![k].quantity = @ - 1]
                                       ELSE RemoveAt(cart, k))
    /\ UNCHANGED <<price, extra, rate, order, invoice>>

-----------------------------------------------------------------------------
(***************************************************************************)
(* The order.                                                              *)
(***************************************************************************)
Line(unit, quantity, total) == [unit |-> unit, quantity |-> quantity, total |-> total]

\* Fault: the options are not added at all.
LineWithoutOptions(e) ==
    Line(UnitPrice(e), e.quantity, price[e.item] * e.quantity)

\* create_order adds the options to a unit price that contains them.
KioskLine(e) ==
    Line(UnitPrice(e), e.quantity, (UnitPrice(e) + ExtrasOf(e)) * e.quantity)

\* The kiosk adds up floats when there are options.
KioskTax(subtotal) ==
    IF \E k \in DOMAIN cart : ExtrasOf(cart[k]) > 0
    THEN Inexact(subtotal * rate, 1000)
    ELSE {HalfEven(subtotal * rate, 1000)}

CreateOrder ==
    LET lines == [k \in DOMAIN cart |-> KioskLine(cart[k])]
        subtotal == SumOf(lines, LAMBDA l : l.total)
    IN  /\ Shopping /\ cart # <<>>
        /\ \E tax \in KioskTax(subtotal) :
              order' = [source |-> "kiosk", lines |-> lines, subtotal |-> subtotal, tax |-> tax]
        /\ UNCHANGED <<price, extra, rate, cart, shown, invoice>>

\* Two platforms send cents (_cents_to_major), the others decimals (_safe_float); what
\* is missing counts as 0.
Reading(platform, amount) ==
    IF platform \in {"wolt", "ubereats"} THEN {amount} ELSE Inexact(amount, 10)

\* The adapter of the platform, for a payload with one line, and _persist_order.
Subtotal(platform, said, line) ==
    IF platform = "generic" /\ said = 0 THEN line.total ELSE said

PersistOrder(platform) ==
    \E unit \in Tenths, quantity \in Quantities, total \in Tenths :
        \E u \in Reading(platform, unit), t \in Reading(platform, total) :
            LET line == Line(u, quantity, u * quantity)
                subtotal == Subtotal(platform, t, line)
            IN  /\ Shopping /\ cart = <<>>
                /\ \E tax \in Inexact(subtotal * rate, 1000) :
                      order' = [source |-> platform, lines |-> <<line>>,
                                subtotal |-> subtotal, tax |-> tax]
                /\ UNCHANGED <<price, extra, rate, cart, shown, invoice>>

-----------------------------------------------------------------------------
(***************************************************************************)
(* The invoice: order_to_invoice_request and build_invoice_xml.            *)
(***************************************************************************)

\* Fault: the fraction of a cent is cut off.
NetPerUnitCut(unit) == (unit * 1000) \div (1000 + rate)

\* The unit price is taken for gross.
NetPerUnit(unit) == HalfUp(unit * 1000, 1000 + rate)

LineNet(l) == NetPerUnit(l.unit) * l.quantity

\* Fault: the VAT is taken from the gross amount.
LineVatOfGross(l) == HalfUp(l.unit * l.quantity * rate, 1000)

LineVat(l) == HalfUp(LineNet(l) * rate, 1000)

\* The rate is declared as a fraction with two digits.
MakeInvoice ==
    /\ order # NoOrder
    /\ ~invoice.made
    /\ invoice' = [made |-> TRUE,
                   net |-> SumOf(order.lines, LineNet),
                   vat |-> SumOf(order.lines, LineVat),
                   percentage |-> HalfUp(rate, 10)]
    /\ UNCHANGED <<price, extra, rate, cart, shown, order>>

AmountsNext ==
    \/ \E i \in Dishes : \E chosen \in SUBSET OptionsOf[i] : AddToCart(i, chosen)
    \/ \E k \in DOMAIN cart : RemoveFromCart(k)
    \/ CreateOrder
    \/ \E platform \in Platforms : PersistOrder(platform)
    \/ MakeInvoice

-----------------------------------------------------------------------------
(***************************************************************************)
(* Properties.                                                             *)
(***************************************************************************)

\* The screen always shows the total of the things in the cart, of which no two entries
\* are the same; what is stored before tax exceeds it by the options, counted twice.
StoredExceedsShownByOptions ==
    /\ \A j, k \in DOMAIN cart :
          cart[j].item = cart[k].item /\ cart[j].options = cart[k].options => j = k
    /\ order.source = "kiosk" =>
          order.subtotal = shown + SumOf(cart, LAMBDA e : ExtrasOf(e) * e.quantity)

Gross == invoice.net + invoice.vat

Distance(a, b) == IF a < b THEN b - a ELSE a - b

\* The invoice comes to what the lines' unit prices come to, up to the rounding: half a
\* net cent for each thing and half a cent for each line.  Neither the tax that
\* create_order adds to the order nor the second price of the options is invoiced.
InvoiceNearLines ==
    invoice.made =>
        2000 * Distance(Gross, SumOf(order.lines, LAMBDA l : l.unit * l.quantity))
            <= SumOf(order.lines, LAMBDA l : l.quantity * (1000 + rate) + 1000)

\* The VAT is what the declared rate makes of the net amount, up to half a cent for each
\* line, provided the rate is a whole percentage: a fraction of one is not declared.
DeclaredRateHolds ==
    invoice.made /\ rate % 10 = 0 =>
        Distance(invoice.vat * 100, invoice.net * invoice.percentage) <= 50 * Len(order.lines)

=============================================================================
