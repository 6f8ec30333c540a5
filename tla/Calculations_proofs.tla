------------------------ MODULE Calculations_proofs ------------------------
(***************************************************************************)
(* Proofs about the amounts of an order and about the check of a webhook's *)
(* signature, for every menu, every price, every rate and every length of  *)
(* a digest.                                                               *)
(***************************************************************************)
EXTENDS Calculations, FiniteSetTheorems, SequenceTheorems, WellFoundedInduction, TLAPS

-----------------------------------------------------------------------------
(***************************************************************************)
(* Sums.  SumFunctionOnSet is recursive: it takes one element after the    *)
(* other out of the set of indices.  What it computes follows by induction *)
(* over the finite sets, in the form of their well-founded order: a set of *)
(* sets that has a set whenever it has the smaller ones has them all.      *)
(***************************************************************************)
\* The element that the sum takes next.
Taken(s) == CHOOSE x \in s : TRUE

\* The recursion, for a candidate g for the sums over the subsets of I.
SumStep(f, s, g) == IF s = {} THEN 0 ELSE f[Taken(s)] + g[s \ {Taken(s)}]

SumsOver(f, I, g) == g = [s \in SUBSET I |-> SumStep(f, s, g)]

\* A non-empty set of indices has a next one.
LEMMA TakenIn == ASSUME NEW s, s # {} PROVE Taken(s) \in s
BY DEF Taken

\* The sum of the community modules is the value at the whole set of a recursive function.
LEMMA SumUnfold ==
    ASSUME NEW f, NEW I
    PROVE  SumFunctionOnSet(f, I) = (CHOOSE g : SumsOver(f, I, g))[I]
BY DEF SumFunctionOnSet, FoldFunctionOnSet, MapThenFoldSet, SumsOver, SumStep, Taken

\* A set of finite sets that has a set whenever it has its proper subsets has them all.
LEMMA FiniteSetsInduction ==
    ASSUME NEW I, IsFiniteSet(I), NEW C,
           \A s \in SUBSET I : (\A t \in SUBSET s : t # s => t \in C) => s \in C
    PROVE  SUBSET I \subseteq C
<1> SUFFICES ASSUME (SUBSET I) \ C # {} PROVE FALSE
    OBVIOUS
<1> DEFINE Rest == (SUBSET I) \ C
<1>1. Rest \subseteq FiniteSubsetsOf(I) /\ Rest # {}
    BY FS_FiniteSubsetsOfFinite
<1>2. PICK s \in Rest : \A t \in Rest : <<t, s>> \notin StrictSubsetOrdering(I)
    <2> HIDE DEF Rest
    <2> QED BY <1>1, WFMin, FS_StrictSubsetOrderingWellFounded
<1>3. ASSUME NEW t \in SUBSET s, t # s PROVE t \in C
    <2>1. <<t, s>> \in StrictSubsetOrdering(I) /\ t \in SUBSET I
        BY <1>3 DEF StrictSubsetOrdering
    <2> QED BY <2>1, <1>2
<1> QED BY <1>2, <1>3

\* The recursions over two nested sets of indices compute the same for the smaller one.
LEMMA SumsAgree ==
    ASSUME NEW f, NEW I, IsFiniteSet(I), NEW J \in SUBSET I, NEW g, NEW h,
           SumsOver(f, I, g), SumsOver(f, J, h)
    PROVE  g[J] = h[J]
<1> DEFINE C == {s \in SUBSET J : g[s] = h[s]}
<1>1. IsFiniteSet(J)
    BY FS_Subset
<1>2. ASSUME NEW s \in SUBSET J, \A t \in SUBSET s : t # s => t \in C PROVE s \in C
    <2>1. g[s] = SumStep(f, s, g) /\ h[s] = SumStep(f, s, h)
        BY DEF SumsOver
    <2>2. s # {} => g[s \ {Taken(s)}] = h[s \ {Taken(s)}]
        BY <1>2, TakenIn
    <2> QED BY <2>1, <2>2 DEF SumStep
<1> HIDE DEF C
<1>3. SUBSET J \subseteq C
    BY <1>1, <1>2, FiniteSetsInduction
<1> QED BY <1>3, J \in SUBSET J DEF C

\* Over a finite set of indices the recursion has a solution.
LEMMA SumsExist ==
    ASSUME NEW f, NEW I, IsFiniteSet(I)
    PROVE  \E g : SumsOver(f, I, g)
<1> DEFINE C == {s \in SUBSET I : \E g : SumsOver(f, s, g)}
<1>1. ASSUME NEW s \in SUBSET I, \A t \in SUBSET s : t # s => t \in C PROVE s \in C
    <2> DEFINE G(t) == CHOOSE g : SumsOver(f, t, g)
               below == [t \in (SUBSET s) \ {s} |-> G(t)[t]]
               h == [t \in SUBSET s |-> IF t = s THEN SumStep(f, s, below) ELSE below[t]]
    <2>1. \A t \in SUBSET s : t # s => SumsOver(f, t, G(t))
        BY <1>1
    <2>0. \A t \in SUBSET s : h[t] = IF t = s THEN SumStep(f, s, below) ELSE G(t)[t]
        OBVIOUS
    <2> HIDE DEF G
    <2>2. ASSUME NEW t \in SUBSET s PROVE h[t] = SumStep(f, t, h)
        <3>1. t # {} => /\ t \ {Taken(t)} \in (SUBSET s) \ {s}
                        /\ t \ {Taken(t)} \in SUBSET t
            BY TakenIn
        <3>4. t # {} => h[t \ {Taken(t)}] = G(t \ {Taken(t)})[t \ {Taken(t)}]
            BY <3>1, <2>0
        <3>2. CASE t = s
            BY <3>1, <3>4, <2>0, <3>2 DEF SumStep
        <3>3. CASE t # s
            <4>1. h[t] = G(t)[t]
                BY <3>3, <2>0
            <4>2. SumsOver(f, t, G(t)) /\ IsFiniteSet(t)
                BY <2>1, <3>3, FS_Subset
            <4>3. G(t)[t] = SumStep(f, t, G(t))
                BY <4>2 DEF SumsOver
            <4>4. t # {} => G(t)[t \ {Taken(t)}] = G(t \ {Taken(t)})[t \ {Taken(t)}]
                <5> SUFFICES ASSUME t # {} PROVE G(t)[t \ {Taken(t)}] = G(t \ {Taken(t)})[t \ {Taken(t)}]
                    OBVIOUS
                <5>1. SumsOver(f, t \ {Taken(t)}, G(t \ {Taken(t)}))
                    BY <2>1, <3>1
                <5> QED BY <3>1, <5>1, <4>2, SumsAgree
            <4> QED BY <4>1, <4>3, <4>4, <3>4 DEF SumStep
        <3> QED BY <3>2, <3>3
    <2>3. SumsOver(f, s, h)
        BY <2>2 DEF SumsOver
    <2> QED BY <2>3
<1> HIDE DEF C
<1>2. SUBSET I \subseteq C
    BY <1>1, FiniteSetsInduction
<1> QED BY <1>2 DEF C

\* The sum over no indices is 0, and some element of any other set can be added last.
LEMMA SumTakesOne ==
    ASSUME NEW f, NEW I, IsFiniteSet(I)
    PROVE  SumFunctionOnSet(f, I)
               = IF I = {} THEN 0
                 ELSE f[Taken(I)] + SumFunctionOnSet(f, I \ {Taken(I)})
<1> DEFINE G(J) == CHOOSE g : SumsOver(f, J, g)
<1>1. \A J \in SUBSET I : SumsOver(f, J, G(J)) /\ SumFunctionOnSet(f, J) = G(J)[J]
    BY SumsExist, SumUnfold, FS_Subset
<1>2. G(I)[I] = SumStep(f, I, G(I))
    BY <1>1 DEF SumsOver
<1>3. ASSUME I # {} PROVE G(I)[I \ {Taken(I)}] = SumFunctionOnSet(f, I \ {Taken(I)})
    <2>1. I \ {Taken(I)} \in SUBSET I
        OBVIOUS
    <2> HIDE DEF G
    <2> QED BY <1>1, <2>1, SumsAgree
<1> QED BY <1>1, <1>2, <1>3 DEF SumStep

\* A set of sets in which every finite set follows from itself less one element.
LEMMA SumInduction ==
    ASSUME NEW I, IsFiniteSet(I), NEW C, {} \in C,
           \A s \in SUBSET I : s # {} /\ s \ {Taken(s)} \in C => s \in C
    PROVE  SUBSET I \subseteq C
<1>1. ASSUME NEW s \in SUBSET I, \A t \in SUBSET s : t # s => t \in C PROVE s \in C
    BY <1>1, TakenIn
<1> QED BY <1>1, FiniteSetsInduction

\* The sum of nothing is 0.
LEMMA SumOfNone == ASSUME NEW f PROVE SumFunctionOnSet(f, {}) = 0
BY SumTakesOne, FS_EmptySet

\* Every sum of naturals takes some index last and is then that summand and the rest.
LEMMA SumFacts ==
    ASSUME NEW f, NEW I, IsFiniteSet(I), NEW s \in SUBSET I, s # {}
    PROVE  SumFunctionOnSet(f, s) = f[Taken(s)] + SumFunctionOnSet(f, s \ {Taken(s)})
BY SumTakesOne, FS_Subset

\* A sum of naturals is one.
LEMMA SumIsNat ==
    ASSUME NEW f, NEW I, IsFiniteSet(I), \A x \in I : f[x] \in Nat
    PROVE  SumFunctionOnSet(f, I) \in Nat
<1> DEFINE C == {s \in SUBSET I : SumFunctionOnSet(f, s) \in Nat}
<1>1. {} \in C
    BY SumOfNone
<1>2. ASSUME NEW s \in SUBSET I, s # {}, s \ {Taken(s)} \in C PROVE s \in C
    <2>1. Taken(s) \in I
        BY <1>2, TakenIn
    <2> QED BY <2>1, <1>2, SumFacts
<1> HIDE DEF C
<1>3. SUBSET I \subseteq C
    BY <1>1, <1>2, SumInduction
<1> QED BY <1>3 DEF C

\* Sums of the same indices add up summand by summand.
LEMMA SumOfSums ==
    ASSUME NEW f, NEW g, NEW h, NEW I, IsFiniteSet(I),
           \A x \in I : f[x] \in Nat /\ g[x] \in Nat /\ h[x] = f[x] + g[x]
    PROVE  SumFunctionOnSet(h, I) = SumFunctionOnSet(f, I) + SumFunctionOnSet(g, I)
<1> DEFINE C == {s \in SUBSET I : /\ SumFunctionOnSet(f, s) \in Nat /\ SumFunctionOnSet(g, s) \in Nat
                                  /\ SumFunctionOnSet(h, s) = SumFunctionOnSet(f, s) + SumFunctionOnSet(g, s)}
<1>1. {} \in C
    BY SumOfNone
<1>2. ASSUME NEW s \in SUBSET I, s # {}, s \ {Taken(s)} \in C PROVE s \in C
    <2>1. Taken(s) \in I
        BY <1>2, TakenIn
    <2> QED BY <2>1, <1>2, SumFacts
<1> HIDE DEF C
<1>3. SUBSET I \subseteq C
    BY <1>1, <1>2, SumInduction
<1> QED BY <1>3 DEF C

\* A linear bound on every summand is one on the sum.
LEMMA SumBounded ==
    ASSUME NEW f, NEW g, NEW h, NEW c \in Nat, NEW d \in Nat, NEW I, IsFiniteSet(I),
           \A x \in I : /\ f[x] \in Nat /\ g[x] \in Nat /\ h[x] \in Nat
                       /\ c * f[x] <= d * g[x] + h[x]
    PROVE  c * SumFunctionOnSet(f, I) <= d * SumFunctionOnSet(g, I) + SumFunctionOnSet(h, I)
<1> DEFINE C == {s \in SUBSET I :
                   /\ SumFunctionOnSet(f, s) \in Nat /\ SumFunctionOnSet(g, s) \in Nat /\ SumFunctionOnSet(h, s) \in Nat
                   /\ c * SumFunctionOnSet(f, s) <= d * SumFunctionOnSet(g, s) + SumFunctionOnSet(h, s)}
<1>1. {} \in C
    BY SumOfNone
<1>2. ASSUME NEW s \in SUBSET I, s # {}, s \ {Taken(s)} \in C PROVE s \in C
    <2>1. Taken(s) \in I
        BY <1>2, TakenIn
    <2>2. ASSUME NEW x \in Nat, NEW y \in Nat, NEW z \in Nat,
                 NEW X \in Nat, NEW Y \in Nat, NEW Z \in Nat,
                 c * x <= d * y + z, c * X <= d * Y + Z
          PROVE  c * (x + X) <= d * (y + Y) + (z + Z)
        <3>1. c * (x + X) = c * x + c * X /\ d * (y + Y) = d * y + d * Y
            OBVIOUS
        <3>2. c * x \in Nat /\ c * X \in Nat /\ d * y \in Nat /\ d * Y \in Nat
            OBVIOUS
        <3> QED BY <2>2, <3>1, <3>2
    <2> QED BY <2>1, <2>2, <1>2, SumFacts
<1> HIDE DEF C
<1>3. SUBSET I \subseteq C
    BY <1>1, <1>2, SumInduction
<1> QED BY <1>3 DEF C

\* Equal summands sum up to a product.
LEMMA SumConstant ==
    ASSUME NEW f, NEW c \in Nat, NEW I, IsFiniteSet(I), \A x \in I : f[x] = c
    PROVE  SumFunctionOnSet(f, I) = c * Cardinality(I)
<1> DEFINE C == {s \in SUBSET I : SumFunctionOnSet(f, s) = c * Cardinality(s)}
<1>1. {} \in C
    BY SumOfNone, FS_EmptySet
<1>2. ASSUME NEW s \in SUBSET I, s # {}, s \ {Taken(s)} \in C PROVE s \in C
    <2>1. Taken(s) \in s /\ Taken(s) \in I /\ IsFiniteSet(s)
        BY <1>2, TakenIn, FS_Subset
    <2>2. Cardinality(s) \in Nat /\ Cardinality(s \ {Taken(s)}) = Cardinality(s) - 1
        BY <2>1, FS_RemoveElement, FS_CardinalityType
    <2>3. c * Cardinality(s) = c + c * (Cardinality(s) - 1)
        BY <2>2
    <2>4. SumFunctionOnSet(f, s) = c + SumFunctionOnSet(f, s \ {Taken(s)})
        BY <2>1, <1>2, SumFacts
    <2> QED BY <2>2, <2>3, <2>4, <1>2
<1> HIDE DEF C
<1>3. SUBSET I \subseteq C
    BY <1>1, <1>2, SumInduction
<1> QED BY <1>3 DEF C

-----------------------------------------------------------------------------
(***************************************************************************)
(* Rounding.                                                               *)
(***************************************************************************)
\* Quotient and remainder of naturals.
LEMMA DivBounds ==
    ASSUME NEW a \in Nat, NEW b \in Nat \ {0}
    PROVE  /\ a \div b \in Nat /\ a % b \in Nat
           /\ b * (a \div b) <= a /\ a < b * (a \div b) + b
OBVIOUS

\* Half the divisor is the most that rounding is off by.
LEMMA HalfUpBounds ==
    ASSUME NEW n \in Nat, NEW d \in Nat \ {0}
    PROVE  /\ HalfUp(n, d) \in Nat
           /\ 2 * (d * HalfUp(n, d)) <= 2 * n + d
           /\ 2 * n <= 2 * (d * HalfUp(n, d)) + d
<1> DEFINE h == HalfUp(n, d)
<1>1. /\ h \in Nat
      /\ (2 * d) * h <= 2 * n + d /\ 2 * n + d < (2 * d) * h + 2 * d
    BY DivBounds, 2 * n + d \in Nat, 2 * d \in Nat \ {0} DEF HalfUp
<1>2. (2 * d) * h = 2 * (d * h) /\ d * h \in Nat
    BY <1>1
<1> HIDE DEF h
<1> QED BY <1>1, <1>2 DEF h

\* Whatever the rounding of an exact or of a binary fraction, it gives a natural.
LEMMA RoundingsAreNat ==
    ASSUME NEW n \in Nat, NEW d \in Nat \ {0}
    PROVE  HalfEven(n, d) \in Nat /\ Inexact(n, d) \subseteq Nat
<1> DEFINE q == n \div d
<1>1. q \in Nat /\ HalfUp(n, d) \in Nat
    BY DivBounds, HalfUpBounds
<1> HIDE DEF q
<1>2. q % 2 \in Nat
    BY <1>1
<1> QED BY <1>1, <1>2 DEF HalfEven, Inexact, q

-----------------------------------------------------------------------------
(***************************************************************************)
(* The cart and the order.                                                 *)
(***************************************************************************)
\* What carts and orders consist of.
CartEntry == [item : Dishes, options : SUBSET Options, quantity : Nat \ {0}]

OrderLine == [unit : Nat, quantity : Nat, total : Nat]

\* The types of the variables of OrderAmounts.
AmountTypes ==
    /\ price \in [Dishes -> Nat] /\ extra \in [Options -> Nat] /\ rate \in Nat
    /\ cart \in Seq(CartEntry)
    /\ order \in [source : Platforms \cup {"none", "kiosk"}, lines : Seq(OrderLine),
                  subtotal : Nat, tax : Nat]
    /\ invoice \in [made : BOOLEAN, net : Nat, vat : Nat, percentage : Nat]

\* Two entries differ in the item or in the options.
NoTwins(entries) ==
    \A j, k \in DOMAIN entries :
        entries[j].item = entries[k].item /\ entries[j].options = entries[k].options => j = k

\* What the invoice sums up over an order's lines, their price and how far rounding can be off.
NetOf(lines)   == SumOf(lines, LineNet)
VatOf(lines)   == SumOf(lines, LineVat)
GrossOf(lines) == SumOf(lines, LAMBDA l : l.unit * l.quantity)
SlackOf(lines) == SumOf(lines, LAMBDA l : l.quantity * (1000 + rate) + 1000)

\* An invoice is that of the stored order.
InvoiceOfLines ==
    invoice.made =>
        /\ order # NoOrder
        /\ invoice.net = NetOf(order.lines) /\ invoice.vat = VatOf(order.lines)
        /\ invoice.percentage = HalfUp(rate, 10)

\* What the screen shows for a cart, and the options in it.
ShownTotal(entries) == SumOf(entries, LAMBDA e : UnitPrice(e) * e.quantity)

OptionsTotal(entries) == SumOf(entries, LAMBDA e : ExtrasOf(e) * e.quantity)

\* The screen shows what is in the cart, the stored order is that of the cart.
AmountsInv ==
    /\ AmountTypes
    /\ NoTwins(cart)
    /\ shown = ShownTotal(cart)
    /\ order.source = "kiosk" => order.subtotal = shown + OptionsTotal(cart)
    /\ InvoiceOfLines

\* The amounts of an entry of the cart are naturals.
LEMMA EntryAmounts ==
    ASSUME AmountTypes, NEW e \in CartEntry
    PROVE  UnitPrice(e) \in Nat /\ ExtrasOf(e) \in Nat /\ e.quantity \in Nat
<1>1. IsFiniteSet(e.options) /\ e.options \subseteq Options
    BY MenuAssumption, FS_Subset DEF CartEntry
<1>2. ExtrasOf(e) \in Nat
    BY <1>1, SumIsNat DEF ExtrasOf, AmountTypes
<1> QED BY <1>2 DEF UnitPrice, CartEntry, AmountTypes

\* A sequence has finitely many indices, its length says how many.
LEMMA IndicesFinite ==
    ASSUME NEW S, NEW s \in Seq(S)
    PROVE  /\ DOMAIN s = 1 .. Len(s) /\ Len(s) \in Nat /\ \A k \in DOMAIN s : s[k] \in S
           /\ IsFiniteSet(DOMAIN s) /\ Cardinality(DOMAIN s) = Len(s)
<1>1. DOMAIN s = 1 .. Len(s) /\ Len(s) \in Nat
    BY LenProperties
<1>2. \A k \in DOMAIN s : s[k] \in S
    BY <1>1, ElementOfSeq
<1>3. IsFiniteSet(1 .. Len(s)) /\ Cardinality(1 .. Len(s)) = Len(s)
    <2> DEFINE n == Len(s)
    <2>1. n \in Nat
        BY <1>1
    <2> HIDE DEF n
    <2>2. IsFiniteSet(1 .. n) /\ Cardinality(1 .. n) = IF 1 > n THEN 0 ELSE n - 1 + 1
        BY <2>1, FS_Interval
    <2>3. Cardinality(1 .. n) = n
        BY <2>1, <2>2
    <2> QED BY <2>2, <2>3 DEF n
<1> QED BY <1>1, <1>2, <1>3

\* What is stored for a cart exceeds what is shown for it by the options.
LEMMA CartTotals ==
    ASSUME AmountTypes
    PROVE  LET lines == [k \in DOMAIN cart |-> KioskLine(cart[k])]
           IN  /\ lines \in Seq(OrderLine)
               /\ ShownTotal(cart) \in Nat /\ OptionsTotal(cart) \in Nat
               /\ SumOf(lines, LAMBDA l : l.total) = ShownTotal(cart) + OptionsTotal(cart)
<1> DEFINE lines == [k \in DOMAIN cart |-> KioskLine(cart[k])]
           f == [k \in DOMAIN cart |-> UnitPrice(cart[k]) * cart[k].quantity]
           g == [k \in DOMAIN cart |-> ExtrasOf(cart[k]) * cart[k].quantity]
           h == [k \in DOMAIN lines |-> lines[k].total]
<1>1. IsFiniteSet(DOMAIN cart)
    BY IndicesFinite DEF AmountTypes
<1>2. ASSUME NEW k \in DOMAIN cart
      PROVE  /\ UnitPrice(cart[k]) \in Nat /\ ExtrasOf(cart[k]) \in Nat
             /\ cart[k].quantity \in Nat
    BY EntryAmounts, IndicesFinite DEF AmountTypes
<1>3. ASSUME NEW u \in Nat, NEW x \in Nat, NEW q \in Nat
      PROVE  /\ u * q \in Nat /\ x * q \in Nat /\ (u + x) * q \in Nat
             /\ (u + x) * q = u * q + x * q
    OBVIOUS
<1>4. \A k \in DOMAIN cart : f[k] \in Nat /\ g[k] \in Nat /\ h[k] = f[k] + g[k]
    BY <1>2, <1>3 DEF KioskLine, Line
<1>5. \A k \in DOMAIN cart : lines[k] \in OrderLine
    BY <1>2, <1>3 DEF KioskLine, Line, OrderLine
<1>6. lines \in Seq(OrderLine)
    BY <1>5, IsASeq, IndicesFinite DEF AmountTypes
<1>7. /\ ShownTotal(cart) = SumFunctionOnSet(f, DOMAIN cart)
      /\ OptionsTotal(cart) = SumFunctionOnSet(g, DOMAIN cart)
      /\ SumOf(lines, LAMBDA l : l.total) = SumFunctionOnSet(h, DOMAIN cart)
    BY DEF ShownTotal, OptionsTotal, SumOf, SumFunction
<1> HIDE DEF f, g, h, lines
<1>8. /\ SumFunctionOnSet(f, DOMAIN cart) \in Nat /\ SumFunctionOnSet(g, DOMAIN cart) \in Nat
      /\ SumFunctionOnSet(h, DOMAIN cart)
             = SumFunctionOnSet(f, DOMAIN cart) + SumFunctionOnSet(g, DOMAIN cart)
    BY <1>1, <1>4, SumIsNat, SumOfSums
<1> QED BY <1>6, <1>7, <1>8 DEF lines

-----------------------------------------------------------------------------
(***************************************************************************)
(* The invoice.                                                            *)
(***************************************************************************)
\* Net and tax of a line come to its price but for half a unit of each rounding.
LEMMA InvoicedLine ==
    ASSUME AmountTypes, NEW l \in OrderLine
    PROVE  /\ LineNet(l) \in Nat /\ LineVat(l) \in Nat
           /\ l.unit * l.quantity \in Nat /\ l.quantity * (1000 + rate) + 1000 \in Nat
           /\ 2000 * (LineNet(l) + LineVat(l))
                  <= 2000 * (l.unit * l.quantity) + (l.quantity * (1000 + rate) + 1000)
           /\ 2000 * (l.unit * l.quantity)
                  <= 2000 * (LineNet(l) + LineVat(l)) + (l.quantity * (1000 + rate) + 1000)
           /\ 2 * (1000 * LineVat(l)) <= 2 * (LineNet(l) * rate) + 1000
           /\ 2 * (LineNet(l) * rate) <= 2 * (1000 * LineVat(l)) + 1000
<1> DEFINE u == l.unit
           q == l.quantity
           d == 1000 + rate
           n == NetPerUnit(l.unit)
           v == LineVat(l)
<1>1. u \in Nat /\ q \in Nat /\ rate \in Nat /\ d \in Nat \ {0}
    BY DEF OrderLine, AmountTypes
<1>2. /\ n \in Nat
      /\ 2 * (d * n) <= 2 * (u * 1000) + d /\ 2 * (u * 1000) <= 2 * (d * n) + d
    <2>1. n = HalfUp(u * 1000, d) /\ u * 1000 \in Nat
        BY <1>1 DEF NetPerUnit
    <2> HIDE DEF u, d, n
    <2> QED BY <1>1, <2>1, HalfUpBounds
<1>3. n * q \in Nat /\ n * q * rate \in Nat /\ LineNet(l) = n * q
    BY <1>1, <1>2 DEF LineNet
<1>4. /\ v \in Nat
      /\ 2 * (1000 * v) <= 2 * (n * q * rate) + 1000
      /\ 2 * (n * q * rate) <= 2 * (1000 * v) + 1000
    BY <1>3, HalfUpBounds DEF LineVat
<1> HIDE DEF u, q, d, n, v
\* The bounds of the unit price, for the whole quantity.
<1>5. ASSUME NEW a \in Nat, NEW b \in Nat, a <= b PROVE a * q <= b * q
    BY <1>1, <1>5
<1>6. /\ (2 * (d * n)) * q <= (2 * (u * 1000) + d) * q
      /\ (2 * (u * 1000)) * q <= (2 * (d * n) + d) * q
    BY <1>1, <1>2, <1>5, d * n \in Nat
<1>7. /\ (2 * (d * n)) * q = 2000 * (n * q) + 2 * (n * q * rate)
      /\ (2 * (d * n) + d) * q = 2000 * (n * q) + 2 * (n * q * rate) + q * d
      /\ (2 * (u * 1000)) * q = 2000 * (u * q)
      /\ (2 * (u * 1000) + d) * q = 2000 * (u * q) + q * d
    BY <1>1, <1>2 DEF d
<1>8. u * q \in Nat /\ q * d \in Nat
    BY <1>1
<1>9. /\ 2000 * (n * q + v) <= 2000 * (u * q) + (q * d + 1000)
      /\ 2000 * (u * q) <= 2000 * (n * q + v) + (q * d + 1000)
    BY <1>3, <1>4, <1>6, <1>7, <1>8
<1> QED BY <1>3, <1>4, <1>8, <1>9 DEF u, q, d, n, v

\* What holds of each invoiced line holds of an order's lines together.
LEMMA LinesTotals ==
    ASSUME AmountTypes, NEW lines \in Seq(OrderLine)
    PROVE  /\ NetOf(lines) \in Nat /\ VatOf(lines) \in Nat
           /\ GrossOf(lines) \in Nat /\ SlackOf(lines) \in Nat
           /\ 2000 * (NetOf(lines) + VatOf(lines)) <= 2000 * GrossOf(lines) + SlackOf(lines)
           /\ 2000 * GrossOf(lines) <= 2000 * (NetOf(lines) + VatOf(lines)) + SlackOf(lines)
           /\ 2000 * VatOf(lines) <= (2 * rate) * NetOf(lines) + 1000 * Len(lines)
           /\ (2 * rate) * NetOf(lines) <= 2000 * VatOf(lines) + 1000 * Len(lines)
<1> DEFINE I == DOMAIN lines
           net == [k \in I |-> LineNet(lines[k])]
           vat == [k \in I |-> LineVat(lines[k])]
           both == [k \in I |-> LineNet(lines[k]) + LineVat(lines[k])]
           gross == [k \in I |-> lines[k].unit * lines[k].quantity]
           slack == [k \in I |-> lines[k].quantity * (1000 + rate) + 1000]
           half == [k \in I |-> 1000]
           T(f) == SumFunctionOnSet(f, I)
<1>1. IsFiniteSet(I) /\ Cardinality(I) = Len(lines) /\ \A k \in I : lines[k] \in OrderLine
    BY IndicesFinite
<1>2. rate \in Nat
    BY DEF AmountTypes
<1>3. ASSUME NEW k \in I
      PROVE  /\ net[k] \in Nat /\ vat[k] \in Nat /\ both[k] = net[k] + vat[k]
             /\ gross[k] \in Nat /\ slack[k] \in Nat /\ half[k] = 1000
             /\ 2000 * both[k] <= 2000 * gross[k] + slack[k]
             /\ 2000 * gross[k] <= 2000 * both[k] + slack[k]
             /\ 2 * (1000 * vat[k]) <= 2 * (net[k] * rate) + 1000
             /\ 2 * (net[k] * rate) <= 2 * (1000 * vat[k]) + 1000
    BY <1>1, InvoicedLine
<1> HIDE DEF net, vat, both, gross, slack, half, I
<1>4. ASSUME NEW k \in I
      PROVE  /\ 2000 * vat[k] <= (2 * rate) * net[k] + half[k]
             /\ (2 * rate) * net[k] <= 2000 * vat[k] + half[k]
    <2> DEFINE n == net[k]
               v == vat[k]
    <2>1. n \in Nat /\ v \in Nat /\ half[k] = 1000
        BY <1>3
    <2>2. 2 * (1000 * v) <= 2 * (n * rate) + 1000 /\ 2 * (n * rate) <= 2 * (1000 * v) + 1000
        BY <1>3
    <2> HIDE DEF n, v
    <2>3. (2 * rate) * n = 2 * (n * rate) /\ n * rate \in Nat
        BY <1>2, <2>1
    <2>4. 2000 * v <= (2 * rate) * n + 1000 /\ (2 * rate) * n <= 2000 * v + 1000
        BY <2>1, <2>2, <2>3
    <2> QED BY <2>1, <2>4 DEF n, v
<1>5. T(net) \in Nat /\ T(vat) \in Nat /\ T(gross) \in Nat /\ T(slack) \in Nat
    BY <1>1, <1>3, SumIsNat
<1>6. T(both) = T(net) + T(vat)
    BY <1>1, <1>3, SumOfSums
<1>7. T(half) = 1000 * Len(lines)
    <2> DEFINE c == 1000
    <2>1. c \in Nat /\ \A k \in I : half[k] = c
        BY <1>3
    <2> HIDE DEF c
    <2>2. T(half) = c * Cardinality(I)
        BY <1>1, <2>1, SumConstant
    <2>3. T(half) = c * Len(lines)
        BY <1>1, <2>2
    <2> QED BY <2>3 DEF c
<1>8. \A k \in I : both[k] \in Nat /\ half[k] \in Nat
    <2> SUFFICES ASSUME NEW k \in I PROVE both[k] \in Nat /\ half[k] \in Nat
        OBVIOUS
    <2>1. net[k] \in Nat /\ vat[k] \in Nat /\ both[k] = net[k] + vat[k] /\ half[k] = 1000
        BY <1>3
    <2> QED BY <2>1
<1>9. /\ 2000 * T(both) <= 2000 * T(gross) + T(slack)
      /\ 2000 * T(gross) <= 2000 * T(both) + T(slack)
    <2> DEFINE c == 2000
    <2>1. \A k \in I : both[k] \in Nat /\ gross[k] \in Nat /\ slack[k] \in Nat
        BY <1>3, <1>8
    <2>2. /\ \A k \in I : c * both[k] <= c * gross[k] + slack[k]
          /\ \A k \in I : c * gross[k] <= c * both[k] + slack[k]
        BY <1>3
    <2>3. c \in Nat
        OBVIOUS
    <2> HIDE DEF c
    <2>4. c * T(both) <= c * T(gross) + T(slack)
        BY <1>1, <2>1, <2>2, <2>3, SumBounded
    <2>5. c * T(gross) <= c * T(both) + T(slack)
        BY <1>1, <2>1, <2>2, <2>3, SumBounded
    <2> QED BY <2>4, <2>5 DEF c
<1>10. /\ 2000 * T(vat) <= (2 * rate) * T(net) + T(half)
       /\ (2 * rate) * T(net) <= 2000 * T(vat) + T(half)
    <2> DEFINE c == 2000
               d == 2 * rate
    <2>1. \A k \in I : net[k] \in Nat /\ vat[k] \in Nat
        BY <1>3
    <2>2. \A k \in I : c * vat[k] <= d * net[k] + half[k] /\ d * net[k] <= c * vat[k] + half[k]
        BY <1>4
    <2>3. c \in Nat /\ d \in Nat
        BY <1>2
    <2> HIDE DEF c, d
    <2>4. c * T(vat) <= d * T(net) + T(half) /\ d * T(net) <= c * T(vat) + T(half)
        <3>1. c * T(vat) <= d * T(net) + T(half)
            BY <1>1, <1>8, <2>1, <2>2, <2>3, SumBounded
        <3>2. d * T(net) <= c * T(vat) + T(half)
            BY <1>1, <1>8, <2>1, <2>2, <2>3, SumBounded
        <3> QED BY <3>1, <3>2
    <2> QED BY <2>4 DEF c, d
<1>11. /\ NetOf(lines) = T(net) /\ VatOf(lines) = T(vat)
       /\ GrossOf(lines) = T(gross) /\ SlackOf(lines) = T(slack)
    BY DEF NetOf, VatOf, GrossOf, SlackOf, SumOf, SumFunction, net, vat, gross, slack, I
<1> HIDE DEF T
<1> QED BY <1>5, <1>6, <1>7, <1>9, <1>10, <1>11

-----------------------------------------------------------------------------
(***************************************************************************)
(* The invariant of the amounts.                                           *)
(***************************************************************************)
\* A step of the signature check leaves the amounts alone.
LEMMA AmountsUnchanged == AmountsInv /\ UNCHANGED amountVars => AmountsInv'
BY DEF AmountsInv, AmountTypes, NoTwins, InvoiceOfLines, amountVars, ShownTotal, OptionsTotal,
       NetOf, VatOf, LineNet, LineVat, NetPerUnit, SumOf, UnitPrice, ExtrasOf

\* An empty cart costs nothing.
LEMMA NothingInCart == ShownTotal(<<>>) = 0
<1>1. DOMAIN <<>> = {}
    OBVIOUS
<1> QED BY <1>1, SumOfNone DEF ShownTotal, SumOf, SumFunction

\* The invariant holds before anything is in the cart.
LEMMA AmountsStart ==
    ASSUME cart = <<>>, shown = 0, order = NoOrder, invoice = NoInvoice,
           price \in [Dishes -> Nat], extra \in [Options -> Nat], rate \in Nat
    PROVE  AmountsInv
BY NothingInCart
   DEF AmountsInv, AmountTypes, NoTwins, InvoiceOfLines, NoOrder, NoInvoice

\* The cart is shown and nothing has been ordered yet.
LEMMA DisplayKeepsInv ==
    ASSUME AmountsInv, Shopping, NEW entries \in Seq(CartEntry), NoTwins(entries),
           Display(entries), UNCHANGED <<price, extra, rate, order, invoice>>
    PROVE  AmountsInv'
<1>1. shown' = ShownTotal(cart)'
    BY DEF Display, ShownTotal, SumOf, SumFunction, UnitPrice, ExtrasOf
<1>2. AmountTypes' /\ NoTwins(cart)'
    BY DEF AmountsInv, AmountTypes, NoTwins, Display
<1>3. order'.source # "kiosk" /\ order' = NoOrder /\ ~ invoice'.made
    BY DEF Shopping, NoOrder, AmountsInv, AmountTypes, InvoiceOfLines
<1>4. InvoiceOfLines'
    BY <1>3 DEF InvoiceOfLines
<1> QED BY <1>1, <1>2, <1>3, <1>4 DEF AmountsInv

\* Removing an element moves those after it one place forward.
LEMMA RemoveAtProperties ==
    ASSUME NEW S, NEW s \in Seq(S), NEW k \in DOMAIN s
    PROVE  /\ RemoveAt(s, k) \in Seq(S)
           /\ DOMAIN RemoveAt(s, k) = 1 .. Len(s) - 1
           /\ \A j \in 1 .. Len(s) - 1 : RemoveAt(s, k)[j] = IF j < k THEN s[j] ELSE s[j + 1]
<1> DEFINE a == SubSeq(s, 1, k - 1)
           b == SubSeq(s, k + 1, Len(s))
<1>1. k \in 1 .. Len(s) /\ Len(s) \in Nat
    BY IndicesFinite
<1>2. a \in Seq(S) /\ Len(a) = k - 1 /\ \A j \in 1 .. k - 1 : a[j] = s[j]
    BY <1>1, SubSeqProperties
<1>3. /\ b \in Seq(S) /\ Len(b) = Len(s) - k
      /\ \A j \in 1 .. Len(s) - k : b[j] = s[k + j]
    BY <1>1, SubSeqProperties
<1> HIDE DEF a, b
<1>4. /\ a \o b \in Seq(S) /\ Len(a \o b) = Len(s) - 1
      /\ \A j \in 1 .. Len(s) - 1 : (a \o b)[j] = IF j < k THEN s[j] ELSE s[j + 1]
    BY <1>1, <1>2, <1>3, ConcatProperties
<1>5. RemoveAt(s, k) = a \o b
    BY DEF RemoveAt, a, b
<1> QED BY <1>4, <1>5, LenProperties

\* A changed quantity leaves an entry what it was.
LEMMA EntryOfOtherQuantity ==
    ASSUME NEW e \in CartEntry, NEW q \in Nat \ {0}
    PROVE  /\ [e EXCEPT !.quantity = q] \in CartEntry
           /\ [e EXCEPT !.quantity = q].item = e.item
           /\ [e EXCEPT !.quantity = q].options = e.options
BY DEF CartEntry

\* Adding joins equal choices in one entry, so there are no twins (_add_to_cart).
LEMMA AddToCartKeepsInv ==
    ASSUME AmountsInv, NEW i \in Dishes, NEW chosen \in SUBSET OptionsOf[i], AddToCart(i, chosen)
    PROVE  AmountsInv'
<1> DEFINE same == {k \in DOMAIN cart : cart[k].item = i /\ cart[k].options = chosen}
<1>1. cart \in Seq(CartEntry) /\ NoTwins(cart) /\ chosen \in SUBSET Options
    BY MenuAssumption DEF AmountsInv, AmountTypes
<1>2. Shopping /\ UNCHANGED <<price, extra, rate, order, invoice>>
    BY DEF AddToCart
<1>3. ASSUME NEW k \in same, Display([cart EXCEPT ![k].quantity = @ + 1])
      PROVE  AmountsInv'
    <2> DEFINE more == [cart EXCEPT ![k].quantity = @ + 1]
    <2>1. /\ cart[k] \in CartEntry /\ cart[k].quantity + 1 \in Nat \ {0}
          /\ DOMAIN cart = 1 .. Len(cart) /\ k \in 1 .. Len(cart)
        <3>1. /\ DOMAIN cart = 1 .. Len(cart)
              /\ \A j \in DOMAIN cart : cart[j] \in CartEntry
            BY <1>1, IndicesFinite
        <3>2. k \in DOMAIN cart
            OBVIOUS
        <3>3. \A e \in CartEntry : e.quantity + 1 \in Nat \ {0}
            BY DEF CartEntry
        <3> QED BY <3>1, <3>2, <3>3
    <2>2. more \in Seq(CartEntry) /\ NoTwins(more)
        BY <1>1, <2>1, EntryOfOtherQuantity, ExceptSeq DEF NoTwins
    <2> QED BY <1>2, <1>3, <2>2, DisplayKeepsInv
<1>4. ASSUME same = {},
             Display(Append(cart, [item |-> i, options |-> chosen, quantity |-> 1]))
      PROVE  AmountsInv'
    <2> DEFINE e == [item |-> i, options |-> chosen, quantity |-> 1]
               more == Append(cart, e)
    <2>1. e \in CartEntry
        BY <1>1 DEF CartEntry
    <2>2. more \in Seq(CartEntry) /\ NoTwins(more)
        BY <1>1, <1>4, <2>1, AppendProperties DEF NoTwins
    <2> QED BY <1>2, <1>4, <2>2, DisplayKeepsInv
<1> QED BY <1>3, <1>4 DEF AddToCart

\* Taking one out of the cart, or the entry with its last one (_remove_from_cart).
LEMMA RemoveFromCartKeepsInv ==
    ASSUME AmountsInv, NEW k \in DOMAIN cart, RemoveFromCart(k)
    PROVE  AmountsInv'
<1> DEFINE less == IF cart[k].quantity > 1 THEN [cart EXCEPT ![k].quantity = @ - 1]
                                           ELSE RemoveAt(cart, k)
<1>1. cart \in Seq(CartEntry) /\ NoTwins(cart) /\ cart[k] \in CartEntry
    BY IndicesFinite DEF AmountsInv, AmountTypes
<1>2. CASE cart[k].quantity > 1
    <2>1. [cart[k] EXCEPT !.quantity = @ - 1] \in CartEntry
        BY <1>1, <1>2 DEF CartEntry
    <2>2. less \in Seq(CartEntry) /\ NoTwins(less)
        BY <1>1, <1>2, <2>1, ExceptSeq DEF NoTwins
    <2> QED BY <2>2, DisplayKeepsInv DEF RemoveFromCart
<1>3. CASE ~ (cart[k].quantity > 1)
    <2>1. less = RemoveAt(cart, k)
        BY <1>3
    <2>2. RemoveAt(cart, k) \in Seq(CartEntry) /\ NoTwins(RemoveAt(cart, k))
        <3>1. DOMAIN cart = 1 .. Len(cart) /\ Len(cart) \in Nat
            BY <1>1, LenProperties
        <3> DEFINE left == RemoveAt(cart, k)
                   Was(j) == IF j < k THEN j ELSE j + 1
        <3>2. /\ left \in Seq(CartEntry) /\ DOMAIN left = 1 .. Len(cart) - 1
              /\ \A j \in 1 .. Len(cart) - 1 : left[j] = cart[Was(j)]
            BY <1>1, RemoveAtProperties
        <3>3. /\ \A j \in 1 .. Len(cart) - 1 : Was(j) \in DOMAIN cart
              /\ \A i, j \in 1 .. Len(cart) - 1 : Was(i) = Was(j) => i = j
            BY <3>1
        <3> HIDE DEF left, Was
        <3>4. ASSUME NEW i \in DOMAIN left, NEW j \in DOMAIN left,
                     left[i].item = left[j].item, left[i].options = left[j].options
              PROVE  i = j
            <4>1. left[i] = cart[Was(i)] /\ left[j] = cart[Was(j)]
                BY <3>2
            <4>2. Was(i) \in DOMAIN cart /\ Was(j) \in DOMAIN cart
                BY <3>2, <3>3
            <4>3. Was(i) = Was(j)
                BY <1>1, <3>4, <4>1, <4>2 DEF NoTwins
            <4> QED BY <3>2, <3>3, <4>3
        <3>5. NoTwins(left)
            BY <3>4 DEF NoTwins
        <3> QED BY <3>2, <3>5 DEF left
    <2> QED BY <2>1, <2>2, DisplayKeepsInv DEF RemoveFromCart
<1> QED BY <1>2, <1>3

\* Ordering stores the lines of the cart as it is shown (create_order).
LEMMA CreateOrderKeepsInv == ASSUME AmountsInv, CreateOrder PROVE AmountsInv'
<1> DEFINE lines == [k \in DOMAIN cart |-> KioskLine(cart[k])]
           subtotal == SumOf(lines, LAMBDA l : l.total)
<1>1. AmountTypes /\ NoTwins(cart) /\ shown = ShownTotal(cart) /\ ~ invoice.made
    BY DEF AmountsInv, CreateOrder, Shopping, InvoiceOfLines
<1>2. lines \in Seq(OrderLine) /\ subtotal \in Nat /\ subtotal = shown + OptionsTotal(cart)
    BY <1>1, CartTotals
<1>3. PICK tax \in KioskTax(subtotal) :
          order' = [source |-> "kiosk", lines |-> lines, subtotal |-> subtotal, tax |-> tax]
    BY DEF CreateOrder
<1> HIDE DEF lines, subtotal
<1>4. tax \in Nat
    <2>1. subtotal * rate \in Nat
        BY <1>1, <1>2 DEF AmountTypes
    <2>2. /\ HalfEven(subtotal * rate, 1000) \in Nat
          /\ Inexact(subtotal * rate, 1000) \subseteq Nat
        BY <2>1, RoundingsAreNat
    <2> QED BY <2>2 DEF KioskTax
<1>5. UNCHANGED <<price, extra, rate, cart, shown, invoice>>
    BY DEF CreateOrder
<1>6. AmountTypes' /\ NoTwins(cart)' /\ InvoiceOfLines'
    BY <1>1, <1>2, <1>3, <1>4, <1>5 DEF AmountTypes, NoTwins, InvoiceOfLines
<1>7. shown' = ShownTotal(cart)' /\ OptionsTotal(cart)' = OptionsTotal(cart)
    BY <1>1, <1>5 DEF ShownTotal, OptionsTotal, SumOf, UnitPrice, ExtrasOf
<1>8. order'.subtotal = shown' + OptionsTotal(cart)'
    BY <1>2, <1>3, <1>5, <1>7
<1> QED BY <1>6, <1>7, <1>8 DEF AmountsInv

\* Storing a platform's order leaves the cart alone (_persist_order).
LEMMA PersistOrderKeepsInv ==
    ASSUME AmountsInv, NEW platform \in Platforms, PersistOrder(platform)
    PROVE  AmountsInv'
<1>1. PICK unit \in Tenths, quantity \in Quantities, total \in Tenths :
      \E u \in Reading(platform, unit), t \in Reading(platform, total) :
          LET line == Line(u, quantity, u * quantity)
              subtotal == Subtotal(platform, t, line)
          IN  \E tax \in Inexact(subtotal * rate, 1000) :
                  order' = [source |-> platform, lines |-> <<line>>,
                            subtotal |-> subtotal, tax |-> tax]
    BY DEF PersistOrder
<1>2. PICK u \in Reading(platform, unit), t \in Reading(platform, total) :
          LET line == Line(u, quantity, u * quantity)
              subtotal == Subtotal(platform, t, line)
          IN  \E tax \in Inexact(subtotal * rate, 1000) :
                  order' = [source |-> platform, lines |-> <<line>>,
                            subtotal |-> subtotal, tax |-> tax]
    BY <1>1
<1> DEFINE line == Line(u, quantity, u * quantity)
           subtotal == Subtotal(platform, t, line)
<1>3. PICK tax \in Inexact(subtotal * rate, 1000) :
          order' = [source |-> platform, lines |-> <<line>>, subtotal |-> subtotal, tax |-> tax]
    BY <1>2
<1>4. AmountTypes /\ NoTwins(cart) /\ shown = ShownTotal(cart) /\ ~ invoice.made
    BY DEF AmountsInv, PersistOrder, Shopping, InvoiceOfLines
<1>5. u \in Nat /\ t \in Nat /\ quantity \in Nat
    BY AmountAssumption, RoundingsAreNat, 10 \in Nat \ {0} DEF Reading
<1>6. line \in OrderLine /\ <<line>> \in Seq(OrderLine) /\ subtotal \in Nat
    BY <1>5 DEF Line, OrderLine, Subtotal
<1> HIDE DEF line, subtotal
<1>7. tax \in Nat
    <2>1. subtotal * rate \in Nat
        BY <1>4, <1>6 DEF AmountTypes
    <2>2. Inexact(subtotal * rate, 1000) \subseteq Nat
        BY <2>1, RoundingsAreNat
    <2> QED BY <2>2
<1>8. UNCHANGED <<price, extra, rate, cart, shown, invoice>>
    BY DEF PersistOrder
<1>9. AmountTypes' /\ NoTwins(cart)' /\ InvoiceOfLines' /\ order'.source # "kiosk"
    BY <1>3, <1>4, <1>6, <1>7, <1>8 DEF AmountTypes, NoTwins, InvoiceOfLines, Platforms
<1>10. shown' = ShownTotal(cart)'
    BY <1>4, <1>8 DEF ShownTotal, SumOf, UnitPrice, ExtrasOf
<1> QED BY <1>9, <1>10 DEF AmountsInv

\* The invoice is made of the lines of the stored order (order_to_invoice_request).
LEMMA MakeInvoiceKeepsInv == ASSUME AmountsInv, MakeInvoice PROVE AmountsInv'
<1>1. UNCHANGED <<price, extra, rate, cart, shown, order>>
    BY DEF MakeInvoice
<1>2. AmountTypes /\ order.lines \in Seq(OrderLine) /\ rate \in Nat
    BY DEF AmountsInv, AmountTypes
<1>3. invoice' = [made |-> TRUE, net |-> NetOf(order.lines), vat |-> VatOf(order.lines),
                  percentage |-> HalfUp(rate, 10)]
    BY DEF MakeInvoice, NetOf, VatOf
<1>4. NetOf(order.lines) \in Nat /\ VatOf(order.lines) \in Nat /\ HalfUp(rate, 10) \in Nat
    <2> DEFINE lines == order.lines
               d == 10
    <2>1. lines \in Seq(OrderLine) /\ d \in Nat \ {0}
        BY <1>2
    <2> HIDE DEF lines, d
    <2>2. NetOf(lines) \in Nat /\ VatOf(lines) \in Nat
        BY <1>2, <2>1, LinesTotals
    <2>3. HalfUp(rate, d) \in Nat
        BY <1>2, <2>1, HalfUpBounds
    <2> QED BY <2>2, <2>3 DEF lines, d
<1>5. AmountTypes'
    BY <1>1, <1>2, <1>3, <1>4 DEF AmountTypes
<1>6. /\ NetOf(order.lines)' = NetOf(order.lines) /\ VatOf(order.lines)' = VatOf(order.lines)
      /\ HalfUp(rate, 10)' = HalfUp(rate, 10)
    BY <1>1 DEF NetOf, VatOf, SumOf, LineNet, LineVat, NetPerUnit, HalfUp
<1>7. InvoiceOfLines'
    BY <1>1, <1>3, <1>6 DEF InvoiceOfLines, MakeInvoice
<1>8. /\ NoTwins(cart)' /\ shown' = ShownTotal(cart)'
      /\ order'.source = "kiosk" => order'.subtotal = shown' + OptionsTotal(cart)'
    BY <1>1 DEF AmountsInv, NoTwins, ShownTotal, OptionsTotal, SumOf, UnitPrice, ExtrasOf
<1> QED BY <1>5, <1>7, <1>8 DEF AmountsInv

\* Every step of the amounts preserves their invariant.
LEMMA AmountsNextKeepsInv == ASSUME AmountsInv, AmountsNext PROVE AmountsInv'
BY AddToCartKeepsInv, RemoveFromCartKeepsInv, CreateOrderKeepsInv, PersistOrderKeepsInv,
   MakeInvoiceKeepsInv DEF AmountsNext

-----------------------------------------------------------------------------
(***************************************************************************)
(* What the invariant says of the money.                                   *)
(***************************************************************************)
\* The stored total exceeds the shown one by the options of the cart.
LEMMA InvImpliesStored == AmountsInv => StoredExceedsShownByOptions
BY DEF AmountsInv, NoTwins, StoredExceedsShownByOptions, OptionsTotal

\* The rounding of the lines adds up to what InvoiceNearLines allows.
LEMMA InvImpliesNear == AmountsInv => InvoiceNearLines
<1> SUFFICES ASSUME AmountsInv, invoice.made
             PROVE  2000 * Distance(Gross, GrossOf(order.lines)) <= SlackOf(order.lines)
    BY DEF InvoiceNearLines, GrossOf, SlackOf
<1> DEFINE net == NetOf(order.lines)
           vat == VatOf(order.lines)
           gross == GrossOf(order.lines)
           slack == SlackOf(order.lines)
<1>1. AmountTypes /\ order.lines \in Seq(OrderLine) /\ Gross = net + vat
    BY DEF AmountsInv, AmountTypes, InvoiceOfLines, Gross
<1>2. /\ net \in Nat /\ vat \in Nat /\ gross \in Nat /\ slack \in Nat
      /\ 2000 * (net + vat) <= 2000 * gross + slack
      /\ 2000 * gross <= 2000 * (net + vat) + slack
    BY <1>1, LinesTotals
<1> HIDE DEF net, vat, gross, slack
<1>3. 2000 * Distance(net + vat, gross) <= slack
    BY <1>2 DEF Distance
<1> QED BY <1>1, <1>3 DEF gross, slack

\* The rounding of the lines' tax adds up to what DeclaredRateHolds allows.
LEMMA InvImpliesRate == AmountsInv => DeclaredRateHolds
<1> SUFFICES ASSUME AmountsInv, invoice.made, rate % 10 = 0
             PROVE  Distance(invoice.vat * 100, invoice.net * invoice.percentage)
                        <= 50 * Len(order.lines)
    BY DEF DeclaredRateHolds
<1> DEFINE net == invoice.net
           vat == invoice.vat
           n == Len(order.lines)
           p == rate \div 10
<1>1. AmountTypes /\ order.lines \in Seq(OrderLine) /\ rate \in Nat /\ n \in Nat
    BY LenProperties DEF AmountsInv, AmountTypes
<1>2. net = NetOf(order.lines) /\ vat = VatOf(order.lines) /\ invoice.percentage = HalfUp(rate, 10)
    BY DEF AmountsInv, InvoiceOfLines
<1>3. /\ net \in Nat /\ vat \in Nat
      /\ 2000 * vat <= (2 * rate) * net + 1000 * n
      /\ (2 * rate) * net <= 2000 * vat + 1000 * n
    <2> DEFINE lines == order.lines
    <2>1. lines \in Seq(OrderLine)
        BY <1>1
    <2> HIDE DEF lines
    <2>2. /\ NetOf(lines) \in Nat /\ VatOf(lines) \in Nat
          /\ 2000 * VatOf(lines) <= (2 * rate) * NetOf(lines) + 1000 * Len(lines)
          /\ (2 * rate) * NetOf(lines) <= 2000 * VatOf(lines) + 1000 * Len(lines)
        BY <1>1, <2>1, LinesTotals
    <2> HIDE DEF net, vat, n
    <2> QED BY <1>2, <2>2 DEF lines, net, vat, n
<1>4. p \in Nat /\ rate = 10 * p /\ HalfUp(rate, 10) = p
    BY <1>1 DEF HalfUp
<1> HIDE DEF net, vat, n, p
<1>5. (2 * rate) * net = 20 * (net * p) /\ net * p \in Nat
    BY <1>3, <1>4
<1>6. Distance(vat * 100, net * p) <= 50 * n
    <2>1. 2000 * vat <= 20 * (net * p) + 1000 * n /\ 20 * (net * p) <= 2000 * vat + 1000 * n
        BY <1>3, <1>5
    <2> QED BY <1>1, <1>3, <1>5, <2>1 DEF Distance
<1> QED BY <1>2, <1>4, <1>6 DEF net, vat, n

-----------------------------------------------------------------------------
(***************************************************************************)
(* The signature.                                                          *)
(***************************************************************************)
\* Every set of numbers has a least one: the intervals below its members are ordered as
\* the members are.
LEMMA LeastNumber ==
    ASSUME NEW T \in SUBSET Nat, T # {}
    PROVE  \E m \in T : \A k \in T : m <= k
<1> DEFINE Below(n) == 1 .. n
           Belows == {Below(n) : n \in T}
<1>1. Belows \subseteq FiniteSubsetsOf(Nat) /\ Belows # {}
    <2>1. \A n \in T : IsFiniteSet(Below(n)) /\ Below(n) \in SUBSET Nat
        BY FS_Interval
    <2> QED BY <2>1 DEF FiniteSubsetsOf
<1>2. PICK B \in Belows : \A C \in Belows : <<C, B>> \notin StrictSubsetOrdering(Nat)
    <2> HIDE DEF Belows
    <2> QED BY <1>1, WFMin, FS_StrictSubsetOrderingWellFounded
<1>3. PICK m \in T : B = Below(m)
    BY <1>2
<1>4. ASSUME NEW k \in T, k < m PROVE FALSE
    <2>1. Below(k) \subseteq Below(m) /\ m \notin Below(k) /\ m \in Below(m)
        BY <1>4
    <2>2. <<Below(k), Below(m)>> \in StrictSubsetOrdering(Nat)
        BY <2>1 DEF StrictSubsetOrdering
    <2> QED BY <1>2, <1>3, <2>2
<1> QED BY <1>4

\* What is left after stripping: everything from the first character that is not stripped.
LEMMA Stripped ==
    ASSUME NEW S, NEW s \in Seq(S), NEW chars
    PROVE  \E n \in 0 .. Len(s) :
               /\ \A j \in 1 .. n : s[j] \in chars
               /\ n < Len(s) => s[n + 1] \notin chars
               /\ LStrip(s, chars) = SubSeq(s, n + 1, Len(s))
<1> DEFINE I == {j \in 1 .. Len(s) : s[j] \notin chars}
           first == IF I # {} THEN Min(I) ELSE 0
<1>1. Len(s) \in Nat
    BY LenProperties
<1>2. LStrip(s, chars) = IF first = 0 THEN <<>> ELSE SubSeq(s, first, Len(s))
    BY DEF LStrip, SelectInSeq
<1>3. CASE I = {}
    <2>1. LStrip(s, chars) = <<>> /\ \A j \in 1 .. Len(s) : s[j] \in chars
        BY <1>2, <1>3
    <2>2. SubSeq(s, Len(s) + 1, Len(s)) = <<>>
        BY <1>1, SubSeqEmpty
    <2> QED BY <1>1, <2>1, <2>2
<1>4. CASE I # {}
    <2> DEFINE n == Min(I) - 1
    <2>1. Min(I) \in I /\ \A j \in I : Min(I) <= j
        <3>1. I \in SUBSET Nat
            BY <1>1
        <3> HIDE DEF I
        <3>2. \E m \in I : \A k \in I : m <= k
            BY <1>4, <3>1, LeastNumber
        <3> QED BY <3>2 DEF Min
    <2>2. Min(I) \in 1 .. Len(s)
        BY <2>1
    <2> HIDE DEF I
    <2>3. /\ n \in 0 .. Len(s) /\ n + 1 = Min(I) /\ n + 1 \in I
          /\ \A j \in 1 .. n : j \notin I /\ j \in 1 .. Len(s)
        BY <1>1, <2>1, <2>2
    <2>4. LStrip(s, chars) = SubSeq(s, n + 1, Len(s))
        BY <1>2, <1>4, <2>2, <2>3
    <2> HIDE DEF n
    <2> QED BY <2>3, <2>4 DEF I
<1> QED BY <1>3, <1>4

\* The digest and the header consist of these characters.
Characters == HexDigits \cup {"0"} \cup AnyPrefix

\* Digest and header are strings of these characters, and the verdict is right.
SignatureInv ==
    /\ digest \in Seq(Characters) /\ Len(digest) = DigestLength
    /\ signature \in Seq(Characters)
    /\ verdict \in {"none", "accepted", "refused"}
    /\ SignatureJudged

\* The characters of the two prefixes.
LEMMA PrefixCharacters ==
    /\ Chars(Sha256Prefix) = {"s", "h", "a", "2", "5", "6", "="}
    /\ Chars(V1Prefix) = {"v", "1", "="}
    /\ Sha256Prefix \in Seq(Characters) /\ V1Prefix \in Seq(Characters)
    /\ Len(Sha256Prefix) = 7 /\ Len(V1Prefix) = 3
BY DEF Chars, Sha256Prefix, V1Prefix, Characters, AnyPrefix

\* What is left of a string without its first characters.
LEMMA RestOfString ==
    ASSUME NEW S, NEW s \in Seq(S), NEW n \in 0 .. Len(s)
    PROVE  /\ SubSeq(s, n + 1, Len(s)) \in Seq(S)
           /\ Len(SubSeq(s, n + 1, Len(s))) = Len(s) - n
           /\ \A j \in 1 .. Len(s) - n : SubSeq(s, n + 1, Len(s))[j] = s[n + j]
<1> DEFINE first == n + 1
           last == Len(s)
           rest == SubSeq(s, first, last)
<1>1. last \in Nat /\ \A j \in 1 .. last : s[j] \in S
    BY LenProperties, ElementOfSeq
<1>2. first \in 1 .. last + 1 /\ n \in Nat /\ first = n + 1
    BY <1>1
<1>3. first \in Int /\ last \in Int /\ \A j \in first .. last : s[j] \in S
    BY <1>1, <1>2
<1> HIDE DEF first, last
<1>4. /\ rest \in Seq(S) /\ Len(rest) = IF first <= last THEN last - first + 1 ELSE 0
      /\ \A j \in 1 .. last - first + 1 : rest[j] = s[first + j - 1]
    BY <1>3, SubSeqProperties
<1> HIDE DEF rest
<1>5. Len(rest) = last - n
    BY <1>1, <1>2, <1>4
<1>6. \A j \in 1 .. last - n : rest[j] = s[n + j]
    <2> SUFFICES ASSUME NEW j \in 1 .. last - n PROVE rest[j] = s[n + j]
        OBVIOUS
    <2>1. j \in 1 .. last - first + 1 /\ first + j - 1 = n + j
        BY <1>1, <1>2
    <2> QED BY <1>4, <2>1
<1> QED BY <1>4, <1>5, <1>6 DEF first, last, rest

\* Stripping with one set of characters and then with another.
LEMMA StrippedTwice ==
    ASSUME NEW S, NEW s \in Seq(S), NEW first \in SUBSET S, NEW second \in SUBSET S
    PROVE  \E n \in 0 .. Len(s), i \in 0 .. Len(s) :
               /\ n <= i
               /\ \A j \in 1 .. i : s[j] \in first \cup second
               /\ n < Len(s) => s[n + 1] \notin first
               /\ i < Len(s) => s[i + 1] \notin second
               /\ LStrip(LStrip(s, first), second) = SubSeq(s, i + 1, Len(s))
<1>1. Len(s) \in Nat /\ \A j \in 1 .. Len(s) : s[j] \in S
    BY LenProperties, ElementOfSeq
<1>2. PICK n \in 0 .. Len(s) :
          /\ \A j \in 1 .. n : s[j] \in first
          /\ n < Len(s) => s[n + 1] \notin first
          /\ LStrip(s, first) = SubSeq(s, n + 1, Len(s))
    BY Stripped
<1> DEFINE rest == SubSeq(s, n + 1, Len(s))
<1>3. /\ rest \in Seq(S) /\ Len(rest) = Len(s) - n
      /\ \A j \in 1 .. Len(s) - n : rest[j] = s[n + j]
    BY RestOfString
<1> HIDE DEF rest
<1>4. PICK m \in 0 .. Len(rest) :
          /\ \A j \in 1 .. m : rest[j] \in second
          /\ m < Len(rest) => rest[m + 1] \notin second
          /\ LStrip(rest, second) = SubSeq(rest, m + 1, Len(rest))
    BY <1>3, Stripped
<1> DEFINE i == n + m
<1>5. i \in 0 .. Len(s) /\ n <= i
    BY <1>1, <1>3
<1>6. \A j \in 1 .. i : s[j] \in first \cup second
    <2> SUFFICES ASSUME NEW j \in 1 .. i, ~ (j \in 1 .. n) PROVE s[j] \in second
        BY <1>2
    <2>1. j - n \in 1 .. m /\ j - n \in 1 .. Len(s) - n /\ n + (j - n) = j
        BY <1>1, <1>3
    <2>2. rest[j - n] \in second /\ rest[j - n] = s[n + (j - n)]
        BY <1>3, <1>4, <2>1
    <2> QED BY <2>1, <2>2
<1>7. i < Len(s) => s[i + 1] \notin second
    <2> SUFFICES ASSUME i < Len(s) PROVE s[i + 1] \notin second
        OBVIOUS
    <2>1. m < Len(rest) /\ m + 1 \in 1 .. Len(s) - n /\ n + (m + 1) = i + 1
        BY <1>1, <1>3
    <2>2. rest[m + 1] \notin second /\ rest[m + 1] = s[n + (m + 1)]
        BY <1>3, <1>4, <2>1
    <2> QED BY <2>1, <2>2
<1>8. SubSeq(rest, m + 1, Len(rest)) = SubSeq(s, i + 1, Len(s))
    <2> DEFINE a == SubSeq(rest, m + 1, Len(rest))
               b == SubSeq(s, i + 1, Len(s))
    <2>1. /\ a \in Seq(S) /\ Len(a) = Len(rest) - m
          /\ \A j \in 1 .. Len(rest) - m : a[j] = rest[m + j]
        BY <1>3, RestOfString
    <2>2. /\ b \in Seq(S) /\ Len(b) = Len(s) - i
          /\ \A j \in 1 .. Len(s) - i : b[j] = s[i + j]
        BY <1>5, RestOfString
    <2> HIDE DEF a, b
    <2>3. Len(a) = Len(b) /\ \A j \in 1 .. Len(a) : a[j] = b[j]
        BY <1>1, <1>3, <1>5, <2>1, <2>2
    <2>4. a = b
        BY <2>1, <2>2, <2>3, SeqEqual
    <2> QED BY <2>4 DEF a, b
<1> QED BY <1>2, <1>4, <1>5, <1>6, <1>7, <1>8 DEF rest

\* What the handler strips off a header, as two positions in it.
LEMMA HeaderStripped ==
    ASSUME NEW s \in Seq(Characters)
    PROVE  \E n \in 0 .. Len(s), i \in 0 .. Len(s) :
               /\ n <= i
               /\ \A j \in 1 .. i : s[j] \in AnyPrefix
               /\ n < Len(s) => s[n + 1] \notin Chars(Sha256Prefix)
               /\ i < Len(s) => s[i + 1] \notin Chars(V1Prefix)
               /\ \A d : Verify(s, d) <=> SubSeq(s, i + 1, Len(s)) = d
<1> DEFINE first == Chars(Sha256Prefix)
           second == Chars(V1Prefix)
<1>1. /\ AnyPrefix = first \cup second
      /\ \A d : Verify(s, d) <=> LStrip(LStrip(s, first), second) = d
      /\ first \in SUBSET Characters /\ second \in SUBSET Characters
    BY DEF AnyPrefix, Verify, Characters
<1> HIDE DEF first, second
<1>2. PICK n \in 0 .. Len(s), i \in 0 .. Len(s) :
          /\ n <= i
          /\ \A j \in 1 .. i : s[j] \in first \cup second
          /\ n < Len(s) => s[n + 1] \notin first
          /\ i < Len(s) => s[i + 1] \notin second
          /\ LStrip(LStrip(s, first), second) = SubSeq(s, i + 1, Len(s))
    BY <1>1, StrippedTwice
<1>3. \A d : Verify(s, d) <=> SubSeq(s, i + 1, Len(s)) = d
    BY <1>1, <1>2
<1> QED BY <1>1, <1>2, <1>3 DEF first, second

\* A header that is accepted is a digest after characters of the prefixes.
LEMMA AcceptedEndsInDigest ==
    ASSUME NEW s \in Seq(Characters), NEW d, Verify(s, d)
    PROVE  \E i \in 0 .. Len(s) :
               /\ SubSeq(s, i + 1, Len(s)) = d
               /\ Chars(SubSeq(s, 1, i)) \subseteq AnyPrefix
<1>1. PICK n \in 0 .. Len(s), i \in 0 .. Len(s) :
          (\A j \in 1 .. i : s[j] \in AnyPrefix) /\ SubSeq(s, i + 1, Len(s)) = d
    BY HeaderStripped
<1>2. i \in 0 .. Len(s) /\ \A j \in 1 .. i : s[j] \in Characters
    BY LenProperties, ElementOfSeq
<1>3. SubSeq(s, 1, i) \in Seq(AnyPrefix)
    BY <1>1, <1>2, SubSeqProperties
<1>4. Chars(SubSeq(s, 1, i)) \subseteq AnyPrefix
    BY <1>3, IndicesFinite DEF Chars
<1> QED BY <1>1, <1>2, <1>4

\* A genuine header is verified: stripping ends exactly where the digest begins.
LEMMA GenuineVerified ==
    ASSUME NEW d \in Seq(Characters), Len(d) \in Nat \ {0}, d[1] \notin AnyPrefix,
           NEW p \in {<<>>, Sha256Prefix, V1Prefix}
    PROVE  Verify(p \o d, d)
<1> DEFINE s == p \o d
           k == Len(p)
<1>1. p \in Seq(Characters) /\ k \in Nat
    <2>1. p \in Seq(Characters)
        BY PrefixCharacters, EmptySeq
    <2> QED BY <2>1, LenProperties
<1>2. /\ s \in Seq(Characters) /\ Len(s) = k + Len(d)
      /\ \A j \in 1 .. Len(s) : s[j] = IF j <= k THEN p[j] ELSE d[j - k]
    BY <1>1, ConcatProperties
<1>3. s[k + 1] = d[1] /\ k + 1 \in 1 .. Len(s)
    BY <1>1, <1>2
<1>4. \/ k = 0
      \/ \A j \in 1 .. k : s[j] \in Chars(Sha256Prefix)
      \/ \A j \in 1 .. k : s[j] \in Chars(V1Prefix)
    <2>1. \A j \in 1 .. k : s[j] = p[j] /\ p[j] \in Chars(p)
        BY <1>1, <1>2, LenProperties DEF Chars
    <2> QED BY <2>1, EmptySeq
<1>5. PICK n \in 0 .. Len(s), i \in 0 .. Len(s) :
          /\ n <= i
          /\ \A j \in 1 .. i : s[j] \in AnyPrefix
          /\ n < Len(s) => s[n + 1] \notin Chars(Sha256Prefix)
          /\ i < Len(s) => s[i + 1] \notin Chars(V1Prefix)
          /\ Verify(s, d) <=> SubSeq(s, i + 1, Len(s)) = d
    BY <1>2, HeaderStripped
<1> HIDE DEF s, k
<1>6. i <= k
    BY <1>1, <1>3, <1>5
<1>7. i >= k
    BY <1>1, <1>2, <1>3, <1>4, <1>5, <1>6
<1>8. SubSeq(s, k + 1, Len(s)) = d
    <2>1. /\ SubSeq(s, k + 1, Len(s)) \in Seq(Characters)
          /\ Len(SubSeq(s, k + 1, Len(s))) = Len(d)
          /\ \A j \in 1 .. Len(d) : SubSeq(s, k + 1, Len(s))[j] = s[k + j]
        BY <1>1, <1>2, <1>3, SubSeqProperties, ElementOfSeq
    <2>2. \A j \in 1 .. Len(d) : s[k + j] = d[j]
        BY <1>1, <1>2
    <2> QED BY <2>1, <2>2, SeqEqual
<1>9. i = k
    BY <1>1, <1>6, <1>7
<1> QED BY <1>5, <1>8, <1>9 DEF s

\* The verdict on a first call is judged right.
LEMMA SignatureStart == Init => SignatureInv
<1> SUFFICES ASSUME Init PROVE SignatureInv
    OBVIOUS
<1>1. digest \in Seq(Characters) /\ Len(digest) = DigestLength
    BY DigestAssumption DEF Init, Digests, Characters
<1>2. ASSUME NEW n \in 0 .. DigestLength, NEW body \in [1 .. n -> HexDigits],
             NEW prefix \in {<<>>, Sha256Prefix, V1Prefix}
      PROVE  prefix \o body \in Seq(Characters)
    <2>1. body \in Seq(Characters)
        BY DigestAssumption DEF Characters
    <2>2. prefix \in Seq(Characters)
        BY PrefixCharacters, EmptySeq
    <2> QED BY <2>1, <2>2, ConcatProperties
<1>3. signature \in Seq(Characters)
    <2>1. PICK prefix \in {<<>>, Sha256Prefix, V1Prefix}, body \in Bodies :
              signature = prefix \o body
        BY DEF Init, Headers
    <2>2. PICK n \in 0 .. DigestLength : body \in [1 .. n -> HexDigits]
        BY DEF Bodies
    <2> QED BY <1>2, <2>1, <2>2
<1> QED BY <1>1, <1>3 DEF Init, SignatureInv, SignatureJudged, AcceptedHasDigest

\* While there is no call there is nothing to judge.
LEMMA NoCallJudged == NoCall => SignatureInv
<1> SUFFICES ASSUME NoCall PROVE SignatureInv
    OBVIOUS
<1>1. /\ digest \in Seq(Characters) /\ Len(digest) = DigestLength
      /\ signature = digest /\ verdict = "accepted" /\ 0 \in 0 .. Len(signature)
    BY DigestAssumption DEF NoCall, Characters
<1>2. SubSeq(signature, 0 + 1, Len(signature)) = digest
    BY <1>1, SubSeqFull
<1>3. Chars(SubSeq(signature, 1, 0)) \subseteq AnyPrefix
    BY SubSeqEmpty DEF Chars
<1> QED BY <1>1, <1>2, <1>3 DEF SignatureInv, SignatureJudged, AcceptedHasDigest

\* Comparing a header with its digest gives the verdict that SignatureJudged asks for.
LEMMA CheckKeepsInv == ASSUME SignatureInv, Check PROVE SignatureInv'
<1>1. /\ digest \in Seq(Characters) /\ Len(digest) = DigestLength
      /\ signature \in Seq(Characters) /\ UNCHANGED <<digest, signature>>
      /\ verdict' = IF Verify(signature, digest) THEN "accepted" ELSE "refused"
    BY DEF SignatureInv, Check
<1>2. AcceptedHasDigest'
    <2> SUFFICES ASSUME Verify(signature, digest)
                 PROVE  \E i \in 0 .. Len(signature) :
                            /\ SubSeq(signature, i + 1, Len(signature)) = digest
                            /\ Chars(SubSeq(signature, 1, i)) \subseteq AnyPrefix
        BY <1>1 DEF AcceptedHasDigest
    <2> QED BY <1>1, AcceptedEndsInDigest
<1>3. ASSUME Genuine, digest[1] \notin AnyPrefix PROVE Verify(signature, digest)
    <2>1. PICK prefix \in {<<>>, Sha256Prefix, V1Prefix} : signature = prefix \o digest
        BY <1>3 DEF Genuine
    <2> QED BY <1>1, <1>3, <2>1, DigestAssumption, GenuineVerified
<1>4. (Genuine /\ digest[1] \notin AnyPrefix => verdict # "refused")'
    BY <1>1, <1>3 DEF Genuine
<1> QED BY <1>1, <1>2, <1>4 DEF SignatureInv, SignatureJudged

-----------------------------------------------------------------------------
(***************************************************************************)
(* The theorems.                                                           *)
(***************************************************************************)
\* The inductive invariant.
CalculationsInv == SignatureInv /\ AmountsInv

\* Cart, order and invoice belong together, and every verdict on a signature is right, in
\* every reachable state of both calculations.
THEOREM CalculationsCorrect == CalculationsSpec => []CalculationsInv
<1>1. CalculationsInit => CalculationsInv
    <2>1. Init /\ NoSale => CalculationsInv
        <3>1. NoSale => AmountsInv
            BY AmountsStart DEF NoSale
        <3> QED BY <3>1, SignatureStart DEF CalculationsInv
    <2>2. AmountsInit /\ NoCall => CalculationsInv
        <3>1. AmountsInit => AmountsInv
            BY AmountsStart, AmountAssumption DEF AmountsInit
        <3> QED BY <3>1, NoCallJudged DEF CalculationsInv
    <2> QED BY <2>1, <2>2 DEF CalculationsInit
<1>2. CalculationsInv /\ [CalculationsNext]_<<vars, amountVars>> => CalculationsInv'
    <2> SUFFICES ASSUME SignatureInv, AmountsInv, [CalculationsNext]_<<vars, amountVars>>
                 PROVE  SignatureInv' /\ AmountsInv'
        BY DEF CalculationsInv
    <2>1. UNCHANGED vars => SignatureInv'
        BY DEF vars, SignatureInv, SignatureJudged, AcceptedHasDigest, Genuine
    <2>2. UNCHANGED amountVars => AmountsInv'
        BY AmountsUnchanged
    <2>3. CASE Check /\ UNCHANGED amountVars
        BY <2>2, <2>3, CheckKeepsInv
    <2>4. CASE AmountsNext /\ UNCHANGED vars
        BY <2>1, <2>4, AmountsNextKeepsInv
    <2>5. CASE UNCHANGED <<vars, amountVars>>
        BY <2>1, <2>2, <2>5
    <2> QED BY <2>3, <2>4, <2>5 DEF CalculationsNext
<1> QED BY <1>1, <1>2, PTL DEF CalculationsSpec

\* A webhook call is accepted only with the whole digest of its body, and a genuine
\* header is refused only if its digest begins with a character of the prefixes, whatever
\* the digits and the length of a digest.
THEOREM SignaturesJudged == CalculationsSpec => []SignatureJudged
<1>1. CalculationsInv => SignatureJudged
    BY DEF CalculationsInv, SignatureInv
<1> QED BY <1>1, CalculationsCorrect, PTL

\* For every menu and all prices the kiosk shows the total of a cart without twins, and
\* what is stored exceeds it by the options.
THEOREM StoredExceedsShown == CalculationsSpec => []StoredExceedsShownByOptions
<1>1. CalculationsInv => StoredExceedsShownByOptions
    BY InvImpliesStored DEF CalculationsInv
<1> QED BY <1>1, CalculationsCorrect, PTL

\* For every order the invoice comes to the lines' unit prices but for the rounding.
THEOREM InvoiceComesToLines == CalculationsSpec => []InvoiceNearLines
<1>1. CalculationsInv => InvoiceNearLines
    BY InvImpliesNear DEF CalculationsInv
<1> QED BY <1>1, CalculationsCorrect, PTL

\* For every whole percentage the VAT is what that rate makes of the net amount.
THEOREM VatIsAtDeclaredRate == CalculationsSpec => []DeclaredRateHolds
<1>1. CalculationsInv => DeclaredRateHolds
    BY InvImpliesRate DEF CalculationsInv
<1> QED BY <1>1, CalculationsCorrect, PTL

=============================================================================
