---------------------------- MODULE Calculations ----------------------------
(***************************************************************************)
(* The two calculations of the backend, the check of a webhook's signature *)
(* and the amounts of an order, side by side: a behaviour goes through one *)
(* of them, the other one has nothing to do.                               *)
(***************************************************************************)
EXTENDS WebhookSignature, OrderAmounts

\* No webhook call is to be checked, or nothing is on sale.
NoCall ==
    LET zeroes == [i \in 1 .. DigestLength |-> "0"]
    IN  digest = zeroes /\ signature = zeroes /\ verdict = "accepted"
NoSale ==
    /\ price = [d \in Dishes |-> 0] /\ extra = [o \in Options |-> 0] /\ rate = 0
    /\ cart = <<>> /\ shown = 0 /\ order = NoOrder /\ invoice = NoInvoice

CalculationsInit == (Init /\ NoSale) \/ (AmountsInit /\ NoCall)

CalculationsNext ==
    \/ Check /\ UNCHANGED amountVars
    \/ ~NoSale /\ AmountsNext /\ UNCHANGED vars

CalculationsSpec == CalculationsInit /\ [][CalculationsNext]_<<vars, amountVars>>

=============================================================================
