--------------------------- MODULE MCPaymentLedger ---------------------------
(* A small cash desk: requests and invoices are model values. *)
EXTENDS PaymentLedger, TLC

CONSTANTS r1, r2, r3, i1, i2

Due_One == [i \in Invoices |-> 2]      \* two units settle an invoice
Deltas_Cash == {-2, -1, 1, 2}          \* one instalment, the whole fee, and back

Deltas_Few == {-1, 1, 2}

Symmetric == Permutations(Requests)
=============================================================================
