----------------------------- MODULE ReceiptBook -----------------------------
(***************************************************************************)
(* What ReceiptNumberService promises (financial/receipt-number.service.ts *)
(* lines 9-22): the receipts of a year are numbered 1, 2, 3, ... with no   *)
(* gap and no repetition, and a number once printed belongs to one receipt *)
(* for ever.  Issuing a receipt is one indivisible step here.              *)
(***************************************************************************)
EXTENDS Naturals

CONSTANTS Requests,   \* whoever asks for a receipt
          Years       \* the scopes numbering restarts in

VARIABLES last,       \* the last number issued in each year
          stubs       \* issued receipts: <<year, number, request>>

Init == /\ last = [y \in Years |-> 0]
        /\ stubs = {}

Issue(y, r) ==
    /\ \A s \in stubs : s[3] # r
    /\ last' = [last EXCEPT ![y] = @ + 1]
    /\ stubs' = stubs \cup {<<y, last[y] + 1, r>>}

Next == \E y \in Years, r \in Requests : Issue(y, r)

Spec == Init /\ [][Next]_<<last, stubs>>
=============================================================================
