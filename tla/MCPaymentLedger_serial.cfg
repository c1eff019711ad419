\* Movements with a receipt, cancellations and refreshes within one year: the
\* receipt counter serialises the movements, and every request is answered.
CONSTANTS
    r1 = r1  r2 = r2  r3 = r3  i1 = i1  i2 = i2
    Requests = {r1, r2}
    Invoices = {i1, i2}
    Due <- Due_One
    Deltas <- Deltas_Few
    Years = {2025}
    Operations = {"payment", "refund", "cancel", "refresh"}
    YearInFormat = TRUE
    None = None
SPECIFICATION FairSpec
INVARIANTS PaidIsLedgerSum StatusMatchesTotal
PROPERTY EveryRequestEnds
