\* A correction takes no receipt number, so nothing orders it with a payment.
CONSTANTS
    r1 = r1  r2 = r2  r3 = r3  i1 = i1  i2 = i2
    Requests = {r1, r2, r3}
    Invoices = {i1}
    Due <- Due_One
    Deltas <- Deltas_Cash
    Years = {2025}
    Operations = {"payment", "correction"}
    YearInFormat = TRUE
    None = None
SPECIFICATION Spec
SYMMETRY Symmetric
INVARIANT PaidIsLedgerSum
