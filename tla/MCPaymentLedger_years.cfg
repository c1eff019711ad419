\* Every endpoint across New Year, with a format that has no {YYYY}.
CONSTANTS
    r1 = r1  r2 = r2  r3 = r3  i1 = i1  i2 = i2
    Requests = {r1, r2, r3}
    Invoices = {i1}
    Due <- Due_One
    Deltas <- Deltas_Few
    Years = {2025, 2026}
    Operations = {"payment", "refund", "correction", "cancel", "reopen", "override", "refresh"}
    YearInFormat = FALSE
    None = None
SPECIFICATION Spec
SYMMETRY Symmetric
INVARIANTS TypeOK ReceiptsGapless NothingUncommittedCounted
PROPERTY IssuesLikeABook
