\* Payouts, reprints and edits while collections and arrangements change, on a pool
\* of two connections.
CONSTANTS
    q1 = q1  q2 = q2  q3 = q3  ali = ali
    Requests = {q1, q2, q3}
    Profs = {ali}
    Connections = 2
    Rules <- MCRules
    AtFirst <- MCAtFirst
    Earnings <- MCEarnings
    Receipts <- MCReceipts
    Payments = {1, 2}
    Seats <- MCSeats
    Operations = {"payout", "reprint", "amend", "remove", "rule", "drop", "settings", "collect", "roster"}
    None = None
SPECIFICATION FairSpec
INVARIANTS TypeOK NumbersOnce EarlierIsCounted
PROPERTIES PaidWithinEarned EveryRequestEnds
