---------------------------- MODULE PaymentLedger ----------------------------
(***************************************************************************)
(* Student invoices and the ledger of money moved against them             *)
(* (financial/payment.service.ts, receipt-number.service.ts), at the grain *)
(* at which requests really interleave: one action per SQL statement of a  *)
(* READ COMMITTED transaction.  A statement sees the rows committed before *)
(* it started plus its own; an UPDATE takes the row's lock and keeps it to *)
(* the end of its transaction; the receipt counter's upsert does the same  *)
(* to the counter's row.                                                   *)
(*                                                                         *)
(* One element of Requests is one HTTP request and, when it moves money,   *)
(* the payment_transactions row it inserts: a request posts at most one.   *)
(* An invoice's paid_amount is kept as the set of ledger rows it was       *)
(* summed from ("basis"), so that "the stored total is the sum of the      *)
(* ledger" is a statement about rows and not about arithmetic.             *)
(***************************************************************************)
EXTENDS Integers, Functions

CONSTANTS
    Requests,       \* requests the cash desk sends, each served once
    Invoices,       \* student_payments rows
    Due,            \* amount_due of each invoice
    Deltas,         \* signed amounts a request may carry (never zero)
    Years,          \* calendar years of paid_at: the receipt counter's scopes
    Operations,     \* the endpoints in use
    YearInFormat,   \* whether receipt_number_format contains {YYYY}
    None            \* "no request": a lock nobody holds

AllOperations == {"payment", "refund", "correction", "cancel", "reopen",
                  "override", "refresh"}
Movements == {"payment", "refund", "correction"}
Statuses == {"not_paid", "due_soon", "overdue", "paid", "partially_paid",
             "cancelled"}
Windows == {"early", "soon", "past"}   \* where the due date lies from today

ASSUME DueAssumption == Due \in [Invoices -> Nat]
ASSUME DeltasAssumption == Deltas \subseteq Int \ {0}
ASSUME OperationsAssumption == Operations \subseteq AllOperations
ASSUME FormatAssumption == YearInFormat \in BOOLEAN
ASSUME NoneAssumption == None \notin Requests

VARIABLES
    pc,           \* where each request is in its handler
    job,          \* what each request asks for
    number,       \* the receipt sequence number a request holds (0: none)
    sawStatus,    \* the invoice status reconcile read
    sawRows,      \* the ledger rows reconcile summed
    asOf,         \* the windows as of the day a status refresh started
    draft,        \* the statuses a request is about to commit or has written uncommitted
    posted,       \* committed payment_transactions rows
    basis,        \* rows the committed paid_amount of each invoice was summed from
    status,       \* committed status of each invoice
    window,       \* due date of each invoice relative to today
    counter,      \* committed receipt_counters.value of each year
    counterLock,  \* request holding each counter row
    rowLock       \* request holding each invoice row

saw == <<sawStatus, sawRows>>
vars == <<pc, job, number, saw, asOf, draft, posted, basis, status, window,
          counter, counterLock, rowLock>>
books == <<posted, basis, status, counter>>
locks == <<counterLock, rowLock>>

NoJob == [op |-> "none", inv |-> None, delta |-> 0, year |-> None]
MovementJobs == [op : Movements, inv : Invoices, delta : Deltas, year : Years]
StatusJobs == [op : {"cancel", "reopen", "override"}, inv : Invoices,
               delta : {0}, year : {None}]
RefreshJob == [op |-> "refresh", inv |-> None, delta |-> 0, year |-> None]
Jobs == MovementJobs \cup StatusJobs \cup {NoJob, RefreshJob}

NoDraft == [i \in Invoices |-> "not_paid"]

Ended == {"done", "refused", "failed", "collided"}

(***************************************************************************)
(* Reading the books                                                       *)
(***************************************************************************)
Total(rows) == SumFunction([q \in rows |-> job[q].delta])

RowsOf(i) == {q \in posted : job[q].inv = i}

Paid(i) == Total(basis[i])

Outstanding(i) == Due[i] - Paid(i)

\* (mutant) a status the payment_status enum does not have
Derive_Unlisted(total, i, when) ==
    IF total > Due[i] THEN "overpaid"
    ELSE IF total = Due[i] THEN "paid"
    ELSE IF total > 0 THEN "partially_paid" ELSE "not_paid"

\* deriveInvoiceStatus: most settled first; there is no overdue state.
Derive(total, i, when) ==
    IF total >= Due[i] /\ Due[i] > 0 THEN "paid"
    ELSE IF total > 0 THEN "partially_paid"
    ELSE IF when = "soon" THEN "due_soon" ELSE "not_paid"

\* (mutant) a payment is numbered after its transaction
Receipted_RefundsOnly(r) == job[r].op = "refund"

\* Corrections adjust an existing receipt and issue none.
Receipted(r) == job[r].op \in {"payment", "refund"}

\* The printed number, as far as it can tell two receipts apart.
Printed(y, n) == IF YearInFormat THEN <<y, n>> ELSE <<None, n>>

(***************************************************************************)
(* Initial state: invoices were just generated.                            *)
(***************************************************************************)
Init ==
    /\ pc = [r \in Requests |-> "idle"]
    /\ job = [r \in Requests |-> NoJob]
    /\ number = [r \in Requests |-> 0]
    /\ window \in [Invoices -> Windows]
    /\ sawStatus = [r \in Requests |-> "not_paid"]
    /\ sawRows = [r \in Requests |-> {}]
    /\ asOf = [r \in Requests |-> window]
    /\ status \in [Invoices -> {"not_paid", "overdue"}]
    /\ draft = [r \in Requests |-> NoDraft]
    /\ posted = {}
    /\ basis = [i \in Invoices |-> {}]
    /\ counter = [y \in Years |-> 0]
    /\ counterLock = [y \in Years |-> None]
    /\ rowLock = [i \in Invoices |-> None]

(***************************************************************************)
(* appendTransaction: before the database transaction.  requirePayment     *)
(* reads the invoice once; refund and correct read it once more before,    *)
(* for their own check.  Nothing read here is locked.                      *)
(***************************************************************************)
\* What a request read and drafted is gone once it has ended.
Forget(r) ==
    /\ sawStatus' = [sawStatus EXCEPT ![r] = "not_paid"]
    /\ sawRows' = [sawRows EXCEPT ![r] = {}]
    /\ draft' = [draft EXCEPT ![r] = NoDraft]

\* A request that ends without effect leaves nothing behind.
Refuse(r, how) ==
    /\ pc' = [pc EXCEPT ![r] = how]
    /\ job' = [job EXCEPT ![r] = NoJob]
    /\ number' = [number EXCEPT ![r] = 0]
    /\ Forget(r)

\* appendTransaction's own guards, on the invoice as it is committed now.  An
\* omitted amount settles the outstanding balance: it is one of the deltas.
Accepts(j) ==
    /\ status[j.inv] # "cancelled"
    /\ j.op = "payment" => j.delta > 0 /\ j.delta <= Outstanding(j.inv)

Proceed(r, j, next) ==
    /\ pc' = [pc EXCEPT ![r] = next]
    /\ job' = [job EXCEPT ![r] = j]
    /\ UNCHANGED <<number, saw, draft>>

RecordPayment(r) ==
    /\ pc[r] = "idle" /\ "payment" \in Operations
    /\ \E i \in Invoices, d \in Deltas, y \in Years :
         LET j == [op |-> "payment", inv |-> i, delta |-> d, year |-> y] IN
         IF Accepts(j) THEN Proceed(r, j, "open") ELSE Refuse(r, "refused")
    /\ UNCHANGED <<asOf, window, books, locks>>

\* refund: the amount must be covered by what was collected.
VetRefund(r) ==
    /\ pc[r] = "idle" /\ "refund" \in Operations
    /\ \E i \in Invoices, d \in Deltas, y \in Years :
         LET j == [op |-> "refund", inv |-> i, delta |-> d, year |-> y] IN
         IF d < 0 /\ -d <= Paid(i) THEN Proceed(r, j, "vetted")
                                   ELSE Refuse(r, "refused")
    /\ UNCHANGED <<asOf, window, books, locks>>

\* correct: the signed delta must not take the total below zero.
VetCorrection(r) ==
    /\ pc[r] = "idle" /\ "correction" \in Operations
    /\ \E i \in Invoices, d \in Deltas, y \in Years :
         LET j == [op |-> "correction", inv |-> i, delta |-> d, year |-> y] IN
         IF Paid(i) + d >= 0 THEN Proceed(r, j, "vetted")
                             ELSE Refuse(r, "refused")
    /\ UNCHANGED <<asOf, window, books, locks>>

ReadAgain(r) ==
    /\ pc[r] = "vetted"
    /\ IF Accepts(job[r]) THEN Proceed(r, job[r], "open") ELSE Refuse(r, "refused")
    /\ UNCHANGED <<asOf, window, books, locks>>

(***************************************************************************)
(* appendTransaction: the database transaction.                            *)
(***************************************************************************)
\* ReceiptNumberService.next: the upsert locks the counter's row, so the
\* increment is this transaction's alone until it commits or rolls back.
TakeNumber(r) ==
    /\ pc[r] = "open" /\ Receipted(r)
    /\ LET y == job[r].year IN
         /\ counterLock[y] = None
         /\ counterLock' = [counterLock EXCEPT ![y] = r]
         /\ number' = [number EXCEPT ![r] = counter[y] + 1]
    /\ pc' = [pc EXCEPT ![r] = "numbered"]
    /\ UNCHANGED <<job, saw, asOf, draft, window, books, rowLock>>

Free(locked, r) == [k \in DOMAIN locked |-> IF locked[k] = r THEN None ELSE locked[k]]

\* (mutant) the counter's row is never given back
Release_RowsOnly(r) ==
    /\ rowLock' = Free(rowLock, r)
    /\ UNCHANGED counterLock

Release(r) ==
    /\ counterLock' = Free(counterLock, r)
    /\ rowLock' = Free(rowLock, r)

\* payment_transactions_receipt_number_key: a committed duplicate refuses the
\* insert, an uncommitted one makes it wait.
SamePrint(q, r) ==
    /\ q # r /\ Receipted(q) /\ Receipted(r)
    /\ Printed(job[q].year, number[q]) = Printed(job[r].year, number[r])

ReadyToInsert(r) ==
    \/ pc[r] = "numbered"
    \/ pc[r] = "open" /\ ~Receipted(r)

\* The insert, and reconcile's read of the invoice: the row inserted is
\* invisible to others until commit, so the two statements are one step.
Insert(r) ==
    /\ ReadyToInsert(r)
    /\ \A q \in Requests : pc[q] \in {"inserted", "summed", "written"} => ~SamePrint(q, r)
    /\ \A q \in posted : ~SamePrint(q, r)
    /\ pc' = [pc EXCEPT ![r] = "inserted"]
    /\ sawStatus' = [sawStatus EXCEPT ![r] = status[job[r].inv]]
    /\ UNCHANGED <<job, number, sawRows, asOf, draft, window, books, locks>>

InsertCollides(r) ==
    /\ ReadyToInsert(r)
    /\ \E q \in posted : SamePrint(q, r)
    /\ Refuse(r, "collided")
    /\ Release(r)
    /\ UNCHANGED <<asOf, window, books>>

\* The status a total implies; a cancelled invoice stays cancelled, and a
\* refund that empties the ledger cancels it.
Reconciled(r, total) ==
    IF sawStatus[r] = "cancelled" THEN "cancelled"
    ELSE IF job[r].op = "refund" /\ total <= 0 THEN "cancelled"
    ELSE Derive(total, job[r].inv, window[job[r].inv])

\* reconcile's SELECT sum(amount): committed rows and the request's own.
SumLedger(r) ==
    /\ pc[r] = "inserted"
    /\ pc' = [pc EXCEPT ![r] = "summed"]
    /\ LET rows == RowsOf(job[r].inv) \cup {r} IN
         /\ sawRows' = [sawRows EXCEPT ![r] = rows]
         /\ draft' = [draft EXCEPT ![r][job[r].inv] = Reconciled(r, Total(rows))]
    /\ UNCHANGED <<job, number, sawStatus, asOf, window, books, locks>>

\* (mutant) the invoice's UPDATE runs outside the transaction: it is visible at
\* once, and a transaction that rolls back afterwards does not take it back
WriteInvoice_Outside(r) ==
    /\ pc[r] = "summed"
    /\ rowLock[job[r].inv] = None
    /\ status' = [status EXCEPT ![job[r].inv] = draft[r][job[r].inv]]
    /\ basis' = [basis EXCEPT ![job[r].inv] = sawRows[r]]
    /\ pc' = [pc EXCEPT ![r] = "written"]
    /\ UNCHANGED <<job, number, saw, asOf, draft, window, posted, counter, locks>>

\* reconcile's UPDATE waits for the invoice's row, then writes what it had
\* computed: the sum is not taken again.
WriteInvoice(r) ==
    /\ pc[r] = "summed"
    /\ rowLock[job[r].inv] = None
    /\ rowLock' = [rowLock EXCEPT ![job[r].inv] = r]
    /\ pc' = [pc EXCEPT ![r] = "written"]
    /\ UNCHANGED <<job, number, saw, asOf, draft, window, books, counterLock>>

\* Every uncommitted status the request wrote becomes visible at once.
Publish(r) ==
    status' = [i \in Invoices |-> IF rowLock[i] = r THEN draft[r][i] ELSE status[i]]

Settle(r) ==
    /\ pc' = [pc EXCEPT ![r] = "done"]
    /\ Forget(r)

Commit(r) ==
    /\ pc[r] = "written"
    /\ posted' = posted \cup {r}
    /\ basis' = [basis EXCEPT ![job[r].inv] = sawRows[r]]
    /\ Publish(r)
    /\ counter' = IF Receipted(r) THEN [counter EXCEPT ![job[r].year] = number[r]]
                  ELSE counter
    /\ Release(r)
    /\ Settle(r)
    /\ UNCHANGED <<job, number, asOf, window>>

\* (mutant) the counter is bumped outside the transaction: a rollback burns it
Abort_BurnsNumber(r) ==
    /\ pc[r] \notin Ended \cup {"idle"}
    /\ Refuse(r, "failed")
    /\ Release(r)
    /\ counter' = IF number[r] = 0 THEN counter
                  ELSE [counter EXCEPT ![job[r].year] = number[r]]
    /\ UNCHANGED <<asOf, window, posted, basis, status>>

\* A statement fails, the connection drops or the backend dies: whatever the
\* transaction did rolls back, and the receipt number is released with it.
Abort(r) ==
    /\ pc[r] \notin Ended \cup {"idle"}
    /\ Refuse(r, "failed")
    /\ Release(r)
    /\ UNCHANGED <<asOf, window, books>>

(***************************************************************************)
(* cancel, reopen and updateStatus: a read that decides, then one UPDATE   *)
(* by primary key that no longer looks at what the decision was based on.  *)
(***************************************************************************)
Decide(r, op, i, target) ==
    /\ pc' = [pc EXCEPT ![r] = "decided"]
    /\ job' = [job EXCEPT ![r] = [op |-> op, inv |-> i, delta |-> 0, year |-> None]]
    /\ draft' = [draft EXCEPT ![r][i] = target]
    /\ UNCHANGED <<number, saw>>

Cancel(r) ==
    /\ pc[r] = "idle" /\ "cancel" \in Operations
    /\ \E i \in Invoices :
         IF Paid(i) <= 0 /\ status[i] # "cancelled"
         THEN Decide(r, "cancel", i, "cancelled") ELSE Refuse(r, "refused")
    /\ UNCHANGED <<asOf, window, books, locks>>

Reopen(r) ==
    /\ pc[r] = "idle" /\ "reopen" \in Operations
    /\ \E i \in Invoices :
         IF status[i] = "cancelled"
         THEN Decide(r, "reopen", i, Derive(Paid(i), i, window[i]))
         ELSE Refuse(r, "refused")
    /\ UNCHANGED <<asOf, window, books, locks>>

UpdateStatus(r) ==
    /\ pc[r] = "idle" /\ "override" \in Operations
    /\ \E i \in Invoices, target \in Statuses :
         IF status[i] # target
         THEN Decide(r, "override", i, target) ELSE Refuse(r, "refused")
    /\ UNCHANGED <<asOf, window, books, locks>>

SetStatus(r) ==
    /\ pc[r] = "decided"
    /\ rowLock[job[r].inv] = None
    /\ status' = [status EXCEPT ![job[r].inv] = draft[r][job[r].inv]]
    /\ Settle(r)
    /\ UNCHANGED <<job, number, asOf, window, posted, basis, counter, locks>>

(***************************************************************************)
(* refreshStatuses: three UPDATEs by status in one transaction, "today"    *)
(* fixed when it starts.  Each waits until every row it matches is free or *)
(* its own, and looks at the status it finds then.                         *)
(***************************************************************************)
StartRefresh(r) ==
    /\ pc[r] = "idle" /\ "refresh" \in Operations
    /\ pc' = [pc EXCEPT ![r] = "sweep1"]
    /\ job' = [job EXCEPT ![r] = RefreshJob]
    /\ asOf' = [asOf EXCEPT ![r] = window]
    /\ UNCHANGED <<number, saw, draft, window, books, locks>>

\* The status of i as r's own transaction sees it.
View(r, i) == IF rowLock[i] = r THEN draft[r][i] ELSE status[i]

\* UPDATE ... SET status = target for the invoices in `matched`.
Sweep(r, matched, target, next) ==
    /\ \A i \in matched : rowLock[i] \in {None, r}
    /\ rowLock' = [i \in Invoices |-> IF i \in matched THEN r ELSE rowLock[i]]
    /\ draft' = [draft EXCEPT ![r] =
                    [i \in Invoices |-> IF i \in matched THEN target ELSE draft[r][i]]]
    /\ pc' = [pc EXCEPT ![r] = next]
    /\ UNCHANGED <<job, number, saw, asOf, window, books, counterLock>>

ExpireSoon(r) ==
    /\ pc[r] = "sweep1"
    /\ Sweep(r, {i \in Invoices : View(r, i) = "due_soon" /\ asOf[r][i] = "past"},
             "not_paid", "sweep2")

\* (mutant) the due-soon update forgets which statuses it may relabel
MarkSoon_AnyStatus(r) ==
    /\ pc[r] = "sweep2"
    /\ Sweep(r, {i \in Invoices : asOf[r][i] = "soon"}, "due_soon", "sweep3")

MarkSoon(r) ==
    /\ pc[r] = "sweep2"
    /\ Sweep(r, {i \in Invoices : View(r, i) = "not_paid" /\ asOf[r][i] = "soon"},
             "due_soon", "sweep3")

UnwindOverdue(r) ==
    /\ pc[r] = "sweep3"
    /\ Sweep(r, {i \in Invoices : View(r, i) = "overdue"}, "not_paid", "swept")

CommitRefresh(r) ==
    /\ pc[r] = "swept"
    /\ Publish(r)
    /\ Release(r)
    /\ Settle(r)
    /\ UNCHANGED <<job, number, asOf, window, posted, basis, counter>>

(***************************************************************************)
(* Time and the whole                                                      *)
(***************************************************************************)
PassDays(i) ==
    /\ window[i] # "past"
    /\ window' = [window EXCEPT ![i] = IF @ = "early" THEN "soon" ELSE "past"]
    /\ UNCHANGED <<pc, job, number, saw, asOf, draft, books, locks>>

Advance(r) ==
    \/ ReadAgain(r) \/ TakeNumber(r) \/ Insert(r) \/ InsertCollides(r)
    \/ SumLedger(r) \/ WriteInvoice(r) \/ Commit(r) \/ SetStatus(r)
    \/ ExpireSoon(r) \/ MarkSoon(r) \/ UnwindOverdue(r) \/ CommitRefresh(r)

Arrive(r) ==
    \/ RecordPayment(r) \/ VetRefund(r) \/ VetCorrection(r)
    \/ Cancel(r) \/ Reopen(r) \/ UpdateStatus(r) \/ StartRefresh(r)

\* Every request was served: the desk is closed.
Closed == (\A r \in Requests : pc[r] \in Ended) /\ UNCHANGED vars

Next ==
    \/ \E r \in Requests : Arrive(r) \/ Advance(r) \/ Abort(r)
    \/ \E i \in Invoices : PassDays(i)
    \/ Closed

Spec == Init /\ [][Next]_vars

\* Node keeps running a handler it has started; PostgreSQL grants a free lock.
FairSpec == Spec /\ \A r \in Requests : WF_vars(Advance(r))

-----------------------------------------------------------------------------
(***************************************************************************)
(* What should hold                                                        *)
(***************************************************************************)
Stages == Ended \cup {"idle", "vetted", "open", "numbered", "inserted", "summed",
                      "written", "decided", "sweep1", "sweep2", "sweep3", "swept"}

\* The shape of the state.
TypeOK ==
    /\ pc \in [Requests -> Stages]
    /\ job \in [Requests -> Jobs]
    /\ number \in [Requests -> Nat]
    /\ sawStatus \in [Requests -> Statuses]
    /\ sawRows \in [Requests -> SUBSET Requests]
    /\ asOf \in [Requests -> [Invoices -> Windows]]
    /\ draft \in [Requests -> [Invoices -> Statuses]]
    /\ posted \subseteq Requests
    /\ basis \in [Invoices -> SUBSET Requests]
    /\ status \in [Invoices -> Statuses]
    /\ window \in [Invoices -> Windows]
    /\ counter \in [Years -> Nat]
    /\ counterLock \in [Years -> Requests \cup {None}]
    /\ rowLock \in [Invoices -> Requests \cup {None}]

\* The receipts printed: posted payments and refunds.
Receipts == {r \in posted : Receipted(r)}

\* No two receipts of a year carry the same number, however many cashiers
\* collect in the same second (receipt-number.service.ts:12-17).
ReceiptsUnique ==
    \A q, r \in Receipts :
        job[q].year = job[r].year /\ number[q] = number[r] => q = r

\* The numbers of a year are 1..n, each once and without a gap: a transaction
\* that rolls back gives its number to the next one
\* (receipt-number.service.ts:12-22).
ReceiptsGapless ==
    /\ ReceiptsUnique
    /\ \A y \in Years :
          {number[r] : r \in {q \in Receipts : job[q].year = y}} = 1..counter[y]

\* The stored total is the sum of exactly the invoice's ledger rows
\* (payment.service.ts:177-182): no collection is counted twice, left out, or
\* counted although it rolled back.
PaidIsLedgerSum == \A i \in Invoices : basis[i] = RowsOf(i)

\* A stored total counts only rows the ledger kept: a collection whose
\* transaction rolls back, at whatever statement, leaves no trace in the
\* invoice's paid_amount (payment.service.ts:851-879, 966-976).
NothingUncommittedCounted == \A i \in Invoices : basis[i] \subseteq RowsOf(i)

\* The badge tells the truth about the money: an invoice that was not cancelled
\* shows settled, partly settled or unpaid exactly as its ledger totals, whatever
\* the refresh, the reconciliations, the cancellations and the calendar do
\* meanwhile (payment.service.ts:177-180).
StatusMatchesTotal ==
    \A i \in Invoices : status[i] # "cancelled" =>
        LET total == Total(RowsOf(i)) IN
        status[i] \in IF total >= Due[i] /\ Due[i] > 0 THEN {"paid"}
                     ELSE IF total > 0 THEN {"partially_paid"}
                     ELSE {"not_paid", "due_soon", "overdue"}

\* Nobody waits for ever: every request the desk sends is answered, whatever
\* locks the others hold.
EveryRequestEnds == \A r \in Requests : pc[r] # "idle" ~> pc[r] \in Ended

\* The receipts are a receipt book: numbers are issued by committing.
Book == INSTANCE ReceiptBook
            WITH last <- counter,
                 stubs <- {<<job[r].year, number[r], r>> : r \in Receipts}
IssuesLikeABook == Book!Spec
=============================================================================
