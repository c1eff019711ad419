------------------------- MODULE PaymentLedger_proofs -------------------------
(***************************************************************************)
(* The ledger for every number of requests, invoices, amounts and years.   *)
(*                                                                         *)
(* Four arguments, each an inductive invariant over those before:          *)
(*   Typed      the state has its shape, and a request that is moving      *)
(*              money has a movement for a job;                            *)
(*   Numbering  a number above the committed counter is carried only by    *)
(*              the request that holds the counter's row, so the next      *)
(*              Commit of that year is the next line of the book;          *)
(*   Counted    what a reconciliation has summed was committed, or is its  *)
(*              own row;                                                   *)
(*   Badge      whoever writes a status holds the invoice's row and has    *)
(*              drafted one that fits the total.                           *)
(***************************************************************************)
EXTENDS PaymentLedger, TLAPS

Moving == {"vetted", "open", "numbered", "inserted", "summed", "written"}
Sweeping == {"sweep1", "sweep2", "sweep3", "swept"}

\* A request's job is one its stage can have; a posted row is a finished movement.
JobFits ==
    /\ \A r \in Requests : pc[r] \in Moving => job[r] \in MovementJobs
    /\ \A r \in Requests : pc[r] = "decided" => job[r] \in StatusJobs
    /\ \A r \in posted : pc[r] = "done" /\ job[r] \in MovementJobs

Typed == TypeOK /\ JobFits

\* What the handlers put in `job` is a job.
LEMMA JobShapes ==
    /\ NoJob \in Jobs /\ RefreshJob \in Jobs
    /\ \A j \in MovementJobs : j \in Jobs /\ j.op \in Movements /\ j.inv \in Invoices
                               /\ j.delta \in Deltas /\ j.year \in Years
    /\ \A j \in StatusJobs : j \in Jobs /\ j.inv \in Invoices
    /\ \A op \in Movements, i \in Invoices, d \in Deltas, y \in Years :
         [op |-> op, inv |-> i, delta |-> d, year |-> y] \in MovementJobs
    /\ \A op \in {"cancel", "reopen", "override"}, i \in Invoices :
         [op |-> op, inv |-> i, delta |-> 0, year |-> None] \in StatusJobs
  BY DEF Jobs, MovementJobs, StatusJobs, NoJob, RefreshJob

\* A request that ends without effect keeps the state typed.
LEMMA RefusedTyped ==
  ASSUME Typed, NEW r \in Requests, pc[r] \in {"idle", "vetted"}, Refuse(r, "refused"),
         UNCHANGED <<asOf, window, books, locks>>
  PROVE  Typed'
  BY JobShapes DEF Refuse, Forget, books, locks, Typed, TypeOK, JobFits, Moving,
                   NoDraft, Stages, Ended, Statuses

\* So does one that goes on with the movement it asked for.
LEMMA ProceedTyped ==
  ASSUME Typed, NEW r \in Requests, pc[r] \in {"idle", "vetted"},
         NEW j \in MovementJobs, NEW next \in {"vetted", "open"}, Proceed(r, j, next),
         UNCHANGED <<asOf, window, books, locks>>
  PROVE  Typed'
  BY JobShapes DEF Proceed, books, locks, saw, Typed, TypeOK, JobFits, Moving,
                   Stages, Ended

\* So does one that has decided on a status.
LEMMA DecideTyped ==
  ASSUME Typed, NEW r \in Requests, pc[r] = "idle", NEW i \in Invoices,
         NEW op \in {"cancel", "reopen", "override"}, NEW target \in Statuses,
         Decide(r, op, i, target), UNCHANGED <<asOf, window, books, locks>>
  PROVE  Typed'
  BY JobShapes DEF Decide, books, locks, saw, Typed, TypeOK, JobFits, Moving,
                   Stages, Ended

\* The type invariant and the fit of each job to its stage are inductive.
LEMMA Typing == Spec => []Typed
<1> USE DEF books, locks, saw, Typed, TypeOK, JobFits, Moving, Sweeping, NoDraft, Stages, Ended, Statuses, Windows, Movements
<1>1. Init => Typed
  BY JobShapes DEF Init
<1>2. Typed /\ [Next]_vars => Typed'
  <2> SUFFICES ASSUME Typed, [Next]_vars PROVE Typed'
    OBVIOUS
  <2>1. ASSUME NEW r \in Requests, RecordPayment(r) PROVE Typed'
    <3>1. PICK i \in Invoices, d \in Deltas, y \in Years :
            LET j == [op |-> "payment", inv |-> i, delta |-> d, year |-> y] IN
            Proceed(r, j, "open") \/ Refuse(r, "refused")
      BY <2>1, Zenon DEF RecordPayment
    <3>2. [op |-> "payment", inv |-> i, delta |-> d, year |-> y] \in MovementJobs
      BY JobShapes DEF Movements
    <3>3. pc[r] = "idle" /\ UNCHANGED <<asOf, window, books, locks>>
      BY <2>1 DEF RecordPayment
    <3>4. QED
      BY <3>1, <3>2, <3>3, ProceedTyped, RefusedTyped
  <2>2. ASSUME NEW r \in Requests, VetRefund(r) PROVE Typed'
    <3>1. PICK i \in Invoices, d \in Deltas, y \in Years :
            LET j == [op |-> "refund", inv |-> i, delta |-> d, year |-> y] IN
            Proceed(r, j, "vetted") \/ Refuse(r, "refused")
      BY <2>2, Zenon DEF VetRefund
    <3>2. [op |-> "refund", inv |-> i, delta |-> d, year |-> y] \in MovementJobs
      BY JobShapes DEF Movements
    <3>3. pc[r] = "idle" /\ UNCHANGED <<asOf, window, books, locks>>
      BY <2>2 DEF VetRefund
    <3>4. QED
      BY <3>1, <3>2, <3>3, ProceedTyped, RefusedTyped
  <2>3. ASSUME NEW r \in Requests, VetCorrection(r) PROVE Typed'
    <3>1. PICK i \in Invoices, d \in Deltas, y \in Years :
            LET j == [op |-> "correction", inv |-> i, delta |-> d, year |-> y] IN
            Proceed(r, j, "vetted") \/ Refuse(r, "refused")
      BY <2>3, Zenon DEF VetCorrection
    <3>2. [op |-> "correction", inv |-> i, delta |-> d, year |-> y] \in MovementJobs
      BY JobShapes DEF Movements
    <3>3. pc[r] = "idle" /\ UNCHANGED <<asOf, window, books, locks>>
      BY <2>3 DEF VetCorrection
    <3>4. QED
      BY <3>1, <3>2, <3>3, ProceedTyped, RefusedTyped
  <2>4. ASSUME NEW r \in Requests, Cancel(r) PROVE Typed'
    <3> HIDE DEF Typed, TypeOK, JobFits
    <3>1. PICK i \in Invoices :
            Decide(r, "cancel", i, "cancelled") \/ Refuse(r, "refused")
      BY <2>4, Zenon DEF Cancel
    <3>2. "cancelled" \in Statuses
      BY DEF Derive, Statuses
    <3>3. pc[r] = "idle" /\ UNCHANGED <<asOf, window, books, locks>>
      BY <2>4 DEF Cancel
    <3>4. CASE Refuse(r, "refused")
      BY <3>3, <3>4, RefusedTyped
    <3>5. CASE Decide(r, "cancel", i, "cancelled")
      BY <3>2, <3>3, <3>5, DecideTyped
    <3>6. QED
      BY <3>1, <3>4, <3>5
  <2>5. ASSUME NEW r \in Requests, Reopen(r) PROVE Typed'
    <3> HIDE DEF Typed, TypeOK, JobFits
    <3>1. PICK i \in Invoices :
            Decide(r, "reopen", i, Derive(Paid(i), i, window[i])) \/ Refuse(r, "refused")
      BY <2>5, Zenon DEF Reopen
    <3>2. Derive(Paid(i), i, window[i]) \in Statuses
      BY DEF Derive, Statuses
    <3>3. pc[r] = "idle" /\ UNCHANGED <<asOf, window, books, locks>>
      BY <2>5 DEF Reopen
    <3>4. CASE Refuse(r, "refused")
      BY <3>3, <3>4, RefusedTyped
    <3>5. CASE Decide(r, "reopen", i, Derive(Paid(i), i, window[i]))
      BY <3>2, <3>3, <3>5, DecideTyped
    <3>6. QED
      BY <3>1, <3>4, <3>5
  <2>6. ASSUME NEW r \in Requests, UpdateStatus(r) PROVE Typed'
    <3> HIDE DEF Typed, TypeOK, JobFits
    <3>1. PICK i \in Invoices, target \in Statuses :
            Decide(r, "override", i, target) \/ Refuse(r, "refused")
      BY <2>6, Zenon DEF UpdateStatus
    <3>2. pc[r] = "idle" /\ UNCHANGED <<asOf, window, books, locks>>
      BY <2>6 DEF UpdateStatus
    <3>3. CASE Refuse(r, "refused")
      BY <3>2, <3>3, RefusedTyped
    <3>4. CASE Decide(r, "override", i, target)
      BY <3>2, <3>4, DecideTyped
    <3>5. QED
      BY <3>1, <3>3, <3>4
  <2>7. ASSUME NEW r \in Requests, StartRefresh(r) PROVE Typed'
    BY <2>7, JobShapes DEF StartRefresh, Receipted
  <2>8. ASSUME NEW r \in Requests, ReadAgain(r) PROVE Typed'
    <3>1. pc[r] = "vetted" /\ job[r] \in MovementJobs
          /\ UNCHANGED <<asOf, window, books, locks>>
          /\ (Proceed(r, job[r], "open") \/ Refuse(r, "refused"))
      BY <2>8 DEF ReadAgain
    <3>2. QED
      BY <3>1, ProceedTyped, RefusedTyped
  <2>9. ASSUME NEW r \in Requests, TakeNumber(r) PROVE Typed'
    BY <2>9, JobShapes DEF TakeNumber, Receipted
  <2>10. ASSUME NEW r \in Requests, Insert(r) PROVE Typed'
    BY <2>10, JobShapes DEF Insert, ReadyToInsert, Receipted
  <2>11. ASSUME NEW r \in Requests, InsertCollides(r) PROVE Typed'
    BY <2>11, JobShapes DEF InsertCollides, ReadyToInsert, Refuse, Forget, Release, Free, Receipted
  <2>12. ASSUME NEW r \in Requests, SumLedger(r) PROVE Typed'
    BY <2>12, JobShapes DEF SumLedger, Reconciled, Derive, RowsOf, Receipted
  <2>13. ASSUME NEW r \in Requests, WriteInvoice(r) PROVE Typed'
    BY <2>13, JobShapes DEF WriteInvoice, Receipted
  <2>14. ASSUME NEW r \in Requests, Commit(r) PROVE Typed'
    BY <2>14, JobShapes DEF Commit, Publish, Release, Free, Settle, Forget, Receipted
  <2>15. ASSUME NEW r \in Requests, SetStatus(r) PROVE Typed'
    BY <2>15, JobShapes DEF SetStatus, Settle, Forget, Receipted
  <2>16. ASSUME NEW r \in Requests, ExpireSoon(r) PROVE Typed'
    BY <2>16, JobShapes DEF ExpireSoon, Sweep, Receipted
  <2>17. ASSUME NEW r \in Requests, MarkSoon(r) PROVE Typed'
    BY <2>17, JobShapes DEF MarkSoon, Sweep, Receipted
  <2>18. ASSUME NEW r \in Requests, UnwindOverdue(r) PROVE Typed'
    BY <2>18, JobShapes DEF UnwindOverdue, Sweep, Receipted
  <2>19. ASSUME NEW r \in Requests, CommitRefresh(r) PROVE Typed'
    BY <2>19, JobShapes DEF CommitRefresh, Publish, Release, Free, Settle, Forget, Receipted
  <2>20. ASSUME NEW r \in Requests, Abort(r) PROVE Typed'
    BY <2>20, JobShapes DEF Abort, Refuse, Forget, Release, Free, Receipted
  <2>21. ASSUME NEW i \in Invoices, PassDays(i) PROVE Typed'
    BY <2>21, JobShapes DEF PassDays, Receipted
  <2>22. CASE UNCHANGED vars
    BY <2>22, JobShapes DEF vars, Receipted
  <2>q. QED
    BY <2>1, <2>2, <2>3, <2>4, <2>5, <2>6, <2>7, <2>8, <2>9, <2>10, <2>11, <2>12, <2>13, <2>14, <2>15, <2>16, <2>17, <2>18, <2>19, <2>20, <2>21, <2>22 DEF Next, Arrive, Advance, Closed
<1>3. QED
  BY <1>1, <1>2, PTL DEF Spec

\* The state is always of its declared shape, whatever the requests, the
\* invoices and the amounts are.
THEOREM TypeCorrect == Spec => []TypeOK
  BY Typing, PTL DEF Typed

-----------------------------------------------------------------------------
(***************************************************************************)
(* Receipt numbers.  The strengthening: a request that has taken a number  *)
(* still holds the counter's row, and the number is the one after the      *)
(* committed count; so only one request can hold a given number, and the   *)
(* row it commits is the next line of the book.                            *)
(***************************************************************************)
Holding(r) == pc[r] \in {"numbered", "inserted", "summed", "written"} /\ Receipted(r)
Holds(r) ==
    Holding(r) => /\ counterLock[job[r].year] = r
                  /\ number[r] = counter[job[r].year] + 1
Held == \A r \in Requests : Holds(r)

Within == \A q \in Receipts : number[q] \in 1..counter[job[q].year]
Filled == \A y \in Years : \A n \in 1..counter[y] :
              \E q \in Receipts : job[q].year = y /\ number[q] = n

Numbering == Held /\ Within /\ Filled /\ ReceiptsUnique

\* The inductive form of the numbering implies the property of the runs.
LEMMA NumberingGapless == ASSUME Typed, Numbering PROVE ReceiptsGapless
<1> USE DEF Numbering
<1>1. SUFFICES ASSUME NEW y \in Years
      PROVE  {number[r] : r \in {q \in Receipts : job[q].year = y}} = 1..counter[y]
  BY DEF ReceiptsGapless
<1>2. ASSUME NEW n \in 1..counter[y]
      PROVE  n \in {number[r] : r \in {q \in Receipts : job[q].year = y}}
  BY <1>2 DEF Filled
<1>3. ASSUME NEW q \in Receipts, job[q].year = y PROVE number[q] \in 1..counter[y]
  BY <1>3 DEF Within
<1>4. QED
  BY <1>2, <1>3

\* What every step of a request but Commit leaves alone.
Quiet(r) ==
    /\ UNCHANGED <<posted, counter>>
    /\ r \notin posted
    /\ \A q \in Requests \ {r} : pc'[q] = pc[q] /\ job'[q] = job[q] /\ number'[q] = number[q]
    /\ \A y \in Years : counterLock[y] \notin {r, None} => counterLock'[y] = counterLock[y]
    /\ Holds(r)'

\* Every step but a Commit leaves the book as it is.
LEMMA QuietSteps ==
  ASSUME Typed, Held, NEW r \in Requests, Arrive(r) \/ Advance(r) \/ Abort(r), ~Commit(r)
  PROVE  Quiet(r)
<1> USE DEF Quiet, Typed, TypeOK, JobFits, Moving, books, locks, saw, Holding, Ended
<1>1. ASSUME NEW j, NEW next \in {"vetted", "open"}, pc[r] \in {"idle", "vetted"},
             Proceed(r, j, next), UNCHANGED <<books, locks>>
      PROVE  Quiet(r)
  BY <1>1 DEF Proceed, Holds
<1>2. ASSUME pc[r] \in {"idle", "vetted"}, Refuse(r, "refused"), UNCHANGED <<books, locks>>
      PROVE  Quiet(r)
  BY <1>2 DEF Refuse, Holds
<1>3. ASSUME NEW op, NEW i, NEW target, pc[r] = "idle", Decide(r, op, i, target),
             UNCHANGED <<books, locks>>
      PROVE  Quiet(r)
  BY <1>3 DEF Decide, Holds
<1>4. CASE RecordPayment(r)
  BY <1>4, <1>1, <1>2, Zenon DEF RecordPayment
<1>5. CASE VetRefund(r)
  BY <1>5, <1>1, <1>2, Zenon DEF VetRefund
<1>6. CASE VetCorrection(r)
  BY <1>6, <1>1, <1>2, Zenon DEF VetCorrection
<1>7. CASE ReadAgain(r)
  BY <1>7, <1>1, <1>2, Zenon DEF ReadAgain
<1>8. CASE Cancel(r)
  BY <1>8, <1>3, <1>2, Zenon DEF Cancel
<1>9. CASE Reopen(r)
  BY <1>9, <1>3, <1>2, Zenon DEF Reopen
<1>10. CASE UpdateStatus(r)
  BY <1>10, <1>3, <1>2, Zenon DEF UpdateStatus
<1>11. CASE StartRefresh(r)
  BY <1>11 DEF StartRefresh, Holds
<1>12. CASE TakeNumber(r)
  BY <1>12, JobShapes DEF TakeNumber, Holds, Receipted
<1>13. CASE Insert(r)
  BY <1>13 DEF Insert, ReadyToInsert, Holds, Held, Receipted
<1>14. CASE InsertCollides(r)
  BY <1>14 DEF InsertCollides, ReadyToInsert, Refuse, Release, Free, Holds
<1>15. CASE SumLedger(r)
  BY <1>15 DEF SumLedger, Holds, Held, Receipted
<1>16. CASE WriteInvoice(r)
  BY <1>16 DEF WriteInvoice, Holds, Held, Receipted
<1>17. CASE SetStatus(r)
  BY <1>17 DEF SetStatus, Settle, Holds
<1>18. CASE ExpireSoon(r) \/ MarkSoon(r) \/ UnwindOverdue(r)
  BY <1>18 DEF ExpireSoon, MarkSoon, UnwindOverdue, Sweep, Holds
<1>19. CASE CommitRefresh(r)
  BY <1>19 DEF CommitRefresh, Settle, Release, Free, Holds
<1>20. CASE Abort(r)
  BY <1>20 DEF Abort, Refuse, Release, Free, Holds
<1>21. QED
  BY <1>4, <1>5, <1>6, <1>7, <1>8, <1>9, <1>10, <1>11, <1>12, <1>13, <1>14, <1>15,
     <1>16, <1>17, <1>18, <1>19, <1>20 DEF Arrive, Advance

\* A Commit writes the next line of its year's book.
LEMMA CommitIssues ==
  ASSUME Typed, Held, NEW r \in Requests, Commit(r), Receipted(r)
  PROVE  /\ job[r].year \in Years
         /\ counter[job[r].year] \in Nat
         /\ number[r] = counter[job[r].year] + 1
         /\ counter' = [counter EXCEPT ![job[r].year] = number[r]]
         /\ r \notin posted /\ Receipts' = Receipts \cup {r}
         /\ UNCHANGED <<job, number>>
  BY JobShapes DEF Commit, Held, Holds, Holding, Receipted, Receipts, Typed, TypeOK, JobFits, Moving

\* A Commit of a correction leaves the book as it is.
LEMMA CommitCorrection ==
  ASSUME Typed, NEW r \in Requests, Commit(r), ~Receipted(r)
  PROVE  /\ Receipts' = Receipts
         /\ UNCHANGED <<job, number, counter>>
  BY DEF Commit, Receipted, Receipts, Typed, TypeOK, JobFits, Moving

\* No other request holds the number a Commit has just printed.
LEMMA CommitKeepsHeld ==
  ASSUME Typed, Held, NEW r \in Requests, Commit(r)
  PROVE  Held'
<1> SUFFICES ASSUME NEW q \in Requests, Holding(q)' PROVE Holds(q)'
  BY DEF Held, Holds
<1>1. q # r /\ Holding(q) /\ job'[q] = job[q] /\ number'[q] = number[q] /\ job[q].year \in Years
  BY JobShapes DEF Commit, Settle, Holding, Receipted, Typed, TypeOK, JobFits, Moving
<1>2. counterLock[job[q].year] = q /\ number[q] = counter[job[q].year] + 1
  BY <1>1 DEF Held, Holds
<1>3. counterLock'[job[q].year] = q
  BY <1>1, <1>2 DEF Commit, Release, Free, Typed, TypeOK
<1>4. counter'[job[q].year] = counter[job[q].year]
  <2>1. CASE Receipted(r)
    <3>1. counterLock[job[r].year] = r
      BY <2>1 DEF Commit, Held, Holds, Holding
    <3>2. QED
      BY <2>1, <3>1, <1>1, <1>2, CommitIssues DEF Typed, TypeOK
  <2>2. CASE ~Receipted(r)
    BY <2>2 DEF Commit
  <2>3. QED
    BY <2>1, <2>2
<1>5. QED
  BY <1>1, <1>2, <1>3, <1>4 DEF Holds

\* After a Commit the numbers of its year still are 1..counter, each once.
LEMMA CommitKeepsBook ==
  ASSUME Typed, Numbering, NEW r \in Requests, Commit(r)
  PROVE  Within' /\ Filled' /\ ReceiptsUnique'
<1> USE DEF Numbering
<1>1. CASE ~Receipted(r)
  BY <1>1, CommitCorrection DEF Within, Filled, ReceiptsUnique
<1>2. CASE Receipted(r)
  <2> DEFINE y == job[r].year
  <2>1. /\ y \in Years /\ counter[y] \in Nat /\ number[r] = counter[y] + 1
        /\ Receipts' = Receipts \cup {r} /\ UNCHANGED <<job, number>>
        /\ counter'[y] = counter[y] + 1
        /\ \A z \in Years \ {y} : counter'[z] = counter[z]
    BY <1>2, CommitIssues DEF Typed, TypeOK
  <2>2. \A q \in Receipts : job[q].year \in Years /\ number[q] \in 1..counter[job[q].year]
    BY JobShapes DEF Within, Receipts, Typed, TypeOK, JobFits
  <2>3. Within'
    BY <2>1, <2>2 DEF Within, Typed, TypeOK
  <2>4. ReceiptsUnique'
    <3>1. \A q \in Receipts : job[q].year = y => number[q] # number[r]
      BY <2>1, <2>2
    <3>2. QED
      BY <2>1, <3>1 DEF ReceiptsUnique
  <2>5. Filled'
    <3> SUFFICES ASSUME NEW z \in Years, NEW n \in 1..counter'[z]
                 PROVE  \E q \in Receipts' : job[q].year = z /\ number[q] = n
      BY <2>1 DEF Filled
    <3>1. CASE z = y /\ n = counter[y] + 1
      BY <2>1, <3>1
    <3>2. CASE z # y \/ n # counter[y] + 1
      <4>1. n \in 1..counter[z]
        BY <2>1, <3>2 DEF Typed, TypeOK
      <4>2. QED
        BY <4>1, <2>1 DEF Filled
    <3>3. QED
      BY <3>1, <3>2
  <2>6. QED
    BY <2>3, <2>4, <2>5
<1>3. QED
  BY <1>1, <1>2

\* A step that leaves the book as it is keeps the numbering.
LEMMA QuietNumbering ==
  ASSUME Typed, Numbering, NEW r \in Requests, Quiet(r)
  PROVE  Numbering'
<1> USE DEF Numbering, Quiet
<1>1. Receipts' = Receipts /\ UNCHANGED counter
      /\ \A q \in Receipts : job'[q] = job[q] /\ number'[q] = number[q]
  BY DEF Receipts, Receipted, Typed, TypeOK
<1>2. Held'
  <2> SUFFICES ASSUME NEW q \in Requests, q # r, Holding(q)' PROVE Holds(q)'
    BY DEF Held, Holds
  <2>1. Holding(q) /\ job[q].year \in Years
    BY JobShapes DEF Holding, Receipted, Typed, TypeOK, JobFits, Moving
  <2>2. counterLock[job[q].year] = q /\ number[q] = counter[job[q].year] + 1
    BY <2>1 DEF Held, Holds
  <2>3. QED
    BY <2>1, <2>2, NoneAssumption DEF Holds
<1>3. Within' /\ ReceiptsUnique'
  BY <1>1 DEF Within, ReceiptsUnique
<1>4. Filled'
  BY <1>1 DEF Filled
<1>5. QED
  BY <1>2, <1>3, <1>4

\* The numbering is an invariant: no one but the holder of a counter's row
\* carries a number above it, and every number up to it was printed once.
LEMMA NumberingInvariant == Spec => []Numbering
<1>1. Init => Numbering
  BY DEF Init, Numbering, Held, Holds, Holding, Within, Filled, ReceiptsUnique, Receipts
<1>2. Typed /\ Numbering /\ [Next]_vars => Numbering'
  <2> SUFFICES ASSUME Typed, Numbering, [Next]_vars PROVE Numbering'
    OBVIOUS
  <2>1. ASSUME NEW r \in Requests, Commit(r) PROVE Numbering'
    BY <2>1, CommitKeepsHeld, CommitKeepsBook DEF Numbering
  <2>2. ASSUME NEW r \in Requests, Arrive(r) \/ Advance(r) \/ Abort(r), ~Commit(r)
        PROVE  Numbering'
    BY <2>2, QuietSteps, QuietNumbering DEF Numbering
  <2>3. ASSUME UNCHANGED <<pc, job, number, posted, counter, counterLock>>
        PROVE  Numbering'
    BY <2>3 DEF Numbering, Held, Holds, Holding, Within, Filled, ReceiptsUnique,
                Receipts, Receipted
  <2>4. QED
    BY <2>1, <2>2, <2>3 DEF Next, Closed, PassDays, vars, books, locks
<1>3. QED
  BY <1>1, <1>2, Typing, PTL DEF Spec

\* No two receipts of a year carry the same number, for any number of
\* concurrent requests, endpoints and crashes.
THEOREM UniqueReceipts == Spec => []ReceiptsUnique
  BY NumberingInvariant, PTL DEF Numbering

\* The committed receipts of a year are numbered 1..n, each once, although
\* transactions roll back.
THEOREM GaplessReceipts == Spec => []ReceiptsGapless
<1>1. Typed /\ Numbering => ReceiptsGapless
  BY NumberingGapless
<1>2. QED
  BY <1>1, Typing, NumberingInvariant, PTL

\* The ledger issues receipts exactly as the abstract book does: a step of the
\* ledger is one Issue of the book, when a receipted movement commits, or none.
THEOREM LedgerIsABook == Spec => IssuesLikeABook
<1> DEFINE Stubs == {<<job[r].year, number[r], r>> : r \in Receipts}
<1>1. Init => Book!Init
  BY DEF Init, Book!Init, Receipts
<1>2. Typed /\ Numbering /\ [Next]_vars => [Book!Next]_<<counter, Stubs>>
  <2> SUFFICES ASSUME Typed, Numbering, [Next]_vars PROVE [Book!Next]_<<counter, Stubs>>
    OBVIOUS
  <2>1. ASSUME NEW r \in Requests, Commit(r), Receipted(r)
        PROVE  Book!Issue(job[r].year, r)
    <3>1. /\ job[r].year \in Years /\ number[r] = counter[job[r].year] + 1
          /\ counter' = [counter EXCEPT ![job[r].year] = number[r]]
          /\ r \notin Receipts /\ Receipts' = Receipts \cup {r}
          /\ UNCHANGED <<job, number>>
      BY <2>1, CommitIssues DEF Numbering, Receipts
    <3>2. \A s \in Stubs : s[3] # r
      BY <3>1
    <3>3. Stubs' = Stubs \cup {<<job[r].year, counter[job[r].year] + 1, r>>}
      BY <3>1
    <3>4. counter' = [counter EXCEPT ![job[r].year] = counter[job[r].year] + 1]
      BY <3>1
    <3>5. QED
      BY <3>2, <3>3, <3>4 DEF Book!Issue
  <2>2. ASSUME NEW r \in Requests, Commit(r), ~Receipted(r)
        PROVE  UNCHANGED <<counter, Stubs>>
    BY <2>2, CommitCorrection
  <2>3. ASSUME NEW r \in Requests, Arrive(r) \/ Advance(r) \/ Abort(r), ~Commit(r)
        PROVE  UNCHANGED <<counter, Stubs>>
    <3>1. Quiet(r)
      BY <2>3, QuietSteps DEF Numbering
    <3>2. Receipts' = Receipts /\ UNCHANGED counter
          /\ \A q \in Receipts : job'[q] = job[q] /\ number'[q] = number[q]
      BY <3>1 DEF Quiet, Receipts, Receipted, Typed, TypeOK
    <3>3. QED
      BY <3>2
  <2>4. ASSUME UNCHANGED <<job, number, posted, counter>>
        PROVE  UNCHANGED <<counter, Stubs>>
    BY <2>4 DEF Receipts, Receipted
  <2>5. ASSUME NEW r \in Requests, Commit(r), Receipted(r) PROVE Book!Next
    <3>1. job[r].year \in Years
      BY <2>5, CommitIssues DEF Numbering
    <3>2. QED
      BY <2>5, <3>1, <2>1 DEF Book!Next
  <2>6. QED
    BY <2>2, <2>3, <2>4, <2>5 DEF Next, Closed, PassDays, vars, books
<1>3. QED
  BY <1>1, <1>2, Typing, NumberingInvariant, PTL DEF Spec, IssuesLikeABook, Book!Spec

-----------------------------------------------------------------------------
(***************************************************************************)
(* The stored total.  What a reconciliation has summed never counts a row  *)
(* that is neither committed nor its own; when the receipt counter         *)
(* serialises every movement, it also counts all of them.                  *)
(***************************************************************************)
SumsWithin ==
    \A r \in Requests : pc[r] \in {"summed", "written"} =>
        sawRows[r] \subseteq RowsOf(job[r].inv) \cup {r}
Counted == SumsWithin /\ NothingUncommittedCounted

\* What every step of a request leaves alone that neither sums nor commits.
Unsummed(r) ==
    /\ UNCHANGED <<posted, basis>>
    /\ r \notin posted
    /\ \A q \in Requests \ {r} :
          pc'[q] = pc[q] /\ job'[q] = job[q] /\ sawRows'[q] = sawRows[q]
    /\ pc'[r] \in {"summed", "written"} =>
          /\ pc[r] \in {"summed", "written"}
          /\ job'[r] = job[r] /\ sawRows'[r] = sawRows[r]

\* A step other than a sum or a Commit shows no new row to any total.
LEMMA UnsummedSteps ==
  ASSUME Typed, NEW r \in Requests,
         Arrive(r) \/ Advance(r) \/ Abort(r), ~Commit(r), ~SumLedger(r)
  PROVE  Unsummed(r)
<1> USE DEF Typed, TypeOK, JobFits, Moving, books, locks, saw, Ended, Unsummed
<1>1. ASSUME NEW j, NEW next \in {"vetted", "open"}, pc[r] \in {"idle", "vetted"},
             Proceed(r, j, next), UNCHANGED <<books, locks>>
      PROVE  Unsummed(r)
  BY <1>1 DEF Proceed
<1>2. ASSUME pc[r] \in {"idle", "vetted"}, Refuse(r, "refused"), UNCHANGED <<books, locks>>
      PROVE  Unsummed(r)
  BY <1>2 DEF Refuse, Forget
<1>3. ASSUME NEW op, NEW i, NEW target, pc[r] = "idle", Decide(r, op, i, target),
             UNCHANGED <<books, locks>>
      PROVE  Unsummed(r)
  BY <1>3 DEF Decide
<1>4. CASE StartRefresh(r)
  BY <1>4 DEF StartRefresh
<1>5. CASE TakeNumber(r) \/ Insert(r) \/ WriteInvoice(r)
  BY <1>5 DEF TakeNumber, Insert, ReadyToInsert, WriteInvoice
<1>6. CASE InsertCollides(r)
  BY <1>6 DEF InsertCollides, ReadyToInsert, Refuse, Forget
<1>7. CASE SetStatus(r) \/ CommitRefresh(r)
  BY <1>7 DEF SetStatus, CommitRefresh, Settle, Forget
<1>8. CASE ExpireSoon(r) \/ MarkSoon(r) \/ UnwindOverdue(r)
  BY <1>8 DEF ExpireSoon, MarkSoon, UnwindOverdue, Sweep
<1>9. CASE Abort(r)
  BY <1>9 DEF Abort, Refuse, Forget
<1> HIDE DEF Typed, TypeOK, JobFits, Moving, Ended, Unsummed
<1>10. CASE RecordPayment(r)
  BY <1>10, <1>1, <1>2, Zenon DEF RecordPayment
<1>11. CASE VetRefund(r)
  BY <1>11, <1>1, <1>2, Zenon DEF VetRefund
<1>12. CASE VetCorrection(r)
  BY <1>12, <1>1, <1>2, Zenon DEF VetCorrection
<1>13. CASE ReadAgain(r)
  BY <1>13, <1>1, <1>2, Zenon DEF ReadAgain
<1>14. CASE Cancel(r)
  BY <1>14, <1>3, <1>2, Zenon DEF Cancel
<1>15. CASE Reopen(r)
  BY <1>15, <1>3, <1>2, Zenon DEF Reopen
<1>16. CASE UpdateStatus(r)
  BY <1>16, <1>3, <1>2, Zenon DEF UpdateStatus
<1>17. QED
  BY <1>10, <1>11, <1>12, <1>13, <1>14, <1>15, <1>16, <1>4, <1>5, <1>6, <1>7, <1>8,
     <1>9 DEF Arrive, Advance

\* What a Commit publishes.
LEMMA CommitPosts ==
  ASSUME Typed, NEW r \in Requests, Commit(r)
  PROVE  /\ job[r].inv \in Invoices /\ UNCHANGED job
         /\ r \notin posted /\ posted' = posted \cup {r}
         /\ basis'[job[r].inv] = sawRows[r]
         /\ \A i \in Invoices \ {job[r].inv} : basis'[i] = basis[i]
         /\ pc[r] = "written" /\ pc'[r] = "done"
         /\ \A q \in Requests \ {r} : pc'[q] = pc[q] /\ sawRows'[q] = sawRows[q]
  BY JobShapes DEF Commit, Settle, Forget, Typed, TypeOK, JobFits, Moving

\* A stored total never counts an uncommitted or foreign row, whatever the
\* endpoints in use and the years.
THEOREM OnlyCommittedCounted == Spec => []NothingUncommittedCounted
<1>1. Init => Counted
  BY DEF Init, Counted, SumsWithin, NothingUncommittedCounted, RowsOf
<1>2. Typed /\ Counted /\ [Next]_vars => Counted'
  <2> SUFFICES ASSUME Typed, Counted, [Next]_vars PROVE Counted'
    OBVIOUS
  <2> USE DEF Counted, RowsOf
  <2>1. ASSUME NEW r \in Requests, Commit(r) PROVE Counted'
    <3>1. SumsWithin'
      BY <2>1, CommitPosts DEF SumsWithin
    <3>2. NothingUncommittedCounted'
      BY <2>1, CommitPosts DEF SumsWithin, NothingUncommittedCounted
    <3>3. QED
      BY <3>1, <3>2
  <2>2. ASSUME NEW r \in Requests, SumLedger(r) PROVE Counted'
    BY <2>2 DEF SumLedger, books, locks, SumsWithin, NothingUncommittedCounted, Typed, TypeOK
  <2>3. ASSUME NEW r \in Requests, Arrive(r) \/ Advance(r) \/ Abort(r), ~Commit(r),
               ~SumLedger(r)
        PROVE  Counted'
    <3>1. Unsummed(r)
      BY <2>3, UnsummedSteps
    <3>2. posted \subseteq Requests
      BY DEF Typed, TypeOK
    <3>3. \A i : RowsOf(i)' = RowsOf(i)
      BY <3>1, <3>2 DEF Unsummed
    <3>4. SumsWithin'
      BY <3>1, <3>3 DEF Unsummed, SumsWithin
    <3>5. NothingUncommittedCounted'
      BY <3>1, <3>3 DEF Unsummed, NothingUncommittedCounted
    <3>6. QED
      BY <3>4, <3>5
  <2>4. ASSUME UNCHANGED <<pc, job, sawRows, posted, basis>> PROVE Counted'
    BY <2>4 DEF SumsWithin, NothingUncommittedCounted
  <2>5. QED
    BY <2>1, <2>2, <2>3, <2>4 DEF Next, Closed, PassDays, vars, books, saw
<1>3. QED
  BY <1>1, <1>2, Typing, PTL DEF Spec, Counted

(***************************************************************************)
(* With no corrections and a single year every movement takes the same     *)
(* counter row before it sums, so at most one is between its number and    *)
(* its commit: the sum it took is still the ledger's when it commits.      *)
(***************************************************************************)
OneCounter == "correction" \notin Operations /\ \A y, z \in Years : y = z
AllReceipted == \A r \in Requests : pc[r] \in Moving => Receipted(r)
SumsFresh ==
    \A r \in Requests : pc[r] \in {"summed", "written"} =>
        sawRows[r] = RowsOf(job[r].inv) \cup {r}

\* Where corrections are not in use every movement takes a receipt.
LEMMA AllReceiptedInvariant == ASSUME OneCounter PROVE Spec => []AllReceipted
<1> USE DEF Moving, saw, books, Ended
<1>1. Init => AllReceipted
  BY DEF Init, AllReceipted
<1>2. ASSUME Typed, AllReceipted, NEW r \in Requests, Arrive(r) \/ Advance(r) \/ Abort(r)
      PROVE  AllReceipted'
  <2> USE <1>2 DEF Typed, TypeOK, AllReceipted, Receipted
  <2>1. ASSUME NEW j, NEW next \in {"vetted", "open"}, j.op \in {"payment", "refund"},
               Proceed(r, j, next)
        PROVE  AllReceipted'
    BY <2>1 DEF Proceed
  <2>2. ASSUME Refuse(r, "refused") PROVE AllReceipted'
    BY <2>2 DEF Refuse
  <2>3. ASSUME NEW op, NEW i, NEW target, Decide(r, op, i, target) PROVE AllReceipted'
    BY <2>3 DEF Decide
  <2>4. ~VetCorrection(r)
    BY DEF VetCorrection, OneCounter
  <2>5. CASE StartRefresh(r)
    BY <2>5 DEF StartRefresh
  <2>6. CASE TakeNumber(r) \/ Insert(r) \/ SumLedger(r) \/ WriteInvoice(r)
    BY <2>6 DEF TakeNumber, Insert, ReadyToInsert, SumLedger, WriteInvoice
  <2>7. CASE InsertCollides(r) \/ Abort(r)
    BY <2>7 DEF InsertCollides, Abort, Refuse
  <2>8. CASE Commit(r) \/ SetStatus(r) \/ CommitRefresh(r)
    BY <2>8 DEF Commit, SetStatus, CommitRefresh, Settle
  <2>9. CASE ExpireSoon(r) \/ MarkSoon(r) \/ UnwindOverdue(r)
    BY <2>9 DEF ExpireSoon, MarkSoon, UnwindOverdue, Sweep
  <2>10. CASE ReadAgain(r)
    BY <2>10, <2>1, <2>2 DEF ReadAgain
  <2>11. CASE RecordPayment(r)
    <3>1. PICK i \in Invoices, d \in Deltas, y \in Years :
            LET j == [op |-> "payment", inv |-> i, delta |-> d, year |-> y] IN
            Proceed(r, j, "open") \/ Refuse(r, "refused")
      BY <2>11, Zenon DEF RecordPayment
    <3>2. QED
      BY <3>1, <2>1, <2>2
  <2>12. CASE VetRefund(r)
    <3>1. PICK i \in Invoices, d \in Deltas, y \in Years :
            LET j == [op |-> "refund", inv |-> i, delta |-> d, year |-> y] IN
            Proceed(r, j, "vetted") \/ Refuse(r, "refused")
      BY <2>12, Zenon DEF VetRefund
    <3>2. QED
      BY <3>1, <2>1, <2>2
  <2> HIDE DEF Typed, TypeOK, AllReceipted
  <2>13. CASE Cancel(r)
    BY <2>13, <2>2, <2>3, Zenon DEF Cancel
  <2>14. CASE Reopen(r)
    BY <2>14, <2>2, <2>3, Zenon DEF Reopen
  <2>15. CASE UpdateStatus(r)
    BY <2>15, <2>2, <2>3, Zenon DEF UpdateStatus
  <2>16. QED
    BY <1>2, <2>4, <2>5, <2>6, <2>7, <2>8, <2>9, <2>10, <2>11, <2>12, <2>13, <2>14, <2>15
       DEF Arrive, Advance
<1>3. ASSUME AllReceipted, UNCHANGED <<pc, job>> PROVE AllReceipted'
  BY <1>3 DEF AllReceipted, Receipted
<1>4. Typed /\ AllReceipted /\ [Next]_vars => AllReceipted'
  BY <1>2, <1>3 DEF Next, Closed, PassDays, vars
<1>5. QED
  BY <1>1, <1>4, Typing, PTL DEF Spec

\* While one movement has summed and not committed, no other one commits.
LEMMA OneAtATime ==
  ASSUME OneCounter, Typed, Held, AllReceipted, NEW r \in Requests, Commit(r),
         NEW q \in Requests, pc[q] \in {"summed", "written"}
  PROVE  q = r
<1>1. Holding(r) /\ Holding(q) /\ job[r].year \in Years /\ job[q].year \in Years
  BY JobShapes DEF Commit, Holding, AllReceipted, Typed, JobFits, Moving
<1>2. job[r].year = job[q].year
  BY <1>1 DEF OneCounter
<1>3. QED
  BY <1>1, <1>2 DEF Held, Holds

Sums == SumsFresh /\ PaidIsLedgerSum

\* What a movement has summed is the ledger and its own row, until it commits.
LEMMA SumsInvariant == ASSUME OneCounter PROVE Spec => []Sums
<1> USE DEF Sums
<1>1. Init => Sums
  BY DEF Init, SumsFresh, PaidIsLedgerSum, RowsOf
<1>2. Typed /\ Held /\ AllReceipted /\ Sums /\ [Next]_vars => Sums'
  <2> SUFFICES ASSUME Typed, Held, AllReceipted, SumsFresh, PaidIsLedgerSum, [Next]_vars
               PROVE  SumsFresh' /\ PaidIsLedgerSum'
    OBVIOUS
  <2> USE DEF RowsOf
  <2>1. ASSUME NEW r \in Requests, Commit(r) PROVE SumsFresh' /\ PaidIsLedgerSum'
    <3>1. SumsFresh'
      BY <2>1, OneAtATime, CommitPosts DEF SumsFresh
    <3>2. PaidIsLedgerSum'
      BY <2>1, CommitPosts DEF SumsFresh, PaidIsLedgerSum
    <3>3. QED
      BY <3>1, <3>2
  <2>2. ASSUME NEW r \in Requests, SumLedger(r) PROVE SumsFresh' /\ PaidIsLedgerSum'
    BY <2>2 DEF SumLedger, books, locks, SumsFresh, PaidIsLedgerSum, Typed, TypeOK
  <2>3. ASSUME NEW r \in Requests, Arrive(r) \/ Advance(r) \/ Abort(r), ~Commit(r),
               ~SumLedger(r)
        PROVE  SumsFresh' /\ PaidIsLedgerSum'
    <3>1. /\ Unsummed(r) /\ posted \subseteq Requests
      BY <2>3, UnsummedSteps DEF Typed, TypeOK
    <3>2. \A q \in posted : job'[q] = job[q]
      BY <3>1 DEF Unsummed
    <3>3. SumsFresh'
      BY <3>1, <3>2 DEF Unsummed, SumsFresh
    <3>4. PaidIsLedgerSum'
      BY <3>1, <3>2 DEF Unsummed, PaidIsLedgerSum
    <3>5. QED
      BY <3>3, <3>4
  <2>4. ASSUME UNCHANGED <<pc, job, sawRows, posted, basis>>
        PROVE  SumsFresh' /\ PaidIsLedgerSum'
    BY <2>4 DEF SumsFresh, PaidIsLedgerSum
  <2>5. QED
    BY <2>1, <2>2, <2>3, <2>4 DEF Next, Closed, PassDays, vars, books, saw
<1>3. Numbering => Held
  BY DEF Numbering
<1>4. QED
  BY <1>1, <1>2, <1>3, Typing, NumberingInvariant, AllReceiptedInvariant, PTL DEF Spec

\* Without corrections, within one year, the stored total of every invoice is
\* the sum of exactly its ledger rows at every moment.
THEOREM SerialLedger == ASSUME OneCounter PROVE Spec => []PaidIsLedgerSum
  BY SumsInvariant, PTL DEF Sums


-----------------------------------------------------------------------------
(***************************************************************************)
(* The badge.  Where nothing reopens an invoice or sets its status by      *)
(* hand, whoever writes a status holds the invoice's row and has drafted a *)
(* status that fits the total: the reconciliation because its sum is still *)
(* the ledger's when it commits, the refresh because it relabels unpaid    *)
(* invoices only and no movement of a row it holds can commit.             *)
(***************************************************************************)
NoOverride == Operations \cap {"reopen", "override"} = {}

\* Status s is one an invoice of this total may show, unless it is cancelled.
Fits(s, total, i) ==
    s # "cancelled" => s \in IF total >= Due[i] /\ Due[i] > 0 THEN {"paid"}
                             ELSE IF total > 0 THEN {"partially_paid"}
                             ELSE {"not_paid", "due_soon", "overdue"}

BadgesFit == \A i \in Invoices : Fits(status[i], Total(RowsOf(i)), i)
DraftsFit ==
    \A r \in Requests : pc[r] \in {"summed", "written"} =>
        Fits(draft[r][job[r].inv], Total(sawRows[r]), job[r].inv)
SweepsFit ==
    \A r \in Requests, i \in Invoices : pc[r] \in Sweeping /\ rowLock[i] = r =>
        Fits(draft[r][i], Total(RowsOf(i)), i)
LocksFit ==
    \A r \in Requests, i \in Invoices : rowLock[i] = r =>
        \/ pc[r] = "written" /\ job[r].inv = i
        \/ pc[r] \in Sweeping
WritersLock == \A r \in Requests : pc[r] = "written" => rowLock[job[r].inv] = r
OnlyCancelled ==
    \A r \in Requests : pc[r] = "decided" => draft[r][job[r].inv] = "cancelled"

Badge == /\ BadgesFit /\ DraftsFit /\ SweepsFit
         /\ LocksFit /\ WritersLock /\ OnlyCancelled

\* Nothing collected, nothing owed back: an empty set of rows totals zero.
LEMMA EmptyTotal == Total({}) = 0
  BY Zenon DEF Total, SumFunction, SumFunctionOnSet, FoldFunctionOnSet, MapThenFoldSet

\* What deriveInvoiceStatus and a reconciliation compute fits the total.
LEMMA ReconciledFits ==
  ASSUME NEW r \in Requests, NEW total PROVE Fits(Reconciled(r, total), total, job[r].inv)
  BY DEF Fits, Reconciled, Derive

\* The total of rows whose requests keep their job stays.
LEMMA TotalStays ==
  ASSUME NEW rows, NEW later, later = rows, \A q \in rows : job'[q] = job[q]
  PROVE  SumFunction([q \in later |-> job'[q].delta]) = Total(rows)
<1>1. [q \in later |-> job'[q].delta] = [q \in rows |-> job[q].delta]
  OBVIOUS
<1>2. QED
  BY <1>1 DEF Total

\* So does every invoice's total while nothing is posted.
LEMMA LedgerStays ==
  ASSUME NEW i, posted' = posted, \A q \in posted : job'[q] = job[q]
  PROVE  Total(RowsOf(i))' = Total(RowsOf(i))
<1> DEFINE Later == {q \in posted' : job'[q].inv = i}
<1>1. Later = RowsOf(i) /\ \A q \in RowsOf(i) : job'[q] = job[q]
  BY DEF RowsOf
<1>2. SumFunction([q \in Later |-> job'[q].delta]) = Total(RowsOf(i))
  BY <1>1, TotalStays
<1>3. QED
  BY <1>2 DEF Total, RowsOf

\* And every sum already taken, while the requests it counts keep their job.
LEMMA SumStays ==
  ASSUME NEW q, sawRows'[q] = sawRows[q], \A p \in sawRows[q] : job'[p] = job[p]
  PROVE  Total(sawRows[q])' = Total(sawRows[q])
<1>1. SumFunction([p \in sawRows'[q] |-> job'[p].delta]) = Total(sawRows[q])
  BY TotalStays
<1>2. QED
  BY <1>1 DEF Total

\* Every total survives a step of r that posts nothing, r's own sum excepted.
LEMMA TotalsStay ==
  ASSUME Typed, SumsFresh, NEW r \in Requests, Unsummed(r)
  PROVE  /\ \A i : Total(RowsOf(i))' = Total(RowsOf(i))
         /\ \A q \in Requests \ {r} : pc[q] \in {"summed", "written"} =>
               Total(sawRows[q])' = Total(sawRows[q])
<1>1. posted' = posted /\ r \notin posted /\ posted \subseteq Requests
      /\ \A q \in Requests \ {r} : job'[q] = job[q] /\ sawRows'[q] = sawRows[q]
  BY DEF Unsummed, Typed, TypeOK
<1>2. \A i : Total(RowsOf(i))' = Total(RowsOf(i))
  BY <1>1, LedgerStays
<1>3. ASSUME NEW q \in Requests \ {r}, pc[q] \in {"summed", "written"}
      PROVE  Total(sawRows[q])' = Total(sawRows[q])
  <2>1. \A p \in sawRows[q] : p \in posted \/ p = q
    BY <1>3 DEF SumsFresh, RowsOf
  <2>2. sawRows'[q] = sawRows[q] /\ \A p \in sawRows[q] : job'[p] = job[p]
    BY <1>1, <1>3, <2>1
  <2>3. QED
    BY <2>2, SumStays
<1>4. QED
  BY <1>2, <1>3

\* What every step of r leaves alone that writes no status and drafts none.
Undrafted(r) ==
    /\ UNCHANGED status
    /\ \A q \in Requests \ {r} : draft'[q] = draft[q]
    /\ pc'[r] \notin {"summed", "written", "decided"}
    /\ \A i \in Invoices : /\ rowLock'[i] # r
                           /\ rowLock'[i] = IF rowLock[i] = r THEN None ELSE rowLock[i]

\* A request that holds no row and has not drafted can only be one of these.
LEMMA HoldsNothing ==
  ASSUME LocksFit, NEW r \in Requests, pc[r] \notin Sweeping \cup {"written"}
  PROVE  \A i \in Invoices : rowLock[i] # r
  BY DEF LocksFit

\* The steps that neither write nor draft a status.
LEMMA UndraftedSteps ==
  ASSUME Typed, LocksFit, NEW r \in Requests,
         \/ RecordPayment(r) \/ VetRefund(r) \/ VetCorrection(r) \/ StartRefresh(r)
         \/ ReadAgain(r) \/ TakeNumber(r) \/ Insert(r) \/ InsertCollides(r) \/ Abort(r)
  PROVE  Undrafted(r)
<1> USE DEF books, locks, saw, Undrafted, Ended
<1>1. draft \in [Requests -> [Invoices -> Statuses]] /\ DOMAIN pc = Requests
      /\ DOMAIN rowLock = Invoices
  BY DEF Typed, TypeOK
<1>2. ASSUME pc[r] \in {"idle", "vetted", "open", "numbered"}, UNCHANGED <<status, rowLock>>,
             \A q \in Requests \ {r} : draft'[q] = draft[q],
             pc'[r] \notin {"summed", "written", "decided"}
      PROVE  Undrafted(r)
  BY <1>2, HoldsNothing DEF Sweeping
<1>3. ASSUME NEW j, NEW next \in {"vetted", "open"}, pc[r] \in {"idle", "vetted"},
             Proceed(r, j, next), UNCHANGED <<books, locks>>
      PROVE  Undrafted(r)
  BY <1>1, <1>2, <1>3 DEF Proceed
<1>4. ASSUME pc[r] \in {"idle", "vetted"}, Refuse(r, "refused"), UNCHANGED <<books, locks>>
      PROVE  Undrafted(r)
  BY <1>1, <1>2, <1>4 DEF Refuse, Forget
<1>5. CASE StartRefresh(r)
  BY <1>1, <1>2, <1>5 DEF StartRefresh
<1>6. CASE TakeNumber(r) \/ Insert(r)
  BY <1>1, <1>2, <1>6 DEF TakeNumber, Insert, ReadyToInsert
<1>7. CASE InsertCollides(r) \/ Abort(r)
  <2>1. r # None
    BY NoneAssumption
  <2>2. QED
    BY <1>1, <1>7, <2>1 DEF InsertCollides, Abort, Refuse, Forget, Release, Free
<1> HIDE DEF Undrafted
<1>8. CASE RecordPayment(r)
  BY <1>8, <1>3, <1>4, Zenon DEF RecordPayment
<1>9. CASE VetRefund(r)
  BY <1>9, <1>3, <1>4, Zenon DEF VetRefund
<1>10. CASE VetCorrection(r)
  BY <1>10, <1>3, <1>4, Zenon DEF VetCorrection
<1>11. CASE ReadAgain(r)
  BY <1>11, <1>3, <1>4, Zenon DEF ReadAgain
<1>12. QED
  BY <1>5, <1>6, <1>7, <1>8, <1>9, <1>10, <1>11

\* They keep every badge, draft and lock in order.
LEMMA UndraftedBadge ==
  ASSUME Typed, SumsFresh, Badge, NEW r \in Requests, Unsummed(r), Undrafted(r)
  PROVE  Badge'
<1>1. /\ \A i : Total(RowsOf(i))' = Total(RowsOf(i))
      /\ \A q \in Requests \ {r} : pc[q] \in {"summed", "written"} =>
            Total(sawRows[q])' = Total(sawRows[q])
  BY TotalsStay
<1>2. \A q \in Requests \ {r} : pc'[q] = pc[q] /\ job'[q] = job[q] /\ draft'[q] = draft[q]
  BY DEF Unsummed, Undrafted
<1> USE DEF Badge, Undrafted
<1>3. BadgesFit'
  BY <1>1 DEF BadgesFit, Fits
<1>4. DraftsFit'
  BY <1>1, <1>2 DEF DraftsFit, Fits
<1>5. \A q \in Requests, i \in Invoices : rowLock'[i] = q => q # r /\ rowLock[i] = q
  BY NoneAssumption
<1>6. SweepsFit'
  BY <1>1, <1>2, <1>5 DEF SweepsFit, Fits
<1>7. LocksFit'
  BY <1>2, <1>5 DEF LocksFit
<1>8. WritersLock'
  <2> SUFFICES ASSUME NEW q \in Requests, pc'[q] = "written" PROVE rowLock'[job'[q].inv] = q
    BY DEF WritersLock
  <2>1. q # r /\ rowLock[job[q].inv] = q /\ job[q].inv \in Invoices
    BY <1>2, JobShapes DEF WritersLock, Typed, JobFits, Moving
  <2>2. QED
    BY <1>2, <2>1
<1>9. OnlyCancelled'
  BY <1>2 DEF OnlyCancelled
<1>10. QED
  BY <1>3, <1>4, <1>6, <1>7, <1>8, <1>9

\* Whoever has drafted a reconciliation locks its own invoice, whose totals stay.
LEMMA SumLedgerBadge ==
  ASSUME Typed, SumsFresh, Badge, NEW r \in Requests, SumLedger(r)
  PROVE  Badge'
<1> DEFINE i == job[r].inv
<1>1. PICK rows : rows = RowsOf(i) \cup {r}
  OBVIOUS
<1>2. /\ pc[r] = "inserted" /\ pc' = [pc EXCEPT ![r] = "summed"]
      /\ sawRows' = [sawRows EXCEPT ![r] = rows]
      /\ UNCHANGED <<job, posted, status, rowLock>>
      /\ draft' = [draft EXCEPT ![r][i] = Reconciled(r, Total(rows))]
  BY <1>1 DEF SumLedger, books, locks
<1>3. i \in Invoices /\ pc \in [Requests -> Stages] /\ DOMAIN sawRows = Requests
      /\ draft \in [Requests -> [Invoices -> Statuses]] /\ posted \subseteq Requests
  BY <1>2, JobShapes DEF Typed, TypeOK, JobFits, Moving
<1>4. \A k : Total(RowsOf(k))' = Total(RowsOf(k))
  BY <1>2, LedgerStays
<1>5. \A q \in Requests \ {r} : /\ pc'[q] = pc[q] /\ draft'[q] = draft[q]
                               /\ Total(sawRows[q])' = Total(sawRows[q])
  BY <1>2, <1>3, SumStays
<1>6. pc'[r] = "summed" /\ draft'[r][i] = Reconciled(r, Total(rows))
      /\ Total(sawRows[r])' = Total(rows)
  <2>1. sawRows'[r] = rows
    BY <1>2, <1>3
  <2>2. SumFunction([q \in sawRows'[r] |-> job'[q].delta]) = Total(rows)
    BY <2>1, <1>2, TotalStays
  <2>3. QED
    BY <2>2, <1>2, <1>3 DEF Total
<1>7. Fits(draft'[r][i], Total(sawRows[r])', i)
  BY <1>6, ReconciledFits
<1> USE DEF Badge
<1>8. BadgesFit'
  BY <1>2, <1>4 DEF BadgesFit, Fits
<1>9. DraftsFit'
  BY <1>2, <1>5, <1>7 DEF DraftsFit, Fits
<1>10. SweepsFit'
  BY <1>2, <1>4, <1>5, <1>6 DEF SweepsFit, Fits, Sweeping
<1>11. \A k \in Invoices : rowLock[k] # r
  BY <1>2, HoldsNothing DEF Sweeping
<1>12. LocksFit'
  BY <1>2, <1>5, <1>11 DEF LocksFit
<1>13. WritersLock' /\ OnlyCancelled'
  BY <1>2, <1>5, <1>6 DEF WritersLock, OnlyCancelled
<1>14. QED
  BY <1>8, <1>9, <1>10, <1>12, <1>13

\* Taking the invoice's row keeps it: nobody else holds it.
LEMMA WriteInvoiceBadge ==
  ASSUME Typed, SumsFresh, Badge, NEW r \in Requests, WriteInvoice(r)
  PROVE  Badge'
<1> DEFINE i == job[r].inv
<1>1. /\ pc[r] = "summed" /\ pc' = [pc EXCEPT ![r] = "written"]
      /\ rowLock[i] = None /\ rowLock' = [rowLock EXCEPT ![i] = r]
      /\ UNCHANGED <<job, sawRows, posted, status, draft>>
  BY DEF WriteInvoice, books, saw
<1>2. i \in Invoices /\ pc \in [Requests -> Stages] /\ DOMAIN rowLock = Invoices
  BY <1>1, JobShapes DEF Typed, TypeOK, JobFits, Moving
<1>3. /\ \A k : Total(RowsOf(k))' = Total(RowsOf(k))
      /\ \A q : Total(sawRows[q])' = Total(sawRows[q])
  BY <1>1, LedgerStays, SumStays
<1>4. \A q \in Requests \ {r} : pc'[q] = pc[q]
  BY <1>1, <1>2
<1>5. \A q \in Requests, k \in Invoices : rowLock'[k] = q =>
          (q = r /\ k = i) \/ (q # r /\ rowLock[k] = q)
  <2>1. \A k \in Invoices : rowLock[k] # r
    BY <1>1, HoldsNothing DEF Badge, Sweeping
  <2>2. \A k \in Invoices : rowLock'[k] = IF k = i THEN r ELSE rowLock[k]
    BY <1>1, <1>2
  <2>3. QED
    BY <2>1, <2>2
<1> USE DEF Badge
<1>6. BadgesFit' /\ DraftsFit' /\ OnlyCancelled'
  BY <1>1, <1>2, <1>3, <1>4 DEF BadgesFit, DraftsFit, OnlyCancelled, Fits
<1>7. SweepsFit'
  BY <1>1, <1>2, <1>3, <1>4, <1>5 DEF SweepsFit, Fits, Sweeping
<1>8. LocksFit'
  BY <1>1, <1>2, <1>4, <1>5 DEF LocksFit
<1>9. WritersLock'
  <2> SUFFICES ASSUME NEW q \in Requests, pc'[q] = "written", q # r PROVE rowLock'[job'[q].inv] = q
    BY <1>1, <1>2 DEF WritersLock
  <2>1. rowLock[job[q].inv] = q
    BY <1>4 DEF WritersLock
  <2>2. QED
    BY <1>1, <1>2, <2>1, NoneAssumption
<1>10. QED
  BY <1>6, <1>7, <1>8, <1>9

\* A commit publishes what the ledger then totals, for its invoice alone.
LEMMA CommitBadge ==
  ASSUME Typed, SumsFresh, Badge, NEW r \in Requests, Commit(r),
         \A q \in Requests : pc[q] \in {"summed", "written"} => q = r
  PROVE  Badge'
<1>0. PICK i : i = job[r].inv
  OBVIOUS
<1>1. /\ pc[r] = "written" /\ pc' = [pc EXCEPT ![r] = "done"]
      /\ posted' = posted \cup {r} /\ job' = job
      /\ status' = [k \in Invoices |-> IF rowLock[k] = r THEN draft[r][k] ELSE status[k]]
      /\ rowLock' = Free(rowLock, r) /\ draft' = [draft EXCEPT ![r] = NoDraft]
  BY DEF Commit, Publish, Release, Settle, Forget
<1>2. /\ i \in Invoices /\ pc \in [Requests -> Stages] /\ DOMAIN rowLock = Invoices
      /\ DOMAIN draft = Requests
      /\ posted \subseteq Requests /\ r # None
  BY <1>0, <1>1, JobShapes, NoneAssumption DEF Typed, TypeOK, JobFits, Moving
<1>3. \A q \in Requests \ {r} : /\ pc'[q] = pc[q] /\ draft'[q] = draft[q]
                               /\ pc'[q] \notin {"summed", "written"}
  BY <1>1, <1>2
<1>4. pc'[r] = "done"
  BY <1>1, <1>2
<1>5. \A k \in Invoices : rowLock[k] = r <=> k = i
  BY <1>0, <1>1, <1>2 DEF Badge, LocksFit, WritersLock, Sweeping
<1>6. \A k \in Invoices : rowLock'[k] = IF k = i THEN None ELSE rowLock[k]
  BY <1>1, <1>2, <1>5 DEF Free
<1>7. ASSUME NEW k \in Invoices \ {i} PROVE Total(RowsOf(k))' = Total(RowsOf(k))
  <2> DEFINE Later == {q \in posted' : job'[q].inv = k}
  <2>1. Later = RowsOf(k)
    BY <1>0, <1>1, <1>2, <1>7 DEF RowsOf
  <2>2. SumFunction([q \in Later |-> job'[q].delta]) = Total(RowsOf(k))
    BY <1>1, <2>1, TotalStays
  <2>3. QED
    BY <2>2 DEF Total, RowsOf
<1>8. Total(RowsOf(i))' = Total(sawRows[r])
  <2> DEFINE Later == {q \in posted' : job'[q].inv = i}
  <2>1. Later = sawRows[r]
    BY <1>0, <1>1, <1>2 DEF RowsOf, SumsFresh
  <2>2. SumFunction([q \in Later |-> job'[q].delta]) = Total(sawRows[r])
    BY <1>1, <2>1, TotalStays
  <2>3. QED
    BY <2>2, <1>1 DEF Total, RowsOf
<1> USE DEF Badge
<1>9. BadgesFit'
  <2>1. ASSUME NEW k \in Invoices PROVE Fits(status'[k], Total(RowsOf(k))', k)
    <3>1. CASE k = i
      <4>1. status'[k] = draft[r][i]
        BY <1>1, <1>2, <1>5, <3>1
      <4>2. Fits(draft[r][i], Total(sawRows[r]), i)
        BY <1>0, <1>1 DEF DraftsFit
      <4>3. QED
        BY <3>1, <4>1, <4>2, <1>8
    <3>2. CASE k # i
      <4>1. status'[k] = status[k]
        BY <1>1, <1>2, <1>5, <3>2
      <4>2. QED
        BY <3>2, <4>1, <1>7 DEF BadgesFit
    <3>3. QED
      BY <3>1, <3>2
  <2>2. QED
    BY <2>1 DEF BadgesFit, Fits
<1>10. DraftsFit' /\ WritersLock'
  BY <1>3, <1>4 DEF DraftsFit, WritersLock
<1>11. SweepsFit'
  <2> SUFFICES ASSUME NEW q \in Requests, NEW k \in Invoices, pc'[q] \in Sweeping, rowLock'[k] = q
               PROVE  Fits(draft'[q][k], Total(RowsOf(k))', k)
    BY DEF SweepsFit, Fits, Sweeping
  <2>1. q # r /\ k # i /\ rowLock[k] = q
    BY <1>4, <1>6, NoneAssumption DEF Sweeping
  <2>2. QED
    BY <2>1, <1>3, <1>7 DEF SweepsFit
<1>12. LocksFit'
  BY <1>1, <1>3, <1>5, <1>6, NoneAssumption DEF LocksFit
<1>13. OnlyCancelled'
  BY <1>1, <1>3, <1>4 DEF OnlyCancelled
<1>14. QED
  BY <1>9, <1>10, <1>11, <1>12, <1>13

\* A decided cancellation waits for the row and cancels.
LEMMA SetStatusBadge ==
  ASSUME Typed, SumsFresh, Badge, NEW r \in Requests, SetStatus(r)
  PROVE  Badge'
<1>1. /\ pc[r] = "decided" /\ pc' = [pc EXCEPT ![r] = "done"]
      /\ job[r].inv \in Invoices /\ rowLock[job[r].inv] = None
      /\ status' = [status EXCEPT ![job[r].inv] = "cancelled"]
      /\ draft' = [draft EXCEPT ![r] = NoDraft] /\ sawRows' = [sawRows EXCEPT ![r] = {}]
      /\ UNCHANGED <<job, posted, rowLock>>
  BY JobShapes DEF SetStatus, Settle, Forget, locks, Badge, OnlyCancelled, Typed, TypeOK, JobFits
<1>2. pc \in [Requests -> Stages] /\ DOMAIN draft = Requests /\ DOMAIN sawRows = Requests
      /\ DOMAIN status = Invoices
  BY DEF Typed, TypeOK
<1>3. /\ \A k : Total(RowsOf(k))' = Total(RowsOf(k))
      /\ \A q \in Requests \ {r} : Total(sawRows[q])' = Total(sawRows[q])
  BY <1>1, <1>2, LedgerStays, SumStays
<1>4. \A q \in Requests \ {r} : pc'[q] = pc[q] /\ draft'[q] = draft[q]
  BY <1>1, <1>2
<1>5. pc'[r] = "done" /\ \A k \in Invoices : rowLock[k] # r
  BY <1>1, <1>2, HoldsNothing DEF Badge, Sweeping
<1> USE DEF Badge
<1>6. BadgesFit'
  BY <1>1, <1>2, <1>3 DEF BadgesFit, Fits
<1>7. DraftsFit' /\ SweepsFit' /\ OnlyCancelled'
  BY <1>1, <1>3, <1>4, <1>5 DEF DraftsFit, SweepsFit, OnlyCancelled, Fits, Sweeping
<1>8. LocksFit' /\ WritersLock'
  BY <1>1, <1>4, <1>5 DEF LocksFit, WritersLock
<1>9. QED
  BY <1>6, <1>7, <1>8

\* An UPDATE of the refresh relabels unpaid invoices as unpaid and holds them.
LEMMA SweepBadge ==
  ASSUME Typed, Badge, NEW r \in Requests, NEW matched, NEW target, NEW next,
         pc[r] \in Sweeping, next \in Sweeping, target \in {"not_paid", "due_soon"},
         matched \subseteq Invoices,
         \A i \in matched : View(r, i) \in {"not_paid", "due_soon", "overdue"},
         Sweep(r, matched, target, next)
  PROVE  Badge'
<1>1. /\ \A i \in matched : rowLock[i] \in {None, r}
      /\ rowLock' = [i \in Invoices |-> IF i \in matched THEN r ELSE rowLock[i]]
      /\ draft' = [draft EXCEPT ![r] =
                      [i \in Invoices |-> IF i \in matched THEN target ELSE draft[r][i]]]
      /\ pc' = [pc EXCEPT ![r] = next]
      /\ UNCHANGED <<job, sawRows, posted, status>>
  BY DEF Sweep, books, saw
<1>2. pc \in [Requests -> Stages] /\ DOMAIN draft = Requests
  BY DEF Typed, TypeOK
<1>3. /\ \A k : Total(RowsOf(k))' = Total(RowsOf(k))
      /\ \A q : Total(sawRows[q])' = Total(sawRows[q])
  BY <1>1, LedgerStays, SumStays
<1>4. \A q \in Requests \ {r} : pc'[q] = pc[q] /\ draft'[q] = draft[q]
  BY <1>1, <1>2
<1>5. pc'[r] = next
      /\ \A i \in Invoices : draft'[r][i] = IF i \in matched THEN target ELSE draft[r][i]
  BY <1>1, <1>2
<1>6. \A i \in Invoices : rowLock'[i] = IF i \in matched THEN r ELSE rowLock[i]
  BY <1>1
<1> USE DEF Badge
<1>7. ASSUME NEW i \in matched PROVE Fits(target, Total(RowsOf(i)), i)
  <2>1. Fits(View(r, i), Total(RowsOf(i)), i)
    BY <1>7 DEF View, SweepsFit, BadgesFit
  <2>2. QED
    BY <1>7, <2>1 DEF Fits
<1>8. BadgesFit' /\ DraftsFit' /\ OnlyCancelled'
  BY <1>1, <1>3, <1>4, <1>5 DEF BadgesFit, DraftsFit, OnlyCancelled, Fits, Sweeping
<1>9. SweepsFit'
  <2> SUFFICES ASSUME NEW q \in Requests, NEW k \in Invoices, pc'[q] \in Sweeping, rowLock'[k] = q
               PROVE  Fits(draft'[q][k], Total(RowsOf(k))', k)
    BY DEF SweepsFit, Fits, Sweeping
  <2>1. CASE q = r /\ k \in matched
    BY <2>1, <1>3, <1>5, <1>7
  <2>2. CASE q = r /\ k \notin matched
    BY <2>2, <1>3, <1>5, <1>6 DEF SweepsFit
  <2>3. CASE q # r
    BY <2>3, <1>3, <1>4, <1>6 DEF SweepsFit
  <2>4. QED
    BY <2>1, <2>2, <2>3
<1>10. LocksFit'
  BY <1>1, <1>4, <1>5, <1>6 DEF LocksFit
<1>11. WritersLock'
  <2> SUFFICES ASSUME NEW q \in Requests, pc'[q] = "written" PROVE rowLock'[job'[q].inv] = q
    BY DEF WritersLock
  <2>1. q # r /\ rowLock[job[q].inv] = q /\ job[q].inv \in Invoices
    BY <1>4, <1>5, JobShapes DEF WritersLock, Typed, JobFits, Moving, Sweeping
  <2>2. QED
    BY <1>1, <1>6, <2>1, NoneAssumption
<1>12. QED
  BY <1>8, <1>9, <1>10, <1>11

\* The refresh publishes what it drafted for the rows it holds.
LEMMA CommitRefreshBadge ==
  ASSUME Typed, SumsFresh, Badge, NEW r \in Requests, CommitRefresh(r)
  PROVE  Badge'
<1>1. /\ pc[r] = "swept" /\ pc' = [pc EXCEPT ![r] = "done"]
      /\ status' = [k \in Invoices |-> IF rowLock[k] = r THEN draft[r][k] ELSE status[k]]
      /\ rowLock' = Free(rowLock, r) /\ draft' = [draft EXCEPT ![r] = NoDraft]
      /\ sawRows' = [sawRows EXCEPT ![r] = {}]
      /\ UNCHANGED <<job, posted>>
  BY DEF CommitRefresh, Publish, Release, Settle, Forget
<1>2. /\ pc \in [Requests -> Stages] /\ DOMAIN rowLock = Invoices /\ r # None
      /\ DOMAIN draft = Requests /\ DOMAIN sawRows = Requests
  BY NoneAssumption DEF Typed, TypeOK
<1>3. /\ \A k : Total(RowsOf(k))' = Total(RowsOf(k))
      /\ \A q \in Requests \ {r} : Total(sawRows[q])' = Total(sawRows[q])
  BY <1>1, <1>2, LedgerStays, SumStays
<1>4. /\ \A q \in Requests \ {r} : pc'[q] = pc[q] /\ draft'[q] = draft[q]
      /\ pc'[r] = "done"
  BY <1>1, <1>2
<1>5. \A k \in Invoices : rowLock'[k] = IF rowLock[k] = r THEN None ELSE rowLock[k]
  BY <1>1, <1>2 DEF Free
<1>6. \A q \in Requests, k \in Invoices : rowLock'[k] = q => q # r /\ rowLock[k] = q
  BY <1>5, NoneAssumption
<1> USE DEF Badge
<1>7. BadgesFit'
  <2>1. ASSUME NEW k \in Invoices PROVE Fits(status'[k], Total(RowsOf(k)), k)
    <3>1. CASE rowLock[k] = r
      BY <1>1, <3>1 DEF SweepsFit, Sweeping
    <3>2. CASE rowLock[k] # r
      BY <1>1, <3>2 DEF BadgesFit
    <3>3. QED
      BY <3>1, <3>2
  <2>2. QED
    BY <2>1, <1>3 DEF BadgesFit, Fits
<1>8. DraftsFit' /\ OnlyCancelled'
  BY <1>1, <1>3, <1>4 DEF DraftsFit, OnlyCancelled, Fits
<1>9. SweepsFit'
  BY <1>3, <1>4, <1>6 DEF SweepsFit, Fits
<1>10. LocksFit'
  BY <1>1, <1>4, <1>6 DEF LocksFit
<1>11. WritersLock'
  <2> SUFFICES ASSUME NEW q \in Requests, pc'[q] = "written" PROVE rowLock'[job'[q].inv] = q
    BY DEF WritersLock
  <2>1. q # r /\ rowLock[job[q].inv] = q /\ job[q].inv \in Invoices
    BY <1>4, JobShapes DEF WritersLock, Typed, JobFits, Moving
  <2>2. QED
    BY <1>1, <1>5, <2>1
<1>12. QED
  BY <1>7, <1>8, <1>9, <1>10, <1>11

\* A cancellation drafts "cancelled" and nothing else.
LEMMA CancelBadge ==
  ASSUME Typed, SumsFresh, Badge, NEW r \in Requests, Cancel(r), Unsummed(r)
  PROVE  Badge'
<1>1. PICK i \in Invoices : Decide(r, "cancel", i, "cancelled") \/ Refuse(r, "refused")
  BY Zenon DEF Cancel
<1>2. pc[r] = "idle" /\ UNCHANGED <<posted, status, rowLock>>
  BY DEF Cancel, books, locks
<1>3. pc \in [Requests -> Stages] /\ draft \in [Requests -> [Invoices -> Statuses]]
      /\ DOMAIN job = Requests
  BY DEF Typed, TypeOK
<1>4. \A k \in Invoices : rowLock[k] # r
  BY <1>2, HoldsNothing DEF Badge, Sweeping
<1>5. CASE Refuse(r, "refused")
  <2>1. Undrafted(r)
    BY <1>2, <1>3, <1>4, <1>5 DEF Refuse, Forget, Undrafted
  <2>2. QED
    BY <2>1, UndraftedBadge
<1>6. CASE Decide(r, "cancel", i, "cancelled")
  <2>1. /\ \A q \in Requests \ {r} : pc'[q] = pc[q] /\ draft'[q] = draft[q] /\ job'[q] = job[q]
        /\ pc'[r] = "decided" /\ job'[r].inv = i /\ draft'[r][i] = "cancelled"
    BY <1>3, <1>6 DEF Decide
  <2>2. /\ \A k : Total(RowsOf(k))' = Total(RowsOf(k))
        /\ \A q \in Requests \ {r} : pc[q] \in {"summed", "written"} =>
              Total(sawRows[q])' = Total(sawRows[q])
    BY TotalsStay
  <2> USE DEF Badge
  <2>3. BadgesFit' /\ SweepsFit'
    BY <1>2, <1>4, <2>1, <2>2 DEF BadgesFit, SweepsFit, Fits
  <2>4. DraftsFit'
    BY <2>1, <2>2 DEF DraftsFit, Fits
  <2>5. LocksFit' /\ WritersLock' /\ OnlyCancelled'
    BY <1>2, <1>4, <2>1 DEF LocksFit, WritersLock, OnlyCancelled
  <2>6. QED
    BY <2>3, <2>4, <2>5
<1>7. QED
  BY <1>1, <1>5, <1>6

\* Where no endpoint reopens an invoice or sets its status by hand, a badge
\* never lies: with receipts from one counter, every invoice that was not
\* cancelled shows settled, partly settled or unpaid exactly as its ledger
\* totals, whatever movements, cancellations, refreshes and failures interleave.
THEOREM SerialBadges ==
  ASSUME OneCounter, NoOverride PROVE Spec => []StatusMatchesTotal
<1>1. Init => Badge
  <2> SUFFICES ASSUME Init PROVE Badge
    OBVIOUS
  <2>1. \A i \in Invoices : RowsOf(i) = {} /\ status[i] \in {"not_paid", "overdue"}
    BY DEF Init, RowsOf
  <2>2. BadgesFit
    BY <2>1, EmptyTotal, DueAssumption DEF BadgesFit, Fits
  <2>3. QED
    BY <2>2, NoneAssumption DEF Init, Badge, DraftsFit, SweepsFit, LocksFit, WritersLock,
                                OnlyCancelled, Sweeping
<1>2. Typed /\ Held /\ AllReceipted /\ Sums /\ Badge /\ [Next]_vars => Badge'
  <2> SUFFICES ASSUME Typed, Held, AllReceipted, SumsFresh, Badge, [Next]_vars PROVE Badge'
    BY DEF Sums
  <2>1. ASSUME NEW r \in Requests, Commit(r) PROVE Badge'
    <3>1. \A q \in Requests : pc[q] \in {"summed", "written"} => q = r
      BY <2>1, OneAtATime
    <3>2. QED
      BY <2>1, <3>1, CommitBadge
  <2>2. ASSUME NEW r \in Requests, SumLedger(r) \/ WriteInvoice(r) \/ SetStatus(r) \/ CommitRefresh(r)
        PROVE  Badge'
    BY <2>2, SumLedgerBadge, WriteInvoiceBadge, SetStatusBadge, CommitRefreshBadge
  <2>3. ASSUME NEW r \in Requests, ExpireSoon(r) \/ MarkSoon(r) \/ UnwindOverdue(r)
        PROVE  Badge'
    <3>1. PICK matched, target, next :
             /\ pc[r] \in Sweeping /\ next \in Sweeping /\ target \in {"not_paid", "due_soon"}
             /\ matched \subseteq Invoices
             /\ \A i \in matched : View(r, i) \in {"not_paid", "due_soon", "overdue"}
             /\ Sweep(r, matched, target, next)
      <4>1. CASE ExpireSoon(r)
        <5> DEFINE m == {i \in Invoices : View(r, i) = "due_soon" /\ asOf[r][i] = "past"}
        <5>1. Sweep(r, m, "not_paid", "sweep2") /\ pc[r] = "sweep1"
          BY <4>1 DEF ExpireSoon
        <5>2. m \subseteq Invoices /\ \A i \in m : View(r, i) \in {"not_paid", "due_soon", "overdue"}
          OBVIOUS
        <5> HIDE DEF m
        <5>3. QED
          BY <5>1, <5>2 DEF Sweeping
      <4>2. CASE MarkSoon(r)
        <5> DEFINE m == {i \in Invoices : View(r, i) = "not_paid" /\ asOf[r][i] = "soon"}
        <5>1. Sweep(r, m, "due_soon", "sweep3") /\ pc[r] = "sweep2"
          BY <4>2 DEF MarkSoon
        <5>2. m \subseteq Invoices /\ \A i \in m : View(r, i) \in {"not_paid", "due_soon", "overdue"}
          OBVIOUS
        <5> HIDE DEF m
        <5>3. QED
          BY <5>1, <5>2 DEF Sweeping
      <4>3. CASE UnwindOverdue(r)
        <5> DEFINE m == {i \in Invoices : View(r, i) = "overdue"}
        <5>1. Sweep(r, m, "not_paid", "swept") /\ pc[r] = "sweep3"
          BY <4>3 DEF UnwindOverdue
        <5>2. m \subseteq Invoices /\ \A i \in m : View(r, i) \in {"not_paid", "due_soon", "overdue"}
          OBVIOUS
        <5> HIDE DEF m
        <5>3. QED
          BY <5>1, <5>2 DEF Sweeping
      <4>4. QED
        BY <2>3, <4>1, <4>2, <4>3
    <3>2. QED
      BY <3>1, SweepBadge
  <2>4. ASSUME NEW r \in Requests,
               \/ RecordPayment(r) \/ VetRefund(r) \/ VetCorrection(r) \/ StartRefresh(r)
               \/ ReadAgain(r) \/ TakeNumber(r) \/ Insert(r) \/ InsertCollides(r) \/ Abort(r),
               ~Commit(r), ~SumLedger(r)
        PROVE  Badge'
    <3>1. Unsummed(r)
      BY <2>4, UnsummedSteps DEF Arrive, Advance
    <3>2. Undrafted(r)
      BY <2>4, UndraftedSteps DEF Badge
    <3>3. QED
      BY <3>1, <3>2, UndraftedBadge
  <2>5. ASSUME NEW r \in Requests, Cancel(r), ~Commit(r), ~SumLedger(r) PROVE Badge'
    <3>1. Unsummed(r)
      BY <2>5, UnsummedSteps DEF Arrive
    <3>2. QED
      BY <2>5, <3>1, CancelBadge
  <2>6. ASSUME NEW r \in Requests PROVE ~Reopen(r) /\ ~UpdateStatus(r)
    BY DEF NoOverride, Reopen, UpdateStatus
  <2>7. ASSUME UNCHANGED <<pc, job, sawRows, draft, posted, status, rowLock>> PROVE Badge'
    <3>1. /\ \A k : Total(RowsOf(k))' = Total(RowsOf(k))
          /\ \A q : Total(sawRows[q])' = Total(sawRows[q])
      BY <2>7, LedgerStays, SumStays
    <3>2. BadgesFit' /\ DraftsFit' /\ SweepsFit'
      BY <2>7, <3>1 DEF Badge, BadgesFit, DraftsFit, SweepsFit, Fits
    <3>3. LocksFit' /\ WritersLock' /\ OnlyCancelled'
      BY <2>7 DEF Badge, LocksFit, WritersLock, OnlyCancelled
    <3>4. QED
      BY <3>2, <3>3 DEF Badge
  <2>8. QED
    BY <2>1, <2>2, <2>3, <2>4, <2>5, <2>6, <2>7
       DEF Next, Arrive, Advance, Closed, PassDays, vars, books, saw, locks
<1>3. Badge => StatusMatchesTotal
  BY DEF Badge, BadgesFit, Fits, StatusMatchesTotal
<1>4. Numbering => Held
  BY DEF Numbering
<1>5. QED
  BY <1>1, <1>2, <1>3, <1>4, Typing, NumberingInvariant, AllReceiptedInvariant, SumsInvariant, PTL DEF Spec
=============================================================================
