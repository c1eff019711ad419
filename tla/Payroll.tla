------------------------------- MODULE Payroll -------------------------------
(***************************************************************************)
(* What professors earn in a month and what they are handed                *)
(* (financial/payroll.service.ts, payroll-document.service.ts,             *)
(* revenue-calculation.service.ts, financial-settings.service.ts).         *)
(*                                                                         *)
(* A payout is checked outside its transaction, and the transaction, which *)
(* holds a database connection and the lock of a receipt counter, asks the *)
(* pool for a second one to price the month.  The pool is bounded          *)
(* (db/db.service.ts); who waits too long for a connection gives up.       *)
(*                                                                         *)
(* One element of Requests is one HTTP request and, when it pays a         *)
(* professor, the payroll_payments row it inserts.  Everything is about    *)
(* one month and one calendar year: the numbering scopes are two, payroll  *)
(* and settlement.  Amounts are in the smallest unit of money.             *)
(***************************************************************************)
EXTENDS Integers, FiniteSets, Functions

CONSTANTS
    Requests, Profs,
    Connections,    \* the pool's `max`
    Rules,          \* arrangements an administrator may enter
    AtFirst,        \* the academy's default arrangement
    Earnings,       \* what has been collected for each professor when we start
    Receipts,       \* signed amounts of a collection
    Payments,       \* amounts a payout may name
    Seats,          \* what a roster may look like: [groups, students]
    Operations,     \* the endpoints in use
    None

AllOperations == {"payout", "reprint", "amend", "remove", "rule", "drop", "settings", "collect", "roster"}
Models == {"percentage", "fixed_salary", "fixed_per_student", "fixed_per_group", "hybrid", "custom"}
Rule == [model : Models, percentage : 0..100 \cup {None}, fixed : Nat \cup {None}]

PayoutRow == [prof : Profs, amount : Payments, number : Nat \ {0}]
Paper == [of : Requests, no : Nat \ {0}, counted : SUBSET Requests, earned : Int]

ASSUME PoolAssumption == IsFiniteSet(Requests) /\ Connections \in Nat \ {0}
ASSUME RulesAssumption == Rules \subseteq Rule /\ AtFirst \in Rule /\ AtFirst.percentage # None
ASSUME AmountsAssumption == Payments \subseteq Nat \ {0} /\ Receipts \subseteq Int \ {0} /\ Earnings \in [Profs -> Nat]
ASSUME SeatsAssumption == Seats \subseteq [groups : Nat, students : Nat] /\ Seats # {}
ASSUME OperationsAssumption == Operations \subseteq AllOperations
ASSUME NoneAssumption == None \notin Int \cup PayoutRow

VARIABLES
    pc, job,      \* where each request is, and what it asks
    settings,     \* financial_settings: the default arrangement
    cached,       \* FinancialSettingsService.cached
    override,     \* professor_compensations of each professor, or None
    takings,      \* payment_transactions of the month: [net, share] of each professor
    roster,       \* active groups and enrolments of each professor
    payout,       \* payroll_payments: [prof, amount, number] of a request, or None
    papers,       \* payroll_documents, in pairs: [of, no, counted, earned]
    counter,      \* receipt_counters of the two scopes
    draft,        \* what a request has read or taken and not committed
    outdated      \* requests whose reads somebody has written over since (history)

books == <<override, takings, roster, payout, papers, counter>>
academy == <<settings, cached>>
vars == <<pc, job, academy, books, draft, outdated>>

NoJob == [op |-> "none", on |-> None]
NoDraft == [rule |-> None, number |-> 0, no |-> 0, counted |-> {}, earned |-> 0]
Ended == {"done", "refused", "failed"}

(***************************************************************************)
(* The revenue engine: money.util.ts and revenue-calculation.service.ts    *)
(***************************************************************************)
\* percentOf: half away from zero.
PercentOf(amount, pct) ==
    IF amount >= 0 THEN (amount * pct + 50) \div 100 ELSE -((-amount * pct + 50) \div 100)

\* clamp: a share stays inside the amount it is a share of.
Clamp(share, amount) ==
    IF amount < 0 THEN (IF share > 0 THEN 0 ELSE IF share < amount THEN amount ELSE share)
    ELSE (IF share < 0 THEN 0 ELSE IF share > amount THEN amount ELSE share)

\* ruleFor: an override that leaves a field blank inherits the default's.
Or(value, fallback) == IF value = None THEN fallback ELSE value
RuleFor(p) ==
    LET own == override[p]
        row == IF own = None THEN cached ELSE own
    IN  [model |-> row.model, percentage |-> Or(row.percentage, cached.percentage),
         fixed |-> Or(row.fixed, cached.fixed), isOverride |-> own # None]

Fixed(rule) == Or(rule.fixed, 0)

\* splitTransaction: the professor's part of one collection, kept on its row.  A
\* formula may be anything: this one is the example of the API.  The default has none.
ShareOf(rule, amount) ==
    CASE rule.model \in {"percentage", "hybrid"} -> Clamp(PercentOf(amount, rule.percentage), amount)
      [] rule.model = "custom" /\ rule.isOverride ->
            Clamp(PercentOf(amount, rule.percentage) + Fixed(rule), amount)
      [] OTHER -> 0

\* fromCollectionsFor: live for a percentage, as it was kept for a formula.
FromCollections(rule, took) ==
    CASE rule.model \in {"percentage", "hybrid"} -> Clamp(PercentOf(took.net, rule.percentage), took.net)
      [] rule.model = "custom" -> took.share
      [] OTHER -> 0

FixedComponent(rule, seats) ==
    CASE rule.model \in {"fixed_salary", "hybrid"} -> Fixed(rule)
      [] rule.model = "fixed_per_student" -> Fixed(rule) * seats.students
      [] rule.model = "fixed_per_group" -> Fixed(rule) * seats.groups
      [] OTHER -> 0

\* periodEntitlement
Earned(p) == FromCollections(RuleFor(p), takings[p]) + FixedComponent(RuleFor(p), roster[p])

PayoutsOf(p) == {q \in Requests : payout[q] # None /\ payout[q].prof = p}
PaidTo(p) == SumFunction([q \in PayoutsOf(p) |-> payout[q].amount])

\* (mutant) what was handed over already is not deducted
Outstanding_Gross(p) == Earned(p)
Outstanding(p) == Earned(p) - PaidTo(p)

Init ==
    /\ pc = [r \in Requests |-> "new"]
    /\ job = [r \in Requests |-> NoJob]
    /\ settings = AtFirst /\ cached = AtFirst
    /\ override = [p \in Profs |-> None]
    /\ takings = [p \in Profs |-> [net |-> Earnings[p], share |-> ShareOf(RuleFor(p), Earnings[p])]]
    /\ roster \in [Profs -> Seats]
    /\ payout = [r \in Requests |-> None]
    /\ papers = {}
    /\ counter = [payroll |-> 0, settlement |-> 0]
    /\ draft = [r \in Requests |-> NoDraft]
    /\ outdated = {}

(***************************************************************************)
(* Connections and locks                                                   *)
(***************************************************************************)
\* From BEGIN to COMMIT a request keeps a connection; a counter's row, from the
\* upsert that increments it.
Transacting == {"begun", "numbered", "counted", "priced", "settled"}
InUse == {r \in Requests : pc[r] \in Transacting}
ConnectionFree_OneMore == Cardinality(InUse) <= Connections
ConnectionFree == Cardinality(InUse) < Connections

Numbered(r) == job[r].op = "payout" /\ pc[r] \in {"numbered", "counted", "priced", "settled"}
\* (mutant) the row is read before it is incremented, outside the transaction
PayrollLocked_Never == FALSE
PayrollLocked == \E r \in InUse : Numbered(r)
SettlementLocked == \E r \in InUse : pc[r] = "settled"

To(r, s) == pc' = [pc EXCEPT ![r] = s]
Outdate(r) == outdated' = outdated \cup (Requests \ {r})

\* A request starts with a read, on a connection of its own for as long as it takes.
Asks(r, op, ask) ==
    /\ pc[r] = "new" /\ op \in Operations /\ ConnectionFree
    /\ job' = [job EXCEPT ![r] = [op |-> op, on |-> ask]]

Refuse(r) == To(r, "refused") /\ UNCHANGED <<academy, books, draft, outdated>>
Proceed(r) == To(r, "vetted") /\ UNCHANGED <<academy, books, draft, outdated>>
Follows(r, op, at) == pc[r] = at /\ job[r].op = op /\ UNCHANGED job

(***************************************************************************)
(* recordPayment and regenerate                                            *)
(***************************************************************************)
\* Paying more than is owed is refused.  The reads of the check are one step: a
\* write that came between them overtook it as one that came after.
VetPayout(r) ==
    \E p \in Profs, a \in Payments :
        /\ Asks(r, "payout", [prof |-> p, amount |-> a, of |-> r])
        /\ To(r, IF a <= Outstanding(p) THEN "vetted" ELSE "refused")
        /\ outdated' = outdated \ {r}
        /\ UNCHANGED <<academy, books, draft>>

\* Whether the payout exists is looked up here and not looked at.
AskReprint(r) == \E q \in Requests : Asks(r, "reprint", [of |-> q]) /\ Proceed(r)

Minting(r) == job[r].op \in {"payout", "reprint"} /\ UNCHANGED job

Begin(r) ==
    /\ pc[r] = "vetted" /\ Minting(r) /\ ConnectionFree
    /\ To(r, "begun") /\ UNCHANGED <<academy, books, draft, outdated>>

\* The next payroll number, and the payout's row, which nobody sees yet.
TakeReceipt(r) ==
    /\ pc[r] = "begun" /\ job[r].op = "payout" /\ UNCHANGED job
    /\ ~PayrollLocked
    /\ To(r, "numbered")
    /\ draft' = [draft EXCEPT ![r].number = counter.payroll + 1]
    /\ UNCHANGED <<academy, books, outdated>>

GiveUp(r) ==
    /\ To(r, "failed")
    /\ draft' = [draft EXCEPT ![r] = NoDraft]
    /\ UNCHANGED <<academy, books, outdated>>

\* What a statement of this transaction sees of the month's payouts: its own too.
\* (mutant) read on a connection of the pool instead
Visible_Committed(r, p) == PayoutsOf(p)
Visible(r, p) == PayoutsOf(p) \cup (IF job[r].op = "payout" THEN {r} ELSE {})

\* settlementForPeriod, on the transaction's own connection: the month's payouts ...
CountPaid(r) ==
    /\ Minting(r)
    /\ \/ /\ pc[r] = "numbered" /\ job[r].op = "payout" /\ To(r, "counted")
          /\ draft' = [draft EXCEPT ![r].counted = Visible(r, job[r].on.prof)]
          /\ UNCHANGED <<academy, books, outdated>>
       \/ /\ pc[r] = "begun" /\ job[r].op = "reprint"
          /\ IF payout[job[r].on.of] = None THEN GiveUp(r)
             ELSE /\ To(r, "counted")
                  /\ draft' = [draft EXCEPT ![r].counted = Visible(r, payout[job[r].on.of].prof)]
                  /\ UNCHANGED <<academy, books, outdated>>

\* ... and, on another connection of the pool, what the professor has earned.
ProfOf(r) == IF job[r].op = "payout" THEN job[r].on.prof ELSE payout[job[r].on.of].prof
Price(r) ==
    /\ pc[r] = "counted" /\ Minting(r) /\ ConnectionFree
    /\ IF job[r].op = "reprint" /\ payout[job[r].on.of] = None THEN GiveUp(r)
       ELSE /\ To(r, "priced")
            /\ draft' = [draft EXCEPT ![r].earned = Earned(ProfOf(r))]
            /\ UNCHANGED <<academy, books, outdated>>

TakeSettlement(r) ==
    /\ pc[r] = "priced" /\ Minting(r)
    /\ ~SettlementLocked
    /\ To(r, "settled")
    /\ draft' = [draft EXCEPT ![r].no = counter.settlement + 1]
    /\ UNCHANGED <<academy, books, outdated>>

\* Both papers are inserted, with a foreign key to the payout, and committed.  The
\* audit row before it asks the pool once more; it may be lost and delays at most.
Commit(r) ==
    LET paid == job[r].op = "payout" IN
    /\ pc[r] = "settled" /\ Minting(r)
    /\ IF ~paid /\ payout[job[r].on.of] = None THEN GiveUp(r)
       ELSE /\ To(r, "done")
            /\ payout' = IF paid THEN [payout EXCEPT ![r] =
                              [prof |-> job[r].on.prof, amount |-> job[r].on.amount, number |-> draft[r].number]]
                         ELSE payout
            /\ papers' = papers \cup {[of |-> job[r].on.of, no |-> draft[r].no,
                                       counted |-> draft[r].counted, earned |-> draft[r].earned]}
            /\ counter' = [payroll |-> IF paid THEN draft[r].number ELSE counter.payroll,
                           settlement |-> draft[r].no]
            /\ draft' = [draft EXCEPT ![r] = NoDraft]
            /\ IF paid THEN Outdate(r) ELSE UNCHANGED outdated
            /\ UNCHANGED <<academy, override, takings, roster>>

\* The transaction fails for a reason of its own and rolls back.
Abort(r) == pc[r] \in Transacting /\ UNCHANGED job /\ GiveUp(r)

\* connectionTimeoutMillis: no connection became free.
NeedsConnection(r) == pc[r] = "counted" \/ (pc[r] = "vetted" /\ job[r].op # "settings")
Starve_Never(r) == FALSE /\ UNCHANGED vars
Starve(r) == NeedsConnection(r) /\ ~ConnectionFree /\ UNCHANGED job /\ GiveUp(r)

(***************************************************************************)
(* updatePayment and removePayment                                         *)
(***************************************************************************)
Vet(r, op, ask, q) == Asks(r, op, ask) /\ IF payout[q] = None THEN Refuse(r) ELSE Proceed(r)

AskAmend(r) == \E q \in Requests, a \in Payments : Vet(r, "amend", [of |-> q, amount |-> a], q)
AskRemove(r) == \E q \in Requests : Vet(r, "remove", [of |-> q], q)

\* The new amount is compared with nothing; the papers keep the old one.
Amend(r) ==
    LET q == job[r].on.of IN
    /\ Follows(r, "amend", "vetted") /\ ConnectionFree
    /\ IF payout[q] = None THEN Refuse(r)
       ELSE /\ To(r, "done") /\ Outdate(r)
            /\ payout' = [payout EXCEPT ![q].amount = job[r].on.amount]
            /\ UNCHANGED <<academy, override, takings, roster, papers, counter, draft>>

\* The papers go with their payout; a number that was given out stays given out.
Remove(r) ==
    LET q == job[r].on.of IN
    /\ Follows(r, "remove", "vetted") /\ ConnectionFree
    /\ To(r, "done") /\ Outdate(r)
    /\ payout' = [payout EXCEPT ![q] = None]
    /\ papers' = {d \in papers : d.of # q}
    /\ UNCHANGED <<academy, override, takings, roster, counter, draft>>

(***************************************************************************)
(* Arrangements: upsertCompensation, removeCompensation, update            *)
(***************************************************************************)
\* A salary, a rate per head or a hybrid needs its amount.
Valid(rule) == rule.model \in {"percentage", "custom"} \/ rule.fixed # None

AskRule(r) ==
    \E p \in Profs, new \in Rules : \E absent \in SUBSET {f \in {"percentage", "fixed"} : new[f] = None} :
        /\ Asks(r, "rule", [prof |-> p, rule |-> new, absent |-> absent, known |-> override[p] # None])
        /\ IF Valid(new) THEN Proceed(r) ELSE Refuse(r)

\* Updated where a row was found, inserted where none was: a row that has gone, or
\* come, since then fails it.  A field the request leaves out stays as it is.
SetRule(r) ==
    LET ask == job[r].on
        old == IF ask.known THEN override[ask.prof] ELSE ask.rule
    IN
    /\ Follows(r, "rule", "vetted") /\ ConnectionFree
    /\ IF ask.known # (override[ask.prof] # None) THEN Refuse(r)
       ELSE /\ To(r, "done") /\ Outdate(r)
            /\ override' = [override EXCEPT ![ask.prof] =
                   [ask.rule EXCEPT !.percentage = IF "percentage" \in ask.absent THEN old.percentage ELSE @,
                                    !.fixed = IF "fixed" \in ask.absent THEN old.fixed ELSE @]]
            /\ UNCHANGED <<academy, takings, roster, payout, papers, counter, draft>>

AskDrop(r) ==
    \E p \in Profs : Asks(r, "drop", [prof |-> p]) /\ IF override[p] = None THEN Refuse(r) ELSE Proceed(r)
DropRule(r) ==
    /\ Follows(r, "drop", "vetted") /\ ConnectionFree
    /\ To(r, "done") /\ Outdate(r)
    /\ override' = [override EXCEPT ![job[r].on.prof] = None]
    /\ UNCHANGED <<academy, takings, roster, payout, papers, counter, draft>>

\* The settings row is written in one statement, and what that returns replaces
\* the cached row when the answer has arrived.
UpdateSettings(r) ==
    \E new \in Rules :
        /\ new.percentage # None
        /\ Asks(r, "settings", new)
        /\ settings' = new
        /\ draft' = [draft EXCEPT ![r].rule = new]
        /\ To(r, "vetted")
        /\ UNCHANGED <<cached, books, outdated>>

CacheSettings(r) ==
    /\ Follows(r, "settings", "vetted")
    /\ cached' = draft[r].rule
    /\ draft' = [draft EXCEPT ![r] = NoDraft]
    /\ To(r, "done") /\ Outdate(r)
    /\ UNCHANGED <<settings, books>>

(***************************************************************************)
(* What other parts write: a collection (PaymentLedger), split by the rule *)
(* in force before its transaction, and a professor's roster (School)      *)
(***************************************************************************)
Collect(r) ==
    \E p \in Profs, a \in Receipts :
        /\ Asks(r, "collect", [prof |-> p, amount |-> a])
        /\ takings[p].net + a >= 0
        /\ draft' = [draft EXCEPT ![r].earned = ShareOf(RuleFor(p), a)]
        /\ To(r, "vetted")
        /\ UNCHANGED <<academy, books, outdated>>
Post(r) ==
    LET ask == job[r].on IN
    /\ Follows(r, "collect", "vetted") /\ ConnectionFree
    /\ takings' = [takings EXCEPT ![ask.prof] =
                      [net |-> @.net + ask.amount, share |-> @.share + draft[r].earned]]
    /\ draft' = [draft EXCEPT ![r] = NoDraft]
    /\ To(r, "done") /\ Outdate(r)
    /\ UNCHANGED <<academy, override, roster, payout, papers, counter>>

Reseat(r) ==
    \E p \in Profs, seats \in Seats :
        /\ Asks(r, "roster", [prof |-> p])
        /\ roster' = [roster EXCEPT ![p] = seats]
        /\ To(r, "done") /\ Outdate(r)
        /\ UNCHANGED <<academy, override, takings, payout, papers, counter, draft>>

Start(r) ==
    \/ VetPayout(r) \/ AskReprint(r) \/ AskAmend(r) \/ AskRemove(r) \/ AskRule(r) \/ AskDrop(r)
    \/ UpdateSettings(r) \/ Collect(r) \/ Reseat(r)

Step(r) ==
    \/ Begin(r) \/ TakeReceipt(r) \/ CountPaid(r) \/ Price(r) \/ TakeSettlement(r) \/ Commit(r)
    \/ Starve(r) \/ Amend(r) \/ Remove(r) \/ SetRule(r) \/ DropRule(r) \/ CacheSettings(r) \/ Post(r)

Closed == (\A r \in Requests : pc[r] \in Ended) /\ UNCHANGED vars

Next == (\E r \in Requests : Start(r) \/ Step(r) \/ Abort(r)) \/ Closed

Spec == Init /\ [][Next]_vars

\* Node resumes a handler whose query was answered, the server grants a lock that
\* is free, and the pool's timer runs.
FairSpec == Spec /\ \A r \in Requests : WF_vars(Step(r))

(***************************************************************************)
(* Properties                                                              *)
(***************************************************************************)
Stages == {"new", "vetted"} \cup Transacting \cup Ended

TypeOK ==
    /\ pc \in [Requests -> Stages]
    /\ settings \in Rule /\ cached \in Rule
    /\ override \in [Profs -> Rule \cup {None}]
    /\ takings \in [Profs -> [net : Int, share : Int]]
    /\ roster \in [Profs -> Seats]
    /\ payout \in [Requests -> PayoutRow \cup {None}]
    /\ papers \subseteq Paper
    /\ counter \in [payroll : Nat, settlement : Nat]
    /\ Cardinality(InUse) <= Connections

\* A receipt number names one payout and a settlement number one pair of papers,
\* although payouts and reprints are numbered by concurrent transactions that may
\* roll back ("the value returned is this caller's alone", receipt-number.service.ts:47).
NumbersOnce ==
    /\ \A q, s \in Requests :
          payout[q] # None /\ payout[s] # None /\ payout[q].number = payout[s].number => q = s
    /\ \A d, e \in papers : d.no = e.no => d = e

\* The papers of a payout say what the professor had been paid by then.  Nothing
\* but the counter's lock, taken before the payouts are summed, keeps a second
\* payout from being summed without the first: every payout with a smaller number
\* that is still on record was counted.
EarlierIsCounted ==
    \A d \in papers, q \in Requests :
        /\ payout[q] # None /\ payout[d.of] # None
        /\ payout[q].prof = payout[d.of].prof /\ payout[q].number <= payout[d.of].number
        => q \in d.counted

\* "Overpayment is refused" (payroll.service.ts:437): a payout that nobody overtook
\* leaves the professor with no more than the month is worth, whatever arrangement
\* is in force.
PaidWithinEarned ==
    [][\A r \in Requests :
          pc[r] = "settled" /\ pc'[r] = "done" /\ job[r].op = "payout" /\ r \notin outdated =>
              (PaidTo(job[r].on.prof) <= Earned(job[r].on.prof))']_vars

\* A payout that holds a connection and a counter while it waits for a second
\* connection does not bring the school to a stop: every request ends.
EveryRequestEnds == \A r \in Requests : pc[r] # "new" ~> pc[r] \in Ended
=============================================================================
