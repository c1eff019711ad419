-------------------------------- MODULE School --------------------------------
(***************************************************************************)
(* The school's records: levels, their fields, the fields' professors,     *)
(* the professors' groups, the students enrolled in groups, and the        *)
(* invoices and ledger rows that hang off an enrolment (levels/, fields/,  *)
(* professors/, groups/, students/, hierarchy/, imports/ and the invoice   *)
(* generation of financial/payment.service.ts).                            *)
(*                                                                         *)
(* A request is one HTTP call.  A handler that reads and then writes takes *)
(* a step for each; the long transactions of the hierarchy take one for    *)
(* every SELECT, which sees what others have committed by then.  What a    *)
(* transaction writes is seen when it commits; it commits whole, or a      *)
(* foreign key takes it back.  A level, field, professor or group is a     *)
(* node; the database names a new row, so rows are drawn from a pool.      *)
(* Money is counted in instalments: a ledger row is one of them.           *)
(***************************************************************************)
EXTENDS Integers, FiniteSets, FiniteSetsExt

CONSTANTS
    Callers,
    Levels, Fields, Profs, Groups, Students,   \* row ids, used and unused
    None,
    Names,                  \* what an import matches by; includes None, any other name
    Taught,                 \* <<group, professor>> of the timetable's rules
    NodesAtFirst, StudentsAtFirst, InvoicesAtFirst, LedgerAtFirst,
    Now, Horizon,           \* this month; bound on months
    MaxBackfill,            \* MAX_BACKFILL_MONTHS
    Fees, MonthlyFee,       \* what a month may cost; students.monthly_fee
    Offers,                 \* the fees a request names
    Ahead,                  \* months a renewal may bill in advance
    Rosters,                \* rows a workbook may hold: <<level, field, prof, group, student>>
    Ops                     \* the endpoints in use

Nodes == Levels \cup Fields \cup Profs \cup Groups
Months == 0..Horizon
Bills == Students \X Groups \X Months

ASSUME MonthsAssumption == Now \in Months /\ Ahead \subseteq Nat /\ MaxBackfill \in Nat
ASSUME RowsAssumption ==
    /\ None \notin Nodes \cup Students /\ None \in Names
    /\ MonthlyFee \in Fees /\ Offers \subseteq Fees
    /\ \A x \in Rosters : \A i \in 1..5 : x[i] \in Names
\* One table for each kind of row; ids never run out altogether.
ASSUME TablesAssumption ==
    /\ Levels \cap (Fields \cup Profs \cup Groups) = {} /\ Fields \cap (Profs \cup Groups) = {}
    /\ Profs \cap Groups = {} /\ Students \cap Nodes = {}
    /\ {} \notin {Levels, Fields, Profs, Groups, Students}

VARIABLES
    node,      \* levels, fields, professors, groups: [up, active, pen, name] or None
    pupil,     \* students and student_assignments: [home, since, status, pen, name, fees] or None
    invoice,   \* student_payments: [due, paid] or None
    ledger,    \* payment_transactions: [bill, nth, prof]
    stage,     \* where each request is
    job,       \* what it asks
    plan,      \* what it has read
    stale      \* requests whose reads somebody has written over since (history)

records == <<node, pupil, invoice, ledger>>
vars == <<records, stage, job, plan, stale>>

\* `pen` is is_system_placeholder: the parking place of detached children.
NodeRow == [up : Nodes \cup {None}, active : BOOLEAN, pen : BOOLEAN, name : Names]
PupilRow ==
    [home : Groups, since : Months, status : {"active", "withdrawn"}, pen : BOOLEAN, name : Names,
     fees : UNION {[gs -> Fees \cup {0}] : gs \in SUBSET Groups}]
BillRow == [due : Fees \cup {0}, paid : Nat]

\* A row is a row.
ASSUME NullAssumption == None \notin NodeRow \cup PupilRow \cup BillRow

\* The database the program starts from obeys its foreign keys.
ASSUME FirstAssumption ==
    /\ \A n \in Nodes \cap DOMAIN NodesAtFirst :
        /\ NodesAtFirst[n] \in NodeRow \ {None}
        /\ NodesAtFirst[n].up \in CASE n \in Levels -> {None}
                                    [] n \in Fields -> Levels \cap DOMAIN NodesAtFirst
                                    [] n \in Profs -> Fields \cap DOMAIN NodesAtFirst
                                    [] OTHER -> Profs \cap DOMAIN NodesAtFirst
    /\ \A s \in Students \cap DOMAIN StudentsAtFirst :
        /\ StudentsAtFirst[s] \in PupilRow /\ StudentsAtFirst[s].home \in DOMAIN NodesAtFirst
        /\ StudentsAtFirst[s].pen \/ StudentsAtFirst[s].home \in DOMAIN StudentsAtFirst[s].fees
        /\ DOMAIN StudentsAtFirst[s].fees \subseteq DOMAIN NodesAtFirst
    /\ \A b \in Bills \cap DOMAIN InvoicesAtFirst :
        InvoicesAtFirst[b] \in BillRow \ {None} /\ b[2] \in DOMAIN NodesAtFirst
    /\ LedgerAtFirst \subseteq [bill : Bills \cap DOMAIN InvoicesAtFirst, nth : Nat,
                                prof : (Profs \cap DOMAIN NodesAtFirst) \cup {None}]

(***************************************************************************)
(* Reading the tree                                                        *)
(***************************************************************************)
There(n) == node[n] # None
Active(n) == There(n) /\ node[n].active
Kids(n) == {c \in Nodes : There(c) /\ node[c].up = n}
Enrolled(gs) == {s \in Students : pupil[s] # None /\ DOMAIN pupil[s].fees \cap gs # {}}
Homed(gs) == {s \in Students : pupil[s] # None /\ pupil[s].home \in gs}

\* deleteImpact: the layer below, without the parking places.
DirectKids(n) ==
    IF n \in Groups THEN {s \in Enrolled({n}) : ~pupil[s].pen}
    ELSE {c \in Kids(n) : ~node[c].pen}

Kind(n) == CHOOSE k \in {Levels, Fields, Profs, Groups} : n \in k
KidKind(kind) == CASE kind = Levels -> Fields [] kind = Fields -> Profs
                   [] kind = Profs -> Groups [] OTHER -> Students

\* An id is never used twice (bound: rows there at first are not replaced).
Fresh(kind) == {n \in kind : ~There(n) /\ n \notin DOMAIN NodesAtFirst}
Row(up, pen, name) == [up |-> up, active |-> ~pen, pen |-> pen, name |-> name]

\* ensure...Sentinel: the inactive parking place under a parent, or a new one.
Pens(kind, up) == {c \in kind : There(c) /\ node[c].pen /\ ~node[c].active /\ node[c].up = up}
Pen(kind, up) == CHOOSE c \in IF Pens(kind, up) # {} THEN Pens(kind, up) ELSE Fresh(kind) : TRUE
WithPen(kind, up) ==
    IF Pens(kind, up) # {} THEN node ELSE [node EXCEPT ![Pen(kind, up)] = Row(up, TRUE, None)]
Pennable(kind, up) == Pens(kind, up) \cup Fresh(kind) # {}

(***************************************************************************)
(* What a request asks                                                     *)
(***************************************************************************)
Used(S) == {x \in S : IF x \in Nodes THEN There(x) ELSE pupil[x] # None}
Parents(kind) == CASE kind = Levels -> {None} [] kind = Fields -> Used(Levels)
                   [] kind = Profs -> Used(Fields) [] OTHER -> Used(Profs)

Init ==
    /\ node = [n \in Nodes |-> IF n \in DOMAIN NodesAtFirst THEN NodesAtFirst[n] ELSE None]
    /\ pupil = [s \in Students |-> IF s \in DOMAIN StudentsAtFirst THEN StudentsAtFirst[s] ELSE None]
    /\ invoice = [b \in Bills |-> IF b \in DOMAIN InvoicesAtFirst THEN InvoicesAtFirst[b] ELSE None]
    /\ ledger = LedgerAtFirst
    /\ stage = [r \in Callers |-> "new"]
    /\ job = [r \in Callers |-> None]
    /\ plan = [r \in Callers |-> None]
    /\ stale = {}

Begins(r, op, ask) ==
    /\ stage[r] = "new" /\ op \in Ops
    /\ job' = [job EXCEPT ![r] = [op |-> op, on |-> ask]]

To(r, s) == stage' = [stage EXCEPT ![r] = s]
Refuse(r) == To(r, "refused") /\ UNCHANGED <<records, plan, stale>>
Read(r, p) == /\ To(r, "read") /\ plan' = [plan EXCEPT ![r] = p]
              /\ stale' = stale \ {r} /\ UNCHANGED records

Reading == {"read", "moving", "assigned", "billing"}
Outdate(r) == stale' = stale \cup {q \in Callers \ {r} : stage[q] \in Reading}
Follows(r, op, at) == stage[r] = at /\ job[r].op = op /\ UNCHANGED job

(***************************************************************************)
(* Foreign keys.  A parent or home cannot go before what refers to it; an  *)
(* enrolment and a timetable rule go with their group, a ledger row with   *)
(* its invoice; a ledger row that stays forgets a deleted professor.       *)
(***************************************************************************)
Strike(rows, inv, nodes) ==
    {[x EXCEPT !.prof = IF @ \in Profs /\ nodes[@] = None THEN None ELSE @] :
        x \in {y \in rows : inv[y.bill] # None}}

Cascade(nodes, pupils) ==
    [s \in Students |-> IF pupils[s] = None THEN None
        ELSE [pupils[s] EXCEPT !.fees = [g \in {h \in DOMAIN @ : nodes[h] # None} |-> @[g]]]]

Legal_ParentsUnchecked(nodes, pupils, inv) ==
    /\ \A s \in Students : pupils[s] # None => nodes[pupils[s].home] # None
    /\ \A b \in Bills : inv[b] # None => pupils[b[1]] # None /\ nodes[b[2]] # None
Legal(nodes, pupils, inv) ==
    /\ \A n \in Nodes : nodes[n] # None /\ nodes[n].up # None => nodes[nodes[n].up] # None
    /\ \A s \in Students : pupils[s] # None => nodes[pupils[s].home] # None
    /\ \A b \in Bills : inv[b] # None => pupils[b[1]] # None /\ nodes[b[2]] # None
    /\ \A x \in Taught : nodes[x[1]] # None => nodes[x[2]] # None

Commit(r, next, nodes, pupils, inv, rows) ==
    IF Legal(nodes, pupils, inv)
    THEN /\ node' = nodes /\ invoice' = inv
         /\ pupil' = Cascade(nodes, pupils)
         /\ ledger' = Strike(rows, inv, nodes)
         /\ To(r, next) /\ Outdate(r) /\ UNCHANGED plan
    ELSE Refuse(r)

(***************************************************************************)
(* levels, fields, professors and groups                                   *)
(***************************************************************************)
\* A new node, and in a second statement the parking place for its children: a
\* placeholder child node, or for a group a withdrawn placeholder student.
CreateRow(r, kind, up) ==
    /\ Fresh(kind) # {}
    /\ LET n == CHOOSE x \in Fresh(kind) : TRUE
       IN  Begins(r, "create", n)
           /\ Commit(r, "opened", [node EXCEPT ![n] = Row(up, FALSE, None)], pupil, invoice, ledger)

CreateLevel(r) == CreateRow(r, Levels, None)
CreateField(r) == \E l \in Used(Levels) : CreateRow(r, Fields, l)
CreateProfessor(r) == \E f \in Used(Fields) : CreateRow(r, Profs, f)
CreateGroup(r) == \E p \in Used(Profs) : CreateRow(r, Groups, p)

Newcomers == {s \in Students : pupil[s] = None /\ s \notin DOMAIN StudentsAtFirst}
PupilOf(home, since, name, fees) ==
    [home |-> home, since |-> since, status |-> "active", pen |-> FALSE, name |-> name, fees |-> fees]
PenPupil(g) == [PupilOf(g, Now, None, [x \in {} |-> 0]) EXCEPT !.status = "withdrawn", !.pen = TRUE]

AddPen(r) ==
    LET n == job[r].on IN
    /\ Follows(r, "create", "opened")
    /\ \/ /\ n \notin Groups /\ Pennable(KidKind(Kind(n)), n)
          /\ Commit(r, "written", WithPen(KidKind(Kind(n)), n), pupil, invoice, ledger)
       \/ /\ n \in Groups
          /\ \E s \in Newcomers :
                Commit(r, "written", node, [pupil EXCEPT ![s] = PenPupil(n)], invoice, ledger)

\* delete..., restore..., deactivateProfessor: the flag of one row, whatever it was.
SetActive(r, kind) ==
    \E n \in Used(kind), flag \in BOOLEAN :
        Begins(r, "flag", n) /\ Commit(r, "written", [node EXCEPT ![n].active = flag], pupil, invoice, ledger)

FlagLevel(r) == SetActive(r, Levels)
FlagField(r) == SetActive(r, Fields)
FlagProfessor(r) == SetActive(r, Profs)
FlagGroup(r) == SetActive(r, Groups)

\* updateField may name another level; nothing is checked.
MoveField(r) ==
    \E f \in Used(Fields), l \in Used(Levels) :
        Begins(r, "field", f) /\ Commit(r, "written", [node EXCEPT ![f].up = l], pupil, invoice, ledger)

(***************************************************************************)
(* Archive with everything below, and delete with everything below.  Each  *)
(* first looks whether the node is still active (or archived already, for  *)
(* the final purge); then its transaction looks for what is below, a table *)
(* at a time.                                                              *)
(***************************************************************************)
Look(r, n) == Read(r, [node |-> n, found |-> {n}, tier |-> Kind(n)])

Vet(r) ==
    \E n \in Used(Nodes), op \in {"archive", "delete"} :
        Begins(r, op, n) /\ IF Active(n) THEN Look(r, n) ELSE Refuse(r)

VetPurge(r, kind) ==
    \E n \in Used(kind) : Begins(r, "purge", n) /\ IF Active(n) THEN Refuse(r) ELSE Look(r, n)

PurgeLevel(r) == VetPurge(r, Levels)
PurgeField(r) == VetPurge(r, Fields)
PurgeProfessor(r) == VetPurge(r, Profs)
PurgeGroup(r) == VetPurge(r, Groups)

\* The reason column of an archived field refers to levels, and is given the
\* node's own id.
ReasonHolds(n) == n \notin Fields

Under_Active(found, table) == {c \in table : Active(c) /\ node[c].up \in found}
Under(found, table) == {c \in table : There(c) /\ node[c].up \in found}

\* Students: deleteCascade looks for those enrolled below, hardDeleteHierarchy for
\* those whose first group is; what an archive does to them is a date.
PupilsUnder(op, found) == IF op = "purge" THEN Homed(found) ELSE Enrolled(found)
LastTier(op) == IF op = "archive" THEN Groups ELSE Students

\* The SELECT of the next table down.
Scan(r) ==
    LET op == job[r].op
        p == plan[r]
        table == KidKind(p.tier)
        more == IF table = Students THEN PupilsUnder(op, p.found) ELSE Under(p.found, table)
    IN  /\ stage[r] = "read" /\ op \in {"archive", "delete", "purge"}
        /\ p.tier # LastTier(op) /\ (op = "archive" => ReasonHolds(p.node))
        /\ To(r, "read")
        /\ plan' = [plan EXCEPT ![r] = [p EXCEPT !.found = @ \cup more, !.tier = table]]
        /\ UNCHANGED <<records, job, stale>>

\* Every row found, by id: a row that has gone since is not updated.
ArchiveCascade(r) ==
    LET p == plan[r] IN
    /\ Follows(r, "archive", "read")
    /\ IF ReasonHolds(p.node)
       THEN /\ p.tier = Groups
            /\ Commit(r, "written", [m \in Nodes |-> IF m \in p.found /\ There(m)
                                                     THEN [node[m] EXCEPT !.active = FALSE] ELSE node[m]],
                      pupil, invoice, ledger)
       ELSE Refuse(r)

\* Bottom-up: the students found with all their invoices, the groups with all
\* theirs, every ledger row that names one of the professors, then the nodes.
Purged(r) ==
    LET gone == plan[r].found IN
    /\ plan[r].tier = Students
    /\ Commit(r, "written",
              [m \in Nodes |-> IF m \in gone THEN None ELSE node[m]],
              [s \in Students |-> IF s \in gone THEN None ELSE pupil[s]],
              [b \in Bills |-> IF b[1] \in gone \/ b[2] \in gone THEN None ELSE invoice[b]],
              {x \in ledger : x.prof \notin gone})

DeleteCascade(r) == Follows(r, "delete", "read") /\ Purged(r)
HardDelete(r) == Follows(r, "purge", "read") /\ Purged(r)

(***************************************************************************)
(* "Delete this only": every child goes where the operator chose -- one    *)
(* place for all, or one each -- and one that has none to a parking place  *)
(* beside the node.                                                        *)
(***************************************************************************)
Places(n) == Used(Kind(n)) \cup {None}
Plans(n) ==
    [to : {[c \in {} |-> None]}, rest : Places(n)] \cup [to : [DirectKids(n) -> Places(n)], rest : {None}]
Chosen(choice, c) == IF c \in DOMAIN choice.to THEN choice.to[c] ELSE choice.rest

\* left: children still to place; goes: where the others go.
VetDetach(r) ==
    \E n \in Used(Nodes) : \E choice \in Plans(n) :
        /\ Begins(r, "detach", choice)
        /\ IF Active(n)
           THEN Read(r, [node |-> n, up |-> node[n].up, choice |-> choice, left |-> {}, goes |-> [c \in {} |-> None]])
           ELSE Refuse(r)

\* The transaction looks for the children again ...
Children(n) == IF n \in Groups THEN Enrolled({n}) ELSE Kids(n)
FindChildren(r) ==
    /\ Follows(r, "detach", "read")
    /\ To(r, "moving") /\ plan' = [plan EXCEPT ![r].left = Children(plan[r].node)]
    /\ UNCHANGED <<records, stale>>

\* ... and takes those with one target together, those with none last; students one
\* by one.
Together(p, t) ==
    LET those == {c \in p.left : Chosen(p.choice, c) = t}
    IN  IF p.node \in Groups THEN {{c} : c \in those}
        ELSE IF t = None THEN {those} \cap {p.left} ELSE {those}
Sent(p, batch, t) ==
    [p EXCEPT !.left = @ \ batch,
              !.goes = [c \in DOMAIN @ \cup batch |-> IF c \in batch THEN t ELSE @[c]]]

\* An active row of the parent the detached one had when it was looked up: it may
\* be the detached one, which only a level is refused.
Accepts_Anywhere(p, t) == Active(t)
Accepts(p, t) == Active(t) /\ IF p.node \in Levels THEN t # p.node ELSE node[t].up = p.up

Reassign(r) ==
    LET p == plan[r] IN
    /\ Follows(r, "detach", "moving")
    /\ \E t \in {Chosen(p.choice, c) : c \in p.left} \ {None} : \E batch \in Together(p, t) :
          IF Accepts(p, t)
          THEN To(r, "moving") /\ plan' = [plan EXCEPT ![r] = Sent(p, batch, t)] /\ UNCHANGED <<records, stale>>
          ELSE Refuse(r)

\* A parking place is not made inside the transaction: it stays.
Park(r) ==
    LET p == plan[r]
        kind == Kind(p.node)
    IN  /\ Follows(r, "detach", "moving")
        /\ p.left # {} /\ \E batch \in Together(p, None) :
              /\ Pennable(kind, p.up)
              /\ IF p.up = None \/ There(p.up)
                 THEN /\ To(r, "moving") /\ plan' = [plan EXCEPT ![r] = Sent(p, batch, Pen(kind, p.up))]
                      /\ node' = WithPen(kind, p.up) /\ UNCHANGED <<pupil, invoice, ledger>>
                      /\ IF Pens(kind, p.up) = {} THEN Outdate(r) ELSE UNCHANGED stale
                 ELSE Refuse(r)

\* One enrolment and, where it was the first group, the pointer to it.
Moved_EnrolmentOnly(s, from, target) ==
    [s EXCEPT !.fees = [g \in (DOMAIN @ \ {from}) \cup {target} |-> IF g \in DOMAIN @ \ {from} THEN @[g] ELSE 0]]
Moved(s, from, target) ==
    [s EXCEPT !.home = IF @ = from THEN target ELSE @,
              !.fees = [g \in (DOMAIN @ \ {from}) \cup {target} |-> IF g \in DOMAIN @ \ {from} THEN @[g] ELSE 0]]

\* The updates, by id: a node that has gone is not updated, a student that has gone
\* cannot be enrolled.
Detach(r) ==
    LET p == plan[r]
        moving == DOMAIN p.goes
        moved == [m \in Nodes |-> IF m \in moving /\ There(m) THEN [node[m] EXCEPT !.up = p.goes[m]] ELSE node[m]]
    IN  /\ Follows(r, "detach", "moving") /\ p.left = {}
        /\ IF \A s \in moving \cap Students : pupil[s] # None /\ There(p.goes[s])
           THEN Commit(r, "written",
                       [m \in Nodes |-> IF m = p.node /\ There(m) THEN [moved[m] EXCEPT !.active = FALSE] ELSE moved[m]],
                       [s \in Students |-> IF s \in moving THEN Moved(pupil[s], p.node, p.goes[s]) ELSE pupil[s]],
                       invoice, ledger)
           ELSE Refuse(r)

(***************************************************************************)
(* Students                                                                *)
(***************************************************************************)
Enrolments == UNION {[gs -> Offers] : gs \in {g \in SUBSET Groups : g # {} /\ Cardinality(g) <= 2}}

\* The student and its enrolments are one transaction; billing follows.
Enrol(r) ==
    \E fees \in Enrolments, since \in Months : \E home \in DOMAIN fees :
        /\ since <= Now /\ DOMAIN fees \subseteq Used(Groups)
        /\ Newcomers # {}
        /\ LET s == CHOOSE x \in Newcomers : TRUE
           IN  /\ Begins(r, "enrol", [student |-> s, ahead |-> 0, group |-> None])
               /\ Commit(r, "enrolled", node,
                         [pupil EXCEPT ![s] = PupilOf(home, since, None, fees)], invoice, ledger)

\* updateStudent replaces the enrolments in one transaction ...
UpdateEnrolments(r) ==
    \E s \in Used(Students), fees \in Enrolments : \E home \in DOMAIN fees :
        /\ DOMAIN fees \subseteq Used(Groups)
        /\ Begins(r, "update", [student |-> s, home |-> home])
        /\ Commit(r, "assigned", node, [pupil EXCEPT ![s].fees = fees], invoice, ledger)

\* ... and the student's own row after it.
UpdateRow(r) ==
    LET s == job[r].on.student IN
    /\ Follows(r, "update", "assigned")
    /\ IF pupil[s] = None THEN Refuse(r)
       ELSE Commit(r, "written", node, [pupil EXCEPT ![s].home = job[r].on.home], invoice, ledger)

\* The other columns: here the status and the date of enrolment.
Amend(r) ==
    \E s \in Used(Students), status \in {"active", "withdrawn"}, since \in Months :
        /\ since <= Now
        /\ Begins(r, "amend", s)
        /\ Commit(r, "written", node, [pupil EXCEPT ![s].status = status, ![s].since = since], invoice, ledger)

\* moveStudent: every enrolment gives way to one in the target group.
VetMove(r) ==
    \E s \in Used(Students), g \in Used(Groups) :
        /\ Begins(r, "move", s)
        /\ IF pupil[s].home # g /\ Active(g) THEN Read(r, g) ELSE Refuse(r)

Move(r) ==
    LET s == job[r].on  g == plan[r] IN
    /\ Follows(r, "move", "read")
    /\ IF pupil[s] # None
       THEN Commit(r, "written", node,
                   [pupil EXCEPT ![s] = [@ EXCEPT !.home = g, !.fees = [x \in {g} |-> 0]]], invoice, ledger)
       ELSE Refuse(r)

\* deleteStudent: refused once the ledger holds anything for the student.
Settled_PaidUp(s) == \E b \in Bills : b[1] = s /\ invoice[b] # None /\ invoice[b].paid >= invoice[b].due
Settled(s) == \E x \in ledger : x.bill[1] = s

VetRemove(r) ==
    \E s \in Used(Students) :
        Begins(r, "remove", s) /\ IF Settled(s) THEN Refuse(r) ELSE Read(r, s)

Remove(r) ==
    LET s == plan[r] IN
    /\ Follows(r, "remove", "read")
    /\ Commit(r, "written", node, [pupil EXCEPT ![s] = None],
              [b \in Bills |-> IF b[1] = s THEN None ELSE invoice[b]], ledger)

(***************************************************************************)
(* Invoices                                                                *)
(***************************************************************************)
Larger(a, b) == IF a > b THEN a ELSE b

\* billingPeriods: from the month of enrolment, or as far back as the cap goes.
Periods_ThisMonthExcluded(since, ahead) == Larger(since, Now - MaxBackfill)..(Now - 1) \cup (Now + 1)..(Now + ahead)
Periods(since, ahead) == Larger(since, Now - MaxBackfill)..(Now + ahead)

\* A student without an enrolment is billed for the first group.
Billed(s) == IF DOMAIN pupil[s].fees = {} THEN [g \in {pupil[s].home} |-> MonthlyFee]
             ELSE pupil[s].fees

Due(s, groups, months) ==
    {[bill |-> <<s, g, m>>, due |-> Billed(s)[g]] : g \in groups \cap DOMAIN Billed(s), m \in months \cap Months}

Billable == {s \in Students : pupil[s] # None /\ pupil[s].status = "active"}

\* generateMonthly reads every active student at once.
ReadRenewal(r) ==
    \E ahead \in Ahead :
        /\ Begins(r, "renew", ahead)
        /\ Read(r, UNION {Due(s, Groups, Periods(pupil[s].since, ahead)) : s \in Billable})

\* generateForStudent; with a group named, from this month on only.
ReadStudent(r) ==
    LET ask == job[r].on
        s == ask.student
        owed == IF ask.group = None THEN Due(s, Groups, Periods(pupil[s].since, ask.ahead))
                ELSE Due(s, {ask.group} \cap DOMAIN pupil[s].fees, Now..(Now + ask.ahead))
    IN  /\ Follows(r, "bill", "asked") \/ Follows(r, "enrol", "enrolled")
        /\ IF s \notin Billable THEN To(r, "written") /\ UNCHANGED <<records, plan, stale>>
           ELSE /\ To(r, "billing")
                /\ plan' = [plan EXCEPT ![r] = {x \in owed : invoice[x.bill] = None}]
                /\ stale' = stale \ {r} /\ UNCHANGED records

AskBill(r) ==
    \E s \in Used(Students), ahead \in Ahead, g \in Used(Groups) \cup {None} :
        /\ Begins(r, "bill", [student |-> s, ahead |-> ahead, group |-> g])
        /\ To(r, "asked") /\ UNCHANGED <<records, plan, stale>>

\* One insert; what is billed already is skipped.  A student just enrolled is kept
\* when the billing fails.
WriteBills(r) ==
    LET new == plan[r]
        inv == [b \in Bills |-> IF invoice[b] = None /\ \E x \in new : x.bill = b
                                THEN [due |-> (CHOOSE x \in new : x.bill = b).due, paid |-> 0]
                                ELSE invoice[b]]
    IN  /\ \/ Follows(r, "renew", "read") \/ Follows(r, "bill", "billing") \/ Follows(r, "enrol", "billing")
        /\ IF job[r].op = "enrol" /\ ~Legal(node, pupil, inv)
           THEN To(r, "written") /\ UNCHANGED <<records, plan, stale>>
           ELSE Commit(r, "written", node, pupil, inv, ledger)

\* The cash desk takes an instalment (PaymentLedger models it in detail): it is
\* shared with the professor the group has then.
Pay(r) ==
    \E b \in {x \in Bills : invoice[x] # None} :
        LET p == node[b[2]].up IN
        /\ invoice[b].paid < invoice[b].due
        /\ Begins(r, "pay", b)
        /\ Commit(r, "written", node, pupil, [invoice EXCEPT ![b].paid = @ + 1],
                  ledger \cup {[bill |-> b, nth |-> invoice[b].paid + 1, prof |-> p]})

(***************************************************************************)
(* Import of a workbook                                                    *)
(***************************************************************************)
\* The row of that name under a parent, archived or not; None when it is missing.
Match(kind, up, name) ==
    LET found == {n \in kind : There(n) /\ node[n].up = up /\ node[n].name = name}
    IN  IF found = {} THEN None ELSE CHOOSE n \in found : TRUE

\* resolveGroup: below a node that is missing, everything is.
Chain(x) ==
    LET l == Match(Levels, None, x[1])
        f == IF l = None THEN None ELSE Match(Fields, l, x[2])
        p == IF f = None THEN None ELSE Match(Profs, f, x[3])
    IN  <<l, f, p, IF p = None THEN None ELSE Match(Groups, p, x[4])>>

Twins_Active(g, name) == {s \in Homed({g}) : pupil[s].name = name /\ pupil[s].status = "active"}
Twins(g, name) == {s \in Homed({g}) : pupil[s].name = name}

\* The chain is resolved and the names already in the group are read ...
VetImport(r) ==
    \E x \in Rosters :
        /\ Begins(r, "import", x)
        /\ LET c == Chain(x) IN
           IF Twins(c[4], x[5]) # {} THEN To(r, "written") /\ UNCHANGED <<records, plan, stale>>
           ELSE Read(r, c)

\* ... then what is missing of the chain is created, without parking places, and
\* the student with the enrolment, all in one transaction.
New(c, i) == IF c[i] # None THEN c[i] ELSE CHOOSE n \in Fresh((<<Levels, Fields, Profs, Groups>>)[i]) : TRUE
Importable(c) ==
    /\ \A i \in 1..4 : c[i] = None => Fresh((<<Levels, Fields, Profs, Groups>>)[i]) # {}
    /\ Newcomers # {}

Import(r) ==
    LET c == plan[r]
        x == job[r].on
        At(i) == Row(IF i = 1 THEN None ELSE New(c, i - 1), FALSE, x[i])
        added == [n \in {New(c, i) : i \in {j \in 1..4 : c[j] = None}} |->
                    At(CHOOSE i \in 1..4 : New(c, i) = n)]
        s == CHOOSE y \in Newcomers : TRUE
        g == New(c, 4)
    IN  /\ Follows(r, "import", "read") /\ Importable(c)
        /\ Commit(r, "written",
                  [n \in Nodes |-> IF n \in DOMAIN added THEN added[n] ELSE node[n]],
                  [pupil EXCEPT ![s] = PupilOf(g, Now, x[5], [h \in {g} |-> MonthlyFee])],
                  invoice, ledger)

Answered(r) == stage[r] \in {"written", "refused"}
Closed == (\A r \in Callers : Answered(r)) /\ UNCHANGED vars

Start(r) ==
    \/ CreateLevel(r) \/ CreateField(r) \/ CreateProfessor(r) \/ CreateGroup(r) \/ MoveField(r)
    \/ FlagLevel(r) \/ FlagField(r) \/ FlagProfessor(r) \/ FlagGroup(r)
    \/ PurgeLevel(r) \/ PurgeField(r) \/ PurgeProfessor(r) \/ PurgeGroup(r) \/ Vet(r) \/ VetDetach(r)
    \/ Enrol(r) \/ UpdateEnrolments(r) \/ Amend(r) \/ VetMove(r) \/ VetRemove(r)
    \/ ReadRenewal(r) \/ AskBill(r) \/ Pay(r) \/ VetImport(r)

Step(r) ==
    \/ AddPen(r) \/ Scan(r) \/ ArchiveCascade(r) \/ DeleteCascade(r) \/ HardDelete(r)
    \/ FindChildren(r) \/ Reassign(r) \/ Park(r) \/ Detach(r)
    \/ UpdateRow(r) \/ Move(r) \/ Remove(r) \/ ReadStudent(r) \/ WriteBills(r) \/ Import(r)

Next == (\E r \in Callers : Start(r) \/ Step(r)) \/ Closed

Spec == Init /\ [][Next]_vars

(***************************************************************************)
(* Properties                                                              *)
(***************************************************************************)
Stages == {"new", "opened", "read", "moving", "assigned", "enrolled", "asked", "billing", "written", "refused"}

\* The rows are well formed, and every reference leads to a row of the right kind.
TypeOK ==
    /\ node \in [Nodes -> NodeRow \cup {None}]
    /\ pupil \in [Students -> PupilRow \cup {None}]
    /\ invoice \in [Bills -> BillRow \cup {None}]
    /\ \A x \in ledger : invoice[x.bill] # None /\ x.prof \in Profs \cup {None}
    /\ \A n \in Nodes : There(n) => node[n].up \in Parents(Kind(n))
    /\ stage \in [Callers -> Stages] /\ stale \subseteq Callers

\* A student's first group (students.group_id) is one of the groups it is enrolled
\* in (student_assignments): everything reads the one or the other.  The edit of a
\* student writes them in two statements, and may be torn by another write or a
\* refusal in between.
Torn(s) ==
    \E r \in Callers :
        /\ stage[r] # "new" /\ job[r].op = "update" /\ job[r].on.student = s
        /\ stage[r] \in {"assigned", "refused"} \/ r \in stale
HomeIsEnrolled ==
    \A s \in Students :
        pupil[s] # None /\ ~pupil[s].pen => pupil[s].home \in DOMAIN pupil[s].fees \/ Torn(s)

Finishes(r, op) == stage[r] \in Reading /\ job[r].op = op /\ stage'[r] = "written"

\* "Archive cascade" leaves no active row anywhere below the archived node, so
\* none of it can be reached through an archived parent: unless another request
\* wrote after the archive had begun, which may add to a table already searched.
Above(n) == LET up(S) == {node[m].up : m \in {x \in S : x # None}}
            IN  up({n}) \cup up(up({n})) \cup up(up(up({n})))
ArchiveTakesSubtree ==
    [][\A r \in Callers : Finishes(r, "archive") /\ r \notin stale =>
          \A m \in Nodes : ~(Active(m) /\ plan[r].node \in Above(m))']_vars

\* "Delete this only" loses nobody: afterwards nothing hangs off the node, and each
\* child is under an active row of the node's own parent (of any, for a level), or
\* in a parking place there; a student keeps every other enrolment and its fee.
\* Not so when the plan sends children back to the node, or another request wrote
\* after this one had begun.
DetachKeepsEverybody ==
    [][\A r \in Callers :
          Finishes(r, "detach") /\ r \notin stale
          /\ (\A c \in Nodes \cup Students : Chosen(plan[r].choice, c) # plan[r].node) =>
          LET n == plan[r].node
              Beside(t) == Kind(n) = Levels \/ node[t].up = plan[r].up
              Takes(t) == t # n /\ There(t) /\ Beside(t) /\ (node[t].active \/ node[t].pen)
          IN  /\ (Kids(n) = {} /\ Enrolled({n}) = {})'
              /\ \A c \in Kids(n) : Takes(node[c].up)'
              /\ \A s \in Enrolled({n}) :
                    /\ \A g \in DOMAIN pupil[s].fees \ {n} : g \in DOMAIN pupil'[s].fees /\ pupil'[s].fees[g] = pupil[s].fees[g]
                    /\ \E g \in DOMAIN pupil'[s].fees : Takes(g)'
      ]_vars

\* "Bills every active student from their enrolment through the current month, plus
\* months ahead": when nobody wrote meanwhile, no month of any enrolment is left
\* out, nothing else is billed, and no invoice already there changes.
RenewalIsComplete ==
    [][\A r \in Callers : Finishes(r, "renew") /\ r \notin stale =>
          \A s \in Students, g \in Groups, m \in Months :
              LET owed == /\ s \in Billable /\ g \in DOMAIN Billed(s)
                          /\ pupil[s].since <= m /\ Now - MaxBackfill <= m
                          /\ m <= Now + job[r].on
                  b == <<s, g, m>>
              IN  IF invoice[b] # None THEN invoice'[b] = invoice[b] ELSE (invoice'[b] # None) = owed]_vars

\* "Settled payments are financial records and aren't thrown away": deleting a
\* student takes no ledger row with it, unless one came in after the check.
PaidStudentKept ==
    [][\A r \in Callers : Finishes(r, "remove") /\ r \notin stale => ledger' = ledger]_vars

\* "Re-importing the same roster must not duplicate students": unless another
\* request wrote meanwhile, the group holds one student of the imported name, and
\* the chain above it one row of each name under its parent.
ImportAddsNoTwin ==
    [][\A r \in Callers : Finishes(r, "import") /\ r \notin stale =>
          (LET x == job[r].on
               c == Chain(x)
           IN  None \notin {c[i] : i \in 1..4} /\ Cardinality({s \in Homed({c[4]}) : pupil[s].name = x[5]}) = 1)']_vars

\* payment.service.ts:177-182: what an invoice was paid is the sum of its ledger
\* rows.  Deleting a professor takes the rows of groups that have moved on.
TotalsMatchLedger ==
    \A b \in Bills : invoice[b] # None => invoice[b].paid = Cardinality({x \in ledger : x.bill = b})
=============================================================================
