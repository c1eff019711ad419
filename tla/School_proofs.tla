----------------------------- MODULE School_proofs -----------------------------
(***************************************************************************)
(* The school's records, for any number of requests, rows and months.      *)
(*                                                                         *)
(* The inductive invariant has four parts.  Requests: where each request   *)
(* is.  Rows: every row has its type, hangs from a row of the table above, *)
(* and leads to rows that exist.  ReadWell: what a request carries from    *)
(* one statement to the next is of use to the next one.  HomeIsEnrolled.   *)
(* A commit is treated once: it keeps Rows if what it writes is typed.     *)
(***************************************************************************)
EXTENDS School, FiniteSetTheorems, TLAPS

\* The table a row's parent is in.
ParentKind(kind) ==
    CASE kind = Levels -> {None} [] kind = Fields -> Levels [] kind = Profs -> Fields [] OTHER -> Profs

FeeTables == UNION {[gs -> Fees \cup {0}] : gs \in SUBSET Groups}
LedgerRow == [bill : Bills, nth : Nat, prof : Profs \cup {None}]

RowsTyped(nodes, pupils, inv, rows) ==
    /\ nodes \in [Nodes -> NodeRow \cup {None}]
    /\ \A n \in Nodes : nodes[n] # None => nodes[n].up \in ParentKind(Kind(n))
    /\ pupils \in [Students -> PupilRow \cup {None}]
    /\ inv \in [Bills -> BillRow \cup {None}]
    /\ rows \subseteq LedgerRow

Linked ==
    /\ \A n \in Nodes : There(n) /\ node[n].up # None => node[node[n].up] # None
    /\ \A s \in Students : pupil[s] # None => There(pupil[s].home) /\ \A g \in DOMAIN pupil[s].fees : There(g)
    /\ \A b \in Bills : invoice[b] # None => There(b[2])
    /\ \A x \in ledger : invoice[x.bill] # None /\ (x.prof \in Profs => There(x.prof))
Rows == RowsTyped(node, pupil, invoice, ledger) /\ Linked

Requests ==
    /\ stage \in [Callers -> Stages] /\ stale \subseteq Callers
    /\ job = [r \in Callers |-> job[r]] /\ plan = [r \in Callers |-> plan[r]]

\* What a request has in hand before its next statement.
At(r, op, where) == stage[r] = where /\ job[r].op = op
OpenWell(r) == At(r, "create", "opened") => job[r].on \in Nodes
\* A cascade has found all that hangs from what it found, in the tables it searched.
Searched(tier) ==
    CASE tier = Levels -> {} [] tier = Fields -> Fields [] tier = Profs -> Fields \cup Profs
      [] OTHER -> Fields \cup Profs \cup Groups
Gathered(p) == \A c \in Searched(p.tier) : There(c) /\ node[c].up \in p.found => c \in p.found
ArchiveWell(r) ==
    At(r, "archive", "read") =>
        /\ plan[r] = [node |-> plan[r].node, found |-> plan[r].found, tier |-> plan[r].tier]
        /\ plan[r].node \in Nodes /\ plan[r].node \in plan[r].found
        /\ plan[r].tier \in {Levels, Fields, Profs, Groups}
        /\ r \in stale \/ Gathered(plan[r])
\* A detachment knows the children of its node, and where those it has placed may go.
Hung(n, c) ==
    \/ n \in Groups /\ c \in Students
    \/ n \notin Groups /\ c \in Nodes /\ ParentKind(Kind(c)) = Kind(n)
Ready(p) ==
    /\ p = [node |-> p.node, up |-> p.up, choice |-> p.choice, left |-> p.left, goes |-> p.goes]
    /\ p.node \in Nodes /\ p.up \in ParentKind(Kind(p.node))
    /\ \A c \in Nodes \cup Students : Chosen(p.choice, c) \in Kind(p.node) \cup {None}
    /\ p.goes = [c \in DOMAIN p.goes |-> p.goes[c]]
    /\ \A c \in p.left \cup DOMAIN p.goes : Hung(p.node, c)
    /\ \A c \in DOMAIN p.goes : p.goes[c] \in Kind(p.node)
Fits(p, c, t) ==
    /\ There(t) /\ (p.node \in Levels \/ node[t].up = p.up)
    /\ (Active(t) /\ Chosen(p.choice, c) = t) \/ (node[t].pen /\ ~node[t].active)
Knows(p) ==
    /\ p.left \cup DOMAIN p.goes = Children(p.node)
    /\ \A c \in DOMAIN p.goes : Fits(p, c, p.goes[c])
DetachWell(r) ==
    /\ At(r, "detach", "read") \/ At(r, "detach", "moving") =>
          Ready(plan[r]) /\ (r \in stale \/ Active(plan[r].node))
    /\ At(r, "detach", "read") => DOMAIN plan[r].goes = {}
    /\ At(r, "detach", "moving") => r \in stale \/ Knows(plan[r])
UpdateWell(r) ==
    At(r, "update", "assigned") =>
        /\ job[r].on.student \in Students /\ job[r].on.home \in Groups
        /\ \/ r \in stale \/ pupil[job[r].on.student] = None
           \/ job[r].on.home \in DOMAIN pupil[job[r].on.student].fees
MoveWell(r) == At(r, "move", "read") => plan[r] \in Groups
RemoveWell(r) == At(r, "remove", "read") => r \in stale \/ ~Settled(plan[r])
BillWell(r) ==
    At(r, "renew", "read") \/ stage[r] = "billing" => \A x \in plan[r] : x.due \in Fees \cup {0}
Renewal(ahead) == UNION {Due(s, Groups, Periods(pupil[s].since, ahead)) : s \in Billable}
RenewWell(r) ==
    At(r, "renew", "read") => job[r].on \in Nat /\ (r \in stale \/ plan[r] = Renewal(job[r].on))
ImportWell(r) ==
    At(r, "import", "read") =>
        /\ plan[r][1] \in Levels \cup {None} /\ plan[r][2] \in Fields \cup {None}
        /\ plan[r][3] \in Profs \cup {None} /\ plan[r][4] \in Groups \cup {None}
        /\ \A i \in 1..5 : job[r].on[i] \in Names
        /\ r \in stale \/ (plan[r] = Chain(job[r].on) /\ Twins(plan[r][4], job[r].on[5]) = {})
ReadWell(r) ==
    /\ OpenWell(r) /\ ArchiveWell(r) /\ DetachWell(r) /\ UpdateWell(r)
    /\ MoveWell(r) /\ RemoveWell(r) /\ BillWell(r) /\ RenewWell(r) /\ ImportWell(r)

IInv == Requests /\ Rows /\ (\A r \in Callers : ReadWell(r)) /\ HomeIsEnrolled

-----------------------------------------------------------------------------
(* Tables and rows. *)

\* The kind of a node is the table it is a row of.
LEMMA Kinds ==
    /\ \A n \in Levels : Kind(n) = Levels
    /\ \A n \in Fields : Kind(n) = Fields
    /\ \A n \in Profs : Kind(n) = Profs
    /\ \A n \in Groups : Kind(n) = Groups
  BY TablesAssumption DEF Kind

\* Where a row of each table hangs.
LEMMA Hangs ==
    /\ \A n \in Levels : ParentKind(Kind(n)) = {None}
    /\ \A n \in Fields : ParentKind(Kind(n)) = Levels
    /\ \A n \in Profs : ParentKind(Kind(n)) = Fields
    /\ \A n \in Groups : ParentKind(Kind(n)) = Profs
<1>1. /\ \A n \in Fields : Fields # Levels
      /\ \A n \in Profs : Profs # Levels /\ Profs # Fields
      /\ \A n \in Groups : Groups # Levels /\ Groups # Fields /\ Groups # Profs
  BY TablesAssumption
<1> QED BY <1>1, Kinds DEF ParentKind

\* What a fee table is.
LEMMA FeesOf ==
    /\ \A gs \in SUBSET Groups : [gs -> Fees \cup {0}] \subseteq FeeTables
    /\ \A f \in FeeTables : DOMAIN f \subseteq Groups /\ f \in [DOMAIN f -> Fees \cup {0}]
  BY DEF FeeTables

\* What a row of the students is.
LEMMA PupilRows ==
    PupilRow = [home : Groups, since : Months, status : {"active", "withdrawn"}, pen : BOOLEAN,
                name : Names, fees : FeeTables]
  BY DEF PupilRow, FeeTables

\* What the database does by itself keeps a student's row well typed ...
LEMMA CascadeRow ==
  ASSUME NEW nodes, NEW pupils \in [Students -> PupilRow \cup {None}], NEW s \in Students, pupils[s] # None
  PROVE  Cascade(nodes, pupils)[s] \in PupilRow
<1> DEFINE f == pupils[s].fees
           left == [g \in {h \in DOMAIN f : nodes[h] # None} |-> f[g]]
<1>1. pupils[s] \in PupilRow /\ f \in FeeTables
  BY PupilRows
<1>2. left \in [{h \in DOMAIN f : nodes[h] # None} -> Fees \cup {0}]
  BY <1>1, FeesOf
<1>3. {h \in DOMAIN f : nodes[h] # None} \in SUBSET Groups
  BY <1>1, FeesOf
<1>4. left \in FeeTables
  BY <1>2, <1>3, FeesOf
<1>5. Cascade(nodes, pupils)[s] = [pupils[s] EXCEPT !.fees = left]
  BY DEF Cascade
<1> HIDE DEF left
<1> QED BY <1>1, <1>4, <1>5, PupilRows

\* The cascade of a write leaves rows of students where there were some.
LEMMA CascadeTyped ==
  ASSUME NEW nodes, NEW pupils \in [Students -> PupilRow \cup {None}]
  PROVE  Cascade(nodes, pupils) \in [Students -> PupilRow \cup {None}]
<1> SUFFICES ASSUME NEW s \in Students, pupils[s] # None
             PROVE  Cascade(nodes, pupils)[s] \in PupilRow
  BY DEF Cascade
<1> QED BY CascadeRow

\* ... and so do foreign keys with a ledger row.
LEMMA StrikeTyped ==
  ASSUME NEW rows \in SUBSET LedgerRow, NEW inv, NEW nodes
  PROVE  /\ Strike(rows, inv, nodes) \subseteq LedgerRow
         /\ \A x \in Strike(rows, inv, nodes) :
               inv[x.bill] # None /\ (x.prof \in Profs => nodes[x.prof] # None)
<1> SUFFICES ASSUME NEW y \in rows, inv[y.bill] # None,
                    NEW x, x = [y EXCEPT !.prof = IF @ \in Profs /\ nodes[@] = None THEN None ELSE @]
             PROVE  /\ x \in LedgerRow
                    /\ inv[x.bill] # None /\ (x.prof \in Profs => nodes[x.prof] # None)
  BY DEF Strike
<1>1. y \in LedgerRow /\ None \notin Profs
  BY RowsAssumption DEF Nodes
<1> QED BY <1>1 DEF LedgerRow

\* A commit that writes typed rows leaves the tables in order.
LEMMA CommitRows ==
  ASSUME NEW nodes, NEW pupils, NEW inv, NEW rows,
         RowsTyped(nodes, pupils, inv, rows), Legal(nodes, pupils, inv),
         node' = nodes, invoice' = inv, pupil' = Cascade(nodes, pupils), ledger' = Strike(rows, inv, nodes)
  PROVE  Rows'
<1>1. RowsTyped(node', pupil', invoice', ledger')
  BY CascadeTyped, StrikeTyped DEF RowsTyped
<1>2. \A s \in Students : pupil'[s] # None => pupils[s] # None /\ pupil'[s].home = pupils[s].home
  <2> SUFFICES ASSUME NEW s \in Students, pupil'[s] # None
               PROVE  pupils[s] # None /\ pupil'[s].home = pupils[s].home
    OBVIOUS
  <2>1. pupils[s] # None /\ pupils[s] \in PupilRow
    BY DEF Cascade, RowsTyped
  <2> QED BY <2>1 DEF Cascade, PupilRow
<1>3. \A s \in Students : pupil'[s] # None => \A g \in DOMAIN pupil'[s].fees : node'[g] # None
  <2> SUFFICES ASSUME NEW s \in Students, pupil'[s] # None
               PROVE  \A g \in DOMAIN pupil'[s].fees : node'[g] # None
    OBVIOUS
  <2>1. pupils[s] # None /\ pupils[s] \in PupilRow
    BY DEF Cascade, RowsTyped
  <2> DEFINE left == [g \in {h \in DOMAIN pupils[s].fees : nodes[h] # None} |-> pupils[s].fees[g]]
  <2>2. pupil'[s] = [pupils[s] EXCEPT !.fees = left]
    BY <2>1 DEF Cascade
  <2>3. \A g \in DOMAIN left : nodes[g] # None
    OBVIOUS
  <2> HIDE DEF left
  <2>4. pupil'[s].fees = left
    BY <2>1, <2>2, PupilRows
  <2> QED BY <2>3, <2>4
<1>4. Linked'
  BY <1>2, <1>3, StrikeTyped DEF Linked, Legal, There, RowsTyped
<1> QED BY <1>1, <1>4 DEF Rows

-----------------------------------------------------------------------------
(* Requests. *)

\* What a step of one request does to another: nothing, except that the other's
\* reads go stale when the step writes.
Kept(q) ==
    /\ stage'[q] = stage[q] /\ job'[q] = job[q] /\ plan'[q] = plan[q]
    /\ q \in stale => q \in stale'
    /\ UNCHANGED records \/ (stage[q] \in Reading => q \in stale')
OthersKept(r) == \A q \in Callers \ {r} : Kept(q)
Asks(r) == job' = [job EXCEPT ![r] = job'[r]]
Starts(r, op) == stage[r] = "new" /\ job'[r].op = op /\ Asks(r)

\* Who reads the same rows reads the same.
LEMMA SameReads ==
  ASSUME UNCHANGED records
  PROVE  /\ \A ahead : Renewal(ahead)' = Renewal(ahead)
         /\ \A x : Chain(x)' = Chain(x)
         /\ \A g, name : Twins(g, name)' = Twins(g, name)
  BY DEF records, Renewal, Due, Billed, Billable, Chain, Match, There, Twins, Homed

\* What a request has read well stays so while the step keeps it.
LEMMA KeptWell ==
  ASSUME NEW q \in Callers, ReadWell(q), Kept(q)
  PROVE  ReadWell(q)'
<1>1. \/ UNCHANGED records
      \/ q \in stale'
      \/ ~(\E where \in Reading : stage'[q] = where)
  BY DEF Kept
<1>2. UpdateWell(q)' /\ RemoveWell(q)'
  BY <1>1 DEF UpdateWell, RemoveWell, Kept, At, ReadWell, records, Settled, Reading
<1>3. OpenWell(q)' /\ MoveWell(q)' /\ BillWell(q)'
  BY DEF OpenWell, MoveWell, BillWell, Kept, At, ReadWell
<1>6. UNCHANGED records => \A p : /\ Gathered(p)' = Gathered(p) /\ Ready(p)' = Ready(p)
                                 /\ Active(p.node)' = Active(p.node) /\ Knows(p)' = Knows(p)
  BY DEF records, Gathered, Ready, Active, Knows, Fits, Children, Kids, Enrolled, There, Chosen, Hung
<1>7. \A p : Ready(p)' = Ready(p)
  BY DEF Ready, Chosen, Hung
<1>8. ArchiveWell(q)' /\ DetachWell(q)'
  BY <1>1, <1>6, <1>7 DEF ArchiveWell, DetachWell, Kept, At, ReadWell, Reading
<1>4. RenewWell(q)'
  BY <1>1, SameReads DEF RenewWell, Kept, At, ReadWell, Reading
<1>5. ImportWell(q)'
  BY <1>1, SameReads DEF ImportWell, Kept, At, ReadWell, Reading
<1> QED BY <1>2, <1>3, <1>4, <1>5, <1>8 DEF ReadWell

Resting == {"new", "asked", "enrolled", "written", "refused"}

\* A request that waits for nothing has nothing in hand.
LEMMA RestWell ==
  ASSUME NEW r \in Callers
  PROVE  /\ stage[r] \in Resting => ReadWell(r)
         /\ stage'[r] \in Resting => ReadWell(r)'
  BY DEF Resting, ReadWell, OpenWell, ArchiveWell, DetachWell, UpdateWell, MoveWell, RemoveWell, BillWell, RenewWell, ImportWell, At

\* A request that begins takes its first step, with its question written down.
LEMMA BeginsStarts ==
  ASSUME NEW r \in Callers, NEW op, NEW ask, Requests, Begins(r, op, ask)
  PROVE  Starts(r, op) /\ job'[r] = [op |-> op, on |-> ask]
  BY DEF Begins, Starts, Asks, Requests

\* A request that goes on has asked, and is where the step expects it.
LEMMA FollowsAsks ==
  ASSUME NEW r \in Callers, NEW op, NEW where, Requests, Follows(r, op, where)
  PROVE  Asks(r) /\ At(r, op, where) /\ job' = job
  BY DEF Follows, Asks, At, Requests

\* What a commit leaves behind: the rows it writes, or the refusal of a foreign key.
Wrote(r, next, nodes, pupils, inv, rows) ==
    /\ Legal(nodes, pupils, inv) /\ stage'[r] = next /\ (r \in stale' <=> r \in stale)
    /\ node' = nodes /\ invoice' = inv /\ pupil' = Cascade(nodes, pupils) /\ ledger' = Strike(rows, inv, nodes)

\* A commit writes what it says, or fails and writes nothing.
LEMMA CommitOutcome ==
  ASSUME NEW r \in Callers, NEW next \in Stages, NEW nodes, NEW pupils, NEW inv, NEW rows,
         Requests, Asks(r), Commit(r, next, nodes, pupils, inv, rows)
  PROVE  /\ Requests' /\ OthersKept(r) /\ plan' = plan
         /\ \/ Wrote(r, next, nodes, pupils, inv, rows)
            \/ stage'[r] = "refused" /\ UNCHANGED records
<1>1. CASE Legal(nodes, pupils, inv)
  <2>1. Requests' /\ OthersKept(r) /\ plan' = plan
    BY <1>1 DEF Commit, To, Outdate, Requests, OthersKept, Kept, Asks
  <2>2. Wrote(r, next, nodes, pupils, inv, rows)
    BY <1>1 DEF Commit, To, Outdate, Requests, Wrote
  <2> QED BY <2>1, <2>2
<1>2. CASE ~Legal(nodes, pupils, inv)
  BY <1>2 DEF Commit, Refuse, To, Requests, OthersKept, Kept, Asks, Stages
<1> QED BY <1>1, <1>2

\* A read or a refusal.
LEMMA ReadOutcome ==
  ASSUME NEW r \in Callers, NEW where \in Stages, NEW p, Requests, Asks(r),
         \/ To(r, where) /\ UNCHANGED <<records, plan, stale>>
         \/ To(r, where) /\ plan' = [plan EXCEPT ![r] = p] /\ stale' = stale \ {r} /\ UNCHANGED records
  PROVE  Requests' /\ OthersKept(r) /\ UNCHANGED records /\ stage'[r] = where
  BY DEF To, Requests, OthersKept, Kept, Asks

\* Torn stays torn: an edit in two statements, once overtaken or refused, is over.
LEMMA TornStays ==
  ASSUME NEW r \in Callers, NEW s, OthersKept(r), stage[r] = "new" \/ job[r].op # "update", Torn(s)
  PROVE  Torn(s)'
  BY DEF Torn, OthersKept, Kept

-----------------------------------------------------------------------------
(* The steps, seen from the invariant. *)

NoEdit(r) == stage[r] = "new" \/ job[r].op # "update"
Housed(s, pupils) == pupils[s] # None /\ ~pupils[s].pen => pupils[s].home \in DOMAIN pupils[s].fees

\* A deleted group takes no one's first enrolment: the first group cannot go.
LEMMA CascadeHouses ==
  ASSUME NEW nodes, NEW pupils \in [Students -> PupilRow \cup {None}], NEW s \in Students, Housed(s, pupils),
         pupils[s] # None => nodes[pupils[s].home] # None
  PROVE  Housed(s, Cascade(nodes, pupils))
<1> SUFFICES ASSUME Cascade(nodes, pupils)[s] # None, ~Cascade(nodes, pupils)[s].pen
             PROVE  Cascade(nodes, pupils)[s].home \in DOMAIN Cascade(nodes, pupils)[s].fees
  BY DEF Housed
<1> DEFINE f == pupils[s].fees
           left == [g \in {h \in DOMAIN f : nodes[h] # None} |-> f[g]]
<1>1. pupils[s] # None /\ pupils[s] \in PupilRow
  BY DEF Cascade
<1>2. Cascade(nodes, pupils)[s] = [pupils[s] EXCEPT !.fees = left]
  BY <1>1 DEF Cascade
<1>3. DOMAIN left = {h \in DOMAIN f : nodes[h] # None}
  OBVIOUS
<1> HIDE DEF left
<1>4. Cascade(nodes, pupils)[s].home = pupils[s].home /\ Cascade(nodes, pupils)[s].pen = pupils[s].pen
      /\ Cascade(nodes, pupils)[s].fees = left
  BY <1>1, <1>2, PupilRows
<1> QED BY <1>1, <1>3, <1>4 DEF Housed

\* A step that writes no record keeps the invariant.
LEMMA QuietKeeps ==
  ASSUME NEW r \in Callers, IInv, NoEdit(r), Requests', OthersKept(r), UNCHANGED records, ReadWell(r)'
  PROVE  IInv'
<1>1. Rows'
  BY DEF IInv, Rows, RowsTyped, Linked, There, records
<1>2. HomeIsEnrolled'
  BY TornStays DEF IInv, HomeIsEnrolled, records, NoEdit
<1>3. \A q \in Callers : ReadWell(q)'
  BY KeptWell DEF IInv, OthersKept
<1> QED BY <1>1, <1>2, <1>3 DEF IInv

\* A commit that writes typed rows and leaves students enrolled where they belong.
LEMMA CommitKeeps ==
  ASSUME NEW r \in Callers, NEW next \in Stages, NEW nodes, NEW pupils, NEW inv, NEW rows,
         IInv, Asks(r), Commit(r, next, nodes, pupils, inv, rows),
         RowsTyped(nodes, pupils, inv, rows),
         stage'[r] = "refused" => \A s \in Students : Torn(s) => Torn(s)',
         Wrote(r, next, nodes, pupils, inv, rows) =>
            /\ ReadWell(r)'
            /\ \A s \in Students : Housed(s, pupils) \/ Torn(s)'
  PROVE  IInv'
<1>1. /\ Requests' /\ OthersKept(r) /\ plan' = plan
      /\ \/ Wrote(r, next, nodes, pupils, inv, rows)
         \/ stage'[r] = "refused" /\ UNCHANGED records
  BY CommitOutcome DEF IInv
<1>2. CASE stage'[r] = "refused" /\ UNCHANGED records
  <2>1. ReadWell(r)'
    BY <1>2, RestWell DEF Resting
  <2>2. Rows' /\ HomeIsEnrolled'
    BY <1>2 DEF IInv, Rows, RowsTyped, Linked, There, records, HomeIsEnrolled
  <2>3. \A q \in Callers : ReadWell(q)'
    BY <1>1, <2>1, KeptWell DEF IInv, OthersKept
  <2> QED BY <1>1, <2>2, <2>3 DEF IInv
<1>3. CASE Wrote(r, next, nodes, pupils, inv, rows)
  <2>1. Rows'
    BY <1>3, CommitRows DEF Wrote
  <2>2. HomeIsEnrolled'
    <3> SUFFICES ASSUME NEW s \in Students, ~Torn(s)' PROVE Housed(s, pupil')
      BY DEF HomeIsEnrolled, Housed
    <3>1. Housed(s, pupils)
      BY <1>3
    <3>2. pupils \in [Students -> PupilRow \cup {None}]
      BY DEF RowsTyped
    <3>3. pupils[s] # None => nodes[pupils[s].home] # None
      BY <1>3 DEF Wrote, Legal
    <3>4. pupil' = Cascade(nodes, pupils)
      BY <1>3 DEF Wrote
    <3> QED BY <3>1, <3>2, <3>3, <3>4, CascadeHouses
  <2>3. \A q \in Callers : ReadWell(q)'
    BY <1>1, <1>3, KeptWell DEF IInv, OthersKept
  <2> QED BY <1>1, <2>1, <2>2, <2>3 DEF IInv
<1> QED BY <1>1, <1>2, <1>3

\* ... after which the request has nothing in hand.
LEMMA LastCommitKeeps ==
  ASSUME NEW r \in Callers, NEW next \in {"written", "refused", "enrolled"},
         NEW nodes, NEW pupils, NEW inv, NEW rows,
         IInv, NoEdit(r), Asks(r), Commit(r, next, nodes, pupils, inv, rows),
         RowsTyped(nodes, pupils, inv, rows),
         \A s \in Students : Housed(s, pupils) \/ Torn(s)
  PROVE  IInv'
<1>1. next \in Stages
  BY DEF Stages
<1>2. OthersKept(r)
  BY <1>1, CommitOutcome DEF IInv
<1>3. \A s \in Students : Torn(s) => Torn(s)'
  BY <1>2, TornStays DEF NoEdit
<1>4. Wrote(r, next, nodes, pupils, inv, rows) => ReadWell(r)'
  <2> SUFFICES ASSUME Wrote(r, next, nodes, pupils, inv, rows) PROVE ReadWell(r)'
    OBVIOUS
  <2>1. stage'[r] \in Resting
    BY DEF Wrote, Resting
  <2> QED BY <2>1, RestWell
<1> QED BY <1>1, <1>3, <1>4, CommitKeeps

-----------------------------------------------------------------------------
(* The hierarchy. *)

\* Every node is a row of one of the four tables.
LEMMA KindIsTable ==
  ASSUME NEW n \in Nodes
  PROVE  Kind(n) \in {Levels, Fields, Profs, Groups} /\ n \in Kind(n)
  BY Kinds DEF Nodes

\* A well-typed row in its place keeps the tables typed.
LEMMA NodeTyped ==
  ASSUME Rows, NEW n \in Nodes, NEW row \in NodeRow, row.up \in ParentKind(Kind(n))
  PROVE  RowsTyped([node EXCEPT ![n] = row], pupil, invoice, ledger)
  BY DEF Rows, RowsTyped

\* So does every change of nodes alone.
LEMMA NodesKeep ==
  ASSUME NEW r \in Callers, IInv, NoEdit(r), Asks(r), NEW nodes, NEW next \in {"written", "refused"},
         RowsTyped(nodes, pupil, invoice, ledger), Commit(r, next, nodes, pupil, invoice, ledger)
  PROVE  IInv'
<1>1. \A s \in Students : Housed(s, pupil) \/ Torn(s)
  BY DEF IInv, HomeIsEnrolled, Housed
<1> QED BY <1>1, LastCommitKeeps

\* A new row is a row, and hangs where its kind may.
LEMMA RowTyped ==
  ASSUME NEW n \in Nodes, NEW up \in ParentKind(Kind(n)), NEW pen \in BOOLEAN, NEW name \in Names
  PROVE  Row(up, pen, name) \in NodeRow /\ Row(up, pen, name).up \in ParentKind(Kind(n))
<1>1. up \in Nodes \cup {None}
  BY Hangs DEF Nodes
<1> QED BY <1>1 DEF Row, NodeRow

\* A parking place is a row of its table, under the parent it was asked for.
LEMMA PenTyped ==
  ASSUME Rows, NEW kind \in {Levels, Fields, Profs, Groups}, NEW up \in ParentKind(kind), Pennable(kind, up)
  PROVE  Pen(kind, up) \in kind /\ RowsTyped(WithPen(kind, up), pupil, invoice, ledger)
<1>1. Pen(kind, up) \in kind
  <2>1. \E c \in IF Pens(kind, up) # {} THEN Pens(kind, up) ELSE Fresh(kind) : TRUE
    BY DEF Pennable
  <2>2. Pen(kind, up) \in Pens(kind, up) \cup Fresh(kind)
    BY <2>1 DEF Pen
  <2> QED BY <2>2 DEF Pens, Fresh
<1>2. Pen(kind, up) \in Nodes /\ Kind(Pen(kind, up)) = kind
  BY <1>1, Kinds DEF Nodes
<1>3. Row(up, TRUE, None) \in NodeRow /\ Row(up, TRUE, None).up \in ParentKind(kind)
  BY <1>2, RowTyped, RowsAssumption
<1> QED BY <1>1, <1>2, <1>3, NodeTyped DEF WithPen, Rows

\* The table below a node's, and where its rows hang.
LEMMA KidsHang ==
  ASSUME NEW n \in Nodes \ Groups, KidKind(Kind(n)) # {}
  PROVE  KidKind(Kind(n)) \in {Fields, Profs, Groups} /\ n \in ParentKind(KidKind(Kind(n)))
<1>1. CASE n \in Levels
  BY <1>1, Kinds, Hangs, TablesAssumption DEF KidKind
<1>2. CASE n \in Fields
  BY <1>2, Kinds, Hangs, TablesAssumption DEF KidKind
<1>3. CASE n \in Profs
  BY <1>3, Kinds, Hangs, TablesAssumption DEF KidKind
<1> QED BY <1>1, <1>2, <1>3 DEF Nodes

\* A creation of a node of any kind keeps the invariant.
LEMMA CreateKeeps ==
  ASSUME NEW r \in Callers, IInv, NEW kind \in {Levels, Fields, Profs, Groups},
         NEW up, kind # {} => up \in ParentKind(kind), CreateRow(r, kind, up)
  PROVE  IInv'
<1> DEFINE n == CHOOSE x \in Fresh(kind) : TRUE
           nodes == [node EXCEPT ![n] = Row(up, FALSE, None)]
<1>1. n \in kind /\ n \in Nodes /\ Kind(n) = kind
  <2>1. n \in Fresh(kind)
    BY DEF CreateRow
  <2> QED BY <2>1, Kinds DEF Fresh, Nodes
<1>2. Begins(r, "create", n) /\ Commit(r, "opened", nodes, pupil, invoice, ledger)
  BY DEF CreateRow
<1> HIDE DEF n
<1>3. Starts(r, "create") /\ job'[r].on = n
  <2>1. Requests
    BY DEF IInv
  <2>2. Starts(r, "create") /\ job'[r] = [op |-> "create", on |-> n]
    BY <1>2, <2>1, BeginsStarts
  <2> QED BY <2>2
<1>4. RowsTyped(nodes, pupil, invoice, ledger)
  BY <1>1, RowTyped, NodeTyped, RowsAssumption DEF IInv
<1> HIDE DEF nodes
<1>5. "opened" \in Stages
  BY DEF Stages
<1>6. \A s \in Students : Torn(s) => Torn(s)'
  BY <1>2, <1>3, <1>5, CommitOutcome, TornStays DEF IInv, Starts
<1>7. Wrote(r, "opened", nodes, pupil, invoice, ledger) => ReadWell(r)'
  <2> SUFFICES ASSUME stage'[r] = "opened" PROVE ReadWell(r)'
    BY DEF Wrote
  <2> QED BY <1>1, <1>3 DEF ReadWell, OpenWell, ArchiveWell, DetachWell, UpdateWell, MoveWell, RemoveWell,
                            BillWell, RenewWell, ImportWell, At
<1>8. \A s \in Students : Housed(s, pupil) \/ Torn(s)'
  BY <1>6 DEF IInv, HomeIsEnrolled, Housed
<1> QED BY <1>2, <1>3, <1>4, <1>5, <1>6, <1>7, <1>8, CommitKeeps DEF Starts

\* So does each of the four creations.
LEMMA CreatesKeep ==
  ASSUME NEW r \in Callers, IInv, CreateLevel(r) \/ CreateField(r) \/ CreateProfessor(r) \/ CreateGroup(r)
  PROVE  IInv'
<1>1. \A K \in {Levels, Fields, Profs, Groups} : Used(K) \subseteq K
  BY DEF Used
<1>2. /\ Levels # {} => None \in ParentKind(Levels)
      /\ Fields # {} => Levels \subseteq ParentKind(Fields)
      /\ Profs # {} => Fields \subseteq ParentKind(Profs)
      /\ Groups # {} => Profs \subseteq ParentKind(Groups)
  BY Kinds, Hangs
<1>3. CASE CreateLevel(r)
  BY <1>2, <1>3, CreateKeeps DEF CreateLevel
<1>4. CASE CreateField(r)
  BY <1>1, <1>2, <1>4, CreateKeeps DEF CreateField
<1>5. CASE CreateProfessor(r)
  BY <1>1, <1>2, <1>5, CreateKeeps DEF CreateProfessor
<1>6. CASE CreateGroup(r)
  BY <1>1, <1>2, <1>6, CreateKeeps DEF CreateGroup
<1> QED BY <1>3, <1>4, <1>5, <1>6

\* Switching a node on or off keeps the invariant.
LEMMA FlagKeeps ==
  ASSUME NEW r \in Callers, IInv, FlagLevel(r) \/ FlagField(r) \/ FlagProfessor(r) \/ FlagGroup(r)
  PROVE  IInv'
<1>1. PICK n \in Nodes, flag \in BOOLEAN :
        There(n) /\ Begins(r, "flag", n)
        /\ Commit(r, "written", [node EXCEPT ![n].active = flag], pupil, invoice, ledger)
  BY DEF FlagLevel, FlagField, FlagProfessor, FlagGroup, SetActive, Used, Nodes
<1>2. RowsTyped([node EXCEPT ![n].active = flag], pupil, invoice, ledger)
  BY <1>1 DEF IInv, Rows, RowsTyped, NodeRow, There
<1> QED BY <1>1, <1>2, NodesKeep, BeginsStarts DEF Starts, NoEdit, IInv

\* Hanging a field under another level keeps the invariant.
LEMMA MoveFieldKeeps ==
  ASSUME NEW r \in Callers, IInv, MoveField(r)
  PROVE  IInv'
<1>1. PICK f \in Fields, l \in Levels :
        There(f) /\ Begins(r, "field", f)
        /\ Commit(r, "written", [node EXCEPT ![f].up = l], pupil, invoice, ledger)
  BY DEF MoveField, Used, Nodes
<1>2. l \in ParentKind(Kind(f)) /\ f \in Nodes /\ l \in Nodes
  BY Hangs DEF Nodes
<1>3. RowsTyped([node EXCEPT ![f].up = l], pupil, invoice, ledger)
  BY <1>1, <1>2 DEF IInv, Rows, RowsTyped, NodeRow, There
<1> QED BY <1>1, <1>3, NodesKeep, BeginsStarts DEF Starts, NoEdit, IInv

\* A new student is a row, at home where it was put.
LEMMA PupilOfTyped ==
  ASSUME NEW home \in Groups, NEW since \in Months, NEW name \in Names, NEW fees \in FeeTables
  PROVE  /\ PupilOf(home, since, name, fees) \in PupilRow
         /\ PupilOf(home, since, name, fees).home = home
         /\ PupilOf(home, since, name, fees).fees = fees
  BY PupilRows DEF PupilOf

\* Creating the parking place of a new node keeps the invariant.
LEMMA AddPenKeeps ==
  ASSUME NEW r \in Callers, IInv, AddPen(r)
  PROVE  IInv'
<1> DEFINE n == job[r].on
<1>1. NoEdit(r) /\ Asks(r) /\ n \in Nodes
  <2>1. Asks(r) /\ At(r, "create", "opened")
    BY FollowsAsks DEF AddPen, IInv
  <2>2. n \in Nodes
    BY <2>1 DEF IInv, ReadWell, OpenWell
  <2> QED BY <2>1, <2>2 DEF NoEdit, At
<1>2. CASE /\ n \notin Groups /\ Pennable(KidKind(Kind(n)), n)
           /\ Commit(r, "written", WithPen(KidKind(Kind(n)), n), pupil, invoice, ledger)
  <2>1. KidKind(Kind(n)) # {}
    BY <1>2 DEF Pennable, Pens, Fresh
  <2>2. KidKind(Kind(n)) \in {Levels, Fields, Profs, Groups} /\ n \in ParentKind(KidKind(Kind(n)))
    BY <1>1, <1>2, <2>1, KidsHang
  <2>3. RowsTyped(WithPen(KidKind(Kind(n)), n), pupil, invoice, ledger)
    BY <1>2, <2>2, PenTyped DEF IInv
  <2> QED BY <1>1, <1>2, <2>3, NodesKeep
<1>3. CASE n \in Groups /\ \E s \in Newcomers :
             Commit(r, "written", node, [pupil EXCEPT ![s] = PenPupil(n)], invoice, ledger)
  <2>1. PICK s \in Newcomers :
          Commit(r, "written", node, [pupil EXCEPT ![s] = PenPupil(n)], invoice, ledger)
    BY <1>3
  <2> DEFINE pupils == [pupil EXCEPT ![s] = PenPupil(n)]
  <2>2. PenPupil(n) \in PupilRow /\ PenPupil(n).pen
    <3> DEFINE none == [x \in {} |-> 0]
    <3>1. none \in FeeTables
      BY FeesOf
    <3>2. PenPupil(n) = [PupilOf(n, Now, None, none) EXCEPT !.status = "withdrawn", !.pen = TRUE]
      BY DEF PenPupil
    <3> HIDE DEF none
    <3>3. PupilOf(n, Now, None, none) \in PupilRow
      BY <1>3, <3>1, PupilOfTyped, MonthsAssumption, RowsAssumption
    <3> QED BY <3>2, <3>3, PupilRows
  <2> HIDE DEF n
  <2>3. s \in Students /\ pupil \in [Students -> PupilRow \cup {None}]
    BY DEF Newcomers, IInv, Rows, RowsTyped
  <2>4. RowsTyped(node, pupils, invoice, ledger)
    BY <2>2, <2>3 DEF IInv, Rows, RowsTyped
  <2>5. \A x \in Students : Housed(x, pupils) \/ Torn(x)
    BY <2>2, <2>3 DEF IInv, HomeIsEnrolled, Housed
  <2> QED BY <1>1, <2>1, <2>4, <2>5, LastCommitKeeps
<1> QED BY <1>2, <1>3 DEF AddPen

-----------------------------------------------------------------------------
(* Looking up. *)

\* A step that only reads keeps the invariant.
LEMMA ReadKeeps ==
  ASSUME NEW r \in Callers, IInv, NEW op, NEW ask, NEW p, Begins(r, op, ask), Read(r, p) \/ Refuse(r),
         /\ stage'[r] = "read" /\ job'[r].op = op /\ job'[r].on = ask
         /\ plan'[r] = p /\ r \notin stale' /\ UNCHANGED records
         => ReadWell(r)'
  PROVE  IInv'
<1>1. Starts(r, op) /\ job'[r] = [op |-> op, on |-> ask]
  BY BeginsStarts DEF IInv
<1>2. CASE Read(r, p)
  <2>1. Requests' /\ OthersKept(r) /\ UNCHANGED records /\ stage'[r] = "read"
    BY <1>1, <1>2, ReadOutcome DEF Read, Stages, Starts, IInv
  <2>2. plan'[r] = p /\ r \notin stale'
    BY <1>2 DEF Read, IInv, Requests
  <2> QED BY <1>1, <2>1, <2>2, QuietKeeps DEF Starts, NoEdit
<1>3. CASE Refuse(r)
  <2>1. Requests' /\ OthersKept(r) /\ UNCHANGED records /\ stage'[r] = "refused"
    BY <1>1, <1>3, ReadOutcome DEF Refuse, Stages, Starts, IInv
  <2> QED BY <1>1, <2>1, RestWell, QuietKeeps DEF Starts, NoEdit, Resting
<1> QED BY <1>2, <1>3

\* The tables are five, each below the other.
LEMMA Tiers ==
    /\ KidKind(Levels) = Fields /\ KidKind(Fields) = Profs /\ KidKind(Profs) = Groups /\ KidKind(Groups) = Students
    /\ Groups \notin {Levels, Fields, Profs} /\ Students \notin {Levels, Fields, Profs, Groups}
    /\ Searched(Levels) = {} /\ Searched(Fields) = Fields /\ Searched(Profs) = Fields \cup Profs
    /\ Searched(Groups) = Fields \cup Profs \cup Groups
<1>1. /\ Levels # Fields /\ Levels # Profs /\ Levels # Groups /\ Fields # Profs /\ Fields # Groups /\ Profs # Groups
      /\ Students # Levels /\ Students # Fields /\ Students # Profs /\ Students # Groups
  BY TablesAssumption DEF Nodes
<1> QED BY <1>1 DEF KidKind, Searched

\* What hangs from a row is in a table not searched before that row's.
LEMMA SearchedAbove ==
  ASSUME Rows, NEW tier \in {Levels, Fields, Profs, Groups}, NEW c \in Searched(tier), There(c)
  PROVE  c \in Nodes /\ node[c].up \notin tier
<1>1. c \in Fields \cup Profs \cup Groups /\ c \in Nodes
  BY Tiers DEF Nodes
<1>2. node[c].up \in ParentKind(Kind(c))
  BY <1>1 DEF Rows, RowsTyped, There
<1>3. CASE tier = Levels
  BY <1>3, Tiers
<1>a. \A x \in Levels : x \notin Fields /\ x \notin Profs /\ x \notin Groups
  BY TablesAssumption
<1>b. \A x \in Fields : x \notin Profs /\ x \notin Groups
  BY TablesAssumption
<1>4. CASE tier = Fields
  <2>1. c \in Fields
    BY <1>4, Tiers
  <2>2. node[c].up \in Levels
    BY <1>2, <2>1, Hangs
  <2> QED BY <1>1, <1>4, <1>a, <2>2
<1>5. CASE tier = Profs
  <2>1. c \in Fields \/ c \in Profs
    BY <1>5, Tiers
  <2>2. node[c].up \in Levels \/ node[c].up \in Fields
    BY <1>2, <2>1, Hangs
  <2> QED BY <1>1, <1>5, <1>a, <1>b, <2>2
<1>6. CASE tier = Groups
  BY <1>1, <1>2, <1>6, Hangs, TablesAssumption
<1> QED BY <1>3, <1>4, <1>5, <1>6

\* Looking whether a node is active keeps the invariant.
LEMMA VetKeeps ==
  ASSUME NEW r \in Callers, IInv,
         Vet(r) \/ PurgeLevel(r) \/ PurgeField(r) \/ PurgeProfessor(r) \/ PurgeGroup(r)
  PROVE  IInv'
<1>1. PICK n \in Nodes, op \in {"archive", "delete", "purge"} : Begins(r, op, n) /\ (Look(r, n) \/ Refuse(r))
  BY DEF Vet, PurgeLevel, PurgeField, PurgeProfessor, PurgeGroup, VetPurge, Used, Nodes
<1>2. PICK p : p = [node |-> n, found |-> {n}, tier |-> Kind(n)]
  OBVIOUS
<1>3. ASSUME stage'[r] = "read", job'[r].op = op, plan'[r] = p, UNCHANGED records
      PROVE  ReadWell(r)'
  <2>1. p.node = n /\ p.found = {n} /\ p.tier = Kind(n) /\ p.tier \in {Levels, Fields, Profs, Groups} /\ n \in p.tier
    BY <1>2, KindIsTable
  <2>2. Gathered(p)
    BY <2>1, SearchedAbove DEF Gathered, IInv
  <2>3. Gathered(p)'
    BY <1>3, <2>2 DEF Gathered, There, records
  <2>4. ArchiveWell(r)'
    BY <1>2, <1>3, <2>1, <2>3 DEF ArchiveWell
  <2> QED BY <1>3, <2>4 DEF ReadWell, OpenWell, DetachWell, UpdateWell, MoveWell, RemoveWell,
                            BillWell, RenewWell, ImportWell, At
<1>4. Begins(r, op, n) /\ (Read(r, p) \/ Refuse(r))
  BY <1>1, <1>2 DEF Look
<1> QED BY <1>3, <1>4, ReadKeeps

\* So does the search of one more table.
LEMMA ScanKeeps ==
  ASSUME NEW r \in Callers, IInv, Scan(r)
  PROVE  IInv'
<1>1. PICK p, op, table, more :
        /\ p = plan[r] /\ op = job[r].op /\ table = KidKind(p.tier)
        /\ more = IF table = Students THEN PupilsUnder(op, p.found) ELSE Under(p.found, table)
  OBVIOUS
<1>2. PICK q : q = [p EXCEPT !.found = @ \cup more, !.tier = table]
  OBVIOUS
<1>3. /\ stage[r] = "read" /\ op \in {"archive", "delete", "purge"} /\ p.tier # LastTier(op)
      /\ To(r, "read") /\ plan' = [plan EXCEPT ![r] = q] /\ UNCHANGED <<records, job, stale>>
  BY <1>1, <1>2 DEF Scan
<1>4. Requests' /\ OthersKept(r) /\ NoEdit(r) /\ plan'[r] = q /\ stage'[r] = "read"
  BY <1>1, <1>3 DEF To, IInv, Requests, OthersKept, Kept, NoEdit
<1>5. ASSUME op = "archive" PROVE ArchiveWell(r)'
  <2>1. /\ p = [node |-> p.node, found |-> p.found, tier |-> p.tier]
        /\ p.node \in Nodes /\ p.node \in p.found /\ p.tier \in {Levels, Fields, Profs, Groups}
        /\ r \in stale \/ Gathered(p)
    BY <1>1, <1>3, <1>5 DEF IInv, ReadWell, ArchiveWell, At
  <2>2. q = [node |-> p.node, found |-> p.found \cup more, tier |-> table]
    BY <1>2, <2>1
  <2>3. q.node = p.node /\ q.found = p.found \cup more /\ q.tier = table
    BY <2>2
  <2>4. /\ table \in {Fields, Profs, Groups} /\ table # Students
        /\ Searched(table) = Searched(p.tier) \cup table
    BY <1>1, <1>3, <1>5, <2>1, Tiers DEF LastTier
  <2>5. more = {c \in table : There(c) /\ node[c].up \in p.found}
    BY <1>1, <2>4 DEF Under
  <2>6. ASSUME Gathered(p), NEW c \in Searched(table), There(c), node[c].up \in p.found \cup more
        PROVE  c \in p.found \cup more
    <3>1. node[c].up \notin table
      BY <2>4, <2>6, SearchedAbove DEF IInv
    <3>2. node[c].up \in p.found
      BY <2>5, <2>6, <3>1
    <3> QED BY <2>4, <2>5, <2>6, <3>2 DEF Gathered
  <2>7. Gathered(p) => Gathered(q)
    BY <2>3, <2>6 DEF Gathered
  <2>8. Gathered(q) => Gathered(q)'
    BY <1>3 DEF Gathered, There, records
  <2> QED BY <1>3, <1>4, <2>1, <2>2, <2>3, <2>4, <2>7, <2>8 DEF ArchiveWell
<1>6. ReadWell(r)'
  <2>1. job'[r].op \in {"archive", "delete", "purge"} /\ stage'[r] = "read"
    BY <1>1, <1>3, <1>4
  <2>2. ArchiveWell(r)'
    BY <1>1, <1>3, <1>5 DEF ArchiveWell, At
  <2> QED BY <2>1, <2>2 DEF ReadWell, OpenWell, DetachWell, UpdateWell, MoveWell, RemoveWell,
                            BillWell, RenewWell, ImportWell, At
<1> QED BY <1>3, <1>4, <1>6, QuietKeeps

\* Every child goes to a row of the node's own table, or to a parking place.
LEMMA ChosenTyped ==
  ASSUME NEW n \in Nodes, NEW choice \in Plans(n), NEW c
  PROVE  Chosen(choice, c) \in Kind(n) \cup {None}
<1>1. Places(n) \subseteq Kind(n) \cup {None}
  BY DEF Places, Used
<1>2. CASE choice \in [to : {[x \in {} |-> None]}, rest : Places(n)]
  BY <1>1, <1>2 DEF Chosen
<1>3. CASE choice \in [to : [DirectKids(n) -> Places(n)], rest : {None}]
  BY <1>1, <1>3 DEF Chosen
<1> QED BY <1>2, <1>3 DEF Plans

\* Looking at the children a detachment would move keeps the invariant.
LEMMA VetDetachKeeps ==
  ASSUME NEW r \in Callers, IInv, VetDetach(r)
  PROVE  IInv'
<1>1. PICK n \in Used(Nodes) : \E choice \in Plans(n) :
        /\ Begins(r, "detach", choice)
        /\ IF Active(n)
           THEN Read(r, [node |-> n, up |-> node[n].up, choice |-> choice, left |-> {}, goes |-> [c \in {} |-> None]])
           ELSE Refuse(r)
  BY DEF VetDetach
<1>2. PICK choice \in Plans(n) :
        /\ Begins(r, "detach", choice)
        /\ IF Active(n)
           THEN Read(r, [node |-> n, up |-> node[n].up, choice |-> choice, left |-> {}, goes |-> [c \in {} |-> None]])
           ELSE Refuse(r)
  BY <1>1
<1>3. PICK p : p = [node |-> n, up |-> node[n].up, choice |-> choice, left |-> {}, goes |-> [c \in {} |-> None]]
  OBVIOUS
<1>4. n \in Nodes /\ node[n].up \in ParentKind(Kind(n))
  BY DEF Used, IInv, Rows, RowsTyped, There
<1>5. \A c \in Nodes \cup Students : Chosen(choice, c) \in Kind(n) \cup {None}
  BY <1>4, ChosenTyped
<1>6. Ready(p) /\ p.node = n
  BY <1>3, <1>4, <1>5 DEF Ready
<1>7. ASSUME stage'[r] = "read", job'[r].op = "detach", plan'[r] = p, UNCHANGED records, Active(n)
      PROVE  ReadWell(r)'
  <2>1. Active(plan[r].node)'
    BY <1>6, <1>7 DEF Active, There, records
  <2>2. DetachWell(r)'
    BY <1>3, <1>6, <1>7, <2>1 DEF DetachWell, At, Ready, Chosen, Hung
  <2> QED BY <1>7, <2>2 DEF ReadWell, OpenWell, ArchiveWell, UpdateWell, MoveWell, RemoveWell, BillWell, RenewWell, ImportWell, At
<1>8. CASE Active(n)
  <2>1. Begins(r, "detach", choice) /\ Read(r, p)
    BY <1>2, <1>3, <1>8
  <2> QED BY <1>7, <1>8, <2>1, ReadKeeps
<1>9. CASE ~Active(n)
  <2>1. Begins(r, "detach", choice) /\ Refuse(r)
    BY <1>2, <1>9
  <2>2. stage'[r] # "read"
    BY <2>1 DEF Refuse, To, IInv, Requests
  <2> QED BY <2>1, <2>2, ReadKeeps
<1> QED BY <1>8, <1>9

-----------------------------------------------------------------------------
(* Archive, delete, detach. *)

\* A refusal keeps the invariant.
LEMMA RefuseKeeps ==
  ASSUME NEW r \in Callers, IInv, NoEdit(r), Asks(r), Refuse(r)
  PROVE  IInv'
<1>1. Requests' /\ OthersKept(r) /\ UNCHANGED records /\ stage'[r] = "refused"
  BY ReadOutcome DEF Refuse, Stages, IInv
<1> QED BY <1>1, RestWell, QuietKeeps DEF Resting

\* Archiving a node and all that was found under it keeps the invariant.
LEMMA ArchiveKeeps ==
  ASSUME NEW r \in Callers, IInv, ArchiveCascade(r)
  PROVE  IInv'
<1> DEFINE nodes == [m \in Nodes |-> IF m \in plan[r].found /\ There(m)
                                     THEN [node[m] EXCEPT !.active = FALSE] ELSE node[m]]
<1>1. NoEdit(r) /\ Asks(r) /\ At(r, "archive", "read")
  BY FollowsAsks DEF ArchiveCascade, IInv, NoEdit, At
<1>2. CASE Commit(r, "written", nodes, pupil, invoice, ledger)
  <2>1. RowsTyped(nodes, pupil, invoice, ledger)
    BY DEF IInv, Rows, RowsTyped, NodeRow, There
  <2> QED BY <1>1, <1>2, <2>1, NodesKeep
<1> QED BY <1>1, <1>2, RefuseKeeps DEF ArchiveCascade

\* Taking out a subtree and its students keeps the invariant.
LEMMA PurgedKeeps ==
  ASSUME NEW r \in Callers, IInv, NoEdit(r), Asks(r), Purged(r)
  PROVE  IInv'
<1> DEFINE gone == plan[r].found
           nodes == [m \in Nodes |-> IF m \in gone THEN None ELSE node[m]]
           pupils == [s \in Students |-> IF s \in gone THEN None ELSE pupil[s]]
           inv == [b \in Bills |-> IF b[1] \in gone \/ b[2] \in gone THEN None ELSE invoice[b]]
           rows == {x \in ledger : x.prof \notin gone}
<1>1. RowsTyped(nodes, pupils, inv, rows)
  BY DEF IInv, Rows, RowsTyped
<1>2. \A s \in Students : Housed(s, pupils) \/ Torn(s)
  BY DEF IInv, HomeIsEnrolled, Housed
<1>3. Commit(r, "written", nodes, pupils, inv, rows)
  BY DEF Purged
<1> HIDE DEF nodes, pupils, inv, rows
<1> QED BY <1>1, <1>2, <1>3, LastCommitKeeps

\* Both deletions are such a removal.
LEMMA DeletesKeep ==
  ASSUME NEW r \in Callers, IInv, DeleteCascade(r) \/ HardDelete(r)
  PROVE  IInv'
<1>1. NoEdit(r) /\ Asks(r)
  BY FollowsAsks DEF DeleteCascade, HardDelete, IInv, NoEdit, At
<1> QED BY <1>1, PurgedKeeps DEF DeleteCascade, HardDelete

\* An enrolment that moves keeps the student's row in order.
LEMMA MovedTyped ==
  ASSUME NEW s \in PupilRow, NEW from, NEW target \in Groups
  PROVE  /\ Moved(s, from, target) \in PupilRow
         /\ Moved(s, from, target).pen = s.pen
         /\ s.home \in DOMAIN s.fees => Moved(s, from, target).home \in DOMAIN Moved(s, from, target).fees
<1> DEFINE f == s.fees
           kept == DOMAIN f \ {from}
           fees == [g \in kept \cup {target} |-> IF g \in kept THEN f[g] ELSE 0]
           home == IF s.home = from THEN target ELSE s.home
<1>1. Moved(s, from, target) = [s EXCEPT !.home = home, !.fees = fees]
  BY DEF Moved
<1>2. f \in FeeTables
  BY PupilRows
<1>3. kept \cup {target} \in SUBSET Groups /\ fees \in [kept \cup {target} -> Fees \cup {0}]
  BY <1>2, FeesOf
<1>4. fees \in FeeTables
  BY <1>3, FeesOf
<1>5. home \in Groups
  BY PupilRows
<1>6. s.home \in DOMAIN f => home \in DOMAIN fees
  OBVIOUS
<1> HIDE DEF fees, home
<1> QED BY <1>1, <1>4, <1>5, <1>6, PupilRows

\* A child is there, and of the kind that hangs under its parent.
LEMMA KidHangs ==
  ASSUME Rows, NEW n \in Nodes, NEW m \in Kids(n)
  PROVE  There(m) /\ m \in Nodes /\ ParentKind(Kind(m)) = Kind(n)
<1>1. m \in Nodes /\ There(m) /\ n \in ParentKind(Kind(m)) /\ n # None
  BY RowsAssumption DEF Kids, Rows, RowsTyped, There
<1>2. CASE m \in Levels
  BY <1>1, <1>2, Hangs
<1>3. CASE m \in Fields
  BY <1>1, <1>3, Hangs, Kinds
<1>4. CASE m \in Profs
  BY <1>1, <1>4, Hangs, Kinds
<1>5. CASE m \in Groups
  BY <1>1, <1>5, Hangs, Kinds
<1> QED BY <1>1, <1>2, <1>3, <1>4, <1>5 DEF Nodes

Right(n, row) == row \in NodeRow /\ row.up \in ParentKind(Kind(n))

\* What a placed batch of children is.
LEMMA SentIs ==
  ASSUME NEW p, Ready(p), NEW batch, NEW t, NEW q, q = Sent(p, batch, t)
  PROVE  /\ q = [node |-> p.node, up |-> p.up, choice |-> p.choice, left |-> q.left, goes |-> q.goes]
         /\ q.node = p.node /\ q.up = p.up /\ q.choice = p.choice
         /\ q.left = p.left \ batch
         /\ DOMAIN q.goes = DOMAIN p.goes \cup batch /\ q.goes = [c \in DOMAIN q.goes |-> q.goes[c]]
         /\ \A c \in DOMAIN q.goes : q.goes[c] = IF c \in batch THEN t ELSE p.goes[c]
<1>1. PICK goes : goes = [c \in DOMAIN p.goes \cup batch |-> IF c \in batch THEN t ELSE p.goes[c]]
  OBVIOUS
<1>2. p = [node |-> p.node, up |-> p.up, choice |-> p.choice, left |-> p.left, goes |-> p.goes]
  BY DEF Ready
<1>3. q = [p EXCEPT !.left = p.left \ batch, !.goes = goes]
  BY <1>1 DEF Sent
<1>4. q = [node |-> p.node, up |-> p.up, choice |-> p.choice, left |-> p.left \ batch, goes |-> goes]
  BY <1>2, <1>3
<1> QED BY <1>1, <1>4

\* A batch that is placed where it fits leaves the detachment ready for the next.
LEMMA BatchKeeps ==
  ASSUME NEW r \in Callers, IInv, At(r, "detach", "moving"), NEW p, p = plan[r],
         NEW batch \in SUBSET p.left, NEW t \in Kind(p.node), NEW q, q = Sent(p, batch, t),
         stage'[r] = "moving", job' = job, plan'[r] = q,
         \/ r \in stale'
         \/ /\ r \notin stale /\ pupil' = pupil
            /\ \A m \in Nodes : There(m) => node'[m] = node[m]
            /\ \A m \in Nodes : node'[m] # None /\ ~There(m) => node'[m].up = p.up
            /\ \A c \in batch : Fits(p, c, t)'
  PROVE  ReadWell(r)'
<1>1. Ready(p) /\ (r \in stale \/ (Active(p.node) /\ Knows(p)))
  BY DEF IInv, ReadWell, DetachWell
<1>2. /\ q = [node |-> p.node, up |-> p.up, choice |-> p.choice, left |-> q.left, goes |-> q.goes]
      /\ q.node = p.node /\ q.up = p.up /\ q.choice = p.choice
      /\ q.left = p.left \ batch
      /\ DOMAIN q.goes = DOMAIN p.goes \cup batch /\ q.goes = [c \in DOMAIN q.goes |-> q.goes[c]]
      /\ \A c \in DOMAIN q.goes : q.goes[c] = IF c \in batch THEN t ELSE p.goes[c]
  BY <1>1, SentIs
<1>3. Ready(q)
  BY <1>1, <1>2 DEF Ready
<1>4. ASSUME r \notin stale'
      PROVE  (Active(q.node) /\ Knows(q))'
  <2>1. /\ r \notin stale /\ pupil' = pupil
        /\ \A m \in Nodes : There(m) => node'[m] = node[m]
        /\ \A m \in Nodes : node'[m] # None /\ ~There(m) => node'[m].up = p.up
        /\ \A c \in batch : Fits(p, c, t)'
    BY <1>4
  <2>2. Active(p.node) /\ p.left \cup DOMAIN p.goes = Children(p.node) /\ p.node \in Nodes
        /\ \A c \in DOMAIN p.goes : Fits(p, c, p.goes[c]) /\ p.goes[c] \in Nodes
    BY <1>1, <2>1, KindIsTable DEF Knows, Ready, Nodes
  <2>3. Active(q.node)'
    BY <1>2, <2>1, <2>2 DEF Active, There
  <2>4. p.up # p.node
    <3>1. p.node \notin ParentKind(Kind(p.node)) /\ p.up \in ParentKind(Kind(p.node))
      BY <1>1, Hangs, TablesAssumption, RowsAssumption DEF Ready, Nodes
    <3> QED BY <3>1
  <2>5. node'[p.node] # None
    BY <2>1, <2>2 DEF Active, There
  <2>6. Children(q.node)' = Children(p.node)
    <3>1. Kids(p.node)' = Kids(p.node)
      BY <2>1, <2>4 DEF Kids, There
    <3>2. Enrolled({p.node})' = Enrolled({p.node})
      BY <2>1 DEF Enrolled
    <3>3. q.node = p.node
      BY <1>2
    <3> QED BY <3>1, <3>2, <3>3 DEF Children
  <2>7. q.left \cup DOMAIN q.goes = Children(p.node)
    BY <1>2, <2>2
  <2>8. ASSUME NEW c \in DOMAIN q.goes PROVE Fits(q, c, q.goes[c])'
    <3>1. CASE c \in batch
      BY <1>2, <2>1, <3>1 DEF Fits
    <3>2. CASE c \notin batch
      <4>1. q.goes[c] = p.goes[c] /\ p.goes[c] \in Nodes /\ Fits(p, c, p.goes[c])
        BY <1>2, <2>2, <3>2
      <4>2. node'[p.goes[c]] = node[p.goes[c]]
        BY <2>1, <4>1 DEF Fits
      <4> QED BY <1>2, <4>1, <4>2 DEF Fits, There, Active
    <3> QED BY <3>1, <3>2
  <2> QED BY <2>3, <2>6, <2>7, <2>8 DEF Knows
<1>5. DetachWell(r)'
  <2>1. ~At(r, "detach", "read")' /\ plan'[r] = q
    BY DEF At
  <2>2. Ready(q)'
    BY <1>3 DEF Ready, Chosen, Hung
  <2>3. r \in stale' \/ (Active(q.node)' /\ Knows(q)')
    BY <1>4
  <2>4. Ready(plan[r])' /\ (r \in stale \/ Active(plan[r].node))' /\ (r \in stale \/ Knows(plan[r]))'
    <3>1. plan[r]' = q
      BY <2>1
    <3>2. Ready(plan[r])'
      BY <2>2, <3>1 DEF Ready, Chosen, Hung
    <3>3. Active(plan[r].node)' <=> Active(q.node)'
      BY <3>1 DEF Active, There
    <3>4. Knows(plan[r])' <=> Knows(q)'
      BY <3>1 DEF Knows, Fits, Active, There, Children, Kids, Enrolled
    <3> QED BY <2>3, <3>2, <3>3, <3>4
  <2> QED BY <2>1, <2>4 DEF DetachWell
<1>6. job'[r].op = "detach"
  BY DEF At
<1> QED BY <1>5, <1>6 DEF ReadWell, OpenWell, ArchiveWell, UpdateWell, MoveWell, RemoveWell, BillWell, RenewWell, ImportWell, At

\* A batch is of children still to place, with one choice.
LEMMA BatchIs ==
  ASSUME NEW p, NEW t, NEW batch \in Together(p, t)
  PROVE  batch \subseteq p.left /\ \A c \in batch : Chosen(p.choice, c) = t
  BY DEF Together

\* Looking for the children again keeps the invariant.
LEMMA FindKeeps ==
  ASSUME NEW r \in Callers, IInv, FindChildren(r)
  PROVE  IInv'
<1>1. PICK p, q : p = plan[r] /\ q = [p EXCEPT !.left = Children(p.node)]
  OBVIOUS
<1>2. /\ At(r, "detach", "read") /\ NoEdit(r) /\ job' = job /\ To(r, "moving")
      /\ plan' = [plan EXCEPT ![r] = q] /\ UNCHANGED <<records, stale>>
  BY <1>1 DEF FindChildren, Follows, At, NoEdit
<1>3. Requests' /\ OthersKept(r) /\ plan'[r] = q /\ stage'[r] = "moving"
  BY <1>2 DEF To, IInv, Requests, OthersKept, Kept, Stages
<1>4. Ready(p) /\ (r \in stale \/ Active(p.node)) /\ DOMAIN p.goes = {}
  BY <1>1, <1>2 DEF IInv, ReadWell, DetachWell
<1>5. q = [node |-> p.node, up |-> p.up, choice |-> p.choice, left |-> Children(p.node), goes |-> p.goes]
  BY <1>1, <1>4 DEF Ready
<1>6. \A c \in Children(p.node) : Hung(p.node, c)
  <2>1. p.node \in Nodes
    BY <1>4 DEF Ready
  <2> QED BY <2>1, KidHangs DEF Children, Hung, Enrolled, IInv
<1>7. Ready(q) /\ q.node = p.node
  BY <1>4, <1>5, <1>6 DEF Ready
<1>8. UNCHANGED records => Active(q.node)' = Active(q.node) /\ Children(q.node)' = Children(q.node)
  BY DEF records, Active, There, Children, Kids, Enrolled
<1>9. q.left \cup DOMAIN q.goes = Children(q.node) /\ DOMAIN q.goes = {}
  BY <1>4, <1>5, <1>7
<1>10. DetachWell(r)'
  BY <1>2, <1>3, <1>4, <1>7, <1>8, <1>9 DEF DetachWell, At, Ready, Chosen, Hung, Knows
<1>11. job'[r].op = "detach"
  BY <1>2 DEF At
<1>12. ReadWell(r)'
  BY <1>3, <1>10, <1>11 DEF ReadWell, OpenWell, ArchiveWell, UpdateWell, MoveWell, RemoveWell, BillWell, RenewWell, ImportWell, At
<1> QED BY <1>2, <1>3, <1>12, QuietKeeps

\* Placing the children of one target keeps the invariant.
LEMMA ReassignKeeps ==
  ASSUME NEW r \in Callers, IInv, Reassign(r)
  PROVE  IInv'
<1>1. PICK p : p = plan[r]
  OBVIOUS
<1>2. At(r, "detach", "moving") /\ NoEdit(r) /\ Asks(r) /\ job' = job
  <2>1. Follows(r, "detach", "moving")
    BY DEF Reassign
  <2> QED BY <2>1, FollowsAsks DEF IInv, NoEdit, At
<1>3. PICK t \in {Chosen(p.choice, c) : c \in p.left} \ {None} : \E batch \in Together(p, t) :
          IF Accepts(p, t)
          THEN To(r, "moving") /\ plan' = [plan EXCEPT ![r] = Sent(p, batch, t)] /\ UNCHANGED <<records, stale>>
          ELSE Refuse(r)
  BY <1>1 DEF Reassign
<1>4. CASE Refuse(r)
  BY <1>2, <1>4, RefuseKeeps
<1>5. CASE Accepts(p, t) /\ ~Refuse(r)
  <2>1. PICK batch \in Together(p, t) :
          To(r, "moving") /\ plan' = [plan EXCEPT ![r] = Sent(p, batch, t)] /\ UNCHANGED <<records, stale>>
    BY <1>3, <1>5
  <2>2. PICK q : q = Sent(p, batch, t)
    OBVIOUS
  <2>3. Requests' /\ OthersKept(r) /\ plan'[r] = q /\ stage'[r] = "moving" /\ UNCHANGED records /\ stale' = stale
    BY <1>2, <2>1, <2>2 DEF To, IInv, Requests, OthersKept, Kept, Stages
  <2>4. Ready(p)
    BY <1>1, <1>2 DEF IInv, ReadWell, DetachWell
  <2>5. t \in Kind(p.node)
    <3>1. PICK c \in p.left : t = Chosen(p.choice, c) /\ t # None
      OBVIOUS
    <3>2. c \in Nodes \cup Students
      BY <2>4 DEF Ready, Hung
    <3> QED BY <2>4, <3>1, <3>2 DEF Ready
  <2>6. \A c \in batch : Fits(p, c, t)'
    <3> SUFFICES ASSUME NEW c \in batch PROVE Fits(p, c, t)'
      OBVIOUS
    <3>1. Chosen(p.choice, c) = t
      BY BatchIs
    <3>2. Fits(p, c, t)
      BY <1>5, <3>1 DEF Accepts, Fits, Active
    <3> QED BY <2>3, <3>2 DEF Fits, There, Active, Chosen, records
  <2>7. ReadWell(r)'
    <3>1. batch \in SUBSET p.left
      BY BatchIs
    <3>2. \A m \in Nodes : There(m) => node'[m] = node[m]
      BY <2>3 DEF records
    <3>3. \A m \in Nodes : node'[m] # None /\ ~There(m) => node'[m].up = p.up
      BY <2>3 DEF records, There
    <3>4. pupil' = pupil
      BY <2>3 DEF records
    <3> QED BY <1>1, <1>2, <2>2, <2>3, <2>5, <2>6, <3>1, <3>2, <3>3, <3>4, BatchKeeps
  <2> QED BY <1>2, <2>3, <2>7, QuietKeeps
<1> QED BY <1>3, <1>4, <1>5

\* Parking children keeps the invariant, whether or not the parking place is new.
LEMMA ParkKeeps ==
  ASSUME NEW r \in Callers, IInv, Park(r)
  PROVE  IInv'
<1>1. PICK p, kind : p = plan[r] /\ kind = Kind(p.node)
  OBVIOUS
<1>2. At(r, "detach", "moving") /\ NoEdit(r) /\ Asks(r) /\ job' = job
  <2>1. Follows(r, "detach", "moving")
    BY DEF Park
  <2> QED BY <2>1, FollowsAsks DEF IInv, NoEdit, At
<1>3. CASE Refuse(r)
  BY <1>2, <1>3, RefuseKeeps
<1>4. CASE ~Refuse(r)
  <2>1. PICK batch \in Together(p, None) :
          /\ Pennable(kind, p.up) /\ (p.up = None \/ There(p.up))
          /\ To(r, "moving") /\ plan' = [plan EXCEPT ![r] = Sent(p, batch, Pen(kind, p.up))]
          /\ node' = WithPen(kind, p.up) /\ UNCHANGED <<pupil, invoice, ledger>>
          /\ IF Pens(kind, p.up) = {} THEN Outdate(r) ELSE UNCHANGED stale
    BY <1>1, <1>4 DEF Park
  <2>2. PICK t, q : t = Pen(kind, p.up) /\ q = Sent(p, batch, t)
    OBVIOUS
  <2>3. Ready(p) /\ Rows
    BY <1>1, <1>2 DEF IInv, ReadWell, DetachWell
  <2>4. p.node \in Nodes /\ p.up \in ParentKind(kind) /\ kind \in {Levels, Fields, Profs, Groups}
    BY <1>1, <2>3, KindIsTable DEF Ready
  <2>5. t \in kind /\ RowsTyped(node', pupil', invoice', ledger')
    BY <2>1, <2>2, <2>3, <2>4, PenTyped
  <2>6. IF Pens(kind, p.up) = {} THEN t \in Fresh(kind) ELSE t \in Pens(kind, p.up)
    <3>1. \E c \in IF Pens(kind, p.up) # {} THEN Pens(kind, p.up) ELSE Fresh(kind) : TRUE
      BY <2>1 DEF Pennable
    <3> QED BY <2>2, <3>1 DEF Pen
  <2>7. t \in Nodes /\ node \in [Nodes -> NodeRow \cup {None}]
    BY <2>3, <2>4, <2>5 DEF Nodes, Rows, RowsTyped
  <2>8. node' = IF Pens(kind, p.up) = {} THEN [node EXCEPT ![t] = Row(p.up, TRUE, None)] ELSE node
    BY <2>1, <2>2 DEF WithPen
  <2>9. \A m \in Nodes : There(m) => node'[m] = node[m]
    BY <2>6, <2>7, <2>8 DEF Fresh
  <2>10. /\ node'[t] # None /\ node'[t].up = p.up /\ node'[t].pen /\ ~node'[t].active
    <3>1. CASE Pens(kind, p.up) = {}
      <4>1. Kind(t) = kind
        BY <2>4, <2>5, Kinds
      <4>2. Row(p.up, TRUE, None) \in NodeRow
        BY <2>4, <2>7, <4>1, RowTyped, RowsAssumption
      <4>3. node'[t] = Row(p.up, TRUE, None)
        BY <2>7, <2>8, <3>1
      <4>4. Row(p.up, TRUE, None) # None
        BY <4>2, NullAssumption
      <4>5. LET row == Row(p.up, TRUE, None) IN row.up = p.up /\ row.pen = TRUE /\ row.active = FALSE
        BY DEF Row
      <4> QED BY <4>3, <4>4, <4>5
    <3>2. CASE Pens(kind, p.up) # {}
      BY <2>6, <2>8, <3>2 DEF Pens, There
    <3> QED BY <3>1, <3>2
  <2>11. \A m \in Nodes : node'[m] # None /\ ~There(m) => node'[m].up = p.up /\ m = t
    BY <2>7, <2>8, <2>10 DEF There
  <2>12. Requests' /\ OthersKept(r) /\ plan'[r] = q /\ stage'[r] = "moving"
    <3>1. Pens(kind, p.up) # {} => UNCHANGED records
      BY <2>1, <2>8 DEF records
    <3> QED BY <1>2, <2>1, <2>2, <3>1 DEF To, IInv, Requests, OthersKept, Kept, Stages, Outdate
  <2>13. \A c \in batch : Fits(p, c, t)'
    BY <2>10 DEF Fits, There
  <2>14. ReadWell(r)'
    <3>1. batch \in SUBSET p.left
      BY BatchIs
    <3>2. r \in stale' \/ r \notin stale
      BY <2>1 DEF Outdate
    <3> QED BY <1>1, <1>2, <2>1, <2>2, <2>5, <2>9, <2>11, <2>12, <2>13, <3>1, <3>2, BatchKeeps
  <2>15. Linked'
    <3>1. \A m \in Nodes : node'[m] # None /\ node'[m].up # None => node'[node'[m].up] # None
      <4> SUFFICES ASSUME NEW m \in Nodes, node'[m] # None, node'[m].up # None PROVE node'[node'[m].up] # None
        OBVIOUS
      <4>1. There(node'[m].up)
        BY <2>1, <2>3, <2>9, <2>11 DEF Rows, Linked, There
      <4>2. node'[m].up \in Nodes
        BY <2>5 DEF RowsTyped, NodeRow
      <4> QED BY <2>9, <4>1, <4>2 DEF There
    <3>2. \A s \in Students : pupil[s] # None =>
              pupil[s].home \in Nodes /\ \A g \in DOMAIN pupil[s].fees : g \in Nodes
      BY <2>3, PupilRows, FeesOf DEF Rows, RowsTyped, Nodes
    <3>3. \A b \in Bills : b[2] \in Nodes
      BY DEF Bills, Nodes
    <3>4. Profs \subseteq Nodes
      BY DEF Nodes
    <3>5. \A m \in Nodes : There(m) => There(m)'
      BY <2>9 DEF There
    <3> QED BY <2>1, <2>3, <3>1, <3>2, <3>3, <3>4, <3>5 DEF Rows, Linked, There
  <2>16. HomeIsEnrolled'
    BY <1>2, <2>1, <2>12, TornStays DEF IInv, HomeIsEnrolled, NoEdit
  <2>17. \A c \in Callers : ReadWell(c)'
    BY <2>12, <2>14, KeptWell DEF IInv, OthersKept
  <2> QED BY <2>5, <2>12, <2>15, <2>16, <2>17 DEF IInv, Rows
<1> QED BY <1>3, <1>4

\* Detaching a node from the children that were placed keeps the invariant.
LEMMA DetachKeeps ==
  ASSUME NEW r \in Callers, IInv, Detach(r)
  PROVE  IInv'
<1>1. PICK p, n, moving : p = plan[r] /\ n = p.node /\ moving = DOMAIN p.goes
  OBVIOUS
<1> DEFINE moved == [m \in Nodes |-> IF m \in moving /\ There(m) THEN [node[m] EXCEPT !.up = p.goes[m]] ELSE node[m]]
           nodes == [m \in Nodes |-> IF m = n /\ There(m) THEN [moved[m] EXCEPT !.active = FALSE] ELSE moved[m]]
           pupils == [s \in Students |-> IF s \in moving THEN Moved(pupil[s], n, p.goes[s]) ELSE pupil[s]]
<1>2. NoEdit(r) /\ Asks(r) /\ At(r, "detach", "moving") /\ Rows
  <2>1. Follows(r, "detach", "moving")
    BY DEF Detach
  <2> QED BY <2>1, FollowsAsks DEF IInv, NoEdit, At
<1>3. Ready(p)
  BY <1>1, <1>2 DEF IInv, ReadWell, DetachWell
<1>4. /\ n \in Nodes /\ Kind(n) \in {Levels, Fields, Profs, Groups} /\ n \in Kind(n)
      /\ \A c \in moving : Hung(n, c) /\ p.goes[c] \in Kind(n)
  BY <1>1, <1>3, KindIsTable DEF Ready
<1>5. \A m \in Nodes : There(m) => Right(m, moved[m])
  <2> SUFFICES ASSUME NEW m \in Nodes, There(m) PROVE Right(m, moved[m])
    OBVIOUS
  <2>1. Right(m, node[m])
    BY <1>2 DEF Rows, RowsTyped, There, Right
  <2>2. CASE m \in moving
    <3>1. ParentKind(Kind(m)) = Kind(n) /\ p.goes[m] \in Kind(n)
      BY <1>4, <2>2, TablesAssumption DEF Hung
    <3>2. p.goes[m] \in Nodes
      BY <1>4, <3>1 DEF Nodes
    <3>3. moved[m] = [node[m] EXCEPT !.up = p.goes[m]]
      BY <2>2
    <3> HIDE DEF moved
    <3> QED BY <2>1, <3>1, <3>2, <3>3 DEF NodeRow, Right
  <2> QED BY <2>1, <2>2
<1>6. \A m \in Nodes : ~There(m) => moved[m] = None
  BY DEF There
<1> HIDE DEF moved
<1>7. ASSUME NEW m \in Nodes
      PROVE  /\ nodes[m] \in NodeRow \cup {None}
             /\ nodes[m] # None => nodes[m].up \in ParentKind(Kind(m))
  <2>1. CASE There(m)
    <3>1. moved[m] \in NodeRow /\ moved[m].up \in ParentKind(Kind(m))
      BY <1>5, <2>1 DEF Right
    <3>2. nodes[m] = moved[m] \/ nodes[m] = [moved[m] EXCEPT !.active = FALSE]
      OBVIOUS
    <3> HIDE DEF nodes
    <3> QED BY <3>1, <3>2 DEF NodeRow
  <2>2. CASE ~There(m)
    BY <1>6, <2>2
  <2> QED BY <2>1, <2>2
<1>8. ASSUME \A s \in moving \cap Students : pupil[s] # None, NEW s \in Students
      PROVE  pupils[s] \in PupilRow \cup {None} /\ (Housed(s, pupils) \/ Torn(s))
  <2>1. pupil[s] \in PupilRow \cup {None} /\ (Housed(s, pupil) \/ Torn(s))
    BY <1>2 DEF IInv, HomeIsEnrolled, Housed, Rows, RowsTyped
  <2>2. CASE s \in moving
    <3>1. pupil[s] # None /\ p.goes[s] \in Groups
      BY <1>4, <1>8, <2>2, Kinds, TablesAssumption DEF Hung
    <3>2. pupils[s] = Moved(pupil[s], n, p.goes[s])
      BY <2>2
    <3> HIDE DEF pupils
    <3> QED BY <2>1, <3>1, <3>2, MovedTyped DEF Housed
  <2>3. CASE s \notin moving
    BY <2>1, <2>3 DEF Housed
  <2> QED BY <2>2, <2>3
<1>9. \/ Refuse(r)
      \/ (\A s \in moving \cap Students : pupil[s] # None) /\ Commit(r, "written", nodes, pupils, invoice, ledger)
  BY <1>1 DEF Detach, moved
<1>10. CASE (\A s \in moving \cap Students : pupil[s] # None) /\ Commit(r, "written", nodes, pupils, invoice, ledger)
  <2>1. RowsTyped(nodes, pupils, invoice, ledger)
    BY <1>2, <1>7, <1>8, <1>10 DEF Rows, RowsTyped
  <2>2. \A s \in Students : Housed(s, pupils) \/ Torn(s)
    BY <1>8, <1>10
  <2> HIDE DEF nodes, pupils
  <2> QED BY <1>2, <1>10, <2>1, <2>2, LastCommitKeeps
<1> QED BY <1>2, <1>9, <1>10, RefuseKeeps

-----------------------------------------------------------------------------
(* Students. *)

\* Writing one student keeps the invariant.
LEMMA PupilKeeps ==
  ASSUME NEW r \in Callers, IInv, NoEdit(r), Asks(r), NEW next \in {"written", "refused", "enrolled"},
         NEW s \in Students, NEW row \in PupilRow, row.pen \/ row.home \in DOMAIN row.fees \/ Torn(s),
         Commit(r, next, node, [pupil EXCEPT ![s] = row], invoice, ledger)
  PROVE  IInv'
<1> DEFINE pupils == [pupil EXCEPT ![s] = row]
<1>1. RowsTyped(node, pupils, invoice, ledger)
  BY DEF IInv, Rows, RowsTyped
<1>2. \A x \in Students : Housed(x, pupils) \/ Torn(x)
  BY DEF IInv, HomeIsEnrolled, Housed, Rows, RowsTyped
<1> QED BY <1>1, <1>2, LastCommitKeeps

\* What counts as used is there.
LEMMA UsedAre ==
  /\ \A K \in {Levels, Fields, Profs, Groups} : \A n \in Used(K) : n \in K /\ There(n)
  /\ \A s \in Used(Students) : s \in Students /\ pupil[s] # None
  BY TablesAssumption DEF Used, Nodes

\* What a request may ask to be enrolled in.
LEMMA EnrolmentsTyped == \A fees \in Enrolments : fees \in FeeTables /\ DOMAIN fees \subseteq Groups
<1> SUFFICES ASSUME NEW fees \in Enrolments PROVE fees \in FeeTables /\ DOMAIN fees \subseteq Groups
  OBVIOUS
<1>1. PICK gs \in SUBSET Groups : fees \in [gs -> Offers]
  BY DEF Enrolments
<1>2. fees \in [gs -> Fees \cup {0}]
  BY <1>1, RowsAssumption
<1> QED BY <1>1, <1>2, FeesOf

\* Enrolling a student keeps the invariant.
LEMMA EnrolKeeps ==
  ASSUME NEW r \in Callers, IInv, Enrol(r)
  PROVE  IInv'
<1> DEFINE s == CHOOSE x \in Newcomers : TRUE
<1>1. PICK fees \in Enrolments, since \in Months : \E home \in DOMAIN fees :
        /\ Newcomers # {}
        /\ Begins(r, "enrol", [student |-> s, ahead |-> 0, group |-> None])
        /\ Commit(r, "enrolled", node, [pupil EXCEPT ![s] = PupilOf(home, since, None, fees)], invoice, ledger)
  BY DEF Enrol
<1>2. PICK home \in DOMAIN fees :
        /\ Newcomers # {}
        /\ Begins(r, "enrol", [student |-> s, ahead |-> 0, group |-> None])
        /\ Commit(r, "enrolled", node, [pupil EXCEPT ![s] = PupilOf(home, since, None, fees)], invoice, ledger)
  BY <1>1
<1>3. s \in Students
  BY <1>2 DEF Newcomers
<1> HIDE DEF s
<1>4. PupilOf(home, since, None, fees) \in PupilRow
      /\ PupilOf(home, since, None, fees).home \in DOMAIN PupilOf(home, since, None, fees).fees
  BY EnrolmentsTyped, PupilOfTyped, RowsAssumption
<1>5. NoEdit(r) /\ Asks(r)
  BY <1>2, BeginsStarts DEF Starts, NoEdit, IInv
<1> QED BY <1>2, <1>3, <1>4, <1>5, PupilKeeps

\* The first statement of an edit leaves the student torn until the second.
LEMMA UpdateEnrolmentsKeeps ==
  ASSUME NEW r \in Callers, IInv, UpdateEnrolments(r)
  PROVE  IInv'
<1>1. PICK s \in Used(Students), fees \in Enrolments : \E home \in DOMAIN fees :
        /\ DOMAIN fees \subseteq Used(Groups)
        /\ Begins(r, "update", [student |-> s, home |-> home])
        /\ Commit(r, "assigned", node, [pupil EXCEPT ![s].fees = fees], invoice, ledger)
  BY DEF UpdateEnrolments
<1>2. PICK home \in DOMAIN fees :
        /\ DOMAIN fees \subseteq Used(Groups)
        /\ Begins(r, "update", [student |-> s, home |-> home])
        /\ Commit(r, "assigned", node, [pupil EXCEPT ![s].fees = fees], invoice, ledger)
  BY <1>1
<1> DEFINE pupils == [pupil EXCEPT ![s].fees = fees]
           row == [pupil[s] EXCEPT !.fees = fees]
<1>3. s \in Students /\ pupil[s] # None /\ home \in Groups /\ There(home) /\ fees \in FeeTables
  BY <1>2, UsedAre, EnrolmentsTyped
<1>4. pupil \in [Students -> PupilRow \cup {None}] /\ pupil[s] \in PupilRow
  BY <1>3 DEF IInv, Rows, RowsTyped
<1>5. row \in PupilRow /\ row.fees = fees
  BY <1>3, <1>4, PupilRows
<1>6. pupils = [pupil EXCEPT ![s] = row] /\ pupils[s] = row
  BY <1>3, <1>4
<1> HIDE DEF row, pupils
<1>7. RowsTyped(node, pupils, invoice, ledger)
  BY <1>3, <1>4, <1>5, <1>6 DEF IInv, Rows, RowsTyped
<1>8. Starts(r, "update") /\ job'[r].on.student = s /\ job'[r].on.home = home
  <2>1. Starts(r, "update") /\ job'[r] = [op |-> "update", on |-> [student |-> s, home |-> home]]
    BY <1>2, BeginsStarts DEF IInv
  <2> QED BY <2>1
<1>9. "assigned" \in Stages
  BY DEF Stages
<1>10. Commit(r, "assigned", node, pupils, invoice, ledger)
  BY <1>2 DEF pupils
<1>11. OthersKept(r)
  BY <1>8, <1>9, <1>10, CommitOutcome DEF IInv, Starts
<1>12. \A x \in Students : Torn(x) => Torn(x)'
  BY <1>8, <1>11, TornStays DEF Starts
<1>13. ASSUME Wrote(r, "assigned", node, pupils, invoice, ledger)
       PROVE  ReadWell(r)' /\ \A x \in Students : Housed(x, pupils) \/ Torn(x)'
  <2>1. stage'[r] = "assigned" /\ pupil' = Cascade(node, pupils)
    BY <1>13 DEF Wrote
  <2>2. pupil'[s] = None \/ home \in DOMAIN pupil'[s].fees
    <3> DEFINE left == [g \in {h \in DOMAIN fees : node[h] # None} |-> fees[g]]
    <3>1. pupil'[s] = IF pupils[s] = None THEN None ELSE [row EXCEPT !.fees = left]
      BY <1>3, <1>5, <1>6, <2>1 DEF Cascade
    <3>2. home \in DOMAIN left
      BY <1>2, <1>3 DEF There
    <3> HIDE DEF left
    <3> QED BY <1>5, <3>1, <3>2, PupilRows
  <2>3. UpdateWell(r)'
    BY <1>3, <1>8, <2>2 DEF UpdateWell
  <2>4. ReadWell(r)'
    BY <1>8, <2>1, <2>3 DEF ReadWell, OpenWell, ArchiveWell, DetachWell, MoveWell, RemoveWell,
                            BillWell, RenewWell, ImportWell, At, Starts
  <2>5. Torn(s)'
    BY <1>8, <2>1 DEF Torn, Starts
  <2>6. \A x \in Students \ {s} : Housed(x, pupils) \/ Torn(x)'
    BY <1>3, <1>4, <1>6, <1>12 DEF IInv, HomeIsEnrolled, Housed
  <2> QED BY <2>4, <2>5, <2>6
<1> QED BY <1>7, <1>8, <1>9, <1>10, <1>12, <1>13, CommitKeeps DEF Starts

\* The second statement ends it, or somebody came in between.
LEMMA UpdateRowKeeps ==
  ASSUME NEW r \in Callers, IInv, UpdateRow(r)
  PROVE  IInv'
<1>1. Asks(r) /\ At(r, "update", "assigned") /\ job' = job
  <2>1. Follows(r, "update", "assigned")
    BY DEF UpdateRow
  <2> QED BY <2>1, FollowsAsks DEF IInv
<1>2. PICK s \in Students, home \in Groups :
        /\ s = job[r].on.student /\ home = job[r].on.home
        /\ r \in stale \/ pupil[s] = None \/ home \in DOMAIN pupil[s].fees
  BY <1>1 DEF IInv, ReadWell, UpdateWell
<1> DEFINE pupils == [pupil EXCEPT ![s].home = home]
           row == [pupil[s] EXCEPT !.home = home]
<1>3. ASSUME OthersKept(r), stage'[r] = "refused" \/ (stage'[r] = "written" /\ r \in stale')
      PROVE  \A x \in Students : Torn(x) => Torn(x)'
  <2> SUFFICES ASSUME NEW x \in Students, Torn(x) PROVE Torn(x)'
    OBVIOUS
  <2>1. PICK q \in Callers :
          /\ stage[q] # "new" /\ job[q].op = "update" /\ job[q].on.student = x
          /\ stage[q] \in {"assigned", "refused"} \/ q \in stale
    BY DEF Torn
  <2>2. CASE q = r
    BY <1>1, <1>3, <2>1, <2>2 DEF Torn, At
  <2>3. CASE q # r
    BY <1>3, <2>1, <2>3 DEF Torn, OthersKept, Kept
  <2> QED BY <2>2, <2>3
<1>4. CASE pupil[s] = None /\ Refuse(r)
  <2>1. Requests' /\ OthersKept(r) /\ UNCHANGED records /\ stage'[r] = "refused"
    BY <1>1, <1>4, ReadOutcome DEF Refuse, Stages, IInv
  <2>2. HomeIsEnrolled'
    BY <1>3, <2>1 DEF IInv, HomeIsEnrolled, records
  <2>3. \A q \in Callers : ReadWell(q)'
    BY <2>1, KeptWell, RestWell DEF IInv, OthersKept, Resting
  <2>4. Rows'
    BY <2>1 DEF IInv, Rows, RowsTyped, Linked, There, records
  <2> QED BY <2>1, <2>2, <2>3, <2>4 DEF IInv
<1>5. CASE pupil[s] # None /\ Commit(r, "written", node, pupils, invoice, ledger)
  <2>1. pupil \in [Students -> PupilRow \cup {None}] /\ pupil[s] \in PupilRow
    BY <1>2, <1>5 DEF IInv, Rows, RowsTyped
  <2>2. row \in PupilRow /\ row.home = home /\ row.fees = pupil[s].fees
    BY <1>2, <2>1, PupilRows
  <2>3. pupils = [pupil EXCEPT ![s] = row]
    BY <2>1
  <2>4. "written" \in Stages
    BY DEF Stages
  <2> HIDE DEF row, pupils
  <2>5. OthersKept(r)
    BY <1>1, <1>5, <2>4, CommitOutcome DEF IInv
  <2>6. RowsTyped(node, pupils, invoice, ledger)
    BY <1>2, <2>1, <2>2, <2>3 DEF IInv, Rows, RowsTyped
  <2>7. ASSUME Wrote(r, "written", node, pupils, invoice, ledger)
        PROVE  ReadWell(r)' /\ \A x \in Students : Housed(x, pupils) \/ Torn(x)'
    <3>1. stage'[r] = "written" /\ (r \in stale' <=> r \in stale)
      BY <2>7 DEF Wrote
    <3>2. ReadWell(r)'
      BY <3>1, RestWell DEF Resting
    <3>3. CASE r \in stale
      <4>1. \A x \in Students : Torn(x) => Torn(x)'
        BY <1>3, <2>5, <3>1, <3>3
      <4>2. Torn(s)'
        BY <1>1, <1>2, <3>1, <3>3 DEF Torn, At
      <4>3. \A x \in Students \ {s} : Housed(x, pupils) \/ Torn(x)'
        BY <1>2, <2>1, <2>3, <4>1 DEF IInv, HomeIsEnrolled, Housed
      <4> QED BY <3>2, <4>2, <4>3
    <3>4. CASE r \notin stale
      <4>1. Housed(s, pupils)
        BY <1>2, <1>5, <2>1, <2>2, <2>3, <3>4 DEF Housed
      <4>2. \A x \in Students \ {s} : Torn(x) => Torn(x)'
        BY <1>1, <1>2, <2>5, <3>4 DEF Torn, OthersKept, Kept, At
      <4>3. \A x \in Students \ {s} : Housed(x, pupils) \/ Torn(x)'
        BY <1>2, <2>1, <2>3, <4>2 DEF IInv, HomeIsEnrolled, Housed
      <4> QED BY <3>2, <4>1, <4>3
    <3> QED BY <3>3, <3>4
  <2> QED BY <1>1, <1>3, <1>5, <2>4, <2>5, <2>6, <2>7, CommitKeeps
<1> QED BY <1>2, <1>4, <1>5 DEF UpdateRow

\* Amending a student keeps the invariant.
LEMMA AmendKeeps ==
  ASSUME NEW r \in Callers, IInv, Amend(r)
  PROVE  IInv'
<1>1. PICK s \in Used(Students), status \in {"active", "withdrawn"}, since \in Months :
        /\ Begins(r, "amend", s)
        /\ Commit(r, "written", node, [pupil EXCEPT ![s].status = status, ![s].since = since], invoice, ledger)
  BY DEF Amend
<1> DEFINE row == [pupil[s] EXCEPT !.status = status, !.since = since]
<1>2. s \in Students /\ pupil[s] # None
  BY UsedAre
<1>3. pupil \in [Students -> PupilRow \cup {None}] /\ pupil[s] \in PupilRow
  BY <1>2 DEF IInv, Rows, RowsTyped
<1>4. row \in PupilRow /\ row.home = pupil[s].home /\ row.fees = pupil[s].fees /\ row.pen = pupil[s].pen
  BY <1>3, PupilRows
<1>5. [pupil EXCEPT ![s].status = status, ![s].since = since] = [pupil EXCEPT ![s] = row]
  BY <1>2, <1>3
<1> HIDE DEF row
<1>6. row.pen \/ row.home \in DOMAIN row.fees \/ Torn(s)
  BY <1>2, <1>4 DEF IInv, HomeIsEnrolled
<1>7. NoEdit(r) /\ Asks(r)
  BY <1>1, BeginsStarts DEF Starts, NoEdit, IInv
<1> QED BY <1>1, <1>2, <1>4, <1>5, <1>6, <1>7, PupilKeeps

\* Looking up where a student would move keeps the invariant.
LEMMA VetMoveKeeps ==
  ASSUME NEW r \in Callers, IInv, VetMove(r)
  PROVE  IInv'
<1>1. PICK s \in Used(Students), g \in Groups : Begins(r, "move", s) /\ (Read(r, g) \/ Refuse(r))
  BY UsedAre DEF VetMove
<1>2. ASSUME stage'[r] = "read", job'[r].op = "move", plan'[r] = g
      PROVE  ReadWell(r)'
  BY <1>1, <1>2 DEF ReadWell, OpenWell, ArchiveWell, DetachWell, UpdateWell, MoveWell, RemoveWell,
                    BillWell, RenewWell, ImportWell, At
<1> QED BY <1>1, <1>2, ReadKeeps

\* Moving a student keeps the invariant.
LEMMA MoveKeeps ==
  ASSUME NEW r \in Callers, IInv, Move(r)
  PROVE  IInv'
<1> DEFINE s == job[r].on
           g == plan[r]
           row == [pupil[s] EXCEPT !.home = g, !.fees = [x \in {g} |-> 0]]
           pupils == [pupil EXCEPT ![s] = [@ EXCEPT !.home = g, !.fees = [x \in {g} |-> 0]]]
<1>1. NoEdit(r) /\ Asks(r) /\ At(r, "move", "read")
  BY FollowsAsks DEF Move, IInv, NoEdit, At
<1>2. g \in Groups
  BY <1>1 DEF IInv, ReadWell, MoveWell
<1>3. pupil \in [Students -> PupilRow \cup {None}]
  BY DEF IInv, Rows, RowsTyped
<1>4. CASE pupil[s] # None /\ Commit(r, "written", node, pupils, invoice, ledger)
  <2>1. CASE s \in Students
    <3> DEFINE fees == [x \in {g} |-> 0]
    <3>1. fees \in FeeTables /\ DOMAIN fees = {g}
      BY <1>2, FeesOf
    <3>2. pupil[s] \in PupilRow
      BY <1>3, <1>4, <2>1
    <3>3. row = [pupil[s] EXCEPT !.home = g, !.fees = fees]
      OBVIOUS
    <3>4. pupils = [pupil EXCEPT ![s] = row]
      BY <1>3, <2>1
    <3> HIDE DEF fees, row, pupils, g, s
    <3>5. row \in PupilRow /\ row.home \in DOMAIN row.fees
      BY <1>2, <3>1, <3>2, <3>3, PupilRows
    <3> QED BY <1>1, <1>4, <2>1, <3>4, <3>5, PupilKeeps
  <2>2. CASE s \notin Students
    <3>1. pupils = pupil
      BY <1>3, <2>2
    <3>2. RowsTyped(node, pupil, invoice, ledger)
      BY DEF IInv, Rows
    <3> QED BY <1>1, <1>4, <3>1, <3>2, NodesKeep
  <2> QED BY <2>1, <2>2
<1>5. CASE Refuse(r)
  <2>1. Requests' /\ OthersKept(r) /\ UNCHANGED records /\ stage'[r] = "refused"
    BY <1>1, <1>5, ReadOutcome DEF Refuse, Stages, IInv
  <2> QED BY <1>1, <2>1, RestWell, QuietKeeps DEF Resting
<1> QED BY <1>4, <1>5 DEF Move

\* Looking for ledger rows of a student to be removed keeps the invariant.
LEMMA VetRemoveKeeps ==
  ASSUME NEW r \in Callers, IInv, VetRemove(r)
  PROVE  IInv'
<1>1. PICK s \in Used(Students) : Begins(r, "remove", s) /\ IF Settled(s) THEN Refuse(r) ELSE Read(r, s)
  BY DEF VetRemove
<1>2. CASE Settled(s)
  BY <1>1, <1>2, ReadKeeps DEF Refuse, To, IInv, Requests
<1>3. CASE ~Settled(s)
  <2>1. ASSUME stage'[r] = "read", job'[r].op = "remove", plan'[r] = s, UNCHANGED records
        PROVE  ReadWell(r)'
    BY <1>3, <2>1 DEF ReadWell, OpenWell, ArchiveWell, DetachWell, UpdateWell, MoveWell, RemoveWell,
                      BillWell, RenewWell, ImportWell, At, Settled, records
  <2> QED BY <1>1, <1>3, <2>1, ReadKeeps
<1> QED BY <1>2, <1>3

\* Removing a student keeps the invariant.
LEMMA RemoveKeeps ==
  ASSUME NEW r \in Callers, IInv, Remove(r)
  PROVE  IInv'
<1> DEFINE s == plan[r]
           pupils == [pupil EXCEPT ![s] = None]
           inv == [b \in Bills |-> IF b[1] = s THEN None ELSE invoice[b]]
<1>1. NoEdit(r) /\ Asks(r)
  BY FollowsAsks DEF Remove, IInv, NoEdit, At
<1>2. Commit(r, "written", node, pupils, inv, ledger)
  BY DEF Remove
<1>3. RowsTyped(node, pupils, inv, ledger)
  BY DEF IInv, Rows, RowsTyped
<1>4. \A x \in Students : Housed(x, pupils) \/ Torn(x)
  BY DEF IInv, HomeIsEnrolled, Housed, Rows, RowsTyped
<1> QED BY <1>1, <1>2, <1>3, <1>4, LastCommitKeeps

-----------------------------------------------------------------------------
(* Invoices. *)

\* Whatever the months, a bill is for a fee of the student's, or the school's.
LEMMA DueTyped ==
  ASSUME Rows, NEW s \in Billable, NEW gs, NEW months, NEW x \in Due(s, gs, months)
  PROVE  x.due \in Fees \cup {0}
<1>1. pupil[s] \in PupilRow /\ pupil[s].fees \in FeeTables
  <2>1. pupil[s] \in PupilRow
    BY DEF Billable, Rows, RowsTyped
  <2> QED BY <2>1, PupilRows
<1>2. \A g \in DOMAIN Billed(s) : Billed(s)[g] \in Fees \cup {0}
  <2>1. CASE DOMAIN pupil[s].fees = {}
    BY <2>1, RowsAssumption DEF Billed
  <2>2. CASE DOMAIN pupil[s].fees # {}
    BY <1>1, <2>2, FeesOf DEF Billed
  <2> QED BY <2>1, <2>2
<1>3. PICK g \in gs \cap DOMAIN Billed(s), m \in months \cap Months : x = [bill |-> <<s, g, m>>, due |-> Billed(s)[g]]
  BY DEF Due
<1> QED BY <1>2, <1>3

\* Reading who is to be billed keeps the invariant.
LEMMA ReadRenewalKeeps ==
  ASSUME NEW r \in Callers, IInv, ReadRenewal(r)
  PROVE  IInv'
<1>1. PICK ahead \in Ahead : Begins(r, "renew", ahead) /\ Read(r, Renewal(ahead))
  BY DEF ReadRenewal, Renewal
<1>2. PICK p : p = Renewal(ahead)
  OBVIOUS
<1>3. \A x \in p : x.due \in Fees \cup {0}
  BY <1>2, DueTyped DEF IInv, Renewal
<1>4. UNCHANGED records => Renewal(ahead)' = p
  BY <1>2 DEF records, Renewal, Due, Billed, Billable
<1>5. ahead \in Nat
  BY MonthsAssumption
<1>6. ASSUME stage'[r] = "read", job'[r].op = "renew", job'[r].on = ahead, plan'[r] = p, UNCHANGED records
      PROVE  ReadWell(r)'
  BY <1>3, <1>4, <1>5, <1>6 DEF ReadWell, OpenWell, ArchiveWell, DetachWell, UpdateWell, MoveWell, RemoveWell,
                    BillWell, RenewWell, ImportWell, At
<1> QED BY <1>1, <1>2, <1>6, ReadKeeps

\* Asking for one bill keeps the invariant.
LEMMA AskBillKeeps ==
  ASSUME NEW r \in Callers, IInv, AskBill(r)
  PROVE  IInv'
<1>1. PICK ask : Begins(r, "bill", ask) /\ To(r, "asked") /\ UNCHANGED <<records, plan, stale>>
  BY DEF AskBill
<1>2. NoEdit(r) /\ Asks(r)
  BY <1>1, BeginsStarts DEF Starts, NoEdit, IInv
<1>3. Requests' /\ OthersKept(r) /\ UNCHANGED records /\ stage'[r] = "asked"
  BY <1>1, <1>2, ReadOutcome DEF Stages, IInv
<1> QED BY <1>2, <1>3, RestWell, QuietKeeps DEF Resting

\* Reading the student to be billed keeps the invariant.
LEMMA ReadStudentKeeps ==
  ASSUME NEW r \in Callers, IInv, ReadStudent(r)
  PROVE  IInv'
<1> DEFINE ask == job[r].on
           s == ask.student
           owed == IF ask.group = None THEN Due(s, Groups, Periods(pupil[s].since, ask.ahead))
                   ELSE Due(s, {ask.group} \cap DOMAIN pupil[s].fees, Now..(Now + ask.ahead))
           new == {x \in owed : invoice[x.bill] = None}
<1>1. Follows(r, "bill", "asked") \/ Follows(r, "enrol", "enrolled")
  BY DEF ReadStudent
<1>2. NoEdit(r) /\ Asks(r)
  BY <1>1, FollowsAsks DEF IInv, NoEdit, At
<1>3. CASE To(r, "written") /\ UNCHANGED <<records, plan, stale>>
  <2>1. Requests' /\ OthersKept(r) /\ UNCHANGED records /\ stage'[r] = "written"
    BY <1>2, <1>3, ReadOutcome DEF Stages, IInv
  <2> QED BY <1>2, <2>1, RestWell, QuietKeeps DEF Resting
<1>4. CASE s \in Billable /\ To(r, "billing") /\ plan' = [plan EXCEPT ![r] = new] /\ stale' = stale \ {r} /\ UNCHANGED records
  <2>1. \A x \in new : x.due \in Fees \cup {0}
    BY <1>4, DueTyped DEF IInv
  <2> HIDE DEF new, s
  <2>2. Requests' /\ OthersKept(r) /\ UNCHANGED records /\ stage'[r] = "billing"
    BY <1>2, <1>4, ReadOutcome DEF Stages, IInv
  <2>3. plan'[r] = new
    BY <1>4 DEF IInv, Requests
  <2>4. PICK bills : bills = new
    OBVIOUS
  <2>5. ReadWell(r)'
    BY <2>1, <2>2, <2>3, <2>4 DEF ReadWell, OpenWell, ArchiveWell, DetachWell, UpdateWell, MoveWell, RemoveWell,
                                  BillWell, RenewWell, ImportWell, At
  <2> QED BY <1>2, <2>2, <2>5, QuietKeeps
<1> QED BY <1>3, <1>4 DEF ReadStudent

\* Writing the bills keeps the invariant.
LEMMA WriteBillsKeeps ==
  ASSUME NEW r \in Callers, IInv, WriteBills(r)
  PROVE  IInv'
<1> DEFINE new == plan[r]
           inv == [b \in Bills |-> IF invoice[b] = None /\ \E x \in new : x.bill = b
                                   THEN [due |-> (CHOOSE x \in new : x.bill = b).due, paid |-> 0]
                                   ELSE invoice[b]]
<1>1. Follows(r, "renew", "read") \/ Follows(r, "bill", "billing") \/ Follows(r, "enrol", "billing")
  BY DEF WriteBills
<1>2. NoEdit(r) /\ Asks(r)
  BY <1>1, FollowsAsks DEF IInv, NoEdit, At
<1>3. \A x \in new : x.due \in Fees \cup {0}
  BY <1>1, FollowsAsks DEF IInv, ReadWell, BillWell, At
<1>4. inv \in [Bills -> BillRow \cup {None}]
  <2> SUFFICES ASSUME NEW b \in Bills PROVE inv[b] \in BillRow \cup {None}
    OBVIOUS
  <2>1. CASE invoice[b] = None /\ \E x \in new : x.bill = b
    <3> DEFINE y == CHOOSE x \in new : x.bill = b
    <3>1. y \in new
      BY <2>1
    <3>2. inv[b] = [due |-> y.due, paid |-> 0]
      BY <2>1
    <3> HIDE DEF y, new
    <3> QED BY <1>3, <3>1, <3>2 DEF BillRow
  <2>2. CASE ~(invoice[b] = None /\ \E x \in new : x.bill = b)
    BY <2>2 DEF IInv, Rows, RowsTyped
  <2> QED BY <2>1, <2>2
<1> HIDE DEF inv
<1>5. CASE To(r, "written") /\ UNCHANGED <<records, plan, stale>>
  <2>1. Requests' /\ OthersKept(r) /\ UNCHANGED records /\ stage'[r] = "written"
    BY <1>2, <1>5, ReadOutcome DEF Stages, IInv
  <2> QED BY <1>2, <2>1, RestWell, QuietKeeps DEF Resting
<1>6. CASE Commit(r, "written", node, pupil, inv, ledger)
  <2>1. RowsTyped(node, pupil, inv, ledger)
    BY <1>4 DEF IInv, Rows, RowsTyped
  <2>2. \A x \in Students : Housed(x, pupil) \/ Torn(x)
    BY DEF IInv, HomeIsEnrolled, Housed
  <2> QED BY <1>2, <1>6, <2>1, <2>2, LastCommitKeeps
<1> QED BY <1>5, <1>6 DEF WriteBills, inv

\* Paying a bill keeps the invariant.
LEMMA PayKeeps ==
  ASSUME NEW r \in Callers, IInv, Pay(r)
  PROVE  IInv'
<1>1. PICK b \in Bills :
        /\ invoice[b] # None /\ Begins(r, "pay", b)
        /\ Commit(r, "written", node, pupil, [invoice EXCEPT ![b].paid = @ + 1],
                  ledger \cup {[bill |-> b, nth |-> invoice[b].paid + 1, prof |-> node[b[2]].up]})
  BY DEF Pay
<1> DEFINE inv == [invoice EXCEPT ![b].paid = @ + 1]
           x == [bill |-> b, nth |-> invoice[b].paid + 1, prof |-> node[b[2]].up]
<1>2. invoice[b] \in BillRow
  BY <1>1 DEF IInv, Rows, RowsTyped
<1>3. node[b[2]].up \in Profs
  <2>1. b[2] \in Groups /\ There(b[2])
    BY <1>1 DEF IInv, Rows, Linked, Bills
  <2> QED BY <2>1, Hangs DEF IInv, Rows, RowsTyped, There, Nodes
<1>4. inv \in [Bills -> BillRow \cup {None}]
  BY <1>2 DEF IInv, Rows, RowsTyped, BillRow
<1>5. x \in LedgerRow
  BY <1>2, <1>3 DEF LedgerRow, BillRow
<1> HIDE DEF inv, x
<1>6. RowsTyped(node, pupil, inv, ledger \cup {x})
  BY <1>4, <1>5 DEF IInv, Rows, RowsTyped
<1>7. \A s \in Students : Housed(s, pupil) \/ Torn(s)
  BY DEF IInv, HomeIsEnrolled, Housed
<1>8. Commit(r, "written", node, pupil, inv, ledger \cup {x})
  BY <1>1 DEF inv, x
<1>9. NoEdit(r) /\ Asks(r)
  BY <1>1, BeginsStarts DEF Starts, NoEdit, IInv
<1> QED BY <1>6, <1>7, <1>8, <1>9, LastCommitKeeps

-----------------------------------------------------------------------------
(* Import. *)

\* A row that is matched by name is of its table, or there is none.
LEMMA MatchTyped ==
  ASSUME NEW kind, NEW up, NEW name
  PROVE  Match(kind, up, name) \in kind \cup {None}
<1> DEFINE found == {n \in kind : There(n) /\ node[n].up = up /\ node[n].name = name}
<1>1. found # {} => (CHOOSE n \in found : TRUE) \in found
  OBVIOUS
<1>2. Match(kind, up, name) = IF found = {} THEN None ELSE CHOOSE n \in found : TRUE
  BY DEF Match
<1> QED BY <1>1, <1>2

\* So are the four rows of an imported line.
LEMMA ChainTyped ==
  ASSUME NEW x
  PROVE  /\ Chain(x)[1] \in Levels \cup {None} /\ Chain(x)[2] \in Fields \cup {None}
         /\ Chain(x)[3] \in Profs \cup {None} /\ Chain(x)[4] \in Groups \cup {None}
<1> DEFINE l == Match(Levels, None, x[1])
           f == IF l = None THEN None ELSE Match(Fields, l, x[2])
           p == IF f = None THEN None ELSE Match(Profs, f, x[3])
           g == IF p = None THEN None ELSE Match(Groups, p, x[4])
<1>1. l \in Levels \cup {None} /\ f \in Fields \cup {None} /\ p \in Profs \cup {None} /\ g \in Groups \cup {None}
  BY MatchTyped
<1>2. Chain(x) = <<l, f, p, g>>
  BY DEF Chain
<1> HIDE DEF l, f, p, g
<1> QED BY <1>1, <1>2

\* Matching an imported line keeps the invariant.
LEMMA VetImportKeeps ==
  ASSUME NEW r \in Callers, IInv, VetImport(r)
  PROVE  IInv'
<1>1. PICK x \in Rosters :
        /\ Begins(r, "import", x)
        /\ IF Twins(Chain(x)[4], x[5]) # {} THEN To(r, "written") /\ UNCHANGED <<records, plan, stale>>
           ELSE Read(r, Chain(x))
  BY DEF VetImport
<1>2. CASE To(r, "written") /\ UNCHANGED <<records, plan, stale>>
  <2>1. NoEdit(r) /\ Asks(r)
    BY <1>1, BeginsStarts DEF Starts, NoEdit, IInv
  <2>2. Requests' /\ OthersKept(r) /\ UNCHANGED records /\ stage'[r] = "written"
    BY <1>2, <2>1, ReadOutcome DEF Stages, IInv
  <2> QED BY <2>1, <2>2, RestWell, QuietKeeps DEF Resting
<1>4. CASE Twins(Chain(x)[4], x[5]) = {} /\ Read(r, Chain(x))
  <2>1. PICK c : c = Chain(x)
    OBVIOUS
  <2>2. /\ c[1] \in Levels \cup {None} /\ c[2] \in Fields \cup {None}
        /\ c[3] \in Profs \cup {None} /\ c[4] \in Groups \cup {None}
        /\ \A i \in 1..5 : x[i] \in Names
    BY <2>1, ChainTyped, RowsAssumption
  <2>3. UNCHANGED records => Chain(x)' = c /\ Twins(c[4], x[5])' = {}
    BY <1>4, <2>1, SameReads
  <2>4. ASSUME stage'[r] = "read", job'[r].op = "import", job'[r].on = x, plan'[r] = c, UNCHANGED records
        PROVE  ReadWell(r)'
    BY <2>2, <2>3, <2>4 DEF ReadWell, OpenWell, ArchiveWell, DetachWell, UpdateWell, MoveWell, RemoveWell,
                      BillWell, RenewWell, ImportWell, At
  <2> QED BY <1>1, <1>4, <2>1, <2>4, ReadKeeps
<1> QED BY <1>1, <1>2, <1>4

\* Writing an imported line keeps the invariant.
LEMMA ImportKeeps ==
  ASSUME NEW r \in Callers, IInv, Import(r)
  PROVE  IInv'
<1> DEFINE c == plan[r]
           x == job[r].on
           missing == {j \in 1..4 : c[j] = None}
           Place(i) == Row(IF i = 1 THEN None ELSE New(c, i - 1), FALSE, x[i])
           added == [n \in {New(c, i) : i \in missing} |-> Place(CHOOSE i \in 1..4 : New(c, i) = n)]
           s == CHOOSE y \in Newcomers : TRUE
           nodes == [n \in Nodes |-> IF n \in DOMAIN added THEN added[n] ELSE node[n]]
           row == PupilOf(New(c, 4), Now, x[5], [h \in {New(c, 4)} |-> MonthlyFee])
           pupils == [pupil EXCEPT ![s] = row]
<1>1. /\ Follows(r, "import", "read") /\ Importable(c)
      /\ Commit(r, "written", nodes, pupils, invoice, ledger)
  BY DEF Import
<1>2. NoEdit(r) /\ Asks(r) /\ At(r, "import", "read")
  BY <1>1, FollowsAsks DEF IInv, NoEdit, At
<1>3. /\ c[1] \in Levels \cup {None} /\ c[2] \in Fields \cup {None}
      /\ c[3] \in Profs \cup {None} /\ c[4] \in Groups \cup {None}
      /\ \A i \in 1..5 : x[i] \in Names
  BY <1>2 DEF IInv, ReadWell, ImportWell
<1>4. New(c, 1) \in Levels /\ New(c, 2) \in Fields /\ New(c, 3) \in Profs /\ New(c, 4) \in Groups
  <2> HIDE DEF c
  <2>1. \A kind : Fresh(kind) # {} => (CHOOSE n \in Fresh(kind) : TRUE) \in kind
    <3> SUFFICES ASSUME NEW kind, Fresh(kind) # {} PROVE (CHOOSE n \in Fresh(kind) : TRUE) \in kind
      OBVIOUS
    <3>1. (CHOOSE n \in Fresh(kind) : TRUE) \in Fresh(kind)
      OBVIOUS
    <3> QED BY <3>1 DEF Fresh
  <2>2. /\ c[1] = None => Fresh(Levels) # {}
        /\ c[2] = None => Fresh(Fields) # {}
        /\ c[3] = None => Fresh(Profs) # {}
        /\ c[4] = None => Fresh(Groups) # {}
    BY <1>1 DEF Importable
  <2>3. /\ New(c, 1) = IF c[1] # None THEN c[1] ELSE CHOOSE n \in Fresh(Levels) : TRUE
        /\ New(c, 2) = IF c[2] # None THEN c[2] ELSE CHOOSE n \in Fresh(Fields) : TRUE
        /\ New(c, 3) = IF c[3] # None THEN c[3] ELSE CHOOSE n \in Fresh(Profs) : TRUE
        /\ New(c, 4) = IF c[4] # None THEN c[4] ELSE CHOOSE n \in Fresh(Groups) : TRUE
    BY DEF New
  <2> QED BY <1>3, <2>1, <2>2, <2>3
<1>5. \A i \in 1..4 : Right(New(c, i), Place(i))
  <2> SUFFICES ASSUME NEW i \in 1..4 PROVE Right(New(c, i), Place(i))
    OBVIOUS
  <2>1. x[i] \in Names
    BY <1>3
  <2>2. (IF i = 1 THEN None ELSE New(c, i - 1)) \in ParentKind(Kind(New(c, i)))
    BY <1>4, Hangs
  <2>3. New(c, i) \in Nodes
    BY <1>4 DEF Nodes
  <2> HIDE DEF c, x
  <2> QED BY <2>1, <2>2, <2>3, RowTyped DEF Right
<1>6. \A n \in DOMAIN added : n \in Nodes /\ Right(n, added[n])
  <2> SUFFICES ASSUME NEW n \in DOMAIN added PROVE n \in Nodes /\ Right(n, added[n])
    OBVIOUS
  <2>1. PICK j \in 1..4 : New(c, j) = n
    OBVIOUS
  <2> DEFINE i == CHOOSE k \in 1..4 : New(c, k) = n
  <2>2. i \in 1..4 /\ New(c, i) = n
    BY <2>1
  <2>3. added[n] = Place(i)
    OBVIOUS
  <2>4. n \in Nodes
    BY <1>4, <2>1 DEF Nodes
  <2> HIDE DEF i, added, Place, c
  <2> QED BY <1>5, <2>2, <2>3, <2>4
<1> HIDE DEF added
<1>7. /\ nodes \in [Nodes -> NodeRow \cup {None}]
      /\ \A n \in Nodes : nodes[n] # None => nodes[n].up \in ParentKind(Kind(n))
  BY <1>6 DEF IInv, Rows, RowsTyped, Right
<1>8. s \in Students
  <2>1. s \in Newcomers
    BY <1>1 DEF Importable
  <2> QED BY <2>1 DEF Newcomers
<1>9. row \in PupilRow /\ row.home \in DOMAIN row.fees
  <2> DEFINE fees == [h \in {New(c, 4)} |-> MonthlyFee]
  <2>1. fees \in [{New(c, 4)} -> Fees \cup {0}] /\ DOMAIN fees = {New(c, 4)}
    BY RowsAssumption
  <2>2. fees \in FeeTables
    BY <1>4, <2>1, FeesOf
  <2>3. x[5] \in Names
    BY <1>3
  <2> HIDE DEF fees, c, x
  <2>4. PupilOf(New(c, 4), Now, x[5], fees) \in PupilRow
        /\ PupilOf(New(c, 4), Now, x[5], fees).home \in DOMAIN PupilOf(New(c, 4), Now, x[5], fees).fees
    BY <1>4, <2>1, <2>2, <2>3, PupilOfTyped, MonthsAssumption
  <2> QED BY <2>4 DEF fees
<1> HIDE DEF nodes, row, s
<1>10. RowsTyped(nodes, pupils, invoice, ledger)
  BY <1>7, <1>8, <1>9 DEF IInv, Rows, RowsTyped
<1>11. \A y \in Students : Housed(y, pupils) \/ Torn(y)
  BY <1>8, <1>9 DEF IInv, HomeIsEnrolled, Housed, Rows, RowsTyped
<1> QED BY <1>1, <1>2, <1>10, <1>11, LastCommitKeeps

-----------------------------------------------------------------------------
(* The theorems. *)

\* The invariant holds at the start.
LEMMA InitIInv == Init => IInv
<1> SUFFICES ASSUME Init PROVE IInv
  OBVIOUS
<1>1. Requests
  BY DEF Init, Requests, Stages
<1>2. ASSUME NEW n \in Nodes, n \in DOMAIN NodesAtFirst
      PROVE  /\ node[n] = NodesAtFirst[n] /\ node[n] \in NodeRow /\ node[n] # None
             /\ node[n].up \in ParentKind(Kind(n))
             /\ node[n].up # None => node[n].up \in Nodes \cap DOMAIN NodesAtFirst
  <2>1. node[n] = NodesAtFirst[n] /\ node[n] \in NodeRow /\ node[n] # None
    BY <1>2, FirstAssumption DEF Init
  <2>2. CASE n \in Levels
    BY <1>2, <2>1, <2>2, FirstAssumption, Hangs
  <2>3. CASE n \in Fields
    BY <1>2, <2>1, <2>3, FirstAssumption, Hangs, TablesAssumption DEF Nodes
  <2>4. CASE n \in Profs
    BY <1>2, <2>1, <2>4, FirstAssumption, Hangs, TablesAssumption DEF Nodes
  <2>5. CASE n \in Groups
    BY <1>2, <2>1, <2>5, FirstAssumption, Hangs, TablesAssumption DEF Nodes
  <2> QED BY <1>2, <2>1, <2>2, <2>3, <2>4, <2>5 DEF Nodes
<1>3. \A n \in Nodes : node[n] # None <=> n \in DOMAIN NodesAtFirst
  BY <1>2 DEF Init
<1>4. \A s \in Students : pupil[s] # None =>
        /\ pupil[s] \in PupilRow /\ pupil[s].home \in DOMAIN NodesAtFirst
        /\ pupil[s].pen \/ pupil[s].home \in DOMAIN pupil[s].fees
        /\ DOMAIN pupil[s].fees \subseteq Groups \cap DOMAIN NodesAtFirst
  <2> SUFFICES ASSUME NEW s \in Students, pupil[s] # None
               PROVE  /\ pupil[s] \in PupilRow /\ pupil[s].home \in DOMAIN NodesAtFirst
                      /\ pupil[s].pen \/ pupil[s].home \in DOMAIN pupil[s].fees
                      /\ DOMAIN pupil[s].fees \subseteq Groups \cap DOMAIN NodesAtFirst
    OBVIOUS
  <2>1. s \in DOMAIN StudentsAtFirst /\ pupil[s] = StudentsAtFirst[s]
    BY DEF Init
  <2>2. /\ pupil[s] \in PupilRow /\ pupil[s].home \in DOMAIN NodesAtFirst
        /\ pupil[s].pen \/ pupil[s].home \in DOMAIN pupil[s].fees
        /\ DOMAIN pupil[s].fees \subseteq DOMAIN NodesAtFirst
    BY <2>1, FirstAssumption
  <2>3. DOMAIN pupil[s].fees \subseteq Groups
    BY <2>2, PupilRows, FeesOf
  <2> QED BY <2>2, <2>3
<1>5. \A b \in Bills :
        /\ invoice[b] # None => invoice[b] \in BillRow /\ b[2] \in DOMAIN NodesAtFirst
        /\ b \in DOMAIN InvoicesAtFirst => invoice[b] # None
  BY FirstAssumption DEF Init
<1>6. \A x \in ledger : x \in LedgerRow /\ x.bill \in Bills \cap DOMAIN InvoicesAtFirst
                        /\ x.prof \in (Profs \cap DOMAIN NodesAtFirst) \cup {None}
  BY FirstAssumption DEF Init, LedgerRow
<1>7. RowsTyped(node, pupil, invoice, ledger)
  <2>1. node \in [Nodes -> NodeRow \cup {None}]
    BY <1>2 DEF Init
  <2>2. pupil \in [Students -> PupilRow \cup {None}]
    BY <1>4 DEF Init
  <2>3. invoice \in [Bills -> BillRow \cup {None}]
    BY <1>5 DEF Init
  <2> QED BY <1>2, <1>3, <1>6, <2>1, <2>2, <2>3 DEF RowsTyped
<1>8. Linked
  <2>1. \A s \in Students : pupil[s] # None => pupil[s].home \in Nodes
    BY <1>4, PupilRows DEF Nodes
  <2>2. \A b \in Bills : b[2] \in Nodes
    BY DEF Bills, Nodes
  <2>3. Profs \subseteq Nodes /\ None \notin Profs
    BY RowsAssumption DEF Nodes
  <2>4. \A s \in Students : pupil[s] # None => \A g \in DOMAIN pupil[s].fees : There(g)
    BY <1>3, <1>4 DEF There, Nodes
  <2> QED BY <1>2, <1>3, <1>4, <1>5, <1>6, <2>1, <2>2, <2>3, <2>4 DEF Linked, There
<1>9. \A r \in Callers : ReadWell(r)
  BY RestWell DEF Init, Resting
<1>10. HomeIsEnrolled
  BY <1>4 DEF HomeIsEnrolled
<1> QED BY <1>1, <1>7, <1>8, <1>9, <1>10 DEF IInv, Rows

\* Every step keeps it.
LEMMA NextIInv == IInv /\ [Next]_vars => IInv'
<1> SUFFICES ASSUME IInv, [Next]_vars PROVE IInv'
  OBVIOUS
<1>1. ASSUME NEW r \in Callers, Start(r) PROVE IInv'
  BY <1>1, CreatesKeep, MoveFieldKeeps, FlagKeeps, VetKeeps, VetDetachKeeps, EnrolKeeps,
     UpdateEnrolmentsKeeps, AmendKeeps, VetMoveKeeps, VetRemoveKeeps, ReadRenewalKeeps, AskBillKeeps,
     PayKeeps, VetImportKeeps DEF Start
<1>2. ASSUME NEW r \in Callers, Step(r) PROVE IInv'
  BY <1>2, AddPenKeeps, ScanKeeps, ArchiveKeeps, DeletesKeep, FindKeeps, ReassignKeeps, ParkKeeps,
     DetachKeeps, UpdateRowKeeps, MoveKeeps, RemoveKeeps,
     ReadStudentKeeps, WriteBillsKeeps, ImportKeeps DEF Step
<1>3. CASE UNCHANGED vars
  <2>1. Requests' /\ Rows'
    BY <1>3 DEF IInv, vars, records, Requests, Rows, RowsTyped, Linked, There
  <2>2. HomeIsEnrolled'
    BY <1>3 DEF IInv, vars, records, HomeIsEnrolled, Torn
  <2>3. \A q \in Callers : ReadWell(q)'
    <3> SUFFICES ASSUME NEW q \in Callers PROVE ReadWell(q)'
      OBVIOUS
    <3>1. Kept(q)
      BY <1>3 DEF vars, records, Kept
    <3> QED BY <3>1, KeptWell DEF IInv
  <2> QED BY <2>1, <2>2, <2>3 DEF IInv
<1> QED BY <1>1, <1>2, <1>3 DEF Next, Closed

\* The invariant everything else rests on.
THEOREM SchoolIsInOrder == Spec => []IInv
  BY InitIInv, NextIInv, PTL DEF Spec

\* Every row keeps its shape and every reference leads to a row of the table above:
\* a level to nothing, a group to a professor, a ledger row to its invoice.
THEOREM TypeCorrect == Spec => []TypeOK
<1>1. IInv => TypeOK
  <2> SUFFICES ASSUME IInv PROVE TypeOK
    OBVIOUS
  <2>1. \A n \in Nodes : There(n) => node[n].up \in Parents(Kind(n))
    <3> SUFFICES ASSUME NEW n \in Nodes, There(n) PROVE node[n].up \in Parents(Kind(n))
      OBVIOUS
    <3>1. node[n].up \in ParentKind(Kind(n)) /\ (node[n].up # None => There(node[n].up))
      BY DEF IInv, Rows, RowsTyped, Linked, There
    <3>2. None \notin Nodes
      BY RowsAssumption
    <3>3. \A K \in {Levels, Fields, Profs} : node[n].up \in K => node[n].up \in Used(K)
      BY <3>1, <3>2 DEF Used, Nodes
    <3>4. \A K \in {Levels, Fields, Profs, Groups} :
            K = Levels \/ K = Fields \/ K = Profs \/ K = Groups
      OBVIOUS
    <3> QED BY <3>1, <3>3, KindIsTable DEF ParentKind, Parents
  <2>2. \A x \in ledger : invoice[x.bill] # None /\ x.prof \in Profs \cup {None}
    BY DEF IInv, Rows, RowsTyped, Linked, LedgerRow
  <2> QED BY <2>1, <2>2 DEF IInv, Rows, RowsTyped, Requests, TypeOK
<1> QED BY <1>1, SchoolIsInOrder, PTL

\* A student's first group is one of its enrolments, for any number of edits,
\* moves, detachments and deletions at a time, but for edits torn in two.
THEOREM HomesAreEnrolled == Spec => []HomeIsEnrolled
<1>1. IInv => HomeIsEnrolled
  BY DEF IInv
<1> QED BY <1>1, SchoolIsInOrder, PTL

-----------------------------------------------------------------------------
(* What a single step may never do. *)

\* A step moves one request.
Moves(q) == \E where : To(q, where)

\* A commit, a read or a refusal moves one request only.
LEMMA CommitMoves ==
  ASSUME NEW q, \/ \E next, nodes, pupils, inv, rows : Commit(q, next, nodes, pupils, inv, rows)
                \/ \E p : Read(q, p)
                \/ Refuse(q)
  PROVE  Moves(q)
  BY DEF Commit, Read, Refuse, Moves

\* So does every first step.
LEMMA StartMoves ==
  ASSUME NEW q, Start(q)
  PROVE  stage[q] = "new" /\ Moves(q)
<1>1. CASE CreateLevel(q) \/ CreateField(q) \/ CreateProfessor(q) \/ CreateGroup(q) \/ MoveField(q)
  BY <1>1, CommitMoves DEF CreateLevel, CreateField, CreateProfessor, CreateGroup, CreateRow, MoveField, Begins
<1>2. CASE FlagLevel(q) \/ FlagField(q) \/ FlagProfessor(q) \/ FlagGroup(q)
  BY <1>2, CommitMoves DEF FlagLevel, FlagField, FlagProfessor, FlagGroup, SetActive, Begins
<1>3. CASE PurgeLevel(q) \/ PurgeField(q) \/ PurgeProfessor(q) \/ PurgeGroup(q) \/ Vet(q) \/ VetDetach(q)
  BY <1>3, CommitMoves DEF PurgeLevel, PurgeField, PurgeProfessor, PurgeGroup, VetPurge, Vet, VetDetach, Look, Begins
<1>4. CASE Enrol(q) \/ UpdateEnrolments(q) \/ Amend(q) \/ VetMove(q) \/ VetRemove(q)
  BY <1>4, CommitMoves DEF Enrol, UpdateEnrolments, Amend, VetMove, VetRemove, Begins
<1>5. CASE ReadRenewal(q) \/ AskBill(q) \/ Pay(q) \/ VetImport(q)
  BY <1>5, CommitMoves DEF ReadRenewal, AskBill, Pay, VetImport, Begins, Moves
<1> QED BY <1>1, <1>2, <1>3, <1>4, <1>5 DEF Start

\* And every later one.
LEMMA StepMoves ==
  ASSUME NEW q, Step(q)
  PROVE  Moves(q)
<1>1. CASE AddPen(q) \/ ArchiveCascade(q) \/ DeleteCascade(q) \/ HardDelete(q)
  BY <1>1, CommitMoves DEF AddPen, ArchiveCascade, DeleteCascade, HardDelete, Purged
<1>2. CASE Scan(q) \/ FindChildren(q) \/ Reassign(q) \/ Park(q) \/ Detach(q)
  BY <1>2, CommitMoves DEF Scan, FindChildren, Reassign, Park, Detach, Moves
<1>3. CASE UpdateRow(q) \/ Move(q) \/ Remove(q) \/ Import(q)
  BY <1>3, CommitMoves DEF UpdateRow, Move, Remove, Import
<1>4. CASE ReadStudent(q) \/ WriteBills(q)
  BY <1>4, CommitMoves DEF ReadStudent, WriteBills, Moves
<1> QED BY <1>1, <1>2, <1>3, <1>4 DEF Step

\* A request that was reading is finished by a second statement of its own.
LEMMA LastStep ==
  ASSUME IInv, [Next]_vars, NEW r \in Callers, stage[r] \in Reading, stage'[r] = "written"
  PROVE  Step(r)
<1>1. stage' # stage
  BY DEF Reading
<1>2. PICK q \in Callers : Start(q) \/ Step(q)
  BY <1>1 DEF Next, Closed, vars
<1>3. Moves(q)
  BY <1>2, StartMoves, StepMoves
<1>4. q = r
  BY <1>1, <1>3 DEF Moves, To, Reading
<1>5. stage[r] # "new"
  BY DEF Reading
<1> QED BY <1>2, <1>4, <1>5, StartMoves

\* Whoever is above a row has the row below.
LEMMA AboveBelow ==
  ASSUME Rows, NEW found, \A c \in Fields \cup Profs \cup Groups : There(c) /\ node[c].up \in found => c \in found,
         NEW n \in Nodes, n \in found, NEW m \in Nodes, There(m),
         LET a == node[m].up  b == node[a].up  c == node[b].up
         IN  n = a \/ (a # None /\ n = b) \/ (a # None /\ b # None /\ n = c)
  PROVE  m \in found
<1> DEFINE a == node[m].up
           b == node[a].up
           c == node[b].up
<1>1. None \notin Nodes /\ n # None
  BY RowsAssumption
<1>2. \A x \in Nodes : There(x) /\ node[x].up # None => x \in Fields \cup Profs \cup Groups /\ There(node[x].up)
                                                       /\ node[x].up \in Nodes
  <2> SUFFICES ASSUME NEW x \in Nodes, There(x), node[x].up # None
               PROVE  x \in Fields \cup Profs \cup Groups /\ There(node[x].up) /\ node[x].up \in Nodes
    OBVIOUS
  <2>1. node[x].up \in ParentKind(Kind(x)) /\ There(node[x].up) /\ node[x].up \in Nodes
    BY DEF Rows, RowsTyped, Linked, There, NodeRow
  <2>2. x \notin Levels
    BY <2>1, Hangs
  <2> QED BY <2>1, <2>2 DEF Nodes
<1>3. CASE n = a
  BY <1>1, <1>2, <1>3
<1>4. CASE a # None /\ n = b
  <2>1. a \in found
    BY <1>1, <1>2, <1>4
  <2> QED BY <1>2, <1>4, <2>1
<1>5. CASE a # None /\ b # None /\ n = c
  <2>1. a \in Nodes /\ There(a)
    BY <1>2, <1>5
  <2>2. b \in Nodes /\ There(b)
    BY <1>2, <1>5, <2>1
  <2>3. b \in found
    BY <1>1, <1>2, <1>5, <2>2
  <2>4. a \in found
    BY <1>2, <1>5, <2>1, <2>3
  <2> QED BY <1>2, <1>5, <2>4
<1> QED BY <1>3, <1>4, <1>5

\* When an archive nobody overtook has been written, nothing under its node is active.
LEMMA ArchiveIsWhole ==
  ASSUME IInv, [Next]_vars, NEW r \in Callers, Finishes(r, "archive"), r \notin stale,
         NEW m \in Nodes, Active(m)', (plan[r].node \in Above(m))'
  PROVE  FALSE
<1>1. Step(r) /\ job[r].op = "archive" /\ stage'[r] = "written"
  BY LastStep DEF Finishes
<1>2. ArchiveCascade(r)
  <2>1. ~AddPen(r) /\ ~DeleteCascade(r) /\ ~HardDelete(r) /\ ~UpdateRow(r) /\ ~Move(r) /\ ~Remove(r)
    BY <1>1 DEF AddPen, DeleteCascade, HardDelete, UpdateRow, Move, Remove, Follows
  <2>2. ~FindChildren(r) /\ ~Reassign(r) /\ ~Park(r) /\ ~Detach(r)
    BY <1>1 DEF FindChildren, Reassign, Park, Detach, Follows
  <2>3. ~ReadStudent(r) /\ ~WriteBills(r)
    BY <1>1 DEF ReadStudent, WriteBills, Follows
  <2>4. ~Import(r)
    BY <1>1 DEF Import, Follows
  <2>5. ~Scan(r)
    BY <1>1 DEF Scan, To, IInv, Requests
  <2> QED BY <1>1, <2>1, <2>2, <2>3, <2>4, <2>5 DEF Step
<1>3. PICK p, n, found : p = plan[r] /\ n = p.node /\ found = p.found
  OBVIOUS
<1>4. /\ node' = [x \in Nodes |-> IF x \in found /\ There(x) THEN [node[x] EXCEPT !.active = FALSE] ELSE node[x]]
      /\ plan' = plan /\ p.tier = Groups
  <2>1. ~Refuse(r)
    BY <1>1 DEF Refuse, To, IInv, Requests
  <2> QED BY <1>2, <1>3, <2>1 DEF ArchiveCascade, Commit
<1>5. \A x \in Nodes : node'[x].up = node[x].up /\ (There(x) => node[x] \in NodeRow)
  BY <1>4 DEF IInv, Rows, RowsTyped, NodeRow, There
<1>6. There(m) /\ m \notin found
  BY <1>4, <1>5 DEF Active, There, NodeRow
<1> DEFINE a == node[m].up
           b == node[a].up
           c == node[b].up
<1>7. None \notin Nodes
  BY RowsAssumption
<1>8. \A x \in Nodes : There(x) => node[x].up \in Nodes \cup {None} /\ (node[x].up # None => There(node[x].up))
  BY <1>5 DEF IInv, Rows, Linked, NodeRow, There
<1>9. a \in Nodes \cup {None} /\ (a # None => There(a))
  BY <1>6, <1>8
<1>10. a # None => b \in Nodes \cup {None} /\ (b # None => There(b))
  BY <1>9, <1>8
<1>11. n = a \/ (a # None /\ n = b) \/ (a # None /\ b # None /\ n = c)
  <2> DEFINE up(S) == {node'[x].up : x \in {y \in S : y # None}}
  <2>1. n \in up({m}) \cup up(up({m})) \cup up(up(up({m})))
    BY <1>3, <1>4 DEF Above
  <2>2. m # None /\ up({m}) = {a}
    BY <1>5, <1>7
  <2>3. up({a}) = IF a = None THEN {} ELSE {b}
    BY <1>5, <1>9
  <2>4. a # None => up({b}) = IF b = None THEN {} ELSE {c}
    BY <1>5, <1>10
  <2>5. up({}) = {}
    OBVIOUS
  <2> HIDE DEF up
  <2> QED BY <2>1, <2>2, <2>3, <2>4, <2>5
<1>12. n \in Nodes /\ n \in found /\ Gathered(p)
  <2>1. At(r, "archive", "read")
    BY <1>2 DEF ArchiveCascade, Follows, At
  <2> QED BY <1>3, <2>1 DEF IInv, ReadWell, ArchiveWell
<1>13. \A x \in Fields \cup Profs \cup Groups : There(x) /\ node[x].up \in found => x \in found
  BY <1>3, <1>4, <1>12, Tiers DEF Gathered
<1>14. m \in found
  <2> HIDE DEF a, b, c
  <2>1. LET x == node[m].up  y == node[x].up  z == node[y].up
        IN  n = x \/ (x # None /\ n = y) \/ (x # None /\ y # None /\ n = z)
    BY <1>11 DEF a, b, c
  <2> QED BY <1>6, <1>12, <1>13, <2>1, AboveBelow DEF IInv
<1> QED BY <1>6, <1>14

\* "Archive cascade" leaves nothing active below, unless another request wrote after
\* it had begun.
THEOREM ArchivesWhole == Spec => ArchiveTakesSubtree
<1> DEFINE Whole(r) == Finishes(r, "archive") /\ r \notin stale =>
                          \A m \in Nodes : ~(Active(m) /\ plan[r].node \in Above(m))'
<1>1. IInv /\ [Next]_vars => [\A r \in Callers : Whole(r)]_vars
  BY ArchiveIsWhole
<1> QED BY <1>1, SchoolIsInOrder, PTL DEF Spec, ArchiveTakesSubtree

\* A student is deleted without a ledger row, unless one came in after the check.
THEOREM PaidStudentsAreKept == Spec => PaidStudentKept
<1>1. ASSUME IInv, [Next]_vars, NEW r \in Callers, Finishes(r, "remove"), r \notin stale
      PROVE  ledger' = ledger
  <2>1. Step(r) /\ job[r].op = "remove" /\ stage'[r] = "written"
    BY <1>1, LastStep DEF Finishes
  <2>2. Remove(r)
    <3>1. ~AddPen(r) /\ ~DeleteCascade(r) /\ ~HardDelete(r) /\ ~UpdateRow(r) /\ ~Move(r) /\ ~ArchiveCascade(r)
      BY <2>1 DEF AddPen, DeleteCascade, HardDelete, UpdateRow, Move, ArchiveCascade, Follows
    <3>2. ~Scan(r) /\ ~FindChildren(r) /\ ~Reassign(r) /\ ~Park(r) /\ ~Detach(r)
      BY <2>1 DEF Scan, FindChildren, Reassign, Park, Detach, Follows
    <3>3. ~ReadStudent(r) /\ ~WriteBills(r)
      BY <2>1 DEF ReadStudent, WriteBills, Follows
    <3>4. ~Import(r)
      BY <2>1 DEF Import, Follows
    <3> QED BY <2>1, <3>1, <3>2, <3>3, <3>4 DEF Step
  <2> DEFINE inv == [b \in Bills |-> IF b[1] = plan[r] THEN None ELSE invoice[b]]
  <2>3. ledger' = Strike(ledger, inv, node)
    <3>1. ~Refuse(r)
      BY <1>1, <2>1 DEF Refuse, To, IInv, Requests
    <3> QED BY <2>2, <3>1 DEF Remove, Commit
  <2>4. ~Settled(plan[r])
    BY <1>1, <2>2 DEF Remove, Follows, IInv, ReadWell, RemoveWell, At
  <2>5. ASSUME NEW x \in ledger
        PROVE  inv[x.bill] # None /\ x = [x EXCEPT !.prof = IF @ \in Profs /\ node[@] = None THEN None ELSE @]
    <3>1. x \in LedgerRow /\ invoice[x.bill] # None /\ (x.prof \in Profs => There(x.prof))
      BY <1>1 DEF IInv, Rows, RowsTyped, Linked
    <3>2. x.bill[1] # plan[r]
      BY <2>4 DEF Settled
    <3>3. inv[x.bill] = invoice[x.bill]
      BY <3>1, <3>2 DEF LedgerRow
    <3> QED BY <3>1, <3>3 DEF LedgerRow, There
  <2> HIDE DEF inv
  <2> QED BY <2>3, <2>5 DEF Strike
<1>2. IInv /\ [Next]_vars =>
        [\A r \in Callers : Finishes(r, "remove") /\ r \notin stale => ledger' = ledger]_vars
  BY <1>1
<1> QED BY <1>2, SchoolIsInOrder, PTL DEF Spec, PaidStudentKept

\* A renewal bills the months of each enrolment from the later of its start and the
\* cap, to as many months ahead as it was asked, and no others.
LEMMA RenewalBills ==
  ASSUME Rows, NEW ahead \in Nat, NEW s \in Students, NEW g \in Groups, NEW m \in Months
  PROVE  (\E x \in Renewal(ahead) : x.bill = <<s, g, m>>)
         <=> /\ s \in Billable /\ g \in DOMAIN Billed(s)
             /\ pupil[s].since <= m /\ Now - MaxBackfill <= m /\ m <= Now + ahead
<1>1. s \in Billable => (m \in Periods(pupil[s].since, ahead)
                         <=> pupil[s].since <= m /\ Now - MaxBackfill <= m /\ m <= Now + ahead)
  <2> SUFFICES ASSUME s \in Billable
               PROVE  m \in Periods(pupil[s].since, ahead)
                      <=> pupil[s].since <= m /\ Now - MaxBackfill <= m /\ m <= Now + ahead
    OBVIOUS
  <2>1. PICK since \in Months : since = pupil[s].since
    BY DEF Billable, Rows, RowsTyped, PupilRow
  <2>2. since \in Int /\ m \in Int /\ Now \in Int /\ MaxBackfill \in Int
    BY MonthsAssumption DEF Months
  <2> QED BY <2>1, <2>2 DEF Periods, Larger
<1>2. ASSUME NEW x \in Renewal(ahead), x.bill = <<s, g, m>>
      PROVE  s \in Billable /\ g \in DOMAIN Billed(s) /\ m \in Periods(pupil[s].since, ahead)
  <2>1. PICK t \in Billable : x \in Due(t, Groups, Periods(pupil[t].since, ahead))
    BY <1>2 DEF Renewal
  <2>2. PICK h \in Groups \cap DOMAIN Billed(t), k \in Periods(pupil[t].since, ahead) \cap Months :
          x = [bill |-> <<t, h, k>>, due |-> Billed(t)[h]]
    BY <2>1 DEF Due
  <2>3. t = s /\ h = g /\ k = m
    BY <1>2, <2>2
  <2> QED BY <2>1, <2>2, <2>3
<1>3. ASSUME s \in Billable, g \in DOMAIN Billed(s), m \in Periods(pupil[s].since, ahead)
      PROVE  \E x \in Renewal(ahead) : x.bill = <<s, g, m>>
  <2> DEFINE x == [bill |-> <<s, g, m>>, due |-> Billed(s)[g]]
  <2>1. x \in Due(s, Groups, Periods(pupil[s].since, ahead))
    BY <1>3 DEF Due
  <2>2. x \in Renewal(ahead)
    BY <1>3, <2>1 DEF Renewal
  <2> QED BY <2>2
<1> QED BY <1>1, <1>2, <1>3

\* When a renewal has been written, who was owed a bill has it.
LEMMA RenewalIsWhole ==
  ASSUME IInv, [Next]_vars, NEW r \in Callers, Finishes(r, "renew"), r \notin stale,
         NEW s \in Students, NEW g \in Groups, NEW m \in Months
  PROVE  LET owed == /\ s \in Billable /\ g \in DOMAIN Billed(s)
                     /\ pupil[s].since <= m /\ Now - MaxBackfill <= m
                     /\ m <= Now + job[r].on
             b == <<s, g, m>>
         IN  IF invoice[b] # None THEN invoice'[b] = invoice[b] ELSE (invoice'[b] # None) = owed
<1>1. Step(r) /\ job[r].op = "renew" /\ stage'[r] = "written"
  BY LastStep DEF Finishes
<1>2. WriteBills(r)
  <2>1. ~AddPen(r) /\ ~DeleteCascade(r) /\ ~HardDelete(r) /\ ~UpdateRow(r) /\ ~Move(r) /\ ~Remove(r) /\ ~ArchiveCascade(r)
    BY <1>1 DEF AddPen, DeleteCascade, HardDelete, UpdateRow, Move, Remove, ArchiveCascade, Follows
  <2>2. ~Scan(r) /\ ~FindChildren(r) /\ ~Reassign(r) /\ ~Park(r) /\ ~Detach(r)
    BY <1>1 DEF Scan, FindChildren, Reassign, Park, Detach, Follows
  <2>3. ~ReadStudent(r)
    BY <1>1 DEF ReadStudent, Follows
  <2>4. ~Import(r)
    BY <1>1 DEF Import, Follows
  <2> QED BY <1>1, <2>1, <2>2, <2>3, <2>4 DEF Step
<1>3. At(r, "renew", "read")
  BY <1>1, <1>2 DEF WriteBills, Follows, At
<1>4. job[r].on \in Nat /\ plan[r] = Renewal(job[r].on) /\ \A x \in plan[r] : x.due \in Fees \cup {0}
  BY <1>3 DEF IInv, ReadWell, RenewWell, BillWell
<1> DEFINE b == <<s, g, m>>
           inv == [c \in Bills |-> IF invoice[c] = None /\ \E x \in plan[r] : x.bill = c
                                   THEN [due |-> (CHOOSE x \in plan[r] : x.bill = c).due, paid |-> 0]
                                   ELSE invoice[c]]
<1>5. invoice' = inv
  <2>1. ~Refuse(r)
    BY <1>1 DEF Refuse, To, IInv, Requests
  <2>2. Commit(r, "written", node, pupil, inv, ledger)
    BY <1>1, <1>2 DEF WriteBills
  <2> QED BY <2>1, <2>2 DEF Commit
<1>6. b \in Bills
  BY DEF Bills
<1>7. CASE invoice[b] # None
  BY <1>5, <1>6, <1>7
<1>8. CASE invoice[b] = None
  <2>1. (\E x \in plan[r] : x.bill = b) => invoice'[b] # None
    <3> SUFFICES ASSUME \E x \in plan[r] : x.bill = b PROVE invoice'[b] # None
      OBVIOUS
    <3> DEFINE y == CHOOSE x \in plan[r] : x.bill = b
    <3>1. y \in plan[r]
      OBVIOUS
    <3>2. invoice'[b] = [due |-> y.due, paid |-> 0]
      BY <1>5, <1>6, <1>8
    <3> HIDE DEF y
    <3>3. invoice'[b] \in BillRow
      BY <1>4, <3>1, <3>2 DEF BillRow
    <3> QED BY <3>3, NullAssumption
  <2>2. invoice'[b] # None => \E x \in plan[r] : x.bill = b
    BY <1>5, <1>6, <1>8
  <2> DEFINE owed == /\ s \in Billable /\ g \in DOMAIN Billed(s)
                     /\ pupil[s].since <= m /\ Now - MaxBackfill <= m
                     /\ m <= Now + job[r].on
  <2>3. (\E x \in plan[r] : x.bill = b) <=> owed
    <3>1. PICK ahead \in Nat : ahead = job[r].on
      BY <1>4
    <3>2. Rows
      BY DEF IInv
    <3>3. (\E x \in Renewal(ahead) : x.bill = b)
          <=> /\ s \in Billable /\ g \in DOMAIN Billed(s)
              /\ pupil[s].since <= m /\ Now - MaxBackfill <= m /\ m <= Now + ahead
      BY <3>2, RenewalBills
    <3> HIDE DEF b
    <3> QED BY <1>4, <3>1, <3>3
  <2> HIDE DEF owed, inv, b
  <2>4. owed \in BOOLEAN
    BY DEF owed
  <2>5. (invoice'[b] # None) = owed
    BY <2>1, <2>2, <2>3, <2>4
  <2> QED BY <1>8, <2>5 DEF owed, b
<1> QED BY <1>7, <1>8

\* A renewal that nobody overtook leaves no month of any enrolment unbilled and
\* changes no bill there is.
THEOREM RenewalsComplete == Spec => RenewalIsComplete
<1> DEFINE Whole(r) ==
      Finishes(r, "renew") /\ r \notin stale =>
          \A s \in Students, g \in Groups, m \in Months :
              LET owed == /\ s \in Billable /\ g \in DOMAIN Billed(s)
                          /\ pupil[s].since <= m /\ Now - MaxBackfill <= m
                          /\ m <= Now + job[r].on
                  b == <<s, g, m>>
              IN  IF invoice[b] # None THEN invoice'[b] = invoice[b] ELSE (invoice'[b] # None) = owed
<1>1. IInv /\ [Next]_vars => [\A r \in Callers : Whole(r)]_vars
  BY RenewalIsWhole
<1> QED BY <1>1, SchoolIsInOrder, PTL DEF Spec, RenewalIsComplete

-----------------------------------------------------------------------------
(* The import finds afterwards what it has written. *)

\* Looking up in a given state of the tree.
MatchIn(nodes, kind, up, name) ==
    LET found == {n \in kind : nodes[n] # None /\ nodes[n].up = up /\ nodes[n].name = name}
    IN  IF found = {} THEN None ELSE CHOOSE n \in found : TRUE
ChainIn(nodes, x) ==
    LET l == MatchIn(nodes, Levels, None, x[1])
        f == IF l = None THEN None ELSE MatchIn(nodes, Fields, l, x[2])
        p == IF f = None THEN None ELSE MatchIn(nodes, Profs, f, x[3])
    IN  <<l, f, p, IF p = None THEN None ELSE MatchIn(nodes, Groups, p, x[4])>>

\* The chain of an imported line, as a function of the table it is looked up in.
LEMMA ChainIs ==
  ASSUME NEW x
  PROVE  Chain(x) = ChainIn(node, x) /\ Chain(x)' = ChainIn(node', x)
  BY DEF Chain, ChainIn, Match, MatchIn, There

\* A table without a change finds the same, and one with a new row alone finds it.
LEMMA SameMatch ==
  ASSUME NEW nodes, NEW after, NEW kind, NEW up, NEW name, \A n \in kind : after[n] = nodes[n]
  PROVE  MatchIn(after, kind, up, name) = MatchIn(nodes, kind, up, name)
<1> DEFINE found(t) == {n \in kind : t[n] # None /\ t[n].up = up /\ t[n].name = name}
<1>1. found(after) = found(nodes)
  OBVIOUS
<1>2. \A t : MatchIn(t, kind, up, name) = IF found(t) = {} THEN None ELSE CHOOSE n \in found(t) : TRUE
  BY DEF MatchIn
<1> HIDE DEF found
<1> QED BY <1>1, <1>2

\* A name that has no match is the name of no row.
LEMMA NoMatch ==
  ASSUME NEW nodes, NEW kind, NEW up, NEW name, None \notin kind, MatchIn(nodes, kind, up, name) = None
  PROVE  \A n \in kind : ~(nodes[n] # None /\ nodes[n].up = up /\ nodes[n].name = name)
<1> DEFINE found == {n \in kind : nodes[n] # None /\ nodes[n].up = up /\ nodes[n].name = name}
<1>1. found # {} => (CHOOSE n \in found : TRUE) \in found
  OBVIOUS
<1>2. MatchIn(nodes, kind, up, name) = IF found = {} THEN None ELSE CHOOSE n \in found : TRUE
  BY DEF MatchIn
<1> QED BY <1>1, <1>2

\* A new row in its table is found when nothing matched before, or nothing hung
\* where it hangs.
NewLink(nodes, after, kind, up, name, k) ==
    /\ k \in kind /\ after[k] # None /\ after[k].up = up /\ after[k].name = name
    /\ \A n \in kind \ {k} : after[n] = nodes[n]
    /\ \A n \in kind : ~(nodes[n] # None /\ nodes[n].up = up /\ nodes[n].name = name)

\* A row that is written under a name that had no match is its only match.
LEMMA LinkNew ==
  ASSUME NEW nodes, NEW after, NEW kind, NEW up, NEW name, NEW k,
         NewLink(nodes, after, kind, up, name, k)
  PROVE  MatchIn(after, kind, up, name) = k
<1> DEFINE found == {n \in kind : after[n] # None /\ after[n].up = up /\ after[n].name = name}
<1>1. \A n \in kind \ {k} : ~(after[n] # None /\ after[n].up = up /\ after[n].name = name)
  BY DEF NewLink
<1>2. found = {k}
  BY <1>1 DEF NewLink
<1>3. MatchIn(after, kind, up, name) = IF found = {} THEN None ELSE CHOOSE n \in found : TRUE
  BY DEF MatchIn
<1> HIDE DEF found
<1> QED BY <1>2, <1>3

\* A row as the import writes it.
LEMMA NewRow ==
  ASSUME NEW up \in Nodes \cup {None}, NEW name \in Names
  PROVE  Row(up, FALSE, name) # None /\ Row(up, FALSE, name).up = up /\ Row(up, FALSE, name).name = name
<1>1. Row(up, FALSE, name) \in NodeRow
  BY DEF Row, NodeRow
<1> QED BY <1>1, NullAssumption DEF Row

\* What an import adds to the tree: the rows its chain lacked, each under the one
\* above; and to the students, one.
Adds(c, x) ==
    /\ New(c, 1) \in Levels /\ New(c, 2) \in Fields /\ New(c, 3) \in Profs /\ New(c, 4) \in Groups
    /\ IF c[1] = None THEN ~There(New(c, 1)) /\ node'[New(c, 1)] = Row(None, FALSE, x[1]) ELSE New(c, 1) = c[1]
    /\ IF c[2] = None THEN ~There(New(c, 2)) /\ node'[New(c, 2)] = Row(New(c, 1), FALSE, x[2]) ELSE New(c, 2) = c[2]
    /\ IF c[3] = None THEN ~There(New(c, 3)) /\ node'[New(c, 3)] = Row(New(c, 2), FALSE, x[3]) ELSE New(c, 3) = c[3]
    /\ IF c[4] = None THEN ~There(New(c, 4)) /\ node'[New(c, 4)] = Row(New(c, 3), FALSE, x[4]) ELSE New(c, 4) = c[4]
    /\ \A n \in Levels : n # New(c, 1) \/ c[1] # None => node'[n] = node[n]
    /\ \A n \in Fields : n # New(c, 2) \/ c[2] # None => node'[n] = node[n]
    /\ \A n \in Profs : n # New(c, 3) \/ c[3] # None => node'[n] = node[n]
    /\ \A n \in Groups : n # New(c, 4) \/ c[4] # None => node'[n] = node[n]
    /\ \E s \in Newcomers :
          pupil' = Cascade(node', [pupil EXCEPT ![s] =
                                     PupilOf(New(c, 4), Now, x[5], [h \in {New(c, 4)} |-> MonthlyFee])])

\* The import writes exactly the rows of the line that were missing.
LEMMA ImportAdds ==
  ASSUME IInv, NEW r \in Callers, Import(r), stage'[r] = "written", NEW c, c = plan[r], NEW x, x = job[r].on
  PROVE  Adds(c, x)
<1> DEFINE Place(i) == Row(IF i = 1 THEN None ELSE New(c, i - 1), FALSE, x[i])
           missing == {j \in 1..4 : c[j] = None}
           added == [n \in {New(c, i) : i \in missing} |-> Place(CHOOSE i \in 1..4 : New(c, i) = n)]
           s == CHOOSE y \in Newcomers : TRUE
           nodes == [n \in Nodes |-> IF n \in DOMAIN added THEN added[n] ELSE node[n]]
           pupils == [pupil EXCEPT ![s] = PupilOf(New(c, 4), Now, x[5], [h \in {New(c, 4)} |-> MonthlyFee])]
<1>1. Importable(c) /\ Follows(r, "import", "read") /\ Commit(r, "written", nodes, pupils, invoice, ledger)
  BY DEF Import
<1>2. /\ c[1] \in Levels \cup {None} /\ c[2] \in Fields \cup {None}
      /\ c[3] \in Profs \cup {None} /\ c[4] \in Groups \cup {None}
  BY <1>1, FollowsAsks DEF IInv, ReadWell, ImportWell
<1>3. node' = nodes /\ pupil' = Cascade(nodes, pupils)
  <2>1. ~Refuse(r)
    BY DEF Refuse, To, IInv, Requests
  <2> QED BY <1>1, <2>1 DEF Commit
<1>4. /\ New(c, 1) = IF c[1] # None THEN c[1] ELSE CHOOSE n \in Fresh(Levels) : TRUE
      /\ New(c, 2) = IF c[2] # None THEN c[2] ELSE CHOOSE n \in Fresh(Fields) : TRUE
      /\ New(c, 3) = IF c[3] # None THEN c[3] ELSE CHOOSE n \in Fresh(Profs) : TRUE
      /\ New(c, 4) = IF c[4] # None THEN c[4] ELSE CHOOSE n \in Fresh(Groups) : TRUE
  BY DEF New
<1>5. /\ c[1] = None => Fresh(Levels) # {}
      /\ c[2] = None => Fresh(Fields) # {}
      /\ c[3] = None => Fresh(Profs) # {}
      /\ c[4] = None => Fresh(Groups) # {}
  BY <1>1 DEF Importable
<1>6. \A kind : Fresh(kind) # {} =>
        (CHOOSE n \in Fresh(kind) : TRUE) \in kind /\ ~There(CHOOSE n \in Fresh(kind) : TRUE)
  <2> SUFFICES ASSUME NEW kind, Fresh(kind) # {}
               PROVE  (CHOOSE n \in Fresh(kind) : TRUE) \in kind /\ ~There(CHOOSE n \in Fresh(kind) : TRUE)
    OBVIOUS
  <2>1. (CHOOSE n \in Fresh(kind) : TRUE) \in Fresh(kind)
    OBVIOUS
  <2> QED BY <2>1 DEF Fresh
<1>7. New(c, 1) \in Levels /\ New(c, 2) \in Fields /\ New(c, 3) \in Profs /\ New(c, 4) \in Groups
  BY <1>2, <1>4, <1>5, <1>6
<1>8. \A i \in 1..4 : IF c[i] = None THEN ~There(New(c, i)) ELSE New(c, i) = c[i]
  BY <1>4, <1>5, <1>6
<1>9. \A i, j \in 1..4 : New(c, i) = New(c, j) => i = j
  BY <1>7, TablesAssumption
<1>10. ASSUME NEW i \in 1..4, c[i] = None
       PROVE  nodes[New(c, i)] = Place(i)
  <2>1. New(c, i) \in Nodes
    BY <1>7 DEF Nodes
  <2>2. New(c, i) \in DOMAIN added
    BY <1>10
  <2> DEFINE k == CHOOSE j \in 1..4 : New(c, j) = New(c, i)
  <2>3. k \in 1..4 /\ New(c, k) = New(c, i)
    OBVIOUS
  <2>4. k = i
    BY <1>9, <2>3
  <2>5. added[New(c, i)] = Place(k)
    BY <2>2
  <2> HIDE DEF added, k, Place
  <2> QED BY <2>1, <2>2, <2>4, <2>5
<1>11. /\ \A n \in Levels : n # New(c, 1) \/ c[1] # None => nodes[n] = node[n]
       /\ \A n \in Fields : n # New(c, 2) \/ c[2] # None => nodes[n] = node[n]
       /\ \A n \in Profs : n # New(c, 3) \/ c[3] # None => nodes[n] = node[n]
       /\ \A n \in Groups : n # New(c, 4) \/ c[4] # None => nodes[n] = node[n]
  <2>1. \A n \in Nodes : n \notin DOMAIN added => nodes[n] = node[n]
    OBVIOUS
  <2>2. \A n \in DOMAIN added : \E i \in 1..4 : c[i] = None /\ n = New(c, i)
    OBVIOUS
  <2>3. \A n \in DOMAIN added :
          \/ n = New(c, 1) /\ c[1] = None
          \/ n = New(c, 2) /\ c[2] = None
          \/ n = New(c, 3) /\ c[3] = None
          \/ n = New(c, 4) /\ c[4] = None
    BY <2>2
  <2> HIDE DEF nodes, added
  <2> QED BY <1>7, <2>1, <2>3, TablesAssumption DEF Nodes
<1>12. s \in Newcomers
  BY <1>1 DEF Importable
<1>13. /\ Place(1) = Row(None, FALSE, x[1]) /\ Place(2) = Row(New(c, 1), FALSE, x[2])
       /\ Place(3) = Row(New(c, 2), FALSE, x[3]) /\ Place(4) = Row(New(c, 3), FALSE, x[4])
  OBVIOUS
<1> HIDE DEF nodes, s, Place
<1>14. /\ c[1] = None => nodes[New(c, 1)] = Place(1)
       /\ c[2] = None => nodes[New(c, 2)] = Place(2)
       /\ c[3] = None => nodes[New(c, 3)] = Place(3)
       /\ c[4] = None => nodes[New(c, 4)] = Place(4)
  BY <1>10
<1>15. /\ c[1] = None => ~There(New(c, 1))
       /\ c[2] = None => ~There(New(c, 2))
       /\ c[3] = None => ~There(New(c, 3))
       /\ c[4] = None => ~There(New(c, 4))
  BY <1>8
<1> QED BY <1>3, <1>4, <1>7, <1>11, <1>12, <1>13, <1>14, <1>15 DEF Adds

\* An imported line is found again at once, if the import read a current table.
LEMMA ImportIsFound ==
  ASSUME IInv, NEW r \in Callers, Import(r), stage'[r] = "written", NEW c, c = plan[r], NEW x, x = job[r].on,
         r \notin stale
  PROVE  Chain(x)' = <<New(c, 1), New(c, 2), New(c, 3), New(c, 4)>>
<1> DEFINE l == New(c, 1)  f == New(c, 2)  p == New(c, 3)  g == New(c, 4)
<1>0. Adds(c, x)
  BY ImportAdds
<1>1. l \in Levels /\ f \in Fields /\ p \in Profs /\ g \in Groups
  BY <1>0 DEF Adds
<1>2. /\ IF c[1] = None THEN ~There(l) /\ node'[l] = Row(None, FALSE, x[1]) ELSE l = c[1]
      /\ IF c[2] = None THEN ~There(f) /\ node'[f] = Row(l, FALSE, x[2]) ELSE f = c[2]
      /\ IF c[3] = None THEN ~There(p) /\ node'[p] = Row(f, FALSE, x[3]) ELSE p = c[3]
      /\ IF c[4] = None THEN ~There(g) /\ node'[g] = Row(p, FALSE, x[4]) ELSE g = c[4]
  BY <1>0 DEF Adds
<1>4. /\ \A n \in Levels : n # l \/ c[1] # None => node'[n] = node[n]
      /\ \A n \in Fields : n # f \/ c[2] # None => node'[n] = node[n]
      /\ \A n \in Profs : n # p \/ c[3] # None => node'[n] = node[n]
      /\ \A n \in Groups : n # g \/ c[4] # None => node'[n] = node[n]
  BY <1>0 DEF Adds
<1>5. c = ChainIn(node, x) /\ At(r, "import", "read")
  <2>1. At(r, "import", "read")
    BY DEF Import, Follows, At
  <2> QED BY <2>1, ChainIs DEF IInv, ReadWell, ImportWell
<1>6. /\ c[1] = MatchIn(node, Levels, None, x[1])
      /\ c[2] = IF c[1] = None THEN None ELSE MatchIn(node, Fields, c[1], x[2])
      /\ c[3] = IF c[2] = None THEN None ELSE MatchIn(node, Profs, c[2], x[3])
      /\ c[4] = IF c[3] = None THEN None ELSE MatchIn(node, Groups, c[3], x[4])
  BY <1>5 DEF ChainIn
<1> HIDE DEF l, f, p, g
<1>7. \A i \in 1..5 : x[i] \in Names
  BY <1>5 DEF IInv, ReadWell, ImportWell
<1>9. None \notin Nodes
  BY RowsAssumption
<1>10. \A n \in Nodes : node[n] # None /\ node[n].up # None => There(node[n].up)
  BY DEF IInv, Rows, Linked, There
<1>11. MatchIn(node', Levels, None, x[1]) = l
  <2>1. CASE c[1] = None
    <3>1. node'[l] # None /\ node'[l].up = None /\ node'[l].name = x[1]
      <4>1. node'[l] = Row(None, FALSE, x[1])
        BY <1>2, <2>1
      <4>2. x[1] \in Names /\ None \in Nodes \cup {None}
        BY <1>1, <1>7 DEF Nodes
      <4>3. Row(None, FALSE, x[1]) # None /\ Row(None, FALSE, x[1]).up = None /\ Row(None, FALSE, x[1]).name = x[1]
        BY <4>2, NewRow
      <4> QED BY <4>1, <4>3
    <3>2. \A n \in Levels : ~(node[n] # None /\ node[n].up = None /\ node[n].name = x[1])
      <4>1. MatchIn(node, Levels, None, x[1]) = None /\ None \notin Levels
        BY <1>6, <1>9, <2>1 DEF Nodes
      <4> QED BY <4>1, NoMatch
    <3>3. l \in Levels /\ \A n \in Levels \ {l} : node'[n] = node[n]
      BY <1>1, <1>4
    <3>4. NewLink(node, node', Levels, None, x[1], l)
      BY <3>1, <3>2, <3>3 DEF NewLink
    <3> QED BY <3>4, LinkNew
  <2>2. CASE c[1] # None
    <3>1. MatchIn(node, Levels, None, x[1]) = c[1] /\ l = c[1]
      BY <1>2, <1>6, <2>2
    <3>2. \A n \in Levels : node'[n] = node[n]
      BY <1>4, <2>2
    <3> QED BY <3>1, <3>2, SameMatch
  <2> QED BY <2>1, <2>2
<1>12. MatchIn(node', Fields, l, x[2]) = f
  <2>1. CASE c[2] = None
    <3>1. node'[f] # None /\ node'[f].up = l /\ node'[f].name = x[2]
      <4>1. node'[f] = Row(l, FALSE, x[2])
        BY <1>2, <2>1
      <4>2. x[2] \in Names /\ l \in Nodes \cup {None}
        BY <1>1, <1>7 DEF Nodes
      <4>3. Row(l, FALSE, x[2]) # None /\ Row(l, FALSE, x[2]).up = l /\ Row(l, FALSE, x[2]).name = x[2]
        BY <4>2, NewRow
      <4> QED BY <4>1, <4>3
    <3>2. \A n \in Fields : ~(node[n] # None /\ node[n].up = l /\ node[n].name = x[2])
      <4>1. CASE c[1] = None
        <5>1. ~There(l) /\ l # None
          BY <1>1, <1>2, <1>9, <4>1 DEF Nodes
        <5> QED BY <1>10, <5>1 DEF Nodes
      <4>2. CASE c[1] # None
        <5>1. MatchIn(node, Fields, l, x[2]) = None /\ None \notin Fields
          BY <1>2, <1>6, <1>9, <2>1, <4>2 DEF Nodes
        <5> QED BY <5>1, NoMatch
      <4> QED BY <4>1, <4>2
    <3>3. f \in Fields /\ \A n \in Fields \ {f} : node'[n] = node[n]
      BY <1>1, <1>4
    <3>4. NewLink(node, node', Fields, l, x[2], f)
      BY <3>1, <3>2, <3>3 DEF NewLink
    <3> QED BY <3>4, LinkNew
  <2>2. CASE c[2] # None
    <3>1. MatchIn(node, Fields, l, x[2]) = c[2] /\ f = c[2]
      BY <1>2, <1>6, <2>2
    <3>2. \A n \in Fields : node'[n] = node[n]
      BY <1>4, <2>2
    <3> QED BY <3>1, <3>2, SameMatch
  <2> QED BY <2>1, <2>2
<1>13. MatchIn(node', Profs, f, x[3]) = p
  <2>1. CASE c[3] = None
    <3>1. node'[p] # None /\ node'[p].up = f /\ node'[p].name = x[3]
      <4>1. node'[p] = Row(f, FALSE, x[3])
        BY <1>2, <2>1
      <4>2. x[3] \in Names /\ f \in Nodes \cup {None}
        BY <1>1, <1>7 DEF Nodes
      <4>3. Row(f, FALSE, x[3]) # None /\ Row(f, FALSE, x[3]).up = f /\ Row(f, FALSE, x[3]).name = x[3]
        BY <4>2, NewRow
      <4> QED BY <4>1, <4>3
    <3>2. \A n \in Profs : ~(node[n] # None /\ node[n].up = f /\ node[n].name = x[3])
      <4>1. CASE c[2] = None
        <5>1. ~There(f) /\ f # None
          BY <1>1, <1>2, <1>9, <4>1 DEF Nodes
        <5> QED BY <1>10, <5>1 DEF Nodes
      <4>2. CASE c[2] # None
        <5>1. MatchIn(node, Profs, f, x[3]) = None /\ None \notin Profs
          BY <1>2, <1>6, <1>9, <2>1, <4>2 DEF Nodes
        <5> QED BY <5>1, NoMatch
      <4> QED BY <4>1, <4>2
    <3>3. p \in Profs /\ \A n \in Profs \ {p} : node'[n] = node[n]
      BY <1>1, <1>4
    <3>4. NewLink(node, node', Profs, f, x[3], p)
      BY <3>1, <3>2, <3>3 DEF NewLink
    <3> QED BY <3>4, LinkNew
  <2>2. CASE c[3] # None
    <3>1. MatchIn(node, Profs, f, x[3]) = c[3] /\ p = c[3]
      BY <1>2, <1>6, <2>2
    <3>2. \A n \in Profs : node'[n] = node[n]
      BY <1>4, <2>2
    <3> QED BY <3>1, <3>2, SameMatch
  <2> QED BY <2>1, <2>2
<1>14. MatchIn(node', Groups, p, x[4]) = g
  <2>1. CASE c[4] = None
    <3>1. node'[g] # None /\ node'[g].up = p /\ node'[g].name = x[4]
      <4>1. node'[g] = Row(p, FALSE, x[4])
        BY <1>2, <2>1
      <4>2. x[4] \in Names /\ p \in Nodes \cup {None}
        BY <1>1, <1>7 DEF Nodes
      <4>3. Row(p, FALSE, x[4]) # None /\ Row(p, FALSE, x[4]).up = p /\ Row(p, FALSE, x[4]).name = x[4]
        BY <4>2, NewRow
      <4> QED BY <4>1, <4>3
    <3>2. \A n \in Groups : ~(node[n] # None /\ node[n].up = p /\ node[n].name = x[4])
      <4>1. CASE c[3] = None
        <5>1. ~There(p) /\ p # None
          BY <1>1, <1>2, <1>9, <4>1 DEF Nodes
        <5> QED BY <1>10, <5>1 DEF Nodes
      <4>2. CASE c[3] # None
        <5>1. MatchIn(node, Groups, p, x[4]) = None /\ None \notin Groups
          BY <1>2, <1>6, <1>9, <2>1, <4>2 DEF Nodes
        <5> QED BY <5>1, NoMatch
      <4> QED BY <4>1, <4>2
    <3>3. g \in Groups /\ \A n \in Groups \ {g} : node'[n] = node[n]
      BY <1>1, <1>4
    <3>4. NewLink(node, node', Groups, p, x[4], g)
      BY <3>1, <3>2, <3>3 DEF NewLink
    <3> QED BY <3>4, LinkNew
  <2>2. CASE c[4] # None
    <3>1. MatchIn(node, Groups, p, x[4]) = c[4] /\ g = c[4]
      BY <1>2, <1>6, <2>2
    <3>2. \A n \in Groups : node'[n] = node[n]
      BY <1>4, <2>2
    <3> QED BY <3>1, <3>2, SameMatch
  <2> QED BY <2>1, <2>2
<1>15. l # None /\ f # None /\ p # None
  BY <1>1, <1>9 DEF Nodes
<1>16. ChainIn(node', x) = <<l, f, p, g>>
  BY <1>11, <1>12, <1>13, <1>14, <1>15 DEF ChainIn
<1> QED BY <1>16, ChainIs DEF l, f, p, g

\* The group the import names holds one student of the name: the one it wrote.
LEMMA ImportIsAlone ==
  ASSUME IInv, NEW r \in Callers, Import(r), stage'[r] = "written", NEW c, c = plan[r], NEW x, x = job[r].on,
         r \notin stale
  PROVE  \E s : {t \in Students : pupil'[t] # None /\ pupil'[t].home = New(c, 4) /\ pupil'[t].name = x[5]} = {s}
<1> DEFINE g == New(c, 4)
           new == PupilOf(g, Now, x[5], [h \in {g} |-> MonthlyFee])
<1>1. Adds(c, x)
  BY ImportAdds
<1>2. PICK s \in Newcomers : pupil' = Cascade(node', [pupil EXCEPT ![s] = new])
  BY <1>1 DEF Adds
<1>3. g \in Groups /\ IF c[4] = None THEN ~There(g) ELSE g = c[4]
  BY <1>1 DEF Adds
<1>4. Twins(c[4], x[5]) = {} /\ x[5] \in Names
  BY DEF Import, Follows, IInv, ReadWell, ImportWell, At
<1>5. s \in Students /\ pupil \in [Students -> PupilRow \cup {None}]
  BY <1>2 DEF Newcomers, IInv, Rows, RowsTyped
<1>6. new \in PupilRow /\ new.home = g /\ new.name = x[5] /\ new # None
  <2>1. [h \in {g} |-> MonthlyFee] \in FeeTables
    <3>1. [h \in {g} |-> MonthlyFee] \in [{g} -> Fees \cup {0}] /\ {g} \in SUBSET Groups
      BY <1>3, RowsAssumption
    <3> QED BY <3>1, FeesOf
  <2>2. Now \in Months
    BY MonthsAssumption
  <2>3. new \in PupilRow /\ new.home = g
    BY <1>3, <1>4, <2>1, <2>2, PupilOfTyped
  <2> QED BY <2>3, NullAssumption DEF PupilOf
<1> HIDE DEF new
<1> DEFINE base == [pupil EXCEPT ![s] = new]
<1>7. base \in [Students -> PupilRow \cup {None}] /\ base[s] = new
      /\ \A t \in Students \ {s} : base[t] = pupil[t]
  BY <1>5, <1>6
<1>8. pupil' = Cascade(node', base)
  BY <1>2
<1> HIDE DEF base
<1>9. ASSUME NEW t \in Students
      PROVE  /\ base[t] = None => pupil'[t] = None
             /\ base[t] # None => pupil'[t] # None /\ pupil'[t].home = base[t].home /\ pupil'[t].name = base[t].name
  <2>1. CASE base[t] = None
    BY <1>8, <2>1 DEF Cascade
  <2>2. CASE base[t] # None
    <3>1. base[t] \in PupilRow
      BY <1>7, <2>2
    <3> DEFINE left == [h \in {k \in DOMAIN base[t].fees : node'[k] # None} |-> base[t].fees[h]]
    <3>2. pupil'[t] = [base[t] EXCEPT !.fees = left]
      BY <1>8, <2>2 DEF Cascade
    <3> HIDE DEF left
    <3>3. pupil'[t].home = base[t].home /\ pupil'[t].name = base[t].name
      BY <3>1, <3>2, PupilRows
    <3>4. Cascade(node', base)[t] \in PupilRow
      BY <1>7, <2>2, CascadeRow
    <3>5. pupil'[t] # None
      BY <1>8, <3>4, NullAssumption
    <3> QED BY <2>2, <3>3, <3>5
  <2> QED BY <2>1, <2>2
<1>10. pupil'[s] # None /\ pupil'[s].home = g /\ pupil'[s].name = x[5]
  BY <1>5, <1>6, <1>7, <1>9
<1>11. ASSUME NEW t \in Students, pupil'[t] # None, pupil'[t].home = g, pupil'[t].name = x[5], t # s
       PROVE  FALSE
  <2>1. pupil[t] # None /\ pupil[t].home = g /\ pupil[t].name = x[5]
    BY <1>7, <1>9, <1>11
  <2>2. There(g)
    BY <2>1 DEF IInv, Rows, Linked
  <2>3. t \in Twins(c[4], x[5])
    BY <1>3, <2>1, <2>2 DEF Twins, Homed
  <2> QED BY <1>4, <2>3
<1>12. {t \in Students : pupil'[t] # None /\ pupil'[t].home = g /\ pupil'[t].name = x[5]} = {s}
  BY <1>5, <1>10, <1>11
<1> QED BY <1>12

\* An import that nobody overtook can be repeated: afterwards its whole chain is
\* found, and one student of the name at the end of it.
LEMMA ImportIsWhole ==
  ASSUME IInv, [Next]_vars, NEW r \in Callers, Finishes(r, "import"), r \notin stale
  PROVE  (LET x == job[r].on
              c == Chain(x)
          IN  None \notin {c[i] : i \in 1..4} /\ Cardinality({s \in Homed({c[4]}) : pupil[s].name = x[5]}) = 1)'
<1>1. Step(r) /\ job[r].op = "import" /\ stage'[r] = "written"
  BY LastStep DEF Finishes
<1>2. Import(r)
  <2>1. ~AddPen(r) /\ ~DeleteCascade(r) /\ ~HardDelete(r) /\ ~UpdateRow(r) /\ ~Move(r) /\ ~Remove(r) /\ ~ArchiveCascade(r)
    BY <1>1 DEF AddPen, DeleteCascade, HardDelete, UpdateRow, Move, Remove, ArchiveCascade, Follows
  <2>2. ~Scan(r) /\ ~FindChildren(r) /\ ~Reassign(r) /\ ~Park(r) /\ ~Detach(r)
    BY <1>1 DEF Scan, FindChildren, Reassign, Park, Detach, Follows
  <2>3. ~ReadStudent(r) /\ ~WriteBills(r)
    BY <1>1 DEF ReadStudent, WriteBills, Follows
  <2> QED BY <1>1, <2>1, <2>2, <2>3 DEF Step
<1> PICK c, x : c = plan[r] /\ x = job[r].on
  OBVIOUS
<1>3. job'[r].on = x
  BY <1>2 DEF Import, Follows
<1>4. Chain(job[r].on)' = ChainIn(node', job'[r].on) /\ Chain(x)' = ChainIn(node', x)
  BY DEF Chain, ChainIn, Match, MatchIn, There
<1>5. Chain(job[r].on)' = <<New(c, 1), New(c, 2), New(c, 3), New(c, 4)>>
  BY <1>1, <1>2, <1>3, <1>4, ImportIsFound
<1>6. \A i \in 1..4 : New(c, i) # None
  <2>1. Adds(c, x)
    BY <1>1, <1>2, ImportAdds
  <2> QED BY <2>1, RowsAssumption DEF Adds, Nodes
<1>7. PICK s : {t \in Students : pupil'[t] # None /\ pupil'[t].home = New(c, 4) /\ pupil'[t].name = x[5]} = {s}
  BY <1>1, <1>2, ImportIsAlone
<1>8. {t \in Homed({Chain(job[r].on)[4]})' : pupil'[t].name = job'[r].on[5]} = {s}
  <2>1. Homed({Chain(job[r].on)[4]})' = {t \in Students : pupil'[t] # None /\ pupil'[t].home = New(c, 4)}
    <3>1. Homed({Chain(job[r].on)[4]})' = {t \in Students : pupil'[t] # None /\ pupil'[t].home \in {Chain(job[r].on)'[4]}}
      BY DEF Homed
    <3>2. Chain(job[r].on)'[4] = New(c, 4)
      BY <1>5
    <3> QED BY <3>1, <3>2
  <2> QED BY <1>3, <1>7, <2>1
<1>9. Cardinality({t \in Homed({Chain(job[r].on)[4]})' : pupil'[t].name = job'[r].on[5]}) = 1
  BY <1>8, FS_Singleton
<1>10. \A i \in 1..4 : Chain(job[r].on)'[i] # None
  BY <1>5, <1>6
<1> QED BY <1>9, <1>10

\* Importing one row again adds nothing: the group holds one student of the name.
THEOREM ImportsAddNoTwin == Spec => ImportAddsNoTwin
<1> DEFINE Whole(r) ==
      Finishes(r, "import") /\ r \notin stale =>
          (LET x == job[r].on
               c == Chain(x)
           IN  None \notin {c[i] : i \in 1..4} /\ Cardinality({s \in Homed({c[4]}) : pupil[s].name = x[5]}) = 1)'
<1>1. IInv /\ [Next]_vars => [\A r \in Callers : Whole(r)]_vars
  BY ImportIsWhole
<1> QED BY <1>1, SchoolIsInOrder, PTL DEF Spec, ImportAddsNoTwin
-----------------------------------------------------------------------------
(* "Delete this only". *)

\* No table is its own parents', so children are of another table than the node.
LEMMA OtherTable ==
  ASSUME Rows, NEW n \in Nodes
  PROVE  /\ \A m \in Kids(n) : m \notin Kind(n)
         /\ \A s \in Students : s \notin Kind(n)
         /\ n \in Groups => Kids(n) = {}
         /\ n \notin Groups => Enrolled({n}) = {}
         /\ n \notin ParentKind(Kind(n))
<1>1. n \notin ParentKind(Kind(n))
  BY Hangs, TablesAssumption, RowsAssumption DEF Nodes
<1>2. ASSUME NEW m \in Kids(n)
      PROVE  m \notin Kind(n) /\ n \notin Groups
  <2>1. m \in Nodes /\ ParentKind(Kind(m)) = Kind(n) /\ n \in Kind(n)
    BY KidHangs, KindIsTable
  <2>2. CASE m \in Levels
    BY <2>1, <2>2, Hangs, RowsAssumption, TablesAssumption DEF Nodes
  <2>3. CASE m \in Fields
    BY <2>1, <2>3, Hangs, RowsAssumption, TablesAssumption DEF Nodes
  <2>4. CASE m \in Profs
    BY <2>1, <2>4, Hangs, RowsAssumption, TablesAssumption DEF Nodes
  <2>5. CASE m \in Groups
    BY <2>1, <2>5, Hangs, RowsAssumption, TablesAssumption DEF Nodes
  <2> QED BY <2>1, <2>2, <2>3, <2>4, <2>5 DEF Nodes
<1>3. \A s \in Students : s \notin Kind(n)
  BY KindIsTable, TablesAssumption DEF Nodes
<1>4. ASSUME n \notin Groups, NEW s \in Enrolled({n})
      PROVE  FALSE
  <2>1. pupil[s] \in PupilRow /\ n \in DOMAIN pupil[s].fees
    BY <1>4 DEF Enrolled, Rows, RowsTyped
  <2> QED BY <1>4, <2>1, PupilRows, FeesOf
<1> QED BY <1>1, <1>2, <1>3, <1>4

\* A student who is moved keeps the other enrolments, and a commit those of groups
\* there are.
LEMMA MovedKeeps ==
  ASSUME NEW nodes, NEW pupils, NEW s \in Students, NEW row \in PupilRow, NEW from, NEW target \in Groups,
         pupils[s] = Moved(row, from, target), pupils[s] # None, target # from, nodes[target] # None,
         \A g \in DOMAIN row.fees : nodes[g] # None
  PROVE  LET fees == Cascade(nodes, pupils)[s].fees
         IN  /\ from \notin DOMAIN fees /\ target \in DOMAIN fees
             /\ \A g \in DOMAIN row.fees \ {from} : g \in DOMAIN fees /\ fees[g] = row.fees[g]
<1> DEFINE f == row.fees
           kept == DOMAIN f \ {from}
           there == [g \in kept \cup {target} |-> IF g \in kept THEN f[g] ELSE 0]
           left == [g \in {h \in DOMAIN there : nodes[h] # None} |-> there[g]]
<1>1. Moved(row, from, target) = [row EXCEPT !.home = IF row.home = from THEN target ELSE row.home, !.fees = there]
  BY DEF Moved
<1>2. Moved(row, from, target) \in PupilRow
  BY MovedTyped
<1> HIDE DEF there
<1>3. pupils[s].fees = there
  BY <1>1, PupilRows
<1>4. Cascade(nodes, pupils)[s] = [pupils[s] EXCEPT !.fees = left]
  BY <1>3 DEF Cascade
<1> HIDE DEF left
<1>5. Cascade(nodes, pupils)[s].fees = left
  BY <1>2, <1>4, PupilRows
<1>6. DOMAIN there = kept \cup {target} /\ \A g \in kept : there[g] = f[g]
  BY DEF there
<1>7. DOMAIN left = kept \cup {target}
  BY <1>6 DEF left
<1>8. \A g \in kept : left[g] = f[g]
  BY <1>6, <1>7 DEF left
<1> QED BY <1>5, <1>7, <1>8

\* Where a detached child may be afterwards.
TakesIn(nodes, p, t) ==
    /\ t # p.node /\ nodes[t] # None
    /\ Kind(p.node) = Levels \/ nodes[t].up = p.up
    /\ nodes[t].active \/ nodes[t].pen

\* When a detachment nobody overtook has been written, the children hang where it
\* was asked to put them.
LEMMA DetachIsWhole ==
  ASSUME IInv, NEW r \in Callers, Detach(r), stage'[r] = "written", NEW p, p = plan[r], r \notin stale,
         \A c \in Nodes \cup Students : Chosen(p.choice, c) # p.node
  PROVE  LET n == p.node
         IN  /\ \A m \in Nodes : node'[m] # None => node'[m].up # n
             /\ \A s \in Students : pupil'[s] # None => n \notin DOMAIN pupil'[s].fees
             /\ \A c \in Kids(n) : TakesIn(node', p, node'[c].up)
             /\ \A s \in Enrolled({n}) :
                   /\ \A g \in DOMAIN pupil[s].fees \ {n} : g \in DOMAIN pupil'[s].fees /\ pupil'[s].fees[g] = pupil[s].fees[g]
                   /\ \E g \in DOMAIN pupil'[s].fees : TakesIn(node', p, g)
<1>1. PICK n, moving : n = p.node /\ moving = DOMAIN p.goes
  OBVIOUS
<1> DEFINE moved == [m \in Nodes |-> IF m \in moving /\ There(m) THEN [node[m] EXCEPT !.up = p.goes[m]] ELSE node[m]]
           nodes == [m \in Nodes |-> IF m = n /\ There(m) THEN [moved[m] EXCEPT !.active = FALSE] ELSE moved[m]]
           pupils == [s \in Students |-> IF s \in moving THEN Moved(pupil[s], n, p.goes[s]) ELSE pupil[s]]
<1>2. At(r, "detach", "moving") /\ Rows /\ p.left = {}
  BY DEF Detach, Follows, At, IInv
<1>3. Ready(p) /\ Active(n) /\ moving = Children(n) /\ \A c \in moving : Fits(p, c, p.goes[c])
  BY <1>1, <1>2 DEF IInv, ReadWell, DetachWell, Knows
<1>4. /\ n \in Nodes /\ Kind(n) \in {Levels, Fields, Profs, Groups} /\ n \in Kind(n) /\ There(n)
      /\ \A c \in moving : p.goes[c] \in Kind(n) /\ p.goes[c] \in Nodes
  BY <1>1, <1>3, KindIsTable DEF Ready, Active, Nodes
<1>5. node' = nodes /\ pupil' = Cascade(nodes, pupils)
  <2>1. ~Refuse(r)
    BY DEF Refuse, To, IInv, Requests
  <2>2. Commit(r, "written", nodes, pupils, invoice, ledger)
    BY <1>1, <2>1 DEF Detach
  <2> HIDE DEF nodes, pupils
  <2> QED BY <2>1, <2>2 DEF Commit
<1>6. /\ \A c \in moving : c \notin Kind(n) /\ c \in Nodes \cup Students
      /\ moving \cap Nodes = Kids(n) /\ moving \cap Students = Enrolled({n})
  <2>1. Kids(n) \subseteq Nodes /\ Enrolled({n}) \subseteq Students /\ Students \cap Nodes = {}
    BY TablesAssumption DEF Kids, Enrolled
  <2> QED BY <1>2, <1>3, <1>4, <2>1, OtherTable DEF Children
\* The rows afterwards: the node, its children, and all others as they were.
<1>7. ASSUME NEW m \in Nodes, There(m)
      PROVE  /\ node'[m] \in NodeRow /\ node'[m].pen = node[m].pen
             /\ node'[m].up = IF m \in moving THEN p.goes[m] ELSE node[m].up
             /\ m # n => node'[m].active = node[m].active
  <2>1. node[m] \in NodeRow
    BY <1>2, <1>7 DEF Rows, RowsTyped, There
  <2>2. PICK row : row = IF m \in moving THEN [node[m] EXCEPT !.up = p.goes[m]] ELSE node[m]
    OBVIOUS
  <2>3. row \in NodeRow /\ row.pen = node[m].pen /\ row.active = node[m].active
        /\ row.up = IF m \in moving THEN p.goes[m] ELSE node[m].up
    BY <1>4, <2>1, <2>2 DEF NodeRow
  <2>4. moved[m] = row
    BY <1>7, <2>2
  <2> HIDE DEF moved
  <2>5. node'[m] = IF m = n THEN [row EXCEPT !.active = FALSE] ELSE row
    BY <1>5, <1>7, <2>4
  <2> QED BY <2>3, <2>5 DEF NodeRow
<1>8. ASSUME NEW m \in Nodes, ~There(m) PROVE node'[m] = None
  BY <1>5, <1>8 DEF There
<1>9. \A m \in Nodes : There(m) => node'[m] # None
  BY <1>7, NullAssumption
<1>10. ASSUME NEW c \in moving
       PROVE  TakesIn(node', p, p.goes[c]) /\ p.goes[c] # n
  <2>1. PICK t : t = p.goes[c]
    OBVIOUS
  <2>2. t \in Kind(n) /\ t \in Nodes /\ t \notin moving /\ Fits(p, c, t)
    BY <1>3, <1>4, <1>6, <2>1
  <2>3. t # n
    <3>1. c \in Nodes \cup Students
      BY <1>6
    <3> QED BY <1>1, <1>3, <2>2, <3>1 DEF Fits, Active
  <2>4. There(t)
    BY <2>2 DEF Fits
  <2>5. /\ node'[t] # None /\ node'[t].up = node[t].up
        /\ node'[t].active = node[t].active /\ node'[t].pen = node[t].pen
    BY <1>7, <1>9, <2>2, <2>3, <2>4
  <2>6. n \in Levels => Kind(n) = Levels
    BY Kinds
  <2> QED BY <1>1, <2>1, <2>2, <2>3, <2>5, <2>6 DEF TakesIn, Fits, Active
\* Nothing hangs off the node.
<1>11. ASSUME NEW m \in Nodes, node'[m] # None
       PROVE  node'[m].up # n
  <2>1. There(m)
    BY <1>8, <1>11
  <2>2. CASE m \in moving
    BY <1>7, <1>10, <2>1, <2>2
  <2>3. CASE m \notin moving
    <3>1. m \notin Kids(n) /\ node'[m].up = node[m].up
      BY <1>6, <1>7, <2>1, <2>3
    <3> QED BY <2>1, <3>1 DEF Kids
  <2> QED BY <2>2, <2>3
<1>12. ASSUME NEW c \in Kids(n)
       PROVE  TakesIn(node', p, node'[c].up)
  <2>1. c \in moving /\ c \in Nodes /\ There(c)
    BY <1>6 DEF Kids
  <2> QED BY <1>7, <1>10, <2>1
<1> HIDE DEF moved, nodes
<1>13. ASSUME NEW s \in Students, pupil[s] # None
       PROVE  pupil[s] \in PupilRow /\ DOMAIN pupil[s].fees \subseteq Groups
              /\ \A g \in DOMAIN pupil[s].fees : node'[g] # None
  <2>1. pupil[s] \in PupilRow
    BY <1>2, <1>13 DEF Rows, RowsTyped
  <2>2. DOMAIN pupil[s].fees \subseteq Groups
    BY <2>1, PupilRows, FeesOf
  <2> QED BY <1>2, <1>9, <1>13, <2>1, <2>2 DEF Rows, Linked, Nodes
\* The students of a group.
<1>14. ASSUME NEW s \in Enrolled({n})
       PROVE  /\ \A g \in DOMAIN pupil[s].fees \ {n} : g \in DOMAIN pupil'[s].fees /\ pupil'[s].fees[g] = pupil[s].fees[g]
              /\ p.goes[s] \in DOMAIN pupil'[s].fees /\ n \notin DOMAIN pupil'[s].fees
  <2>1. s \in Students /\ s \in moving /\ pupil[s] # None
    BY <1>6 DEF Enrolled
  <2>2. Kind(n) = Groups
    <3>1. n \in Groups
      BY <1>2, <1>4, <1>14, OtherTable
    <3> QED BY <3>1, Kinds
  <2>3. PICK t : t = p.goes[s]
    OBVIOUS
  <2>4. t \in Groups /\ t # n /\ node'[t] # None
    BY <1>4, <1>10, <2>1, <2>2, <2>3 DEF TakesIn
  <2>5. pupils[s] = Moved(pupil[s], n, t)
    BY <2>1, <2>3
  <2>6. pupil[s] \in PupilRow /\ \A g \in DOMAIN pupil[s].fees : node'[g] # None
    BY <1>13, <2>1
  <2>7. pupil' = Cascade(node', pupils)
    BY <1>5
  <2> HIDE DEF pupils
  <2>8. pupils[s] # None
    BY <2>4, <2>5, <2>6, MovedTyped, NullAssumption
  <2>9. LET fees == Cascade(node', pupils)[s].fees
        IN  /\ n \notin DOMAIN fees /\ t \in DOMAIN fees
            /\ \A g \in DOMAIN pupil[s].fees \ {n} : g \in DOMAIN fees /\ fees[g] = pupil[s].fees[g]
    BY <2>1, <2>4, <2>5, <2>6, <2>8, MovedKeeps
  <2> QED BY <2>3, <2>7, <2>9
<1>15. ASSUME NEW s \in Students, pupil'[s] # None
       PROVE  n \notin DOMAIN pupil'[s].fees
  <2>1. CASE s \in moving
    BY <1>6, <1>14, <2>1
  <2>2. CASE s \notin moving
    <3>1. pupils[s] = pupil[s] /\ pupil' = Cascade(node', pupils)
      BY <1>5, <2>2
    <3> HIDE DEF pupils
    <3>2. pupil[s] # None /\ pupils[s] \in PupilRow
      BY <1>13, <1>15, <3>1 DEF Cascade
    <3> DEFINE left == [g \in {h \in DOMAIN pupils[s].fees : node'[h] # None} |-> pupils[s].fees[g]]
    <3>3. pupil'[s] = [pupils[s] EXCEPT !.fees = left]
      BY <3>1, <3>2 DEF Cascade
    <3>4. DOMAIN left \subseteq DOMAIN pupil[s].fees
      BY <3>1
    <3> HIDE DEF left
    <3>5. pupil'[s].fees = left
      BY <3>2, <3>3, PupilRows
    <3>6. n \notin DOMAIN pupil[s].fees
      <4>1. s \notin Enrolled({n})
        BY <1>6, <2>2
      <4> QED BY <3>2, <4>1 DEF Enrolled
    <3> QED BY <3>4, <3>5, <3>6
  <2> QED BY <2>1, <2>2
<1>16. \A s \in Enrolled({n}) : \E g \in DOMAIN pupil'[s].fees : TakesIn(node', p, g)
  <2> SUFFICES ASSUME NEW s \in Enrolled({n}) PROVE \E g \in DOMAIN pupil'[s].fees : TakesIn(node', p, g)
    OBVIOUS
  <2>1. s \in moving
    BY <1>6 DEF Enrolled
  <2> QED BY <1>10, <1>14, <2>1
<1> HIDE DEF moved, nodes, pupils
<1>17. \A s \in Enrolled({n}) : \A g \in DOMAIN pupil[s].fees \ {n} :
          g \in DOMAIN pupil'[s].fees /\ pupil'[s].fees[g] = pupil[s].fees[g]
  <2>1. \A s \in Enrolled({n}) : s \in moving /\ s \in Students
    BY <1>6 DEF Enrolled
  <2> QED BY <1>14, <2>1
<1>18. /\ \A m \in Nodes : node'[m] # None => node'[m].up # n
       /\ \A s \in Students : pupil'[s] # None => n \notin DOMAIN pupil'[s].fees
  BY <1>11, <1>15
<1> QED BY <1>1, <1>12, <1>16, <1>17, <1>18

\* The same, of the step that finishes the detachment.
LEMMA DetachesAll ==
  ASSUME IInv, [Next]_vars, NEW r \in Callers, Finishes(r, "detach"), r \notin stale,
         \A c \in Nodes \cup Students : Chosen(plan[r].choice, c) # plan[r].node
  PROVE  LET n == plan[r].node
             Beside(t) == Kind(n) = Levels \/ node[t].up = plan[r].up
             Takes(t) == t # n /\ There(t) /\ Beside(t) /\ (node[t].active \/ node[t].pen)
         IN  /\ (Kids(n) = {} /\ Enrolled({n}) = {})'
             /\ \A c \in Kids(n) : Takes(node[c].up)'
             /\ \A s \in Enrolled({n}) :
                   /\ \A g \in DOMAIN pupil[s].fees \ {n} : g \in DOMAIN pupil'[s].fees /\ pupil'[s].fees[g] = pupil[s].fees[g]
                   /\ \E g \in DOMAIN pupil'[s].fees : Takes(g)'
<1>1. Step(r) /\ job[r].op = "detach" /\ stage'[r] = "written"
  BY LastStep DEF Finishes
<1>2. Detach(r)
  <2>1. ~AddPen(r) /\ ~DeleteCascade(r) /\ ~HardDelete(r) /\ ~UpdateRow(r) /\ ~Move(r) /\ ~Remove(r) /\ ~ArchiveCascade(r)
    BY <1>1 DEF AddPen, DeleteCascade, HardDelete, UpdateRow, Move, Remove, ArchiveCascade, Follows
  <2>2. ~Scan(r) /\ ~Import(r)
    BY <1>1 DEF Scan, Import, Follows
  <2>3. ~ReadStudent(r) /\ ~WriteBills(r)
    BY <1>1 DEF ReadStudent, WriteBills, Follows
  <2>4. ~FindChildren(r) /\ ~Reassign(r) /\ ~Park(r)
    <3>1. ~To(r, "moving") /\ ~Refuse(r)
      BY <1>1 DEF To, Refuse, IInv, Requests
    <3> QED BY <3>1 DEF FindChildren, Reassign, Park
  <2> QED BY <1>1, <2>1, <2>2, <2>3, <2>4 DEF Step
<1>3. plan'[r] = plan[r]
  BY <1>1, <1>2, StepMoves DEF Detach, Commit, Refuse
<1> PICK p, n : p = plan[r] /\ n = p.node
  OBVIOUS
<1>4. /\ \A m \in Nodes : node'[m] # None => node'[m].up # n
      /\ \A s \in Students : pupil'[s] # None => n \notin DOMAIN pupil'[s].fees
      /\ \A c \in Kids(n) : TakesIn(node', p, node'[c].up)
      /\ \A s \in Enrolled({n}) :
            /\ \A g \in DOMAIN pupil[s].fees \ {n} : g \in DOMAIN pupil'[s].fees /\ pupil'[s].fees[g] = pupil[s].fees[g]
            /\ \E g \in DOMAIN pupil'[s].fees : TakesIn(node', p, g)
  BY <1>1, <1>2, DetachIsWhole
<1>5. Kids(plan[r].node)' = {} /\ Enrolled({plan[r].node})' = {}
  BY <1>3, <1>4 DEF Kids, Enrolled, There
<1>6. ASSUME NEW t
      PROVE  TakesIn(node', p, t) <=>
                (LET m == plan[r].node
                 IN  t # m /\ There(t) /\ (Kind(m) = Levels \/ node[t].up = plan[r].up) /\ (node[t].active \/ node[t].pen))'
  BY <1>3 DEF TakesIn, There
<1>7. LET m == plan[r].node
          Takes(t) == t # m /\ There(t) /\ (Kind(m) = Levels \/ node[t].up = plan[r].up) /\ (node[t].active \/ node[t].pen)
      IN  \A c \in Kids(m) : Takes(node[c].up)'
  <2> SUFFICES ASSUME NEW c \in Kids(n)
               PROVE  (LET m == plan[r].node
                           t == node[c].up
                       IN  t # m /\ There(t) /\ (Kind(m) = Levels \/ node[t].up = plan[r].up) /\ (node[t].active \/ node[t].pen))'
    OBVIOUS
  <2>1. TakesIn(node', p, node'[c].up)
    BY <1>4
  <2> QED BY <1>3, <2>1 DEF TakesIn, There
<1>8. LET m == plan[r].node
          Takes(t) == t # m /\ There(t) /\ (Kind(m) = Levels \/ node[t].up = plan[r].up) /\ (node[t].active \/ node[t].pen)
      IN  \A s \in Enrolled({m}) : \E g \in DOMAIN pupil'[s].fees : Takes(g)'
  BY <1>4, <1>6
<1> QED BY <1>4, <1>5, <1>7, <1>8

\* "Delete this only", when it names other rows than its own and nobody wrote after
\* it had begun, leaves every child in a place of its parent's and takes no other
\* enrolment.
THEOREM DetachesKeepEverybody == Spec => DetachKeepsEverybody
<1>1. IInv /\ [Next]_vars =>
        [\A r \in Callers :
          Finishes(r, "detach") /\ r \notin stale
          /\ (\A c \in Nodes \cup Students : Chosen(plan[r].choice, c) # plan[r].node) =>
          LET n == plan[r].node
              Beside(t) == Kind(n) = Levels \/ node[t].up = plan[r].up
              Takes(t) == t # n /\ There(t) /\ Beside(t) /\ (node[t].active \/ node[t].pen)
          IN  /\ (Kids(n) = {} /\ Enrolled({n}) = {})'
              /\ \A c \in Kids(n) : Takes(node[c].up)'
              /\ \A s \in Enrolled({n}) :
                    /\ \A g \in DOMAIN pupil[s].fees \ {n} : g \in DOMAIN pupil'[s].fees /\ pupil'[s].fees[g] = pupil[s].fees[g]
                    /\ \E g \in DOMAIN pupil'[s].fees : Takes(g)'
        ]_vars
  BY DetachesAll
<1> QED BY <1>1, SchoolIsInOrder, PTL DEF Spec, DetachKeepsEverybody
=============================================================================
