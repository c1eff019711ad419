\* A professor's group goes to a colleague, and the professor is purged.
CONSTANTS
    q1 = q1  q2 = q2  year1 = year1  year2 = year2  year3 = year3  year4 = year4  maths = maths  arts = arts  maths2 = maths2  arts2 = arts2
    ali = ali  ben = ben  cyd = cyd  dan = dan  ga = ga  gb = gb  gc = gc  gd = gd  amel = amel  sami = sami  newcomer = newcomer  rival = rival
    Callers = {q1, q2}
    Levels = {year1, year2, year3, year4}
    Fields = {maths, arts, maths2, arts2}
    Profs = {ali, ben, cyd, dan}
    Groups = {ga, gb, gc, gd}
    Students = {amel, sami, newcomer, rival}
    None = None
    Names <- MCNames
    Taught <- MCTaught
    NodesAtFirst <- MCNodes
    StudentsAtFirst <- MCStudents
    InvoicesAtFirst <- MCInvoices
    LedgerAtFirst <- MCLedger
    Now = 1
    Horizon = 2
    MaxBackfill = 1
    Fees = {1, 2}
    MonthlyFee = 2
    Offers = {2}
    Ahead = {0, 1}
    Rosters <- MCRosters
    Ops = {"detach", "purge"}
SYMMETRY MCSymmetry
SPECIFICATION Spec
INVARIANTS TotalsMatchLedger
