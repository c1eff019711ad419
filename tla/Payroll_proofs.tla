--------------------------- MODULE Payroll_proofs ---------------------------
(***************************************************************************)
(* Payouts and their papers, for any number of requests and professors, of *)
(* connections, and for any arrangements.                                  *)
(*                                                                         *)
(* The inductive invariant has four parts.  Typed: every variable has its  *)
(* type and every request carries what its endpoint asks.  Numbering: who  *)
(* holds a counter's row has the next number and holds it alone, and every *)
(* number on record is at most the counter.  Counting: from the moment a   *)
(* transaction has summed the payouts, no payout it had to count can       *)
(* appear, because only the holder of the payroll counter adds one.        *)
(* Covered: what the check of a payout found is true until the payout is   *)
(* committed, unless somebody wrote what it had read.                      *)
(***************************************************************************)
EXTENDS Payroll, FoldLemmas

\* What a request may ask, and what it may have read.
Jobs ==
    [op : {"none"}, on : {None}]
    \cup [op : {"payout"}, on : [prof : Profs, amount : Payments, of : Requests]]
    \cup [op : {"reprint", "remove"}, on : [of : Requests]]
    \cup [op : {"amend"}, on : [of : Requests, amount : Payments]]
    \cup [op : {"rule"}, on : [prof : Profs, rule : Rule, absent : SUBSET {"percentage", "fixed"},
                               known : BOOLEAN]]
    \cup [op : {"drop", "roster"}, on : [prof : Profs]]
    \cup [op : {"settings"}, on : Rule]
    \cup [op : {"collect"}, on : [prof : Profs, amount : Int]]
Drafts == [rule : Rule \cup {None}, number : Nat, no : Nat, counted : SUBSET Requests, earned : Int]

\* The default arrangement, cached or about to be, has a percentage.
Defaulted(r) ==
    pc[r] = "vetted" /\ job[r].op = "settings" =>
        draft[r].rule \in Rule /\ draft[r].rule.percentage # None

Shaped ==
    /\ job \in [Requests -> Jobs]
    /\ draft \in [Requests -> Drafts]
    /\ cached.percentage # None
    /\ \A r \in Requests : Defaulted(r) /\ (job[r].op = "payout" => job[r].on.of = r)
Typed == TypeOK /\ Shaped

\* Numbers on record, and numbers about to be.
OnRecord ==
    /\ \A q \in Requests : payout[q] # None => pc[q] = "done" /\ payout[q].number <= counter.payroll
    /\ \A d \in papers : payout[d.of] # None /\ d.no <= counter.settlement
Holding ==
    /\ \A r \in Requests :
        /\ Numbered(r) => draft[r].number = counter.payroll + 1
        /\ pc[r] = "settled" => draft[r].no = counter.settlement + 1
    /\ \A q, s \in Requests :
        /\ Numbered(q) /\ Numbered(s) => q = s
        /\ pc[q] = "settled" /\ pc[s] = "settled" => q = s
Numbering == OnRecord /\ Holding /\ NumbersOnce

Summed(r) == pc[r] \in {"counted", "priced", "settled"}
CountsAll(r) ==
    job[r].op = "payout" =>
        /\ r \in draft[r].counted
        /\ \A q \in Requests :
            payout[q] # None /\ payout[q].prof = job[r].on.prof => q \in draft[r].counted
CountsEarlier(r) ==
    job[r].op = "reprint" =>
        LET s == job[r].on.of IN
        /\ pc[s] = "done"
        /\ \A q \in Requests :
            /\ payout[q] # None /\ payout[s] # None
            /\ payout[q].prof = payout[s].prof /\ payout[q].number <= payout[s].number
            => q \in draft[r].counted
Counting ==
    /\ \A r \in Requests : Summed(r) => CountsAll(r) /\ CountsEarlier(r)
    /\ EarlierIsCounted

USE PoolAssumption, RulesAssumption, AmountsAssumption, SeatsAssumption, NoneAssumption

-----------------------------------------------------------------------------
(* The revenue engine computes whole amounts *)

\* A percentage of a whole amount is rounded to one.
LEMMA PercentWhole == ASSUME NEW a \in Int, NEW c \in 0..100 PROVE PercentOf(a, c) \in Int
<1>1. a * c \in Int /\ (-a) * c \in Int
  OBVIOUS
<1>2. QED
  BY <1>1 DEF PercentOf

\* A share is a whole amount once clamped.
LEMMA ClampWhole == ASSUME NEW s \in Int, NEW a \in Int PROVE Clamp(s, a) \in Int
  BY DEF Clamp

\* The arrangement in force names a percentage.
LEMMA RuleForced ==
  ASSUME TypeOK, cached.percentage # None, NEW p \in Profs
  PROVE  RuleFor(p) \in [model : Models, percentage : 0..100, fixed : Nat \cup {None}, isOverride : BOOLEAN]
<1>1. cached \in Rule /\ override[p] \in Rule \cup {None}
  BY DEF TypeOK
<1>2. QED
  BY <1>1 DEF RuleFor, Or, Rule

\* The professor's part of a collection is a whole amount.
LEMMA ShareWhole ==
  ASSUME TypeOK, cached.percentage # None, NEW p \in Profs, NEW a \in Int
  PROVE  ShareOf(RuleFor(p), a) \in Int
<1> DEFINE rule == RuleFor(p)
<1>1. rule.model \in Models /\ rule.percentage \in 0..100 /\ rule.fixed \in Nat \cup {None}
  BY RuleForced
<1> HIDE DEF rule
<1>2. PercentOf(a, rule.percentage) \in Int
  BY <1>1, PercentWhole
<1>3. Fixed(rule) \in Int
  BY <1>1 DEF Fixed, Or
<1>4. PercentOf(a, rule.percentage) + Fixed(rule) \in Int
  BY <1>2, <1>3
<1>5. /\ Clamp(PercentOf(a, rule.percentage), a) \in Int
      /\ Clamp(PercentOf(a, rule.percentage) + Fixed(rule), a) \in Int
  BY <1>2, <1>4, ClampWhole
<1>6. ShareOf(rule, a) \in Int
  BY <1>5 DEF ShareOf
<1>7. QED
  BY <1>6 DEF rule

\* What a professor has earned is a whole amount.
LEMMA EarnedWhole ==
  ASSUME TypeOK, cached.percentage # None, NEW p \in Profs PROVE Earned(p) \in Int
<1> DEFINE rule == RuleFor(p)
<1>1. rule.model \in Models /\ rule.percentage \in 0..100 /\ rule.fixed \in Nat \cup {None}
  BY RuleForced
<1> HIDE DEF rule
<1>2. takings[p].net \in Int /\ takings[p].share \in Int /\ roster[p].students \in Nat /\ roster[p].groups \in Nat
  BY DEF TypeOK
<1>3. Clamp(PercentOf(takings[p].net, rule.percentage), takings[p].net) \in Int
  BY <1>1, <1>2, PercentWhole, ClampWhole
<1>4. FromCollections(rule, takings[p]) \in Int
  BY <1>2, <1>3 DEF FromCollections
<1>5. Fixed(rule) \in Nat
  BY <1>1 DEF Fixed, Or
<1>6. Fixed(rule) * roster[p].students \in Nat /\ Fixed(rule) * roster[p].groups \in Nat
  BY <1>2, <1>5
<1>7. FixedComponent(rule, roster[p]) \in Int
  BY <1>5, <1>6 DEF FixedComponent
<1>8. QED
  BY <1>4, <1>7 DEF Earned, rule

-----------------------------------------------------------------------------
(* Typed *)

\* Who leaves a connection does not overdraw the pool.
LEMMA PoolShrinks ==
  ASSUME TypeOK, InUse' \subseteq InUse PROVE (Cardinality(InUse) <= Connections)'
<1>1. IsFiniteSet(InUse)
  BY FS_Subset DEF InUse
<1>2. Cardinality(InUse) \in Nat /\ Cardinality(InUse') <= Cardinality(InUse) /\ Cardinality(InUse') \in Nat
  BY <1>1, FS_Subset, FS_CardinalityType
<1>3. Cardinality(InUse) <= Connections
  BY DEF TypeOK
<1>4. QED
  BY <1>2, <1>3

\* The first state.
LEMMA TypeInit == Init => Typed
<1> SUFFICES ASSUME Init PROVE Typed
  OBVIOUS
<1>1. /\ pc = [r \in Requests |-> "new"] /\ job = [r \in Requests |-> NoJob]
      /\ draft = [r \in Requests |-> NoDraft] /\ papers = {} /\ payout = [r \in Requests |-> None]
      /\ settings = AtFirst /\ cached = AtFirst /\ override = [p \in Profs |-> None]
      /\ takings = [p \in Profs |-> [net |-> Earnings[p], share |-> ShareOf(RuleFor(p), Earnings[p])]]
      /\ roster \in [Profs -> Seats] /\ counter = [payroll |-> 0, settlement |-> 0]
  BY DEF Init
<1>2. InUse = {}
  BY <1>1 DEF InUse, Transacting
<1>3. Cardinality(InUse) <= Connections
  BY <1>2, FS_EmptySet
<1>4. ASSUME NEW p \in Profs PROVE ShareOf(RuleFor(p), Earnings[p]) \in Int
  <2> DEFINE rule == RuleFor(p)
  <2>1. rule = [model |-> AtFirst.model, percentage |-> AtFirst.percentage, fixed |-> AtFirst.fixed,
                isOverride |-> FALSE]
    BY <1>1 DEF RuleFor, Or, Rule
  <2>2. rule.model \in Models /\ rule.percentage \in 0..100 /\ ~rule.isOverride
    BY <2>1 DEF Rule
  <2> HIDE DEF rule
  <2>3. Earnings[p] \in Int
    OBVIOUS
  <2> DEFINE e == Earnings[p]
  <2> HIDE DEF e
  <2>4. PercentOf(e, rule.percentage) \in Int
    BY <2>2, <2>3, PercentWhole DEF e
  <2>5. Clamp(PercentOf(e, rule.percentage), e) \in Int
    BY <2>3, <2>4, ClampWhole DEF e
  <2>6. ShareOf(rule, e) \in Int
    BY <2>2, <2>5 DEF ShareOf
  <2>7. QED
    BY <2>6 DEF rule, e
<1>5. takings \in [Profs -> [net : Int, share : Int]]
  BY <1>1, <1>4
<1>6. TypeOK
  BY <1>1, <1>3, <1>5 DEF TypeOK, Stages
<1>7. Shaped
  BY <1>1 DEF Shaped, Jobs, Drafts, NoJob, NoDraft, Defaulted
<1>8. QED
  BY <1>6, <1>7 DEF Typed

\* An ask that only reads.
LEMMA AskTyped ==
  ASSUME Typed, NEW r \in Requests, pc[r] = "new", NEW j \in Jobs, j.op = "payout" => j.on.of = r,
         job' = [job EXCEPT ![r] = j], NEW s \in {"vetted", "refused"}, To(r, s),
         j.op = "settings" => s = "refused",
         UNCHANGED <<academy, books, draft>>
  PROVE  Typed'
<1> USE DEF Typed, TypeOK, To, academy, books
<1>1. pc' \in [Requests -> Stages] /\ InUse' \subseteq InUse
  BY DEF Stages, InUse, Transacting, Ended
<1>2. TypeOK'
  BY <1>1, PoolShrinks
<1>3. Shaped'
  BY DEF Shaped, Defaulted
<1>4. QED
  BY <1>2, <1>3

\* Every endpoint that reads before it writes.
LEMMA AsksTyped ==
  ASSUME Typed, NEW r \in Requests,
         VetPayout(r) \/ AskReprint(r) \/ AskAmend(r) \/ AskRemove(r) \/ AskRule(r) \/ AskDrop(r)
  PROVE  Typed'
<1> USE DEF Asks, Refuse, Proceed, Vet, Jobs
<1>1. CASE VetPayout(r)
  <2>1. PICK p \in Profs, a \in Payments :
          /\ Asks(r, "payout", [prof |-> p, amount |-> a, of |-> r])
          /\ To(r, IF a <= Outstanding(p) THEN "vetted" ELSE "refused")
          /\ UNCHANGED <<academy, books, draft>>
    BY <1>1 DEF VetPayout
  <2>2. [op |-> "payout", on |-> [prof |-> p, amount |-> a, of |-> r]] \in Jobs
    OBVIOUS
  <2>3. QED
    BY <2>1, <2>2, AskTyped
<1>2. CASE AskReprint(r)
  <2>1. PICK q \in Requests :
          /\ Asks(r, "reprint", [of |-> q])
          /\ Refuse(r) \/ Proceed(r)
    BY <1>2 DEF AskReprint
  <2>2. [op |-> "reprint", on |-> [of |-> q]] \in Jobs
    OBVIOUS
  <2>3. PICK s \in {"vetted", "refused"} : To(r, s) /\ UNCHANGED <<academy, books, draft>>
    BY <2>1
  <2>4. QED
    BY <2>1, <2>2, <2>3, AskTyped
<1>3. CASE AskAmend(r)
  <2>1. PICK q \in Requests, a \in Payments :
          /\ Asks(r, "amend", [of |-> q, amount |-> a])
          /\ Refuse(r) \/ Proceed(r)
    BY <1>3 DEF AskAmend
  <2>2. [op |-> "amend", on |-> [of |-> q, amount |-> a]] \in Jobs
    OBVIOUS
  <2>3. PICK s \in {"vetted", "refused"} : To(r, s) /\ UNCHANGED <<academy, books, draft>>
    BY <2>1
  <2>4. QED
    BY <2>1, <2>2, <2>3, AskTyped
<1>4. CASE AskRemove(r)
  <2>1. PICK q \in Requests :
          /\ Asks(r, "remove", [of |-> q])
          /\ Refuse(r) \/ Proceed(r)
    BY <1>4 DEF AskRemove
  <2>2. [op |-> "remove", on |-> [of |-> q]] \in Jobs
    OBVIOUS
  <2>3. PICK s \in {"vetted", "refused"} : To(r, s) /\ UNCHANGED <<academy, books, draft>>
    BY <2>1
  <2>4. QED
    BY <2>1, <2>2, <2>3, AskTyped
<1>5. CASE AskRule(r)
  <2>1. PICK p \in Profs, new \in Rules, absent \in SUBSET {"percentage", "fixed"} :
          /\ Asks(r, "rule", [prof |-> p, rule |-> new, absent |-> absent, known |-> override[p] # None])
          /\ Refuse(r) \/ Proceed(r)
    BY <1>5 DEF AskRule
  <2>2. [op |-> "rule", on |-> [prof |-> p, rule |-> new, absent |-> absent, known |-> override[p] # None]] \in Jobs
    OBVIOUS
  <2>3. PICK s \in {"vetted", "refused"} : To(r, s) /\ UNCHANGED <<academy, books, draft>>
    BY <2>1
  <2>4. QED
    BY <2>1, <2>2, <2>3, AskTyped
<1>6. CASE AskDrop(r)
  <2>1. PICK p \in Profs :
          /\ Asks(r, "drop", [prof |-> p])
          /\ Refuse(r) \/ Proceed(r)
    BY <1>6 DEF AskDrop
  <2>2. [op |-> "drop", on |-> [prof |-> p]] \in Jobs
    OBVIOUS
  <2>3. PICK s \in {"vetted", "refused"} : To(r, s) /\ UNCHANGED <<academy, books, draft>>
    BY <2>1
  <2>4. QED
    BY <2>1, <2>2, <2>3, AskTyped
<1>7. QED
  BY <1>1, <1>2, <1>3, <1>4, <1>5, <1>6

\* A step of a request that goes on, or ends.
LEMMA MoveTyped ==
  ASSUME Typed, NEW r \in Requests, NEW s \in Stages \ {"vetted"}, To(r, s),
         s \in Transacting => r \in InUse,
         UNCHANGED <<job, settings, roster>>, cached' \in Rule, cached'.percentage # None,
         draft' \in [Requests -> Drafts], \A q \in Requests \ {r} : draft'[q] = draft[q],
         override' \in [Profs -> Rule \cup {None}], takings' \in [Profs -> [net : Int, share : Int]],
         payout' \in [Requests -> PayoutRow \cup {None}], papers' \subseteq Paper,
         counter' \in [payroll : Nat, settlement : Nat]
  PROVE  Typed'
<1> USE DEF Typed, TypeOK, To
<1>1. pc' \in [Requests -> Stages] /\ InUse' \subseteq InUse
  BY DEF InUse
<1>2. TypeOK'
  BY <1>1, PoolShrinks
<1>3. Shaped'
  BY DEF Shaped, Defaulted
<1>4. QED
  BY <1>2, <1>3

\* A transaction that gives up forgets what it read.
LEMMA GiveUpTyped == ASSUME Typed, NEW r \in Requests, GiveUp(r), UNCHANGED job PROVE Typed'
<1>1. NoDraft \in Drafts
  BY DEF NoDraft, Drafts
<1>2. draft' \in [Requests -> Drafts] /\ \A q \in Requests \ {r} : draft'[q] = draft[q]
  BY <1>1 DEF GiveUp, Typed, Shaped
<1>3. QED
  BY <1>2, MoveTyped DEF GiveUp, Typed, TypeOK, Shaped, academy, books, Stages, Ended, Transacting

\* BEGIN takes the connection that was free.
LEMMA BeginTyped == ASSUME Typed, NEW r \in Requests, Begin(r) PROVE Typed'
<1> USE DEF Begin, Minting, To, Typed, academy, books
<1>1. InUse' \subseteq InUse \cup {r} /\ InUse \cup {r} \subseteq Requests
  BY DEF InUse, TypeOK
<1>2. IsFiniteSet(InUse) /\ IsFiniteSet(InUse \cup {r}) /\ IsFiniteSet(InUse')
  BY <1>1, FS_Subset DEF InUse
<1>3. /\ Cardinality(InUse) \in Nat /\ Cardinality(InUse \cup {r}) \in Nat /\ Cardinality(InUse') \in Nat
      /\ Cardinality(InUse') <= Cardinality(InUse \cup {r})
  BY <1>1, <1>2, FS_Subset, FS_CardinalityType
<1>4. Cardinality(InUse \cup {r}) <= Cardinality(InUse) + 1
  BY <1>2, <1>3, FS_AddElement
<1>5. Cardinality(InUse') <= Connections
  BY <1>3, <1>4 DEF ConnectionFree
<1>6. TypeOK'
  BY <1>5 DEF TypeOK, Stages, Transacting
<1>7. Shaped'
  BY DEF Shaped, Defaulted, TypeOK
<1>8. QED
  BY <1>6, <1>7

\* What a request carries.
LEMMA Carries ==
  ASSUME Typed, NEW r \in Requests
  PROVE  /\ job[r] \in Jobs /\ draft[r] \in Drafts
         /\ job[r].op = "payout" => job[r].on \in [prof : Profs, amount : Payments, of : Requests]
         /\ job[r].op \in {"reprint", "remove"} => job[r].on \in [of : Requests]
         /\ job[r].op = "amend" => job[r].on \in [of : Requests, amount : Payments]
         /\ job[r].op = "rule" =>
              job[r].on \in [prof : Profs, rule : Rule, absent : SUBSET {"percentage", "fixed"}, known : BOOLEAN]
         /\ job[r].op \in {"drop", "roster"} => job[r].on \in [prof : Profs]
         /\ job[r].op = "collect" => job[r].on \in [prof : Profs, amount : Int]
  BY DEF Typed, Shaped, Jobs

\* A draft stays one when a number, or what is earned, is written in it.
LEMMA NextDrafted ==
  ASSUME Typed, NEW r \in Requests,
         \/ draft' = [draft EXCEPT ![r].number = counter.payroll + 1]
         \/ draft' = [draft EXCEPT ![r].no = counter.settlement + 1]
  PROVE  draft' \in [Requests -> Drafts] /\ \A q \in Requests \ {r} : draft'[q] = draft[q]
<1>1. draft \in [Requests -> Drafts] /\ counter.payroll + 1 \in Nat /\ counter.settlement + 1 \in Nat
  BY DEF Typed, TypeOK, Shaped
<1> DEFINE n == counter.payroll + 1
           k == counter.settlement + 1
<1>2. n \in Nat /\ k \in Nat
  BY <1>1
<1>3. draft' = [draft EXCEPT ![r].number = n] \/ draft' = [draft EXCEPT ![r].no = k]
  OBVIOUS
<1> HIDE DEF n, k
<1>4. QED
  BY <1>1, <1>2, <1>3 DEF Drafts

\* What is earned, too.
LEMMA EarnedDrafted ==
  ASSUME Typed, NEW r \in Requests, NEW e \in Int, draft' = [draft EXCEPT ![r].earned = e]
  PROVE  draft' \in [Requests -> Drafts] /\ \A q \in Requests \ {r} : draft'[q] = draft[q]
  BY DEF Typed, Shaped, Drafts

\* What was counted, too.
LEMMA CountedDrafted ==
  ASSUME Typed, NEW r \in Requests, NEW C \in SUBSET Requests, draft' = [draft EXCEPT ![r].counted = C]
  PROVE  draft' \in [Requests -> Drafts] /\ \A q \in Requests \ {r} : draft'[q] = draft[q]
  BY DEF Typed, Shaped, Drafts

\* The transaction that pays and prints.
LEMMA MintTyped ==
  ASSUME Typed, Holding, NEW r \in Requests,
         TakeReceipt(r) \/ CountPaid(r) \/ Price(r) \/ TakeSettlement(r) \/ Commit(r)
  PROVE  Typed'
<1>1. /\ draft \in [Requests -> Drafts] /\ job[r] \in Jobs
      /\ cached \in Rule /\ cached.percentage # None /\ override \in [Profs -> Rule \cup {None}]
      /\ takings \in [Profs -> [net : Int, share : Int]] /\ papers \subseteq Paper
      /\ payout \in [Requests -> PayoutRow \cup {None}] /\ counter \in [payroll : Nat, settlement : Nat]
  BY DEF Typed, TypeOK, Shaped
<1> USE DEF Minting, academy, books, Stages, Transacting, Ended, InUse
<1>2. CASE TakeReceipt(r)
  <2>1. draft' \in [Requests -> Drafts] /\ \A q \in Requests \ {r} : draft'[q] = draft[q]
    BY <1>2, NextDrafted DEF TakeReceipt
  <2>2. QED
    BY <1>1, <1>2, <2>1, MoveTyped DEF TakeReceipt
<1>3. CASE CountPaid(r)
  <2>1. ASSUME NEW p, draft' = [draft EXCEPT ![r].counted = Visible(r, p)]
        PROVE  draft' \in [Requests -> Drafts] /\ \A q \in Requests \ {r} : draft'[q] = draft[q]
    <3>1. Visible(r, p) \in SUBSET Requests
      BY DEF Visible, PayoutsOf
    <3>2. QED
      BY <2>1, <3>1, CountedDrafted
  <2>2. CASE GiveUp(r)
    BY <1>3, <2>2, GiveUpTyped DEF CountPaid
  <2>3. CASE ~GiveUp(r)
    <3>1. PICK p : draft' = [draft EXCEPT ![r].counted = Visible(r, p)]
      BY <1>3, <2>3 DEF CountPaid
    <3>2. draft' \in [Requests -> Drafts] /\ \A q \in Requests \ {r} : draft'[q] = draft[q]
      BY <2>1, <3>1
    <3>3. QED
      BY <1>1, <1>3, <2>3, <3>2, MoveTyped DEF CountPaid
  <2>4. QED
    BY <2>2, <2>3
<1>4. CASE Price(r)
  <2>1. CASE GiveUp(r)
    BY <1>4, <2>1, GiveUpTyped DEF Price
  <2>2. CASE ~GiveUp(r)
    <3>1. ProfOf(r) \in Profs
      BY <1>1, <1>4, <2>2, Carries DEF Price, ProfOf, PayoutRow
    <3>2. Earned(ProfOf(r)) \in Int
      BY <3>1, EarnedWhole DEF Typed, Shaped
    <3>3. draft' \in [Requests -> Drafts] /\ \A q \in Requests \ {r} : draft'[q] = draft[q]
      BY <1>4, <2>2, <3>2, EarnedDrafted DEF Price
    <3>4. QED
      BY <1>1, <1>4, <2>2, <3>3, MoveTyped DEF Price
  <2>3. QED
    BY <2>1, <2>2
<1>5. CASE TakeSettlement(r)
  <2>1. draft' \in [Requests -> Drafts] /\ \A q \in Requests \ {r} : draft'[q] = draft[q]
    BY <1>5, NextDrafted DEF TakeSettlement
  <2>2. QED
    BY <1>1, <1>5, <2>1, MoveTyped DEF TakeSettlement
<1>6. CASE Commit(r)
  <2>1. CASE GiveUp(r)
    BY <1>6, <2>1, GiveUpTyped DEF Commit
  <2>2. CASE ~GiveUp(r)
    <3> DEFINE paid == job[r].op = "payout"
               row == [prof |-> job[r].on.prof, amount |-> job[r].on.amount, number |-> draft[r].number]
               paper == [of |-> job[r].on.of, no |-> draft[r].no,
                         counted |-> draft[r].counted, earned |-> draft[r].earned]
    <3>1. /\ payout' = IF paid THEN [payout EXCEPT ![r] = row] ELSE payout
          /\ papers' = papers \cup {paper}
          /\ counter' = [payroll |-> IF paid THEN draft[r].number ELSE counter.payroll,
                         settlement |-> draft[r].no]
          /\ draft' = [draft EXCEPT ![r] = NoDraft]
          /\ To(r, "done") /\ pc[r] = "settled" /\ job[r].op \in {"payout", "reprint"}
          /\ UNCHANGED <<job, academy, override, takings, roster>>
      BY <1>6, <2>2 DEF Commit
    <3>2. draft[r].no = counter.settlement + 1 /\ (paid => draft[r].number = counter.payroll + 1)
      BY <3>1 DEF Holding, Numbered
    <3>3. draft[r].no \in Nat \ {0} /\ (paid => draft[r].number \in Nat \ {0})
      BY <1>1, <3>2
    <3>4. paid => row \in PayoutRow
      BY <3>3, Carries DEF PayoutRow
    <3>5. paper \in Paper
      BY <3>1, <3>3, Carries DEF Paper, Drafts
    <3>6. /\ payout' \in [Requests -> PayoutRow \cup {None}] /\ papers' \subseteq Paper
          /\ counter' \in [payroll : Nat, settlement : Nat]
      BY <1>1, <3>1, <3>3, <3>4, <3>5
    <3>7. draft' \in [Requests -> Drafts] /\ \A q \in Requests \ {r} : draft'[q] = draft[q]
      BY <1>1, <3>1 DEF Drafts, NoDraft
    <3> HIDE DEF paid, row, paper
    <3>8. QED
      BY <1>1, <3>1, <3>6, <3>7, MoveTyped
  <2>3. QED
    BY <2>1, <2>2
<1>7. QED
  BY <1>2, <1>3, <1>4, <1>5, <1>6

\* Two arrangements mixed field by field are one.
LEMMA MixedRule ==
  ASSUME NEW a \in Rule, NEW b \in Rule, NEW absent
  PROVE  [a EXCEPT !.percentage = IF "percentage" \in absent THEN b.percentage ELSE @,
                   !.fixed = IF "fixed" \in absent THEN b.fixed ELSE @] \in Rule
<1> DEFINE x == IF "percentage" \in absent THEN b.percentage ELSE a.percentage
           y == IF "fixed" \in absent THEN b.fixed ELSE a.fixed
<1>1. x \in 0..100 \cup {None} /\ y \in Nat \cup {None}
  BY DEF Rule
<1> HIDE DEF x, y
<1>2. [a EXCEPT !.percentage = x] \in Rule
  BY <1>1 DEF Rule
<1>3. [[a EXCEPT !.percentage = x] EXCEPT !.fixed = y] \in Rule
  BY <1>1, <1>2 DEF Rule
<1>4. [a EXCEPT !.percentage = x, !.fixed = y] \in Rule
  BY <1>3
<1>5. QED
  BY <1>4 DEF x, y

\* What the other endpoints write after they have asked.
LEMMA WriteTyped ==
  ASSUME Typed, NEW r \in Requests,
         Amend(r) \/ Remove(r) \/ SetRule(r) \/ DropRule(r) \/ CacheSettings(r) \/ Post(r)
  PROVE  Typed'
<1>1. /\ draft \in [Requests -> Drafts] /\ job[r] \in Jobs
      /\ cached \in Rule /\ cached.percentage # None /\ override \in [Profs -> Rule \cup {None}]
      /\ takings \in [Profs -> [net : Int, share : Int]] /\ papers \subseteq Paper
      /\ payout \in [Requests -> PayoutRow \cup {None}] /\ counter \in [payroll : Nat, settlement : Nat]
  BY DEF Typed, TypeOK, Shaped
<1>2. NoDraft \in Drafts
  BY DEF NoDraft, Drafts
<1> USE DEF Follows, Refuse, academy, books, Stages, Transacting, Ended
<1>3. CASE Amend(r)
  <2> DEFINE q == job[r].on.of
  <2>1. q \in Requests /\ job[r].on.amount \in Payments
    BY <1>3, Carries DEF Amend
  <2>2. payout' \in [Requests -> PayoutRow \cup {None}]
    BY <1>1, <1>3, <2>1 DEF Amend, PayoutRow
  <2>3. QED
    BY <1>1, <1>3, <2>2, MoveTyped DEF Amend
<1>4. CASE Remove(r)
  <2>1. payout' \in [Requests -> PayoutRow \cup {None}] /\ papers' \subseteq Paper
    BY <1>1, <1>4 DEF Remove
  <2>2. QED
    BY <1>1, <1>4, <2>1, MoveTyped DEF Remove
<1>5. CASE SetRule(r)
  <2> DEFINE ask == job[r].on
             old == IF ask.known THEN override[ask.prof] ELSE ask.rule
  <2>1. ask \in [prof : Profs, rule : Rule, absent : SUBSET {"percentage", "fixed"}, known : BOOLEAN]
    BY <1>5, Carries DEF SetRule
  <2>2. CASE ask.known # (override[ask.prof] # None)
    BY <1>1, <1>5, <2>2, MoveTyped DEF SetRule
  <2>3. CASE ask.known = (override[ask.prof] # None)
    <3>1. old \in Rule
      BY <1>1, <2>1, <2>3
    <3> DEFINE new == [ask.rule EXCEPT !.percentage = IF "percentage" \in ask.absent THEN old.percentage ELSE @,
                                       !.fixed = IF "fixed" \in ask.absent THEN old.fixed ELSE @]
    <3>2. new \in Rule
      <4> HIDE DEF old
      <4>1. QED
        BY <2>1, <3>1, MixedRule
    <3>3. override' = [override EXCEPT ![ask.prof] = new]
      BY <1>5, <2>3 DEF SetRule
    <3>4. override' \in [Profs -> Rule \cup {None}]
      BY <1>1, <3>2, <3>3
    <3>5. QED
      BY <1>1, <1>5, <2>3, <3>4, MoveTyped DEF SetRule
  <2>4. QED
    BY <2>2, <2>3
<1>6. CASE DropRule(r)
  <2>1. override' \in [Profs -> Rule \cup {None}]
    BY <1>1, <1>6 DEF DropRule
  <2>2. QED
    BY <1>1, <1>6, <2>1, MoveTyped DEF DropRule
<1>7. CASE CacheSettings(r)
  <2>1. cached' \in Rule /\ cached'.percentage # None
    BY <1>7 DEF CacheSettings, Typed, Shaped, Defaulted
  <2>2. draft' \in [Requests -> Drafts] /\ \A q \in Requests \ {r} : draft'[q] = draft[q]
    BY <1>1, <1>2, <1>7 DEF CacheSettings
  <2>3. QED
    BY <1>1, <1>7, <2>1, <2>2, MoveTyped DEF CacheSettings
<1>8. CASE Post(r)
  <2>1. job[r].on.prof \in Profs /\ job[r].on.amount \in Int /\ draft[r].earned \in Int
    BY <1>8, Carries DEF Post, Drafts
  <2>2. takings' \in [Profs -> [net : Int, share : Int]]
    BY <1>1, <1>8, <2>1 DEF Post
  <2>3. draft' \in [Requests -> Drafts] /\ \A q \in Requests \ {r} : draft'[q] = draft[q]
    BY <1>1, <1>2, <1>8 DEF Post
  <2>4. QED
    BY <1>1, <1>8, <2>2, <2>3, MoveTyped DEF Post
<1>9. QED
  BY <1>3, <1>4, <1>5, <1>6, <1>7, <1>8

\* Requests that write, or price, something at once.
LEMMA FirstTyped ==
  ASSUME Typed, NEW r \in Requests, UpdateSettings(r) \/ Collect(r) \/ Reseat(r) PROVE Typed'
<1>1. draft \in [Requests -> Drafts] /\ job \in [Requests -> Jobs] /\ cached.percentage # None
  BY DEF Typed, Shaped
<1>2. /\ pc' \in [Requests -> Stages] /\ InUse' \subseteq InUse
      /\ \A q \in Requests \ {r} : pc'[q] = pc[q] /\ job'[q] = job[q]
  <2>1. /\ pc[r] = "new" /\ \E s \in {"vetted", "done"} : To(r, s)
        /\ \E j : job' = [job EXCEPT ![r] = j]
    BY DEF UpdateSettings, Collect, Reseat, Asks
  <2>2. PICK s \in {"vetted", "done"} : To(r, s)
    BY <2>1
  <2>3. pc \in [Requests -> Stages]
    BY DEF Typed, TypeOK
  <2>4. QED
    BY <1>1, <2>1, <2>2, <2>3 DEF To, Stages, InUse, Transacting, Ended
<1>3. Cardinality(InUse') <= Connections
  BY <1>2, PoolShrinks DEF Typed
<1>4. CASE UpdateSettings(r)
  <2>1. PICK new \in Rules : /\ new.percentage # None /\ Asks(r, "settings", new) /\ settings' = new
                             /\ draft' = [draft EXCEPT ![r].rule = new] /\ UNCHANGED <<cached, books>>
    BY <1>4 DEF UpdateSettings
  <2>2. job' \in [Requests -> Jobs] /\ job'[r].op = "settings"
    BY <1>1, <2>1 DEF Asks, Jobs
  <2>3. /\ draft' \in [Requests -> Drafts] /\ draft'[r].rule = new
        /\ \A q \in Requests \ {r} : draft'[q] = draft[q]
    BY <1>1, <2>1 DEF Drafts
  <2>4. TypeOK'
    BY <1>2, <1>3, <2>1 DEF Typed, TypeOK, books
  <2>5. Shaped'
    BY <1>1, <1>2, <2>1, <2>2, <2>3 DEF Typed, Shaped, Defaulted
  <2>6. QED
    BY <2>4, <2>5 DEF Typed
<1>5. CASE Collect(r)
  <2>1. PICK p \in Profs, a \in Receipts :
          /\ Asks(r, "collect", [prof |-> p, amount |-> a])
          /\ draft' = [draft EXCEPT ![r].earned = ShareOf(RuleFor(p), a)] /\ UNCHANGED <<academy, books>>
    BY <1>5 DEF Collect
  <2>2. job' \in [Requests -> Jobs] /\ job'[r].op = "collect"
    BY <1>1, <2>1 DEF Asks, Jobs
  <2>3. ShareOf(RuleFor(p), a) \in Int
    BY <1>1, ShareWhole DEF Typed
  <2>4. draft' \in [Requests -> Drafts] /\ \A q \in Requests \ {r} : draft'[q] = draft[q]
    BY <2>1, <2>3, EarnedDrafted
  <2>5. TypeOK'
    BY <1>2, <1>3, <2>1 DEF Typed, TypeOK, books, academy
  <2>6. Shaped'
    BY <1>1, <1>2, <2>1, <2>2, <2>4 DEF Typed, Shaped, Defaulted, academy
  <2>7. QED
    BY <2>5, <2>6 DEF Typed
<1>6. CASE Reseat(r)
  <2>1. PICK p \in Profs, seats \in Seats :
          /\ Asks(r, "roster", [prof |-> p]) /\ roster' = [roster EXCEPT ![p] = seats]
          /\ UNCHANGED <<academy, override, takings, payout, papers, counter, draft>>
    BY <1>6 DEF Reseat
  <2>2. job' \in [Requests -> Jobs] /\ job'[r].op = "roster"
    BY <1>1, <2>1 DEF Asks, Jobs
  <2>3. TypeOK'
    BY <1>2, <1>3, <2>1 DEF Typed, TypeOK, academy
  <2>4. Shaped'
    BY <1>1, <1>2, <2>1, <2>2 DEF Typed, Shaped, Defaulted, academy
  <2>5. QED
    BY <2>3, <2>4 DEF Typed
<1>7. QED
  BY <1>4, <1>5, <1>6

\* Every step keeps every type.
LEMMA StepTyped == ASSUME Typed, Holding, [Next]_vars PROVE Typed'
<1>1. ASSUME NEW r \in Requests, Start(r) PROVE Typed'
  BY <1>1, AsksTyped, FirstTyped DEF Start
<1>2. ASSUME NEW r \in Requests, Step(r) PROVE Typed'
  <2>1. CASE Starve(r)
    BY <2>1, GiveUpTyped DEF Starve
  <2>2. CASE ~Starve(r)
    BY <1>2, <2>2, BeginTyped, MintTyped, WriteTyped DEF Step
  <2>3. QED
    BY <2>1, <2>2
<1>3. ASSUME NEW r \in Requests, Abort(r) PROVE Typed'
  BY <1>3, GiveUpTyped DEF Abort
<1>4. ASSUME UNCHANGED vars PROVE Typed'
  BY <1>4 DEF vars, academy, books, Typed, TypeOK, Shaped, Defaulted, InUse
<1>5. QED
  BY <1>1, <1>2, <1>3, <1>4 DEF Next, Closed

-----------------------------------------------------------------------------
(* Numbering and counting *)

\* A step of one request that has not ended, which puts no payout and no paper on record.
Apart(r) ==
    /\ pc[r] \notin Ended /\ counter' = counter
    /\ \A q \in Requests \ {r} : pc'[q] = pc[q] /\ job'[q] = job[q] /\ draft'[q] = draft[q]
Thinner ==
    /\ \A q \in Requests : payout'[q] # None =>
          payout[q] # None /\ payout'[q].prof = payout[q].prof /\ payout'[q].number = payout[q].number
    /\ papers' \subseteq papers
    /\ \A d \in papers' : payout'[d.of] # None

\* The first state has nothing on record.
LEMMA BooksInit == Init => Numbering /\ Counting
  BY DEF Init, Numbering, OnRecord, Holding, NumbersOnce, Numbered, Counting, Summed, EarlierIsCounted

\* Such a step keeps the books in order when it takes what was free and sums rightly.
LEMMA ApartKeeps ==
  ASSUME Typed, Numbering, Counting, NEW r \in Requests, Apart(r), Thinner,
         Numbered(r)' => draft'[r].number = counter.payroll + 1 /\ (Numbered(r) \/ ~PayrollLocked),
         pc'[r] = "settled" =>
            draft'[r].no = counter.settlement + 1 /\ (pc[r] = "settled" \/ ~SettlementLocked),
         Summed(r)' => (CountsAll(r) /\ CountsEarlier(r))'
  PROVE  Numbering' /\ Counting'
<1>1. \A d \in papers : d.of \in Requests
  BY DEF Typed, TypeOK, Paper
<1>2. OnRecord'
  BY <1>1 DEF Numbering, OnRecord, Apart, Thinner, Ended
<1>3. \A q \in Requests \ {r} : (Numbered(q)' <=> Numbered(q)) /\ (Summed(q)' <=> Summed(q))
  BY DEF Apart, Numbered, Summed
<1>4. \A q \in Requests : (Numbered(q) => PayrollLocked) /\ (pc[q] = "settled" => SettlementLocked)
  BY DEF PayrollLocked, SettlementLocked, InUse, Numbered, Transacting
<1>5. \A q \in Requests : Numbered(q)' => draft'[q].number = counter'.payroll + 1
  BY <1>3 DEF Numbering, Holding, Apart
<1>6. \A q \in Requests : pc'[q] = "settled" => draft'[q].no = counter'.settlement + 1
  BY DEF Numbering, Holding, Apart
<1>7. \A q, s \in Requests : Numbered(q)' /\ Numbered(s)' => q = s
  BY <1>3, <1>4 DEF Numbering, Holding
<1>8. \A q, s \in Requests : pc'[q] = "settled" /\ pc'[s] = "settled" => q = s
  BY <1>4 DEF Numbering, Holding, Apart
<1>9. Holding'
  BY <1>5, <1>6, <1>7, <1>8 DEF Holding
<1>10. NumbersOnce'
  BY DEF Numbering, NumbersOnce, Thinner
<1>11. EarlierIsCounted'
  BY <1>1 DEF Counting, EarlierIsCounted, Thinner
<1>12. ASSUME NEW q \in Requests \ {r}, Summed(q)' PROVE (CountsAll(q) /\ CountsEarlier(q))'
  <2>1. CountsAll(q) /\ CountsEarlier(q)
    BY <1>3, <1>12 DEF Counting
  <2>2. CountsAll(q)'
    BY <2>1 DEF CountsAll, Apart, Thinner
  <2>3. CASE job[q].op = "reprint"
    <3>1. job[q].on.of \in Requests
      BY <2>3, Carries
    <3>2. job[q].on.of # r
      BY <2>1, <2>3 DEF CountsEarlier, Apart, Ended
    <3>3. CountsEarlier(q)'
      BY <2>1, <2>3, <3>1, <3>2 DEF CountsEarlier, Apart, Thinner
    <3>4. QED
      BY <2>2, <3>3
  <2>4. QED
    BY <2>2, <2>3 DEF CountsEarlier, Apart
<1>13. Counting'
  BY <1>11, <1>12 DEF Counting
<1>14. QED
  BY <1>2, <1>9, <1>10, <1>13 DEF Numbering

\* Nothing on record changes.
LEMMA SameThinner == ASSUME Typed, Numbering, UNCHANGED <<payout, papers>> PROVE Thinner
  BY DEF Thinner, Numbering, OnRecord

\* A request that asks, gives up, or writes elsewhere.
LEMMA QuietKeeps ==
  ASSUME Typed, Numbering, Counting, NEW r \in Requests, Apart(r), UNCHANGED <<payout, papers>>,
         ~Summed(r)', pc'[r] # "numbered"
  PROVE  Numbering' /\ Counting'
<1>1. ~Numbered(r)' /\ pc'[r] # "settled"
  BY DEF Numbered, Summed
<1>2. QED
  BY <1>1, SameThinner, ApartKeeps

\* Which steps those are.
LEMMA QuietSteps ==
  ASSUME Typed, NEW r \in Requests,
         \/ Start(r) \/ Begin(r) \/ SetRule(r) \/ DropRule(r) \/ CacheSettings(r) \/ Post(r)
         \/ (UNCHANGED job /\ GiveUp(r) /\ pc[r] \notin Ended)
  PROVE  Apart(r) /\ UNCHANGED <<payout, papers>> /\ ~Summed(r)' /\ pc'[r] # "numbered"
<1> USE DEF Apart, Summed, To, Ended, books
<1>1. pc \in [Requests -> Stages] /\ draft \in [Requests -> Drafts] /\ job \in [Requests -> Jobs]
  BY DEF Typed, TypeOK, Shaped
<1>2. CASE VetPayout(r)
  BY <1>1, <1>2 DEF VetPayout, Asks
<1>3. CASE AskReprint(r) \/ AskAmend(r) \/ AskRemove(r) \/ AskRule(r) \/ AskDrop(r)
  <2>1. /\ pc[r] = "new" /\ \E j : job' = [job EXCEPT ![r] = j]
        /\ Refuse(r) \/ Proceed(r)
    BY <1>3 DEF AskReprint, AskAmend, AskRemove, AskRule, AskDrop, Vet, Asks
  <2>2. QED
    BY <1>1, <2>1 DEF Refuse, Proceed
<1>4. CASE UpdateSettings(r)
  BY <1>1, <1>4 DEF UpdateSettings, Asks
<1>5. CASE Collect(r)
  BY <1>1, <1>5 DEF Collect, Asks
<1>6. CASE Reseat(r)
  BY <1>1, <1>6 DEF Reseat, Asks
<1>7. CASE Begin(r)
  BY <1>1, <1>7 DEF Begin, Minting
<1>8. CASE SetRule(r)
  BY <1>1, <1>8 DEF SetRule, Follows, Refuse
<1>9. CASE DropRule(r)
  BY <1>1, <1>9 DEF DropRule, Follows
<1>10. CASE CacheSettings(r)
  BY <1>1, <1>10 DEF CacheSettings, Follows
<1>11. CASE Post(r)
  BY <1>1, <1>11 DEF Post, Follows
<1>12. CASE UNCHANGED job /\ GiveUp(r) /\ pc[r] \notin Ended
  BY <1>1, <1>12 DEF GiveUp
<1>13. QED
  BY <1>2, <1>3, <1>4, <1>5, <1>6, <1>7, <1>8, <1>9, <1>10, <1>11, <1>12 DEF Start

\* A correction or a deletion of a payout.
LEMMA ThinningKeeps ==
  ASSUME Typed, Numbering, Counting, NEW r \in Requests, Amend(r) \/ Remove(r)
  PROVE  Numbering' /\ Counting'
<1>1. /\ pc \in [Requests -> Stages] /\ payout \in [Requests -> PayoutRow \cup {None}]
      /\ draft \in [Requests -> Drafts] /\ job \in [Requests -> Jobs]
      /\ papers \subseteq Paper
  BY DEF Typed, TypeOK, Shaped
<1>2. Apart(r) /\ ~Summed(r)' /\ ~Numbered(r)' /\ pc'[r] # "settled"
  BY <1>1 DEF Amend, Remove, Follows, Refuse, To, Apart, Ended, Summed, Numbered, books
<1>3. Thinner
  <2>1. CASE Amend(r)
    <3>1. CASE UNCHANGED <<payout, papers>>
      BY <3>1, SameThinner
    <3>2. CASE ~UNCHANGED <<payout, papers>>
      <4> DEFINE q == job[r].on.of
                 a == job[r].on.amount
      <4>1. q \in Requests /\ a \in Payments /\ payout[q] # None /\ UNCHANGED papers
            /\ payout' = [payout EXCEPT ![q].amount = a]
        BY <2>1, <3>2, Carries DEF Amend, Follows, Refuse, books
      <4>2. payout[q] \in PayoutRow
        BY <1>1, <4>1
      <4>3. payout'[q] \in PayoutRow /\ payout'[q].prof = payout[q].prof
            /\ payout'[q].number = payout[q].number
        BY <1>1, <4>1, <4>2 DEF PayoutRow
      <4>4. \A s \in Requests \ {q} : payout'[s] = payout[s]
        BY <1>1, <4>1
      <4>5. payout'[q] # None
        BY <4>3
      <4>6. QED
        BY <1>1, <4>1, <4>3, <4>4, <4>5 DEF Thinner, Numbering, OnRecord, Paper
    <3>3. QED
      BY <3>1, <3>2
  <2>2. CASE Remove(r)
    BY <1>1, <2>2, Carries DEF Remove, Follows, Thinner, Numbering, OnRecord, Paper
  <2>3. QED
    BY <2>1, <2>2
<1>4. QED
  BY <1>2, <1>3, ApartKeeps

\* Taking numbers, summing and pricing.
LEMMA MintKeeps ==
  ASSUME Typed, Numbering, Counting, NEW r \in Requests,
         TakeReceipt(r) \/ CountPaid(r) \/ Price(r) \/ TakeSettlement(r), ~GiveUp(r)
  PROVE  Numbering' /\ Counting'
<1>1. /\ pc \in [Requests -> Stages] /\ payout \in [Requests -> PayoutRow \cup {None}]
      /\ draft \in [Requests -> Drafts]
  BY DEF Typed, TypeOK, Shaped
<1>2. draft[r] \in Drafts
  BY <1>1
<1> USE DEF To, Minting, books
<1>3. Thinner
  BY SameThinner DEF TakeReceipt, CountPaid, Price, TakeSettlement
<1>4. CASE TakeReceipt(r)
  <2>1. Apart(r) /\ ~Summed(r)' /\ pc'[r] # "settled"
    BY <1>1, <1>4 DEF TakeReceipt, Apart, Summed, Ended
  <2>2. draft'[r].number = counter.payroll + 1 /\ ~PayrollLocked
    BY <1>1, <1>2, <1>4 DEF TakeReceipt, Drafts
  <2>3. QED
    BY <1>3, <2>1, <2>2, ApartKeeps
<1>5. CASE CountPaid(r)
  <2>1. Apart(r) /\ pc'[r] = "counted" /\ pc[r] \in {"begun", "numbered"} /\ job' = job /\ payout' = payout
    BY <1>1, <1>5 DEF CountPaid, Apart, Ended
  <2>2. CASE job[r].op = "payout"
    <3>1. pc[r] = "numbered" /\ draft' = [draft EXCEPT ![r].counted = Visible(r, job[r].on.prof)]
      BY <1>5, <2>2 DEF CountPaid
    <3>2. draft'[r].counted = Visible(r, job[r].on.prof) /\ draft'[r].number = draft[r].number
      BY <1>1, <1>2, <3>1 DEF Drafts
    <3>3. Numbered(r) /\ draft'[r].number = counter.payroll + 1
      BY <2>2, <3>1, <3>2 DEF Numbered, Numbering, Holding
    <3>4. CountsAll(r)' /\ CountsEarlier(r)'
      BY <2>1, <2>2, <3>2 DEF CountsAll, CountsEarlier, Visible, PayoutsOf
    <3>5. QED
      BY <1>3, <2>1, <3>3, <3>4, ApartKeeps
  <2>3. CASE job[r].op = "reprint"
    <3> DEFINE s == job[r].on.of
    <3>1. s \in Requests /\ ~Numbered(r)'
      BY <2>1, <2>3, Carries DEF Numbered
    <3>2. /\ pc[r] = "begun" /\ payout[s] # None
          /\ draft' = [draft EXCEPT ![r].counted = Visible(r, payout[s].prof)]
      BY <1>5, <2>3 DEF CountPaid
    <3>3. draft'[r].counted = Visible(r, payout[s].prof)
      BY <1>1, <1>2, <3>2 DEF Drafts
    <3>4. pc[s] = "done" /\ s # r
      BY <3>1, <3>2 DEF Numbering, OnRecord
    <3>5. CountsAll(r)' /\ CountsEarlier(r)'
      BY <2>1, <2>3, <3>1, <3>3, <3>4 DEF CountsAll, CountsEarlier, Visible, PayoutsOf, Apart
    <3>6. QED
      BY <1>3, <2>1, <3>1, <3>5, ApartKeeps
  <2>4. QED
    BY <1>5, <2>2, <2>3 DEF CountPaid
<1>6. CASE Price(r) \/ TakeSettlement(r)
  <2>1. /\ pc[r] \in {"counted", "priced"} /\ pc'[r] \in {"priced", "settled"} /\ job' = job
        /\ payout' = payout /\ job[r].op \in {"payout", "reprint"}
        /\ pc'[r] = "settled" => TakeSettlement(r)
    BY <1>1, <1>6 DEF Price, TakeSettlement
  <2>2. Apart(r)
    BY <1>1, <1>6, <2>1 DEF Price, TakeSettlement, Apart, Ended
  <2>3. draft'[r].counted = draft[r].counted /\ draft'[r].number = draft[r].number
    BY <1>1, <1>2, <1>6 DEF Price, TakeSettlement, Drafts
  <2>4. CountsAll(r) /\ CountsEarlier(r)
    BY <2>1 DEF Counting, Summed
  <2>5. job[r].op = "reprint" => job[r].on.of \in Requests
    BY Carries
  <2>6. CountsAll(r)' /\ CountsEarlier(r)'
    BY <2>1, <2>2, <2>3, <2>4, <2>5 DEF CountsAll, CountsEarlier, Apart, Ended
  <2>7. Numbered(r)' => draft'[r].number = counter.payroll + 1 /\ Numbered(r)
    BY <2>1, <2>3 DEF Numbered, Numbering, Holding
  <2>8. TakeSettlement(r) => draft'[r].no = counter.settlement + 1 /\ ~SettlementLocked
    BY <1>1, <1>2 DEF TakeSettlement, Drafts
  <2>9. QED
    BY <1>3, <2>1, <2>2, <2>6, <2>7, <2>8, ApartKeeps
<1>7. QED
  BY <1>4, <1>5, <1>6

\* The commit puts on record what the locks kept for it.
LEMMA CommitKeeps ==
  ASSUME Typed, Numbering, Counting, NEW r \in Requests, Commit(r), ~GiveUp(r)
  PROVE  Numbering' /\ Counting'
<1> DEFINE s == job[r].on.of
           paid == job[r].op = "payout"
           paper == [of |-> s, no |-> draft[r].no, counted |-> draft[r].counted, earned |-> draft[r].earned]
<1>1. /\ pc \in [Requests -> Stages] /\ payout \in [Requests -> PayoutRow \cup {None}]
      /\ draft \in [Requests -> Drafts] /\ papers \subseteq Paper
      /\ counter \in [payroll : Nat, settlement : Nat]
  BY DEF Typed, TypeOK, Shaped
<1>2. /\ pc[r] = "settled" /\ job[r].op \in {"payout", "reprint"} /\ job' = job
      /\ pc' = [pc EXCEPT ![r] = "done"] /\ papers' = papers \cup {paper}
      /\ draft' = [draft EXCEPT ![r] = NoDraft] /\ counter'.settlement = draft[r].no
      /\ paid => /\ payout' = [payout EXCEPT ![r] = [prof |-> job[r].on.prof, amount |-> job[r].on.amount,
                                                    number |-> draft[r].number]]
                 /\ counter'.payroll = draft[r].number
      /\ ~paid => payout[s] # None /\ payout' = payout /\ counter'.payroll = counter.payroll
  BY DEF Commit, Minting, To
<1>3. s \in Requests /\ (paid => s = r) /\ payout[r] = None
  BY <1>2, Carries DEF Typed, Shaped, Numbering, OnRecord
<1>4. /\ draft[r].no = counter.settlement + 1
      /\ paid => Numbered(r) /\ draft[r].number = counter.payroll + 1
  BY <1>2 DEF Numbering, Holding, Numbered
<1>5. /\ \A q \in Requests \ {r} : pc'[q] = pc[q] /\ draft'[q] = draft[q] /\ payout'[q] = payout[q]
      /\ pc'[r] = "done"
  BY <1>1, <1>2
<1>6. paid => /\ payout'[r].number = counter.payroll + 1 /\ payout'[r].prof = job[r].on.prof
              /\ payout'[r] \in PayoutRow /\ payout'[r] # None
  <2> SUFFICES ASSUME paid
               PROVE  /\ payout'[r].number = counter.payroll + 1 /\ payout'[r].prof = job[r].on.prof
                      /\ payout'[r] \in PayoutRow /\ payout'[r] # None
    OBVIOUS
  <2>1. payout'[r] = [prof |-> job[r].on.prof, amount |-> job[r].on.amount, number |-> draft[r].number]
    BY <1>1, <1>2
  <2>2. draft[r].number \in Nat \ {0}
    BY <1>1, <1>4
  <2>3. job[r].on.prof \in Profs /\ job[r].on.amount \in Payments
    BY Carries
  <2>4. payout'[r] \in PayoutRow
    BY <2>1, <2>2, <2>3 DEF PayoutRow
  <2>5. QED
    BY <1>4, <2>1, <2>4
<1>7. ~paid => payout'[r] = None
  BY <1>2, <1>3
<1>8. \A q \in Requests : payout[q] # None =>
         /\ q # r /\ payout'[q] = payout[q] /\ payout[q].number \in Nat
         /\ payout[q].number <= counter.payroll
  <2> SUFFICES ASSUME NEW q \in Requests, payout[q] # None
               PROVE  /\ q # r /\ payout'[q] = payout[q] /\ payout[q].number \in Nat
                      /\ payout[q].number <= counter.payroll
    OBVIOUS
  <2>1. payout[q] \in PayoutRow
    BY <1>1
  <2>2. payout[q].number \in Nat
    BY <2>1 DEF PayoutRow
  <2>3. QED
    BY <1>3, <1>5, <2>2 DEF Numbering, OnRecord
<1>9. \A d \in papers : d.of \in Requests /\ payout[d.of] # None /\ d.no \in Nat /\ d.no <= counter.settlement
  BY <1>1 DEF Paper, Numbering, OnRecord
<1>10. paper.of = s /\ paper.no = draft[r].no /\ paper.counted = draft[r].counted
  OBVIOUS
<1> HIDE DEF paper
<1>11. counter.payroll \in Nat /\ counter.settlement \in Nat
  BY <1>1
<1>12. OnRecord'
  <2>1. ASSUME NEW q \in Requests, payout'[q] # None
        PROVE  pc'[q] = "done" /\ payout'[q].number <= counter'.payroll
    <3>1. CASE q = r
      BY <1>2, <1>4, <1>5, <1>6, <1>7, <1>11, <2>1, <3>1
    <3>2. CASE q # r
      <4>1. payout[q] # None /\ pc[q] = "done"
        BY <1>5, <2>1, <3>2 DEF Numbering, OnRecord
      <4>2. QED
        BY <1>2, <1>4, <1>5, <1>8, <1>11, <3>2, <4>1
    <3>3. QED
      BY <3>1, <3>2
  <2>2. ASSUME NEW d \in papers' PROVE payout'[d.of] # None /\ d.no <= counter'.settlement
    <3>1. CASE d = paper
      BY <1>2, <1>3, <1>4, <1>6, <1>8, <1>10, <1>11, <3>1
    <3>2. CASE d \in papers
      BY <1>2, <1>4, <1>8, <1>9, <1>11, <3>2
    <3>3. QED
      BY <1>2, <3>1, <3>2
  <2>3. QED
    BY <2>1, <2>2 DEF OnRecord
<1>13. \A q \in Requests : pc'[q] # "settled"
  BY <1>2, <1>5 DEF Numbering, Holding
<1>14. \A q \in Requests : Numbered(q)' => Numbered(q) /\ q # r /\ ~paid
  BY <1>2, <1>4, <1>5 DEF Numbered, Numbering, Holding
<1>15. Holding'
  BY <1>2, <1>5, <1>13, <1>14 DEF Holding, Numbering
<1>16. NumbersOnce'
  <2>1. ASSUME NEW q \in Requests, NEW t \in Requests, payout'[q] # None, payout'[t] # None,
               payout'[q].number = payout'[t].number
        PROVE  q = t
    <3>1. CASE q = r \/ t = r
      BY <1>5, <1>6, <1>7, <1>8, <1>11, <2>1, <3>1
    <3>2. CASE q # r /\ t # r
      BY <1>5, <2>1, <3>2 DEF Numbering, NumbersOnce
    <3>3. QED
      BY <3>1, <3>2
  <2>2. ASSUME NEW d \in papers', NEW e \in papers', d.no = e.no PROVE d = e
    <3>1. CASE d \in papers /\ e \in papers
      BY <2>2, <3>1 DEF Numbering, NumbersOnce
    <3>2. CASE d \notin papers \/ e \notin papers
      BY <1>2, <1>4, <1>9, <1>10, <1>11, <2>2, <3>2
    <3>3. QED
      BY <3>1, <3>2
  <2>3. QED
    BY <2>1, <2>2 DEF NumbersOnce
<1>17. CountsAll(r) /\ CountsEarlier(r)
  BY <1>2 DEF Counting, Summed
<1>18. EarlierIsCounted'
  <2> SUFFICES ASSUME NEW d \in papers', NEW q \in Requests, payout'[q] # None, payout'[d.of] # None,
                      payout'[q].prof = payout'[d.of].prof, payout'[q].number <= payout'[d.of].number
               PROVE  q \in d.counted
    BY DEF EarlierIsCounted
  <2>1. CASE d \in papers
    <3>1. payout[d.of] # None /\ payout'[d.of] = payout[d.of] /\ payout[d.of].number <= counter.payroll
          /\ payout[d.of].number \in Nat
      BY <1>8, <1>9, <2>1
    <3>2. q # r
      BY <1>6, <1>7, <1>11, <3>1
    <3>3. payout'[q] = payout[q]
      BY <1>5, <3>2
    <3>4. QED
      BY <2>1, <3>1, <3>3 DEF Counting, EarlierIsCounted
  <2>2. CASE d = paper
    <3>1. CASE paid
      <4>1. payout'[q].prof = job[r].on.prof
        BY <1>3, <1>6, <1>10, <2>2, <3>1
      <4>2. q # r => payout[q] # None /\ payout[q].prof = job[r].on.prof
        BY <1>5, <4>1
      <4>3. QED
        BY <1>10, <1>17, <2>2, <3>1, <4>2 DEF CountsAll
    <3>2. CASE ~paid
      BY <1>2, <1>10, <1>17, <2>2, <3>2 DEF CountsEarlier
    <3>3. QED
      BY <3>1, <3>2
  <2>3. QED
    BY <1>2, <2>1, <2>2
<1>19. ASSUME NEW q \in Requests, Summed(q)' PROVE (CountsAll(q) /\ CountsEarlier(q))'
  <2>1. q # r /\ Summed(q)
    BY <1>5, <1>19 DEF Summed
  <2>2. CountsAll(q) /\ CountsEarlier(q)
    BY <2>1 DEF Counting
  <2>3. CountsAll(q)'
    <3>1. CASE paid
      <4>1. job[q].op # "payout"
        BY <1>2, <1>4, <2>1, <3>1 DEF Numbered, Summed, Numbering, Holding
      <4>2. QED
        BY <1>2, <4>1 DEF CountsAll
    <3>2. CASE ~paid
      BY <1>2, <1>5, <2>1, <2>2, <3>2 DEF CountsAll
    <3>3. QED
      BY <3>1, <3>2
  <2>4. CountsEarlier(q)'
    <3> SUFFICES ASSUME job[q].op = "reprint" PROVE CountsEarlier(q)'
      BY <1>2 DEF CountsEarlier
    <3> DEFINE t == job[q].on.of
    <3>1. t \in Requests /\ pc[t] = "done" /\ t # r
      BY <1>2, <2>2, Carries DEF CountsEarlier
    <3>2. pc'[t] = "done" /\ payout'[t] = payout[t]
      BY <1>5, <3>1
    <3>3. ASSUME NEW u \in Requests, payout'[u] # None, payout'[t] # None,
                 payout'[u].prof = payout'[t].prof, payout'[u].number <= payout'[t].number
          PROVE  u \in draft'[q].counted
      <4>1. u # r
        BY <1>6, <1>7, <1>8, <1>11, <3>1, <3>2, <3>3
      <4>2. QED
        BY <1>5, <2>1, <2>2, <3>2, <3>3, <4>1 DEF CountsEarlier
    <3>4. QED
      BY <1>2, <3>2, <3>3 DEF CountsEarlier
  <2>5. QED
    BY <2>3, <2>4
<1>20. QED
  BY <1>12, <1>15, <1>16, <1>18, <1>19 DEF Numbering, Counting

\* Every step keeps the books in order.
LEMMA StepKeeps == ASSUME Typed, Numbering, Counting, [Next]_vars PROVE Numbering' /\ Counting'
<1>1. ASSUME NEW r \in Requests, UNCHANGED job, GiveUp(r), pc[r] \notin Ended PROVE Numbering' /\ Counting'
  BY <1>1, QuietSteps, QuietKeeps
<1>2. ASSUME NEW r \in Requests, Start(r) PROVE Numbering' /\ Counting'
  BY <1>2, QuietSteps, QuietKeeps
<1>3. ASSUME NEW r \in Requests, Step(r) PROVE Numbering' /\ Counting'
  <2>1. CASE Begin(r) \/ SetRule(r) \/ DropRule(r) \/ CacheSettings(r) \/ Post(r)
    BY <2>1, QuietSteps, QuietKeeps
  <2>2. CASE Starve(r)
    BY <1>1, <2>2 DEF Starve, NeedsConnection, Ended
  <2>3. CASE Amend(r) \/ Remove(r)
    BY <2>3, ThinningKeeps
  <2>4. CASE TakeReceipt(r) \/ CountPaid(r) \/ Price(r) \/ TakeSettlement(r) \/ Commit(r)
    <3>1. UNCHANGED job /\ pc[r] \notin Ended
      BY <2>4 DEF TakeReceipt, CountPaid, Price, TakeSettlement, Commit, Minting, Ended
    <3>2. QED
      BY <1>1, <2>4, <3>1, MintKeeps, CommitKeeps
  <2>5. QED
    BY <1>3, <2>1, <2>2, <2>3, <2>4 DEF Step
<1>4. ASSUME NEW r \in Requests, Abort(r) PROVE Numbering' /\ Counting'
  BY <1>1, <1>4 DEF Abort, Transacting, Ended
<1>5. ASSUME UNCHANGED vars PROVE Numbering' /\ Counting'
  BY <1>5 DEF vars, books, Numbering, OnRecord, Holding, NumbersOnce, Numbered, Counting, Summed,
              CountsAll, CountsEarlier, EarlierIsCounted
<1>6. QED
  BY <1>2, <1>3, <1>4, <1>5 DEF Next, Closed

-----------------------------------------------------------------------------
(* The theorems *)

IInv == Typed /\ Numbering /\ Counting

\* The inductive invariant.
LEMMA Inductive == Spec => []IInv
<1>1. Init => IInv
  BY TypeInit, BooksInit DEF IInv
<1>2. IInv /\ [Next]_vars => IInv'
  BY StepTyped, StepKeeps DEF IInv, Numbering
<1>3. QED
  BY <1>1, <1>2, PTL DEF Spec

\* Every variable has its type and the pool is never overdrawn, whatever is asked.
THEOREM TypeCorrect == Spec => []TypeOK
<1>1. IInv => TypeOK
  BY DEF IInv, Typed
<1>2. QED
  BY <1>1, Inductive, PTL

\* A number names one payout, or one pair of papers, however many transactions draw
\* numbers and roll back at once, on a pool of any size.
THEOREM NumbersNameOne == Spec => []NumbersOnce
<1>1. IInv => NumbersOnce
  BY DEF IInv, Numbering
<1>2. QED
  BY <1>1, Inductive, PTL

\* A paper counts every payout of its professor with a number up to its own, whoever
\* pays, reprints, corrects or deletes meanwhile.
THEOREM PapersCountEarlier == Spec => []EarlierIsCounted
<1>1. IInv => EarlierIsCounted
  BY DEF IInv, Counting
<1>2. QED
  BY <1>1, Inductive, PTL
-----------------------------------------------------------------------------
(***************************************************************************)
(* Overpayment.  What was checked stays true until the commit, unless      *)
(* somebody overtook the request: whoever writes what the check has read   *)
(* marks every other request, and the commit adds the checked amount to    *)
(* the sum of the month.                                                   *)
(***************************************************************************)
Reads == <<payout, cached, override, takings, roster>>
Underway(r) == pc[r] \notin Ended \cup {"new"} /\ job[r].op = "payout" /\ r \notin outdated
Covered ==
    \A r \in Requests : Underway(r) =>
        job[r].on.amount + PaidTo(job[r].on.prof) <= Earned(job[r].on.prof)

\* A payout's amount is a number ...
LEMMA RowWhole == \A row \in PayoutRow : row.amount \in Int
<1>1. Payments \subseteq Int
  OBVIOUS
<1>2. \A row \in PayoutRow : row.amount \in Payments
  BY DEF PayoutRow
<1>3. QED
  BY <1>1, <1>2

\* ... and so is what a professor was paid.
LEMMA PaidWhole == ASSUME Typed, NEW p PROVE PaidTo(p) \in Int /\ IsFiniteSet(PayoutsOf(p))
<1>1. IsFiniteSet(PayoutsOf(p))
  <2>1. PayoutsOf(p) \in SUBSET Requests
    BY DEF PayoutsOf
  <2>2. QED
    BY <2>1, FS_Subset
<1>2. [q \in PayoutsOf(p) |-> payout[q].amount] \in [PayoutsOf(p) -> Int]
  <2>1. payout \in [Requests -> PayoutRow \cup {None}]
    BY DEF Typed, TypeOK
  <2>2. \A q \in PayoutsOf(p) : payout[q] \in PayoutRow
    BY <2>1 DEF PayoutsOf
  <2>3. \A q \in PayoutsOf(p) : payout[q].amount \in Int
    BY <2>2, RowWhole
  <2>4. QED
    BY <2>3
<1>3. QED
  BY <1>1, <1>2, SumTyped DEF PaidTo

\* Without a write to them, the sum and the entitlement stay.
LEMMA ReadsStay == ASSUME UNCHANGED Reads PROVE \A p : PaidTo(p)' = PaidTo(p) /\ Earned(p)' = Earned(p)
  BY DEF Reads, PaidTo, PayoutsOf, Earned, RuleFor

\* What p is paid when these are the rows, and what one row more adds to it.
PaidIn(rows, p) ==
    SumFunction([q \in {q \in Requests : rows[q] # None /\ rows[q].prof = p} |-> rows[q].amount])

\* A payout that is written adds its amount to what its professor was paid.
LEMMA OneMoreAdds ==
  ASSUME NEW r \in Requests, NEW row \in PayoutRow, NEW later, Typed, payout[r] = None,
         later[r] = row, \A q \in Requests \ {r} : later[q] = payout[q]
  PROVE  PaidIn(later, row.prof) = row.amount + PaidTo(row.prof)
<1> DEFINE p == row.prof
           paid == PayoutsOf(p)
           before == [q \in paid |-> payout[q].amount]
           after == [q \in paid \cup {r} |-> later[q].amount]
<1>1. payout \in [Requests -> PayoutRow \cup {None}] /\ row # None
  BY DEF Typed, TypeOK
<1>2. r \notin paid /\ IsFiniteSet(paid)
  BY PaidWhole DEF PayoutsOf
<1>3. {q \in Requests : later[q] # None /\ later[q].prof = p} = paid \cup {r}
  BY <1>1 DEF PayoutsOf
<1>4. \A q \in paid : later[q] = payout[q] /\ payout[q] \in PayoutRow
  BY <1>1, <1>2 DEF PayoutsOf
<1>5. row.amount \in Int /\ \A q \in paid : payout[q].amount \in Int
  BY <1>4, RowWhole
<1>6. before \in [paid -> Int] /\ \A q \in paid : after[q] = before[q]
  BY <1>4, <1>5
<1>7. after \in [paid \cup {r} -> Int] /\ after[r] = row.amount
  BY <1>4, <1>5
<1>8. SumFunction(after) = row.amount + SumFunction(before)
  <2> HIDE DEF p, after, before, paid
  <2>1. OneMore(after, r, before, paid)
    BY <1>2, <1>6, <1>7 DEF OneMore
  <2>2. SumFunction(after) = after[r] + SumFunction(before)
    BY <2>1, SumInsert
  <2>3. QED
    BY <2>2, <1>7
<1>9. QED
  BY <1>3, <1>8 DEF PaidIn, PaidTo

\* A step that adds a payout adds its amount.
LEMMA PayoutAdds ==
  ASSUME NEW r \in Requests, NEW row \in PayoutRow, Typed, payout[r] = None,
         payout' = [payout EXCEPT ![r] = row]
  PROVE  PaidTo(row.prof)' = row.amount + PaidTo(row.prof)
<1>1. PICK later : later = payout'
  OBVIOUS
<1>2. later[r] = row /\ \A q \in Requests \ {r} : later[q] = payout[q]
  BY <1>1 DEF Typed, TypeOK
<1>3. PaidIn(later, row.prof) = row.amount + PaidTo(row.prof)
  BY <1>2, OneMoreAdds
<1>4. PaidTo(row.prof)' = PaidIn(later, row.prof)
  BY <1>1 DEF PaidTo, PayoutsOf, PaidIn
<1>5. QED
  BY <1>3, <1>4

\* Others' payouts under way stay covered: their reads stand, or they are outdated.
LEMMA OthersCovered ==
  ASSUME NEW r \in Requests, Covered,
         pc'[r] = pc[r], job'[r] = job[r], r \in outdated => r \in outdated',
         r \notin outdated' => UNCHANGED Reads, Underway(r)'
  PROVE  (job[r].on.amount + PaidTo(job[r].on.prof) <= Earned(job[r].on.prof))'
<1>1. Underway(r) /\ UNCHANGED Reads
  BY DEF Underway
<1>2. QED
  BY <1>1, ReadsStay DEF Covered

\* What a step of q may do to the checks: q itself is checked by VetPayout alone,
\* and goes on with what was checked.
Tidy(q) ==
    /\ \A r \in Requests \ {q} :
          /\ pc'[r] = pc[r] /\ job'[r] = job[r]
          /\ r \in outdated => r \in outdated'
          /\ r \notin outdated' => UNCHANGED Reads
    /\ \/ pc'[q] \in Ended \/ job'[q].op # "payout"
       \/ /\ pc[q] \notin Ended \cup {"new"} /\ job'[q] = job[q]
          /\ q \in outdated => q \in outdated'
          /\ UNCHANGED Reads

\* Every step but a check is tidy.
LEMMA TidySteps ==
  ASSUME Typed, NEW q \in Requests, Start(q) \/ Step(q) \/ Abort(q), ~VetPayout(q)
  PROVE  Tidy(q)
<1>1. DOMAIN pc = Requests /\ DOMAIN job = Requests
  BY DEF Typed, TypeOK, Shaped
<1> USE DEF books, academy, Reads, Ended, To
<1>2. ASSUME NEW op, NEW on, op # "payout", Asks(q, op, on),
             NEW s, To(q, s), Outdate(q) \/ UNCHANGED <<cached, books, outdated>>
      PROVE  Tidy(q)
  BY <1>1, <1>2 DEF Asks, Outdate, Tidy
<1>3. ASSUME pc[q] \notin Ended \cup {"new"}, UNCHANGED job, NEW s, To(q, s),
             \/ Outdate(q) /\ s \in Ended
             \/ UNCHANGED <<cached, payout, override, takings, roster, outdated>>
      PROVE  Tidy(q)
  BY <1>1, <1>3 DEF Outdate, Tidy
<1> HIDE DEF Tidy
<1>4. CASE AskReprint(q)
  BY <1>4, <1>2 DEF AskReprint, Proceed
<1>5. CASE AskAmend(q)
  BY <1>5, <1>2 DEF AskAmend, Vet, Proceed, Refuse
<1>6. CASE AskRemove(q)
  BY <1>6, <1>2 DEF AskRemove, Vet, Proceed, Refuse
<1>7. CASE AskRule(q)
  <2>1. PICK on, s : Asks(q, "rule", on) /\ To(q, s) /\ UNCHANGED <<cached, books, outdated>>
    BY <1>7, Zenon DEF AskRule, Proceed, Refuse
  <2>2. QED
    BY <2>1, <1>2
<1>8. CASE AskDrop(q)
  <2>1. PICK on, s : Asks(q, "drop", on) /\ To(q, s) /\ UNCHANGED <<cached, books, outdated>>
    BY <1>8 DEF AskDrop, Proceed, Refuse
  <2>2. QED
    BY <2>1, <1>2
<1>9. CASE UpdateSettings(q)
  BY <1>9, <1>2 DEF UpdateSettings
<1>10. CASE Collect(q)
  <2>1. PICK on : Asks(q, "collect", on) /\ To(q, "vetted") /\ UNCHANGED <<cached, books, outdated>>
    BY <1>10 DEF Collect
  <2>2. QED
    BY <2>1, <1>2
<1>11. CASE Reseat(q)
  <2>1. PICK on : Asks(q, "roster", on) /\ To(q, "done") /\ Outdate(q)
    BY <1>11 DEF Reseat
  <2>2. QED
    BY <2>1, <1>2
<1>12. ASSUME GiveUp(q), UNCHANGED job, pc[q] \notin Ended \cup {"new"} PROVE Tidy(q)
  BY <1>12, <1>3 DEF GiveUp
<1>13. CASE Begin(q) \/ TakeReceipt(q) \/ TakeSettlement(q)
  BY <1>13, <1>3 DEF Begin, TakeReceipt, TakeSettlement, Minting
<1>14. CASE CountPaid(q)
  <2>1. pc[q] \in {"numbered", "begun"} /\ UNCHANGED job
    BY <1>14 DEF CountPaid, Minting
  <2>2. GiveUp(q) \/ (To(q, "counted") /\ UNCHANGED <<academy, books, outdated>>)
    BY <1>14 DEF CountPaid
  <2>3. QED
    BY <2>1, <2>2, <1>3, <1>12
<1>15. CASE Price(q)
  <2>1. pc[q] = "counted" /\ UNCHANGED job
        /\ (GiveUp(q) \/ (To(q, "priced") /\ UNCHANGED <<academy, books, outdated>>))
    BY <1>15 DEF Price, Minting
  <2>2. QED
    BY <2>1, <1>3, <1>12
<1>16. CASE Commit(q)
  <2>1. /\ pc[q] = "settled" /\ UNCHANGED job
        /\ \/ GiveUp(q)
           \/ To(q, "done") /\ Outdate(q)
           \/ To(q, "done") /\ UNCHANGED <<cached, payout, override, takings, roster, outdated>>
    BY <1>16 DEF Commit, Minting
  <2>2. QED
    BY <2>1, <1>3, <1>12
<1>17. CASE Starve(q) \/ Abort(q)
  BY <1>17, <1>12 DEF Starve, Abort, NeedsConnection, Transacting
<1>18. CASE Amend(q) \/ SetRule(q)
  <2>1. /\ pc[q] = "vetted" /\ UNCHANGED job
        /\ \/ To(q, "done") /\ Outdate(q)
           \/ To(q, "refused") /\ UNCHANGED <<academy, books, outdated>>
    BY <1>18 DEF Amend, SetRule, Follows, Refuse
  <2>2. QED
    BY <2>1, <1>3
<1>19. CASE Remove(q) \/ DropRule(q) \/ CacheSettings(q) \/ Post(q)
  <2>1. pc[q] = "vetted" /\ UNCHANGED job /\ To(q, "done") /\ Outdate(q)
    BY <1>19 DEF Remove, DropRule, CacheSettings, Post, Follows
  <2>2. QED
    BY <2>1, <1>3
<1>20. QED
  BY <1>4, <1>5, <1>6, <1>7, <1>8, <1>9, <1>10, <1>11, <1>13, <1>14, <1>15, <1>16, <1>17,
     <1>18, <1>19 DEF Start, Step

\* The check covers its own request and overtakes nobody.
LEMMA VetCovers ==
  ASSUME Typed, Covered, NEW q \in Requests, VetPayout(q)
  PROVE  Covered'
<1>1. PICK p \in Profs, a \in Payments :
         /\ Asks(q, "payout", [prof |-> p, amount |-> a, of |-> q])
         /\ To(q, IF a <= Outstanding(p) THEN "vetted" ELSE "refused")
         /\ outdated' = outdated \ {q} /\ UNCHANGED Reads
  BY Zenon DEF VetPayout, academy, books, Reads
<1>2. DOMAIN pc = Requests /\ DOMAIN job = Requests
  BY DEF Typed, TypeOK, Shaped
<1>3. \A r \in Requests \ {q} :
        /\ pc'[r] = pc[r] /\ job'[r] = job[r]
        /\ r \in outdated => r \in outdated'
  BY <1>1, <1>2 DEF Asks, To
<1>4. /\ job'[q].on.prof = p /\ job'[q].on.amount = a
      /\ pc'[q] = IF a <= Outstanding(p) THEN "vetted" ELSE "refused"
  BY <1>1, <1>2 DEF Asks, To
<1>5. Underway(q)' => (job[q].on.amount + PaidTo(job[q].on.prof) <= Earned(job[q].on.prof))'
  <2> SUFFICES ASSUME Underway(q)'
               PROVE  (job[q].on.amount + PaidTo(job[q].on.prof) <= Earned(job[q].on.prof))'
    OBVIOUS
  <2>1. a <= Earned(p) - PaidTo(p)
    BY <1>4 DEF Underway, Ended, Outstanding
  <2>2. PaidTo(p) \in Int /\ Earned(p) \in Int /\ a \in Int
    BY PaidWhole, EarnedWhole DEF Typed, Shaped
  <2>3. PaidTo(p)' = PaidTo(p) /\ Earned(p)' = Earned(p)
    BY <1>1, ReadsStay
  <2>4. a + PaidTo(p)' <= Earned(p)'
    BY <2>1, <2>2, <2>3
  <2>5. QED
    BY <1>4, <2>4
<1>6. ASSUME NEW r \in Requests \ {q}, Underway(r)'
      PROVE  (job[r].on.amount + PaidTo(job[r].on.prof) <= Earned(job[r].on.prof))'
  <2>1. /\ pc'[r] = pc[r] /\ job'[r] = job[r]
        /\ r \in outdated => r \in outdated'
    BY <1>3
  <2>2. UNCHANGED Reads
    BY <1>1
  <2>3. QED
    BY <2>1, <2>2, <1>6, OthersCovered
<1>7. QED
  BY <1>5, <1>6 DEF Covered

\* After a tidy step every payout under way is still covered.
LEMMA TidyCovers == ASSUME Covered, NEW q \in Requests, Tidy(q) PROVE Covered'
<1>1. ASSUME NEW r \in Requests \ {q}, Underway(r)'
      PROVE  (job[r].on.amount + PaidTo(job[r].on.prof) <= Earned(job[r].on.prof))'
  BY <1>1, OthersCovered DEF Tidy
<1>2. ASSUME Underway(q)'
      PROVE  (job[q].on.amount + PaidTo(job[q].on.prof) <= Earned(job[q].on.prof))'
  <2>1. Underway(q) /\ job'[q] = job[q] /\ UNCHANGED Reads
    BY <1>2 DEF Tidy, Underway
  <2>2. QED
    BY <2>1, ReadsStay DEF Covered
<1>3. QED
  BY <1>1, <1>2 DEF Covered

\* Who goes from settled to done commits.
LEMMA SettledCommits ==
  ASSUME NEW r \in Requests, Typed, [Next]_vars, pc[r] = "settled", pc'[r] = "done"
  PROVE  Commit(r) /\ pc' = [pc EXCEPT ![r] = "done"]
<1>1. pc \in [Requests -> Stages]
  BY DEF Typed, TypeOK
<1>2. PICK q \in Requests : Start(q) \/ Step(q) \/ Abort(q)
  <2>1. pc' # pc
    OBVIOUS
  <2>2. QED
    BY <2>1 DEF Next, Closed, vars
<1>3. q = r
  <2>1. CASE VetPayout(q)
    BY <1>1, <2>1 DEF VetPayout, To
  <2>2. CASE ~VetPayout(q)
    BY <1>2, <2>2, TidySteps DEF Tidy
  <2>3. QED
    BY <2>1, <2>2
<1>4. ~Start(r)
  BY DEF Start, Asks, VetPayout, AskReprint, AskAmend, AskRemove, AskRule, AskDrop, UpdateSettings,
     Collect, Reseat, Vet
<1>5. ~GiveUp(r)
  BY <1>1 DEF GiveUp, To
<1>6. Commit(r)
  BY <1>2, <1>3, <1>4, <1>5 DEF Step, Abort, Follows, Begin, TakeReceipt, CountPaid, Price,
     TakeSettlement, Starve, NeedsConnection, Amend, Remove, SetRule, DropRule, CacheSettings, Post
<1>7. QED
  BY <1>5, <1>6 DEF Commit, To

\* "Overpayment is refused": a payout that nobody overtook between its check and
\* its commit leaves the professor with no more than the month is worth, for any
\* arrangement, any number of requests and any amounts.
THEOREM OverpaymentRefused == Spec => PaidWithinEarned
<1> DEFINE Enough == \A r \in Requests :
              pc[r] = "settled" /\ pc'[r] = "done" /\ job[r].op = "payout" /\ r \notin outdated =>
                  (PaidTo(job[r].on.prof) <= Earned(job[r].on.prof))'
<1>1. Init => Covered
  BY DEF Init, Covered, Underway
<1>2. IInv /\ Covered /\ [Next]_vars => Covered'
  <2> SUFFICES ASSUME IInv, Covered, [Next]_vars PROVE Covered'
    OBVIOUS
  <2>1. ASSUME NEW q \in Requests, Start(q) \/ Step(q) \/ Abort(q) PROVE Covered'
    BY <2>1, VetCovers, TidySteps, TidyCovers DEF IInv
  <2>2. ASSUME UNCHANGED vars PROVE Covered'
    <3>1. UNCHANGED Reads /\ UNCHANGED <<pc, job, outdated>>
      BY <2>2 DEF vars, academy, books, Reads
    <3>2. QED
      BY <3>1, ReadsStay DEF Covered, Underway
  <2>3. QED
    BY <2>1, <2>2 DEF Next, Closed
<1>3. IInv /\ Covered /\ [Next]_vars => Enough
  <2> SUFFICES ASSUME IInv, Covered, [Next]_vars, NEW r \in Requests,
                      pc[r] = "settled", pc'[r] = "done", job[r].op = "payout", r \notin outdated
               PROVE  (PaidTo(job[r].on.prof) <= Earned(job[r].on.prof))'
    OBVIOUS
  <2> DEFINE on == job[r].on
             row == [prof |-> on.prof, amount |-> on.amount, number |-> draft[r].number]
  <2>1. Commit(r)
    BY SettledCommits DEF IInv
  <2>2. Underway(r) /\ payout[r] = None
    BY DEF Underway, Ended, IInv, Numbering, OnRecord
  <2>3. on.amount + PaidTo(on.prof) <= Earned(on.prof)
    BY <2>2 DEF Covered
  <2>4. row \in PayoutRow
    <3>1. on.prof \in Profs /\ on.amount \in Payments
      BY DEF IInv, Typed, Shaped, Jobs
    <3>2. draft[r].number \in Nat \ {0}
      BY DEF IInv, Typed, TypeOK, Numbering, Holding, Numbered
    <3>3. QED
      BY <3>1, <3>2 DEF PayoutRow
  <2>5. ~GiveUp(r)
    BY DEF GiveUp, To, IInv, Typed, TypeOK
  <2>6. /\ payout' = [payout EXCEPT ![r] = row] /\ UNCHANGED job
        /\ UNCHANGED <<cached, override, takings, roster>>
    BY <2>1, <2>5 DEF Commit, Minting, academy
  <2>7. PaidTo(on.prof)' = on.amount + PaidTo(on.prof)
    <3>1. PICK c : c = row
      OBVIOUS
    <3>2. c \in PayoutRow /\ payout' = [payout EXCEPT ![r] = c]
      BY <3>1, <2>4, <2>6
    <3>3. PaidTo(c.prof)' = c.amount + PaidTo(c.prof)
      BY <2>2, <3>2, PayoutAdds DEF IInv
    <3>4. c.prof = on.prof /\ c.amount = on.amount /\ c.prof = on'.prof
      BY <3>1, <2>6
    <3>5. QED
      BY <3>3, <3>4
  <2>8. Earned(on.prof)' = Earned(on.prof)
    BY <2>6 DEF Earned, RuleFor
  <2>9. QED
    BY <2>3, <2>6, <2>7, <2>8
<1>4. QED
  BY <1>1, <1>2, <1>3, Inductive, PTL DEF Spec, PaidWithinEarned
=============================================================================
