--------------------------- MODULE Timetable_proofs ---------------------------
(***************************************************************************)
(* The timetable for any number of requests, rules, slots and windows: its *)
(* handlers use the keyed mutex as it is meant to be used, its rows keep   *)
(* their shape, and what a request decides still holds when it writes      *)
(* unless somebody else has written in between.                            *)
(***************************************************************************)
EXTENDS Timetable, KeyedMutex_proofs, FoldLemmas, FunctionTheorems

\* Deciding, refusing, writing and settling do not touch it.
LEMMA Untouched ==
  ASSUME NEW r, \/ \E p : Decide(r, p)
                \/ Refuse(r)
                \/ \E t, o : Commit(r, t, o)
                \/ \E op : Settle(r, op)
  PROVE  UNCHANGED mutex
  BY DEF Decide, Refuse, Commit, Settle

\* Whatever a handler does, it leaves the mutex alone or takes one of its steps.
LEMMA StepsOfTheMutex == ASSUME [Next]_vars PROVE [MutexNext]_mutex
<1> SUFFICES ASSUME Next, mutex' # mutex PROVE MutexNext
  BY DEF vars
<1>1. PICK r \in Callers : Start(r) \/ Step(r)
  BY DEF Next, Closed, vars
<1>2. CASE Ask(r)
  BY <1>2, LocksAssumption DEF Ask, MutexNext
<1>3. CASE Enter(r)
  BY <1>3 DEF Enter, MutexNext
<1>4. CASE Return(r)
  BY <1>4 DEF Return, MutexNext
<1>5. CASE Step(r) /\ ~Enter(r) /\ ~Return(r)
  <2>1. ASSUME VetCreate(r) \/ VetSplit(r) PROVE UNCHANGED mutex
    BY <2>1, Untouched DEF VetCreate, VetSplit
  <2>2. ASSUME WriteCreate(r) \/ WriteClone(r) \/ WritePatch(r) \/ WriteSync(r) \/ WriteException(r)
        PROVE  UNCHANGED mutex
    BY <2>2, Untouched DEF WriteCreate, WriteClone, WritePatch, WriteSync, WriteException
  <2> QED BY <1>5, <2>1, <2>2 DEF Step
<1>6. CASE Start(r) /\ ~Ask(r)
  <2>1. ASSUME NEW j \in Saves, VetSync(r, j) PROVE UNCHANGED mutex
    BY <2>1, Untouched DEF VetSync
  <2>2. ASSUME NEW j \in Exceptions, VetException(r, j) PROVE UNCHANGED mutex
    BY <2>2, Untouched DEF VetException
  <2>3. ASSUME EndSeries(r) \/ Update(r) \/ Archive(r) \/ Remove(r) \/ RemoveException(r)
        PROVE  UNCHANGED mutex
    BY <2>3, Untouched DEF EndSeries, Update, Archive, Remove, RemoveException, Serve
  <2>4. ASSUME SetHours(r) \/ EditSlot(r) \/ RemoveSlot(r) \/ RemoveRoom(r)
        PROVE  UNCHANGED mutex
    BY <2>4, Untouched DEF SetHours, EditSlot, RemoveSlot, RemoveRoom
  <2> QED BY <1>6, <2>1, <2>2, <2>3, <2>4 DEF Start
<1> QED BY <1>1, <1>2, <1>3, <1>4, <1>5, <1>6

\* The timetable's locked handlers take their turns, however many there are.
THEOREM TimetableTakesTurns == Spec => []TakesTurns
<1>1. Init => MutexInit
  BY DEF Init
<1>2. Spec => MutexSpec
  BY <1>1, StepsOfTheMutex, PTL DEF Spec, MutexSpec
<1> QED BY <1>2, TurnsAreTaken, PTL

-----------------------------------------------------------------------------
\* ---- the invariant ----

\* Rows of time_slots are unique, and every row that names one finds it.
SlotsInOrder ==
    /\ \A k, l \in SlotIds : slots[k] = slots[l] /\ slots[k] # NoWindow => k = l
    /\ \A i \in Ids : Stored(i) => slots[table[i].slot] # NoWindow
    /\ \A q \in Callers :
          overrides[q] # NoOverride /\ overrides[q].kind = "moved" =>
              overrides[q].slot \in SlotIds /\ slots[overrides[q].slot] # NoWindow

\* The unique index on rule and date.
OnePerDate ==
    \A q, r \in Callers :
        /\ overrides[q] # NoOverride /\ overrides[r] # NoOverride
        /\ overrides[q].entry = overrides[r].entry /\ overrides[q].date = overrides[r].date
        => q = r

\* What a request inserts is not there before it writes.
Mine(r) == {r} \cup ({r} \X Tiles)
NothingYet ==
    \A r \in Callers :
        /\ stage[r] \in {"new", "asked", "vetted"} =>
              (\A i \in Mine(r) : table[i] = NoEntry) /\ overrides[r] = NoOverride
        /\ stage[r] \in {"new", "asked"} => plan[r] = NoPlan

\* The locked handlers hold the lock of what they were asked.
InLine ==
    \A r \in Callers :
        /\ stage[r] = "asked" => job[r] \in LockedJobs /\ key[r] = LockOf(job[r])
        /\ stage[r] = "vetted" /\ plan[r].op = "clone" =>
              turn[r] = "inside" /\ key[r] = <<plan[r].entry>>

\* The shapes of what a request may decide to write.
CreatePlans == [op : {"create"}, new : Rules]
ClonePlans == [op : {"clone"}, entry : Ids, cut : -1..Horizon, new : Rules]
PatchPlans == [op : {"patch"}, entry : Ids, edit : Edits, slot : SlotIds]
SyncPlan(r, p) ==
    /\ p = [op |-> "sync", retire |-> p.retire, new |-> p.new] /\ p.retire \subseteq Ids
    /\ DOMAIN p.new \subseteq {r} \X Tiles /\ \A i \in DOMAIN p.new : p.new[i] \in Rules
ExceptPlans == [op : {"except"}, new : Overrides]

PlanOf(r) ==
    \/ plan[r] \in CreatePlans \/ plan[r] \in PatchPlans \/ SyncPlan(r, plan[r])
    \/ plan[r] \in ExceptPlans /\ (plan[r].new.kind = "moved" => plan[r].new.slot \in SlotIds)
    \/ plan[r] \in ClonePlans /\ plan[r].entry # r /\ plan[r].new.from = plan[r].cut + 1

Planned ==
    /\ DOMAIN job = Callers /\ DOMAIN plan = Callers
    /\ \A r \in Callers :
          stage[r] = "vetted" \/ (stage[r] = "written" /\ plan[r] # NoPlan) => PlanOf(r)

\* Row a, in window v, stands in the way of row e in window w.
Together(a, v, e, w) == Overlap(v, w) /\ a.from <= e.until /\ e.from <= a.until
RoomFree(e, skip) ==
    \A i \in Ids \ skip :
        Live(i) /\ Together(table[i], Meeting(i), e, slots[e.slot]) /\ e.room # NoRoom => table[i].room # e.room
ProfFree(e, skip) ==
    \A i \in Ids \ skip :
        Live(i) /\ Together(table[i], Meeting(i), e, slots[e.slot]) => table[i].prof # e.prof

\* Rule i holds a session on day d at the time of w.
Sits(i, d, w) ==
    \/ MeetsOn(i, d) /\ ~FreedOn(i, d) /\ SameTime(Meeting(i), w)
    \/ \E q \in Callers : MovedOnto(q, d) /\ overrides[q].entry = i /\ SameTime(slots[overrides[q].slot], w)

DayOf(o) == IF o.kind = "moved" THEN o.newDate ELSE o.date
WindowOf(o) == IF o.kind = "moved" THEN slots[o.slot] ELSE Meeting(o.entry)
HolderOf(i, o) == \/ o.prof # NoProf /\ table[i].prof = o.prof
                  \/ o.room # NoRoom /\ table[i].room = o.room

\* What a save has left to do: a row for each tile the group lacks.
Lacks(j) == {t \in j.tiles : \A i \in LiveOf(j.group) : Identity(i) # t}
Missing(r, t, e) ==
    /\ e.group = job[r].group /\ e.from = Today /\ e.until = Forever /\ e.live
    /\ slots[e.slot] # NoWindow /\ RoomFree([e EXCEPT !.until = Today], plan[r].retire)
    /\ t = [window |-> slots[e.slot], room |-> e.room]

CreateFits(r) == slots[plan[r].new.slot] # NoWindow /\ RoomFree(plan[r].new, {})
CloneFits(r) ==
    /\ slots[plan[r].new.slot] # NoWindow
    /\ RoomFree(plan[r].new, {plan[r].entry}) /\ ProfFree(plan[r].new, {plan[r].entry})
SyncFits(r) ==
    /\ plan[r].retire = {i \in LiveOf(job[r].group) : Identity(i) \notin job[r].tiles}
    /\ DOMAIN plan[r].new = {r} \X Lacks(job[r])
    /\ \A t \in Lacks(job[r]) : Missing(r, t, plan[r].new[<<r, t>>])
ExceptFits(r) ==
    LET o == plan[r].new IN
    /\ Stored(o.entry) /\ (o.kind = "moved" => o.slot \in SlotIds /\ slots[o.slot] # NoWindow)
    /\ o.kind # "cancelled" =>
          \A i \in Ids \ {o.entry} : Stored(i) /\ HolderOf(i, o) => ~Sits(i, DayOf(o), WindowOf(o))

\* What a request has checked is so, as long as nobody has written since.
Fits(r) ==
    /\ plan[r].op = "create" => CreateFits(r)
    /\ plan[r].op = "clone" => CloneFits(r)
    /\ plan[r].op = "sync" => SyncFits(r)
    /\ plan[r].op = "except" => ExceptFits(r)
StillSo == \A r \in Callers : stage[r] = "vetted" /\ r \notin stale => Fits(r)

\* When one split is all that was written, its rule ends where it was cut, and a
\* second one that is under way has read that end.
OnlySplit(q) == Continues(q) /\ \A c \in Callers \ {q} : stage[c] # "written"
SecondSeesFirst ==
    \A q \in Callers : OnlySplit(q) =>
        /\ Live(plan[q].entry) => table[plan[q].entry].until = plan[q].cut
        /\ \A r \in Callers :
              /\ stage[r] = "vetted" /\ plan[r].op = "clone"
              /\ plan[r].entry = plan[q].entry /\ plan[r].cut = plan[q].cut
              => plan[r].new.until = plan[q].cut \/ job[r].edit.what = "until"

Orderly ==
    /\ TypeOK /\ MutexInv /\ SlotsInOrder /\ OnePerDate /\ NothingYet /\ InLine /\ Planned
    /\ StillSo /\ SecondSeesFirst /\ SplitOnce

-----------------------------------------------------------------------------
\* ---- slots ----

\* More rows of time_slots than there were, and none changed.
Fills(s) ==
    /\ s \in [SlotIds -> Windows \cup {NoWindow}]
    /\ \A k \in SlotIds : slots[k] # NoWindow => s[k] = slots[k]
    /\ \A k, l \in SlotIds : s[k] = s[l] /\ s[k] # NoWindow => k = l

\* Windows that have no row, and rows that have no window.
Unstored(ws) == {w \in ws : \A k \in SlotIds : slots[k] # w}
Unused == {k \in SlotIds : slots[k] = NoWindow}

\* There are enough rows free for the windows that have none.
LEMMA EnoughRows ==
  ASSUME TypeOK, SlotsInOrder, NEW ws \in SUBSET Windows
  PROVE  Injection(Unstored(ws), Unused) # {}
<1> DEFINE used == SlotIds \ Unused
           held == Windows \ Unstored(Windows)
<1>1. /\ IsFiniteSet(SlotIds) /\ IsFiniteSet(Windows) /\ Cardinality(Windows) <= Cardinality(SlotIds)
      /\ Cardinality(Windows) \in Nat /\ Cardinality(SlotIds) \in Nat
  BY SlotsAssumption, FS_CardinalityType
<1>2. /\ IsFiniteSet(held) /\ Cardinality(held) = Cardinality(Windows) - Cardinality(Unstored(Windows))
  <2>1. Windows \cap Unstored(Windows) = Unstored(Windows)
    BY DEF Unstored
  <2> QED BY <1>1, <2>1, FS_Difference
<1>3. /\ IsFiniteSet(used) /\ Cardinality(used) = Cardinality(SlotIds) - Cardinality(Unused)
  <2>1. SlotIds \cap Unused = Unused
    BY DEF Unused
  <2> QED BY <1>1, <2>1, FS_Difference
<1>4. /\ IsFiniteSet(Unstored(Windows)) /\ IsFiniteSet(Unused)
      /\ IsFiniteSet(Unstored(ws)) /\ Cardinality(Unstored(ws)) <= Cardinality(Unstored(Windows))
  <2>1. /\ Unstored(Windows) \in SUBSET Windows /\ Unused \in SUBSET SlotIds
        /\ Unstored(ws) \in SUBSET Unstored(Windows)
    BY DEF Unstored, Unused
  <2>2. IsFiniteSet(Unstored(Windows)) /\ IsFiniteSet(Unused)
    BY <1>1, <2>1, FS_Subset
  <2> QED BY <2>1, <2>2, FS_Subset
\* Each row in use has a window of its own.
<1>5. Cardinality(used) <= Cardinality(held)
  <2> DEFINE f == [k \in used |-> slots[k]]
  <2>1. \A k \in used : slots[k] \in held
    BY DEF TypeOK, Unused, Unstored
  <2>2. \A k, l \in used : slots[k] = slots[l] => k = l
    BY DEF SlotsInOrder, Unused
  <2>3. f \in Injection(used, held)
    BY <2>1, <2>2 DEF Injection, IsInjective
  <2> HIDE DEF f, used, held
  <2> QED BY <1>2, <2>3, FS_Injection
<1>6. /\ Cardinality(Unstored(ws)) \in Nat /\ Cardinality(Unused) \in Nat
      /\ Cardinality(Unstored(ws)) <= Cardinality(Unused)
  <2>1. /\ Cardinality(Unstored(ws)) \in Nat /\ Cardinality(Unused) \in Nat
        /\ Cardinality(Unstored(Windows)) \in Nat /\ Cardinality(used) \in Nat /\ Cardinality(held) \in Nat
    BY <1>2, <1>3, <1>4, FS_CardinalityType
  <2> QED BY <1>1, <1>2, <1>3, <1>4, <1>5, <2>1
<1> HIDE DEF used, held
<1>7. PICK m, n : m = Cardinality(Unstored(ws)) /\ n = Cardinality(Unused)
  OBVIOUS
<1>8. ExistsInjection(1..m, 1..n)
  BY <1>6, <1>7, Fun_NatInjLeq
<1>9. ExistsInjection(Unstored(ws), 1..m) /\ ExistsInjection(1..n, Unused)
  <2>1. ExistsBijection(1..m, Unstored(ws)) /\ ExistsBijection(1..n, Unused)
    BY <1>4, <1>7, FS_CardinalityType
  <2> QED BY <2>1, Fun_ExistsBijEquiv
<1>10. ExistsInjection(Unstored(ws), 1..n)
  BY <1>8, <1>9, Fun_ExistsInjTransitive
<1>11. ExistsInjection(Unstored(ws), Unused)
  BY <1>9, <1>10, Fun_ExistsInjTransitive
<1> QED BY <1>11 DEF ExistsInjection

\* findOrCreate answers with each window's row, or with one that is free.
LEMMA RowsFound ==
  ASSUME TypeOK, SlotsInOrder, NEW ws \in SUBSET Windows, NEW row, row = RowsFor(ws)
  PROVE  /\ row \in [ws -> SlotIds]
         /\ \A w \in ws : /\ slots[row[w]] # NoWindow => slots[row[w]] = w
                          /\ \A k \in SlotIds : slots[k] = w => k = row[w]
         /\ \A v, w \in ws : row[v] = row[w] => v = w
<1>1. PICK fresh : fresh = CHOOSE f \in Injection(Unstored(ws), Unused) : TRUE
  OBVIOUS
<1>2. fresh \in Injection(Unstored(ws), Unused)
  BY <1>1, EnoughRows
<1>3. /\ \A w \in Unstored(ws) : fresh[w] \in Unused
      /\ \A v, w \in Unstored(ws) : fresh[v] = fresh[w] => v = w
  BY <1>2 DEF Injection, IsInjective
<1>4. row = [w \in ws |-> IF w \in Unstored(ws) THEN fresh[w] ELSE CHOOSE k \in SlotIds : slots[k] = w]
  BY <1>1 DEF RowsFor, Unstored, Unused
<1>5. ASSUME NEW w \in ws
      PROVE  /\ row[w] \in SlotIds
             /\ w \in Unstored(ws) => row[w] = fresh[w] /\ slots[row[w]] = NoWindow
             /\ w \notin Unstored(ws) => slots[row[w]] = w /\ w # NoWindow
  <2>1. CASE w \in Unstored(ws)
    BY <1>3, <1>4, <2>1 DEF Unused
  <2>2. CASE w \notin Unstored(ws)
    <3>1. \E k \in SlotIds : slots[k] = w
      BY <2>2 DEF Unstored
    <3>2. row[w] = CHOOSE k \in SlotIds : slots[k] = w
      BY <1>4, <2>2
    <3> QED BY <2>2, <3>1, <3>2, WindowsAssumption
  <2> QED BY <2>1, <2>2
<1>6. \A w \in ws : \A k \in SlotIds : slots[k] = w => k = row[w]
  BY <1>5 DEF SlotsInOrder, Unstored
<1>7. \A v, w \in ws : row[v] = row[w] => v = w
  BY <1>3, <1>5
<1> QED BY <1>4, <1>5, <1>6, <1>7

\* Storing windows adds at most their rows.
LEMMA StoringFills ==
  ASSUME TypeOK, SlotsInOrder, NEW ws \in SUBSET Windows, NEW row, row = RowsFor(ws)
  PROVE  Fills(WithRows(row)) /\ \A w \in ws : WithRows(row)[row[w]] = w
<1>1. /\ row \in [ws -> SlotIds]
      /\ \A w \in ws : /\ slots[row[w]] # NoWindow => slots[row[w]] = w
                       /\ \A k \in SlotIds : slots[k] = w => k = row[w]
      /\ \A v, w \in ws : row[v] = row[w] => v = w
  BY RowsFound
<1>2. PICK s : s = WithRows(row)
  OBVIOUS
<1>3. /\ s = [k \in SlotIds |-> s[k]]
      /\ \A w \in ws : s[row[w]] = w
      /\ \A k \in SlotIds : (\A w \in ws : row[w] # k) => s[k] = slots[k]
  <2>1. s = [k \in SlotIds |-> IF \E w \in ws : row[w] = k THEN CHOOSE w \in ws : row[w] = k ELSE slots[k]]
    BY <1>1, <1>2 DEF WithRows
  <2>2. ASSUME NEW w \in ws PROVE s[row[w]] = w
    <3>1. row[w] \in SlotIds
      BY <1>1
    <3>2. s[row[w]] = CHOOSE v \in ws : row[v] = row[w]
      BY <2>1, <3>1
    <3>3. \A v \in ws : row[v] = row[w] <=> v = w
      BY <1>1
    <3> QED BY <3>2, <3>3
  <2> QED BY <2>1, <2>2
<1>4. slots \in [SlotIds -> Windows \cup {NoWindow}] /\ ws \subseteq Windows /\ NoWindow \notin Windows
  BY WindowsAssumption DEF TypeOK
<1>5. \A k \in SlotIds : \/ \E w \in ws : row[w] = k /\ s[k] = w
                         \/ (\A w \in ws : row[w] # k) /\ s[k] = slots[k]
  BY <1>3
<1>6. s \in [SlotIds -> Windows \cup {NoWindow}]
  <2>1. \A k \in SlotIds : s[k] \in Windows \cup {NoWindow}
    BY <1>4, <1>5
  <2> QED BY <1>3, <2>1
<1>7. \A k \in SlotIds : slots[k] # NoWindow => s[k] = slots[k]
  BY <1>1, <1>5
<1>8. \A k, l \in SlotIds : s[k] = s[l] /\ s[k] # NoWindow => k = l
  BY <1>1, <1>5 DEF SlotsInOrder
<1>9. Fills(s)
  BY <1>6, <1>7, <1>8 DEF Fills
<1> QED BY <1>2, <1>3, <1>9

\* So it is with a single window.
LEMMA FoundOrCreated ==
  ASSUME TypeOK, SlotsInOrder, NEW w \in Windows
  PROVE  /\ FindOrCreate(w) \in SlotIds
         /\ Fills(WithSlot(w)) /\ WithSlot(w)[FindOrCreate(w)] = w
<1>1. PICK ws, row : ws = {w} /\ row = RowsFor(ws)
  OBVIOUS
<1>2. ws \in SUBSET Windows /\ w \in ws /\ FindOrCreate(w) = row[w] /\ WithSlot(w) = WithRows(row)
  BY <1>1 DEF FindOrCreate, WithSlot
<1> QED BY <1>1, <1>2, RowsFound, StoringFills

\* Storing nothing is storing nothing new.
LEMMA StoringNothing == ASSUME TypeOK, SlotsInOrder PROVE Fills(slots)
  BY DEF TypeOK, SlotsInOrder, Fills

-----------------------------------------------------------------------------
\* ---- what a request has checked stays so while slots are only added ----

\* A slot is stored, or nothing is; the rules and exceptions are as they were.
OnlyFills == Fills(slots') /\ UNCHANGED <<table, overrides>>

\* Every rule and exception keeps its window.
LEMMA MeetingsStay ==
  ASSUME TypeOK, SlotsInOrder, OnlyFills
  PROVE  /\ \A i \in Ids : Live(i) => Stored(i)
         /\ \A i \in Ids : Stored(i)' = Stored(i) /\ Live(i)' = Live(i)
         /\ \A i \in Ids : Stored(i) => Meeting(i)' = Meeting(i) /\ Identity(i)' = Identity(i)
         /\ \A q \in Callers : overrides[q] # NoOverride /\ overrides[q].kind = "moved" =>
                slots'[overrides[q].slot] = slots[overrides[q].slot]
<1>1. \A i \in Ids : Stored(i) => table[i] \in Rules
  BY DEF TypeOK, Stored
<1>2. \A i \in Ids : Stored(i) => table[i].slot \in SlotIds /\ slots[table[i].slot] # NoWindow
  BY <1>1 DEF Rules, SlotsInOrder
<1>3. \A i \in Ids : Stored(i) => Meeting(i)' = Meeting(i)
  BY <1>2 DEF OnlyFills, Fills, Meeting
<1> QED BY <1>3 DEF OnlyFills, Fills, Stored, Live, Identity, SlotsInOrder

\* A row that was free of clashes is so still.
LEMMA FreeStays ==
  ASSUME TypeOK, SlotsInOrder, OnlyFills, NEW e, e.slot \in SlotIds, slots[e.slot] # NoWindow, NEW skip
  PROVE  /\ slots'[e.slot] = slots[e.slot]
         /\ RoomFree(e, skip) => RoomFree(e, skip)'
         /\ ProfFree(e, skip) => ProfFree(e, skip)'
<1>1. slots'[e.slot] = slots[e.slot]
  BY DEF OnlyFills, Fills
<1>2. table' = table
  BY DEF OnlyFills
<1> QED BY <1>1, <1>2, MeetingsStay DEF RoomFree, ProfFree

\* So is a professor or a room.
LEMMA SittingsStay ==
  ASSUME TypeOK, SlotsInOrder, OnlyFills, NEW i \in Ids, Stored(i), NEW d, NEW w
  PROVE  Sits(i, d, w)' <=> Sits(i, d, w)
<1>1. table' = table /\ overrides' = overrides
  BY DEF OnlyFills
<1>2. /\ Stored(i)' = Stored(i) /\ Live(i)' = Live(i) /\ Meeting(i)' = Meeting(i)
      /\ \A q \in Callers : overrides[q] # NoOverride /\ overrides[q].kind = "moved" =>
                slots'[overrides[q].slot] = slots[overrides[q].slot]
  BY MeetingsStay
<1>3. MeetsOn(i, d)' <=> MeetsOn(i, d)
  BY <1>1, <1>2 DEF MeetsOn, InRange
<1>4. FreedOn(i, d)' <=> FreedOn(i, d)
  BY <1>1 DEF FreedOn, OverrideOn
<1>5. \A q \in Callers : MovedOnto(q, d)' <=> MovedOnto(q, d)
  BY <1>1 DEF MovedOnto
<1>6. \A q \in Callers : MovedOnto(q, d) => slots'[overrides[q].slot] = slots[overrides[q].slot]
  BY <1>2 DEF MovedOnto
<1> QED BY <1>1, <1>2, <1>3, <1>4, <1>5, <1>6 DEF Sits

\* What a save would leave or retire is what it was.
LEMMA SaveStays ==
  ASSUME TypeOK, SlotsInOrder, OnlyFills, NEW r \in Callers, SyncPlan(r, plan[r]), SyncFits(r),
         plan'[r] = plan[r], job'[r] = job[r]
  PROVE  SyncFits(r)'
<1>1. PICK p : p = plan[r]
  OBVIOUS
<1>2. PICK j : j = job[r]
  OBVIOUS
<1>3. p = plan'[r] /\ j = job'[r]
  BY <1>1, <1>2
<1>4. /\ LiveOf(j.group)' = LiveOf(j.group)
      /\ \A i \in LiveOf(j.group) : i \in Ids /\ Identity(i)' = Identity(i)
  BY MeetingsStay DEF LiveOf, OnlyFills
<1>5. p.retire = {i \in LiveOf(j.group) : Identity(i) \notin j.tiles}
  BY <1>1, <1>2 DEF SyncFits
<1>6. p.retire = {i \in LiveOf(j.group)' : Identity(i)' \notin j.tiles}
  BY <1>4, <1>5
<1>7. Lacks(j)' = Lacks(j)
  BY <1>4 DEF Lacks
<1>8. DOMAIN p.new = {r} \X Lacks(j)
  BY <1>1, <1>2 DEF SyncFits
<1>9. ASSUME NEW t \in Lacks(j) PROVE Missing(r, t, p.new[<<r, t>>])'
  <2>1. PICK e : e = p.new[<<r, t>>]
    OBVIOUS
  <2>2. e \in Rules
    BY <1>1, <1>8, <2>1 DEF SyncPlan
  <2>3. Missing(r, t, e)
    BY <1>1, <1>2, <2>1 DEF SyncFits
  <2>4. /\ e.group = j.group /\ e.from = Today /\ e.until = Forever /\ e.live
        /\ slots[e.slot] # NoWindow /\ RoomFree([e EXCEPT !.until = Today], p.retire)
        /\ t = [window |-> slots[e.slot], room |-> e.room]
    BY <1>1, <1>2, <2>3 DEF Missing
  <2>5. [e EXCEPT !.until = Today].slot = e.slot /\ e.slot \in SlotIds
    BY <2>2 DEF Rules
  <2>6. slots'[e.slot] = slots[e.slot] /\ RoomFree([e EXCEPT !.until = Today], p.retire)'
    BY <2>4, <2>5, FreeStays
  <2>7. Missing(r, t, e)'
    BY <1>3, <2>4, <2>6 DEF Missing
  <2> QED BY <2>1, <2>7
<1>10. plan'[r].new = p.new /\ job'[r] = j /\ plan'[r].retire = p.retire
  BY <1>1, <1>2
<1>11. Lacks(job[r])' = Lacks(j)
  BY <1>7, <1>10 DEF Lacks
<1>12. \A t \in Lacks(job[r])' : Missing(r, t, plan[r].new[<<r, t>>])'
  BY <1>3, <1>9, <1>11 DEF Missing
<1> QED BY <1>3, <1>6, <1>8, <1>10, <1>11, <1>12 DEF SyncFits

\* Whoever is free on the day of an exception is so still.
LEMMA ExceptionStays ==
  ASSUME TypeOK, SlotsInOrder, OnlyFills, NEW r \in Callers, plan[r] \in ExceptPlans, ExceptFits(r),
         plan'[r] = plan[r]
  PROVE  ExceptFits(r)'
<1>1. PICK o : o = plan[r].new
  OBVIOUS
<1>2. o = plan'[r].new
  BY <1>1
<1>3. /\ Stored(o.entry) /\ (o.kind = "moved" => o.slot \in SlotIds /\ slots[o.slot] # NoWindow)
      /\ o.kind # "cancelled" =>
            \A i \in Ids \ {o.entry} : Stored(i) /\ HolderOf(i, o) => ~Sits(i, DayOf(o), WindowOf(o))
  BY <1>1 DEF ExceptFits
<1>4. o \in Overrides
  BY <1>1 DEF ExceptPlans
<1>5. o.entry \in Ids
  BY <1>4 DEF Overrides
<1>6. Stored(o.entry)' /\ Meeting(o.entry)' = Meeting(o.entry)
  BY <1>3, <1>5, MeetingsStay
<1>7. o.kind = "moved" => slots'[o.slot] = slots[o.slot]
  BY <1>3 DEF OnlyFills, Fills
<1>8. PICK w : w = WindowOf(o)
  OBVIOUS
<1>9. PICK d : d = DayOf(o)
  OBVIOUS
<1>10. w = WindowOf(o)' /\ d = DayOf(o)'
  BY <1>6, <1>7, <1>8, <1>9 DEF WindowOf, DayOf
<1>11. \A i \in Ids \ {o.entry} : Stored(i) /\ HolderOf(i, o) /\ o.kind # "cancelled" => ~Sits(i, d, w)
  BY <1>3, <1>8, <1>9
<1>12. \A i \in Ids \ {o.entry} : (Stored(i) /\ HolderOf(i, o))' /\ o.kind # "cancelled" => ~Sits(i, d, w)'
  <2>1. \A i \in Ids : (Stored(i)' <=> Stored(i)) /\ (HolderOf(i, o)' <=> HolderOf(i, o))
    BY DEF Stored, HolderOf, OnlyFills
  <2>2. \A i \in Ids : Stored(i) => (Sits(i, d, w)' <=> Sits(i, d, w))
    BY SittingsStay
  <2> QED BY <1>11, <2>1, <2>2
<1> QED BY <1>2, <1>3, <1>6, <1>7, <1>10, <1>12 DEF ExceptFits

\* All that a request has checked stays so.
LEMMA FitsStays ==
  ASSUME TypeOK, SlotsInOrder, OnlyFills, NEW r \in Callers, PlanOf(r), Fits(r),
         plan'[r] = plan[r], job'[r] = job[r]
  PROVE  Fits(r)'
<1>1. PICK p : p = plan[r]
  OBVIOUS
<1>2. p = plan'[r]
  BY <1>1
<1>3. p.op \in {"create", "clone"} => p.new.slot \in SlotIds
  BY <1>1 DEF PlanOf, CreatePlans, ClonePlans, PatchPlans, SyncPlan, ExceptPlans, Rules
<1>4. ASSUME p.op = "create" PROVE CreateFits(r)'
  <2>1. slots[p.new.slot] # NoWindow /\ RoomFree(p.new, {})
    BY <1>1, <1>4 DEF Fits, CreateFits
  <2>2. slots'[p.new.slot] = slots[p.new.slot] /\ RoomFree(p.new, {})'
    BY <1>3, <1>4, <2>1, FreeStays
  <2> QED BY <1>2, <2>1, <2>2 DEF CreateFits
<1>5. ASSUME p.op = "clone" PROVE CloneFits(r)'
  <2>1. slots[p.new.slot] # NoWindow /\ RoomFree(p.new, {p.entry}) /\ ProfFree(p.new, {p.entry})
    BY <1>1, <1>5 DEF Fits, CloneFits
  <2>2. slots'[p.new.slot] = slots[p.new.slot] /\ RoomFree(p.new, {p.entry})' /\ ProfFree(p.new, {p.entry})'
    BY <1>3, <1>5, <2>1, FreeStays
  <2> QED BY <1>2, <2>1, <2>2 DEF CloneFits
<1>6. ASSUME p.op = "sync" PROVE SyncFits(r)'
  <2>1. SyncPlan(r, plan[r])
    BY <1>1, <1>6 DEF PlanOf, CreatePlans, ClonePlans, PatchPlans, SyncPlan, ExceptPlans
  <2> QED BY <1>1, <1>6, <2>1, SaveStays DEF Fits
<1>7. ASSUME p.op = "except" PROVE ExceptFits(r)'
  <2>1. plan[r] \in ExceptPlans
    BY <1>1, <1>7 DEF PlanOf, CreatePlans, ClonePlans, PatchPlans, SyncPlan, ExceptPlans
  <2> QED BY <1>1, <1>7, <2>1, ExceptionStays DEF Fits
<1> QED BY <1>2, <1>4, <1>5, <1>6, <1>7 DEF Fits

-----------------------------------------------------------------------------
\* ---- a request decides ----

Stages == {"new", "asked", "vetted", "written", "refused"}

\* A split goes by the end that it has just read, and holds the rule's lock.
ReadsEnd(r) ==
    plan[r].op = "clone" =>
        /\ turn[r] = "inside" /\ key[r] = <<plan[r].entry>> /\ Live(plan[r].entry)
        /\ plan[r].new.until = table[plan[r].entry].until \/ job[r].edit.what = "until"

\* r, and nobody else, has decided or is refused.
OthersWait(r) ==
    /\ DOMAIN job' = Callers /\ DOMAIN plan' = Callers
    /\ \A q \in Callers \ {r} : stage'[q] = stage[q] /\ plan'[q] = plan[q] /\ job'[q] = job[q]
Vets(r) ==
    /\ OnlyFills /\ UNCHANGED <<mutex, hours, rooms, stale>> /\ OthersWait(r)
    /\ stage[r] \in {"new", "asked", "vetted"} /\ stage' \in [Callers -> Stages]
    /\ \/ stage'[r] = "refused"
       \/ stage'[r] = "vetted" /\ (PlanOf(r) /\ Fits(r) /\ ReadsEnd(r))'

\* Whoever decides on what is so keeps the tables in order.
LEMMA VetsKeepTables ==
  ASSUME Orderly, NEW r \in Callers, Vets(r)
  PROVE  (TypeOK /\ MutexInv /\ SlotsInOrder /\ OnePerDate /\ NothingYet)'
<1>1. TypeOK'
  BY DEF Orderly, TypeOK, Vets, OnlyFills, Fills, Stages, mutex
<1>2. MutexInv'
  BY MutexStutter DEF Orderly, Vets
<1>3. SlotsInOrder'
  <2>1. table' = table /\ overrides' = overrides /\ Fills(slots')
    BY DEF Vets, OnlyFills
  <2>2. \A i \in Ids : Stored(i) => table[i].slot \in SlotIds
    BY DEF Orderly, TypeOK, Stored, Rules
  <2> QED BY <2>1, <2>2 DEF Orderly, SlotsInOrder, Stored, Fills
<1>4. OnePerDate'
  BY DEF Orderly, OnePerDate, Vets, OnlyFills
<1>5. NothingYet'
  BY DEF Orderly, NothingYet, Vets, OnlyFills, OthersWait
<1> QED BY <1>1, <1>2, <1>3, <1>4, <1>5

\* ... and what everybody has decided in order, its own decision among it.
LEMMA VetsKeepPlans ==
  ASSUME Orderly, NEW r \in Callers, Vets(r)
  PROVE  (InLine /\ Planned /\ StillSo)'
<1>1. \A q \in Callers \ {r} : stage'[q] = stage[q] /\ plan'[q] = plan[q] /\ job'[q] = job[q]
  BY DEF Vets, OthersWait
<1>2. InLine'
  BY <1>1 DEF Orderly, InLine, Vets, ReadsEnd, mutex
<1>3. \A q \in Callers \ {r} : PlanOf(q)' <=> PlanOf(q)
  BY <1>1 DEF PlanOf
<1>4. Planned'
  BY <1>1, <1>3 DEF Orderly, Planned, Vets, OthersWait
<1>5. ASSUME NEW q \in Callers \ {r}, stage'[q] = "vetted", q \notin stale' PROVE Fits(q)'
  <2>1. stage[q] = "vetted" /\ Fits(q) /\ PlanOf(q)
    BY <1>1, <1>5 DEF Orderly, StillSo, Planned, Vets
  <2> QED BY <1>1, <2>1, FitsStays DEF Orderly, Vets
<1>6. StillSo'
  BY <1>5 DEF StillSo, Vets
<1> QED BY <1>2, <1>4, <1>6

\* A second split that decides now reads the end that the first one wrote.
LEMMA VetsKeepSplits ==
  ASSUME Orderly, NEW r \in Callers, Vets(r)
  PROVE  (SecondSeesFirst /\ SplitOnce)'
<1>1. \A q \in Callers \ {r} : stage'[q] = stage[q] /\ plan'[q] = plan[q] /\ job'[q] = job[q]
  BY DEF Vets, OthersWait
<1>2. table' = table /\ stage[r] # "written" /\ stage'[r] # "written"
  BY DEF Vets, OnlyFills
<1>3. SplitOnce'
  BY <1>1, <1>2 DEF Orderly, SplitOnce, Continues
<1>4. \A q \in Callers : OnlySplit(q)' => q # r /\ OnlySplit(q)
  BY <1>1, <1>2 DEF OnlySplit, Continues
<1>5. \A i : Live(i)' <=> Live(i)
  BY <1>2 DEF Live, Stored
<1>6. ASSUME NEW q \in Callers, OnlySplit(q)'
      PROVE  /\ Live(plan'[q].entry) => table[plan'[q].entry].until = plan'[q].cut
             /\ stage'[r] = "vetted" /\ plan'[r].op = "clone" /\ plan'[r].entry = plan'[q].entry
                => plan'[r].new.until = plan'[q].cut \/ job'[r].edit.what = "until"
             /\ \A c \in Callers \ {r} :
                  /\ stage'[c] = "vetted" /\ plan'[c].op = "clone"
                  /\ plan'[c].entry = plan'[q].entry /\ plan'[c].cut = plan'[q].cut
                  => plan'[c].new.until = plan'[q].cut \/ job'[c].edit.what = "until"
  <2>1. q # r /\ OnlySplit(q) /\ plan'[q] = plan[q]
    BY <1>1, <1>4, <1>6
  <2>2. Live(plan[q].entry) => table[plan[q].entry].until = plan[q].cut
    BY <2>1 DEF Orderly, SecondSeesFirst
  <2>3. stage'[r] = "vetted" /\ plan'[r].op = "clone" =>
          /\ Live(plan'[r].entry)
          /\ plan'[r].new.until = table[plan'[r].entry].until \/ job'[r].edit.what = "until"
    BY <1>2, <1>5 DEF Vets, ReadsEnd
  <2> QED BY <1>1, <2>1, <2>2, <2>3 DEF Orderly, SecondSeesFirst
<1>7. SecondSeesFirst'
  BY <1>2, <1>5, <1>6 DEF SecondSeesFirst
<1> QED BY <1>3, <1>7

\* Deciding on what is so keeps everything in order.
LEMMA VetsKeep == ASSUME Orderly, NEW r \in Callers, Vets(r) PROVE Orderly'
  BY VetsKeepTables, VetsKeepPlans, VetsKeepSplits DEF Orderly

\* A request that is refused leaves everything as it was.
LEMMA RefusedKeeps ==
  ASSUME Orderly, NEW r \in Callers, stage[r] \in {"new", "asked", "vetted"},
         stage' = [stage EXCEPT ![r] = "refused"], UNCHANGED <<mutex, stored, plan, stale>>,
         DOMAIN job' = Callers, \A q \in Callers \ {r} : job'[q] = job[q]
  PROVE  Orderly'
<1>1. stage \in [Callers -> Stages] /\ TypeOK /\ SlotsInOrder
  BY DEF Orderly, TypeOK, Stages
<1>2. Fills(slots')
  BY <1>1, StoringNothing DEF stored
<1>3. stage' \in [Callers -> Stages] /\ stage'[r] = "refused" /\ \A q \in Callers \ {r} : stage'[q] = stage[q]
  BY <1>1 DEF Stages
<1>4. Vets(r)
  BY <1>2, <1>3 DEF Orderly, Planned, Vets, OnlyFills, OthersWait, stored
<1> QED BY <1>4, VetsKeep

-----------------------------------------------------------------------------
\* ---- a request writes ----

\* r has written: the others that have decided know that it has.
Wrote(r) ==
    /\ stage[r] \in {"new", "vetted"} /\ stage' = [stage EXCEPT ![r] = "written"]
    /\ Outdate(r) /\ UNCHANGED <<mutex, job, plan>>

\* Nobody's decision counts as fresh after a write, so none can be wrong.
LEMMA WrotePlans ==
  ASSUME Orderly, NEW r \in Callers, Wrote(r)
  PROVE  /\ MutexInv' /\ InLine' /\ Planned' /\ StillSo' /\ stale' \subseteq Callers
         /\ stage' \in [Callers -> Stages] /\ stage'[r] = "written" /\ stage[r] # "written"
         /\ \A q \in Callers \ {r} : stage'[q] = stage[q]
<1>1. stage \in [Callers -> Stages] /\ stale \subseteq Callers
  BY DEF Orderly, TypeOK, Stages
<1>2. /\ stage' \in [Callers -> Stages] /\ stage'[r] = "written" /\ stage[r] # "written"
      /\ \A q \in Callers \ {r} : stage'[q] = stage[q]
  BY <1>1 DEF Wrote, Stages
<1>3. MutexInv'
  BY MutexStutter DEF Orderly, Wrote
<1>4. InLine'
  BY <1>2 DEF Orderly, InLine, Wrote, mutex
<1>5. \A q \in Callers : PlanOf(q)' <=> PlanOf(q)
  BY DEF PlanOf, Wrote
<1>6. Planned'
  BY <1>2, <1>5 DEF Orderly, Planned, NothingYet, Wrote
<1>7. StillSo' /\ stale' \subseteq Callers
  BY <1>1, <1>2 DEF StillSo, Wrote, Outdate
<1> QED BY <1>2, <1>3, <1>4, <1>6, <1>7

\* Whoever writes something else than the second half of a split.
LEMMA WroteSplits ==
  ASSUME Orderly, NEW r \in Callers, Wrote(r), stage[r] = "new" \/ plan[r].op # "clone"
  PROVE  (SecondSeesFirst /\ SplitOnce)'
<1>1. stage'[r] = "written" /\ (\A q \in Callers \ {r} : stage'[q] = stage[q]) /\ plan' = plan /\ job' = job
  BY WrotePlans DEF Wrote
<1>2. ~Continues(r)'
  BY <1>1 DEF Orderly, NothingYet, Continues
<1>3. \A q \in Callers : ~OnlySplit(q)'
  BY <1>1, <1>2 DEF OnlySplit
<1>4. \A q \in Callers : Continues(q)' => q # r /\ Continues(q)
  BY <1>1, <1>2 DEF Continues
<1>5. SplitOnce'
  BY <1>1, <1>4 DEF Orderly, SplitOnce
<1> QED BY <1>3, <1>5 DEF SecondSeesFirst

\* What a transaction puts in the place of the two tables.
Rewrites(r, t, o) ==
    /\ t \in [Ids -> Rules \cup {NoEntry}] /\ o \in [Callers -> Overrides \cup {NoOverride}]
    /\ \A i \in Ids \ Mine(r) : table[i] = NoEntry => t[i] = NoEntry
    /\ \A q \in Callers \ {r} : overrides[q] = NoOverride => o[q] = NoOverride
    /\ \A q \in Callers : o[q] # NoOverride /\ o[q].kind = "moved" =>
           o[q].slot \in SlotIds /\ slots[o[q].slot] # NoWindow
    /\ \A q, c \in Callers :
           o[q] # NoOverride /\ o[c] # NoOverride /\ o[q].entry = o[c].entry /\ o[q].date = o[c].date => q = c

\* Two requests insert different rules.
LEMMA MineAreMine ==
  ASSUME NEW r \in Callers
  PROVE  Mine(r) \subseteq Ids /\ \A q \in Callers \ {r} : Mine(q) \subseteq Ids \ Mine(r)
<1>1. Mine(r) \subseteq Ids /\ \A q \in Callers \ {r} : Mine(q) \subseteq Ids
  BY DEF Mine, Ids
<1>2. ASSUME NEW q \in Callers \ {r}, NEW i \in Mine(q) PROVE i \notin Mine(r)
  BY SeedsAssumption DEF Mine
<1> QED BY <1>1, <1>2

\* A transaction that commits leaves tables that are in order.
LEMMA CommitTables ==
  ASSUME Orderly, NEW r \in Callers, Wrote(r), Legal(table'), Rewrites(r, table', overrides'),
         UNCHANGED <<slots, hours, rooms>>
  PROVE  (TypeOK /\ SlotsInOrder /\ OnePerDate /\ NothingYet)'
<1>1. /\ stale' \subseteq Callers /\ stage' \in [Callers -> Stages] /\ stage'[r] = "written"
      /\ \A q \in Callers \ {r} : stage'[q] = stage[q]
  BY WrotePlans
<1>2. TypeOK'
  BY <1>1 DEF Orderly, TypeOK, Rewrites, Stages, Wrote, mutex
<1>3. SlotsInOrder'
  BY DEF Orderly, SlotsInOrder, Rewrites, Legal, Stored
<1>4. OnePerDate'
  BY DEF OnePerDate, Rewrites
<1>5. NothingYet'
  <2>1. ASSUME NEW q \in Callers \ {r}, stage[q] \in {"new", "asked", "vetted"}, NEW i \in Mine(q)
        PROVE  table'[i] = NoEntry
    <3>1. table[i] = NoEntry /\ i \in Ids \ Mine(r)
      BY <2>1, MineAreMine DEF Orderly, NothingYet
    <3> QED BY <3>1 DEF Rewrites
  <2> QED BY <1>1, <2>1 DEF Orderly, NothingYet, Rewrites, Wrote
<1> QED BY <1>2, <1>3, <1>4, <1>5

\* A transaction, whether it commits or is taken back, keeps everything in order.
LEMMA CommitKeeps ==
  ASSUME Orderly, NEW r \in Callers, NEW t, NEW o, Commit(r, t, o), Rewrites(r, t, o),
         stage[r] = "new" \/ (stage[r] = "vetted" /\ plan[r].op # "clone")
  PROVE  Orderly'
<1>1. CASE Legal(t)
  <2>1. /\ table' = t /\ overrides' = o /\ stage' = [stage EXCEPT ![r] = "written"]
        /\ Outdate(r) /\ UNCHANGED <<mutex, slots, hours, rooms, job, plan>>
    BY <1>1 DEF Commit
  <2>2. Wrote(r)
    BY <2>1 DEF Wrote
  <2>3. (TypeOK /\ SlotsInOrder /\ OnePerDate /\ NothingYet)'
    BY <1>1, <2>1, <2>2, CommitTables
  <2> QED BY <2>2, <2>3, WrotePlans, WroteSplits DEF Orderly
<1>2. CASE ~Legal(t)
  BY <1>2, RefusedKeeps DEF Orderly, Planned, Commit, stored
<1> QED BY <1>1, <1>2

\* The settings screens: nobody's row is touched.
LEMMA SettleKeeps ==
  ASSUME Orderly, NEW r \in Callers, NEW op, Settle(r, op), hours' \in Menus, rooms' \subseteq Rooms,
         slots' \in [SlotIds -> Windows \cup {NoWindow}], SlotsInOrder'
  PROVE  Orderly'
<1>1. Wrote(r) /\ table' = table /\ overrides' = overrides /\ mutex' = mutex
  BY DEF Settle, Wrote
<1>2. /\ stale' \subseteq Callers /\ stage' \in [Callers -> Stages] /\ stage'[r] = "written"
      /\ \A q \in Callers \ {r} : stage'[q] = stage[q]
  BY <1>1, WrotePlans
<1>3. TypeOK'
  BY <1>1, <1>2 DEF Orderly, TypeOK, Stages, mutex
<1>4. OnePerDate' /\ NothingYet'
  BY <1>1, <1>2 DEF Orderly, OnePerDate, NothingYet, Wrote
<1>5. stage[r] = "new"
  BY DEF Settle
<1> QED BY <1>1, <1>3, <1>4, <1>5, WrotePlans, WroteSplits DEF Orderly

\* A write of rules alone.
LEMMA RulesRewritten ==
  ASSUME Orderly, NEW r \in Callers, NEW t \in [Ids -> Rules \cup {NoEntry}],
         \A i \in Ids \ Mine(r) : table[i] = NoEntry => t[i] = NoEntry
  PROVE  Rewrites(r, t, overrides)
  BY DEF Orderly, TypeOK, SlotsInOrder, OnePerDate, Rewrites

\* What the second half of a split is written from.
LEMMA ClonePlanned ==
  ASSUME Orderly, NEW r \in Callers, Writes(r, "clone")
  PROVE  /\ stage[r] = "vetted" /\ plan[r] \in ClonePlans /\ plan[r].entry \in Ids \ {r}
         /\ plan[r].cut \in -1..Horizon /\ plan[r].new \in Rules /\ plan[r].new.from = plan[r].cut + 1
         /\ turn[r] = "inside" /\ key[r] = <<plan[r].entry>>
<1>1. stage[r] = "vetted" /\ plan[r].op = "clone" /\ PlanOf(r)
  BY DEF Writes, Orderly, Planned
<1>2. plan[r] \in ClonePlans /\ plan[r].entry # r /\ plan[r].new.from = plan[r].cut + 1
  BY <1>1 DEF PlanOf, CreatePlans, ClonePlans, PatchPlans, SyncPlan, ExceptPlans
<1> QED BY <1>1, <1>2 DEF ClonePlans, Orderly, InLine

\* The rows after a split, cut and continued.
Halves(r, t) ==
    LET i == plan[r].entry IN
    /\ t \in [Ids -> Rules \cup {NoEntry}] /\ t[r] = plan[r].new
    /\ t[i] = IF Stored(i) THEN [table[i] EXCEPT !.until = plan[r].cut] ELSE table[i]
    /\ \A k \in Ids \ {r, i} : t[k] = table[k]

\* WriteClone writes the two halves.
LEMMA ClonesHalves ==
  ASSUME Orderly, NEW r \in Callers, WriteClone(r)
  PROVE  \E t : Halves(r, t) /\ Commit(r, t, overrides)
<1> DEFINE i == plan[r].entry
           cut == [table EXCEPT ![i] = IF Stored(i) THEN [@ EXCEPT !.until = plan[r].cut] ELSE @]
           t == [cut EXCEPT ![r] = plan[r].new]
<1>1. Writes(r, "clone") /\ Commit(r, t, overrides)
  BY DEF WriteClone
<1>2. /\ i \in Ids \ {r} /\ plan[r].cut \in -1..Horizon /\ plan[r].new \in Rules
  BY <1>1, ClonePlanned
<1>3. table \in [Ids -> Rules \cup {NoEntry}] /\ r \in Ids
  BY DEF Orderly, TypeOK, Ids
<1>4. Stored(i) => [table[i] EXCEPT !.until = plan[r].cut] \in Rules
  <2>1. Horizon \in Nat /\ -1..Horizon \subseteq -1..Forever
    BY CalendarAssumption DEF Forever
  <2> QED BY <1>2, <1>3, <2>1 DEF Stored, Rules
<1>5. Halves(r, t)
  BY <1>2, <1>3, <1>4 DEF Halves
<1> QED BY <1>1, <1>5

\* A split that is the first thing written leaves its rule at the cut, and no
\* other split of the rule is under way, because the lock is held.
LEMMA FirstSplit ==
  ASSUME Orderly, NEW r \in Callers, Writes(r, "clone"), Wrote(r), Halves(r, table')
  PROVE  SecondSeesFirst'
<1>1. /\ stage'[r] = "written" /\ (\A q \in Callers \ {r} : stage'[q] = stage[q])
      /\ plan' = plan /\ job' = job /\ mutex' = mutex
  BY WrotePlans DEF Wrote
<1>2. \A q \in Callers : OnlySplit(q)' => q = r
  BY <1>1 DEF OnlySplit
<1>3. Live(plan[r].entry)' => table'[plan[r].entry].until = plan[r].cut
  <2>1. plan[r].entry \in Ids /\ plan[r].cut \in -1..Horizon
    BY ClonePlanned
  <2>2. Stored(plan[r].entry) => table[plan[r].entry] \in Rules
    BY <2>1 DEF Orderly, TypeOK, Stored
  <2>3. table'[plan[r].entry] = IF Stored(plan[r].entry) THEN [table[plan[r].entry] EXCEPT !.until = plan[r].cut]
                                ELSE table[plan[r].entry]
    BY DEF Halves
  <2>4. CASE Stored(plan[r].entry)
    BY <2>2, <2>3, <2>4 DEF Rules
  <2>5. CASE ~Stored(plan[r].entry)
    BY <1>1, <2>3, <2>5 DEF Live, Stored
  <2> QED BY <2>4, <2>5
<1>4. ASSUME NEW c \in Callers, stage'[c] = "vetted", plan'[c].op = "clone", plan'[c].entry = plan'[r].entry
      PROVE  FALSE
  <2>1. c # r /\ Writes(c, "clone")
    BY <1>1, <1>4 DEF Writes
  <2>2. turn[c] = "inside" /\ turn[r] = "inside" /\ key[c] = key[r]
    BY <1>1, <1>4, <2>1, ClonePlanned
  <2>3. TakesTurns
    BY InsideAreAlone DEF Orderly
  <2> QED BY <2>1, <2>2, <2>3 DEF TakesTurns
<1> QED BY <1>1, <1>2, <1>3, <1>4 DEF SecondSeesFirst

\* A split of a rule that another has cut cannot be written, its row would end
\* before it begins.
LEMMA SecondSplit ==
  ASSUME Orderly, NEW r \in Callers, Writes(r, "clone"), Wrote(r), Halves(r, table'), Legal(table')
  PROVE  SplitOnce'
<1>1. /\ stage'[r] = "written" /\ (\A q \in Callers \ {r} : stage'[q] = stage[q])
      /\ plan' = plan /\ job' = job /\ stage[r] # "written"
  BY WrotePlans DEF Wrote
<1>2. ASSUME NEW q \in Callers \ {r}, Continues(q), plan[q].entry = plan[r].entry, plan[q].cut = plan[r].cut,
             \A c \in Callers \ {r, q} : stage'[c] # "written"
      PROVE  job[r].edit.what = "until"
  <2>1. OnlySplit(q)
    BY <1>1, <1>2 DEF OnlySplit
  <2>2. stage[r] = "vetted" /\ plan[r].op = "clone"
    BY DEF Writes
  <2>3. plan[r].new.until = plan[r].cut \/ job[r].edit.what = "until"
    BY <1>2, <2>1, <2>2 DEF Orderly, SecondSeesFirst
  <2>4. plan[r].new \in Rules /\ plan[r].cut \in -1..Horizon /\ plan[r].new.from = plan[r].cut + 1
    BY ClonePlanned
  <2>5. plan[r].new.from <= plan[r].new.until
    <3>1. table'[r] = plan[r].new /\ r \in Ids
      BY DEF Halves, Ids
    <3>2. plan[r].new # NoEntry
      BY <2>4, AbsentAssumption
    <3> QED BY <3>1, <3>2 DEF Legal
  <2>6. plan[r].cut \in Int /\ ~(plan[r].cut + 1 <= plan[r].cut)
    BY <2>4
  <2> QED BY <2>3, <2>4, <2>5, <2>6
<1>3. \A q \in Callers : Continues(q)' => q = r \/ Continues(q)
  BY <1>1 DEF Continues
<1>4. ASSUME NEW q \in Callers, NEW c \in Callers, q # c, Continues(q)', Continues(c)',
             plan[q].entry = plan[c].entry, plan[q].cut = plan[c].cut,
             \A d \in Callers \ {q, c} : stage'[d] # "written"
      PROVE  "until" \in {job[q].edit.what, job[c].edit.what}
  <2>1. q = r \/ c = r
    BY <1>1, <1>4
  <2>2. CASE q = r
    BY <1>2, <1>3, <1>4, <2>2
  <2>3. CASE c = r
    BY <1>2, <1>3, <1>4, <2>3
  <2> QED BY <2>1, <2>2, <2>3
<1> QED BY <1>1, <1>4 DEF SplitOnce

\* The second half of a split keeps everything in order.
LEMMA WriteCloneKeeps == ASSUME Orderly, NEW r \in Callers, WriteClone(r) PROVE Orderly'
<1>1. PICK t : Halves(r, t) /\ Commit(r, t, overrides)
  BY ClonesHalves
<1>2. Writes(r, "clone") /\ stage[r] = "vetted" /\ plan[r].entry \in Ids \ {r}
  BY ClonePlanned DEF WriteClone
<1>3. Rewrites(r, t, overrides)
  <2>1. \A k \in Ids \ Mine(r) : table[k] = NoEntry => t[k] = NoEntry
    BY <1>1, <1>2 DEF Halves, Stored, Mine
  <2> QED BY <1>1, <2>1, RulesRewritten DEF Halves
<1>4. CASE Legal(t)
  <2>1. /\ table' = t /\ overrides' = overrides /\ stage' = [stage EXCEPT ![r] = "written"]
        /\ Outdate(r) /\ UNCHANGED <<mutex, slots, hours, rooms, job, plan>>
    BY <1>1, <1>4 DEF Commit
  <2>2. Wrote(r)
    BY <1>2, <2>1 DEF Wrote
  <2>3. (TypeOK /\ SlotsInOrder /\ OnePerDate /\ NothingYet)'
    BY <1>3, <1>4, <2>1, <2>2, CommitTables
  <2>4. (SecondSeesFirst /\ SplitOnce)'
    BY <1>1, <1>2, <1>4, <2>1, <2>2, FirstSplit, SecondSplit
  <2> QED BY <2>2, <2>3, <2>4, WrotePlans DEF Orderly
<1>5. CASE ~Legal(t)
  BY <1>1, <1>2, <1>5, RefusedKeeps DEF Orderly, Planned, Commit, stored
<1> QED BY <1>4, <1>5

\* ---- the other writes ----

\* The columns an edit names.
LEMMA EditTypes ==
  ASSUME NEW x \in Edits
  PROVE  /\ x.what = "window" => x.to \in Windows
         /\ x.what = "room" => x.to \in RoomOrNone
         /\ x.what = "prof" => x.to \in Profs
         /\ x.what = "until" => x.to \in -1..Forever
<1>1. x.what = "until" => x.to \in Starts \cup {Forever}
  BY DEF Edits
<1>2. Starts \cup {Forever} \subseteq -1..Forever
  BY CalendarAssumption DEF Forever, Dates
<1>3. /\ x.what = "window" => x.to \in Windows
      /\ x.what = "room" => x.to \in RoomOrNone
      /\ x.what = "prof" => x.to \in Profs
  BY DEF Edits
<1> QED BY <1>1, <1>2, <1>3

\* A patch or an archived row is a row.
LEMMA StillRows ==
  ASSUME NEW e \in Rules
  PROVE  /\ Archived(e) \in Rules
         /\ \A x \in Edits, k \in SlotIds : Patched(e, x, k) \in Rules
         /\ \A d \in Starts : [e EXCEPT !.until = d - 1] \in Rules
<1> USE CalendarAssumption
<1>1. Today \in -1..Forever
  BY DEF Forever, Dates
<1>2. \A d \in Starts : d - 1 \in -1..Forever
  BY DEF Forever, Dates
<1>3. Archived(e) \in Rules
  BY <1>1 DEF Archived, Rules
<1>4. ASSUME NEW x \in Edits, NEW k \in SlotIds PROVE Patched(e, x, k) \in Rules
  <2>1. /\ x.what = "room" => x.to \in RoomOrNone
        /\ x.what = "prof" => x.to \in Profs
        /\ x.what = "until" => x.to \in -1..Forever
    BY EditTypes
  <2> QED BY <2>1 DEF Patched, Rules
<1> QED BY <1>2, <1>3, <1>4 DEF Rules

\* One row is replaced by another.
LEMMA OneRowRewritten ==
  ASSUME Orderly, NEW r \in Callers, NEW i \in Ids, Stored(i) \/ i = r, NEW e \in Rules \cup {NoEntry}
  PROVE  Rewrites(r, [table EXCEPT ![i] = e], overrides)
<1>1. table \in [Ids -> Rules \cup {NoEntry}]
  BY DEF Orderly, TypeOK
<1>2. [table EXCEPT ![i] = e] \in [Ids -> Rules \cup {NoEntry}]
  BY <1>1
<1>3. \A k \in Ids \ Mine(r) : table[k] = NoEntry => [table EXCEPT ![i] = e][k] = NoEntry
  BY <1>1 DEF Stored, Mine
<1> QED BY <1>2, <1>3, RulesRewritten

\* The plan of a request whose turn it is to write, but for splits.
LEMMA PlannedWrite ==
  ASSUME Orderly, NEW r \in Callers
  PROVE  /\ Writes(r, "create") => plan[r] \in CreatePlans
         /\ Writes(r, "patch") => plan[r] \in PatchPlans
         /\ Writes(r, "sync") => SyncPlan(r, plan[r])
         /\ Writes(r, "except") => /\ plan[r] \in ExceptPlans
                                   /\ plan[r].new.kind = "moved" => plan[r].new.slot \in SlotIds
  BY DEF Orderly, Planned, PlanOf, Writes, CreatePlans, ClonePlans, PatchPlans, SyncPlan, ExceptPlans

\* A new rule.
LEMMA WriteCreateKeeps == ASSUME Orderly, NEW r \in Callers, WriteCreate(r) PROVE Orderly'
<1>1. Writes(r, "create") /\ Commit(r, [table EXCEPT ![r] = plan[r].new], overrides)
  BY DEF WriteCreate
<1>2. plan[r].new \in Rules /\ stage[r] = "vetted" /\ plan[r].op # "clone"
  BY <1>1, PlannedWrite DEF Writes, CreatePlans
<1>3. Rewrites(r, [table EXCEPT ![r] = plan[r].new], overrides)
  BY <1>2, OneRowRewritten DEF Ids
<1> QED BY <1>1, <1>2, <1>3, CommitKeeps

\* A rule patched where it stands.
LEMMA WritePatchKeeps == ASSUME Orderly, NEW r \in Callers, WritePatch(r) PROVE Orderly'
<1>1. Writes(r, "patch") /\ stage[r] = "vetted" /\ plan[r].op # "clone"
  BY DEF WritePatch, Writes
<1>2. plan[r].entry \in Ids /\ plan[r].edit \in Edits /\ plan[r].slot \in SlotIds
  BY <1>1, PlannedWrite DEF PatchPlans
<1>3. CASE Stored(plan[r].entry)
  <2> DEFINE i == plan[r].entry
             e == Patched(table[i], plan[r].edit, plan[r].slot)
  <2>1. table[i] \in Rules
    BY <1>2, <1>3 DEF Orderly, TypeOK, Stored
  <2>2. e \in Rules
    BY <1>2, <2>1, StillRows
  <2>3. Commit(r, [table EXCEPT ![i] = e], overrides)
    BY <1>3 DEF WritePatch
  <2> HIDE DEF e
  <2>4. Rewrites(r, [table EXCEPT ![i] = e], overrides)
    BY <1>2, <1>3, <2>2, OneRowRewritten
  <2> QED BY <1>1, <2>3, <2>4, CommitKeeps
<1>4. CASE ~Stored(plan[r].entry)
  <2>1. Refuse(r) /\ UNCHANGED <<slots, job>>
    BY <1>4 DEF WritePatch
  <2> QED BY <1>1, <2>1, RefusedKeeps DEF Orderly, Planned, Refuse, stored
<1> QED BY <1>3, <1>4

\* The rows after a save: archived, or added.
AfterSave(p) == [i \in Ids |-> IF i \in DOMAIN p.new THEN p.new[i]
                               ELSE IF i \in p.retire /\ Stored(i) THEN Archived(table[i]) ELSE table[i]]

\* A save of the weekly builder: rows archived, and those that were lacking added.
LEMMA WriteSyncKeeps == ASSUME Orderly, NEW r \in Callers, WriteSync(r) PROVE Orderly'
<1>1. PICK p, t : p = plan[r] /\ t = AfterSave(p)
  OBVIOUS
<1>2. Writes(r, "sync") /\ Commit(r, t, overrides) /\ stage[r] = "vetted" /\ p.op # "clone"
  BY <1>1 DEF WriteSync, Writes, AfterSave
<1>3. /\ p.retire \subseteq Ids /\ DOMAIN p.new \subseteq {r} \X Tiles
      /\ \A i \in DOMAIN p.new : p.new[i] \in Rules
  BY <1>1, <1>2, PlannedWrite DEF SyncPlan
<1>4. \A i \in Ids : Stored(i) => table[i] \in Rules /\ Archived(table[i]) \in Rules
  BY StillRows DEF Orderly, TypeOK, Stored
<1>5. t \in [Ids -> Rules \cup {NoEntry}]
  <2>1. ASSUME NEW i \in Ids PROVE t[i] \in Rules \cup {NoEntry}
    BY <1>1, <1>3, <1>4 DEF AfterSave, Stored
  <2> QED BY <1>1, <2>1 DEF AfterSave
<1>6. \A i \in Ids \ Mine(r) : table[i] = NoEntry => t[i] = NoEntry
  BY <1>1, <1>3 DEF AfterSave, Mine, Stored
<1> QED BY <1>1, <1>2, <1>5, <1>6, RulesRewritten, CommitKeeps

\* An exception, under its foreign keys and its unique index.
LEMMA WriteExceptionKeeps == ASSUME Orderly, NEW r \in Callers, WriteException(r) PROVE Orderly'
<1> DEFINE o == plan[r].new
           os == [overrides EXCEPT ![r] = o]
<1>1. Writes(r, "except") /\ stage[r] = "vetted" /\ plan[r].op # "clone"
  BY DEF WriteException, Writes
<1>2. o \in Overrides /\ (o.kind = "moved" => o.slot \in SlotIds)
  BY <1>1, PlannedWrite DEF ExceptPlans
<1>3. CASE Commit(r, table, os) /\ OverrideOn(o.entry, o.date) = {} /\ (o.kind = "moved" => slots[o.slot] # NoWindow)
  <2>1. table \in [Ids -> Rules \cup {NoEntry}] /\ overrides \in [Callers -> Overrides \cup {NoOverride}]
    BY DEF Orderly, TypeOK
  <2>2. os \in [Callers -> Overrides \cup {NoOverride}] /\ os[r] = o /\ \A q \in Callers \ {r} : os[q] = overrides[q]
    BY <1>2, <2>1
  <2>3. \A q \in Callers : overrides[q] # NoOverride => ~(overrides[q].entry = o.entry /\ overrides[q].date = o.date)
    BY <1>3 DEF OverrideOn
  <2> HIDE DEF o, os
  <2>4. \A q \in Callers : os[q] # NoOverride /\ os[q].kind = "moved" =>
           os[q].slot \in SlotIds /\ slots[os[q].slot] # NoWindow
    BY <1>2, <1>3, <2>2 DEF Orderly, SlotsInOrder
  <2>5. \A q, c \in Callers :
           os[q] # NoOverride /\ os[c] # NoOverride /\ os[q].entry = os[c].entry /\ os[q].date = os[c].date => q = c
    BY <2>2, <2>3 DEF Orderly, OnePerDate
  <2>6. Rewrites(r, table, os)
    BY <2>1, <2>2, <2>4, <2>5 DEF Rewrites
  <2> QED BY <1>1, <1>3, <2>6, CommitKeeps
<1>4. CASE Refuse(r) /\ UNCHANGED <<slots, job>>
  BY <1>1, <1>4, RefusedKeeps DEF Orderly, Planned, Refuse, stored
<1> QED BY <1>3, <1>4 DEF WriteException

\* The handlers that write what they are told to one rule.
LEMMA RuleServedKeeps ==
  ASSUME Orderly, NEW r \in Callers, EndSeries(r) \/ Update(r) \/ Archive(r)
  PROVE  Orderly'
<1>1. \E i \in Ids, e \in Rules :
         Stored(i) /\ stage[r] = "new" /\ Commit(r, [table EXCEPT ![i] = e], overrides)
  <2>1. \A i \in Ids : Stored(i) => table[i] \in Rules /\ table[i].slot \in SlotIds
    BY DEF Orderly, TypeOK, Stored, Rules
  <2>2. CASE EndSeries(r)
    <3>1. PICK i \in Ids, d \in Starts :
            /\ Stored(i)
            /\ Serve(r, "end", [table EXCEPT ![i] = IF d <= @.from THEN Archived(@) ELSE [@ EXCEPT !.until = d - 1]],
                     overrides)
      BY <2>2 DEF EndSeries
    <3> DEFINE e == IF d <= table[i].from THEN Archived(table[i]) ELSE [table[i] EXCEPT !.until = d - 1]
    <3>2. e \in Rules
      BY <3>1, <2>1, StillRows
    <3>3. Serve(r, "end", [table EXCEPT ![i] = e], overrides)
      BY <3>1
    <3> QED BY <3>1, <3>2, <3>3 DEF Serve
  <2>3. CASE Update(r)
    <3>1. PICK i \in Ids, x \in {y \in Edits : y.what \in {"room", "until"}} :
            Stored(i) /\ Serve(r, "update", [table EXCEPT ![i] = Patched(@, x, @.slot)], overrides)
      BY <2>3 DEF Update
    <3> DEFINE e == Patched(table[i], x, table[i].slot)
    <3>2. e \in Rules
      BY <3>1, <2>1, StillRows
    <3>3. Serve(r, "update", [table EXCEPT ![i] = e], overrides)
      BY <3>1
    <3> QED BY <3>1, <3>2, <3>3 DEF Serve
  <2>4. CASE Archive(r)
    <3>1. PICK i \in Ids : Stored(i) /\ Serve(r, "archive", [table EXCEPT ![i] = Archived(@)], overrides)
      BY <2>4 DEF Archive
    <3> DEFINE e == Archived(table[i])
    <3>2. e \in Rules
      BY <3>1, <2>1, StillRows
    <3>3. Serve(r, "archive", [table EXCEPT ![i] = e], overrides)
      BY <3>1
    <3> QED BY <3>1, <3>2, <3>3 DEF Serve
  <2> QED BY <2>2, <2>3, <2>4
<1>2. PICK i \in Ids, e \in Rules :
         Stored(i) /\ stage[r] = "new" /\ Commit(r, [table EXCEPT ![i] = e], overrides)
  BY <1>1
<1>3. Rewrites(r, [table EXCEPT ![i] = e], overrides)
  BY <1>2, OneRowRewritten
<1> QED BY <1>2, <1>3, CommitKeeps

\* Removing a rule takes its exceptions; removing an exception takes nothing else.
LEMMA RemovalKeeps ==
  ASSUME Orderly, NEW r \in Callers, Remove(r) \/ RemoveException(r)
  PROVE  Orderly'
<1>1. table \in [Ids -> Rules \cup {NoEntry}] /\ overrides \in [Callers -> Overrides \cup {NoOverride}]
  BY DEF Orderly, TypeOK
<1>2. ASSUME NEW t \in [Ids -> Rules \cup {NoEntry}], NEW o \in [Callers -> Overrides \cup {NoOverride}],
             \A i \in Ids : t[i] = table[i] \/ t[i] = NoEntry,
             \A q \in Callers : o[q] = overrides[q] \/ o[q] = NoOverride
      PROVE  Rewrites(r, t, o)
  BY <1>2 DEF Orderly, SlotsInOrder, OnePerDate, Rewrites, Ids
<1>3. CASE Remove(r)
  <2>1. PICK i \in Ids :
          Serve(r, "remove", [table EXCEPT ![i] = NoEntry],
                [q \in Callers |-> IF overrides[q] # NoOverride /\ overrides[q].entry = i
                                   THEN NoOverride ELSE overrides[q]])
    BY <1>3 DEF Remove
  <2> DEFINE t == [table EXCEPT ![i] = NoEntry]
             o == [q \in Callers |-> IF overrides[q] # NoOverride /\ overrides[q].entry = i
                                     THEN NoOverride ELSE overrides[q]]
  <2>2. /\ t \in [Ids -> Rules \cup {NoEntry}] /\ o \in [Callers -> Overrides \cup {NoOverride}]
        /\ \A k \in Ids : t[k] = table[k] \/ t[k] = NoEntry
        /\ \A q \in Callers : o[q] = overrides[q] \/ o[q] = NoOverride
    BY <1>1
  <2>3. Commit(r, t, o) /\ stage[r] = "new"
    BY <2>1 DEF Serve
  <2> HIDE DEF t, o
  <2>4. Rewrites(r, t, o)
    BY <1>2, <2>2
  <2> QED BY <2>3, <2>4, CommitKeeps
<1>4. CASE RemoveException(r)
  <2>1. PICK c \in Callers : Serve(r, "restore", table, [overrides EXCEPT ![c] = NoOverride])
    BY <1>4 DEF RemoveException
  <2> DEFINE o == [overrides EXCEPT ![c] = NoOverride]
  <2>2. o \in [Callers -> Overrides \cup {NoOverride}] /\ \A q \in Callers : o[q] = overrides[q] \/ o[q] = NoOverride
    BY <1>1
  <2>3. Commit(r, table, o) /\ stage[r] = "new"
    BY <2>1 DEF Serve
  <2> HIDE DEF o
  <2>4. Rewrites(r, table, o)
    BY <1>1, <1>2, <2>2
  <2> QED BY <2>3, <2>4, CommitKeeps
<1> QED BY <1>3, <1>4

\* ---- the settings screens ----

\* Opening hours, rooms, and slots that nobody uses or that change their window.
LEMMA SettingsKeep ==
  ASSUME Orderly, NEW r \in Callers, SetHours(r) \/ EditSlot(r) \/ RemoveSlot(r) \/ RemoveRoom(r)
  PROVE  Orderly'
<1>1. /\ slots \in [SlotIds -> Windows \cup {NoWindow}] /\ hours \in Menus /\ rooms \subseteq Rooms /\ SlotsInOrder
      /\ \A i \in Ids : Stored(i) => table[i].slot \in SlotIds
  BY DEF Orderly, TypeOK, Stored, Rules
<1>2. CASE SetHours(r) \/ RemoveRoom(r)
  <2>1. \E op : Settle(r, op)
    BY <1>2 DEF SetHours, RemoveRoom
  <2>2. slots' = slots /\ table' = table /\ overrides' = overrides /\ hours' \in Menus /\ rooms' \subseteq Rooms
    BY <1>1, <1>2 DEF SetHours, RemoveRoom, Settle
  <2>3. SlotsInOrder'
    BY <1>1, <2>2 DEF SlotsInOrder, Stored
  <2> QED BY <1>1, <2>1, <2>2, <2>3, SettleKeeps
<1>3. CASE EditSlot(r)
  <2>1. PICK k \in SlotIds, w \in Windows :
          /\ slots[k] # NoWindow /\ \A x \in SlotIds : slots[x] # w
          /\ Settle(r, "slot") /\ slots' = [slots EXCEPT ![k] = w] /\ UNCHANGED <<hours, rooms>>
    BY <1>3 DEF EditSlot
  <2>2. table' = table /\ overrides' = overrides
    BY <2>1 DEF Settle
  <2>3. /\ slots' \in [SlotIds -> Windows \cup {NoWindow}] /\ slots'[k] = w /\ w # NoWindow
        /\ \A l \in SlotIds \ {k} : slots'[l] = slots[l]
    BY <1>1, <2>1, WindowsAssumption
  <2>4. SlotsInOrder'
    BY <1>1, <2>1, <2>2, <2>3 DEF SlotsInOrder, Stored
  <2> QED BY <1>1, <2>1, <2>3, <2>4, SettleKeeps
<1>4. CASE RemoveSlot(r)
  <2>1. PICK k \in SlotIds :
          ~Uses(k) /\ Settle(r, "slot") /\ slots' = [slots EXCEPT ![k] = NoWindow] /\ UNCHANGED <<hours, rooms>>
    BY <1>4 DEF RemoveSlot
  <2>2. table' = table /\ overrides' = overrides
    BY <2>1 DEF Settle
  <2>3. /\ slots' \in [SlotIds -> Windows \cup {NoWindow}] /\ slots'[k] = NoWindow
        /\ \A l \in SlotIds \ {k} : slots'[l] = slots[l]
    BY <1>1, <2>1
  <2>4. SlotsInOrder'
    BY <1>1, <2>1, <2>2, <2>3 DEF SlotsInOrder, Stored, Uses
  <2> QED BY <1>1, <2>1, <2>3, <2>4, SettleKeeps
<1> QED BY <1>2, <1>3, <1>4

\* ---- the queue ----

\* Coming, entering and leaving touch no row, and change who is in line only.
LEMMA QueueKeeps ==
  ASSUME Orderly, NEW r \in Callers, Ask(r) \/ Enter(r) \/ Return(r)
  PROVE  Orderly'
<1>1. MutexInv' /\ UNCHANGED <<stored, plan, stale>>
  <2>1. CASE Ask(r)
    BY <2>1, ArriveKeeps, LocksAssumption DEF Ask, Orderly
  <2>2. CASE Enter(r)
    BY <2>2, AdmitKeeps DEF Enter, Orderly, serving
  <2>3. CASE Return(r)
    BY <2>3, LeaveKeeps DEF Return, Orderly, serving
  <2> QED BY <2>1, <2>2, <2>3
<1>2. /\ \A q \in Callers \ {r} : /\ stage'[q] = stage[q] /\ job'[q] = job[q]
                                  /\ turn'[q] = turn[q] /\ key'[q] = key[q]
      /\ stage' \in [Callers -> Stages]
      /\ \/ stage'[r] = stage[r] /\ job'[r] = job[r] /\ key'[r] = key[r]
         \/ /\ stage[r] = "new" /\ stage'[r] = "asked" /\ job'[r] \in LockedJobs /\ key'[r] = LockOf(job'[r])
      /\ turn'[r] = turn[r] \/ turn'[r] = "inside" \/ stage'[r] # "vetted"
  <2>1. /\ stage \in [Callers -> Stages] /\ turn \in [Callers -> Turns] /\ key \in [Callers -> Keys]
    BY DEF Orderly, TypeOK, Stages, MutexInv, MutexTypeOK
  <2>2. CASE Ask(r)
    <3>1. PICK j \in LockedJobs : job' = [job EXCEPT ![r] = j] /\ Arrive(r, LockOf(j))
      BY <2>2 DEF Ask
    <3>2. PICK k \in Keys : k = LockOf(j)
      BY LocksAssumption
    <3>3. Arrive(r, k)
      BY <3>1, <3>2
    <3>4. key'[r] = k /\ \A q \in Callers \ {r} : turn'[q] = turn[q] /\ key'[q] = key[q]
      BY <2>1, <3>3 DEF Arrive
    <3>5. stage[r] = "new" /\ stage' = [stage EXCEPT ![r] = "asked"]
      BY <2>2 DEF Ask
    <3>6. job'[r] = j
      BY <3>1 DEF Orderly, Planned
    <3> QED BY <2>1, <3>1, <3>2, <3>4, <3>5, <3>6 DEF Stages
  <2>3. CASE Enter(r)
    BY <2>1, <2>3 DEF Enter, Admit, serving
  <2>4. CASE Return(r)
    BY <2>1, <2>4 DEF Return, Leave, serving
  <2> QED BY <2>2, <2>3, <2>4
<1>3. /\ stored' = stored /\ plan' = plan /\ stale' = stale /\ DOMAIN job' = Callers
  BY <1>1 DEF Orderly, Planned, Ask, Enter, Return, serving
<1>4. TypeOK'
  <2>1. ahead' \in [Callers -> Callers \cup {NoCaller}] /\ turn' \in [Callers -> Turns]
    BY <1>1 DEF MutexInv, MutexTypeOK
  <2> QED BY <1>2, <1>3, <2>1 DEF Orderly, TypeOK, stored, Stages
<1>5. (SlotsInOrder /\ OnePerDate)'
  BY <1>3 DEF Orderly, SlotsInOrder, OnePerDate, stored, Stored
<1>6. NothingYet'
  BY <1>2, <1>3 DEF Orderly, NothingYet, stored
<1>7. InLine'
  BY <1>2, <1>3 DEF Orderly, InLine
<1>8. \A q \in Callers : stage'[q] \in {"vetted", "written"} => stage'[q] = stage[q] /\ job'[q] = job[q]
  BY <1>2
<1>9. \A q \in Callers : stage'[q] = "written" <=> stage[q] = "written"
  BY <1>2
<1>10. Planned'
  <2>1. \A q \in Callers : PlanOf(q)' <=> PlanOf(q)
    BY <1>3 DEF PlanOf
  <2> QED BY <1>3, <1>8, <2>1 DEF Orderly, Planned
<1>11. StillSo'
  <2>1. OnlyFills
    BY <1>3, StoringNothing DEF OnlyFills, Orderly, stored
  <2>2. ASSUME NEW q \in Callers, stage'[q] = "vetted", q \notin stale' PROVE Fits(q)'
    <3>1. stage[q] = "vetted" /\ q \notin stale /\ job'[q] = job[q] /\ plan'[q] = plan[q]
      BY <1>3, <1>8, <2>2
    <3>2. Fits(q) /\ PlanOf(q) /\ TypeOK /\ SlotsInOrder
      BY <3>1 DEF Orderly, StillSo, Planned
    <3> QED BY <2>1, <3>1, <3>2, FitsStays
  <2> QED BY <2>2 DEF StillSo
<1>12. SecondSeesFirst'
  <2>1. \A q \in Callers : OnlySplit(q)' => OnlySplit(q)
    BY <1>3, <1>9 DEF OnlySplit, Continues
  <2> QED BY <1>3, <1>8, <2>1 DEF Orderly, SecondSeesFirst, stored, Live, Stored
<1>13. SplitOnce'
  BY <1>3, <1>8, <1>9 DEF Orderly, SplitOnce, Continues
<1> QED BY <1>1, <1>4, <1>5, <1>6, <1>7, <1>10, <1>11, <1>12, <1>13 DEF Orderly

-----------------------------------------------------------------------------
\* ---- the four checks ----

\* A decision, when what it rests on is so.
LEMMA DecidedKeeps ==
  ASSUME Orderly, NEW r \in Callers, NEW p, stage[r] \in {"new", "asked"}, Decide(r, p), Fills(slots'),
         DOMAIN job' = Callers, \A q \in Callers \ {r} : job'[q] = job[q],
         (PlanOf(r) /\ Fits(r) /\ ReadsEnd(r))'
  PROVE  Orderly'
<1>1. stage \in [Callers -> Stages] /\ DOMAIN plan = Callers
  BY DEF Orderly, TypeOK, Stages, Planned
<1>2. /\ stage' \in [Callers -> Stages] /\ stage'[r] = "vetted" /\ DOMAIN plan' = Callers
      /\ \A q \in Callers \ {r} : stage'[q] = stage[q] /\ plan'[q] = plan[q]
  BY <1>1 DEF Decide, Stages
<1>3. Vets(r)
  BY <1>2 DEF Vets, OnlyFills, OthersWait, Decide
<1> QED BY <1>3, VetsKeep

\* A refusal may leave a slot behind.
LEMMA RefusalKeeps ==
  ASSUME Orderly, NEW r \in Callers, stage[r] \in {"new", "asked"}, Refuse(r), Fills(slots'),
         DOMAIN job' = Callers, \A q \in Callers \ {r} : job'[q] = job[q]
  PROVE  Orderly'
<1>1. stage \in [Callers -> Stages] /\ DOMAIN plan = Callers
  BY DEF Orderly, TypeOK, Stages, Planned
<1>2. /\ stage' \in [Callers -> Stages] /\ stage'[r] = "refused" /\ plan' = plan
      /\ \A q \in Callers \ {r} : stage'[q] = stage[q]
  BY <1>1 DEF Refuse, Stages
<1>3. Vets(r)
  BY <1>1, <1>2 DEF Vets, OnlyFills, OthersWait, Refuse
<1> QED BY <1>3, VetsKeep

\* A decision is remembered as it was taken.
LEMMA Remembered ==
  ASSUME Orderly, NEW r \in Callers, NEW p, Decide(r, p)
  PROVE  plan'[r] = p /\ UNCHANGED <<mutex, table, overrides>>
  BY DEF Orderly, Planned, Decide

\* Where the clash query finds nothing, the row is free.
LEMMA NoClashes ==
  ASSUME TypeOK, SlotsInOrder, OnlyFills, NEW e, NEW skip, NEW w, w = slots'[e.slot]
  PROVE  /\ RoomClashes(e, w, skip) = {} => RoomFree(e, skip)'
         /\ ProfClashes(e, w, skip) = {} => ProfFree(e, skip)'
<1>1. \A i \in Ids \ skip : Live(i)' /\ Together(table'[i], Meeting(i)', e, w) => i \in Rivals(w, e.from, e.until, skip)
  BY MeetingsStay DEF Together, Rivals, OnlyFills
<1>2. table' = table
  BY DEF OnlyFills
<1> QED BY <1>1, <1>2 DEF RoomFree, ProfFree, RoomClashes, ProfClashes

\* Creating a rule: its slot is stored, its room is free.
LEMMA VetCreateKeeps == ASSUME Orderly, NEW r \in Callers, VetCreate(r) PROVE Orderly'
<1>1. PICK j : j = job[r]
  OBVIOUS
<1>2. stage[r] = "asked" /\ j \in LockedJobs /\ j.op = "create" /\ job' = job /\ DOMAIN job = Callers
  BY <1>1 DEF VetCreate, Reads, Orderly, InLine, Planned
<1>3. j.group \in Groups /\ j.window \in Windows /\ j.room \in RoomOrNone /\ j.prof \in Profs /\ j.from \in Dates
  BY <1>2, CalendarAssumption DEF LockedJobs
<1>4. TypeOK /\ SlotsInOrder /\ slots' = WithSlot(j.window)
  BY <1>1 DEF Orderly, VetCreate
<1>5. Fills(slots') /\ slots'[FindOrCreate(j.window)] = j.window /\ FindOrCreate(j.window) \in SlotIds
  BY <1>3, <1>4, FoundOrCreated
<1>6. PICK e : e = [group |-> j.group, slot |-> FindOrCreate(j.window), room |-> j.room, prof |-> j.prof,
                    from |-> j.from, until |-> Forever, live |-> TRUE]
  OBVIOUS
<1>7. e \in Rules
  <2>1. Forever \in -1..Forever
    BY CalendarAssumption DEF Forever
  <2> QED BY <1>3, <1>5, <1>6, <2>1 DEF Rules
<1>8. CASE Decide(r, [op |-> "create", new |-> e]) /\ RoomClashes(e, j.window, {}) = {}
  <2>1. plan'[r] = [op |-> "create", new |-> e] /\ OnlyFills
    BY <1>5, <1>8, Remembered DEF OnlyFills
  <2>2. slots'[e.slot] = j.window /\ j.window # NoWindow
    BY <1>3, <1>5, <1>6, WindowsAssumption
  <2>3. RoomFree(e, {})'
    BY <1>4, <1>8, <2>1, <2>2, NoClashes
  <2>4. CreateFits(r)'
    BY <2>1, <2>2, <2>3 DEF CreateFits
  <2>5. (PlanOf(r) /\ Fits(r) /\ ReadsEnd(r))'
    BY <1>7, <2>1, <2>4 DEF PlanOf, CreatePlans, Fits, ReadsEnd
  <2> QED BY <1>2, <1>5, <1>8, <2>5, DecidedKeeps
<1>9. CASE Refuse(r)
  BY <1>2, <1>5, <1>9, RefusalKeeps
<1> QED BY <1>1, <1>6, <1>8, <1>9 DEF VetCreate

\* What a split works from: the rule as it stands, edited, and its second half.
EditedRow(old, j, k) ==
    [old EXCEPT !.slot = IF j.edit.what = "window" THEN k ELSE @,
                !.room = IF j.edit.what = "room" THEN j.edit.to ELSE @,
                !.prof = IF j.edit.what = "prof" THEN j.edit.to ELSE @]
SecondHalf(e, j) == [e EXCEPT !.from = j.from, !.until = IF j.edit.what = "until" THEN j.edit.to ELSE @]

\* What a split is asked for.
LEMMA SplitAsked ==
  ASSUME NEW j \in LockedJobs, j.op = "split"
  PROVE  j.entry \in Ids /\ j.from \in Dates /\ j.edit \in Edits /\ j.from - 1 \in -1..Horizon
<1>1. j.entry \in Ids /\ j.from \in Starts /\ j.edit \in Edits
  BY DEF LockedJobs
<1>2. \A d \in Starts : d \in Dates /\ d - 1 \in -1..Horizon
  BY CalendarAssumption DEF Dates
<1> QED BY <1>1, <1>2

\* The rows a split works with are rows.
LEMMA SplitRows ==
  ASSUME NEW old \in Rules, NEW j \in LockedJobs, j.op = "split", NEW k \in SlotIds
  PROVE  /\ EditedRow(old, j, k) \in Rules
         /\ EditedRow(old, j, k).slot = IF j.edit.what = "window" THEN k ELSE old.slot
         /\ SecondHalf(EditedRow(old, j, k), j) \in Rules
         /\ SecondHalf(EditedRow(old, j, k), j).slot = EditedRow(old, j, k).slot
         /\ SecondHalf(EditedRow(old, j, k), j).from = j.from
         /\ j.edit.what # "until" => SecondHalf(EditedRow(old, j, k), j).until = old.until
<1>1. j.entry \in Ids /\ j.from \in Dates /\ j.edit \in Edits
  BY SplitAsked
<1>2. /\ j.edit.what = "window" => j.edit.to \in Windows
      /\ j.edit.what = "room" => j.edit.to \in RoomOrNone
      /\ j.edit.what = "prof" => j.edit.to \in Profs
      /\ j.edit.what = "until" => j.edit.to \in -1..Forever
  BY <1>1, EditTypes
<1>3. PICK e : e = EditedRow(old, j, k)
  OBVIOUS
<1>4. e \in Rules /\ e.slot = (IF j.edit.what = "window" THEN k ELSE old.slot) /\ e.until = old.until
  BY <1>2, <1>3 DEF EditedRow, Rules
<1>5. /\ SecondHalf(e, j) \in Rules /\ SecondHalf(e, j).slot = e.slot /\ SecondHalf(e, j).from = j.from
      /\ j.edit.what # "until" => SecondHalf(e, j).until = e.until
  BY <1>1, <1>2, <1>4 DEF SecondHalf, Rules
<1> QED BY <1>3, <1>4, <1>5

\* What a split has found out: its rule is there, and the new window is stored.
SplitReads(r, j, w, k) ==
    LET e == EditedRow(table[j.entry], j, k)
        c == SecondHalf(e, j)
    IN  /\ stage[r] = "asked" /\ turn[r] = "inside" /\ j \in LockedJobs /\ j.op = "split" /\ j = job'[r]
        /\ Live(j.entry) /\ Fills(slots') /\ w = slots'[e.slot] /\ w # NoWindow
        /\ \/ /\ Decide(r, [op |-> "patch", entry |-> j.entry, edit |-> j.edit, slot |-> e.slot])
           \/ /\ Decide(r, [op |-> "clone", entry |-> j.entry, cut |-> j.from - 1, new |-> c])
              /\ CheckRule(c, w, {j.entry}) = {}
           \/ Refuse(r)

\* Splitting a rule reads this, or is refused.
LEMMA SplitHasRead ==
  ASSUME Orderly, NEW r \in Callers, VetSplit(r)
  PROVE  \/ Refuse(r) /\ UNCHANGED <<slots, job>> /\ stage[r] = "asked"
         \/ job' = job /\ \E j, w : \E k \in SlotIds : SplitReads(r, j, w, k)
<1>1. PICK j : j = job[r]
  OBVIOUS
<1>2. /\ stage[r] = "asked" /\ turn[r] = "inside" /\ j \in LockedJobs /\ j.op = "split" /\ job' = job
      /\ TypeOK /\ SlotsInOrder
  BY <1>1 DEF VetSplit, Reads, Orderly, InLine
<1>3. j.entry \in Ids /\ j.edit \in Edits
  BY <1>2 DEF LockedJobs
<1>4. PICK i : i = j.entry
  OBVIOUS
<1>5. PICK w : w = IF j.edit.what = "window" THEN j.edit.to ELSE Meeting(i)
  OBVIOUS
<1>6. CASE ~Live(i) \/ (j.edit.what = "window" /\ ~InHours(w))
  BY <1>1, <1>2, <1>4, <1>5, <1>6 DEF VetSplit
<1>7. CASE Live(i) /\ (j.edit.what = "window" => InHours(w))
  <2>1. table[i] \in Rules /\ Meeting(i) \in Windows /\ table[i].slot \in SlotIds
    BY <1>2, <1>3, <1>4, <1>7 DEF TypeOK, SlotsInOrder, Live, Stored, Meeting, Rules
  <2>2. w \in Windows
    BY <1>3, <1>5, <2>1 DEF Edits
  <2>3. PICK k : k = FindOrCreate(w)
    OBVIOUS
  <2>4. k \in SlotIds
    BY <1>2, <2>2, <2>3, FoundOrCreated
  <2>5. slots' = IF j.edit.what = "window" THEN WithSlot(w) ELSE slots
    BY <1>1, <1>4, <1>5, <1>7 DEF VetSplit
  <2>6. Fills(slots') /\ (j.edit.what = "window" => slots'[k] = w)
    BY <1>2, <2>2, <2>3, <2>5, FoundOrCreated, StoringNothing
  <2>7. PICK e : e = EditedRow(table[i], j, k)
    OBVIOUS
  <2>8. PICK c : c = SecondHalf(e, j)
    OBVIOUS
  <2>9. e.slot = IF j.edit.what = "window" THEN k ELSE table[i].slot
    BY <1>2, <2>1, <2>4, <2>7, SplitRows
  <2>10. w = slots'[e.slot] /\ w # NoWindow
    BY <1>5, <2>2, <2>5, <2>6, <2>9, WindowsAssumption DEF Meeting
  <2>11. LET edited == [table[i] EXCEPT
               !.slot = IF j.edit.what = "window" THEN FindOrCreate(w) ELSE @,
               !.room = IF j.edit.what = "room" THEN j.edit.to ELSE @,
               !.prof = IF j.edit.what = "prof" THEN j.edit.to ELSE @]
             clone == [edited EXCEPT !.from = j.from, !.until = IF j.edit.what = "until" THEN j.edit.to ELSE @]
         IN  \/ Decide(r, [op |-> "patch", entry |-> i, edit |-> j.edit, slot |-> edited.slot])
             \/ /\ Decide(r, [op |-> "clone", entry |-> i, cut |-> j.from - 1, new |-> clone])
                /\ CheckRule(clone, w, {i}) = {}
             \/ Refuse(r)
    BY <1>1, <1>4, <1>5, <1>7 DEF VetSplit
  <2>12. e = [table[i] EXCEPT
            !.slot = IF j.edit.what = "window" THEN FindOrCreate(w) ELSE @,
            !.room = IF j.edit.what = "room" THEN j.edit.to ELSE @,
            !.prof = IF j.edit.what = "prof" THEN j.edit.to ELSE @]
    BY <2>3, <2>7 DEF EditedRow
  <2>13. \/ Decide(r, [op |-> "patch", entry |-> i, edit |-> j.edit, slot |-> e.slot])
         \/ /\ Decide(r, [op |-> "clone", entry |-> i, cut |-> j.from - 1, new |-> c])
            /\ CheckRule(c, w, {i}) = {}
         \/ Refuse(r)
    BY <2>8, <2>11, <2>12 DEF SecondHalf
  <2>14. /\ e = EditedRow(table[j.entry], j, k) /\ Live(j.entry) /\ j = job'[r]
         /\ \/ Decide(r, [op |-> "patch", entry |-> j.entry, edit |-> j.edit, slot |-> e.slot])
            \/ /\ Decide(r, [op |-> "clone", entry |-> j.entry, cut |-> j.from - 1, new |-> c])
               /\ CheckRule(c, w, {j.entry}) = {}
            \/ Refuse(r)
    BY <1>1, <1>2, <1>4, <1>7, <2>7, <2>13
  <2>15. SplitReads(r, j, w, k)
    BY <1>2, <2>6, <2>8, <2>10, <2>14 DEF SplitReads
  <2> QED BY <1>2, <2>4, <2>15
<1> QED BY <1>6, <1>7

\* Splitting a rule: what it decides holds where it stands.
LEMMA VetSplitKeeps == ASSUME Orderly, NEW r \in Callers, VetSplit(r) PROVE Orderly'
<1>1. DOMAIN job = Callers /\ TypeOK /\ SlotsInOrder
  BY DEF Orderly, Planned
<1>2. CASE Refuse(r) /\ UNCHANGED <<slots, job>> /\ stage[r] = "asked"
  BY <1>1, <1>2, StoringNothing, RefusalKeeps
<1>3. ASSUME NEW j, NEW w, NEW k \in SlotIds, SplitReads(r, j, w, k), job' = job PROVE Orderly'
  <2>1. PICK i : i = j.entry
    OBVIOUS
  <2>2. PICK e : e = EditedRow(table[i], j, k)
    OBVIOUS
  <2>3. PICK c : c = SecondHalf(e, j)
    OBVIOUS
  <2>4. /\ stage[r] = "asked" /\ turn[r] = "inside" /\ j \in LockedJobs /\ j.op = "split" /\ j = job'[r]
        /\ Live(i) /\ Fills(slots') /\ w = slots'[e.slot] /\ w # NoWindow
        /\ \/ Decide(r, [op |-> "patch", entry |-> i, edit |-> j.edit, slot |-> e.slot])
           \/ /\ Decide(r, [op |-> "clone", entry |-> i, cut |-> j.from - 1, new |-> c])
              /\ CheckRule(c, w, {i}) = {}
           \/ Refuse(r)
    BY <1>3, <2>1, <2>2, <2>3 DEF SplitReads
  <2>5. i \in Ids /\ j.from \in Dates /\ j.edit \in Edits /\ j.from - 1 \in -1..Horizon
    BY <2>1, <2>4, SplitAsked
  <2>6. table[i] \in Rules /\ i # r
    BY <2>4, <2>5 DEF Orderly, TypeOK, NothingYet, Mine, Live, Stored
  <2>7. /\ e \in Rules /\ c \in Rules /\ c.slot = e.slot /\ c.from = j.from
        /\ j.edit.what # "until" => c.until = table[i].until
    BY <2>2, <2>3, <2>4, <2>6, SplitRows
  <2>8. key[r] = <<i>>
    <3>1. key[r] = LockOf(j)
      BY <1>3, <2>4 DEF Orderly, InLine
    <3> QED BY <2>1, <2>4, <3>1 DEF LockOf
  <2>9. \A q \in Callers \ {r} : job'[q] = job[q]
    BY <1>3
  <2>10. CASE Decide(r, [op |-> "patch", entry |-> i, edit |-> j.edit, slot |-> e.slot])
    <3>1. plan'[r] = [op |-> "patch", entry |-> i, edit |-> j.edit, slot |-> e.slot]
      BY <2>10, Remembered
    <3>2. e.slot \in SlotIds
      BY <2>7 DEF Rules
    <3>3. (PlanOf(r) /\ Fits(r) /\ ReadsEnd(r))'
      BY <2>5, <3>1, <3>2 DEF PlanOf, PatchPlans, Fits, ReadsEnd
    <3> QED BY <1>1, <1>3, <2>4, <2>10, <3>3, DecidedKeeps
  <2>11. CASE /\ Decide(r, [op |-> "clone", entry |-> i, cut |-> j.from - 1, new |-> c])
              /\ CheckRule(c, w, {i}) = {}
    <3>1. PICK p : p = [op |-> "clone", entry |-> i, cut |-> j.from - 1, new |-> c]
      OBVIOUS
    <3>2. Decide(r, p)
      BY <2>11, <3>1
    <3>3. plan'[r] = p /\ OnlyFills /\ UNCHANGED <<mutex, table>>
      BY <2>4, <3>2, Remembered DEF OnlyFills
    <3>4. p.op = "clone" /\ p.entry = i /\ p.cut = j.from - 1 /\ p.new = c /\ p \in ClonePlans
      BY <2>5, <2>7, <3>1 DEF ClonePlans
    <3>5. RoomFree(c, {i})' /\ ProfFree(c, {i})'
      <4>1. RoomClashes(c, w, {i}) = {} /\ ProfClashes(c, w, {i}) = {}
        BY <2>11 DEF CheckRule
      <4>2. w = slots'[c.slot]
        BY <2>4, <2>7
      <4> QED BY <1>1, <3>3, <4>1, <4>2, NoClashes
    <3>6. CloneFits(r)'
      BY <2>4, <2>7, <3>3, <3>4, <3>5 DEF CloneFits
    <3>7. c.from = p.cut + 1
      BY <2>5, <2>7, <3>4 DEF Dates
    <3>8. PlanOf(r)'
      BY <2>6, <3>3, <3>4, <3>7 DEF PlanOf
    <3>9. Fits(r)'
      BY <3>3, <3>4, <3>6 DEF Fits
    <3>10. ReadsEnd(r)'
      BY <2>4, <2>7, <2>8, <3>3, <3>4 DEF ReadsEnd, mutex, Live, Stored
    <3> QED BY <1>1, <1>3, <2>4, <3>2, <3>8, <3>9, <3>10, DecidedKeeps
  <2>12. CASE Refuse(r)
    BY <1>1, <1>3, <2>4, <2>12, RefusalKeeps
  <2> QED BY <2>4, <2>10, <2>11, <2>12
<1> QED BY <1>2, <1>3, SplitHasRead

\* What a save of the weekly builder has found: what the group would lose, and
\* the tiles it lacks, whose slots are stored and whose rooms are free today.
SyncReads(r, j, retire, new) ==
    LET row == RowsFor({t.window : t \in Lacks(j)}) IN
    /\ retire = {i \in LiveOf(j.group) : Identity(i) \notin j.tiles}
    /\ slots' = WithRows(row)
    /\ DOMAIN new = {r} \X Lacks(j)
    /\ \A t \in Lacks(j) :
          LET e == new[<<r, t>>] IN
          /\ e \in Rules /\ e.group = j.group /\ e.from = Today /\ e.until = Forever /\ e.live
          /\ e.room = t.room /\ e.slot = row[t.window]
          /\ RoomClashes([e EXCEPT !.until = Today], t.window, retire) = {}

\* What is submitted.
LEMMA SaveAsked ==
  ASSUME NEW j \in Saves
  PROVE  /\ j.group \in Groups /\ j.tiles \subseteq Tiles
         /\ \A t \in j.tiles : t.window \in Windows /\ t.room \in RoomOrNone
                               /\ t = [window |-> t.window, room |-> t.room]
<1>1. j.group \in Groups /\ j.tiles \subseteq Tiles
  BY DEF Saves
<1> QED BY <1>1, OffersAssumption

\* A save that is not refused has found this.
LEMMA SyncHasRead ==
  ASSUME Orderly, NEW r \in Callers, NEW j \in Saves, VetSync(r, j)
  PROVE  /\ stage[r] = "new" /\ job' = [job EXCEPT ![r] = j] /\ Fills(slots')
         /\ \/ Refuse(r)
            \/ \E retire, new : SyncReads(r, j, retire, new)
                  /\ Decide(r, [op |-> "sync", retire |-> retire, new |-> new])
<1>1. TypeOK /\ SlotsInOrder
  BY DEF Orderly
<1> DEFINE ws == {t.window : t \in Lacks(j)}
           row == RowsFor(ws)
           retire == {i \in LiveOf(j.group) : Identity(i) \notin j.tiles}
           New(t) == [group |-> j.group, slot |-> row[t.window], room |-> t.room,
                      prof |-> Owner[j.group], from |-> Today, until |-> Forever, live |-> TRUE]
           OnToday(t) == [New(t) EXCEPT !.until = Today]
           new == [i \in {r} \X Lacks(j) |-> New(i[2])]
<1>2. /\ stage[r] = "new" /\ job' = [job EXCEPT ![r] = j]
      /\ \/ Refuse(r) /\ UNCHANGED slots
         \/ /\ slots' = WithRows(row)
            /\ \/ Refuse(r)
               \/ /\ Decide(r, [op |-> "sync", retire |-> retire, new |-> new])
                  /\ \A t \in Lacks(j) : RoomClashes(OnToday(t), t.window, retire) = {}
  BY DEF VetSync, Begins, Lacks
<1>3. ws \in SUBSET Windows
  BY SaveAsked DEF Lacks
<1>4. Fills(slots) /\ Fills(WithRows(row)) /\ row \in [ws -> SlotIds]
  BY <1>1, <1>3, StoringNothing, StoringFills, RowsFound
<1>5. ASSUME NEW t \in Lacks(j)
      PROVE  New(t) \in Rules /\ OnToday(t) = [New(t) EXCEPT !.until = Today]
  <2>1. t.window \in ws /\ t.room \in RoomOrNone /\ j.group \in Groups
    BY SaveAsked DEF Lacks
  <2>2. row[t.window] \in SlotIds
    BY <1>4, <2>1
  <2>3. Owner[j.group] \in Profs
    BY <2>1, OffersAssumption
  <2>4. Today \in Dates /\ Forever \in -1..Forever
    BY CalendarAssumption DEF Forever
  <2> QED BY <2>1, <2>2, <2>3, <2>4 DEF Rules
<1>6. \A t \in Lacks(j) : new[<<r, t>>] = New(t)
  OBVIOUS
<1>7. ASSUME slots' = WithRows(row), \A t \in Lacks(j) : RoomClashes(OnToday(t), t.window, retire) = {}
      PROVE  SyncReads(r, j, retire, new)
  <2>1. DOMAIN new = {r} \X Lacks(j)
    OBVIOUS
  <2>2. ASSUME NEW t \in Lacks(j)
        PROVE  LET e == new[<<r, t>>] IN
               /\ e \in Rules /\ e.group = j.group /\ e.from = Today /\ e.until = Forever /\ e.live
               /\ e.room = t.room /\ e.slot = row[t.window]
               /\ RoomClashes([e EXCEPT !.until = Today], t.window, retire) = {}
    <3>1. new[<<r, t>>] = New(t) /\ New(t) \in Rules /\ RoomClashes(OnToday(t), t.window, retire) = {}
      BY <1>5, <1>6, <1>7
    <3>2. /\ New(t).group = j.group /\ New(t).from = Today /\ New(t).until = Forever /\ New(t).live = TRUE
          /\ New(t).room = t.room /\ New(t).slot = row[t.window]
      OBVIOUS
    <3> HIDE DEF new, New, row, retire
    <3> QED BY <3>1, <3>2
  <2> HIDE DEF new
  <2> QED BY <1>7, <2>1, <2>2 DEF SyncReads
<1> HIDE DEF new, row, retire
<1> QED BY <1>2, <1>4, <1>7

\* Saving: what it decides makes the group's sessions the submitted ones.
LEMMA VetSyncKeeps == ASSUME Orderly, NEW r \in Callers, NEW j \in Saves, VetSync(r, j) PROVE Orderly'
<1>1. DOMAIN job = Callers /\ TypeOK /\ SlotsInOrder
  BY DEF Orderly, Planned
<1>2. stage[r] = "new" /\ job' = [job EXCEPT ![r] = j] /\ Fills(slots')
  BY SyncHasRead
<1>3. job'[r] = j /\ DOMAIN job' = Callers /\ \A q \in Callers \ {r} : job'[q] = job[q]
  BY <1>1, <1>2
<1>4. CASE Refuse(r)
  BY <1>2, <1>3, <1>4, RefusalKeeps
<1>5. ASSUME NEW retire, NEW new, SyncReads(r, j, retire, new),
             Decide(r, [op |-> "sync", retire |-> retire, new |-> new])
      PROVE  Orderly'
  <2>1. PICK p : p = [op |-> "sync", retire |-> retire, new |-> new]
    OBVIOUS
  <2>2. Decide(r, p) /\ plan'[r] = p /\ UNCHANGED <<table, overrides>>
    BY <1>5, <2>1, Remembered
  <2>3. OnlyFills
    BY <1>2, <2>2 DEF OnlyFills
  <2>4. /\ LiveOf(j.group)' = LiveOf(j.group)
        /\ \A i \in LiveOf(j.group) : i \in Ids /\ Identity(i)' = Identity(i)
    BY <1>1, <2>3, MeetingsStay DEF LiveOf, OnlyFills
  <2>5. retire = {i \in LiveOf(j.group)' : Identity(i)' \notin j.tiles} /\ Lacks(j)' = Lacks(j)
    BY <1>5, <2>4 DEF SyncReads, Lacks
  <2>6. p.op = "sync" /\ p.retire = retire /\ p.new = new
    BY <2>1
  <2>7. PICK ws, row : ws = {t.window : t \in Lacks(j)} /\ row = RowsFor(ws)
    OBVIOUS
  <2>8. slots' = WithRows(row) /\ DOMAIN new = {r} \X Lacks(j)
    BY <1>5, <2>7 DEF SyncReads
  <2>9. \A w \in ws : slots'[row[w]] = w
    <3>1. ws \in SUBSET Windows
      BY <2>7, SaveAsked DEF Lacks
    <3> QED BY <1>1, <2>7, <2>8, <3>1, StoringFills
  <2>10. ASSUME NEW t \in Lacks(j) PROVE new[<<r, t>>] \in Rules /\ Missing(r, t, new[<<r, t>>])'
    <3>1. PICK e, x : e = new[<<r, t>>] /\ x = [e EXCEPT !.until = Today]
      OBVIOUS
    <3>2. /\ e \in Rules /\ e.group = j.group /\ e.from = Today /\ e.until = Forever /\ e.live
          /\ e.room = t.room /\ e.slot = row[t.window] /\ RoomClashes(x, t.window, retire) = {}
      BY <1>5, <2>7, <3>1 DEF SyncReads
    <3>3. t.window \in ws /\ t.window \in Windows /\ t = [window |-> t.window, room |-> t.room]
      BY <2>7, SaveAsked DEF Lacks
    <3>4. PICK w : w = t.window
      OBVIOUS
    <3>5. slots'[e.slot] = w /\ w # NoWindow /\ x.slot = e.slot
      BY <2>9, <3>1, <3>2, <3>3, <3>4, WindowsAssumption DEF Rules
    <3>6. RoomFree(x, retire)'
      BY <1>1, <2>3, <3>2, <3>4, <3>5, NoClashes
    <3>7. Missing(r, t, e)'
      BY <1>3, <2>2, <2>6, <3>1, <3>2, <3>3, <3>4, <3>5, <3>6 DEF Missing
    <3> QED BY <3>1, <3>2, <3>7
  <2>11. SyncPlan(r, p)
    <3>1. retire \subseteq Ids
      BY <1>5 DEF SyncReads, LiveOf
    <3>2. Lacks(j) \subseteq Tiles
      BY SaveAsked DEF Lacks
    <3>3. \A i \in DOMAIN new : \E t \in Lacks(j) : i = <<r, t>>
      BY <2>8
    <3>4. \A i \in DOMAIN new : new[i] \in Rules
      BY <2>10, <3>3
    <3> QED BY <2>1, <2>6, <2>8, <3>1, <3>2, <3>4 DEF SyncPlan
  <2>12. SyncFits(r)'
    <3>1. plan'[r].new = new /\ plan'[r].retire = retire /\ Lacks(job[r])' = Lacks(j)
      BY <1>3, <2>2, <2>5, <2>6 DEF Lacks
    <3>2. \A t \in Lacks(job[r])' : Missing(r, t, plan[r].new[<<r, t>>])'
      BY <2>2, <2>6, <2>10, <3>1 DEF Missing
    <3> QED BY <1>3, <2>5, <2>8, <3>1, <3>2 DEF SyncFits
  <2>13. (PlanOf(r) /\ Fits(r) /\ ReadsEnd(r))'
    BY <2>2, <2>6, <2>11, <2>12 DEF PlanOf, SyncPlan, Fits, ReadsEnd
  <2> QED BY <1>2, <1>3, <2>2, <2>13, DecidedKeeps
<1> QED BY <1>4, <1>5, SyncHasRead

\* Who is taken at a time that is free for a professor or a room.
LEMMA NotTaken ==
  ASSUME NEW held \in SUBSET Ids, NEW d, NEW w, NEW i \in Ids, ~Taken(held, d, w, i)
  PROVE  \A k \in held \ {i} : ~Sits(k, d, w)
  BY DEF Taken, Sits

\* The shape of an exception that is asked for.
LEMMA ExceptionAsked ==
  ASSUME NEW j \in Exceptions
  PROVE  /\ j.entry \in Ids /\ j.date \in Dates /\ j.how.newDate \in Dates
         /\ j.how.kind \in {"cancelled", "moved", "substitute_prof", "room_change"}
         /\ j.how.room \in RoomOrNone /\ j.how.prof \in Profs \cup {NoProf}
         /\ j.how.kind = "moved" => j.how.window \in Windows
<1>1. j.entry \in Ids /\ j.date \in Starts /\ j.how \in Reassignments \cup Moves
  BY DEF Exceptions
<1>2. Starts \subseteq Dates /\ Today \in Dates
  BY CalendarAssumption
<1>3. CASE j.how \in Moves
  BY <1>1, <1>2, <1>3 DEF Moves, RoomOrNone
<1>4. CASE j.how \in Reassignments
  BY <1>1, <1>2, <1>4 DEF Reassignments, RoomOrNone
<1> QED BY <1>1, <1>3, <1>4

\* What an exception that is not refused has found: its rule, the slot it moves
\* to, and that whoever it names is free then.
ExceptReads(r, o) ==
    /\ o \in Overrides /\ Stored(o.entry) /\ Fills(slots')
    /\ o.kind = "moved" => o.slot \in SlotIds /\ slots'[o.slot] # NoWindow
    /\ o.kind # "cancelled" =>
          LET d == IF o.kind = "moved" THEN o.newDate ELSE o.date
              w == IF o.kind = "moved" THEN slots'[o.slot] ELSE Meeting(o.entry)
          IN  /\ o.prof # NoProf => ~Taken({k \in Ids : Stored(k) /\ table[k].prof = o.prof}, d, w, o.entry)
              /\ o.room # NoRoom => ~Taken({k \in Ids : Stored(k) /\ table[k].room = o.room}, d, w, o.entry)

\* An exception that is vetted is refused, or goes on with what it has read.
LEMMA ExceptionHasRead ==
  ASSUME Orderly, NEW r \in Callers, NEW j \in Exceptions, VetException(r, j)
  PROVE  /\ stage[r] = "new" /\ job' = [job EXCEPT ![r] = j]
         /\ \/ Refuse(r) /\ Fills(slots')
            \/ \E o : ExceptReads(r, o) /\ Decide(r, [op |-> "except", new |-> o])
<1>1. PICK i : i = j.entry
  OBVIOUS
<1>2. PICK h : h = j.how
  OBVIOUS
<1>3. PICK w : w = IF h.kind = "moved" THEN h.window ELSE Meeting(i)
  OBVIOUS
<1>4. PICK d : d = IF h.kind = "moved" THEN h.newDate ELSE j.date
  OBVIOUS
<1>5. TypeOK /\ SlotsInOrder
  BY DEF Orderly
<1>6. /\ i \in Ids /\ j.date \in Dates /\ h.newDate \in Dates
      /\ h.kind \in {"cancelled", "moved", "substitute_prof", "room_change"}
      /\ h.room \in RoomOrNone /\ h.prof \in Profs \cup {NoProf}
      /\ h.kind = "moved" => w \in Windows
  BY <1>1, <1>2, <1>3, ExceptionAsked
<1>7. PICK o : o = [entry |-> i, date |-> j.date, kind |-> h.kind, newDate |-> h.newDate,
                    slot |-> IF h.kind = "moved" THEN FindOrCreate(w) ELSE NoWindow,
                    room |-> h.room, prof |-> h.prof]
  OBVIOUS
<1>8. /\ stage[r] = "new" /\ job' = [job EXCEPT ![r] = j] /\ Stored(i)
      /\ \/ Refuse(r) /\ UNCHANGED slots
         \/ /\ slots' = IF h.kind = "moved" THEN WithSlot(w) ELSE slots
            /\ \/ Refuse(r)
               \/ /\ Decide(r, [op |-> "except", new |-> o])
                  /\ h.kind # "cancelled" =>
                        /\ h.prof # NoProf => ~Taken({k \in Ids : Stored(k) /\ table[k].prof = h.prof}, d, w, i)
                        /\ h.room # NoRoom => ~Taken({k \in Ids : Stored(k) /\ table[k].room = h.room}, d, w, i)
  BY <1>1, <1>2, <1>3, <1>4, <1>7 DEF VetException, Begins
<1>9. Fills(slots) /\ (h.kind = "moved" => /\ Fills(WithSlot(w)) /\ WithSlot(w)[FindOrCreate(w)] = w
                                           /\ FindOrCreate(w) \in SlotIds)
  BY <1>5, <1>6, StoringNothing, FoundOrCreated
<1>10. /\ o.entry = i /\ o.date = j.date /\ o.kind = h.kind /\ o.newDate = h.newDate
       /\ o.room = h.room /\ o.prof = h.prof /\ o.slot = IF h.kind = "moved" THEN FindOrCreate(w) ELSE NoWindow
  BY <1>7
<1>11. o \in Overrides
  BY <1>6, <1>7, <1>9 DEF Overrides
<1>12. CASE slots' = IF h.kind = "moved" THEN WithSlot(w) ELSE slots
  <2>1. Fills(slots') /\ (h.kind = "moved" => o.slot \in SlotIds /\ slots'[o.slot] = w /\ w # NoWindow)
    BY <1>6, <1>9, <1>10, <1>12, WindowsAssumption
  <2>2. w = (IF o.kind = "moved" THEN slots'[o.slot] ELSE Meeting(o.entry))
        /\ d = (IF o.kind = "moved" THEN o.newDate ELSE o.date)
    BY <1>3, <1>4, <1>10, <2>1
  <2>3. CASE /\ Decide(r, [op |-> "except", new |-> o])
             /\ h.kind # "cancelled" =>
                   /\ h.prof # NoProf => ~Taken({k \in Ids : Stored(k) /\ table[k].prof = h.prof}, d, w, i)
                   /\ h.room # NoRoom => ~Taken({k \in Ids : Stored(k) /\ table[k].room = h.room}, d, w, i)
    <3>1. ExceptReads(r, o)
      BY <1>8, <1>10, <1>11, <2>1, <2>2, <2>3 DEF ExceptReads
    <3> QED BY <1>8, <2>3, <3>1
  <2> QED BY <1>8, <1>12, <2>1, <2>3, <1>9
<1> QED BY <1>8, <1>9, <1>12

\* Accepting an exception: whoever it names is free on that day.
LEMMA VetExceptionKeeps ==
  ASSUME Orderly, NEW r \in Callers, NEW j \in Exceptions, VetException(r, j)
  PROVE  Orderly'
<1>1. DOMAIN job = Callers /\ TypeOK /\ SlotsInOrder
  BY DEF Orderly, Planned
<1>2. stage[r] = "new" /\ job' = [job EXCEPT ![r] = j]
  BY ExceptionHasRead
<1>3. DOMAIN job' = Callers /\ \A q \in Callers \ {r} : job'[q] = job[q]
  BY <1>1, <1>2
<1>4. CASE Refuse(r) /\ Fills(slots')
  BY <1>2, <1>3, <1>4, RefusalKeeps
<1>5. ASSUME NEW o, ExceptReads(r, o), Decide(r, [op |-> "except", new |-> o]) PROVE Orderly'
  <2>1. plan'[r] = [op |-> "except", new |-> o] /\ UNCHANGED <<table, overrides>>
    BY <1>5, Remembered
  <2>2. /\ o \in Overrides /\ o.entry \in Ids /\ Stored(o.entry) /\ Fills(slots')
        /\ o.kind = "moved" => o.slot \in SlotIds /\ slots'[o.slot] # NoWindow
    BY <1>5 DEF ExceptReads, Overrides
  <2>3. OnlyFills
    BY <2>1, <2>2 DEF OnlyFills
  <2>4. /\ \A i \in Ids : Stored(i)' = Stored(i)
        /\ Meeting(o.entry)' = Meeting(o.entry)
    BY <1>1, <2>2, <2>3, MeetingsStay
  <2>5. PICK d : d = IF o.kind = "moved" THEN o.newDate ELSE o.date
    OBVIOUS
  <2>6. PICK w : w = IF o.kind = "moved" THEN slots'[o.slot] ELSE Meeting(o.entry)
    OBVIOUS
  <2>7. d = DayOf(o)' /\ w = WindowOf(o)'
    BY <2>4, <2>5, <2>6 DEF DayOf, WindowOf
  <2>8. o.kind # "cancelled" =>
          \A i \in Ids \ {o.entry} : Stored(i) /\ HolderOf(i, o) => ~Sits(i, d, w)
    <3>1. SUFFICES ASSUME o.kind # "cancelled"
                   PROVE  \A i \in Ids \ {o.entry} : Stored(i) /\ HolderOf(i, o) => ~Sits(i, d, w)
      OBVIOUS
    <3> DEFINE byProf == {k \in Ids : Stored(k) /\ table[k].prof = o.prof}
               byRoom == {k \in Ids : Stored(k) /\ table[k].room = o.room}
    <3>2. /\ o.prof # NoProf => ~Taken(byProf, d, w, o.entry)
          /\ o.room # NoRoom => ~Taken(byRoom, d, w, o.entry)
      BY <1>5, <2>5, <2>6, <3>1 DEF ExceptReads
    <3>3. /\ o.prof # NoProf => \A k \in byProf \ {o.entry} : ~Sits(k, d, w)
          /\ o.room # NoRoom => \A k \in byRoom \ {o.entry} : ~Sits(k, d, w)
      <4> HIDE DEF byProf, byRoom
      <4>1. byProf \subseteq Ids /\ byRoom \subseteq Ids
        BY DEF byProf, byRoom
      <4> QED BY <2>2, <3>2, <4>1, NotTaken
    <3> QED BY <3>3 DEF HolderOf
  <2>9. o.kind # "cancelled" =>
          \A i \in Ids \ {o.entry} : (Stored(i) /\ HolderOf(i, o))' => ~Sits(i, d, w)'
    <3>1. \A i \in Ids : HolderOf(i, o)' <=> HolderOf(i, o)
      BY <2>1 DEF HolderOf
    <3>2. \A i \in Ids : Stored(i) => (Sits(i, d, w)' <=> Sits(i, d, w))
      BY <1>1, <2>3, SittingsStay
    <3> QED BY <2>4, <2>8, <3>1, <3>2
  <2>10. PICK p : p = [op |-> "except", new |-> o]
    OBVIOUS
  <2>11. p.op = "except" /\ p.new = o /\ p \in ExceptPlans /\ plan'[r] = p
    BY <2>1, <2>2, <2>10 DEF ExceptPlans
  <2>12. ExceptFits(r)'
    BY <2>2, <2>4, <2>7, <2>9, <2>11 DEF ExceptFits
  <2>13. (PlanOf(r) /\ Fits(r) /\ ReadsEnd(r))'
    BY <2>2, <2>11, <2>12 DEF PlanOf, Fits, ReadsEnd
  <2> QED BY <1>2, <1>3, <1>5, <2>2, <2>13, DecidedKeeps
<1> QED BY <1>4, <1>5, ExceptionHasRead

-----------------------------------------------------------------------------
\* ---- the invariant holds ----

\* The rows stored at first are in order, and nobody has asked for anything.
LEMMA FirstOrderly == Init => Orderly
<1> SUFFICES ASSUME Init PROVE Orderly
  OBVIOUS
<1>1. MutexInv
  BY MutexInitial DEF Init
<1>2. \A r \in Callers : /\ stage[r] = "new" /\ (\A i \in Mine(r) : table[i] = NoEntry)
                         /\ overrides[r] = NoOverride /\ plan[r] = NoPlan /\ turn[r] = "idle"
  BY SeedsAssumption, MineAreMine DEF Init, TableAtFirst, Mine, MutexInit
<1>3. TypeOK
  <2>1. table \in [Ids -> Rules \cup {NoEntry}]
    BY AtFirstAssumption DEF Init, TableAtFirst
  <2>2. ahead \in [Callers -> Callers \cup {NoCaller}] /\ turn \in [Callers -> Turns]
    BY <1>1 DEF MutexInv, MutexTypeOK
  <2>3. slots \in [SlotIds -> Windows \cup {NoWindow}] /\ hours \in Menus
    BY AtFirstAssumption, OffersAssumption DEF Init
  <2>4. overrides \in [Callers -> Overrides \cup {NoOverride}] /\ rooms \subseteq Rooms /\ stale \subseteq Callers
        /\ stage \in [Callers -> {"new", "asked", "vetted", "written", "refused"}]
    BY DEF Init
  <2> QED BY <2>1, <2>2, <2>3, <2>4 DEF TypeOK
<1>4. SlotsInOrder
  <2>1. \A i \in Ids : Stored(i) => i \in Seeds /\ table[i] = RulesAtFirst[i]
    BY DEF Init, TableAtFirst, Stored
  <2> QED BY <1>2, <2>1, AtFirstAssumption DEF Init, SlotsInOrder
<1>5. OnePerDate /\ NothingYet /\ InLine /\ StillSo /\ SecondSeesFirst /\ SplitOnce
  BY <1>2 DEF OnePerDate, NothingYet, InLine, StillSo, SecondSeesFirst, OnlySplit, Continues, SplitOnce
<1>6. Planned
  BY <1>2 DEF Planned, Init
<1> QED BY <1>1, <1>3, <1>4, <1>5, <1>6 DEF Orderly

\* Nothing changes, so nothing is out of order.
LEMMA StutterKeeps == ASSUME Orderly, UNCHANGED vars PROVE Orderly'
<1>1. UNCHANGED mutex /\ table' = table /\ overrides' = overrides /\ slots' = slots /\ hours' = hours
      /\ rooms' = rooms /\ stage' = stage /\ job' = job /\ plan' = plan /\ stale' = stale
  BY DEF vars, stored, serving
<1>2. MutexInv' /\ UNCHANGED <<ahead, turn, key>>
  BY <1>1, MutexStutter DEF Orderly, mutex
<1>3. TypeOK'
  BY <1>1, <1>2 DEF Orderly, TypeOK
<1>4. (SlotsInOrder /\ OnePerDate /\ NothingYet /\ InLine)'
  BY <1>1, <1>2 DEF Orderly, SlotsInOrder, OnePerDate, NothingYet, InLine, Stored
<1>5. Planned'
  BY <1>1 DEF Orderly, Planned, PlanOf
<1>6. StillSo'
  <2>1. OnlyFills /\ TypeOK /\ SlotsInOrder
    BY <1>1, StoringNothing DEF OnlyFills, Orderly
  <2> QED BY <1>1, <2>1, FitsStays DEF Orderly, StillSo, Planned
<1>7. (SecondSeesFirst /\ SplitOnce)'
  BY <1>1 DEF Orderly, SecondSeesFirst, SplitOnce, OnlySplit, Continues, Live, Stored
<1> QED BY <1>2, <1>3, <1>4, <1>5, <1>6, <1>7 DEF Orderly

\* Every step of every request keeps everything in order.
LEMMA StepKeeps == ASSUME Orderly, [Next]_vars PROVE Orderly'
<1>1. CASE UNCHANGED vars
  BY <1>1, StutterKeeps
<1>2. ASSUME NEW r \in Callers, Step(r) PROVE Orderly'
  BY <1>2, QueueKeeps, VetCreateKeeps, VetSplitKeeps, WriteCreateKeeps, WriteCloneKeeps, WritePatchKeeps,
     WriteSyncKeeps, WriteExceptionKeeps DEF Step
<1>3. ASSUME NEW r \in Callers, Start(r) PROVE Orderly'
  BY <1>3, QueueKeeps, VetSyncKeeps, VetExceptionKeeps, RuleServedKeeps, RemovalKeeps, SettingsKeep DEF Start
<1> QED BY <1>1, <1>2, <1>3 DEF Next, Closed

\* The timetable's invariant, in every reachable state.
THEOREM TimetableIsInOrder == Spec => []Orderly
  BY FirstOrderly, StepKeeps, PTL DEF Spec

\* The database holds well-formed rows, whatever order requests come in.
THEOREM TypeCorrect == Spec => []TypeOK
<1>1. Orderly => TypeOK
  BY DEF Orderly
<1> QED BY <1>1, TimetableIsInOrder, PTL

\* A second submission of one split is refused: no two requests continue one rule
\* from one date, unless a third has written in between.
THEOREM SplitsOnce == Spec => []SplitOnce
<1>1. Orderly => SplitOnce
  BY DEF Orderly
<1> QED BY <1>1, TimetableIsInOrder, PTL

-----------------------------------------------------------------------------
\* ---- what a write finds is what was decided on ----

\* A request changes the stage of no other.
LEMMA OwnStage ==
  ASSUME Orderly, NEW r \in Callers, Start(r) \/ Step(r)
  PROVE  \A q \in Callers \ {r} : stage'[q] = stage[q]
<1>1. stage \in [Callers -> Stages]
  BY DEF Orderly, TypeOK, Stages
<1>2. ASSUME \/ \E p : Decide(r, p)
             \/ Refuse(r)
             \/ \E t, o : Commit(r, t, o)
             \/ \E op : Settle(r, op)
      PROVE  \A q \in Callers \ {r} : stage'[q] = stage[q]
  BY <1>1, <1>2 DEF Decide, Refuse, Commit, Settle
<1>3. CASE Ask(r) \/ Enter(r) \/ Return(r)
  BY <1>1, <1>3 DEF Ask, Enter, Return, serving
<1>4. ASSUME VetCreate(r) \/ VetSplit(r) PROVE \A q \in Callers \ {r} : stage'[q] = stage[q]
  BY <1>2, <1>4 DEF VetCreate, VetSplit
<1>5. ASSUME WriteCreate(r) \/ WriteClone(r) \/ WritePatch(r) \/ WriteSync(r) \/ WriteException(r)
      PROVE  \A q \in Callers \ {r} : stage'[q] = stage[q]
  BY <1>2, <1>5 DEF WriteCreate, WriteClone, WritePatch, WriteSync, WriteException
<1>6. ASSUME NEW j, VetSync(r, j) \/ VetException(r, j) PROVE \A q \in Callers \ {r} : stage'[q] = stage[q]
  BY <1>2, <1>6 DEF VetSync, VetException
<1>7. ASSUME EndSeries(r) \/ Update(r) \/ Archive(r) \/ Remove(r) \/ RemoveException(r)
      PROVE  \A q \in Callers \ {r} : stage'[q] = stage[q]
  BY <1>2, <1>7 DEF EndSeries, Update, Archive, Remove, RemoveException, Serve
<1>8. ASSUME SetHours(r) \/ EditSlot(r) \/ RemoveSlot(r) \/ RemoveRoom(r)
      PROVE  \A q \in Callers \ {r} : stage'[q] = stage[q]
  BY <1>2, <1>8 DEF SetHours, EditSlot, RemoveSlot, RemoveRoom
<1> QED BY <1>3, <1>4, <1>5, <1>6, <1>7, <1>8 DEF Start, Step

\* A request that has decided does nothing but write.
LEMMA WritesOnly ==
  ASSUME NEW r \in Callers, stage[r] = "vetted", Start(r) \/ Step(r)
  PROVE  \/ Enter(r)
         \/ WriteCreate(r) \/ WriteClone(r) \/ WritePatch(r) \/ WriteSync(r) \/ WriteException(r)
<1>1. ~Ask(r) /\ ~VetCreate(r) /\ ~VetSplit(r) /\ ~Return(r)
  BY DEF Ask, VetCreate, VetSplit, Reads, Return
<1>2. \A j : ~VetSync(r, j) /\ ~VetException(r, j)
  BY DEF VetSync, VetException, Begins
<1>3. ~EndSeries(r) /\ ~Update(r) /\ ~Archive(r) /\ ~Remove(r) /\ ~RemoveException(r)
  BY DEF EndSeries, Update, Archive, Remove, RemoveException, Serve
<1>4. ~SetHours(r) /\ ~EditSlot(r) /\ ~RemoveSlot(r) /\ ~RemoveRoom(r)
  BY DEF SetHours, EditSlot, RemoveSlot, RemoveRoom, Settle
<1> QED BY <1>1, <1>2, <1>3, <1>4 DEF Start, Step

\* So a decision that gets written is written by the request that took it.
LEMMA WhoWrites ==
  ASSUME Orderly, [Next]_vars, NEW r \in Callers, NEW op, Written(r, op)
  PROVE  /\ op = "create" => WriteCreate(r)
         /\ op = "clone" => WriteClone(r)
         /\ op = "sync" => WriteSync(r)
         /\ op = "except" => WriteException(r)
         /\ Writes(r, op) /\ Fits(r)
<1>1. stage[r] = "vetted" /\ stage'[r] = "written" /\ plan[r].op = op /\ r \notin stale
  BY DEF Written
<1>2. PICK q \in Callers : Start(q) \/ Step(q)
  BY <1>1 DEF Next, Closed, vars, serving
<1>3. q = r
  BY <1>1, <1>2, OwnStage
<1>4. ~Enter(r)
  BY <1>1 DEF Enter, serving
<1>5. WriteCreate(r) \/ WriteClone(r) \/ WritePatch(r) \/ WriteSync(r) \/ WriteException(r)
  BY <1>1, <1>2, <1>3, <1>4, WritesOnly
<1>6. Writes(r, op) /\ Fits(r)
  BY <1>1 DEF Writes, Orderly, StillSo
<1> QED BY <1>1, <1>5, <1>6 DEF WriteCreate, WriteClone, WritePatch, WriteSync, WriteException, Writes

\* What a transaction that did commit has put in place.
LEMMA Committed ==
  ASSUME Orderly, NEW r \in Callers, NEW t, NEW o, Commit(r, t, o), stage'[r] = "written"
  PROVE  table' = t /\ overrides' = o /\ slots' = slots /\ rooms' = rooms /\ job' = job /\ plan' = plan /\ Legal(t)
<1>1. stage \in [Callers -> Stages]
  BY DEF Orderly, TypeOK, Stages
<1> QED BY <1>1 DEF Commit

-----------------------------------------------------------------------------
\* ---- an added rule fits in ----

\* A row that is free of the others shares its room with none of them.
LEMMA FreeIsUnshared ==
  ASSUME NEW r \in Callers, NEW i \in Ids \ {r}, NEW e \in Rules, NEW skip, RoomFree(e, skip), i \notin skip,
         table'[i] = table[i], table'[r] = e, slots' = slots
  PROVE  ~(SameRoom(r, i) /\ Share(r, i))'
  BY DEF RoomFree, Together, SameRoom, Share, Live, Stored, Meeting, Overlap, SameTime

\* A new rule.
LEMMA CreatedFitsIn ==
  ASSUME Orderly, [Next]_vars, NEW r \in Callers, Written(r, "create"), NEW i \in Ids \ {r}
  PROVE  ~(SameRoom(r, i) /\ Share(r, i))'
<1>1. WriteCreate(r) /\ Writes(r, "create") /\ Fits(r) /\ stage'[r] = "written"
  BY WhoWrites DEF Written
<1>2. table' = [table EXCEPT ![r] = plan[r].new] /\ slots' = slots
  BY <1>1, Committed DEF WriteCreate
<1>3. plan[r].new \in Rules /\ RoomFree(plan[r].new, {})
  BY <1>1, PlannedWrite DEF CreatePlans, Fits, CreateFits, Writes
<1>4. table'[i] = table[i] /\ table'[r] = plan[r].new
  BY <1>2 DEF Orderly, TypeOK, Ids
<1> QED BY <1>2, <1>3, <1>4, FreeIsUnshared

\* The second half of a split: the first half has ended, and the rest is free.
LEMMA ClonedFitsIn ==
  ASSUME Orderly, [Next]_vars, NEW r \in Callers, Written(r, "clone"), NEW i \in Ids \ {r}
  PROVE  ~(SameRoom(r, i) /\ Share(r, i))' /\ ~(Share(r, i) /\ table[r].prof = table[i].prof)'
<1>1. WriteClone(r) /\ Writes(r, "clone") /\ Fits(r) /\ stage'[r] = "written"
  BY WhoWrites DEF Written
<1>2. PICK t : Halves(r, t) /\ Commit(r, t, overrides)
  BY <1>1, ClonesHalves
<1>3. table' = t /\ slots' = slots
  BY <1>1, <1>2, Committed
<1>4. PICK e : e = plan[r].new
  OBVIOUS
<1>5. /\ e \in Rules /\ plan[r].cut \in -1..Horizon /\ e.from = plan[r].cut + 1
      /\ RoomFree(e, {plan[r].entry}) /\ ProfFree(e, {plan[r].entry})
  BY <1>1, <1>4, ClonePlanned DEF Fits, CloneFits, Writes
<1>6. CASE i = plan[r].entry
  <2>1. table'[i] = IF Stored(i) THEN [table[i] EXCEPT !.until = plan[r].cut] ELSE table[i]
    BY <1>2, <1>3, <1>6 DEF Halves
  <2>2. Stored(i) => table[i] \in Rules
    BY DEF Orderly, TypeOK, Stored
  <2>3. Live(i)' => table'[i].until = plan[r].cut
    <3>1. CASE Stored(i)
      BY <2>1, <2>2, <3>1 DEF Rules
    <3>2. CASE ~Stored(i)
      BY <2>1, <3>2 DEF Live, Stored
    <3> QED BY <3>1, <3>2
  <2>4. table'[r].from = plan[r].cut + 1
    BY <1>2, <1>3, <1>4, <1>5 DEF Halves
  <2>5. ~Share(r, i)'
    <3>1. plan[r].cut \in Int /\ ~(plan[r].cut + 1 <= plan[r].cut)
      BY <1>5
    <3> QED BY <2>3, <2>4, <3>1 DEF Share
  <2> QED BY <2>5
<1>7. CASE i # plan[r].entry
  <2>1. table'[i] = table[i] /\ table'[r] = e
    BY <1>2, <1>3, <1>4, <1>7 DEF Halves
  <2>2. ~(SameRoom(r, i) /\ Share(r, i))'
    BY <1>3, <1>5, <1>7, <2>1, FreeIsUnshared
  <2>3. ~(Share(r, i) /\ table[r].prof = table[i].prof)'
    <3>1. Share(r, i)' => Live(i) /\ Together(table[i], Meeting(i), e, slots[e.slot])
      BY <1>3, <2>1 DEF Share, Live, Stored, Meeting, Together, Overlap, SameTime
    <3>2. Live(i) /\ Together(table[i], Meeting(i), e, slots[e.slot]) => table[i].prof # e.prof
      BY <1>5, <1>7 DEF ProfFree
    <3> QED BY <2>1, <3>1, <3>2
  <2> QED BY <2>2, <2>3
<1> QED BY <1>6, <1>7

\* What a save leaves behind: rows archived, and those it had to add.
LEMMA SavedRows ==
  ASSUME Orderly, [Next]_vars, NEW r \in Callers, Written(r, "sync")
  PROVE  /\ SyncFits(r) /\ SyncPlan(r, plan[r]) /\ overrides' = overrides /\ slots' = slots /\ job' = job
         /\ \A k \in DOMAIN plan[r].new : k \in Ids /\ table[k] = NoEntry /\ table'[k] = plan[r].new[k]
         /\ \A k \in Ids \ DOMAIN plan[r].new :
               table'[k] = IF k \in plan[r].retire /\ Stored(k) THEN Archived(table[k]) ELSE table[k]
<1>1. WriteSync(r) /\ Writes(r, "sync") /\ Fits(r) /\ stage'[r] = "written" /\ stage[r] = "vetted"
      /\ plan[r].op = "sync"
  BY WhoWrites DEF Written
<1>2. SyncFits(r) /\ SyncPlan(r, plan[r])
  BY <1>1, PlannedWrite DEF Fits
<1>3. PICK p, t : p = plan[r] /\ t = AfterSave(p)
  OBVIOUS
<1>4. Commit(r, t, overrides)
  BY <1>1, <1>3 DEF WriteSync, AfterSave
<1>5. table' = t /\ overrides' = overrides /\ slots' = slots /\ job' = job
  BY <1>1, <1>4, Committed
<1>6. \A k \in DOMAIN p.new : k \in Mine(r)
  BY <1>2, <1>3 DEF SyncPlan, Mine
<1>7. \A k \in DOMAIN p.new : k \in Ids /\ table[k] = NoEntry
  BY <1>1, <1>6, MineAreMine DEF Orderly, NothingYet
<1>8. \A k \in Ids : t[k] = IF k \in DOMAIN p.new THEN p.new[k]
                            ELSE IF k \in p.retire /\ Stored(k) THEN Archived(table[k]) ELSE table[k]
  BY <1>3 DEF AfterSave
<1> QED BY <1>2, <1>3, <1>5, <1>7, <1>8

\* A session added by the weekly builder.
LEMMA SavedFitsIn ==
  ASSUME Orderly, [Next]_vars, NEW r \in Callers, Written(r, "sync"),
         NEW k \in DOMAIN plan[r].new, NEW i \in Ids \ DOMAIN plan[r].new, (SameRoom(k, i) /\ Share(k, i))'
  PROVE  table[i].from > Today
<1>1. /\ SyncFits(r) /\ SyncPlan(r, plan[r]) /\ slots' = slots
      /\ table'[i] = IF i \in plan[r].retire /\ Stored(i) THEN Archived(table[i]) ELSE table[i]
      /\ table'[k] = plan[r].new[k]
  BY SavedRows
<1>2. Live(i)' /\ Stored(i)'
  BY DEF SameRoom, Share, Live, Stored
<1>3. PICK t \in Lacks(job[r]) : k = <<r, t>>
  BY <1>1 DEF SyncFits
<1>4. PICK e : e = plan[r].new[k]
  OBVIOUS
<1>5. e \in Rules /\ Missing(r, t, e)
  BY <1>1, <1>3, <1>4 DEF SyncFits, SyncPlan
<1>6. /\ table'[k] = e /\ e.from = Today /\ e.until = Forever
      /\ RoomFree([e EXCEPT !.until = Today], plan[r].retire)
  BY <1>1, <1>4, <1>5 DEF Missing
<1>7. Stored(i) => table[i] \in Rules
  BY DEF Orderly, TypeOK, Stored
<1>8. i \notin plan[r].retire
  <2>1. i \in plan[r].retire => Stored(i)
    BY <1>1 DEF SyncFits, LiveOf, Live
  <2>2. Stored(i) => ~Archived(table[i]).live
    BY <1>7 DEF Archived, Rules
  <2> QED BY <1>1, <1>2, <2>1, <2>2 DEF Live
<1>9. table'[i] = table[i] /\ Live(i) /\ table[i] \in Rules
  BY <1>1, <1>2, <1>7, <1>8 DEF Live, Stored
<1>10. PICK x : x = [e EXCEPT !.until = Today]
  OBVIOUS
<1>11. x.slot = e.slot /\ x.room = e.room /\ x.from = Today /\ x.until = Today
  BY <1>5, <1>6, <1>10 DEF Rules
<1>12. ~(Together(table[i], Meeting(i), x, slots[x.slot]) /\ x.room # NoRoom /\ table[i].room = x.room)
  BY <1>6, <1>8, <1>9, <1>10 DEF RoomFree
<1>13. e.room # NoRoom /\ table[i].room = e.room /\ Overlap(Meeting(i), slots[e.slot]) /\ Today <= table[i].until
  BY <1>1, <1>6, <1>9 DEF SameRoom, Share, Meeting, Overlap, SameTime
<1>14. ~(table[i].from <= Today)
  BY <1>11, <1>12, <1>13 DEF Together
<1>15. table[i].from \in Int /\ Today \in Int
  BY <1>9, CalendarAssumption DEF Rules, Dates
<1> QED BY <1>14, <1>15

\* What was added, when nobody wrote between a check and its write, shares its room
\* with no other rule: a weekly save's with none that was there before and is in force.
THEOREM AddedRulesFitIn == Spec => AddedRuleFitsIn
<1>1. ASSUME Orderly, [Next]_vars
      PROVE  \A r \in Callers :
                /\ Written(r, "create") \/ Written(r, "clone") =>
                      \A i \in Ids \ {r} :
                         /\ ~(SameRoom(r, i) /\ Share(r, i))'
                         /\ Written(r, "clone") => ~(Share(r, i) /\ table[r].prof = table[i].prof)'
                /\ Written(r, "sync") =>
                      \A new \in DOMAIN plan[r].new, i \in Ids \ DOMAIN plan[r].new :
                         (SameRoom(new, i) /\ Share(new, i))' => table[i].from > Today
  BY <1>1, CreatedFitsIn, ClonedFitsIn, SavedFitsIn
<1>2. Orderly /\ [Next]_vars =>
        [\A r \in Callers :
            /\ Written(r, "create") \/ Written(r, "clone") =>
                  \A i \in Ids \ {r} :
                     /\ ~(SameRoom(r, i) /\ Share(r, i))'
                     /\ Written(r, "clone") => ~(Share(r, i) /\ table[r].prof = table[i].prof)'
            /\ Written(r, "sync") =>
                  \A new \in DOMAIN plan[r].new, i \in Ids \ DOMAIN plan[r].new :
                     (SameRoom(new, i) /\ Share(new, i))' => table[i].from > Today]_vars
  BY <1>1
<1> QED BY <1>2, TimetableIsInOrder, PTL DEF Spec, AddedRuleFitsIn

-----------------------------------------------------------------------------
\* ---- a save leaves what was submitted ----

\* The group's sessions after a save.
LEMMA SavedSessions ==
  ASSUME Orderly, [Next]_vars, NEW r \in Callers, Written(r, "sync")
  PROVE  /\ {Identity(i) : i \in LiveOf(job[r].group)}' = job[r].tiles
         /\ \A i \in LiveOf(job[r].group) : Identity(i) \in job[r].tiles => table'[i] = table[i]
<1>1. PICK j : j = job[r]
  OBVIOUS
<1>2. PICK p : p = plan[r]
  OBVIOUS
<1>3. /\ SyncFits(r) /\ SyncPlan(r, p) /\ slots' = slots /\ job' = job
      /\ \A k \in DOMAIN p.new : k \in Ids /\ table[k] = NoEntry /\ table'[k] = p.new[k]
      /\ \A k \in Ids \ DOMAIN p.new :
            table'[k] = IF k \in p.retire /\ Stored(k) THEN Archived(table[k]) ELSE table[k]
  BY <1>2, SavedRows
<1>4. /\ p.retire = {i \in LiveOf(j.group) : Identity(i) \notin j.tiles}
      /\ DOMAIN p.new = {r} \X Lacks(j) /\ \A t \in Lacks(j) : Missing(r, t, p.new[<<r, t>>])
  BY <1>1, <1>2, <1>3 DEF SyncFits
<1>5. \A i \in LiveOf(j.group) : i \in Ids \ DOMAIN p.new
  BY <1>3 DEF LiveOf, Live, Stored
<1>6. \A i \in LiveOf(j.group) : Identity(i) \in j.tiles => table'[i] = table[i]
  BY <1>3, <1>4, <1>5
<1>7. \A k \in Ids \ DOMAIN p.new : k \in LiveOf(j.group)' <=> k \in LiveOf(j.group) /\ Identity(k) \in j.tiles
  <2> TAKE k \in Ids \ DOMAIN p.new
  <2>1. CASE k \in p.retire
    <3>1. Stored(k) /\ k \in LiveOf(j.group) /\ Identity(k) \notin j.tiles
      BY <1>4, <2>1 DEF LiveOf, Live
    <3>2. table[k] \in Rules
      BY <3>1 DEF Orderly, TypeOK, Stored
    <3>3. ~table'[k].live
      BY <1>3, <2>1, <3>1, <3>2 DEF Archived, Rules
    <3> QED BY <3>1, <3>3 DEF LiveOf, Live
  <2>2. CASE k \notin p.retire
    <3>1. table'[k] = table[k]
      BY <1>3, <2>2
    <3>2. k \in LiveOf(j.group)' <=> k \in LiveOf(j.group)
      BY <3>1 DEF LiveOf, Live, Stored
    <3> QED BY <1>4, <2>2, <3>2
  <2> QED BY <2>1, <2>2
<1>8. \A k \in Ids \ DOMAIN p.new : k \in LiveOf(j.group)' => Identity(k)' = Identity(k)
  BY <1>3, <1>6, <1>7 DEF Identity, Meeting
\* The rows it added are the sessions that were lacking.
<1>9. ASSUME NEW t \in Lacks(j) PROVE <<r, t>> \in LiveOf(j.group)' /\ Identity(<<r, t>>)' = t
  <2>1. PICK e : e = p.new[<<r, t>>]
    OBVIOUS
  <2>2. PICK k : k = <<r, t>>
    OBVIOUS
  <2>3. k \in DOMAIN p.new /\ k \in Ids /\ table'[k] = e /\ e \in Rules /\ Missing(r, t, e)
    BY <1>3, <1>4, <2>1, <2>2 DEF SyncPlan
  <2>4. e # NoEntry
    BY <2>3, AbsentAssumption
  <2>5. e.group = j.group /\ e.live /\ t = [window |-> slots[e.slot], room |-> e.room]
    BY <1>1, <2>3 DEF Missing
  <2>6. k \in LiveOf(j.group)'
    BY <2>3, <2>4, <2>5 DEF LiveOf, Live, Stored
  <2>7. Identity(k)' = t
    BY <1>3, <2>3, <2>5 DEF Identity, Meeting
  <2> QED BY <2>2, <2>6, <2>7
<1>10. LiveOf(j.group)' \subseteq Ids
  BY DEF LiveOf
<1>11. {Identity(i)' : i \in LiveOf(j.group)'} = j.tiles
  <2>1. ASSUME NEW i \in LiveOf(j.group)' PROVE Identity(i)' \in j.tiles
    <3>1. CASE i \in DOMAIN p.new
      <4>1. PICK t \in Lacks(j) : i = <<r, t>>
        BY <1>4, <3>1
      <4> QED BY <1>9, <4>1 DEF Lacks
    <3>2. CASE i \notin DOMAIN p.new
      BY <1>7, <1>8, <1>10, <2>1, <3>2
    <3> QED BY <3>1, <3>2
  <2>2. ASSUME NEW t \in j.tiles PROVE \E i \in LiveOf(j.group)' : Identity(i)' = t
    <3>1. CASE t \in Lacks(j)
      BY <1>9, <3>1
    <3>2. CASE t \notin Lacks(j)
      <4>1. PICK i \in LiveOf(j.group) : Identity(i) = t
        BY <2>2, <3>2 DEF Lacks
      <4> QED BY <1>5, <1>7, <1>8, <2>2, <4>1
    <3> QED BY <3>1, <3>2
  <2> QED BY <2>1, <2>2
<1>12. j = job'[r]
  BY <1>1, <1>3
<1> QED BY <1>1, <1>6, <1>11, <1>12

\* A save makes the group's sessions match the submitted set, and leaves those
\* already there, and every exception, alone.
THEOREM SavesMatchSubmissions == Spec => SaveMatchesSubmission
<1>1. ASSUME Orderly, [Next]_vars
      PROVE  \A r \in Callers :
                Written(r, "sync") =>
                    /\ {Identity(i) : i \in LiveOf(job[r].group)}' = job[r].tiles
                    /\ \A i \in LiveOf(job[r].group) :
                          Identity(i) \in job[r].tiles => table'[i] = table[i]
                    /\ overrides' = overrides
  BY <1>1, SavedSessions, SavedRows
<1>2. Orderly /\ [Next]_vars =>
        [\A r \in Callers :
            Written(r, "sync") =>
                /\ {Identity(i) : i \in LiveOf(job[r].group)}' = job[r].tiles
                /\ \A i \in LiveOf(job[r].group) :
                      Identity(i) \in job[r].tiles => table'[i] = table[i]
                /\ overrides' = overrides]_vars
  BY <1>1
<1> QED BY <1>2, TimetableIsInOrder, PTL DEF Spec, SaveMatchesSubmission

-----------------------------------------------------------------------------
\* ---- dates and weekdays ----

\* The remainder is the only one in its range.
LEMMA RemainderOf ==
  ASSUME NEW W \in Nat \ {0}, NEW q \in Int, NEW x \in 0..(W - 1)
  PROVE  (W * q + x) % W = x
<1> DEFINE y == W * q + x
           k == y \div W
           m == y % W
<1>1. y \in Int /\ k \in Int /\ m \in 0..(W - 1) /\ y = W * k + m
  OBVIOUS
<1> HIDE DEF k, m
<1>2. W * (q - k) = m - x
  BY <1>1
<1>3. CASE q - k >= 1
  <2>1. W * (q - k) >= W
    BY <1>1, <1>3
  <2> QED BY <1>1, <1>2, <2>1
<1>4. CASE q - k <= -1
  <2>1. W * (q - k) <= -W
    BY <1>1, <1>4
  <2> QED BY <1>1, <1>2, <2>1
<1>5. CASE q = k
  BY <1>1, <1>5 DEF m
<1> QED BY <1>1, <1>3, <1>4, <1>5 DEF m

\* The first date on or after a given one that falls on a weekday.
LEMMA FirstOnFalls ==
  ASSUME NEW a \in Int, NEW iso \in 0..(Week - 1)
  PROVE  /\ FirstOn(a, iso) \in Int /\ FirstOn(a, iso) >= a
         /\ \E q \in Int : FirstOn(a, iso) = Week * q + iso
<1> DEFINE k == a \div Week
           m == a % Week
           n == (iso - m + Week) % Week
<1>1. Week \in Nat \ {0} /\ k \in Int /\ m \in 0..(Week - 1) /\ a = Week * k + m
  BY CalendarAssumption
<1>2. FirstOn(a, iso) = a + n
  BY DEF FirstOn, JsDay
<1> HIDE DEF k, m
<1>3. CASE iso >= m
  <2>1. iso - m \in 0..(Week - 1) /\ iso - m + Week = Week * 1 + (iso - m)
    BY <1>1, <1>3
  <2>2. (Week * 1 + (iso - m)) % Week = iso - m
    BY <1>1, <2>1, RemainderOf
  <2>3. n = iso - m
    BY <2>1, <2>2
  <2> HIDE DEF n
  <2>4. a + n = Week * k + iso /\ a + n >= a /\ a + n \in Int
    BY <1>1, <1>3, <2>1, <2>3
  <2> QED BY <1>1, <1>2, <2>4
<1>4. CASE iso < m
  <2>1. iso - m + Week \in 0..(Week - 1) /\ iso - m + Week = Week * 0 + (iso - m + Week)
    BY <1>1, <1>4
  <2>2. (Week * 0 + (iso - m + Week)) % Week = iso - m + Week
    BY <1>1, <2>1, RemainderOf
  <2>3. n = iso - m + Week
    BY <2>1, <2>2
  <2> HIDE DEF n
  <2>4. a + n = Week * (k + 1) + iso /\ a + n >= a /\ a + n \in Int
    BY <1>1, <1>4, <2>1, <2>3
  <2>5. k + 1 \in Int
    BY <1>1
  <2> QED BY <1>2, <2>4, <2>5
<1> QED BY <1>1, <1>3, <1>4

\* The two numberings of the weekdays are inverse to each other.
LEMMA WeekdaysMatch ==
  ASSUME NEW day \in 0..(Week - 1), NEW d \in Int, JsDay(d) = IsoDay(day)
  PROVE  SchoolDay(d) = day
<1> USE CalendarAssumption
<1>1. CASE day = 0
  <2>1. (Week * 0 + (Week - 1)) % Week = Week - 1
    BY RemainderOf
  <2>2. IsoDay(day) = Week - 1
    BY <1>1, <2>1 DEF IsoDay
  <2>3. (Week * 1 + 0) % Week = 0
    BY RemainderOf
  <2> QED BY <1>1, <2>2, <2>3 DEF SchoolDay
<1>2. CASE day # 0
  <2>1. day - 1 \in 0..(Week - 1) /\ day + Week - 1 = Week * 1 + (day - 1) /\ day = Week * 0 + day
    BY <1>2
  <2>2. (Week * 1 + (day - 1)) % Week = day - 1
    BY <2>1, RemainderOf
  <2>3. IsoDay(day) = day - 1
    BY <2>1, <2>2 DEF IsoDay
  <2>4. (Week * 0 + day) % Week = day
    BY RemainderOf
  <2>5. JsDay(d) + 1 = day
    BY <2>1, <2>3
  <2> QED BY <2>1, <2>4, <2>5 DEF SchoolDay
<1> QED BY <1>1, <1>2

\* IsoDay numbers the same days.
LEMMA IsoDayInWeek == ASSUME NEW day \in 0..(Week - 1) PROVE IsoDay(day) \in 0..(Week - 1)
  BY CalendarAssumption DEF IsoDay

\* The calendar puts a rule on days it meets on and no others.
LEMMA StridesMeet ==
  ASSUME TypeOK, SlotsInOrder, NEW i \in InRange(0, Horizon), NEW d \in Strides(i, 0, Horizon)
  PROVE  d \in Int /\ MeetsOn(i, d)
<1>1. i \in Ids /\ Live(i) /\ Stored(i)
  BY DEF InRange, Live
<1>2. table[i] \in Rules /\ Meeting(i) \in Windows
  BY <1>1 DEF TypeOK, SlotsInOrder, Stored, Meeting, Rules
<1>3. PICK from : from = table[i].from
  OBVIOUS
<1>4. PICK until : until = table[i].until
  OBVIOUS
<1>5. PICK day : day = Meeting(i).day
  OBVIOUS
<1>6. from \in Int /\ from >= 0 /\ until \in Int /\ day \in 0..(Week - 1)
  BY <1>2, <1>3, <1>4, <1>5, CalendarAssumption, WindowsAssumption DEF Rules, Dates, Forever
<1>7. PICK iso : iso = IsoDay(day)
  OBVIOUS
<1>8. iso \in 0..(Week - 1)
  BY <1>6, <1>7, IsoDayInWeek
<1>9. PICK first : first = FirstOn(from, iso)
  OBVIOUS
<1>10. Later(from, 0) = from
  BY <1>6 DEF Later
<1>11. PICK last : last = Sooner(until, Horizon)
  OBVIOUS
<1>12. last \in Int /\ last <= until
  BY <1>6, <1>11, CalendarAssumption DEF Sooner
<1>13. Strides(i, 0, Horizon) =
          {first + Week * n : n \in {m \in 0..(Horizon \div Week) : first + Week * m <= last}}
  BY <1>3, <1>4, <1>5, <1>7, <1>9, <1>10, <1>11 DEF Strides
<1>14. PICK n \in 0..(Horizon \div Week) : d = first + Week * n /\ first + Week * n <= last
  BY <1>13
<1>15. first \in Int /\ first >= from
  BY <1>6, <1>8, <1>9, FirstOnFalls
<1>16. PICK q \in Int : first = Week * q + iso
  BY <1>6, <1>8, <1>9, FirstOnFalls
<1>17. n \in Nat /\ Week \in Nat \ {0} /\ Week * n \in Nat
  BY CalendarAssumption
<1>18. d \in Int /\ from <= d /\ d <= until
  BY <1>6, <1>12, <1>14, <1>15, <1>17
<1>19. d = Week * (q + n) + iso /\ q + n \in Int
  BY <1>8, <1>14, <1>16, <1>17
<1>20. JsDay(d) = iso
  BY <1>8, <1>17, <1>19, RemainderOf DEF JsDay
<1>21. SchoolDay(d) = day
  BY <1>6, <1>7, <1>18, <1>20, WeekdaysMatch
<1> QED BY <1>1, <1>3, <1>4, <1>5, <1>18, <1>21 DEF MeetsOn, InRange

-----------------------------------------------------------------------------
\* ---- an accepted exception takes nobody's time ----

\* A session, its exception applied: the only one there is for that date.
LEMMA SessionIs ==
  ASSUME NEW i, NEW d
  PROVE  /\ Session(i, d)'.entry = i
         /\ OverrideOn(i, d)' = {} => Session(i, d)'.date = d /\ Session(i, d)'.window = Meeting(i)'
         /\ \A q : OverrideOn(i, d)' = {q} =>
               /\ (Session(i, d)'.held <=> overrides'[q].kind # "cancelled")
               /\ Session(i, d)'.date = IF overrides'[q].kind = "moved" THEN overrides'[q].newDate ELSE d
               /\ Session(i, d)'.window = IF overrides'[q].kind = "moved" THEN slots'[overrides'[q].slot] ELSE Meeting(i)'
<1>1. \A q : OverrideOn(i, d)' = {q} => OverrideOn(i, d)' # {} /\ (CHOOSE x \in OverrideOn(i, d)' : TRUE) = q
  OBVIOUS
<1>2. CASE OverrideOn(i, d)' = {}
  BY <1>2 DEF Session
<1>3. ASSUME NEW q, OverrideOn(i, d)' = {q}
      PROVE  /\ Session(i, d)'.entry = i
             /\ (Session(i, d)'.held <=> overrides'[q].kind # "cancelled")
             /\ Session(i, d)'.date = IF overrides'[q].kind = "moved" THEN overrides'[q].newDate ELSE d
             /\ Session(i, d)'.window = IF overrides'[q].kind = "moved" THEN slots'[overrides'[q].slot] ELSE Meeting(i)'
  BY <1>1, <1>3 DEF Session
<1>4. ASSUME OverrideOn(i, d)' # {} PROVE Session(i, d)'.entry = i
  BY <1>4 DEF Session
<1> QED BY <1>2, <1>3, <1>4

\* What an accepted exception leaves: its row, and every other as it was.
LEMMA ExceptedRows ==
  ASSUME Orderly, [Next]_vars, NEW r \in Callers, Written(r, "except")
  PROVE  /\ ExceptFits(r) /\ plan[r].new \in Overrides
         /\ table' = table /\ slots' = slots
         /\ overrides[r] = NoOverride /\ overrides'[r] = plan[r].new
         /\ \A q \in Callers \ {r} : overrides'[q] = overrides[q]
         /\ OverrideOn(plan[r].new.entry, plan[r].new.date) = {}
<1>1. WriteException(r) /\ Writes(r, "except") /\ Fits(r) /\ stage'[r] = "written" /\ stage[r] = "vetted"
      /\ plan[r].op = "except"
  BY WhoWrites DEF Written
<1>2. ExceptFits(r) /\ overrides[r] = NoOverride /\ plan[r].new \in Overrides
  BY <1>1, PlannedWrite DEF Fits, Orderly, NothingYet, ExceptPlans
<1>3. stage \in [Callers -> Stages] /\ overrides \in [Callers -> Overrides \cup {NoOverride}]
  BY DEF Orderly, TypeOK, Stages
<1>4. ~Refuse(r)
  BY <1>1, <1>3 DEF Refuse
<1>5. /\ OverrideOn(plan[r].new.entry, plan[r].new.date) = {}
      /\ Commit(r, table, [overrides EXCEPT ![r] = plan[r].new])
  BY <1>1, <1>4 DEF WriteException
<1>6. table' = table /\ overrides' = [overrides EXCEPT ![r] = plan[r].new] /\ slots' = slots
  BY <1>1, <1>5, Committed
<1> QED BY <1>2, <1>3, <1>5, <1>6

\* A session of a rule, at the time of another, is one that the check looks at.
LEMMA SessionSits ==
  ASSUME Orderly, NEW i \in Ids, NEW d \in Int, MeetsOn(i, d), NEW w, NEW day,
         NEW s, s.held, s.date = day, SameTime(s.window, w),
         \/ OverrideOn(i, d) = {} /\ s.date = d /\ s.window = Meeting(i)
         \/ \E q \in Callers :
               /\ OverrideOn(i, d) = {q} /\ (s.held <=> overrides[q].kind # "cancelled")
               /\ s.date = IF overrides[q].kind = "moved" THEN overrides[q].newDate ELSE d
               /\ s.window = IF overrides[q].kind = "moved" THEN slots[overrides[q].slot] ELSE Meeting(i)
  PROVE  Sits(i, day, w)
<1>1. CASE OverrideOn(i, d) = {} /\ s.date = d /\ s.window = Meeting(i)
  BY <1>1 DEF Sits, FreedOn
<1>2. ASSUME NEW q \in Callers,
             OverrideOn(i, d) = {q}, s.held <=> overrides[q].kind # "cancelled",
             s.date = IF overrides[q].kind = "moved" THEN overrides[q].newDate ELSE d,
             s.window = IF overrides[q].kind = "moved" THEN slots[overrides[q].slot] ELSE Meeting(i)
      PROVE  Sits(i, day, w)
  <2>1. overrides[q] # NoOverride /\ overrides[q].entry = i
    BY <1>2 DEF OverrideOn
  <2>2. CASE overrides[q].kind = "moved"
    BY <1>2, <2>1, <2>2 DEF Sits, MovedOnto
  <2>3. CASE overrides[q].kind # "moved"
    <3>1. ~FreedOn(i, d)
      BY <1>2, <2>3 DEF FreedOn
    <3> QED BY <1>2, <2>3, <3>1 DEF Sits
  <2> QED BY <2>2, <2>3
<1> QED BY <1>1, <1>2

\* Whoever an accepted exception names holds no other session at that time.
LEMMA ReassignedIsFree ==
  ASSUME Orderly, [Next]_vars, NEW r \in Callers, Written(r, "except"), NEW o, o = plan[r].new,
         o.kind # "cancelled", NEW s, s = Session(o.entry, o.date)',
         NEW t \in Calendar(0, Horizon)', t.entry # o.entry, t.held, t.date = s.date,
         SameTime(t.window, s.window)
  PROVE  ~HolderOf(t.entry, o)
<1>1. /\ ExceptFits(r) /\ o \in Overrides
      /\ table' = table /\ slots' = slots
      /\ overrides[r] = NoOverride /\ overrides'[r] = o
      /\ \A q \in Callers \ {r} : overrides'[q] = overrides[q]
      /\ OverrideOn(o.entry, o.date) = {}
  BY ExceptedRows
<1>2. OverrideOn(o.entry, o.date)' = {r}
  <2>1. o # NoOverride
    BY <1>1, AbsentAssumption
  <2>2. \A q \in Callers \ {r} : q \notin OverrideOn(o.entry, o.date)'
    BY <1>1 DEF OverrideOn
  <2>3. r \in OverrideOn(o.entry, o.date)'
    BY <1>1, <2>1 DEF OverrideOn
  <2> QED BY <2>2, <2>3 DEF OverrideOn
<1>3. /\ s.date = IF o.kind = "moved" THEN o.newDate ELSE o.date
      /\ s.window = IF o.kind = "moved" THEN slots[o.slot] ELSE Meeting(o.entry)
  <2>1. \A i : Meeting(i)' = Meeting(i)
    BY <1>1 DEF Meeting
  <2> QED BY <1>1, <1>2, <2>1, SessionIs
<1>4. s.date = DayOf(o) /\ s.window = WindowOf(o)
  BY <1>3 DEF DayOf, WindowOf
<1>5. PICK i \in InRange(0, Horizon) : \E d \in Strides(i, 0, Horizon) : t = Session(i, d)'
  <2>1. Calendar(0, Horizon)' = {Session(x[1], x[2])' : x \in Sittings(0, Horizon)}
    BY <1>1 DEF Calendar, Sittings, InRange, Strides, Live, Stored, Meeting
  <2>2. PICK x \in Sittings(0, Horizon) : t = Session(x[1], x[2])'
    BY <2>1
  <2>3. PICK k \in InRange(0, Horizon) : x \in {<<k, n>> : n \in Strides(k, 0, Horizon)}
    BY DEF Sittings
  <2>4. PICK n \in Strides(k, 0, Horizon) : x = <<k, n>>
    BY <2>3
  <2> QED BY <2>2, <2>4
<1>6. PICK d \in Strides(i, 0, Horizon) : t = Session(i, d)'
  BY <1>5
<1>7. d \in Int /\ MeetsOn(i, d) /\ i \in Ids /\ Stored(i)
  BY StridesMeet DEF Orderly, InRange, Live
<1>8. t.entry = i /\ i # o.entry
  BY <1>6, SessionIs
<1>9. OverrideOn(i, d)' = OverrideOn(i, d) /\ r \notin OverrideOn(i, d)
  BY <1>1, <1>8 DEF OverrideOn
<1>10. OverrideOn(i, d) = {} \/ \E q \in Callers \ {r} : OverrideOn(i, d) = {q}
  <2>1. \A q, c \in OverrideOn(i, d) : q = c
    BY DEF OverrideOn, Orderly, OnePerDate
  <2> QED BY <1>9, <2>1 DEF OverrideOn
<1>11. Meeting(i)' = Meeting(i)
  BY <1>1 DEF Meeting
<1>12. \/ OverrideOn(i, d) = {} /\ t.date = d /\ t.window = Meeting(i)
       \/ \E q \in Callers :
             /\ OverrideOn(i, d) = {q} /\ (t.held <=> overrides[q].kind # "cancelled")
             /\ t.date = IF overrides[q].kind = "moved" THEN overrides[q].newDate ELSE d
             /\ t.window = IF overrides[q].kind = "moved" THEN slots[overrides[q].slot] ELSE Meeting(i)
  <2>1. CASE OverrideOn(i, d) = {}
    BY <1>6, <1>9, <1>11, <2>1, SessionIs
  <2>2. ASSUME NEW q \in Callers \ {r}, OverrideOn(i, d) = {q}
        PROVE  /\ (t.held <=> overrides[q].kind # "cancelled")
               /\ t.date = IF overrides[q].kind = "moved" THEN overrides[q].newDate ELSE d
               /\ t.window = IF overrides[q].kind = "moved" THEN slots[overrides[q].slot] ELSE Meeting(i)
    BY <1>1, <1>6, <1>9, <1>11, <2>2, SessionIs
  <2> QED BY <1>10, <2>1, <2>2
<1>13. Sits(i, DayOf(o), WindowOf(o))
  <2>1. t.date = DayOf(o) /\ SameTime(t.window, WindowOf(o))
    BY <1>4
  <2> QED BY <1>7, <1>12, <2>1, SessionSits
<1>14. Stored(i) /\ HolderOf(i, o) => ~Sits(i, DayOf(o), WindowOf(o))
  BY <1>1, <1>7, <1>8 DEF ExceptFits
<1> QED BY <1>7, <1>8, <1>13, <1>14

\* "The target professor/classroom must be free on the target date".
THEOREM ReassignmentsAreFree == Spec => ReassignedAreFree
<1>1. ASSUME Orderly, [Next]_vars
      PROVE  \A r \in Callers :
                Written(r, "except") /\ plan[r].new.kind # "cancelled" =>
                    LET o == plan[r].new
                        s == Session(o.entry, o.date)'
                        Busy(t) == /\ t.entry # o.entry /\ t.held /\ t.date = s.date /\ SameTime(t.window, s.window)
                                   /\ \/ o.prof # NoProf /\ t.prof = o.prof /\ table[t.entry].prof = o.prof
                                      \/ o.room # NoRoom /\ t.room = o.room /\ table[t.entry].room = o.room
                    IN  \A t \in Calendar(0, Horizon)' : ~Busy(t)
  <2> SUFFICES ASSUME NEW r \in Callers, Written(r, "except"), plan[r].new.kind # "cancelled",
                      NEW t \in Calendar(0, Horizon)'
               PROVE  LET o == plan[r].new
                          s == Session(o.entry, o.date)'
                      IN  ~ (/\ t.entry # o.entry /\ t.held /\ t.date = s.date /\ SameTime(t.window, s.window)
                             /\ \/ o.prof # NoProf /\ t.prof = o.prof /\ table[t.entry].prof = o.prof
                                \/ o.room # NoRoom /\ t.room = o.room /\ table[t.entry].room = o.room)
    OBVIOUS
  <2>1. PICK o : o = plan[r].new
    OBVIOUS
  <2>2. PICK s : s = Session(o.entry, o.date)'
    OBVIOUS
  <2>3. t.entry # o.entry /\ t.held /\ t.date = s.date /\ SameTime(t.window, s.window) => ~HolderOf(t.entry, o)
    BY <1>1, <2>1, <2>2, ReassignedIsFree
  <2>4. plan'[r] = plan[r]
    BY <1>1, WhoWrites, Committed DEF Written, WriteException, Commit, Refuse
  <2> QED BY <2>1, <2>2, <2>3, <2>4 DEF HolderOf
<1>2. Orderly /\ [Next]_vars =>
        [\A r \in Callers :
            Written(r, "except") /\ plan[r].new.kind # "cancelled" =>
                LET o == plan[r].new
                    s == Session(o.entry, o.date)'
                    Busy(t) == /\ t.entry # o.entry /\ t.held /\ t.date = s.date /\ SameTime(t.window, s.window)
                               /\ \/ o.prof # NoProf /\ t.prof = o.prof /\ table[t.entry].prof = o.prof
                                  \/ o.room # NoRoom /\ t.room = o.room /\ table[t.entry].room = o.room
                IN  \A t \in Calendar(0, Horizon)' : ~Busy(t)]_vars
  BY <1>1
<1> QED BY <1>2, TimetableIsInOrder, PTL DEF Spec, ReassignedAreFree

-----------------------------------------------------------------------------
\* ---- the closed form counts the calendar ----

\* How often a whole week fits into so many days.
LEMMA WeeksWithin ==
  ASSUME NEW x \in Nat, NEW m \in Nat
  PROVE  x \div Week \in Nat /\ (Week * m <= x <=> m <= x \div Week)
<1> DEFINE k == x \div Week
           rest == x % Week
<1>1. Week \in Nat \ {0} /\ k \in Int /\ rest \in 0..(Week - 1) /\ x = Week * k + rest
  BY CalendarAssumption
<1> HIDE DEF k, rest
<1>2. k >= 0
  <2>1. CASE k <= -1
    <3>1. Week * k <= -Week
      BY <1>1, <2>1
    <3> QED BY <1>1, <3>1
  <2> QED BY <1>1, <2>1
<1>3. CASE m <= k
  <2>1. Week * m <= Week * k
    BY <1>1, <1>3
  <2>2. Week * m \in Int /\ Week * k \in Int
    BY <1>1
  <2> QED BY <1>1, <1>2, <1>3, <2>1, <2>2 DEF k
<1>4. CASE m >= k + 1
  <2>1. Week * m >= Week * (k + 1) /\ Week * (k + 1) = Week * k + Week
    BY <1>1, <1>4
  <2>2. Week * m \in Int /\ Week * k \in Int
    BY <1>1
  <2>3. Week * m > x
    BY <1>1, <2>1, <2>2
  <2> QED BY <1>1, <1>2, <1>4, <2>2, <2>3 DEF k
<1> QED BY <1>1, <1>3, <1>4

\* The days one reaches from a first one, a week at a time, up to a last one.
LEMMA DaysReached ==
  ASSUME NEW first \in Nat, NEW last \in Int, NEW h \in Nat, last <= h
  PROVE  LET days == {first + Week * n : n \in {m \in 0..(h \div Week) : first + Week * m <= last}}
         IN  /\ IsFiniteSet(days)
             /\ Cardinality(days) = IF first > last THEN 0 ELSE (last - first) \div Week + 1
<1> DEFINE days == {first + Week * n : n \in {m \in 0..(h \div Week) : first + Week * m <= last}}
<1>1. Week \in Nat \ {0}
  BY CalendarAssumption
<1>2. \A m \in Nat : Week * m \in Nat
  BY <1>1
<1>3. CASE first > last
  <2>1. days = {}
    BY <1>2, <1>3, WeeksWithin
  <2> QED BY <1>3, <2>1, FS_EmptySet
<1>4. CASE first <= last
  <2>1. PICK k : k = (last - first) \div Week
    OBVIOUS
  <2>2. last - first \in Nat /\ k \in Nat
    BY <1>4, <2>1, WeeksWithin
  <2>3. \A m \in Nat : first + Week * m <= last <=> m <= k
    <3>1. \A m \in Nat : Week * m <= last - first <=> m <= k
      BY <2>1, <2>2, WeeksWithin
    <3> QED BY <1>2, <3>1
  <2>4. \A m \in Nat : m <= k => m <= h \div Week
    <3>1. ASSUME NEW m \in Nat, m <= k PROVE m <= h \div Week
      <4>1. Week * m <= h
        BY <1>2, <2>3, <3>1
      <4> QED BY <4>1, WeeksWithin
    <3> QED BY <3>1
  <2>5. h \div Week \in Nat
    BY WeeksWithin
  <2>6. {m \in 0..(h \div Week) : first + Week * m <= last} = 0..k
    BY <2>2, <2>3, <2>4, <2>5
  <2> DEFINE nth == [n \in 0..k |-> first + Week * n]
  <2>7. days = {first + Week * n : n \in 0..k}
    BY <2>6
  <2>8. \A n, m \in Nat : n < m => Week * n < Week * m
    <3>1. ASSUME NEW n \in Nat, NEW m \in Nat, n < m PROVE Week * n < Week * m
      <4>1. Week * m = Week * n + Week * (m - n)
        BY <1>1
      <4>2. Week * (m - n) >= Week
        BY <1>1, <3>1
      <4> QED BY <1>1, <1>2, <4>1, <4>2
    <3> QED BY <3>1
  <2> HIDE DEF days
  <2>9. nth \in Bijection(0..k, days)
    <3>1. nth \in [0..k -> days] /\ \A d \in days : \E n \in 0..k : nth[n] = d
      BY <2>7
    <3>2. \A n, m \in 0..k : nth[n] = nth[m] => n = m
      BY <1>2, <2>2, <2>8
    <3> QED BY <3>1, <3>2 DEF Bijection, Injection, IsInjective, Surjection
  <2>10. IsFiniteSet(0..k) /\ Cardinality(0..k) = k + 1
    BY <2>2, FS_Interval
  <2>11. ExistsBijection(0..k, days)
    BY <2>9 DEF ExistsBijection
  <2>12. IsFiniteSet(days) /\ Cardinality(days) = k + 1
    BY <2>10, <2>11, FS_Bijection
  <2> QED BY <1>4, <2>1, <2>12 DEF days
<1> QED BY <1>3, <1>4

\* The later of two days is a day, and the sooner is not after the second.
LEMMA LaterIsNat == ASSUME NEW x \in Nat, NEW y \in Nat PROVE Later(x, y) \in Nat
  BY DEF Later
LEMMA SoonerIsInt ==
  ASSUME NEW x \in Int, NEW y \in Int PROVE Sooner(x, y) \in Int /\ Sooner(x, y) <= y
  BY DEF Sooner

\* The closed form counts one rule's days; a rule that has none in the range is left out.
LEMMA RuleCounted ==
  ASSUME TypeOK, SlotsInOrder, NEW i \in Ids, Stored(i), NEW a \in Dates, NEW b \in Dates
  PROVE  LET from == Later(table[i].from, a)
             until == Sooner(table[i].until, b)
         IN  /\ IsFiniteSet(Strides(i, a, b))
             /\ from <= until => Cardinality(Strides(i, a, b)) = WeekdayCount(from, until, IsoDay(Meeting(i).day))
             /\ ~(from <= until) => Strides(i, a, b) = {}
<1>1. table[i] \in Rules /\ Meeting(i) \in Windows
  BY DEF TypeOK, SlotsInOrder, Stored, Meeting, Rules
<1>2. PICK from : from = Later(table[i].from, a)
  OBVIOUS
<1>3. PICK until : until = Sooner(table[i].until, b)
  OBVIOUS
<1>4. PICK iso : iso = IsoDay(Meeting(i).day)
  OBVIOUS
<1>5. from \in Nat /\ until \in Int /\ until <= Horizon /\ Horizon \in Nat
  <2>1. table[i].from \in Nat /\ table[i].until \in Int /\ a \in Nat /\ b \in Nat /\ b <= Horizon /\ Horizon \in Nat
    BY <1>1, CalendarAssumption DEF Rules, Dates, Forever
  <2>2. PICK x, y : x = table[i].from /\ y = table[i].until
    OBVIOUS
  <2>3. x \in Nat /\ a \in Nat /\ y \in Int /\ b \in Int
    BY <2>1, <2>2
  <2>4. Later(x, a) \in Nat
    BY <2>3, LaterIsNat
  <2>5. Sooner(y, b) \in Int /\ Sooner(y, b) <= b
    BY <2>3, SoonerIsInt
  <2>6. from \in Nat /\ until \in Int /\ until <= b
    BY <1>2, <1>3, <2>2, <2>4, <2>5
  <2>7. b \in Int /\ b <= Horizon /\ Horizon \in Nat
    BY <2>1
  <2> QED BY <2>6, <2>7
<1>6. iso \in 0..(Week - 1)
  BY <1>1, <1>4, IsoDayInWeek, WindowsAssumption
<1>7. PICK first : first = FirstOn(from, iso)
  OBVIOUS
<1>8. first \in Nat /\ first >= from
  <2>1. from \in Int /\ from \in Nat
    BY <1>5
  <2>2. /\ FirstOn(from, iso) \in Int /\ FirstOn(from, iso) >= from
        /\ \E q \in Int : FirstOn(from, iso) = Week * q + iso
    BY <1>6, <2>1, FirstOnFalls, Zenon
  <2>3. FirstOn(from, iso) \in Int /\ FirstOn(from, iso) >= from
    BY <2>2
  <2> QED BY <1>7, <2>1, <2>3
<1>9. Strides(i, a, b) =
         {first + Week * n : n \in {m \in 0..(Horizon \div Week) : first + Week * m <= until}}
  BY <1>2, <1>3, <1>4, <1>7 DEF Strides
<1>10. /\ IsFiniteSet(Strides(i, a, b))
       /\ Cardinality(Strides(i, a, b)) = IF first > until THEN 0 ELSE (until - first) \div Week + 1
  BY <1>5, <1>8, <1>9, DaysReached
<1>11. WeekdayCount(from, until, iso) = IF first > until THEN 0 ELSE (until - first) \div Week + 1
  BY <1>7 DEF WeekdayCount
<1>12. ~(from <= until) => Strides(i, a, b) = {}
  <2>1. ~(from <= until) => first > until
    BY <1>5, <1>8
  <2>2. IsFiniteSet(Strides(i, a, b)) => (Cardinality(Strides(i, a, b)) = 0 <=> Strides(i, a, b) = {})
    BY FS_EmptySet
  <2> QED BY <1>10, <2>1, <2>2
<1> QED BY <1>2, <1>3, <1>4, <1>10, <1>11, <1>12

\* The dashboard's count is the length of the calendar, whatever the rules are.
LEMMA CountsTheCalendar ==
  ASSUME IsFiniteSet(Ids), TypeOK, SlotsInOrder, NEW a \in Dates, NEW b \in Dates
  PROVE  CountOccurrences(a, b) = Cardinality(Sittings(a, b))
<1>1. PICK R : R = {i \in InRange(a, b) : Later(table[i].from, a) <= Sooner(table[i].until, b)}
  OBVIOUS
<1>2. PICK F : F = [i \in Ids |-> {<<i, d>> : d \in Strides(i, a, b)}]
  OBVIOUS
<1>3. \A i \in InRange(a, b) : i \in Ids /\ Stored(i)
  BY DEF InRange, Live
<1>4. R \subseteq Ids /\ IsFiniteSet(R) /\ \A i \in R : i \in Ids /\ Stored(i)
  BY <1>1, <1>3, FS_Subset
<1>5. ASSUME NEW i \in R
      PROVE  /\ IsFiniteSet(F[i])
             /\ Cardinality(F[i]) = WeekdayCount(Later(table[i].from, a), Sooner(table[i].until, b),
                                                 IsoDay(Meeting(i).day))
  <2>1. /\ IsFiniteSet(Strides(i, a, b))
        /\ Cardinality(Strides(i, a, b)) = WeekdayCount(Later(table[i].from, a), Sooner(table[i].until, b),
                                                        IsoDay(Meeting(i).day))
    BY <1>1, <1>4, RuleCounted
  <2>2. F[i] = {<<i, d>> : d \in Strides(i, a, b)}
    BY <1>2, <1>4
  <2>3. [d \in Strides(i, a, b) |-> <<i, d>>] \in Bijection(Strides(i, a, b), F[i])
    BY <2>2 DEF Bijection, Injection, IsInjective, Surjection
  <2>4. IsFiniteSet(F[i]) /\ Cardinality(F[i]) = Cardinality(Strides(i, a, b))
    BY <2>1, <2>3, FS_Bijection DEF ExistsBijection
  <2> QED BY <2>1, <2>4
<1>6. Sittings(a, b) = UNION {F[i] : i \in R}
  <2>1. \A i \in InRange(a, b) : F[i] = {<<i, d>> : d \in Strides(i, a, b)}
    BY <1>2, <1>3
  <2>2. \A i \in InRange(a, b) \ R : Strides(i, a, b) = {}
    BY <1>1, <1>3, RuleCounted
  <2>3. R \subseteq InRange(a, b)
    BY <1>1
  <2>4. ASSUME NEW x PROVE x \in Sittings(a, b) <=> x \in UNION {F[i] : i \in R}
    BY <2>1, <2>2, <2>3 DEF Sittings
  <2> QED BY <2>4
<1>7. \A i, j \in R : i # j => F[i] \cap F[j] = {}
  BY <1>2, <1>4
<1>8. Cardinality(Sittings(a, b)) = SumFunction([i \in R |-> Cardinality(F[i])])
  BY <1>4, <1>5, <1>6, <1>7, UnionCounts
<1>9. CountOccurrences(a, b) =
         SumFunction([i \in R |-> WeekdayCount(Later(table[i].from, a), Sooner(table[i].until, b),
                                               IsoDay(Meeting(i).day))])
  BY <1>1 DEF CountOccurrences
<1>10. [i \in R |-> Cardinality(F[i])] =
       [i \in R |-> WeekdayCount(Later(table[i].from, a), Sooner(table[i].until, b), IsoDay(Meeting(i).day))]
  BY <1>5
<1> QED BY <1>8, <1>9, <1>10

\* scripts/verify-scheduling.mjs: the dashboard's count is the length of the
\* calendar, for a week and a horizon of any length and finitely many rules.
THEOREM CountsAreLengths ==
  ASSUME IsFiniteSet(Ids)
  PROVE  Spec => []CountIsLength
<1>1. Orderly => CountIsLength
  BY CountsTheCalendar DEF Orderly, CountIsLength
<1> QED BY <1>1, TimetableIsInOrder, PTL

=============================================================================
