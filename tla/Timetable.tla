------------------------------ MODULE Timetable ------------------------------
(***************************************************************************)
(* The timetable (scheduling/): weekly rules, the dated exceptions to      *)
(* them, the rooms, the stored time slots and the opening hours, and the   *)
(* calendar computed from them.                                            *)
(*                                                                         *)
(* A request is one HTTP call, and the rule or the exception it inserts is *)
(* named after it, the rules of a weekly save after the request and their  *)
(* tile.  A handler that checks and then writes is two steps:              *)
(* Vet... reads and decides, Write... is its transaction.  Creating and    *)
(* splitting a rule run under the keyed mutex; nothing else does.  The     *)
(* handlers that decide nothing between a read and a write are one step.   *)
(* A date is a day number, a time a number on the clock.                   *)
(***************************************************************************)
EXTENDS Integers, FiniteSets, Functions, KeyedMutex

CONSTANTS
    Groups, Profs, Students, Roster,   \* Roster: who attends each group
    Owner,                             \* the professor of each group
    Rooms, NoRoom, NoProf,
    Windows, NoWindow,                 \* [day, lo, hi]: weekday, first and last hour
    SlotIds, SlotsAtFirst,             \* rows of time_slots
    Seeds, RulesAtFirst, NoEntry,      \* rules there already
    NoOverride, NoJob, NoPlan,
    Menus,                             \* opening hours the settings may save
    Week, Today, Horizon,              \* days of a week; bound on dates
    Starts,                            \* the dates requests name
    Tiles,                             \* [window, room]: what the weekly builder submits
    Ops                                \* the endpoints in use

Dates == 0..Horizon
Forever == Horizon + 1                 \* effective_until IS NULL
Everyday == Week                       \* working_hours.day_of_week IS NULL
Ids == Seeds \cup Callers \cup (Callers \X Tiles)
RoomOrNone == Rooms \cup {NoRoom}

ASSUME CalendarAssumption ==
    Week \in Nat \ {0} /\ Horizon \in Nat /\ Today \in Dates /\ Starts \subseteq Dates
\* There is always a row left for a window that has none.
ASSUME SlotsAssumption ==
    IsFiniteSet(SlotIds) /\ IsFiniteSet(Windows) /\ Cardinality(SlotIds) >= Cardinality(Windows)
ASSUME WindowsAssumption == NoWindow \notin Windows /\ \A w \in Windows : w.day \in 0..(Week - 1)
ASSUME SeedsAssumption ==
    Seeds \cap Callers = {} /\ (Seeds \cup Callers) \cap (Callers \X Tiles) = {}
ASSUME OffersAssumption ==
    /\ {} \in Menus /\ Owner \in [Groups -> Profs]
    /\ Tiles \subseteq [window : Windows, room : RoomOrNone] /\ IsFiniteSet(Tiles)

VARIABLES
    table,      \* schedule_entries
    overrides,  \* schedule_entry_exceptions
    slots,      \* time_slots
    hours,      \* working_hours
    rooms,      \* classrooms
    stage,      \* where each request is
    job,        \* what it asks
    plan,       \* what it decided to write
    stale       \* those whose reads somebody has written over since (history)

stored == <<table, overrides, slots, hours, rooms>>
serving == <<stage, job, plan, stale>>
vars == <<mutex, stored, serving>>

Rules == [group : Groups, slot : SlotIds, room : RoomOrNone, prof : Profs,
          from : Dates, until : -1..Forever, live : BOOLEAN]

Overrides == [entry : Ids, date : Dates, kind : {"cancelled", "moved", "substitute_prof", "room_change"},
              newDate : Dates, slot : SlotIds \cup {NoWindow}, room : RoomOrNone, prof : Profs \cup {NoProf}]

ASSUME AbsentAssumption == NoEntry \notin Rules /\ NoOverride \notin Overrides

\* What is stored at first keeps the schema.
ASSUME AtFirstAssumption ==
    /\ SlotsAtFirst \in [SlotIds -> Windows \cup {NoWindow}] /\ RulesAtFirst \in [Seeds -> Rules]
    /\ \A k, l \in SlotIds : SlotsAtFirst[k] = SlotsAtFirst[l] /\ SlotsAtFirst[k] # NoWindow => k = l
    /\ \A i \in Seeds : SlotsAtFirst[RulesAtFirst[i].slot] # NoWindow

\* ---- calendar arithmetic (date.util.ts); date 0 is a Sunday ----

JsDay(d) == d % Week
SchoolDay_Backwards(d) == (JsDay(d) + Week - 1) % Week
SchoolDay(d) == (JsDay(d) + 1) % Week
IsoDay(day) == (day + Week - 1) % Week
FirstOn(d, iso) == d + ((iso - JsDay(d) + Week) % Week)
WeekdayCount_Weeks(a, b, iso) == (b - a) \div Week
WeekdayCount(a, b, iso) ==
    IF FirstOn(a, iso) > b THEN 0 ELSE ((b - FirstOn(a, iso)) \div Week) + 1

\* ---- rules ----

Stored(i) == table[i] # NoEntry
Live(i) == Stored(i) /\ table[i].live
Meeting(i) == slots[table[i].slot]             \* the window a rule meets in
Later(a, b) == IF a > b THEN a ELSE b
Sooner(a, b) == IF a < b THEN a ELSE b

SameTime(v, w) == v.lo < w.hi /\ w.lo < v.hi
Overlap(v, w) == v.day = w.day /\ SameTime(v, w)

\* Live rules that meet during window w on some week between two dates.
Rivals_Begun(w, from, until, skip) ==
    {i \in Ids \ skip : /\ Live(i) /\ Overlap(Meeting(i), w)
                        /\ table[i].from <= from /\ from <= table[i].until}
Rivals(w, from, until, skip) ==
    {i \in Ids \ skip : /\ Live(i) /\ Overlap(Meeting(i), w)
                        /\ table[i].from <= until /\ from <= table[i].until}

RoomClashes(e, w, skip) ==
    {i \in Rivals(w, e.from, e.until, skip) : e.room # NoRoom /\ table[i].room = e.room}
ProfClashes(e, w, skip) == {i \in Rivals(w, e.from, e.until, skip) : table[i].prof = e.prof}
StudentClashes(e, w, skip) ==
    {i \in Rivals(w, e.from, e.until, skip) :
        table[i].group # e.group /\ Roster[table[i].group] \cap Roster[e.group] # {}}

\* ConflictService.checkRule
CheckRule(e, w, skip) == RoomClashes(e, w, skip) \cup ProfClashes(e, w, skip) \cup StudentClashes(e, w, skip)

\* ---- opening hours and slots ----

\* A day's own windows, or else the ones declared for every day.
EffectiveHours(day) ==
    LET own == {h \in hours : h.day = day}
    IN  IF own # {} THEN own ELSE {h \in hours : h.day = Everyday}

InHours(w) ==
    \/ EffectiveHours(w.day) = {}
    \/ \E h \in EffectiveHours(w.day) : h.lo <= w.lo /\ w.hi <= h.hi

\* No two windows of one resolved day overlap.
Disjoint(menu) ==
    \A g, h \in menu : g.day = h.day /\ SameTime(g, h) => g = h

\* TimeSlotService.findOrCreate, of several windows: the row of each, or a new one.
RowsFor(ws) ==
    LET missing == {w \in ws : \A k \in SlotIds : slots[k] # w}
        fresh == CHOOSE f \in Injection(missing, {k \in SlotIds : slots[k] = NoWindow}) : TRUE
    IN  [w \in ws |-> IF w \in missing THEN fresh[w] ELSE CHOOSE k \in SlotIds : slots[k] = w]

WithRows(row) ==
    [k \in SlotIds |-> IF \E w \in DOMAIN row : row[w] = k THEN CHOOSE w \in DOMAIN row : row[w] = k
                       ELSE slots[k]]

FindOrCreate(w) == RowsFor({w})[w]
WithSlot(w) == WithRows(RowsFor({w}))

\* ---- the schema's CHECK, partial unique indexes and foreign keys ----

Legal(t) ==
    /\ \A i \in Ids : t[i] # NoEntry =>
          t[i].from <= t[i].until /\ t[i].room \in rooms \cup {NoRoom} /\ slots[t[i].slot] # NoWindow
    /\ \A i, j \in Ids :
          /\ i # j /\ t[i] # NoEntry /\ t[j] # NoEntry
          /\ t[i].live /\ t[j].live /\ t[i].slot = t[j].slot /\ t[i].from = t[j].from
          => /\ t[i].group # t[j].group /\ t[i].prof # t[j].prof
             /\ t[i].room # t[j].room \/ t[i].room = NoRoom

Archived_StillActive(e) == [e EXCEPT !.until = Today]
Archived(e) == [e EXCEPT !.live = FALSE, !.until = Today]

\* ---- the calendar (occurrence.service.ts) ----

OverrideOn(i, d) ==
    {r \in Callers : overrides[r] # NoOverride /\ overrides[r].entry = i /\ overrides[r].date = d}

\* From the first matching date, a week at a time.
Strides(i, a, b) ==
    LET first == FirstOn(Later(table[i].from, a), IsoDay(Meeting(i).day))
        last == Sooner(table[i].until, b)
    IN  {first + Week * n : n \in {m \in 0..(Horizon \div Week) : first + Week * m <= last}}

\* The session a rule holds for one of its dates, its exception applied.
Session(i, d) ==
    LET plain == [entry |-> i, on |-> d, date |-> d, window |-> Meeting(i), held |-> TRUE,
                  room |-> table[i].room, prof |-> table[i].prof]
    IN  IF OverrideOn(i, d) = {} THEN plain
        ELSE LET o == overrides[CHOOSE r \in OverrideOn(i, d) : TRUE]
             IN  [plain EXCEPT
                    !.held = o.kind # "cancelled",
                    !.date = IF o.kind = "moved" THEN o.newDate ELSE @,
                    !.window = IF o.kind = "moved" THEN slots[o.slot] ELSE @,
                    !.room = IF o.kind \in {"moved", "room_change"} /\ o.room # NoRoom THEN o.room ELSE @,
                    !.prof = IF o.kind \in {"moved", "substitute_prof"} /\ o.prof # NoProf THEN o.prof ELSE @]

InRange(a, b) == {i \in Ids : Live(i) /\ table[i].from <= b /\ a <= table[i].until}
Sittings(a, b) == UNION {{<<i, d>> : d \in Strides(i, a, b)} : i \in InRange(a, b)}
Calendar(a, b) == {Session(x[1], x[2]) : x \in Sittings(a, b)}

\* countOccurrences: three columns of each rule and a closed form.
CountOccurrences(a, b) ==
    SumFunction([i \in {i \in InRange(a, b) : Later(table[i].from, a) <= Sooner(table[i].until, b)} |->
                    WeekdayCount(Later(table[i].from, a), Sooner(table[i].until, b), IsoDay(Meeting(i).day))])

\* ---- ConflictService.checkOccurrencesOnDate ----

\* Rules of that person or room that meet that day, cancellations and moves out
\* of it taken off, moves into it added; a move is looked up by its rule.
MeetsOn(i, d) == i \in InRange(d, d) /\ Meeting(i).day = SchoolDay(d)
FreedOn(i, d) ==
    \E r \in OverrideOn(i, d) :
        \/ overrides[r].kind = "cancelled"
        \/ overrides[r].kind = "moved" /\ overrides[r].newDate # d
MovedOnto(r, d) == overrides[r] # NoOverride /\ overrides[r].kind = "moved" /\ overrides[r].newDate = d

Taken(held, d, w, skip) ==
    \/ \E i \in held \ {skip} : MeetsOn(i, d) /\ ~FreedOn(i, d) /\ SameTime(Meeting(i), w)
    \/ \E r \in Callers :
          /\ MovedOnto(r, d) /\ overrides[r].entry \in held \ {skip}
          /\ SameTime(slots[overrides[r].slot], w)

\* ---- what requests ask ----

Edits == [what : {"window"}, to : Windows] \cup [what : {"room"}, to : RoomOrNone]
         \cup [what : {"prof"}, to : Profs] \cup [what : {"until"}, to : Starts \cup {Forever}]

Moves == [kind : {"moved"}, newDate : Starts, window : Windows, room : {NoRoom}, prof : Profs \cup {NoProf}]
Reassignments ==
    [kind : {"cancelled"}, newDate : {Today}, window : {NoWindow}, room : {NoRoom}, prof : {NoProf}]
    \cup [kind : {"substitute_prof"}, newDate : {Today}, window : {NoWindow}, room : {NoRoom}, prof : Profs]
    \cup [kind : {"room_change"}, newDate : {Today}, window : {NoWindow}, room : Rooms, prof : {NoProf}]

LockedJobs ==
    {j \in [op : {"create"}, group : Groups, window : Windows, room : RoomOrNone, prof : Profs, from : Starts]
           \cup [op : {"split"}, entry : Ids, from : Starts, edit : Edits] : j.op \in Ops}
Saves == {j \in [op : {"sync"}, group : Groups, tiles : SUBSET Tiles, allow : BOOLEAN] : j.op \in Ops}
Exceptions ==
    {j \in [op : {"except"}, entry : Ids, date : Starts, how : Reassignments \cup
                                  {m \in Moves : m.window.day = SchoolDay(m.newDate)}] : j.op \in Ops}

LockOf_OfEdit(j) == IF j.op = "create" THEN <<j.window, j.room, j.prof, j.group>> ELSE <<j.entry, j.edit>>
LockOf(j) ==
    IF j.op = "create" THEN <<j.window, j.room, j.prof, j.group>> ELSE <<j.entry>>

ASSUME LocksAssumption == \A j \in LockedJobs : LockOf(j) \in Keys

TableAtFirst == [i \in Ids |-> IF i \in Seeds THEN RulesAtFirst[i] ELSE NoEntry]

Init ==
    /\ MutexInit
    /\ table = TableAtFirst
    /\ overrides = [r \in Callers |-> NoOverride]
    /\ slots = SlotsAtFirst
    /\ hours = {}                       \* none declared yet
    /\ rooms = Rooms
    /\ stage = [r \in Callers |-> "new"]
    /\ job = [r \in Callers |-> NoJob]
    /\ plan = [r \in Callers |-> NoPlan]
    /\ stale = {}

\* create and splitAndUpdate take their place in line before they read.
Ask(r) ==
    /\ stage[r] = "new"
    /\ \E j \in LockedJobs :
          /\ j.op = "split" => Stored(j.entry)               \* a rule the screen shows
          /\ job' = [job EXCEPT ![r] = j]
          /\ Arrive(r, LockOf(j))
    /\ stage' = [stage EXCEPT ![r] = "asked"]
    /\ UNCHANGED <<stored, plan, stale>>

Enter(r) == Admit(r) /\ UNCHANGED <<stored, serving>>

Reads(r, op) ==
    stage[r] = "asked" /\ turn[r] = "inside" /\ job[r].op = op /\ UNCHANGED job

\* The other handlers read as soon as they are called.
Begins(r, j) == stage[r] = "new" /\ job' = [job EXCEPT ![r] = j]

Decide(r, p) ==
    /\ stage' = [stage EXCEPT ![r] = "vetted"]
    /\ plan' = [plan EXCEPT ![r] = p]
    /\ UNCHANGED <<mutex, table, overrides, hours, rooms, stale>>

Refuse(r) ==
    /\ stage' = [stage EXCEPT ![r] = "refused"]
    /\ UNCHANGED <<mutex, table, overrides, hours, rooms, plan, stale>>

\* ---- the four checks ----

\* createInner: the slot is stored before anything is refused; only the room blocks.
VetCreate(r) ==
    LET j == job[r]
        new == [group |-> j.group, slot |-> FindOrCreate(j.window), room |-> j.room, prof |-> j.prof,
                from |-> j.from, until |-> Forever, live |-> TRUE]
    IN  /\ Reads(r, "create")
        /\ slots' = WithSlot(j.window)
        /\ IF InHours(j.window) /\ RoomClashes(new, j.window, {}) = {}
           THEN Decide(r, [op |-> "create", new |-> new])
           ELSE Refuse(r)

\* splitAndUpdateInner and prepareSplitValues: any clash blocks.  From the rule's
\* own first day it is patched where it stands, and checked with its old end.
VetSplit(r) ==
    LET j == job[r]
        i == j.entry
        old == table[i]
        w == IF j.edit.what = "window" THEN j.edit.to ELSE Meeting(i)
        edited == [old EXCEPT
            !.slot = IF j.edit.what = "window" THEN FindOrCreate(w) ELSE @,
            !.room = IF j.edit.what = "room" THEN j.edit.to ELSE @,
            !.prof = IF j.edit.what = "prof" THEN j.edit.to ELSE @]
        clone == [edited EXCEPT !.from = j.from, !.until = IF j.edit.what = "until" THEN j.edit.to ELSE @]
    IN  /\ Reads(r, "split")
        /\ IF Live(i) /\ (j.edit.what = "window" => InHours(w))
           THEN /\ slots' = IF j.edit.what = "window" THEN WithSlot(w) ELSE slots
                /\ IF j.from = old.from /\ CheckRule(edited, w, {i}) = {}
                   THEN Decide(r, [op |-> "patch", entry |-> i, edit |-> j.edit, slot |-> edited.slot])
                   ELSE IF j.from > old.from /\ CheckRule(clone, w, {i}) = {}
                        THEN Decide(r, [op |-> "clone", entry |-> i, cut |-> j.from - 1, new |-> clone])
                        ELSE Refuse(r)
           ELSE Refuse(r) /\ UNCHANGED slots

\* syncTiles: what the group holds is diffed against what was submitted.  New
\* tiles are checked for today's date only, each against the stored rules that
\* are not retiring and none against another new one.
Identity(i) == [window |-> Meeting(i), room |-> table[i].room]
LiveOf(g) == {i \in Ids : Live(i) /\ table[i].group = g}

VetSync(r, j) ==
    LET retire == {i \in LiveOf(j.group) : Identity(i) \notin j.tiles}
        add == {t \in j.tiles : \A i \in LiveOf(j.group) : Identity(i) # t}
        row == RowsFor({t.window : t \in add})
        New(t) == [group |-> j.group, slot |-> row[t.window], room |-> t.room,
                   prof |-> Owner[j.group], from |-> Today, until |-> Forever, live |-> TRUE]
        OnToday(t) == [New(t) EXCEPT !.until = Today]
        blocked == \E t \in add : RoomClashes(OnToday(t), t.window, retire) # {}
        clashing == \E t \in add : CheckRule(OnToday(t), t.window, retire) # {}
    IN  /\ Begins(r, j)
        /\ IF \A t \in add : InHours(t.window)
           THEN /\ slots' = WithRows(row)
                /\ IF blocked \/ (clashing /\ ~j.allow) THEN Refuse(r)
                   ELSE Decide(r, [op |-> "sync", retire |-> retire,
                                   new |-> [i \in {r} \X add |-> New(i[2])]])
           ELSE Refuse(r) /\ UNCHANGED slots

\* EntryExceptionService.create: the rule must meet that day, and the newly
\* named professor or room must be free then; its own are not looked at.
VetException(r, j) ==
    LET i == j.entry
        how == j.how
        day == IF how.kind = "moved" THEN how.newDate ELSE j.date
        w == IF how.kind = "moved" THEN how.window ELSE Meeting(i)
        meets == /\ Live(i) /\ table[i].from <= j.date /\ j.date <= table[i].until
                 /\ IsoDay(Meeting(i).day) = JsDay(j.date)
        busy == /\ how.kind # "cancelled"
                /\ \/ how.prof # NoProf /\ Taken({k \in Ids : Stored(k) /\ table[k].prof = how.prof}, day, w, i)
                   \/ how.room # NoRoom /\ Taken({k \in Ids : Stored(k) /\ table[k].room = how.room}, day, w, i)
    IN  /\ Stored(i) /\ Begins(r, j)
        /\ IF meets /\ (how.kind = "moved" => InHours(w))
           THEN /\ slots' = IF how.kind = "moved" THEN WithSlot(w) ELSE slots
                /\ IF busy THEN Refuse(r)
                   ELSE Decide(r, [op |-> "except",
                          new |-> [entry |-> i, date |-> j.date, kind |-> how.kind, newDate |-> how.newDate,
                                   slot |-> IF how.kind = "moved" THEN FindOrCreate(w) ELSE NoWindow,
                                   room |-> how.room, prof |-> how.prof]])
           ELSE Refuse(r) /\ UNCHANGED slots

\* ---- the writes ----

\* Everybody who has decided by now did so on what is being changed.
Outdate(r) == stale' = stale \cup {q \in Callers \ {r} : stage[q] = "vetted"}

\* One transaction: it commits whole, or a constraint takes it back.
Commit(r, t, o) ==
    /\ IF Legal(t)
       THEN /\ table' = t /\ overrides' = o
            /\ stage' = [stage EXCEPT ![r] = "written"]
            /\ Outdate(r)
       ELSE /\ stage' = [stage EXCEPT ![r] = "refused"]
            /\ UNCHANGED <<table, overrides, stale>>
    /\ UNCHANGED <<mutex, slots, hours, rooms, job, plan>>

Writes(r, op) == stage[r] = "vetted" /\ plan[r].op = op

WriteCreate(r) == Writes(r, "create") /\ Commit(r, [table EXCEPT ![r] = plan[r].new], overrides)

WriteClone(r) ==
    LET i == plan[r].entry
        cut == [table EXCEPT ![i] = IF Stored(i) THEN [@ EXCEPT !.until = plan[r].cut] ELSE @]
    IN  Writes(r, "clone") /\ Commit(r, [cut EXCEPT ![r] = plan[r].new], overrides)

\* The columns the edit names, of the row as it is now; none when it is gone.
Patched_Anywhere(e, edit, slot) == [e EXCEPT !.prof = edit.to]
Patched(e, edit, slot) ==
    [e EXCEPT !.slot = IF edit.what = "window" THEN slot ELSE @,
              !.room = IF edit.what = "room" THEN edit.to ELSE @,
              !.prof = IF edit.what = "prof" THEN edit.to ELSE @,
              !.until = IF edit.what = "until" THEN edit.to ELSE @]

WritePatch(r) ==
    LET p == plan[r] IN
    /\ Writes(r, "patch")
    /\ IF Stored(p.entry)
       THEN Commit(r, [table EXCEPT ![p.entry] = Patched(@, p.edit, p.slot)], overrides)
       ELSE Refuse(r) /\ UNCHANGED <<slots, job>>

WriteSync(r) ==
    LET p == plan[r]
        after == [i \in Ids |-> IF i \in DOMAIN p.new THEN p.new[i]
                                ELSE IF i \in p.retire /\ Stored(i) THEN Archived(table[i]) ELSE table[i]]
    IN  Writes(r, "sync") /\ Commit(r, after, overrides)

\* The row's foreign keys, and its unique index on rule and date.
WriteException(r) ==
    LET o == plan[r].new IN
    /\ Writes(r, "except")
    /\ IF /\ Stored(o.entry) /\ OverrideOn(o.entry, o.date) = {}
          /\ o.room \in rooms \cup {NoRoom} /\ (o.kind = "moved" => slots[o.slot] # NoWindow)
       THEN Commit(r, table, [overrides EXCEPT ![r] = o])
       ELSE Refuse(r) /\ UNCHANGED <<slots, job>>

Return(r) ==
    /\ stage[r] \in {"written", "refused"}
    /\ Leave(r)
    /\ UNCHANGED <<stored, serving>>

\* ---- handlers that write what they are told ----

\* A request answered in one step; refused when the write breaks a constraint.
Serve(r, op, t, o) ==
    /\ stage[r] = "new" /\ op \in Ops
    /\ Commit(r, t, o)

\* "This and following": cut the day before, or archive what starts later.
EndSeries(r) ==
    \E i \in Ids, d \in Starts :
        /\ Stored(i)
        /\ Serve(r, "end", [table EXCEPT ![i] = IF d <= @.from THEN Archived(@) ELSE [@ EXCEPT !.until = d - 1]],
                 overrides)

\* Clashes are reported with the answer and written all the same.
Update(r) ==
    \E i \in Ids, e \in {x \in Edits : x.what \in {"room", "until"}} :
        Stored(i) /\ Serve(r, "update", [table EXCEPT ![i] = Patched(@, e, @.slot)], overrides)

Archive(r) ==
    \E i \in Ids : Stored(i) /\ Serve(r, "archive", [table EXCEPT ![i] = Archived(@)], overrides)

\* Exceptions go with their rule.
Remove(r) ==
    \E i \in Ids :
        /\ Stored(i)
        /\ Serve(r, "remove", [table EXCEPT ![i] = NoEntry],
                 [q \in Callers |-> IF overrides[q] # NoOverride /\ overrides[q].entry = i
                                    THEN NoOverride ELSE overrides[q]])

RemoveException(r) ==
    \E q \in Callers :
        overrides[q] # NoOverride /\ Serve(r, "restore", table, [overrides EXCEPT ![q] = NoOverride])

\* The settings screens: all opening hours at once; one slot; one room.
Settle(r, op) ==
    /\ stage[r] = "new" /\ op \in Ops
    /\ stage' = [stage EXCEPT ![r] = "written"]
    /\ Outdate(r)
    /\ UNCHANGED <<mutex, table, overrides, job, plan>>

SetHours(r) ==
    \E menu \in Menus :
        Disjoint(menu) /\ Settle(r, "hours") /\ hours' = menu /\ UNCHANGED <<slots, rooms>>

\* Every rule of the slot moves with it, and nothing is checked.
EditSlot(r) ==
    \E k \in SlotIds, w \in Windows :
        /\ slots[k] # NoWindow /\ \A x \in SlotIds : slots[x] # w
        /\ Settle(r, "slot")
        /\ slots' = [slots EXCEPT ![k] = w] /\ UNCHANGED <<hours, rooms>>

Uses(k) == \/ \E i \in Ids : Stored(i) /\ table[i].slot = k
           \/ \E q \in Callers : overrides[q] # NoOverride /\ overrides[q].slot = k

RemoveSlot(r) ==
    \E k \in SlotIds :
        /\ slots[k] # NoWindow /\ ~Uses(k)
        /\ Settle(r, "slot")
        /\ slots' = [slots EXCEPT ![k] = NoWindow] /\ UNCHANGED <<hours, rooms>>

\* Archived rules count.
RemoveRoom(r) ==
    \E m \in rooms :
        /\ \A i \in Ids : Stored(i) => table[i].room # m
        /\ \A q \in Callers : overrides[q] # NoOverride => overrides[q].room # m
        /\ Settle(r, "room")
        /\ rooms' = rooms \ {m} /\ UNCHANGED <<slots, hours>>

Done(r) == stage[r] \in {"written", "refused"} /\ turn[r] \in {"idle", "left"}

\* Everybody has been answered.
Closed == (\A r \in Callers : Done(r)) /\ UNCHANGED vars

Step(r) ==
    \/ Enter(r) \/ VetCreate(r) \/ VetSplit(r)
    \/ WriteCreate(r) \/ WriteClone(r) \/ WritePatch(r) \/ WriteSync(r) \/ WriteException(r)
    \/ Return(r)

Start(r) ==
    \/ Ask(r) \/ (\E j \in Saves : VetSync(r, j)) \/ (\E j \in Exceptions : VetException(r, j))
    \/ EndSeries(r) \/ Update(r) \/ Archive(r) \/ Remove(r) \/ RemoveException(r)
    \/ SetHours(r) \/ EditSlot(r) \/ RemoveSlot(r) \/ RemoveRoom(r)

Next == (\E r \in Callers : Start(r) \/ Step(r)) \/ Closed

Spec == Init /\ [][Next]_vars

\* ---- properties ----

\* The database holds well-formed rows, whatever order requests come in.
TypeOK ==
    /\ table \in [Ids -> Rules \cup {NoEntry}]
    /\ overrides \in [Callers -> Overrides \cup {NoOverride}]
    /\ slots \in [SlotIds -> Windows \cup {NoWindow}]
    /\ hours \in Menus /\ rooms \subseteq Rooms /\ stale \subseteq Callers
    /\ stage \in [Callers -> {"new", "asked", "vetted", "written", "refused"}]
    /\ ahead \in [Callers -> Callers \cup {NoCaller}] /\ turn \in [Callers -> Turns]

Share(i, j) == /\ Live(i) /\ Live(j) /\ Overlap(Meeting(i), Meeting(j))
               /\ table[i].from <= table[j].until /\ table[j].from <= table[i].until
SameRoom(i, j) == Stored(i) /\ Stored(j) /\ table[i].room # NoRoom /\ table[i].room = table[j].room

Written(r, op) == stage[r] = "vetted" /\ plan[r].op = op /\ stage'[r] = "written" /\ r \notin stale

\* When nobody wrote between a check and its write, the rule that was added shares
\* its room with no other on any date, and the second half of a split no professor
\* either; those a weekly save added, with none that was there before the save and
\* is in force today.  ("A room cannot hold two classes at once" is more than the
\* code keeps: the new tiles of one save may share a room with each other.)
AddedRuleFitsIn ==
    [][\A r \in Callers :
        /\ Written(r, "create") \/ Written(r, "clone") =>
              \A i \in Ids \ {r} :
                 /\ ~(SameRoom(r, i) /\ Share(r, i))'
                 /\ Written(r, "clone") => ~(Share(r, i) /\ table[r].prof = table[i].prof)'
        /\ Written(r, "sync") =>
              \A new \in DOMAIN plan[r].new, i \in Ids \ DOMAIN plan[r].new :
                 (SameRoom(new, i) /\ Share(new, i))' => table[i].from > Today
      ]_vars

\* A save of the weekly builder makes the group's sessions match the submitted
\* set, and the ones already there keep their rows and exceptions.
SaveMatchesSubmission ==
    [][\A r \in Callers :
        Written(r, "sync") =>
            /\ {Identity(i) : i \in LiveOf(job[r].group)}' = job[r].tiles
            /\ \A i \in LiveOf(job[r].group) :
                  Identity(i) \in job[r].tiles => table'[i] = table[i]
            /\ overrides' = overrides]_vars

\* A second submission of one split finds the rule already cut and is refused:
\* two requests never both continue one rule from one date, unless a third has
\* written in between, which may reopen the rule.  (An end date given with the
\* second makes it a different edit.)
Continues(r) == stage[r] = "written" /\ plan[r] # NoPlan /\ plan[r].op = "clone"
SplitOnce ==
    \A r, q \in Callers :
        /\ r # q /\ Continues(r) /\ Continues(q)
        /\ plan[r].entry = plan[q].entry /\ plan[r].cut = plan[q].cut
        => \/ "until" \in {job[r].edit.what, job[q].edit.what}
           \/ \E c \in Callers \ {r, q} : stage[c] = "written"

\* "The target professor/classroom must be free on the target date": an accepted
\* exception gives nobody a session at the time of another they hold by rule
\* on that date, counting cancellations and sessions moved there.
ReassignedAreFree ==
    [][\A r \in Callers :
        Written(r, "except") /\ plan[r].new.kind # "cancelled" =>
            LET o == plan[r].new
                s == Session(o.entry, o.date)'
                Busy(t) == /\ t.entry # o.entry /\ t.held /\ t.date = s.date /\ SameTime(t.window, s.window)
                           /\ \/ o.prof # NoProf /\ t.prof = o.prof /\ table[t.entry].prof = o.prof
                              \/ o.room # NoRoom /\ t.room = o.room /\ table[t.entry].room = o.room
            IN  \A t \in Calendar(0, Horizon)' : ~Busy(t)]_vars

\* scripts/verify-scheduling.mjs: the dashboard's count, in closed form, is the
\* length of the calendar, for every range and every timetable.
CountIsLength ==
    \A a, b \in Dates : a <= b => CountOccurrences(a, b) = Cardinality(Sittings(a, b))

\* common/async-mutex.ts:5-8: check and write "are serialised", so that a room is
\* not double-booked.  Two groups that book one room lock two different keys.
RoomHeldOnce == \A i, j \in Ids : i # j => ~(SameRoom(i, j) /\ Share(i, j))
=============================================================================
