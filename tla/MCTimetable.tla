----------------------------- MODULE MCTimetable -----------------------------
(* A three-day week, two of them; a room, two professors, two groups that share a student. *)
EXTENDS Timetable, TLC

CONSTANTS g1, g2, p1, p2, stu, hall, k1, k2, k3, early, late, r1, r2

Mon9  == [day |-> 1, lo |-> 1, hi |-> 3]
Mon10 == [day |-> 1, lo |-> 2, hi |-> 4]
Tue9  == [day |-> 2, lo |-> 1, hi |-> 3]

MCRoster == (g1 :> {stu}) @@ (g2 :> {stu})
MCOwner == (g1 :> p1) @@ (g2 :> p2)
MCWindows == {Mon9, Mon10, Tue9}
MCSlots == (k1 :> Mon9) @@ (k2 :> Tue9) @@ (k3 :> NoWindow)

\* A rule that runs from the first day, and one that starts next week.
MCRules ==
    (early :> [group |-> g1, slot |-> k1, room |-> hall, prof |-> p1, from |-> 0, until |-> Forever, live |-> TRUE]) @@
    (late :> [group |-> g2, slot |-> k2, room |-> NoRoom, prof |-> p2, from |-> 3, until |-> Forever, live |-> TRUE])

Mornings == {[day |-> 3, lo |-> 1, hi |-> 3]}
MCMenus == {{}, Mornings}

MCTiles == {[window |-> Mon9, room |-> hall], [window |-> Mon10, room |-> hall]}
\* No request differs from another before it has been answered.
MCSymmetry == Permutations(Callers)
MCKeys == {LockOf(j) : j \in LockedJobs}
=============================================================================
