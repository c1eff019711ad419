------------------------------- MODULE MCSchool -------------------------------
(* Two levels; two fields of the first; two professors of one field, each with a group. *)
EXTENDS School, TLC

CONSTANTS q1, q2, year1, year2, maths, arts, ali, ben, ga, gb, amel, sami,
          year3, year4, maths2, arts2, cyd, dan, gc, gd, newcomer, rival

MCSymmetry == Permutations(Callers)

Named(up, name) == [up |-> up, active |-> TRUE, pen |-> FALSE, name |-> name]
MCNodes ==
    (year1 :> Named(None, "one")) @@ (year2 :> Named(None, "two")) @@
    (maths :> Named(year1, "maths")) @@ (arts :> Named(year1, "arts")) @@
    (ali :> Named(maths, "ali")) @@ (ben :> Named(maths, "ben")) @@
    (ga :> Named(ali, "A")) @@ (gb :> Named(ben, "B"))

\* amel attends both groups; sami has left ben's.
Attends(home, since, status, name, fees) ==
    [home |-> home, since |-> since, status |-> status, pen |-> FALSE, name |-> name, fees |-> fees]
MCStudents ==
    (amel :> Attends(ga, 0, "active", "amel", (ga :> 2) @@ (gb :> 1))) @@
    (sami :> Attends(gb, 1, "withdrawn", "sami", (gb :> 1)))

MCInvoices == (<<amel, ga, 0>> :> [due |-> 2, paid |-> 1])
MCLedger == {[bill |-> <<amel, ga, 0>>, nth |-> 1, prof |-> ali]}

\* One row the school has already, one of a group it has not.
MCRosters == {<<"one", "maths", "ben", "B", "sami">>, <<"one", "maths", "ben", "C", "sami">>}
MCNames == {"one", "two", "maths", "arts", "ali", "ben", "A", "B", "C", "amel", "sami", None}
MCTaught == {<<gb, ben>>}
===============================================================================
