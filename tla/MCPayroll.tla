------------------------------- MODULE MCPayroll -------------------------------
(* A professor who has earned something, and a pool of two connections. *)
EXTENDS Payroll, TLC

CONSTANTS q1, q2, q3, ali

Arrangement(model, percentage, fixed) == [model |-> model, percentage |-> percentage, fixed |-> fixed]
MCAtFirst == Arrangement("percentage", 50, None)
MCRules == {Arrangement("hybrid", 100, 1), Arrangement("fixed_per_student", None, 1)}
MCEarnings == [p \in Profs |-> 3]
MCReceipts == {1, -1}
MCSeats == {[groups |-> 1, students |-> n] : n \in {1, 2}}
================================================================================
