---------------------------- MODULE MCNamespace ----------------------------
(* Two machines of one school, in six stories. *)
EXTENDS Namespace
CONSTANTS old, new, u1, u2, u3

MCHome == [m \in Machines |-> IF m = old THEN u1 ELSE u2]
Story(live, atOld, atNew, rows, troubles) ==
    [live |-> live, newest |-> IF new \in live THEN new ELSE old, rows |-> rows,
     net |-> troubles, does |-> [m \in Machines |-> IF m = old THEN atOld ELSE atNew]]

\* Both run, and may break down.
MCSplit == Story(Machines, {"work", "stop"}, {"work", "stop"}, 1, {"down", "unreadable"})
\* A second machine is set up beside the first, which is set up again.
MCJoin == Story({old}, {"setup", "replace", "backup", "verify"}, {"setup", "work"}, 1, {})
\* A new machine is restored while the old one still works, and stops now and then.
MCRestore == Story({old}, {"work"}, {"restore", "load", "adopt", "stop"}, 2, {})
\* The same on a network that fails.
MCFlaky == Story({old}, {"work"}, {"restore", "load", "adopt"}, 2, {"down"})
\* The old one's transactions commit late while the new one is restored.
MCLate == Story({old}, {"work", "late"}, {"restore", "stop"}, 3, {})
\* A new machine is set up or restored after the old one's time, and the network fails.
MCOutage == Story({old}, {}, {"setup", "restore", "load", "adopt", "backup"}, 1, {"down"})
MCStories == {MCSplit, MCJoin, MCRestore, MCFlaky, MCLate, MCOutage}
=============================================================================
