\* Two overlapping drain cycles that ship different batches under one key to a
\* WebDAV target, snapshots and pruning, with every fault.
CONSTANTS
    e1 = e1  e2 = e2  t1 = t1  t2 = t2  d1 = d1  d2 = d2  s1 = s1
    Entities = {e1, e2}
    Targets = {t1}
    TargetOrder <- Order_1
    Kind <- Kind_WebDav
    Drains = {d1, d2}
    Snapshots = {s1}
    MaxSeq = 3
    MaxOpen = 2
    MaxDay = 1
    BatchMax = 3
    MaxAttempts = 2
    Retention = 0
    Faults = {"offline", "lostAck", "torn", "resent", "dbError", "crash"}
SPECIFICATION Spec
SYMMETRY Symmetric
VIEW View_NoSnapshots
CONSTRAINT Few
INVARIANTS TypeOK SentIsStored
