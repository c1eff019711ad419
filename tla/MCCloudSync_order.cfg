\* Two business transactions commit out of the order of their sequence numbers.
CONSTANTS
    e1 = e1  e2 = e2  t1 = t1  t2 = t2  d1 = d1  d2 = d2  s1 = s1
    Entities = {e1, e2}
    Targets = {t1}
    TargetOrder <- Order_1
    Kind <- Kind_Folder
    Drains = {d1}
    Snapshots = {}
    MaxSeq = 3
    MaxOpen = 2
    MaxDay = 1
    BatchMax = 2
    MaxAttempts = 2
    Retention = 1
    Faults = {}
SPECIFICATION Spec
INVARIANT RestoreIsNewest
