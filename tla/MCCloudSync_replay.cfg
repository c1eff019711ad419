\* Transactions that commit in the order of their numbers, an unreliable network,
\* a folder and an S3 bucket.
CONSTANTS
    e1 = e1  e2 = e2  t1 = t1  t2 = t2  d1 = d1  d2 = d2  s1 = s1
    Entities = {e1, e2}
    Targets = {t1, t2}
    TargetOrder <- Order_2
    Kind <- Kind_FolderS3
    Drains = {d1}
    Snapshots = {}
    MaxSeq = 3
    MaxOpen = 1
    MaxDay = 2
    BatchMax = 2
    MaxAttempts = 2
    Retention = 1
    Faults = {"offline"}
SPECIFICATION FairSpec
INVARIANTS RestoreIsNewest SentIsStored
PROPERTIES EveryRowSettles
