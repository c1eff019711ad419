---------------------------- MODULE RestoreReplay ----------------------------
(***************************************************************************)
(* What RestoreService rebuilds from one target (cloud-backup/restore/     *)
(* restore.service.ts): the latest snapshot, then every event batch newer  *)
(* than it, sorted by the first sequence number.  The content of an entity *)
(* is the sequence number of the write that produced it (0: never written).*)
(*                                                                         *)
(* A batch is [day, from, to, rows, whole]; a snapshot [day, seq, image].  *)
(***************************************************************************)
EXTENDS Integers, FiniteSets, SequencesExt, FiniteSetsExt

\* Snapshots sort by key, that is by day and then by zero-padded sequence.
KeyBefore(a, b) == a.day < b.day \/ (a.day = b.day /\ a.seq < b.seq)

Latest(snapshots) ==
    CHOOSE s \in snapshots : \A other \in snapshots : ~KeyBefore(s, other)

\* The sequence number the plan resumes after: seq_to of the latest snapshot.
AppliedThrough(snapshots) == IF snapshots = {} THEN 0 ELSE Latest(snapshots).seq

\* (mutant) batches are not sorted
SortedByFrom_Unsorted(order) == TRUE

SortedByFrom(order) ==
    \A i, j \in DOMAIN order : i < j => order[i].from <= order[j].from

\* The orders in which the newer batches may be replayed: sorted by their first
\* number; batches that share it come as the provider happens to list them.
ReplayOrders(snapshots, batches) ==
    LET newer == {b \in batches : b.to > AppliedThrough(snapshots)} IN
    {order \in SetToSeqs(newer) : SortedByFrom(order)}

\* One batch, applied row by row in ascending order above the resume point:
\* the last row of an entity wins.
ApplyBatch(state, batch, entityOf, through) ==
    [e \in DOMAIN state |->
        LET rows == {n \in batch.rows : n > through /\ entityOf[n] = e} IN
        IF rows = {} THEN state[e] ELSE Max(rows)]

\* The database after loading the snapshot and replaying in the given order.
Restored(entities, entityOf, snapshots, order) ==
    LET through == AppliedThrough(snapshots)
        base == IF snapshots = {} THEN [e \in entities |-> 0]
                ELSE Latest(snapshots).image
    IN  FoldLeft(LAMBDA state, batch : ApplyBatch(state, batch, entityOf, through),
                 base, order)
=============================================================================
