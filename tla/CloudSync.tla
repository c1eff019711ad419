------------------------------ MODULE CloudSync ------------------------------
(***************************************************************************)
(* One school's backend shipping its writes to cloud storage               *)
(* (cloud-backup/): the capture triggers that queue a row in the same      *)
(* transaction as every business write, the drain cycles of the sync       *)
(* worker, the daily snapshot, and the targets that receive the objects.   *)
(*                                                                         *)
(* A row of sync_queue is its sequence number.  The content of an entity   *)
(* is the number of the write that produced it, so "which version" is a    *)
(* comparison.  One action per awaited call of the worker; the targets of  *)
(* a batch are tried one after the other, in the order they were created.  *)
(***************************************************************************)
EXTENDS Integers, Sequences, FiniteSets, RestoreReplay

CONSTANTS
    Entities,      \* rows of the synced business tables
    Targets,       \* the enabled storage targets
    TargetOrder,   \* the same, oldest first: the order of upload
    Kind,          \* the driver of each target
    Drains,        \* calls of drainOnce that may be in flight (timer, setup verification)
    Snapshots,     \* calls of runSnapshot that may be in flight (timer, manual)
    MaxSeq,        \* bound on sync_queue ids
    MaxOpen,       \* business transactions open at the same time
    MaxDay,        \* bound on calendar days
    BatchMax,      \* BATCH_MAX_ROWS
    MaxAttempts,   \* MAX_ATTEMPTS
    Retention,     \* SENT_RETENTION_DAYS
    Faults         \* what may go wrong

Kinds == {"folder", "dropbox", "webdav", "s3", "gdrive"}
AllFaults == {"offline", "lostAck", "torn", "resent", "dbError", "crash"}
Rows == 1..MaxSeq

ASSUME BoundsAssumption ==
    /\ MaxSeq \in Nat /\ MaxOpen \in Nat /\ MaxDay \in Nat \ {0} /\ BatchMax \in Nat
    /\ MaxAttempts \in Nat /\ Retention \in Nat
ASSUME EntitiesAssumption == Entities # {}
ASSUME TargetsAssumption ==
    /\ TargetOrder \in Seq(Targets)
    /\ \A i, j \in DOMAIN TargetOrder : TargetOrder[i] = TargetOrder[j] => i = j
    /\ Kind \in [Targets -> Kinds]
ASSUME FaultsAssumption == Faults \subseteq AllFaults

VARIABLES
    next,       \* the id sync_queue's sequence hands out next
    entity,     \* what each row is about
    born,       \* the day each row was captured
    status,     \* where each row is
    attempts,   \* how often each row failed
    db,         \* committed content of each entity
    day,        \* today
    syncing,    \* the worker's flag
    pc,         \* where each drain is
    upload,     \* the object each drain is shipping
    at,         \* the target each drain is at
    reached,    \* whether some target took it
    store,      \* event batches on each target
    misreported,\* history: rows a driver acknowledged without holding their batch whole
    snapPc,     \* where each snapshot is
    snap,       \* the snapshot being taken
    snapAt,     \* the target it is at
    snaps       \* snapshots on each target

queue == <<next, entity, born, status, attempts, db>>
drains == <<syncing, pc, upload, at, reached>>
cloud == <<store, misreported>>
shots == <<snapPc, snap, snapAt>>
vars == <<queue, day, drains, cloud, shots, snaps>>

\* unborn: not yet allocated; open: captured, its transaction not committed;
\* void: rolled back, a hole in the sequence; pruned: deleted after shipping.
RowStates == {"unborn", "open", "void", "pending", "failed", "sent", "pruned"}
Visible == {n \in Rows : status[n] \in {"pending", "failed", "sent"}}

NoUpload == [day |-> 0, from |-> 0, to |-> 0, rows |-> {}, whole |-> TRUE]
NoImage == [e \in Entities |-> 0]
NoSnap == [day |-> 0, seq |-> 0, image |-> NoImage]

Init ==
    /\ next = 1
    /\ entity = [n \in Rows |-> CHOOSE e \in Entities : TRUE]  \* set when captured
    /\ born = [n \in Rows |-> 0]
    /\ status = [n \in Rows |-> "unborn"]
    /\ attempts = [n \in Rows |-> 0]
    /\ db = NoImage
    /\ day = 1
    /\ syncing = FALSE
    /\ pc = [d \in Drains |-> "idle"]
    /\ upload = [d \in Drains |-> NoUpload]
    /\ at = [d \in Drains |-> 0]
    /\ reached = [d \in Drains |-> FALSE]
    /\ store = [t \in Targets |-> {}]
    /\ misreported = {}
    /\ snapPc = [s \in Snapshots |-> "idle"]
    /\ snap = [s \in Snapshots |-> NoSnap]
    /\ snapAt = [s \in Snapshots |-> 0]
    /\ snaps = [t \in Targets |-> {}]

(***************************************************************************)
(* Capture: iq_sync_capture inserts the row in the business transaction.   *)
(* The id comes from a sequence, so it is taken before the commit and lost *)
(* on rollback; two writes of one entity are ordered by its row lock.      *)
(***************************************************************************)
Open == {n \in Rows : status[n] = "open"}

Capture(e) ==
    /\ next <= MaxSeq
    /\ Cardinality(Open) < MaxOpen
    /\ \A n \in Open : entity[n] # e
    /\ entity' = [entity EXCEPT ![next] = e]
    /\ born' = [born EXCEPT ![next] = day]
    /\ status' = [status EXCEPT ![next] = "open"]
    /\ next' = next + 1
    /\ UNCHANGED <<attempts, db, day, drains, cloud, shots, snaps>>

CommitWrite(n) ==
    /\ status[n] = "open"
    /\ status' = [status EXCEPT ![n] = "pending"]
    /\ db' = [db EXCEPT ![entity[n]] = n]
    /\ UNCHANGED <<next, entity, born, attempts, day, drains, cloud, shots, snaps>>

RollBack(n) ==
    /\ status[n] = "open"
    /\ status' = [status EXCEPT ![n] = "void"]
    /\ UNCHANGED <<next, entity, born, attempts, db, day, drains, cloud, shots, snaps>>

(***************************************************************************)
(* drainOnce                                                               *)
(***************************************************************************)
\* The flag is looked at, then the state and the targets are awaited.
Enter(d) ==
    /\ pc[d] = "idle" /\ ~syncing
    /\ pc' = [pc EXCEPT ![d] = "entering"]
    /\ UNCHANGED <<queue, day, syncing, upload, at, reached, cloud, shots, snaps>>

\* (mutant) a failed row is left as it is
Requeue_Never(d) ==
    /\ pc[d] = "entering"
    /\ syncing' = TRUE
    /\ pc' = [pc EXCEPT ![d] = "requeued"]
    /\ UNCHANGED <<queue, day, upload, at, reached, cloud, shots, snaps>>

\* The flag is raised; failed rows under the ceiling are pending again.
Requeue(d) ==
    /\ pc[d] = "entering"
    /\ syncing' = TRUE
    /\ status' = [n \in Rows |-> IF status[n] = "failed" /\ attempts[n] < MaxAttempts
                                 THEN "pending" ELSE status[n]]
    /\ pc' = [pc EXCEPT ![d] = "requeued"]
    /\ UNCHANGED <<next, entity, born, attempts, db, day, upload, at, reached, cloud, shots, snaps>>

\* nextBatch: the oldest pending rows, at most BatchMax of them.
Oldest(rows) == {n \in rows : Cardinality({m \in rows : m < n}) < BatchMax}

\* What an idle worker remembers of its last cycle.
Rest(d) ==
    /\ pc' = [pc EXCEPT ![d] = "idle"]
    /\ syncing' = FALSE
    /\ upload' = [upload EXCEPT ![d] = NoUpload]
    /\ at' = [at EXCEPT ![d] = 0]
    /\ reached' = [reached EXCEPT ![d] = FALSE]

\* Nothing is pending: the cycle ends.
FindNothing(d) ==
    /\ pc[d] = "requeued"
    /\ {n \in Rows : status[n] = "pending"} = {}
    /\ Rest(d)
    /\ UNCHANGED <<queue, day, cloud, shots, snaps>>

\* The object's key is today's date and the first and last number.
Prepare(d) ==
    /\ pc[d] = "requeued"
    /\ LET rows == Oldest({n \in Rows : status[n] = "pending"}) IN
         /\ rows # {}
         /\ upload' = [upload EXCEPT ![d] = [day |-> day, from |-> Min(rows), to |-> Max(rows),
                                             rows |-> rows, whole |-> TRUE]]
    /\ at' = [at EXCEPT ![d] = 1]
    /\ pc' = [pc EXCEPT ![d] = "uploading"]
    /\ UNCHANGED <<queue, day, syncing, reached, cloud, shots, snaps>>

\* (mutant) the key names the day alone
SameKey_Day(a, b) == a.day = b.day

SameKey(a, b) == a.day = b.day /\ a.from = b.from /\ a.to = b.to

Holds(t, object) == \E o \in store[t] : SameKey(o, object)

\* The folder looks first and Dropbox adds in mode "add": a key that exists
\* makes the put fail.
Refuses(t, object) == Kind[t] \in {"folder", "dropbox"} /\ Holds(t, object)

\* WebDAV's putFileContents answers a key that exists with false, which the
\* driver does not look at: the put counts as done.
Ignores(t, object) == Kind[t] = "webdav" /\ Holds(t, object)

\* What target t holds after objects of one key were put: S3 replaces the one
\* it had, Drive keeps both.
With(t, objects) ==
    (IF Kind[t] = "s3" THEN {o \in store[t] : \A p \in objects : ~SameKey(o, p)} ELSE store[t])
    \cup objects

Taken(t, object) == IF Ignores(t, object) THEN store[t] ELSE With(t, {object})

Torn(object) == [object EXCEPT !.whole = FALSE]

\* S3, Drive and WebDAV retry the put with the stream they have already read
\* from: a retry stores what is left of it.  What the first attempt stored
\* stays: on Drive beside it, on WebDAV instead of it.
Resending == {"s3", "gdrive", "webdav"}
Resent(t, object) ==
    {With(t, {Torn(object)})}
    \cup CASE Kind[t] = "gdrive" -> {With(t, {object, Torn(object)})}
           [] Kind[t] = "webdav" -> {With(t, {object})}
           [] OTHER -> {}

AtTarget(d) == pc[d] = "uploading" /\ at[d] \in DOMAIN TargetOrder

NextTarget(d) == at' = [at EXCEPT ![d] = @ + 1]
UploadFrame == UNCHANGED <<queue, day, syncing, pc, upload, shots, snaps>>

\* The driver's put returned, with the target as it is now, and the bookkeeping
\* was written.
Acknowledge(d, held) ==
    /\ store' = [store EXCEPT ![TargetOrder[at[d]]] = held]
    /\ reached' = [reached EXCEPT ![d] = TRUE]
    /\ misreported' = IF \E o \in held : SameKey(o, upload[d]) /\ o.whole
                                          /\ upload[d].rows \subseteq o.rows
                      THEN misreported ELSE misreported \cup upload[d].rows
    /\ NextTarget(d)
    /\ UploadFrame

\* The put threw, or the bookkeeping after it did.
Disown(d, held) ==
    /\ store' = [store EXCEPT ![TargetOrder[at[d]]] = held]
    /\ NextTarget(d)
    /\ UNCHANGED <<reached, misreported>>
    /\ UploadFrame

\* The put returns.
PutSucceeds(d) ==
    /\ AtTarget(d)
    /\ LET t == TargetOrder[at[d]] IN
         ~Refuses(t, upload[d]) /\ Acknowledge(d, Taken(t, upload[d]))

\* (mutant) a failed put counts as reached
PutFails_Counted(d) ==
    /\ AtTarget(d)
    /\ "offline" \in Faults \/ Refuses(TargetOrder[at[d]], upload[d])
    /\ reached' = [reached EXCEPT ![d] = TRUE]
    /\ NextTarget(d)
    /\ UNCHANGED cloud
    /\ UploadFrame

\* The target is unreachable, or the key refused.
PutFails(d) ==
    /\ AtTarget(d)
    /\ "offline" \in Faults \/ Refuses(TargetOrder[at[d]], upload[d])
    /\ NextTarget(d)
    /\ UNCHANGED <<reached, cloud>>
    /\ UploadFrame

\* The object is stored, but its answer or the bookkeeping after it is lost.
PutUnacknowledged(d) ==
    /\ "lostAck" \in Faults
    /\ AtTarget(d)
    /\ LET t == TargetOrder[at[d]] IN
         ~Refuses(t, upload[d]) /\ Disown(d, Taken(t, upload[d]))

\* A write breaks off: on a folder, and on a WebDAV server that keeps what it
\* received, the file stays under the object's own name.
PutTorn(d) ==
    /\ "torn" \in Faults
    /\ AtTarget(d)
    /\ LET t == TargetOrder[at[d]] IN
         /\ Kind[t] \in {"folder", "webdav"}
         /\ ~Holds(t, upload[d])
         /\ Disown(d, With(t, {Torn(upload[d])}))

\* An attempt fails and is repeated with the rest of the stream; in the end the
\* put returns or gives up.
PutResent(d) ==
    /\ "resent" \in Faults
    /\ AtTarget(d)
    /\ LET t == TargetOrder[at[d]] IN
         /\ Kind[t] \in Resending
         /\ ~Ignores(t, upload[d])
         /\ \E held \in Resent(t, upload[d]) : Acknowledge(d, held) \/ Disown(d, held)

\* (mutant) a failure counts down
Mark_CountsDown(d) ==
    /\ pc[d] = "uploading" /\ at[d] \notin DOMAIN TargetOrder
    /\ LET after == IF reached[d] THEN "sent" ELSE "failed" IN
         status' = [n \in Rows |-> IF n \in upload[d].rows THEN after ELSE status[n]]
    /\ attempts' = [n \in Rows |->
                      IF ~reached[d] /\ n \in upload[d].rows THEN attempts[n] - 1 ELSE attempts[n]]
    /\ Rest(d)
    /\ UNCHANGED <<next, entity, born, db, day, cloud, shots, snaps>>

\* markSent or markFailed, by id; a row already pruned is not there to update.
Mark(d) ==
    /\ pc[d] = "uploading" /\ at[d] \notin DOMAIN TargetOrder
    /\ LET rows == {n \in upload[d].rows : status[n] # "pruned"} IN
       IF reached[d]
       THEN /\ status' = [n \in Rows |-> IF n \in rows THEN "sent" ELSE status[n]]
            /\ UNCHANGED attempts
       ELSE /\ status' = [n \in Rows |-> IF n \in rows THEN "failed" ELSE status[n]]
            /\ attempts' = [n \in Rows |-> attempts[n] + IF n \in rows THEN 1 ELSE 0]
    /\ Rest(d)
    /\ UNCHANGED <<next, entity, born, db, day, cloud, shots, snaps>>

\* A query of the cycle throws: caught, and the flag lowered on the way out.
DrainFails(d) ==
    /\ "dbError" \in Faults
    /\ pc[d] \in {"requeued", "uploading"}
    /\ Rest(d)
    /\ UNCHANGED <<queue, day, cloud, shots, snaps>>

(***************************************************************************)
(* runSnapshot: pg_dump sees the database as it is when it starts; the     *)
(* sequence number it is filed under is read when it has finished.         *)
(***************************************************************************)
StartDump(s) ==
    /\ snapPc[s] = "idle"
    /\ snapPc' = [snapPc EXCEPT ![s] = "dumping"]
    /\ snap' = [snap EXCEPT ![s] = [NoSnap EXCEPT !.image = db]]
    /\ UNCHANGED <<queue, day, drains, cloud, snapAt, snaps>>

\* max(id) over the rows committed and not pruned, plus one.
Covers == IF Visible = {} THEN 1 ELSE Max(Visible) + 1

ReadMax(s) ==
    /\ snapPc[s] = "dumping"
    /\ snap' = [snap EXCEPT ![s] = [@ EXCEPT !.day = day, !.seq = Covers]]
    /\ snapAt' = [snapAt EXCEPT ![s] = 1]
    /\ snapPc' = [snapPc EXCEPT ![s] = "shipping"]
    /\ UNCHANGED <<queue, day, drains, cloud, snaps>>

SameShot(a, b) == a.day = b.day /\ a.seq = b.seq

HoldsShot(t, s) == \E o \in snaps[t] : SameShot(o, snap[s])

ShotRefused(t, s) == Kind[t] \in {"folder", "dropbox"} /\ HoldsShot(t, s)

ShipSnapshot(s) ==
    /\ snapPc[s] = "shipping" /\ snapAt[s] \in DOMAIN TargetOrder
    /\ LET t == TargetOrder[snapAt[s]] IN
         /\ ~ShotRefused(t, s)
         /\ snaps' = [snaps EXCEPT ![t] =
                IF Kind[t] = "webdav" /\ HoldsShot(t, s) THEN @
                ELSE (IF Kind[t] = "s3" THEN {o \in @ : ~SameShot(o, snap[s])} ELSE @)
                     \cup {snap[s]}]
    /\ snapAt' = [snapAt EXCEPT ![s] = @ + 1]
    /\ UNCHANGED <<queue, day, drains, cloud, snapPc, snap>>

ShipFails(s) ==
    /\ snapPc[s] = "shipping" /\ snapAt[s] \in DOMAIN TargetOrder
    /\ "offline" \in Faults \/ ShotRefused(TargetOrder[snapAt[s]], s)
    /\ snapAt' = [snapAt EXCEPT ![s] = @ + 1]
    /\ UNCHANGED <<queue, day, drains, cloud, snapPc, snap, snaps>>

RestShot(s) ==
    /\ snapPc' = [snapPc EXCEPT ![s] = "idle"]
    /\ snap' = [snap EXCEPT ![s] = NoSnap]
    /\ snapAt' = [snapAt EXCEPT ![s] = 0]

\* (mutant) the retention is applied to every old row, shipped or not
Prunable_Unshipped == {n \in Rows : status[n] \in {"sent", "pending"} /\ born[n] + Retention <= day}

Prunable == {n \in Rows : status[n] = "sent" /\ born[n] + Retention <= day}

\* snapshotNow prunes after its snapshot, however many targets took it.
FinishDaily(s) ==
    /\ snapPc[s] = "shipping" /\ snapAt[s] \notin DOMAIN TargetOrder
    /\ status' = [n \in Rows |-> IF n \in Prunable THEN "pruned" ELSE status[n]]
    /\ RestShot(s)
    /\ UNCHANGED <<next, entity, born, attempts, db, day, drains, cloud, snaps>>

\* backupNow, and setup: no pruning.
FinishManual(s) ==
    /\ snapPc[s] = "shipping" /\ snapAt[s] \notin DOMAIN TargetOrder
    /\ RestShot(s)
    /\ UNCHANGED <<queue, day, drains, cloud, snaps>>

(***************************************************************************)
(* The machine                                                             *)
(***************************************************************************)
NextDay ==
    /\ day < MaxDay
    /\ day' = day + 1
    /\ UNCHANGED <<queue, drains, cloud, shots, snaps>>

\* The backend stops: what it held in memory is gone, and the open business
\* transactions roll back.
Crash ==
    /\ "crash" \in Faults
    /\ \/ Open # {}
       \/ \E d \in Drains : pc[d] # "idle"
       \/ \E s \in Snapshots : snapPc[s] # "idle"
    /\ status' = [n \in Rows |-> IF n \in Open THEN "void" ELSE status[n]]
    /\ syncing' = FALSE
    /\ pc' = [d \in Drains |-> "idle"]
    /\ upload' = [d \in Drains |-> NoUpload]
    /\ at' = [d \in Drains |-> 0]
    /\ reached' = [d \in Drains |-> FALSE]
    /\ snapPc' = [s \in Snapshots |-> "idle"]
    /\ snap' = [s \in Snapshots |-> NoSnap]
    /\ snapAt' = [s \in Snapshots |-> 0]
    /\ UNCHANGED <<next, entity, born, attempts, db, day, cloud, snaps>>

\* What the worker does by itself, one awaited call after the other.
Work(d) ==
    \/ Enter(d) \/ Requeue(d) \/ FindNothing(d) \/ Prepare(d)
    \/ PutSucceeds(d) \/ PutFails(d) \/ Mark(d)

Next ==
    \/ \E e \in Entities : Capture(e)
    \/ \E n \in Rows : CommitWrite(n) \/ RollBack(n)
    \/ \E d \in Drains : \/ Work(d) \/ PutUnacknowledged(d) \/ PutTorn(d) \/ PutResent(d)
                         \/ DrainFails(d)
    \/ \E s \in Snapshots : \/ StartDump(s) \/ ReadMax(s) \/ ShipSnapshot(s)
                            \/ ShipFails(s) \/ FinishDaily(s) \/ FinishManual(s)
    \/ NextDay
    \/ Crash

Spec == Init /\ [][Next]_vars

\* The timer re-arms itself after every cycle, so the worker keeps working.
FairSpec == Spec /\ \A d \in Drains : WF_vars(Work(d))
-----------------------------------------------------------------------------
(***************************************************************************)
(* What should hold                                                        *)
(***************************************************************************)
Uploads == [day : 0..MaxDay, from : 0..MaxSeq, to : 0..MaxSeq, rows : SUBSET Rows,
            whole : BOOLEAN]
Images == [Entities -> 0..MaxSeq]
Shots == [day : 0..MaxDay, seq : 0..MaxSeq + 1, image : Images]

\* The shape of the state.
TypeOK ==
    /\ next \in 1..MaxSeq + 1
    /\ entity \in [Rows -> Entities]
    /\ born \in [Rows -> 0..MaxDay]
    /\ status \in [Rows -> RowStates]
    /\ attempts \in [Rows -> Nat]
    /\ db \in Images
    /\ day \in 1..MaxDay
    /\ syncing \in BOOLEAN
    /\ pc \in [Drains -> {"idle", "entering", "requeued", "uploading"}]
    /\ upload \in [Drains -> Uploads]
    /\ at \in [Drains -> 0..Len(TargetOrder) + 1]
    /\ reached \in [Drains -> BOOLEAN]
    /\ store \in [Targets -> SUBSET Uploads]
    /\ misreported \subseteq Rows
    /\ snapPc \in [Snapshots -> {"idle", "dumping", "shipping"}]
    /\ snap \in [Snapshots -> Shots]
    /\ snapAt \in [Snapshots -> 0..Len(TargetOrder) + 1]
    /\ snaps \in [Targets -> SUBSET Shots]

Stored(n) == \E t \in Targets : \E o \in store[t] : o.whole /\ n \in o.rows

\* Nothing is silently lost (sync-queue.service.ts:40-44): a row leaves the
\* queue, or is no longer retried as sent, only when some target holds it in a
\* readable batch, or when a driver acknowledged a put that left no such batch
\* (WebDAV on a key that exists, a put repeated with a half-read stream).
\* Whatever crashes, lost answers, torn files and late commits happened, the
\* worker itself loses nothing.
SentIsStored ==
    \A n \in Rows : status[n] \in {"sent", "pruned"} => Stored(n) \/ n \in misreported

\* The newest stored version of an entity on a target: in its latest snapshot
\* or in a batch.
Newest(t, e) ==
    Max({n \in Rows : entity[n] = e /\ \E o \in store[t] : n \in o.rows}
        \cup {IF snaps[t] = {} THEN 0 ELSE Latest(snaps[t]).image[e]})

\* A restore rebuilds the newest version of everything the target holds,
\* however the provider lists its objects (restore.service.ts:311).
RestoreIsNewest ==
    \A t \in Targets : \A order \in ReplayOrders(snaps[t], store[t]) :
        LET rebuilt == Restored(Entities, entity, snaps[t], order)
        IN  \A e \in Entities : rebuilt[e] = Newest(t, e)

Parked(n) == status[n] = "failed" /\ attempts[n] >= MaxAttempts

\* Every committed row is shipped in the end, or parked for the administrator
\* to see: no row is forgotten as pending.
EveryRowSettles ==
    \A n \in Rows : status[n] = "pending" ~> status[n] \in {"sent", "pruned"} \/ Parked(n)
=============================================================================
