----------------------------- MODULE Namespace -----------------------------
(***************************************************************************)
(* Several machines and one school's namespace in the cloud: setting the   *)
(* backup up, the registry of instances that keeps two machines from       *)
(* writing one history, the sync worker's life (boot, drain cycles,        *)
(* heartbeats, snapshots), and the restore job of a new machine            *)
(* (cloud-backup/setup, registry, worker, restore).                        *)
(*                                                                         *)
(* How a drain chooses and marks its rows, and which version a replay      *)
(* leaves last, is CloudSync's; here a batch is the numbers it holds, and  *)
(* the first and last of them, under one key.  An identity is both an      *)
(* instance's uuid and the salt made with it: step 1 of the setup makes    *)
(* the two together.  There is one destination.                            *)
(***************************************************************************)
EXTENDS Integers, FiniteSets, FiniteSetsExt

CONSTANTS
    Machines,   \* computers the school has had
    Ids,        \* identities at hand: random uuids, one of them new at any time
    Home,       \* the identity of each machine that is set up when the story begins
    None,       \* no identity, no object, no job
    TTL,        \* ACTIVE_TTL_MS, in hours
    MaxSeq,     \* rows a story may follow; its last stands for all later ones
    Stories     \* how things stand at first, and what may happen then

Doings == {"work", "late", "stop", "setup", "replace", "verify", "backup", "restore",
          "load", "adopt"}
Troubles == {"down", "unreadable"}
Seqs == 1..MaxSeq
AllStories ==
    [live : SUBSET Machines, newest : Machines, does : [Machines -> SUBSET Doings],
     rows : Seqs, net : SUBSET Troubles]

ASSUME NamespaceAssumption ==
    /\ TTL \in Nat \ {0} /\ MaxSeq \in Nat \ {0} /\ None \notin Ids
    /\ Home \in [Machines -> Ids] /\ \A m, o \in Machines : Home[m] = Home[o] => m = o
    /\ Stories \subseteq AllStories
    /\ \A s \in Stories : s.live # {} => s.newest \in s.live

VARIABLES
    story,     \* the same all along
    up,        \* which machines run the backend
    pc,        \* the call each machine is in
    row,       \* cloud_state: identity, salt, setup_complete
    data,      \* rows of history in each machine's database
    numbers,   \* of sync_queue: the last given out, the highest committed, one held open
    pending,   \* rows of its sync queue that are not shipped
    worker,    \* what the worker loaded at boot, and whether its timers run
    conflict,  \* the worker's conflict field
    cycle,     \* what this hour's drain cycle did
    job,       \* restore_progress
    registry,  \* meta/instances.json: latest record of every instance
    salt,      \* meta/salt.json and meta/check.json.enc
    batches,   \* event batches in the namespace
    snapshot,  \* the newest snapshot
    net        \* the network

machine == <<up, pc, row, data, numbers, pending, worker, conflict, cycle, job>>
cloud == <<registry, salt, batches, snapshot>>
vars == <<story, machine, cloud, net>>

NoRow == [uuid |-> None, key |-> None, setup |-> FALSE]
NoWorker == [uuid |-> None, key |-> None, timers |-> FALSE]
NoJob == [state |-> "none", shot |-> None, through |-> 0, listed |-> {}, due |-> {}]
NoNumbers == [last |-> 0, top |-> 0, open |-> 0]
Idle == [at |-> "idle"]

Does(m, what) == what \in story.does[m]

\* A machine that was set up and restarted since runs with its timers armed and nothing
\* shipped yet.  Where there are two, the newest was let in when the other had been quiet
\* for so long that its claim had lapsed.
Live(m) == m \in story.live
Init ==
    /\ story \in Stories
    /\ up = [m \in Machines |-> TRUE]
    /\ pc = [m \in Machines |-> Idle]
    /\ row = [m \in Machines |->
            IF Live(m) THEN [uuid |-> Home[m], key |-> Home[m], setup |-> TRUE] ELSE NoRow]
    /\ data = [m \in Machines |-> {}]
    /\ numbers = [m \in Machines |-> NoNumbers]
    /\ pending = [m \in Machines |-> {}]
    /\ worker = [m \in Machines |->
            IF Live(m) THEN [uuid |-> Home[m], key |-> Home[m], timers |-> TRUE] ELSE NoWorker]
    /\ conflict = [m \in Machines |-> FALSE]
    /\ cycle = [m \in Machines |-> "none"]
    /\ job = [m \in Machines |-> NoJob]
    /\ registry = {[uuid |-> Home[m], host |-> m, age |-> IF m = story.newest THEN 0 ELSE TTL] :
                        m \in story.live}
    /\ salt = IF story.live = {} THEN None ELSE Home[story.newest]
    /\ batches = {}
    /\ snapshot = IF story.live = {} THEN None
                  ELSE [seq |-> 1, last |-> 0, key |-> salt, data |-> {}, pending |-> {},
                        row |-> row[story.newest]]
    /\ net = "up"

-----------------------------------------------------------------------------
(* Helpers *)

\* randomUUID and makeSchoolSalt: an identity nothing in the system mentions.
Mentioned ==
    UNION {{row[m].uuid, row[m].key, worker[m].uuid, worker[m].key} : m \in Machines}
        \cup {r.uuid : r \in registry} \cup {b.key : b \in batches} \cup {salt}
        \cup {s.key : s \in {snapshot} \ {None}}
        \cup {s.row.uuid : s \in {snapshot} \ {None}}
        \cup {job[m].shot.key : m \in {n \in Machines : job[n].shot # None}}
        \cup {pc[m].uuid : m \in {n \in Machines : "uuid" \in DOMAIN pc[n]}}
        \cup {pc[m].key : m \in {n \in Machines : "key" \in DOMAIN pc[n]}}
NewIds == Ids \ Mentioned
NewId == CHOOSE id \in NewIds : TRUE

Ready(m) == up[m] /\ pc[m] = Idle
Reachable == net # "down"

\* (mutant) a claim is for ever
Rivals_ForEver(records, uuid) == {r \in records : r.uuid # uuid}

\* A claim without a heartbeat for ACTIVE_TTL_MS is a dead machine's.
Rivals(records, uuid) == {r \in records : r.uuid # uuid /\ r.age < TTL}

Finish(m) == pc' = [pc EXCEPT ![m] = Idle]

\* claim(): the registry object is read; read() takes any failure for "not created yet".
ReadRegistry(m, uuid, purpose) ==
    pc' = [pc EXCEPT ![m] = [at |-> "claim", uuid |-> uuid, for |-> purpose,
                             copy |-> IF net = "up" THEN registry ELSE {}]]

\* What claim() writes back: the copy it read, with its own record renewed.
Renewed(m) ==
    {r \in pc[m].copy : r.uuid # pc[m].uuid} \cup {[uuid |-> pc[m].uuid, host |-> m, age |-> 0]}
Collides(m) == Rivals(Renewed(m), pc[m].uuid) # {}

\* Its number is one above the highest the dump can see.  The newest snapshot is the last
\* by name, which is its day and then its number.
Upload(m, key) ==
    LET shot == [seq |-> numbers[m].top + 1, last |-> numbers[m].last, key |-> key,
                 data |-> data[m], pending |-> pending[m], row |-> row[m]]
    IN \/ snapshot' = shot
       \/ /\ snapshot # None /\ snapshot.seq > shot.seq    \* of the same day
          /\ UNCHANGED snapshot

-----------------------------------------------------------------------------
(* Setup *)

\* step1: the local row is re-keyed first, then the namespace's salt replaced.
\* A configured install must confirm; nothing looks at the namespace.
Step1(m) ==
    /\ Does(m, "setup") /\ Ready(m) /\ Reachable
    /\ row[m].setup /\ row[m].key # None => Does(m, "replace")
    /\ NewIds # {}
    /\ row' = [row EXCEPT ![m] = [uuid |-> NewId, key |-> NewId, setup |-> TRUE]]
    /\ pc' = [pc EXCEPT ![m] = [at |-> "seed", key |-> NewId]]
    /\ UNCHANGED <<up, data, numbers, pending, worker, conflict, cycle, job, cloud, net, story>>

\* seedCloud; an unreachable target fails the call, the row stays.
Seed(m) ==
    /\ pc[m].at = "seed"
    /\ salt' = IF Reachable THEN pc[m].key ELSE salt
    /\ Finish(m)
    /\ UNCHANGED <<up, row, data, numbers, pending, worker, conflict, cycle, job, registry, batches,
                   snapshot, net, story>>

\* finish: claims before the first snapshot.
FinishSetup(m) ==
    /\ Does(m, "setup") /\ Ready(m) /\ row[m].key # None
    /\ ReadRegistry(m, row[m].uuid, "finish")
    /\ UNCHANGED <<up, row, data, numbers, pending, worker, conflict, cycle, job, cloud, net, story>>

\* verify: a drain with the state of the database, not the worker's.
Verify(m) ==
    /\ Does(m, "verify") /\ Ready(m) /\ worker[m].key # None /\ ~conflict[m]
    /\ row[m].key # None
    /\ pc' = [pc EXCEPT ![m] = [at |-> "drain", uuid |-> row[m].uuid, key |-> row[m].key]]
    /\ UNCHANGED <<up, row, data, numbers, pending, worker, conflict, cycle, job, cloud, net, story>>

\* backup/now: a snapshot with the database's key.
BackupNow(m) ==
    /\ Does(m, "backup") /\ Ready(m) /\ row[m].key # None /\ Reachable
    /\ Upload(m, row[m].key)
    /\ UNCHANGED <<machine, registry, salt, batches, net, story>>

-----------------------------------------------------------------------------
(* The worker *)

\* onApplicationBootstrap: without a salt or a key the worker stays idle.
Boot(m) ==
    /\ ~up[m]
    /\ up' = [up EXCEPT ![m] = TRUE]
    /\ IF row[m].key = None
       THEN UNCHANGED <<pc, worker>>
       ELSE /\ worker' = [worker EXCEPT ![m] = [uuid |-> row[m].uuid, key |-> row[m].key,
                                                timers |-> FALSE]]
            /\ ReadRegistry(m, row[m].uuid, "boot")
    /\ UNCHANGED <<row, data, numbers, pending, conflict, cycle, job, cloud, net, story>>

\* A transaction commits the row a trigger queued under its number.
Commit(m, n) ==
    /\ data' = [data EXCEPT ![m] = @ \cup {n}]
    /\ pending' = [pending EXCEPT ![m] = @ \cup {n}]

NextNumber(m) == IF numbers[m].last >= story.rows THEN numbers[m].last ELSE numbers[m].last + 1

\* The school works.
Write(m) ==
    /\ Does(m, "work") /\ Ready(m) /\ NextNumber(m) # numbers[m].open
    /\ numbers' = [numbers EXCEPT ![m].last = NextNumber(m), ![m].top = NextNumber(m)]
    /\ Commit(m, NextNumber(m))
    /\ UNCHANGED <<up, pc, row, worker, conflict, cycle, job, cloud, net, story>>

\* A longer transaction has its number before it commits, or rolls back.
Hold(m) ==
    /\ Does(m, "late") /\ Ready(m) /\ numbers[m].open = 0 /\ numbers[m].last < story.rows
    /\ numbers' = [numbers EXCEPT ![m].last = NextNumber(m), ![m].open = NextNumber(m)]
    /\ UNCHANGED <<up, pc, row, data, pending, worker, conflict, cycle, job, cloud, net, story>>

EndHeld(m) ==
    /\ Ready(m) /\ numbers[m].open # 0
    /\ \/ /\ Commit(m, numbers[m].open)
          /\ numbers' = [numbers EXCEPT ![m].top = IF @ > numbers[m].open THEN @
                                                   ELSE numbers[m].open,
                                        ![m].open = 0]
       \/ /\ numbers' = [numbers EXCEPT ![m].open = 0]
          /\ UNCHANGED <<data, pending>>
    /\ UNCHANGED <<up, pc, row, worker, conflict, cycle, job, cloud, net, story>>

\* scheduleDrain: the cycle runs with the state loaded at boot.
TimerFires(m) ==
    /\ Ready(m) /\ worker[m].timers /\ cycle[m] = "none"
    /\ IF conflict[m]
       THEN /\ cycle' = [cycle EXCEPT ![m] = "paused"]
            /\ UNCHANGED pc
       ELSE /\ pc' = [pc EXCEPT ![m] = [at |-> "drain", uuid |-> worker[m].uuid,
                                        key |-> worker[m].key]]
            /\ UNCHANGED cycle
    /\ UNCHANGED <<up, row, data, numbers, pending, worker, conflict, job, cloud, net, story>>

\* drainOnce with an empty queue returns before the heartbeat.
NothingToDrain(m) ==
    /\ pc[m].at = "drain" /\ pending[m] = {}
    /\ cycle' = [cycle EXCEPT ![m] = "quiet"]
    /\ Finish(m)
    /\ UNCHANGED <<up, row, data, numbers, pending, worker, conflict, job, cloud, net, story>>

\* A batch has the numbers of its first and last row; numbers between may be missing.
Batch(rows, key) == [from |-> Min(rows), to |-> Max(rows), rows |-> rows, key |-> key]

\* drainOnce: what is pending, never more than a batch takes, goes as one; rows that no
\* target takes are requeued by the next cycle.
Drain(m) ==
    /\ pc[m].at = "drain" /\ pending[m] # {}
    /\ IF Reachable
       THEN /\ batches' = batches \cup {Batch(pending[m], pc[m].key)}
            /\ pending' = [pending EXCEPT ![m] = {}]
       ELSE UNCHANGED <<batches, pending>>
    /\ cycle' = [cycle EXCEPT ![m] = "shipped"]
    /\ ReadRegistry(m, pc[m].uuid, "beat")
    /\ UNCHANGED <<up, row, data, numbers, worker, conflict, job, registry, salt, snapshot, net, story>>

\* snapshotNow: at the quiet hour, with the state loaded at boot.
NightlySnapshot(m) ==
    /\ Does(m, "backup") /\ Ready(m) /\ worker[m].timers /\ Reachable
    /\ Upload(m, worker[m].key)
    /\ UNCHANGED <<machine, registry, salt, batches, net, story>>

-----------------------------------------------------------------------------
(* The second half of claim(), and what each caller does with the verdict *)

WriteClaim(m, purpose) ==
    /\ pc[m].at = "claim" /\ pc[m].for = purpose
    /\ Reachable
    /\ registry' = Renewed(m)

PutFails(m, purpose) ==
    /\ pc[m].at = "claim" /\ pc[m].for = purpose
    /\ ~Reachable
    /\ UNCHANGED registry

\* Bootstrap: a conflict leaves the timers unarmed; an unreachable target does not.
StartTimers(m) ==
    /\ worker' = [worker EXCEPT ![m].timers = TRUE]
    /\ conflict' = [conflict EXCEPT ![m] = FALSE]

BootRefused(m) ==
    /\ WriteClaim(m, "boot") /\ Collides(m)
    /\ conflict' = [conflict EXCEPT ![m] = TRUE]
    /\ Finish(m)
    /\ UNCHANGED <<up, row, data, numbers, pending, worker, cycle, job, salt, batches, snapshot, net, story>>

\* ensureMetaObjects: a check object this key does not open is rewritten.
BootAccepted(m) ==
    /\ \/ /\ WriteClaim(m, "boot") /\ ~Collides(m)
          /\ salt' = worker[m].key
       \/ /\ PutFails(m, "boot")
          /\ UNCHANGED salt
    /\ StartTimers(m)
    /\ Finish(m)
    /\ UNCHANGED <<up, row, data, numbers, pending, cycle, job, batches, snapshot, net, story>>

\* (mutant) the heartbeat does not look at the others' claims
Heartbeat_Blind(m) ==
    /\ WriteClaim(m, "beat") \/ PutFails(m, "beat")
    /\ conflict' = [conflict EXCEPT ![m] = FALSE]
    /\ Finish(m)
    /\ UNCHANGED <<up, row, data, numbers, pending, worker, cycle, job, salt, batches, snapshot, net, story>>

Heartbeat(m) ==
    /\ \/ /\ WriteClaim(m, "beat")
          /\ conflict' = [conflict EXCEPT ![m] = Collides(m)]
       \/ /\ PutFails(m, "beat")
          /\ conflict' = [conflict EXCEPT ![m] = FALSE]
    /\ Finish(m)
    /\ UNCHANGED <<up, row, data, numbers, pending, worker, cycle, job, salt, batches, snapshot, net, story>>

SetupRefused(m) ==
    /\ WriteClaim(m, "finish") /\ Collides(m)
    /\ Finish(m)
    /\ UNCHANGED <<up, row, data, numbers, pending, worker, conflict, cycle, job, salt, batches,
                   snapshot, net, story>>

SetupFinished(m) ==
    /\ \/ /\ WriteClaim(m, "finish") /\ ~Collides(m)
          /\ Upload(m, row[m].key)
       \/ /\ PutFails(m, "finish")
          /\ UNCHANGED snapshot
    /\ Finish(m)
    /\ UNCHANGED <<up, row, data, numbers, pending, worker, conflict, cycle, job, salt, batches, net, story>>

-----------------------------------------------------------------------------
(* Restore on a new machine *)

\* assertDbIsFresh
Fresh(m) == ~row[m].setup
Restores(m) == Does(m, "restore") /\ Ready(m) /\ Fresh(m)

\* startRestore: the phrase is the one the salt was made with, or the call is refused.
StartRestore(m) ==
    /\ Restores(m) /\ net = "up" /\ salt # None
    /\ job' = [job EXCEPT ![m] = [state |-> "discovered", shot |-> snapshot, listed |-> {}, due |-> {},
                                  through |-> IF snapshot = None THEN 0 ELSE snapshot.seq]]
    /\ UNCHANGED <<up, pc, row, data, numbers, pending, worker, conflict, cycle, cloud, net, story>>

\* applySnapshot: the whole database is in the dump, cloud_state and the queue too.
\* psql runs each statement on its own and stops at the first that fails: onto tables that
\* exist, a CREATE.
ApplySnapshot(m) ==
    /\ Does(m, "load") /\ Restores(m) /\ net = "up"
    /\ job[m].state # "none" /\ job[m].shot # None
    /\ job[m].shot.key = salt
    /\ \/ /\ data' = [data EXCEPT ![m] = job[m].shot.data]
          /\ pending' = [pending EXCEPT ![m] = job[m].shot.pending]
          /\ numbers' = [numbers EXCEPT ![m] = [last |-> job[m].shot.last,
                                                top |-> job[m].shot.seq - 1, open |-> 0]]
          /\ row' = [row EXCEPT ![m] = job[m].shot.row]
          /\ job' = [job EXCEPT ![m].state = "snapshot_applied"]
       \/ /\ \E part \in {row[m], job[m].shot.row} : row' = [row EXCEPT ![m] = part]
          /\ UNCHANGED <<data, numbers, pending, job>>
    /\ UNCHANGED <<up, pc, worker, conflict, cycle, cloud, net, story>>

\* Only a batch's last number is compared with the saved position.
Newer(m) == {b \in batches : b.to > job[m].through}

\* The rows a replay has to apply: those above the position it starts from.
Due(m) == {n \in UNION {b.rows : b \in Newer(m)} : n > job[m].through}

\* replayEvents: the batches that reach above the saved position are listed.
StartReplay(m) ==
    /\ Restores(m) /\ net = "up" /\ job[m].state # "none"
    /\ pc' = [pc EXCEPT ![m] = [at |-> "replay", key |-> salt, since |-> job[m].through,
                                to |-> 0, todo |-> Newer(m)]]
    /\ job' = [job EXCEPT ![m].listed = @ \cup Newer(m), ![m].due = @ \cup Due(m)]
    /\ UNCHANGED <<up, row, data, numbers, pending, worker, conflict, cycle, cloud, net, story>>

\* (mutant) the batches are taken as they are listed
NextBatch_Unsorted(m) == pc[m].todo

\* By first number.
NextBatch(m) == {b \in pc[m].todo : \A c \in pc[m].todo : b.from <= c.from}

\* One transaction per batch, without the rows at or below the position the call found; an
\* object the key does not open ends the call.
ReplayBatch(m) ==
    /\ pc[m].at = "replay"
    /\ \E b \in NextBatch(m) :
        IF net = "up" /\ b.key = pc[m].key
        THEN /\ data' = [data EXCEPT ![m] = @ \cup {n \in b.rows : n > pc[m].since}]
             /\ pc' = [pc EXCEPT ![m].at = "applied", ![m].to = b.to, ![m].todo = @ \ {b}]
        ELSE /\ Finish(m)
             /\ UNCHANGED data
    /\ UNCHANGED <<up, row, numbers, pending, worker, conflict, cycle, job, cloud, net, story>>

\* Only then does the saved position move, to this batch's last number, be it lower.
SaveProgress(m) ==
    /\ pc[m].at = "applied"
    /\ job' = [job EXCEPT ![m].state = "replaying", ![m].through = pc[m].to]
    /\ pc' = [pc EXCEPT ![m].at = "replay"]
    /\ UNCHANGED <<up, row, data, numbers, pending, worker, conflict, cycle, cloud, net, story>>

EndReplay(m) ==
    /\ pc[m].at = "replay" /\ pc[m].todo = {}
    /\ job' = [job EXCEPT ![m].state = "replayed"]
    /\ Finish(m)
    /\ UNCHANGED <<up, row, data, numbers, pending, worker, conflict, cycle, cloud, net, story>>

\* finishRestore: every attempt claims under an identity of its own.
FinishRestore(m) ==
    /\ Does(m, "adopt") /\ Restores(m) /\ net = "up" /\ job[m].state = "replayed"
    /\ NewIds # {} /\ ReadRegistry(m, NewId, "adopt")
    /\ UNCHANGED <<up, row, data, numbers, pending, worker, conflict, cycle, job, cloud, net, story>>

AdoptionRefused(m) ==
    /\ \/ WriteClaim(m, "adopt") /\ Collides(m)
       \/ PutFails(m, "adopt")
    /\ Finish(m)
    /\ UNCHANGED <<up, row, data, numbers, pending, worker, conflict, cycle, job, salt, batches,
                   snapshot, net, story>>

\* The row keeps the salt it has; a row inserted here has none.
Adopted(m) ==
    /\ WriteClaim(m, "adopt") /\ ~Collides(m)
    /\ row' = [row EXCEPT ![m].uuid = pc[m].uuid, ![m].setup = TRUE]
    /\ job' = [job EXCEPT ![m].state = "complete"]
    /\ Finish(m)
    /\ UNCHANGED <<up, data, numbers, pending, worker, conflict, cycle, salt, batches, snapshot, net, story>>

CancelRestore(m) ==
    /\ Restores(m) /\ job[m].state # "none"
    /\ job' = [job EXCEPT ![m] = NoJob]
    /\ UNCHANGED <<up, pc, row, data, numbers, pending, worker, conflict, cycle, cloud, net, story>>

-----------------------------------------------------------------------------
(* The machines, the clock and the network *)

Stop(m) ==
    /\ Does(m, "stop") /\ up[m]
    /\ up' = [up EXCEPT ![m] = FALSE]
    /\ pc' = [pc EXCEPT ![m] = Idle]
    /\ worker' = [worker EXCEPT ![m] = NoWorker]
    /\ conflict' = [conflict EXCEPT ![m] = FALSE]
    /\ cycle' = [cycle EXCEPT ![m] = "none"]
    /\ numbers' = [numbers EXCEPT ![m].open = 0]
    /\ UNCHANGED <<row, data, pending, job, cloud, net, story>>

\* (mutant) ages are not capped
Tick_NoCap ==
    /\ \A m \in Machines :
        pc[m] = Idle /\ (up[m] /\ worker[m].timers => cycle[m] # "none")
    /\ cycle' = [m \in Machines |-> "none"]
    /\ registry' = {[r EXCEPT !.age = @ + 1] : r \in registry}
    /\ UNCHANGED <<up, pc, row, data, numbers, pending, worker, conflict, job, salt, batches, snapshot,
                   net, story>>

\* An hour: no call lasts as long, and every armed timer fires within it.
Tick ==
    /\ \A m \in Machines :
        pc[m] = Idle /\ (up[m] /\ worker[m].timers => cycle[m] # "none")
    /\ cycle' = [m \in Machines |-> "none"]
    /\ registry' = {[r EXCEPT !.age = IF @ = TTL THEN TTL ELSE @ + 1] : r \in registry}
    /\ UNCHANGED <<up, pc, row, data, numbers, pending, worker, conflict, job, salt, batches, snapshot,
                   net, story>>

\* An unreadable object can be written all the same: its download fails.
Network ==
    /\ net' \in (story.net \cup {"up"}) \ {net}
    /\ UNCHANGED <<machine, cloud, story>>

Worker(m) ==
    \/ TimerFires(m) \/ NothingToDrain(m) \/ Drain(m)
    \/ BootRefused(m) \/ BootAccepted(m) \/ Heartbeat(m)
    \/ SetupRefused(m) \/ SetupFinished(m) \/ Seed(m)
    \/ ReplayBatch(m) \/ SaveProgress(m) \/ EndReplay(m)
    \/ AdoptionRefused(m) \/ Adopted(m)

Admin(m) ==
    \/ Step1(m) \/ FinishSetup(m) \/ Verify(m) \/ BackupNow(m) \/ NightlySnapshot(m)
    \/ StartRestore(m) \/ ApplySnapshot(m) \/ StartReplay(m) \/ FinishRestore(m)
    \/ CancelRestore(m) \/ Write(m) \/ Hold(m) \/ EndHeld(m) \/ Boot(m) \/ Stop(m)

Next == Tick \/ Network \/ \E m \in Machines : Worker(m) \/ Admin(m)

Spec == Init /\ [][Next]_vars

\* An awaited call returns or fails, a timer fires; hours pass whatever the calls do.
FairSpec == Spec /\ SF_vars(Tick)
                /\ \A m \in Machines : WF_vars(Worker(m))

-----------------------------------------------------------------------------
(* Properties *)

Rows == [uuid : Ids \cup {None}, key : Ids \cup {None}, setup : BOOLEAN]
Shots == [seq : 1..MaxSeq + 1, last : 0..MaxSeq, key : Ids, data : SUBSET Seqs, pending : SUBSET Seqs, row : Rows]
Batches == [from : Seqs, to : Seqs, rows : SUBSET Seqs, key : Ids]
Records == [uuid : Ids, host : Machines, age : 0..TTL]

Calls ==
    [at : {"idle"}] \cup [at : {"seed"}, key : Ids] \cup [at : {"drain"}, uuid : Ids, key : Ids]
        \cup [at : {"claim"}, uuid : Ids, for : {"boot", "beat", "finish", "adopt"},
              copy : SUBSET Records]
        \cup [at : {"replay", "applied"}, key : Ids, since : 0..MaxSeq + 1,
              to : 0..MaxSeq, todo : SUBSET Batches]

\* Every variable has its type.
TypeOK ==
    /\ story \in Stories
    /\ up \in [Machines -> BOOLEAN] /\ conflict \in [Machines -> BOOLEAN]
    /\ pc \in [Machines -> Calls]
    /\ row \in [Machines -> Rows]
    /\ data \in [Machines -> SUBSET Seqs] /\ pending \in [Machines -> SUBSET Seqs]
    /\ numbers \in [Machines -> [last : 0..MaxSeq, top : 0..MaxSeq, open : 0..MaxSeq]]
    /\ worker \in [Machines -> [uuid : Ids \cup {None}, key : Ids \cup {None}, timers : BOOLEAN]]
    /\ cycle \in [Machines -> {"none", "paused", "quiet", "shipped"}]
    /\ job \in [Machines ->
                [state : {"none", "discovered", "snapshot_applied", "replaying", "replayed",
                          "complete"},
                 shot : Shots \cup {None}, through : 0..MaxSeq + 1,
                 listed : SUBSET Batches, due : SUBSET Seqs]]
    /\ registry \in SUBSET Records /\ salt \in Ids \cup {None}
    /\ batches \in SUBSET Batches /\ snapshot \in Shots \cup {None}
    /\ net \in Troubles \cup {"up"}

\* A listed batch reaches across this number without holding it: its row committed late.
SteppedOver(m, n) == \E b \in job[m].listed : b.from < n /\ n < b.to /\ n \notin b.rows

\* A restore that resumes after a failure or a crash, or after the position went down,
\* misses no row it had to apply: all at or below the saved position are in the database
\* (restore.service.ts:343-349), but for those another listed batch steps over.
ResumeMissesNothing ==
    \A m \in Machines : job[m].state \in {"replaying", "replayed", "complete"} =>
        \A n \in job[m].due : n <= job[m].through => n \in data[m] \/ SteppedOver(m, n)

\* Two machines that have rows in every cycle do not go on shipping side by side: one of
\* them finds the other's claim, whatever their claims overwrote (BACKUP.md:35).
Shipping(m) ==
    up[m] /\ worker[m].timers /\ ~conflict[m] /\ cycle[m] \in {"none", "shipped"} /\ net = "up"
SplitIsNoticed ==
    \A m, o \in Machines : m # o => []<>(~Shipping(m) \/ ~Shipping(o))

\* A machine that died does not block its replacement for ever: one that runs alone and
\* keeps its identity is refused at boot at most finitely often (BACKUP.md:37).
Alone(m) == net = "up" /\ \A o \in Machines \ {m} : ~up[o]
DeadMachineUnblocks ==
    \A m \in Machines, id \in Ids :
        <>[](Alone(m) /\ row[m].uuid = id) => <>[][~BootRefused(m)]_vars
=============================================================================
