-------------------------- MODULE Namespace_proofs --------------------------
(***************************************************************************)
(* A restore that is resumed misses no row it had to apply but those that  *)
(* another batch steps over, for any number of machines, identities and    *)
(* rows, and whatever else the machines do.                                *)
(*                                                                         *)
(* The inductive invariant has two parts.  Keyed: whoever ships or resumes *)
(* has a key, so a loaded snapshot always sets the machine up.  Resuming:  *)
(* what a job had to apply is in the database up to the saved position, or *)
(* stepped over, and during a replay the rest is still before it, in the   *)
(* order of first numbers; the snapshot, which replaces the database, ends *)
(* the job's steps.                                                        *)
(***************************************************************************)
EXTENDS Namespace, FoldLemmas

\* What a call in flight carries.
Replaying == [at : {"replay", "applied"}, key : Ids, since : 0..MaxSeq + 1,
              to : 0..MaxSeq, todo : SUBSET Batches]
Claiming == [at : {"claim"}, uuid : Ids, for : {"boot", "beat", "finish", "adopt"},
             copy : SUBSET Records]
Draining == [at : {"drain"}, uuid : Ids, key : Ids]
Jobs == [state : {"none", "discovered", "snapshot_applied", "replaying", "replayed", "complete"},
         shot : Shots \cup {None}, through : 0..MaxSeq + 1, listed : SUBSET Batches,
         due : SUBSET Seqs]
Numbers == [last : 0..MaxSeq, top : 0..MaxSeq, open : 0..MaxSeq]
Workers == [uuid : Ids \cup {None}, key : Ids \cup {None}, timers : BOOLEAN]

\* Who ships has a key: a row with a key is set up and has an identity, the worker loads
\* its state from such a row, and every snapshot holds one.
Complete(r) == r.key # None => r.setup = TRUE /\ r.uuid # None
Loaded(w, r) ==
    /\ w.key # None => w.uuid # None /\ r.setup = TRUE
    /\ w.timers = TRUE => w.key # None
Configured(s) == s # None => s.row.setup = TRUE /\ Complete(s.row)
Claims(c, w, r) ==
    c.at = "claim" =>
        /\ c.for = "boot" => w.key # None
        /\ c.for = "finish" => r.key # None

\* A restore that is under way found the namespace's salt.
Salted(c, j) ==
    j.state # "none" \/ c.at \in {"replay", "applied"} \/ (c.at = "claim" /\ c.for = "adopt")
        => salt # None

Keyed ==
    /\ \A m \in Machines :
        /\ Complete(row[m]) /\ Loaded(worker[m], row[m]) /\ Configured(job[m].shot)
        /\ Claims(pc[m], worker[m], row[m])
        /\ Salted(pc[m], job[m])
    /\ Configured(snapshot)

USE NamespaceAssumption

\* A machine at rest is in no call.
LEMMA IdleCall == Idle \in Calls /\ Idle.at = "idle"
  BY DEF Idle, Calls

\* The first state has its type and is keyed.
LEMMA TypeInit == Init => TypeOK /\ Keyed
<1> SUFFICES ASSUME Init PROVE TypeOK /\ Keyed
  OBVIOUS
<1> USE DEF Init, Live
<1>1. /\ story \in AllStories /\ story.newest \in Machines /\ story.live \subseteq Machines
      /\ story.live # {} => Home[story.newest] \in Ids
  BY DEF AllStories
<1>2. /\ row \in [Machines -> Rows]
      /\ \A m \in Machines : Complete(row[m])
      /\ story.live # {} =>
            row[story.newest] = [uuid |-> Home[story.newest], key |-> Home[story.newest],
                                 setup |-> TRUE]
  BY <1>1 DEF Rows, NoRow, Complete
<1>3. /\ worker \in [Machines -> [uuid : Ids \cup {None}, key : Ids \cup {None}, timers : BOOLEAN]]
      /\ \A m \in Machines : Loaded(worker[m], row[m])
  BY <1>1 DEF NoWorker, Loaded
<1>4. /\ pc \in [Machines -> Calls]
      /\ \A m \in Machines : Claims(pc[m], worker[m], row[m])
  BY IdleCall DEF Claims
<1>5. /\ job \in [Machines -> [state : {"none", "discovered", "snapshot_applied", "replaying",
                                        "replayed", "complete"},
                               shot : Shots \cup {None}, through : 0..MaxSeq + 1,
                               listed : SUBSET Batches, due : SUBSET Seqs]]
      /\ \A m \in Machines : Configured(job[m].shot) /\ Salted(pc[m], job[m])
  BY IdleCall DEF NoJob, Configured, Salted
<1>6. registry \in SUBSET Records /\ salt \in Ids \cup {None}
  BY <1>1 DEF Records
<1>7. snapshot \in Shots \cup {None} /\ Configured(snapshot)
  BY <1>1, <1>2 DEF Shots, Rows, Configured, Complete
<1>8. /\ data \in [Machines -> SUBSET Seqs] /\ pending \in [Machines -> SUBSET Seqs]
      /\ batches \in SUBSET Batches
      /\ up \in [Machines -> BOOLEAN] /\ conflict \in [Machines -> BOOLEAN]
      /\ cycle \in [Machines -> {"none", "paused", "quiet", "shipped"}]
      /\ net \in Troubles \cup {"up"}
  OBVIOUS
<1>9. numbers \in [Machines -> Numbers]
  BY DEF Numbers, NoNumbers
<1>10. TypeOK
  BY <1>2, <1>3, <1>4, <1>5, <1>6, <1>7, <1>8, <1>9 DEF TypeOK, Numbers
<1>11. Keyed
  BY <1>2, <1>3, <1>4, <1>5, <1>7 DEF Keyed, Complete, Loaded, Configured, Claims, Salted
<1>12. QED
  BY <1>10, <1>11

\* Rows have a first and a last number.
LEMMA Ends ==
  ASSUME NEW S, S \subseteq Seqs, S # {}
  PROVE  Min(S) \in S /\ Max(S) \in S /\ \A y \in S : Min(S) <= y /\ y <= Max(S)
<1>1. S \subseteq Nat /\ \A y \in S : y \in 1..MaxSeq /\ MaxSeq - y \in Nat
  BY DEF Seqs
<1>2. \E x \in S : \A y \in S : x <= y
  BY <1>1, HasLeast
<1>3. Min(S) \in S /\ \A y \in S : Min(S) <= y
  BY <1>2 DEF Min
<1> DEFINE Below == {MaxSeq - y : y \in S}
<1>4. Below \subseteq Nat /\ Below # {}
  BY <1>1
<1>5. PICK x \in Below : \A z \in Below : x <= z
  BY <1>4, HasLeast
<1>6. PICK y \in S : x = MaxSeq - y
  BY <1>5
<1>7. \A z \in S : MaxSeq - y <= MaxSeq - z
  BY <1>5, <1>6
<1>8. \A z \in S : y >= z
  BY <1>1, <1>7
<1>9. Max(S) \in S /\ \A z \in S : Max(S) >= z
  BY <1>8 DEF Max
<1>10. PICK n : n = Max(S)
  OBVIOUS
<1>11. n \in S /\ \A z \in S : z <= n
  BY <1>1, <1>9, <1>10
<1>12. QED
  BY <1>3, <1>10, <1>11

\* A batch lies between its first and its last number, and holds both.
Shaped(b) ==
    b.from \in b.rows /\ b.to \in b.rows /\ \A n \in b.rows : b.from <= n /\ n <= b.to

\* What a drain ships is a batch of that shape.
LEMMA BatchType ==
  ASSUME NEW S, S \subseteq Seqs, S # {}, NEW k \in Ids
  PROVE  Batch(S, k) \in Batches /\ Shaped(Batch(S, k))
<1>1. PICK b : b = Batch(S, k)
  OBVIOUS
<1>2. b = [from |-> Min(S), to |-> Max(S), rows |-> S, key |-> k]
  BY <1>1 DEF Batch
<1>3. Min(S) \in Seqs /\ Max(S) \in Seqs
  BY Ends
<1>4. b \in Batches
  BY <1>2, <1>3 DEF Batches
<1>5. Shaped(b)
  BY <1>2, Ends DEF Shaped
<1>6. QED
  BY <1>1, <1>4, <1>5

\* A random identity is one of the identities.
LEMMA NewIdIsId == NewIds # {} => NewId \in Ids
  BY DEF NewId, NewIds

\* What a call carries follows from where it is.
LEMMA CallKinds ==
  ASSUME NEW c \in Calls
  PROVE  /\ c.at \in {"replay", "applied"} => c \in Replaying
         /\ c.at = "claim" => c \in Claiming
         /\ c.at = "drain" => c \in Draining
  BY DEF Calls, Replaying, Claiming, Draining

\* Each kind of call is a call.
LEMMA KindsAreCalls ==
  Replaying \subseteq Calls /\ Claiming \subseteq Calls /\ Draining \subseteq Calls
  BY DEF Calls, Replaying, Claiming, Draining

\* What a claim writes back are records.
LEMMA RenewedType ==
  ASSUME TypeOK, NEW m \in Machines, pc[m].at = "claim"
  PROVE  Renewed(m) \in SUBSET Records /\ pc[m].uuid \in Ids
<1>1. pc[m] \in Claiming
  BY CallKinds DEF TypeOK
<1>2. QED
  BY <1>1 DEF Renewed, Claiming, Records

\* Calls that end leave everybody idle or as they were.
LEMMA FinishType ==
  ASSUME TypeOK, NEW m \in Machines, Finish(m)
  PROVE  /\ pc' \in [Machines -> Calls]
         /\ \A o \in Machines : pc'[o] = IF o = m THEN Idle ELSE pc[o]
  BY IdleCall DEF TypeOK, Finish

\* A call that reads the registry holds records.
LEMMA ReadType ==
  ASSUME TypeOK, NEW m \in Machines, NEW id \in Ids,
         NEW purpose \in {"boot", "beat", "finish", "adopt"}, ReadRegistry(m, id, purpose)
  PROVE  /\ pc' \in [Machines -> Calls]
         /\ pc'[m].for = purpose /\ pc'[m].at = "claim"
         /\ \A o \in Machines \ {m} : pc'[o] = pc[o]
<1> DEFINE c == [at |-> "claim", uuid |-> id, for |-> purpose,
                 copy |-> IF net = "up" THEN registry ELSE {}]
<1>1. c \in Claiming
  BY DEF Claiming, TypeOK
<1>2. pc' = [pc EXCEPT ![m] = c]
  BY DEF ReadRegistry
<1>3. QED
  BY <1>1, <1>2, KindsAreCalls DEF TypeOK

\* What a new snapshot holds is a row that is set up.
LEMMA UploadType ==
  ASSUME TypeOK, Keyed, NEW m \in Machines, NEW k \in Ids, row[m].setup = TRUE, Upload(m, k)
  PROVE  snapshot' \in Shots \cup {None} /\ Configured(snapshot')
<1>1. PICK shot : /\ shot = [seq |-> numbers[m].top + 1, last |-> numbers[m].last, key |-> k,
                            data |-> data[m], pending |-> pending[m], row |-> row[m]]
                  /\ snapshot' = shot \/ snapshot' = snapshot
  BY DEF Upload
<1>2. shot \in Shots
  BY <1>1 DEF TypeOK, Shots, Rows
<1>3. Configured(shot)
  BY <1>1 DEF Configured, Keyed, Complete
<1>4. QED
  BY <1>1, <1>2, <1>3 DEF TypeOK, Keyed

\* A call that moves on, and claims nothing, leaves every key where it was.
LEMMA CallKeepsKeys ==
  ASSUME Keyed, NEW m \in Machines, UNCHANGED <<row, worker, job, snapshot, salt>>,
         \A o \in Machines \ {m} : pc'[o] = pc[o], pc'[m].at # "claim",
         pc'[m].at \in {"replay", "applied"} => salt # None
  PROVE  Keyed'
<1>1. /\ row' = row /\ worker' = worker /\ job' = job /\ snapshot' = snapshot /\ salt' = salt
      /\ \A o \in Machines : pc'[o] = pc[o] \/ o = m
  OBVIOUS
<1>2. ASSUME NEW o \in Machines
      PROVE  Claims(pc'[o], worker[o], row[o]) /\ Salted(pc'[o], job[o])
  BY <1>1, <1>2 DEF Keyed, Claims, Salted
<1>3. QED
  BY <1>1, <1>2 DEF Keyed, Complete, Loaded, Configured, Claims, Salted

-----------------------------------------------------------------------------
(* Every step keeps the types and the keys *)

\* Boot keeps the types and the keys.
LEMMA BootKeeps ==
  ASSUME TypeOK, Keyed, NEW m \in Machines, Boot(m) PROVE TypeOK' /\ Keyed'
<1>1. CASE row[m].key = None
  BY <1>1 DEF Boot, TypeOK, Keyed, Complete, Loaded, Configured, Claims, Salted, cloud
<1>2. CASE row[m].key # None
  <2> DEFINE w == [uuid |-> row[m].uuid, key |-> row[m].key, timers |-> FALSE]
  <2>1. w \in Workers /\ row[m].uuid \in Ids /\ row[m].setup = TRUE /\ row[m].uuid # None
    BY <1>2 DEF Workers, TypeOK, Rows, Keyed, Complete
  <2>2. worker' = [worker EXCEPT ![m] = w] /\ ReadRegistry(m, row[m].uuid, "boot")
    BY <1>2 DEF Boot
  <2>3. worker' \in [Machines -> Workers]
    BY <2>1, <2>2 DEF TypeOK, Workers
  <2>4. TypeOK'
    BY <2>1, <2>2, <2>3, ReadType DEF Boot, TypeOK, Workers, cloud
  <2>5. Keyed'
    BY <1>2, <2>1, <2>2, ReadType
       DEF Boot, TypeOK, Keyed, Complete, Loaded, Configured, Claims, Salted, cloud
  <2>6. QED
    BY <2>4, <2>5
<1>3. QED
  BY <1>1, <1>2

\* The next number is a row's.
LEMMA NumberType == ASSUME TypeOK, NEW m \in Machines PROVE NextNumber(m) \in Seqs
<1>1. story.rows \in Seqs
  BY DEF TypeOK, AllStories
<1>2. numbers[m].last \in 0..MaxSeq
  BY DEF TypeOK
<1>3. QED
  BY <1>1, <1>2 DEF NextNumber, Seqs

\* Write keeps the types and the keys.
LEMMA WriteKeeps ==
  ASSUME TypeOK, Keyed, NEW m \in Machines, Write(m) PROVE TypeOK' /\ Keyed'
<1>1. PICK n : n = NextNumber(m)
  OBVIOUS
<1>2. n \in Seqs
  BY <1>1, NumberType
<1>3. /\ numbers \in [Machines -> Numbers]
      /\ numbers' = [numbers EXCEPT ![m].last = n, ![m].top = n]
  BY <1>1 DEF Write, TypeOK, Numbers
<1>4. numbers' \in [Machines -> Numbers]
  <2>1. PICK r : r = [numbers[m] EXCEPT !.last = n, !.top = n]
    OBVIOUS
  <2>2. numbers[m] \in Numbers /\ n \in 0..MaxSeq
    BY <1>2, <1>3 DEF Seqs
  <2>3. r \in Numbers
    BY <2>1, <2>2 DEF Numbers
  <2>4. numbers' = [numbers EXCEPT ![m] = r]
    BY <1>3, <2>1
  <2>5. QED
    BY <1>3, <2>3, <2>4
<1>5. data' \in [Machines -> SUBSET Seqs] /\ pending' \in [Machines -> SUBSET Seqs]
  BY <1>1, <1>2 DEF Write, Commit, TypeOK
<1>6. TypeOK'
  BY <1>4, <1>5 DEF Write, TypeOK, Numbers, cloud
<1>7. Keyed'
  BY DEF Write, Keyed, Complete, Loaded, Configured, Claims, Salted, cloud
<1>8. QED
  BY <1>6, <1>7

\* Hold keeps the types and the keys.
LEMMA HoldKeeps ==
  ASSUME TypeOK, Keyed, NEW m \in Machines, Hold(m) PROVE TypeOK' /\ Keyed'
<1>1. PICK n : n = NextNumber(m)
  OBVIOUS
<1>2. /\ n \in Seqs /\ numbers \in [Machines -> Numbers]
      /\ numbers' = [numbers EXCEPT ![m].last = n, ![m].open = n]
  BY <1>1, NumberType DEF Hold, TypeOK, Numbers
<1>3. numbers' \in [Machines -> Numbers]
  <2>1. PICK r : r = [numbers[m] EXCEPT !.last = n, !.open = n]
    OBVIOUS
  <2>2. numbers[m] \in Numbers /\ n \in 0..MaxSeq
    BY <1>2 DEF Seqs
  <2>3. r \in Numbers
    BY <2>1, <2>2 DEF Numbers
  <2>4. numbers' = [numbers EXCEPT ![m] = r]
    BY <1>2, <2>1
  <2>5. QED
    BY <1>2, <2>3, <2>4
<1>4. TypeOK'
  BY <1>3 DEF Hold, TypeOK, Numbers, cloud
<1>5. Keyed'
  BY DEF Hold, Keyed, Complete, Loaded, Configured, Claims, Salted, cloud
<1>6. QED
  BY <1>4, <1>5

\* EndHeld keeps the types and the keys.
LEMMA EndHeldKeeps ==
  ASSUME TypeOK, Keyed, NEW m \in Machines, EndHeld(m) PROVE TypeOK' /\ Keyed'
<1>1. PICK n : n = numbers[m].open
  OBVIOUS
<1>2. numbers \in [Machines -> Numbers] /\ n \in Seqs
  BY <1>1 DEF EndHeld, TypeOK, Numbers, Seqs
<1>3. \/ numbers' = [numbers EXCEPT ![m].top = IF @ > n THEN @ ELSE n, ![m].open = 0]
      \/ numbers' = [numbers EXCEPT ![m].open = 0]
  BY <1>1 DEF EndHeld
<1>4. numbers' \in [Machines -> Numbers]
  BY <1>2, <1>3 DEF Numbers, Seqs
<1>5. data' \in [Machines -> SUBSET Seqs] /\ pending' \in [Machines -> SUBSET Seqs]
  BY <1>1, <1>2 DEF EndHeld, Commit, TypeOK
<1>6. TypeOK'
  BY <1>4, <1>5 DEF EndHeld, TypeOK, Numbers, cloud
<1>7. Keyed'
  BY DEF EndHeld, Keyed, Complete, Loaded, Configured, Claims, Salted, cloud
<1>8. QED
  BY <1>6, <1>7

\* TimerFires keeps the types and the keys.
LEMMA TimerFiresKeeps ==
  ASSUME TypeOK, Keyed, NEW m \in Machines, TimerFires(m) PROVE TypeOK' /\ Keyed'
<1> DEFINE c == [at |-> "drain", uuid |-> worker[m].uuid, key |-> worker[m].key]
<1>1. c \in Draining
  BY DEF TimerFires, Draining, TypeOK, Keyed, Loaded
<1>2. pc' = pc \/ pc' = [pc EXCEPT ![m] = c]
  BY DEF TimerFires
<1>3. pc' \in [Machines -> Calls]
  BY <1>1, <1>2, KindsAreCalls DEF TypeOK
<1>4. cycle' \in [Machines -> {"none", "paused", "quiet", "shipped"}]
  <2>1. cycle \in [Machines -> {"none", "paused", "quiet", "shipped"}]
    BY DEF TypeOK
  <2>2. cycle' = cycle \/ cycle' = [cycle EXCEPT ![m] = "paused"]
    BY DEF TimerFires
  <2>3. QED
    BY <2>1, <2>2
<1>5. TypeOK'
  BY <1>3, <1>4 DEF TimerFires, TypeOK, cloud
<1>6. \A o \in Machines : pc'[o] = pc[o] \/ pc'[o].at = "drain"
  BY <1>2 DEF TypeOK
<1>7. Keyed'
  BY <1>6 DEF TimerFires, Keyed, Complete, Loaded, Configured, Claims, Salted, cloud
<1>8. QED
  BY <1>5, <1>7

\* Drain keeps the types and the keys.
LEMMA DrainKeeps ==
  ASSUME TypeOK, Keyed, NEW m \in Machines, Drain(m) PROVE TypeOK' /\ Keyed'
<1>1. pc[m] \in Draining
  BY CallKinds DEF Drain, TypeOK
<1>2. /\ pc' \in [Machines -> Calls] /\ pc'[m].at = "claim" /\ pc'[m].for = "beat"
      /\ \A o \in Machines \ {m} : pc'[o] = pc[o]
  BY <1>1, ReadType DEF Drain, Draining
<1>3. batches' \in SUBSET Batches /\ pending' \in [Machines -> SUBSET Seqs]
  <2>1. pc[m].key \in Ids /\ pending \in [Machines -> SUBSET Seqs] /\ batches \in SUBSET Batches
    BY <1>1 DEF Draining, TypeOK
  <2>2. Batch(pending[m], pc[m].key) \in Batches
    BY <2>1, BatchType DEF Drain
  <2>3. CASE Reachable
    BY <2>1, <2>2, <2>3 DEF Drain
  <2>4. CASE ~Reachable
    BY <2>1, <2>4 DEF Drain
  <2>5. QED
    BY <2>3, <2>4
<1>4. cycle' \in [Machines -> {"none", "paused", "quiet", "shipped"}]
  BY DEF Drain, TypeOK
<1>5. TypeOK'
  BY <1>2, <1>3, <1>4 DEF Drain, TypeOK
<1>6. Keyed'
  BY <1>2 DEF Drain, Keyed, Complete, Loaded, Configured, Claims, Salted
<1>7. QED
  BY <1>5, <1>6

\* BootRefused keeps the types and the keys.
LEMMA BootRefusedKeeps ==
  ASSUME TypeOK, Keyed, NEW m \in Machines, BootRefused(m) PROVE TypeOK' /\ Keyed'
<1>1. registry' \in SUBSET Records
  BY RenewedType DEF BootRefused, WriteClaim
<1>2. pc' \in [Machines -> Calls] /\ \A o \in Machines : pc'[o] = IF o = m THEN Idle ELSE pc[o]
  BY FinishType DEF BootRefused
<1>3. TypeOK'
  BY <1>1, <1>2 DEF BootRefused, TypeOK
<1>4. Keyed'
  BY <1>2, IdleCall DEF BootRefused, Keyed, Complete, Loaded, Configured, Claims, Salted
<1>5. QED
  BY <1>3, <1>4

\* SetupRefused keeps the types and the keys.
LEMMA SetupRefusedKeeps ==
  ASSUME TypeOK, Keyed, NEW m \in Machines, SetupRefused(m) PROVE TypeOK' /\ Keyed'
<1>1. registry' \in SUBSET Records
  BY RenewedType DEF SetupRefused, WriteClaim
<1>2. pc' \in [Machines -> Calls] /\ \A o \in Machines : pc'[o] = IF o = m THEN Idle ELSE pc[o]
  BY FinishType DEF SetupRefused
<1>3. TypeOK'
  BY <1>1, <1>2 DEF SetupRefused, TypeOK
<1>4. Keyed'
  BY <1>2, IdleCall DEF SetupRefused, Keyed, Complete, Loaded, Configured, Claims, Salted
<1>5. QED
  BY <1>3, <1>4

\* BootAccepted keeps the types and the keys.
LEMMA BootAcceptedKeeps ==
  ASSUME TypeOK, Keyed, NEW m \in Machines, BootAccepted(m) PROVE TypeOK' /\ Keyed'
<1>1. pc[m].at = "claim" /\ pc[m].for = "boot" /\ worker[m].key # None /\ worker[m].key \in Ids
  BY DEF BootAccepted, WriteClaim, PutFails, Keyed, Claims, TypeOK
<1>2. registry' \in SUBSET Records /\ salt' \in Ids \cup {None} /\ (salt # None => salt' # None)
  BY <1>1, RenewedType DEF BootAccepted, WriteClaim, PutFails, TypeOK
<1>3. pc' \in [Machines -> Calls] /\ \A o \in Machines : pc'[o] = IF o = m THEN Idle ELSE pc[o]
  BY FinishType DEF BootAccepted
<1>4. /\ worker' \in [Machines -> Workers] /\ conflict' \in [Machines -> BOOLEAN]
      /\ \A o \in Machines : Loaded(worker'[o], row[o]) /\ worker'[o].key = worker[o].key
  <2> DEFINE w == [worker[m] EXCEPT !.timers = TRUE]
  <2>1. /\ worker \in [Machines -> Workers] /\ conflict \in [Machines -> BOOLEAN]
        /\ \A o \in Machines : Loaded(worker[o], row[o])
    BY DEF TypeOK, Workers, Keyed
  <2>2. w \in Workers /\ w.key = worker[m].key /\ Loaded(w, row[m])
    BY <1>1, <2>1 DEF Workers, Loaded
  <2>3. worker' = [worker EXCEPT ![m] = w] /\ conflict' = [conflict EXCEPT ![m] = FALSE]
    BY DEF BootAccepted, StartTimers
  <2>4. QED
    BY <2>1, <2>2, <2>3
<1>5. TypeOK'
  BY <1>2, <1>3, <1>4 DEF BootAccepted, TypeOK, Workers
<1>6. Keyed'
  BY <1>2, <1>3, <1>4, IdleCall
     DEF BootAccepted, Keyed, Complete, Loaded, Configured, Claims, Salted
<1>7. QED
  BY <1>5, <1>6

\* Heartbeat keeps the types and the keys.
LEMMA HeartbeatKeeps ==
  ASSUME TypeOK, Keyed, NEW m \in Machines, Heartbeat(m) PROVE TypeOK' /\ Keyed'
<1>1. registry' \in SUBSET Records
  BY RenewedType DEF Heartbeat, WriteClaim, PutFails, TypeOK
<1>2. pc' \in [Machines -> Calls] /\ \A o \in Machines : pc'[o] = IF o = m THEN Idle ELSE pc[o]
  BY FinishType DEF Heartbeat
<1>3. conflict' \in [Machines -> BOOLEAN]
  <2>1. Collides(m) \in BOOLEAN
    BY DEF Collides
  <2>2. QED
    BY <2>1 DEF Heartbeat, TypeOK
<1>4. TypeOK'
  BY <1>1, <1>2, <1>3 DEF Heartbeat, TypeOK
<1>5. Keyed'
  BY <1>2, IdleCall DEF Heartbeat, Keyed, Complete, Loaded, Configured, Claims, Salted
<1>6. QED
  BY <1>4, <1>5

\* ApplySnapshot keeps the types and the keys.
LEMMA ApplySnapshotKeeps ==
  ASSUME TypeOK, Keyed, NEW m \in Machines, ApplySnapshot(m) PROVE TypeOK' /\ Keyed'
<1> DEFINE shot == job[m].shot
<1>1. job[m] \in Jobs /\ shot \in Shots /\ Complete(shot.row)
      /\ shot.row.setup = TRUE /\ row[m].setup = FALSE
  BY DEF ApplySnapshot, TypeOK, Jobs, Keyed, Configured, Restores, Fresh, Rows
<1>2. /\ shot.data \in SUBSET Seqs /\ shot.pending \in SUBSET Seqs /\ shot.seq - 1 \in 0..MaxSeq
      /\ shot.row \in Rows /\ shot.last \in 0..MaxSeq
  BY <1>1 DEF Shots
<1>3. /\ data' \in [Machines -> SUBSET Seqs] /\ pending' \in [Machines -> SUBSET Seqs]
      /\ numbers' \in [Machines -> Numbers]
  <2> DEFINE fresh == [last |-> shot.last, top |-> shot.seq - 1, open |-> 0]
  <2>1. /\ data \in [Machines -> SUBSET Seqs] /\ pending \in [Machines -> SUBSET Seqs]
        /\ numbers \in [Machines -> Numbers] /\ fresh \in Numbers
    BY <1>2 DEF TypeOK, Numbers
  <2>2. CASE UNCHANGED <<data, numbers, pending>>
    BY <2>1, <2>2
  <2>3. CASE /\ data' = [data EXCEPT ![m] = job[m].shot.data]
             /\ pending' = [pending EXCEPT ![m] = job[m].shot.pending]
             /\ numbers' = [numbers EXCEPT ![m] = fresh]
    BY <1>2, <2>1, <2>3
  <2>4. QED
    BY <2>2, <2>3 DEF ApplySnapshot
<1>4. /\ row' \in [Machines -> Rows]
      /\ \A o \in Machines : o # m => row'[o] = row[o]
      /\ row'[m] \in {row[m], shot.row}
  BY <1>2 DEF ApplySnapshot, TypeOK
<1>5. /\ job' \in [Machines -> Jobs]
      /\ \A o \in Machines : job'[o].shot = job[o].shot
                             /\ (job'[o].state # "none" => job[o].state # "none")
  <2> DEFINE j == [job[m] EXCEPT !.state = "snapshot_applied"]
  <2>1. job \in [Machines -> Jobs] /\ job[m].state # "none"
    BY DEF TypeOK, Jobs, ApplySnapshot
  <2>2. j \in Jobs /\ j.shot = job[m].shot
    BY <2>1 DEF Jobs
  <2>3. job' = job \/ job' = [job EXCEPT ![m] = j]
    BY DEF ApplySnapshot
  <2>4. QED
    BY <2>1, <2>2, <2>3
<1>6. TypeOK'
  BY <1>3, <1>4, <1>5 DEF ApplySnapshot, TypeOK, Jobs, Numbers, cloud
<1>7. pc[m].at = "idle"
  BY IdleCall DEF ApplySnapshot, Restores, Ready
<1>8. Keyed'
  BY <1>1, <1>4, <1>5, <1>7
     DEF ApplySnapshot, Keyed, Complete, Loaded, Configured, Claims, Salted, cloud
<1>9. QED
  BY <1>6, <1>8

\* StartReplay keeps the types and the keys.
LEMMA StartReplayKeeps ==
  ASSUME TypeOK, Keyed, NEW m \in Machines, StartReplay(m) PROVE TypeOK' /\ Keyed'
<1> DEFINE c == [at |-> "replay", key |-> salt, since |-> job[m].through, to |-> 0,
                 todo |-> Newer(m)]
<1>1. c \in Replaying
  BY DEF StartReplay, Replaying, TypeOK, Keyed, Salted, Newer
<1>2. pc' = [pc EXCEPT ![m] = c]
  BY DEF StartReplay
<1>3. pc' \in [Machines -> Calls]
  BY <1>1, <1>2, KindsAreCalls DEF TypeOK
<1>4. \A o \in Machines : pc'[o] = pc[o] \/ pc'[o].at = "replay"
  BY <1>2 DEF TypeOK
<1>5. job[m] \in Jobs /\ Newer(m) \subseteq Batches /\ Due(m) \subseteq Seqs
  BY DEF TypeOK, Jobs, Newer, Due, Batches
<1>6. job' \in [Machines -> Jobs]
      /\ \A o \in Machines : job'[o].shot = job[o].shot /\ job'[o].state = job[o].state
  <2> DEFINE j == [job[m] EXCEPT !.listed = @ \cup Newer(m), !.due = @ \cup Due(m)]
  <2>1. j \in Jobs /\ j.shot = job[m].shot /\ j.state = job[m].state
    BY <1>5 DEF Jobs
  <2>2. job \in [Machines -> Jobs] /\ job' = [job EXCEPT ![m] = j]
    BY DEF StartReplay, TypeOK, Jobs
  <2>3. QED
    BY <2>1, <2>2
<1>7. TypeOK'
  BY <1>3, <1>6 DEF StartReplay, TypeOK, Jobs, cloud
<1>8. Keyed'
  BY <1>4, <1>6 DEF StartReplay, Keyed, Complete, Loaded, Configured, Claims, Salted, cloud
<1>9. QED
  BY <1>7, <1>8

\* ReplayBatch keeps the types and the keys.
LEMMA ReplayBatchKeeps ==
  ASSUME TypeOK, Keyed, NEW m \in Machines, ReplayBatch(m) PROVE TypeOK' /\ Keyed'
<1>1. pc[m] \in Replaying
  BY CallKinds DEF ReplayBatch, TypeOK
<1>2. PICK b \in NextBatch(m) :
        \/ /\ data' = [data EXCEPT ![m] = @ \cup {n \in b.rows : n > pc[m].since}]
           /\ pc' = [pc EXCEPT ![m].at = "applied", ![m].to = b.to, ![m].todo = @ \ {b}]
        \/ Finish(m) /\ data' = data
  BY DEF ReplayBatch
<1>3. b \in Batches
  BY <1>1 DEF NextBatch, Replaying
<1>4. CASE Finish(m) /\ data' = data
  <2>1. pc' \in [Machines -> Calls] /\ \A o \in Machines : pc'[o] = IF o = m THEN Idle ELSE pc[o]
    BY <1>4, FinishType
  <2>2. TypeOK'
    BY <1>4, <2>1 DEF ReplayBatch, TypeOK, cloud
  <2>3. Keyed'
    BY <2>1, IdleCall, CallKeepsKeys DEF ReplayBatch, cloud
  <2>4. QED
    BY <2>2, <2>3
<1>5. CASE /\ data' = [data EXCEPT ![m] = @ \cup {n \in b.rows : n > pc[m].since}]
           /\ pc' = [pc EXCEPT ![m].at = "applied", ![m].to = b.to, ![m].todo = @ \ {b}]
  <2> DEFINE c == [pc[m] EXCEPT !.at = "applied", !.to = b.to, !.todo = @ \ {b}]
  <2>1. c \in Replaying /\ c.at = "applied"
    <3>1. b.to \in 0..MaxSeq
      BY <1>3 DEF Batches, Seqs
    <3>2. pc[m].todo \ {b} \in SUBSET Batches
      BY <1>1 DEF Replaying
    <3>3. QED
      BY <1>1, <3>1, <3>2 DEF Replaying
  <2>2. pc' = [pc EXCEPT ![m] = c]
    BY <1>5
  <2>3. pc' \in [Machines -> Calls] /\ \A o \in Machines : pc'[o] = IF o = m THEN c ELSE pc[o]
    BY <2>1, <2>2, KindsAreCalls DEF TypeOK
  <2>4. data' \in [Machines -> SUBSET Seqs]
    BY <1>3, <1>5 DEF TypeOK, Batches
  <2>5. TypeOK'
    BY <2>3, <2>4 DEF ReplayBatch, TypeOK, cloud
  <2>6. salt # None
    BY DEF ReplayBatch, Keyed, Salted
  <2>7. Keyed'
    BY <2>1, <2>3, <2>6, CallKeepsKeys DEF ReplayBatch, cloud
  <2>8. QED
    BY <2>5, <2>7
<1>6. QED
  BY <1>2, <1>4, <1>5

\* SaveProgress keeps the types and the keys.
LEMMA SaveProgressKeeps ==
  ASSUME TypeOK, Keyed, NEW m \in Machines, SaveProgress(m) PROVE TypeOK' /\ Keyed'
<1>1. pc[m] \in Replaying /\ job[m] \in Jobs
  BY CallKinds DEF SaveProgress, TypeOK, Jobs
<1> DEFINE c == [pc[m] EXCEPT !.at = "replay"]
<1>2. c \in Replaying /\ c.at = "replay"
  BY <1>1 DEF Replaying
<1>3. pc' \in [Machines -> Calls] /\ \A o \in Machines : pc'[o] = IF o = m THEN c ELSE pc[o]
  BY <1>2, KindsAreCalls DEF SaveProgress, TypeOK
<1>4. /\ job' \in [Machines -> Jobs]
      /\ \A o \in Machines : job'[o].shot = job[o].shot
      /\ \A o \in Machines : o # m => job'[o] = job[o]
  <2> DEFINE j == [job[m] EXCEPT !.state = "replaying", !.through = pc[m].to]
  <2>1. job \in [Machines -> Jobs] /\ pc[m].to \in 0..MaxSeq + 1
    BY <1>1 DEF TypeOK, Jobs, Replaying
  <2>2. j \in Jobs /\ j.shot = job[m].shot
    BY <2>1 DEF Jobs
  <2>3. job' = [job EXCEPT ![m] = j]
    BY DEF SaveProgress
  <2>4. QED
    BY <2>1, <2>2, <2>3
<1>5. TypeOK'
  BY <1>3, <1>4 DEF SaveProgress, TypeOK, Jobs, cloud
<1>6. Keyed'
  BY <1>1, <1>2, <1>3, <1>4
     DEF SaveProgress, Keyed, Complete, Loaded, Configured, Claims, Salted, cloud
<1>7. QED
  BY <1>5, <1>6

\* EndReplay keeps the types and the keys.
LEMMA EndReplayKeeps ==
  ASSUME TypeOK, Keyed, NEW m \in Machines, EndReplay(m) PROVE TypeOK' /\ Keyed'
<1>1. pc' \in [Machines -> Calls] /\ \A o \in Machines : pc'[o] = IF o = m THEN Idle ELSE pc[o]
  BY FinishType DEF EndReplay
<1>2. /\ job' \in [Machines -> Jobs]
      /\ \A o \in Machines : job'[o].shot = job[o].shot
      /\ \A o \in Machines : o # m => job'[o] = job[o]
  <2> DEFINE j == [job[m] EXCEPT !.state = "replayed"]
  <2>1. job \in [Machines -> Jobs]
    BY DEF TypeOK, Jobs
  <2>2. j \in Jobs /\ j.shot = job[m].shot
    BY <2>1 DEF Jobs
  <2>3. job' = [job EXCEPT ![m] = j]
    BY DEF EndReplay
  <2>4. QED
    BY <2>1, <2>2, <2>3
<1>3. TypeOK'
  BY <1>1, <1>2 DEF EndReplay, TypeOK, Jobs, cloud
<1>4. Keyed'
  BY <1>1, <1>2, IdleCall
     DEF EndReplay, Keyed, Complete, Loaded, Configured, Claims, Salted, cloud
<1>5. QED
  BY <1>3, <1>4

\* AdoptionRefused keeps the types and the keys.
LEMMA AdoptionRefusedKeeps ==
  ASSUME TypeOK, Keyed, NEW m \in Machines, AdoptionRefused(m) PROVE TypeOK' /\ Keyed'
<1>1. registry' \in SUBSET Records
  BY RenewedType DEF AdoptionRefused, WriteClaim, PutFails, TypeOK
<1>2. pc' \in [Machines -> Calls] /\ \A o \in Machines : pc'[o] = IF o = m THEN Idle ELSE pc[o]
  BY FinishType DEF AdoptionRefused
<1>3. TypeOK'
  BY <1>1, <1>2 DEF AdoptionRefused, TypeOK
<1>4. Keyed'
  BY <1>2, IdleCall DEF AdoptionRefused, Keyed, Complete, Loaded, Configured, Claims, Salted
<1>5. QED
  BY <1>3, <1>4

\* Adopted keeps the types and the keys.
LEMMA AdoptedKeeps ==
  ASSUME TypeOK, Keyed, NEW m \in Machines, Adopted(m) PROVE TypeOK' /\ Keyed'
<1>1. registry' \in SUBSET Records /\ pc[m].uuid \in Ids
  BY RenewedType DEF Adopted, WriteClaim
<1>2. pc' \in [Machines -> Calls] /\ \A o \in Machines : pc'[o] = IF o = m THEN Idle ELSE pc[o]
  BY FinishType DEF Adopted
<1> DEFINE r == [row[m] EXCEPT !.uuid = pc[m].uuid, !.setup = TRUE]
           j == [job[m] EXCEPT !.state = "complete"]
<1>3. row[m] \in Rows /\ job[m] \in Jobs
  BY DEF TypeOK, Jobs
<1>4. r \in Rows /\ r.setup = TRUE /\ r.uuid # None /\ r.key = row[m].key
  BY <1>1, <1>3 DEF Rows
<1>5. j \in Jobs /\ j.shot = job[m].shot
  BY <1>3 DEF Jobs
<1>6. row' = [row EXCEPT ![m] = r] /\ job' = [job EXCEPT ![m] = j]
  BY DEF Adopted
<1>7. /\ row' \in [Machines -> Rows] /\ job' \in [Machines -> Jobs]
      /\ \A o \in Machines : row'[o] = IF o = m THEN r ELSE row[o]
      /\ \A o \in Machines : job'[o] = IF o = m THEN j ELSE job[o]
  BY <1>4, <1>5, <1>6 DEF TypeOK, Jobs
<1>8. TypeOK'
  BY <1>1, <1>2, <1>7 DEF Adopted, TypeOK, Jobs
<1>9. salt # None
  BY DEF Adopted, WriteClaim, Keyed, Salted
<1>10. Keyed'
  BY <1>2, <1>4, <1>5, <1>7, <1>9, IdleCall
     DEF Adopted, Keyed, Complete, Loaded, Configured, Claims, Salted
<1>11. QED
  BY <1>8, <1>10

\* Step1 keeps the types and the keys.
LEMMA Step1Keeps ==
  ASSUME TypeOK, Keyed, NEW m \in Machines, Step1(m) PROVE TypeOK' /\ Keyed'
<1>1. TypeOK'
  BY NewIdIsId
     DEF Step1, TypeOK, Keyed, Complete, Loaded, Configured, Claims, Salted, Rows, Ready,
         cloud, Calls, Does
<1>2. Keyed'
  BY NewIdIsId
     DEF Step1, TypeOK, Keyed, Complete, Loaded, Configured, Claims, Salted, Rows, Ready,
         cloud, Calls, Does
<1>3. QED
  BY <1>1, <1>2

\* Seed keeps the types and the keys.
LEMMA SeedKeeps ==
  ASSUME TypeOK, Keyed, NEW m \in Machines, Seed(m) PROVE TypeOK' /\ Keyed'
<1>1. TypeOK'
  BY IdleCall
     DEF Seed, TypeOK, Keyed, Complete, Loaded, Configured, Claims, Salted, Finish, Calls
<1>2. Keyed'
  BY IdleCall
     DEF Seed, TypeOK, Keyed, Complete, Loaded, Configured, Claims, Salted, Finish, Calls
<1>3. QED
  BY <1>1, <1>2

\* Verify keeps the types and the keys.
LEMMA VerifyKeeps ==
  ASSUME TypeOK, Keyed, NEW m \in Machines, Verify(m) PROVE TypeOK' /\ Keyed'
<1>1. TypeOK'
  BY DEF Verify, TypeOK, Keyed, Complete, Loaded, Configured, Claims, Salted, Rows, Calls,
         Ready, cloud
<1>2. Keyed'
  BY DEF Verify, TypeOK, Keyed, Complete, Loaded, Configured, Claims, Salted, Rows, Calls,
         Ready, cloud
<1>3. QED
  BY <1>1, <1>2

\* BackupNow keeps the types and the keys.
LEMMA BackupNowKeeps ==
  ASSUME TypeOK, Keyed, NEW m \in Machines, BackupNow(m) PROVE TypeOK' /\ Keyed'
<1>1. snapshot' \in Shots \cup {None} /\ Configured(snapshot')
  BY UploadType DEF BackupNow, TypeOK, Keyed, Rows, Complete
<1>2. TypeOK'
  BY <1>1 DEF BackupNow, TypeOK, machine
<1>3. Keyed'
  BY <1>1 DEF BackupNow, Keyed, Complete, Loaded, Configured, Claims, Salted, machine
<1>4. QED
  BY <1>2, <1>3

\* NightlySnapshot keeps the types and the keys.
LEMMA NightlySnapshotKeeps ==
  ASSUME TypeOK, Keyed, NEW m \in Machines, NightlySnapshot(m) PROVE TypeOK' /\ Keyed'
<1>1. snapshot' \in Shots \cup {None} /\ Configured(snapshot')
  BY UploadType DEF NightlySnapshot, TypeOK, Keyed, Workers, Loaded
<1>2. TypeOK'
  BY <1>1 DEF NightlySnapshot, TypeOK, machine
<1>3. Keyed'
  BY <1>1 DEF NightlySnapshot, Keyed, Complete, Loaded, Configured, Claims, Salted, machine
<1>4. QED
  BY <1>2, <1>3

\* NothingToDrain keeps the types and the keys.
LEMMA NothingToDrainKeeps ==
  ASSUME TypeOK, Keyed, NEW m \in Machines, NothingToDrain(m) PROVE TypeOK' /\ Keyed'
<1>1. pc' \in [Machines -> Calls] /\ \A o \in Machines : pc'[o] = IF o = m THEN Idle ELSE pc[o]
  BY FinishType DEF NothingToDrain
<1>2. TypeOK'
  BY <1>1 DEF NothingToDrain, TypeOK, cloud
<1>3. Keyed'
  BY <1>1, IdleCall, CallKeepsKeys DEF NothingToDrain, cloud
<1>4. QED
  BY <1>2, <1>3

\* StartRestore keeps the types and the keys.
LEMMA StartRestoreKeeps ==
  ASSUME TypeOK, Keyed, NEW m \in Machines, StartRestore(m) PROVE TypeOK' /\ Keyed'
<1>1. PICK j : j = [state |-> "discovered", shot |-> snapshot, listed |-> {}, due |-> {},
                   through |-> IF snapshot = None THEN 0 ELSE snapshot.seq]
  OBVIOUS
<1>2. j \in Jobs /\ j.shot = snapshot
  BY <1>1 DEF TypeOK, Jobs, Shots
<1>3. job' = [job EXCEPT ![m] = j] /\ salt # None
  BY <1>1 DEF StartRestore
<1>4. job' \in [Machines -> Jobs] /\ \A o \in Machines : job'[o] = IF o = m THEN j ELSE job[o]
  BY <1>2, <1>3 DEF TypeOK, Jobs
<1>5. TypeOK'
  BY <1>4 DEF StartRestore, TypeOK, Jobs, cloud
<1>6. Keyed'
  BY <1>2, <1>3, <1>4 DEF StartRestore, Keyed, Complete, Loaded, Configured, Claims, Salted, cloud
<1>7. QED
  BY <1>5, <1>6

\* FinishRestore keeps the types and the keys.
LEMMA FinishRestoreKeeps ==
  ASSUME TypeOK, Keyed, NEW m \in Machines, FinishRestore(m) PROVE TypeOK' /\ Keyed'
<1>1. /\ pc' \in [Machines -> Calls] /\ pc'[m].for = "adopt" /\ pc'[m].at = "claim"
      /\ \A o \in Machines \ {m} : pc'[o] = pc[o]
  BY ReadType, NewIdIsId DEF FinishRestore
<1>2. salt # None
  BY DEF FinishRestore, Keyed, Salted
<1>3. TypeOK'
  BY <1>1 DEF FinishRestore, TypeOK, cloud
<1>4. ASSUME NEW o \in Machines
      PROVE  Claims(pc'[o], worker[o], row[o]) /\ Salted(pc'[o], job[o])
  BY <1>1, <1>2 DEF Keyed, Claims, Salted
<1>5. Keyed'
  BY <1>2, <1>4 DEF FinishRestore, Keyed, Complete, Loaded, Configured, Claims, Salted, cloud
<1>6. QED
  BY <1>3, <1>5

\* CancelRestore keeps the types and the keys.
LEMMA CancelRestoreKeeps ==
  ASSUME TypeOK, Keyed, NEW m \in Machines, CancelRestore(m) PROVE TypeOK' /\ Keyed'
<1>1. TypeOK'
  BY DEF CancelRestore, TypeOK, Keyed, Complete, Loaded, Configured, Claims, Salted, NoJob,
         Restores, Ready, Shots, cloud
<1>2. Keyed'
  BY DEF CancelRestore, TypeOK, Keyed, Complete, Loaded, Configured, Claims, Salted, NoJob,
         Restores, Ready, Shots, cloud
<1>3. QED
  BY <1>1, <1>2

\* Stop keeps the types and the keys.
LEMMA StopKeeps ==
  ASSUME TypeOK, Keyed, NEW m \in Machines, Stop(m) PROVE TypeOK' /\ Keyed'
<1>1. TypeOK'
  <2>1. NoWorker \in Workers /\ worker' = [worker EXCEPT ![m] = NoWorker]
    BY DEF NoWorker, Workers, Stop
  <2>2. pc' \in [Machines -> Calls] /\ worker' \in [Machines -> Workers]
    BY <2>1, IdleCall DEF Stop, TypeOK, Workers
  <2>3. PICK r : r = [numbers[m] EXCEPT !.open = 0]
    OBVIOUS
  <2>4. numbers \in [Machines -> Numbers] /\ numbers' = [numbers EXCEPT ![m] = r]
    BY <2>3 DEF Stop, TypeOK, Numbers
  <2>5. numbers' \in [Machines -> Numbers]
    <3>1. numbers[m] \in Numbers
      BY <2>4
    <3>2. r \in Numbers
      BY <2>3, <3>1 DEF Numbers
    <3>3. QED
      BY <2>4, <3>2
  <2>6. up' \in [Machines -> BOOLEAN] /\ conflict' \in [Machines -> BOOLEAN]
    BY DEF Stop, TypeOK
  <2>7. cycle' \in [Machines -> {"none", "paused", "quiet", "shipped"}]
    <3>1. cycle \in [Machines -> {"none", "paused", "quiet", "shipped"}]
      BY DEF TypeOK
    <3>2. cycle' = [cycle EXCEPT ![m] = "none"]
      BY DEF Stop
    <3>3. QED
      BY <3>1, <3>2
  <2>8. QED
    BY <2>2, <2>5, <2>6, <2>7 DEF Stop, TypeOK, Workers, Numbers, cloud
<1>2. Keyed'
  BY IdleCall
     DEF Stop, TypeOK, Keyed, Complete, Loaded, Configured, Claims, Salted, NoWorker, cloud
<1>3. QED
  BY <1>1, <1>2

\* FinishSetup keeps the types and the keys.
LEMMA FinishSetupKeeps ==
  ASSUME TypeOK, Keyed, NEW m \in Machines, FinishSetup(m) PROVE TypeOK' /\ Keyed'
<1>1. row[m].uuid \in Ids /\ row[m].key # None
  BY DEF FinishSetup, TypeOK, Rows, Keyed, Complete
<1>2. /\ pc' \in [Machines -> Calls] /\ pc'[m].at = "claim" /\ pc'[m].for = "finish"
      /\ \A o \in Machines \ {m} : pc'[o] = pc[o]
  BY <1>1, ReadType DEF FinishSetup
<1>3. TypeOK'
  BY <1>2 DEF FinishSetup, TypeOK, cloud
<1>4. Keyed'
  BY <1>1, <1>2 DEF FinishSetup, Keyed, cloud, Complete, Loaded, Configured, Claims, Salted
<1>5. QED
  BY <1>3, <1>4

\* SetupFinished keeps the types and the keys.
LEMMA SetupFinishedKeeps ==
  ASSUME TypeOK, Keyed, NEW m \in Machines, SetupFinished(m) PROVE TypeOK' /\ Keyed'
<1>1. registry' \in SUBSET Records /\ row[m].key # None
  BY RenewedType DEF SetupFinished, WriteClaim, PutFails, TypeOK, Keyed, Claims
<1>2. pc' \in [Machines -> Calls] /\ \A o \in Machines : pc'[o] = IF o = m THEN Idle ELSE pc[o]
  BY FinishType DEF SetupFinished
<1>3. snapshot' \in Shots \cup {None} /\ Configured(snapshot')
  BY <1>1, UploadType DEF SetupFinished, TypeOK, Keyed, Rows, Complete
<1>4. TypeOK'
  BY <1>1, <1>2, <1>3 DEF SetupFinished, TypeOK
<1>5. Keyed'
  BY <1>2, <1>3, IdleCall DEF SetupFinished, Keyed, Complete, Loaded, Configured, Claims, Salted
<1>6. QED
  BY <1>4, <1>5

\* Tick keeps the types and the keys.
LEMMA TickKeeps == ASSUME TypeOK, Keyed, Tick PROVE TypeOK' /\ Keyed'
<1>1. registry' \in SUBSET Records
  <2>1. \A r \in Records : [r EXCEPT !.age = IF @ = TTL THEN TTL ELSE @ + 1] \in Records
    BY DEF Records
  <2>2. registry \subseteq Records
    BY DEF TypeOK
  <2>3. QED
    BY <2>1, <2>2 DEF Tick
<1>2. cycle' \in [Machines -> {"none", "paused", "quiet", "shipped"}]
  BY DEF Tick
<1>3. TypeOK'
  BY <1>1, <1>2 DEF Tick, TypeOK
<1>4. Keyed'
  BY DEF Tick, Keyed, Complete, Loaded, Configured, Claims, Salted
<1>5. QED
  BY <1>3, <1>4

\* Network keeps the types and the keys.
LEMMA NetworkKeeps == ASSUME TypeOK, Keyed, Network PROVE TypeOK' /\ Keyed'
<1>1. net' \in Troubles \cup {"up"}
  BY DEF Network, TypeOK, AllStories
<1>2. TypeOK'
  BY <1>1 DEF Network, TypeOK, machine, cloud
<1>3. Keyed'
  BY DEF Network, Keyed, machine, cloud, Complete, Loaded, Configured, Claims, Salted
<1>4. QED
  BY <1>2, <1>3

\* A stuttering step keeps the types and the keys.
LEMMA StutterKeeps == ASSUME TypeOK, Keyed, UNCHANGED vars PROVE TypeOK' /\ Keyed'
  BY DEF vars, machine, cloud, TypeOK, Keyed, Complete, Loaded, Configured, Claims, Salted

\* Every step keeps the types and the keys.
LEMMA StepKeeps == ASSUME TypeOK, Keyed, [Next]_vars PROVE TypeOK' /\ Keyed'
<1>1. ASSUME NEW m \in Machines, Worker(m) PROVE TypeOK' /\ Keyed'
  BY <1>1, TimerFiresKeeps, NothingToDrainKeeps, DrainKeeps, BootRefusedKeeps, BootAcceptedKeeps,
     HeartbeatKeeps, SetupRefusedKeeps, SetupFinishedKeeps, SeedKeeps, ReplayBatchKeeps,
     SaveProgressKeeps, EndReplayKeeps, AdoptionRefusedKeeps, AdoptedKeeps
     DEF Worker
<1>2. ASSUME NEW m \in Machines, Admin(m) PROVE TypeOK' /\ Keyed'
  BY <1>2, Step1Keeps, FinishSetupKeeps, VerifyKeeps, BackupNowKeeps, NightlySnapshotKeeps,
     StartRestoreKeeps, ApplySnapshotKeeps, StartReplayKeeps, FinishRestoreKeeps,
     CancelRestoreKeeps, WriteKeeps, HoldKeeps, EndHeldKeeps, BootKeeps, StopKeeps
     DEF Admin
<1>3. QED
  BY <1>1, <1>2, TickKeeps, NetworkKeeps, StutterKeeps DEF Next

-----------------------------------------------------------------------------
(* A resumed replay *)

\* Where a machine's restore job stands: a loaded snapshot has set the machine up, which
\* ends the job's steps; what it had to apply at or below the saved position is in the
\* database or stepped over; a replay has the rest of it still before it, in the order of
\* first numbers.
InReplay(c) == c.at \in {"replay", "applied"}
Restoring(c) == InReplay(c) \/ (c.at = "claim" /\ c.for = "adopt")
Over(L, n) == \E b \in L : b.from < n /\ n < b.to /\ n \notin b.rows
Treated(j, d, n) == n \in d \/ Over(j.listed, n)
Ahead(c, n) == n > c.since /\ \E b \in c.todo : n \in b.rows
Applied(j, d, c) ==
    \E b \in j.listed : /\ b.to = c.to
                        /\ \A n \in b.rows : n > c.since => n \in d
                        /\ \A x \in c.todo : b.from <= x.from
Standing(j, r, d, c) ==
    /\ j.state = "snapshot_applied" => r.setup = TRUE
    /\ Restoring(c) => r.setup = FALSE
    /\ j.state # "snapshot_applied" => \A n \in j.due : n <= j.through => Treated(j, d, n)
    /\ InReplay(c) => /\ c.todo \subseteq j.listed
                      /\ \A n \in j.due : Treated(j, d, n) \/ Ahead(c, n)
    /\ c.at = "applied" => Applied(j, d, c)

\* What a job lists are batches of the namespace, and what it has to apply are their rows.
Rooted(j, B) == j.listed \subseteq B /\ \A n \in j.due : \E b \in j.listed : n \in b.rows

Resuming ==
    /\ \A b \in batches : Shaped(b)
    /\ \A m \in Machines : Standing(job[m], row[m], data[m], pc[m]) /\ Rooted(job[m], batches)

\* The inductive form implies the property of the runs.
LEMMA ResumingImplies == Resuming => ResumeMissesNothing
  BY DEF Resuming, Standing, Treated, Over, SteppedOver, ResumeMissesNothing

\* At first there is no job.
LEMMA ResumingInit == Init => Resuming
  BY DEF Init, Resuming, Standing, Rooted, Restoring, InReplay, NoJob, Idle

\* More rows in the database, and more or no restoring, leave a job where it stood.
LEMMA StandsOn ==
  ASSUME NEW j, NEW r, NEW r2, NEW d, NEW d2, NEW c, NEW c2,
         Standing(j, r, d, c), d \subseteq d2, r.setup = TRUE => r2.setup = TRUE,
         (c2 = c /\ r2.setup = r.setup) \/ ~Restoring(c2)
  PROVE  Standing(j, r2, d2, c2)
<1>1. \A n : Treated(j, d, n) => Treated(j, d2, n)
  BY DEF Treated
<1>2. Applied(j, d, c) => Applied(j, d2, c)
  BY DEF Applied
<1>3. CASE c2 = c /\ r2.setup = r.setup
  BY <1>1, <1>2, <1>3 DEF Standing
<1>4. CASE ~Restoring(c2)
  BY <1>1, <1>4 DEF Standing, Restoring, InReplay
<1>5. QED
  BY <1>3, <1>4

\* Steps that leave every job and every replay alone.
LEMMA Aside ==
  ASSUME Resuming, batches \subseteq batches', job' = job,
         \A b \in batches' \ batches : Shaped(b),
         \A o \in Machines :
            /\ data[o] \subseteq data'[o]
            /\ row[o].setup = TRUE => row'[o].setup = TRUE
            /\ \/ pc'[o] = pc[o] /\ row'[o].setup = row[o].setup
               \/ ~Restoring(pc'[o])
  PROVE  Resuming'
<1>1. \A b \in batches' : Shaped(b)
  BY DEF Resuming
<1>2. ASSUME NEW m \in Machines
      PROVE  Standing(job[m], row'[m], data'[m], pc'[m]) /\ Rooted(job[m], batches')
  <2>1. Standing(job[m], row[m], data[m], pc[m]) /\ Rooted(job[m], batches)
    BY DEF Resuming
  <2>2. PICK j, r, r2, d, d2, c, c2 :
            /\ j = job[m] /\ r = row[m] /\ r2 = row'[m] /\ d = data[m] /\ d2 = data'[m]
            /\ c = pc[m] /\ c2 = pc'[m]
    OBVIOUS
  <2>3. /\ Standing(j, r, d, c) /\ d \subseteq d2 /\ (r.setup = TRUE => r2.setup = TRUE)
        /\ (c2 = c /\ r2.setup = r.setup) \/ ~Restoring(c2)
    BY <2>1, <2>2
  <2>4. Standing(j, r2, d2, c2)
    BY <2>3, StandsOn
  <2>5. Standing(job[m], row'[m], data'[m], pc'[m])
    BY <2>2, <2>4
  <2>6. QED
    BY <2>1, <2>5 DEF Rooted
<1>3. QED
  BY <1>1, <1>2 DEF Resuming

\* These are the steps of everything but the restore itself.
LEMMA AsideSteps ==
  ASSUME TypeOK, Resuming, NEW m \in Machines
  PROVE  /\ Step1(m) => Resuming'
         /\ Seed(m) => Resuming'
         /\ FinishSetup(m) => Resuming'
         /\ Verify(m) => Resuming'
         /\ BackupNow(m) => Resuming'
         /\ NightlySnapshot(m) => Resuming'
         /\ Boot(m) => Resuming'
         /\ Write(m) => Resuming'
         /\ Hold(m) => Resuming'
         /\ EndHeld(m) => Resuming'
         /\ TimerFires(m) => Resuming'
         /\ NothingToDrain(m) => Resuming'
         /\ Drain(m) => Resuming'
         /\ BootRefused(m) => Resuming'
         /\ BootAccepted(m) => Resuming'
         /\ Heartbeat(m) => Resuming'
         /\ SetupRefused(m) => Resuming'
         /\ SetupFinished(m) => Resuming'
         /\ AdoptionRefused(m) => Resuming'
         /\ Stop(m) => Resuming'
<1>1. ASSUME Step1(m) PROVE Resuming'
  BY <1>1, Aside DEF Step1, TypeOK, Restoring, InReplay, Idle, Ready, cloud
<1>2. ASSUME Seed(m) PROVE Resuming'
  BY <1>2, Aside DEF Seed, TypeOK, Restoring, InReplay, Idle, Finish, cloud
<1>3. ASSUME FinishSetup(m) PROVE Resuming'
  BY <1>3, Aside DEF FinishSetup, TypeOK, Restoring, InReplay, Idle, ReadRegistry, cloud
<1>4. ASSUME Verify(m) PROVE Resuming'
  BY <1>4, Aside DEF Verify, TypeOK, Restoring, InReplay, Idle, cloud
<1>5. ASSUME BackupNow(m) PROVE Resuming'
  BY <1>5, Aside DEF BackupNow, TypeOK, Restoring, InReplay, Idle, machine
<1>6. ASSUME NightlySnapshot(m) PROVE Resuming'
  BY <1>6, Aside DEF NightlySnapshot, TypeOK, Restoring, InReplay, Idle, machine
<1>7. ASSUME Boot(m) PROVE Resuming'
  <2>1. \A o \in Machines : pc'[o] = pc[o] \/ ~Restoring(pc'[o])
    BY <1>7 DEF Boot, TypeOK, Restoring, InReplay, ReadRegistry, cloud
  <2>2. QED
    BY <1>7, <2>1, Aside DEF Boot, cloud
<1>8. ASSUME Write(m) PROVE Resuming'
  BY <1>8, Aside DEF Write, Commit, TypeOK, cloud
<1>19. ASSUME Hold(m) PROVE Resuming'
  BY <1>19, Aside DEF Hold, cloud
<1>20. ASSUME EndHeld(m) PROVE Resuming'
  <2>1. data' = data \/ data' = [data EXCEPT ![m] = @ \cup {numbers[m].open}]
    BY <1>20 DEF EndHeld, Commit
  <2>2. \A o \in Machines : data[o] \subseteq data'[o]
    BY <2>1 DEF TypeOK
  <2>3. QED
    BY <1>20, <2>2, Aside DEF EndHeld, cloud
<1>9. ASSUME TimerFires(m) PROVE Resuming'
  <2>1. \A o \in Machines : pc'[o] = pc[o] \/ ~Restoring(pc'[o])
    BY <1>9 DEF TimerFires, TypeOK, Restoring, InReplay, cloud
  <2>2. QED
    BY <1>9, <2>1, Aside DEF TimerFires, cloud
<1>10. ASSUME NothingToDrain(m) PROVE Resuming'
  BY <1>10, Aside DEF NothingToDrain, TypeOK, Restoring, InReplay, Idle, Finish, cloud
<1>11. ASSUME Drain(m) PROVE Resuming'
  <2>1. pc[m].key \in Ids /\ pending[m] \subseteq Seqs /\ pending[m] # {}
    BY <1>11, CallKinds DEF Drain, TypeOK, Draining
  <2>2. Shaped(Batch(pending[m], pc[m].key))
    BY <2>1, BatchType
  <2>3. batches \subseteq batches' /\ \A b \in batches' \ batches : Shaped(b)
    BY <1>11, <2>2 DEF Drain
  <2>4. \A o \in Machines : pc'[o] = pc[o] \/ ~Restoring(pc'[o])
    BY <1>11 DEF Drain, TypeOK, Restoring, InReplay, ReadRegistry
  <2>5. QED
    BY <1>11, <2>3, <2>4, Aside DEF Drain
<1>12. ASSUME BootRefused(m) PROVE Resuming'
  BY <1>12, Aside DEF BootRefused, TypeOK, Restoring, InReplay, Idle, Finish
<1>13. ASSUME BootAccepted(m) PROVE Resuming'
  BY <1>13, Aside DEF BootAccepted, TypeOK, Restoring, InReplay, Idle, Finish
<1>14. ASSUME Heartbeat(m) PROVE Resuming'
  BY <1>14, Aside DEF Heartbeat, TypeOK, Restoring, InReplay, Idle, Finish
<1>15. ASSUME SetupRefused(m) PROVE Resuming'
  BY <1>15, Aside DEF SetupRefused, TypeOK, Restoring, InReplay, Idle, Finish
<1>16. ASSUME SetupFinished(m) PROVE Resuming'
  BY <1>16, Aside DEF SetupFinished, TypeOK, Restoring, InReplay, Idle, Finish
<1>17. ASSUME AdoptionRefused(m) PROVE Resuming'
  BY <1>17, Aside DEF AdoptionRefused, TypeOK, Restoring, InReplay, Idle, Finish
<1>18. ASSUME Stop(m) PROVE Resuming'
  BY <1>18, Aside DEF Stop, TypeOK, Restoring, InReplay, Idle, cloud
<1>21. QED
  BY <1>1, <1>2, <1>3, <1>4, <1>5, <1>6, <1>7, <1>8, <1>9, <1>10, <1>11, <1>12, <1>13,
     <1>14, <1>15, <1>16, <1>17, <1>18, <1>19, <1>20

\* So are the clock and the network.
LEMMA TickAside == ASSUME Resuming, Tick \/ Network \/ UNCHANGED vars PROVE Resuming'
  BY Aside DEF Tick, Network, vars, machine, cloud

\* The steps that move one job: the rest stands as it did.
LEMMA JobMoves ==
  ASSUME TypeOK, Resuming, NEW m \in Machines, UNCHANGED batches,
         \A o \in Machines \ {m} :
            job'[o] = job[o] /\ row'[o] = row[o] /\ data'[o] = data[o] /\ pc'[o] = pc[o],
         Standing(job'[m], row'[m], data'[m], pc'[m]),
         Rooted(job'[m], batches)
  PROVE  Resuming'
  BY DEF Resuming

\* StartRestore leaves every job where it may stand.
LEMMA StartRestoreResumes ==
  ASSUME TypeOK, Keyed, Resuming, NEW m \in Machines, StartRestore(m) PROVE Resuming'
<1>1. /\ job'[m].state = "discovered" /\ job'[m].listed = {} /\ job'[m].due = {}
      /\ pc[m].at = "idle"
  BY IdleCall DEF StartRestore, Restores, Ready, TypeOK
<1>2. Standing(job'[m], row[m], data[m], pc[m]) /\ Rooted(job'[m], batches)
  BY <1>1 DEF Standing, Restoring, InReplay, Rooted
<1>3. /\ UNCHANGED <<row, data, batches, pc>>
      /\ \A o \in Machines \ {m} : job'[o] = job[o]
  BY DEF StartRestore, cloud, TypeOK
<1>4. QED
  BY <1>2, <1>3, JobMoves

\* CancelRestore leaves every job where it may stand.
LEMMA CancelRestoreResumes ==
  ASSUME TypeOK, Keyed, Resuming, NEW m \in Machines, CancelRestore(m) PROVE Resuming'
<1>1. /\ job'[m].state = "none" /\ job'[m].listed = {} /\ job'[m].due = {}
      /\ pc[m].at = "idle"
  BY IdleCall DEF CancelRestore, Restores, Ready, NoJob, TypeOK
<1>2. Standing(job'[m], row[m], data[m], pc[m]) /\ Rooted(job'[m], batches)
  BY <1>1 DEF Standing, Restoring, InReplay, Rooted
<1>3. QED
  BY <1>2, JobMoves DEF CancelRestore, cloud

\* ApplySnapshot leaves every job where it may stand.
LEMMA ApplySnapshotResumes ==
  ASSUME TypeOK, Keyed, Resuming, NEW m \in Machines, ApplySnapshot(m) PROVE Resuming'
<1>1. /\ pc[m].at = "idle" /\ job[m] \in Jobs
      /\ job[m].shot.row.setup = TRUE /\ row[m].setup = FALSE
  BY IdleCall DEF ApplySnapshot, Restores, Ready, Fresh, TypeOK, Jobs, Rows, Keyed, Configured
<1>2. Standing(job[m], row[m], data[m], pc[m]) /\ Rooted(job[m], batches)
  BY DEF Resuming
<1>3. CASE /\ row' = [row EXCEPT ![m] = job[m].shot.row]
           /\ job' = [job EXCEPT ![m].state = "snapshot_applied"]
  <2>1. /\ row'[m].setup = TRUE /\ job'[m].state = "snapshot_applied"
        /\ job'[m].listed = job[m].listed /\ job'[m].due = job[m].due
    BY <1>1, <1>3 DEF TypeOK, Jobs
  <2>2. Standing(job'[m], row'[m], data'[m], pc[m])
    BY <1>1, <2>1 DEF Standing, Restoring, InReplay
  <2>3. Rooted(job'[m], batches)
    BY <1>2, <2>1 DEF Rooted
  <2>4. QED
    BY <1>3, <2>2, <2>3, JobMoves DEF ApplySnapshot, cloud, TypeOK
<1>4. CASE job' = job /\ data' = data
  <2>1. row'[m] \in {row[m], job[m].shot.row}
    BY <1>4 DEF ApplySnapshot, TypeOK, Jobs
  <2>2. Standing(job[m], row'[m], data[m], pc[m])
    BY <1>1, <1>2, <2>1 DEF Standing, Restoring, InReplay
  <2>3. QED
    BY <1>2, <1>4, <2>2, JobMoves DEF ApplySnapshot, cloud, TypeOK
<1>5. QED
  BY <1>3, <1>4 DEF ApplySnapshot

\* StartReplay leaves every job where it may stand.
LEMMA StartReplayResumes ==
  ASSUME TypeOK, Keyed, Resuming, NEW m \in Machines, StartReplay(m) PROVE Resuming'
<1>1. PICK c : c = [at |-> "replay", key |-> salt, since |-> job[m].through, to |-> 0,
                    todo |-> Newer(m)]
  OBVIOUS
<1>2. PICK j : j = [job[m] EXCEPT !.listed = @ \cup Newer(m), !.due = @ \cup Due(m)]
  OBVIOUS
<1>3. pc'[m] = c /\ job'[m] = j /\ row'[m] = row[m] /\ data'[m] = data[m]
  BY <1>1, <1>2 DEF StartReplay, TypeOK
<1>4. /\ Standing(job[m], row[m], data[m], pc[m]) /\ Rooted(job[m], batches)
      /\ \A b \in batches : Shaped(b)
  BY DEF Resuming
<1>5. /\ row[m].setup = FALSE /\ job[m].state # "snapshot_applied" /\ job[m] \in Jobs
      /\ batches \subseteq Batches
  BY <1>4 DEF StartReplay, Restores, Fresh, Standing, TypeOK, Rows, Jobs
<1>6. /\ j.state = job[m].state /\ j.through = job[m].through /\ j.through \in Int
      /\ j.listed = job[m].listed \cup Newer(m) /\ j.due = job[m].due \cup Due(m)
      /\ c.at = "replay" /\ c.since = j.through /\ c.todo = Newer(m)
  BY <1>1, <1>2, <1>5 DEF Jobs
<1>7. Rooted(j, batches)
  <2>1. j.listed \subseteq batches
    BY <1>4, <1>6 DEF Rooted, Newer
  <2>2. \A n \in Due(m) : \E b \in j.listed : n \in b.rows
    BY <1>6 DEF Due
  <2>3. QED
    BY <1>4, <1>6, <2>1, <2>2 DEF Rooted
<1>8. ASSUME NEW n \in j.due, ~Ahead(c, n)
      PROVE  Treated(j, data[m], n)
  <2>1. n \notin Due(m)
    BY <1>6, <1>8 DEF Due, Ahead
  <2>2. n \in job[m].due /\ n \in Seqs
    BY <1>5, <1>6, <2>1 DEF Jobs
  <2>3. PICK b \in batches : n \in b.rows
    BY <1>4, <2>2 DEF Rooted
  <2>4. n <= b.to /\ b.to \in Int /\ n \in Int
    BY <1>4, <1>5, <2>2, <2>3 DEF Shaped, Batches, Seqs
  <2>5. n <= job[m].through
    <3> SUFFICES ASSUME n > job[m].through PROVE FALSE
      BY <1>6, <2>4
    <3>1. b \in Newer(m)
      BY <1>6, <2>4 DEF Newer
    <3>2. QED
      BY <1>6, <1>8, <2>3, <3>1 DEF Ahead
  <2>6. Treated(job[m], data[m], n)
    BY <1>4, <1>5, <2>2, <2>5 DEF Standing
  <2>7. QED
    BY <1>6, <2>6 DEF Treated, Over
<1>9. \A n \in j.due : n <= j.through => Treated(j, data[m], n)
  <2> SUFFICES ASSUME NEW n \in j.due, n <= j.through PROVE Treated(j, data[m], n)
    OBVIOUS
  <2>1. n \in Int
    BY <1>5, <1>6 DEF Jobs, Seqs, Due, Newer, Batches
  <2>2. ~Ahead(c, n)
    BY <1>6, <2>1 DEF Ahead
  <2>3. QED
    BY <1>8, <2>2
<1>10. Standing(j, row[m], data[m], c)
  BY <1>5, <1>6, <1>8, <1>9 DEF Standing, Restoring, InReplay
<1>11. \A o \in Machines \ {m} :
        job'[o] = job[o] /\ row'[o] = row[o] /\ data'[o] = data[o] /\ pc'[o] = pc[o]
  BY DEF StartReplay, TypeOK
<1>12. UNCHANGED batches
  BY DEF StartReplay, cloud
<1>13. Standing(job'[m], row'[m], data'[m], pc'[m]) /\ Rooted(job'[m], batches)
  BY <1>3, <1>7, <1>10
<1>14. QED
  BY <1>11, <1>12, <1>13, JobMoves

\* ReplayBatch leaves every job where it may stand.
LEMMA ReplayBatchResumes ==
  ASSUME TypeOK, Keyed, Resuming, NEW m \in Machines, ReplayBatch(m) PROVE Resuming'
<1>1. pc[m] \in Replaying /\ pc[m].at = "replay"
  BY CallKinds DEF ReplayBatch, TypeOK
<1>2. PICK b \in NextBatch(m) :
        \/ /\ data' = [data EXCEPT ![m] = @ \cup {n \in b.rows : n > pc[m].since}]
           /\ pc' = [pc EXCEPT ![m].at = "applied", ![m].to = b.to, ![m].todo = @ \ {b}]
        \/ Finish(m) /\ data' = data
  BY DEF ReplayBatch
<1>3. CASE Finish(m) /\ data' = data
  BY <1>3, Aside DEF ReplayBatch, Finish, Restoring, InReplay, Idle, TypeOK, cloud
<1>4. CASE /\ data' = [data EXCEPT ![m] = @ \cup {n \in b.rows : n > pc[m].since}]
           /\ pc' = [pc EXCEPT ![m].at = "applied", ![m].to = b.to, ![m].todo = @ \ {b}]
  <2>1. PICK c, d : /\ c = [pc[m] EXCEPT !.at = "applied", !.to = b.to, !.todo = @ \ {b}]
                    /\ d = data[m] \cup {n \in b.rows : n > pc[m].since}
    OBVIOUS
  <2>2. /\ pc'[m] = c /\ data'[m] = d
        /\ c.at = "applied" /\ c.to = b.to /\ c.todo = pc[m].todo \ {b} /\ c.since = pc[m].since
    BY <1>1, <1>4, <2>1 DEF TypeOK, Replaying
  <2>3. Standing(job[m], row[m], data[m], pc[m]) /\ Rooted(job[m], batches)
    BY DEF Resuming
  <2>4. b \in pc[m].todo /\ \A x \in pc[m].todo : b.from <= x.from
    BY DEF NextBatch
  <2>5. pc[m].todo \subseteq job[m].listed /\ row[m].setup = FALSE
    BY <1>1, <2>3 DEF Standing, Restoring, InReplay
  <2>6. Applied(job[m], d, c)
    BY <2>1, <2>2, <2>4, <2>5 DEF Applied
  <2>7. ASSUME NEW n \in job[m].due PROVE Treated(job[m], d, n) \/ Ahead(c, n)
    <3>1. Treated(job[m], data[m], n) \/ Ahead(pc[m], n)
      BY <1>1, <2>3 DEF Standing, InReplay
    <3>2. Treated(job[m], data[m], n) => Treated(job[m], d, n)
      BY <2>1 DEF Treated
    <3>3. ASSUME Ahead(pc[m], n) PROVE n \in d \/ Ahead(c, n)
      BY <2>1, <2>2, <3>3 DEF Ahead
    <3>4. QED
      BY <3>1, <3>2, <3>3 DEF Treated
  <2>8. \A n \in job[m].due :
            job[m].state # "snapshot_applied" /\ n <= job[m].through => Treated(job[m], d, n)
    BY <2>1, <2>3 DEF Standing, Treated
  <2>9. Standing(job[m], row[m], d, c)
    BY <2>2, <2>3, <2>5, <2>6, <2>7, <2>8 DEF Standing, Restoring, InReplay
  <2>10. /\ UNCHANGED <<job, row, batches>>
         /\ \A o \in Machines \ {m} : data'[o] = data[o] /\ pc'[o] = pc[o]
    BY <1>4 DEF ReplayBatch, cloud, TypeOK
  <2>11. Standing(job'[m], row'[m], data'[m], pc'[m]) /\ Rooted(job'[m], batches)
    BY <2>2, <2>3, <2>9, <2>10
  <2>12. QED
    BY <2>10, <2>11, JobMoves
<1>5. QED
  BY <1>2, <1>3, <1>4

\* SaveProgress leaves every job where it may stand.
LEMMA SaveProgressResumes ==
  ASSUME TypeOK, Keyed, Resuming, NEW m \in Machines, SaveProgress(m) PROVE Resuming'
<1>1. pc[m] \in Replaying /\ pc[m].at = "applied" /\ job[m] \in Jobs
  BY CallKinds DEF SaveProgress, TypeOK, Jobs
<1>2. /\ job'[m].state = "replaying" /\ job'[m].through = pc[m].to
      /\ job'[m].listed = job[m].listed /\ job'[m].due = job[m].due
      /\ pc'[m].at = "replay" /\ pc'[m].todo = pc[m].todo /\ pc'[m].since = pc[m].since
      /\ row'[m] = row[m] /\ data'[m] = data[m]
  BY <1>1 DEF SaveProgress, TypeOK, Jobs, Replaying
<1>3. /\ Standing(job[m], row[m], data[m], pc[m]) /\ Rooted(job[m], batches)
      /\ \A b \in batches : Shaped(b) /\ b \in Batches
  BY DEF Resuming, TypeOK
<1>4. /\ pc[m].todo \subseteq job[m].listed /\ job[m].listed \subseteq batches
      /\ \A n \in job[m].due : Treated(job[m], data[m], n) \/ Ahead(pc[m], n)
      /\ row[m].setup = FALSE
  BY <1>1, <1>3 DEF Standing, Restoring, InReplay, Rooted
<1>5. PICK b \in job[m].listed :
        /\ b.to = pc[m].to
        /\ \A n \in b.rows : n > pc[m].since => n \in data[m]
        /\ \A x \in pc[m].todo : b.from <= x.from
  BY <1>1, <1>3 DEF Standing, Applied
<1>6. ASSUME NEW n \in job[m].due, n <= pc[m].to PROVE Treated(job[m], data[m], n)
  <2> SUFFICES ASSUME Ahead(pc[m], n), n \notin data[m] PROVE Over(job[m].listed, n)
    BY <1>4 DEF Treated
  <2>1. PICK x \in pc[m].todo : n \in x.rows /\ n > pc[m].since
    BY DEF Ahead
  <2>2. x \in batches /\ b \in batches /\ n \in Int
    BY <1>1, <1>4 DEF Jobs, Seqs
  <2>3. b.from <= n /\ n <= b.to
    <3>1. x \in Batches /\ b \in Batches /\ Shaped(x)
      BY <1>3, <2>2
    <3>2. x.from \in Int /\ b.from \in Int
      BY <3>1 DEF Batches, Seqs
    <3>3. x.from <= n
      BY <2>1, <3>1 DEF Shaped
    <3>4. b.from <= x.from
      BY <1>5, <2>1
    <3>5. QED
      BY <1>5, <1>6, <2>2, <3>2, <3>3, <3>4
  <2>4. n \notin b.rows
    BY <1>5, <2>1
  <2>5. b.from \in b.rows /\ b.to \in b.rows /\ b.from \in Int /\ b.to \in Int
    BY <1>3, <2>2 DEF Shaped, Batches, Seqs
  <2>6. b.from # n /\ b.to # n
    BY <2>4, <2>5
  <2>7. b.from < n /\ n < b.to
    BY <2>2, <2>3, <2>5, <2>6
  <2>8. QED
    BY <2>4, <2>7 DEF Over
<1>7. Standing(job'[m], row'[m], data'[m], pc'[m])
  <2>1. \A n \in job'[m].due : n <= job'[m].through => Treated(job'[m], data'[m], n)
    BY <1>2, <1>6 DEF Treated
  <2>2. \A n \in job'[m].due : Treated(job'[m], data'[m], n) \/ Ahead(pc'[m], n)
    BY <1>2, <1>4 DEF Treated, Ahead
  <2>3. QED
    BY <1>2, <1>4, <2>1, <2>2 DEF Standing, Restoring, InReplay
<1>8. Rooted(job'[m], batches)
  BY <1>2, <1>3 DEF Rooted
<1>9. /\ UNCHANGED <<row, data, batches>>
      /\ \A o \in Machines \ {m} : job'[o] = job[o] /\ pc'[o] = pc[o]
  BY DEF SaveProgress, cloud, TypeOK
<1>10. QED
  BY <1>7, <1>8, <1>9, JobMoves

\* EndReplay leaves every job where it may stand.
LEMMA EndReplayResumes ==
  ASSUME TypeOK, Keyed, Resuming, NEW m \in Machines, EndReplay(m) PROVE Resuming'
<1>1. pc[m].at = "replay" /\ job[m] \in Jobs
  BY DEF EndReplay, TypeOK, Jobs
<1>2. /\ job'[m].state = "replayed" /\ job'[m].through = job[m].through
      /\ job'[m].listed = job[m].listed /\ job'[m].due = job[m].due
      /\ pc'[m].at = "idle" /\ row'[m] = row[m] /\ data'[m] = data[m]
  BY <1>1, IdleCall DEF EndReplay, Finish, TypeOK, Jobs
<1>3. Standing(job[m], row[m], data[m], pc[m]) /\ Rooted(job[m], batches)
  BY DEF Resuming
<1>4. job[m].state # "snapshot_applied"
  BY <1>1, <1>3 DEF Standing, Restoring, InReplay
<1>5. Standing(job'[m], row'[m], data'[m], pc'[m])
  BY <1>2, <1>3, <1>4 DEF Standing, Restoring, InReplay, Treated
<1>6. Rooted(job'[m], batches)
  BY <1>2, <1>3 DEF Rooted
<1>7. /\ UNCHANGED <<row, data, batches>>
      /\ \A o \in Machines \ {m} : job'[o] = job[o] /\ pc'[o] = pc[o]
  BY DEF EndReplay, Finish, cloud, TypeOK
<1>8. QED
  BY <1>5, <1>6, <1>7, JobMoves

\* FinishRestore leaves every job where it may stand.
LEMMA FinishRestoreResumes ==
  ASSUME TypeOK, Keyed, Resuming, NEW m \in Machines, FinishRestore(m) PROVE Resuming'
<1>1. row[m].setup = FALSE /\ pc'[m].at = "claim"
  BY DEF FinishRestore, Restores, Fresh, ReadRegistry, TypeOK, Rows
<1>2. Standing(job[m], row[m], data[m], pc[m]) /\ Rooted(job[m], batches)
  BY DEF Resuming
<1>3. Standing(job[m], row[m], data[m], pc'[m])
  BY <1>1, <1>2 DEF Standing, Restoring, InReplay
<1>4. /\ UNCHANGED <<job, row, data, batches>>
      /\ \A o \in Machines \ {m} : pc'[o] = pc[o]
  BY DEF FinishRestore, ReadRegistry, cloud, TypeOK
<1>5. QED
  BY <1>2, <1>3, <1>4, JobMoves

\* Adopted leaves every job where it may stand.
LEMMA AdoptedResumes ==
  ASSUME TypeOK, Keyed, Resuming, NEW m \in Machines, Adopted(m) PROVE Resuming'
<1>1. pc[m].at = "claim" /\ job[m] \in Jobs /\ row[m] \in Rows
  BY DEF Adopted, WriteClaim, TypeOK, Jobs
<1>2. /\ job'[m].state = "complete" /\ job'[m].listed = job[m].listed
      /\ job'[m].due = job[m].due /\ job'[m].through = job[m].through
      /\ pc'[m].at = "idle" /\ row'[m].setup = TRUE /\ data'[m] = data[m]
  BY <1>1, IdleCall DEF Adopted, Finish, TypeOK, Jobs, Rows
<1>3. Standing(job[m], row[m], data[m], pc[m]) /\ Rooted(job[m], batches)
  BY DEF Resuming
<1>4. job[m].state # "snapshot_applied"
  BY <1>1, <1>3 DEF Adopted, WriteClaim, Standing, Restoring
<1>5. Standing(job'[m], row'[m], data'[m], pc'[m])
  BY <1>2, <1>3, <1>4 DEF Standing, Restoring, InReplay, Treated
<1>6. Rooted(job'[m], batches)
  BY <1>2, <1>3 DEF Rooted
<1>7. /\ UNCHANGED <<data, batches>>
      /\ \A o \in Machines \ {m} : job'[o] = job[o] /\ pc'[o] = pc[o] /\ row'[o] = row[o]
  BY DEF Adopted, Finish, TypeOK
<1>8. QED
  BY <1>5, <1>6, <1>7, JobMoves

\* Every step leaves every job where it may stand.
LEMMA StepResumes == ASSUME TypeOK, Keyed, Resuming, [Next]_vars PROVE Resuming'
<1>1. ASSUME NEW m \in Machines, Worker(m) PROVE Resuming'
  BY <1>1, AsideSteps, ReplayBatchResumes, SaveProgressResumes, EndReplayResumes, AdoptedResumes
     DEF Worker
<1>2. ASSUME NEW m \in Machines, Admin(m) PROVE Resuming'
  BY <1>2, AsideSteps, StartRestoreResumes, CancelRestoreResumes, ApplySnapshotResumes,
     StartReplayResumes, FinishRestoreResumes
     DEF Admin
<1>3. QED
  BY <1>1, <1>2, TickAside DEF Next

-----------------------------------------------------------------------------
(* The theorems *)

\* Every variable has its type, whatever the machines do.
THEOREM TypeCorrect == Spec => []TypeOK
<1>1. TypeOK /\ Keyed /\ [Next]_vars => (TypeOK /\ Keyed)'
  BY StepKeeps
<1>2. QED
  BY TypeInit, <1>1, PTL DEF Spec

\* A restore that is stopped, fails or is tried again, with any number of machines writing
\* meanwhile, has in its database every row it had to apply up to its saved position, but
\* for rows that another listed batch steps over.
THEOREM ResumesSafely == Spec => []ResumeMissesNothing
<1> DEFINE IInv == TypeOK /\ Keyed /\ Resuming
<1>1. Init => IInv
  BY TypeInit, ResumingInit
<1>2. IInv /\ [Next]_vars => IInv'
  BY StepKeeps, StepResumes
<1>3. IInv => ResumeMissesNothing
  BY ResumingImplies
<1>4. QED
  BY <1>1, <1>2, <1>3, PTL DEF Spec
=============================================================================
