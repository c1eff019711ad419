-------------------------- MODULE CloudSync_proofs --------------------------
(***************************************************************************)
(* What is proved of the sync worker, for any number of rows, targets and  *)
(* faults.                                                                 *)
(*                                                                         *)
(* Nothing leaves the queue unless a target holds it, with any number of   *)
(* overlapping drain cycles, provided that no target replaces an object    *)
(* when a key comes back.  The inductive invariant adds to SentIsStored    *)
(* what a drain knows while it works: if `reached` is set, the object it   *)
(* is shipping is stored, whole, on some target.  With targets that never  *)
(* replace an object the stores only grow, so that knowledge stays true    *)
(* until the rows are marked, whatever the other drains do meanwhile.      *)
(*                                                                         *)
(* When drain cycles do not overlap, nothing is lost on any target, one    *)
(* that replaces objects included: every batch whose rows count as shipped *)
(* begins with a shipped row, and a put replaces only a batch that begins  *)
(* with the same row, which is then still waiting.                         *)
(*                                                                         *)
(* "Stored" has one exception, the rows in `misreported`: a driver         *)
(* acknowledged a put that left no such batch.  Where no driver does that, *)
(* it is empty.                                                            *)
(*                                                                         *)
(* The state has its type; and a restore rebuilds the newest version of    *)
(* everything when cycles do not overlap and transactions commit one by    *)
(* one as well.                                                            *)
(***************************************************************************)
EXTENDS CloudSync, FoldLemmas

\* The functions the argument looks at have the domains it assumes.
Shaped ==
    /\ DOMAIN status = Rows
    /\ DOMAIN upload = Drains /\ DOMAIN reached = Drains
    /\ DOMAIN pc = Drains /\ DOMAIN at = Drains
    /\ DOMAIN store = Targets

\* No target replaces an object when its key comes back.
NoReplacing == \A t \in Targets : Kind[t] # "s3"

\* Some target holds an unbroken batch with these rows, or a driver said so.
Kept(rows) ==
    \/ rows \subseteq misreported
    \/ \E t \in Targets : \E o \in store[t] : o.whole = TRUE /\ rows \subseteq o.rows

Whole == \A d \in Drains : upload[d].whole = TRUE
Fresh == \A d \in Drains : pc[d] # "uploading" => reached[d] = FALSE
ReachedKept == \A d \in Drains : reached[d] = TRUE => Kept(upload[d].rows)
ShippedKept == \A n \in Rows : status[n] \in {"sent", "pruned"} => Kept({n})

Shipping == Shaped /\ Whole /\ Fresh /\ ReachedKept /\ ShippedKept

\* The inductive form implies the property of the runs.
LEMMA KeptIsStored == ASSUME ShippedKept PROVE SentIsStored
  BY DEF ShippedKept, SentIsStored, Kept, Stored

\* What is kept stays kept while the stores only grow.
LEMMA KeptStays ==
  ASSUME NEW rows, Kept(rows), \A t \in Targets : store[t] \subseteq store'[t],
         misreported \subseteq misreported'
  PROVE  \/ rows \subseteq misreported'
         \/ \E t \in Targets : \E o \in store'[t] : o.whole = TRUE /\ rows \subseteq o.rows
  BY DEF Kept

\* A put adds to a target and takes nothing away.
LEMMA WithGrows ==
  ASSUME NoReplacing, NEW t \in Targets, NEW objects PROVE store[t] \subseteq With(t, objects)
  BY DEF With, NoReplacing

\* A step that raises no `reached`, ships no new object in its place, marks
\* nothing as shipped and takes nothing from a store keeps the invariant.
LEMMA NothingShipped ==
  ASSUME Shipping, Shaped', Whole', Fresh',
         \A t \in Targets : store[t] \subseteq store'[t], misreported \subseteq misreported',
         \A d \in Drains : reached'[d] = TRUE => reached[d] = TRUE /\ upload'[d] = upload[d],
         \A n \in Rows : status'[n] \in {"sent", "pruned"} => status[n] \in {"sent", "pruned"}
  PROVE  Shipping'
<1>1. ReachedKept'
  <2> SUFFICES ASSUME NEW d \in Drains, reached'[d] = TRUE PROVE Kept(upload[d].rows)'
    BY DEF ReachedKept
  <2>1. Kept(upload[d].rows) /\ upload'[d] = upload[d]
    BY DEF Shipping, ReachedKept
  <2>2. QED
    BY <2>1, KeptStays DEF Kept
<1>2. ShippedKept'
  BY KeptStays DEF Shipping, ShippedKept, Kept
<1>3. QED
  BY <1>1, <1>2 DEF Shipping

\* A drain that is at a target is at one of Targets.
LEMMA TargetAt ==
  ASSUME NEW d \in Drains, AtTarget(d) PROVE TargetOrder[at[d]] \in Targets
  BY TargetsAssumption DEF AtTarget

\* The object of an idle drain counts as unbroken.
LEMMA EmptyWhole == NoUpload.whole = TRUE
  BY DEF NoUpload

\* A cycle that ends forgets its object and shows nothing new as shipped.
LEMMA RestKeeps ==
  ASSUME Shipping, NEW d \in Drains, Rest(d), UNCHANGED cloud, DOMAIN status' = Rows,
         \A n \in Rows : status'[n] \in {"sent", "pruned"} => status[n] \in {"sent", "pruned"}
  PROVE  Shipping'
<1>1. Shaped' /\ Fresh'
  BY DEF Rest, cloud, Shipping, Shaped, Fresh
<1>2. Whole'
  BY EmptyWhole DEF Rest, Shipping, Shaped, Whole
<1>3. \A c \in Drains : reached'[c] = TRUE => reached[c] = TRUE /\ upload'[c] = upload[c]
  BY DEF Rest, Shipping, Shaped
<1>4. QED
  BY <1>1, <1>2, <1>3, NothingShipped DEF cloud

\* A target has just been written to: the stores grew.
LEMMA PutKeeps ==
  ASSUME Shipping, NEW d \in Drains, AtTarget(d), NEW held,
         store[TargetOrder[at[d]]] \subseteq held, Acknowledge(d, held) \/ Disown(d, held)
  PROVE  Shipping'
<1> USE DEF queue, drains, shots, UploadFrame, NextTarget
<1>1. PICK t \in Targets : t = TargetOrder[at[d]]
  BY TargetAt
<1>2. /\ store' = [store EXCEPT ![t] = held] /\ store[t] \subseteq held
      /\ misreported \subseteq misreported'
      /\ UNCHANGED <<status, pc, upload>>
      /\ \/ reached' = [reached EXCEPT ![d] = TRUE]
         \/ reached' = reached
  BY <1>1 DEF Acknowledge, Disown
<1>3. DOMAIN store' = Targets /\ \A u \in Targets : store[u] \subseteq store'[u]
  BY <1>2 DEF Shipping, Shaped
<1>4. Shaped' /\ Whole'
  BY <1>2, <1>3 DEF Acknowledge, Disown, Shipping, Shaped, Whole
<1>5. Fresh'
  BY <1>2 DEF AtTarget, Shipping, Shaped, Fresh
<1>6. ShippedKept'
  BY <1>2, <1>3, KeptStays DEF Shipping, ShippedKept, Kept
<1>7. ASSUME NEW c \in Drains, reached'[c] = TRUE PROVE Kept(upload[c].rows)'
  <2>1. CASE reached[c] = TRUE
    <3>1. Kept(upload[c].rows)
      BY <2>1 DEF Shipping, ReachedKept
    <3>2. QED
      BY <3>1, <1>2, <1>3, KeptStays DEF Kept
  <2>2. CASE reached[c] # TRUE
    <3>1. c = d /\ reached' # reached
      BY <2>2, <1>2, <1>7 DEF Shipping, Shaped
    <3>2. \/ \E o \in held : o.whole /\ upload[d].rows \subseteq o.rows
          \/ upload[d].rows \subseteq misreported'
      BY <3>1 DEF Acknowledge, Disown
    <3>3. store'[t] = held
      BY <1>2 DEF Shipping, Shaped
    <3>4. QED
      BY <1>2, <3>1, <3>2, <3>3 DEF Kept
  <2>3. QED
    BY <2>1, <2>2
<1>8. QED
  BY <1>4, <1>5, <1>6, <1>7 DEF Shipping, ReachedKept

\* However a put ends, the target holds what it had, or took the object, a torn
\* copy of it, or both.
LEMMA PutForms ==
  ASSUME NEW d \in Drains,
         PutSucceeds(d) \/ PutUnacknowledged(d) \/ PutTorn(d) \/ PutResent(d)
  PROVE  /\ AtTarget(d)
         /\ \E objects \in SUBSET {upload[d], Torn(upload[d])} :
              \E held \in {store[TargetOrder[at[d]]], With(TargetOrder[at[d]], objects)} :
                  Acknowledge(d, held) \/ Disown(d, held)
<1>1. AtTarget(d)
  BY DEF PutSucceeds, PutUnacknowledged, PutTorn, PutResent
<1>2. PICK t \in Targets : t = TargetOrder[at[d]]
  BY <1>1, TargetAt
<1>3. CASE PutSucceeds(d) \/ PutUnacknowledged(d)
  <2>1. Acknowledge(d, Taken(t, upload[d])) \/ Disown(d, Taken(t, upload[d]))
    BY <1>2, <1>3 DEF PutSucceeds, PutUnacknowledged
  <2>2. Taken(t, upload[d]) \in {store[t], With(t, {upload[d]})}
    BY DEF Taken
  <2>3. QED
    BY <1>1, <1>2, <2>1, <2>2
<1>4. CASE PutTorn(d)
  BY <1>1, <1>2, <1>4 DEF PutTorn
<1>5. CASE PutResent(d)
  <2>1. PICK held \in Resent(t, upload[d]) : Acknowledge(d, held) \/ Disown(d, held)
    BY <1>2, <1>5 DEF PutResent
  <2>2. \E objects \in SUBSET {upload[d], Torn(upload[d])} : held = With(t, objects)
    BY <2>1 DEF Resent
  <2>3. QED
    BY <1>1, <1>2, <2>1, <2>2
<1>6. QED
  BY <1>3, <1>4, <1>5

\* Where nothing is replaced, every put leaves a target with what it had.
LEMMA PutGrows ==
  ASSUME NoReplacing, NEW d \in Drains,
         PutSucceeds(d) \/ PutUnacknowledged(d) \/ PutTorn(d) \/ PutResent(d)
  PROVE  /\ AtTarget(d)
         /\ \E held : /\ store[TargetOrder[at[d]]] \subseteq held
                      /\ Acknowledge(d, held) \/ Disown(d, held)
  BY PutForms, TargetAt, WithGrows

\* Every step of a drain cycle keeps the invariant.
LEMMA DrainKeeps ==
  ASSUME NoReplacing, Shipping, NEW d \in Drains,
         Work(d) \/ PutUnacknowledged(d) \/ PutTorn(d) \/ PutResent(d) \/ DrainFails(d)
  PROVE  Shipping'
<1> USE DEF queue, drains, shots, cloud
<1>1. CASE Enter(d)
  BY <1>1, NothingShipped DEF Enter, Shipping, Shaped, Whole, Fresh
<1>2. CASE Requeue(d)
  BY <1>2, NothingShipped DEF Requeue, Shipping, Shaped, Whole, Fresh
<1>3. CASE FindNothing(d) \/ DrainFails(d)
  BY <1>3, RestKeeps DEF FindNothing, DrainFails, Shipping, Shaped
<1>4. CASE Prepare(d)
  <2>1. PICK object : object.whole = TRUE /\ upload' = [upload EXCEPT ![d] = object]
    BY <1>4 DEF Prepare
  <2>2. Shaped' /\ Whole' /\ Fresh'
    BY <1>4, <2>1 DEF Prepare, Shipping, Shaped, Whole, Fresh
  <2>3. \A c \in Drains : reached'[c] = TRUE => reached[c] = TRUE /\ upload'[c] = upload[c]
    BY <1>4, <2>1 DEF Prepare, Shipping, Shaped, Fresh
  <2>4. UNCHANGED cloud /\ status' = status
    BY <1>4 DEF Prepare
  <2>5. QED
    BY <2>2, <2>3, <2>4, NothingShipped
<1>5. CASE PutSucceeds(d) \/ PutUnacknowledged(d) \/ PutTorn(d) \/ PutResent(d)
  BY <1>5, PutGrows, PutKeeps
<1>6. CASE PutFails(d)
  BY <1>6, NothingShipped DEF PutFails, AtTarget, NextTarget, UploadFrame, Shipping, Shaped,
                              Whole, Fresh
<1>8. CASE Mark(d)
  <2>1. Rest(d) /\ UNCHANGED cloud /\ DOMAIN status' = Rows
    BY <1>8 DEF Mark
  <2>2. CASE reached[d] = TRUE
    <3>1. Kept(upload[d].rows)
      BY <2>2 DEF Shipping, ReachedKept
    <3>2. ASSUME NEW n \in Rows, status'[n] \in {"sent", "pruned"} PROVE Kept({n})
      <4>1. CASE n \in upload[d].rows
        BY <4>1, <3>1 DEF Kept
      <4>2. CASE n \notin upload[d].rows
        BY <4>2, <3>2, <2>2, <1>8 DEF Mark, Shipping, ShippedKept
      <4>3. QED
        BY <4>1, <4>2
    <3>3. ShippedKept'
      BY <3>2, <2>1 DEF ShippedKept, Kept
    <3>4. Shaped' /\ Fresh'
      BY <2>1 DEF Rest, Shipping, Shaped, Fresh
    <3>5. Whole'
      BY <2>1, EmptyWhole DEF Rest, Shipping, Shaped, Whole
    <3>6. ReachedKept'
      BY <2>1 DEF Rest, Shipping, Shaped, ReachedKept, Kept
    <3>7. QED
      BY <3>3, <3>4, <3>5, <3>6 DEF Shipping
  <2>3. CASE reached[d] # TRUE
    BY <1>8, <2>1, <2>3, RestKeeps DEF Mark
  <2>4. QED
    BY <2>2, <2>3
<1>9. QED
  BY <1>1, <1>2, <1>3, <1>4, <1>5, <1>6, <1>8 DEF Work

\* Every row that is marked as shipped, or pruned after it, is in an unbroken
\* batch on some target or was misreported by a driver: for every number of
\* rows, targets and overlapping drain cycles and every fault, where no target
\* replaces objects.
THEOREM ShippedIsStored == ASSUME NoReplacing PROVE Spec => []SentIsStored
<1>1. Init => Shipping
  BY EmptyWhole DEF Init, Shipping, Shaped, Whole, Fresh, ReachedKept, ShippedKept
<1>2. Shipping /\ [Next]_vars => Shipping'
  <2> SUFFICES ASSUME Shipping, [Next]_vars PROVE Shipping'
    OBVIOUS
  <2> USE DEF queue, drains, shots, cloud
  <2>1. ASSUME NEW e \in Entities, Capture(e) PROVE Shipping'
    BY <2>1, NothingShipped DEF Capture, Shipping, Shaped, Whole, Fresh
  <2>2. ASSUME NEW n \in Rows, CommitWrite(n) \/ RollBack(n) PROVE Shipping'
    BY <2>2, NothingShipped DEF CommitWrite, RollBack, Shipping, Shaped, Whole, Fresh
  <2>3. ASSUME NEW d \in Drains, Work(d) \/ PutUnacknowledged(d) \/ PutTorn(d) \/ PutResent(d) \/ DrainFails(d)
        PROVE  Shipping'
    BY <2>3, DrainKeeps
  <2>4. ASSUME UNCHANGED <<status, pc, upload, at, reached, cloud>> PROVE Shipping'
    BY <2>4 DEF Shipping, Shaped, Whole, Fresh, ReachedKept, ShippedKept, Kept
  <2>5. ASSUME NEW s \in Snapshots,
               StartDump(s) \/ ReadMax(s) \/ ShipSnapshot(s) \/ ShipFails(s) \/ FinishManual(s)
        PROVE  Shipping'
    BY <2>4, <2>5 DEF StartDump, ReadMax, ShipSnapshot, ShipFails, FinishManual
  <2>6. ASSUME NEW s \in Snapshots, FinishDaily(s) PROVE Shipping'
    BY <2>6, NothingShipped DEF FinishDaily, Prunable, Shipping, Shaped, Whole, Fresh
  <2>7. CASE NextDay
    BY <2>4, <2>7 DEF NextDay
  <2>8. CASE Crash
    <3>1. Shaped' /\ Fresh'
      BY <2>8 DEF Crash, Shipping, Shaped, Fresh
    <3>2. Whole'
      BY <2>8, EmptyWhole DEF Crash, Whole
    <3>3. /\ UNCHANGED cloud
          /\ \A d \in Drains : reached'[d] = FALSE
          /\ \A n \in Rows : status'[n] \in {"sent", "pruned"} => status[n] \in {"sent", "pruned"}
      BY <2>8 DEF Crash, Open
    <3>4. QED
      BY <3>1, <3>2, <3>3, NothingShipped
  <2>9. CASE UNCHANGED vars
    BY <2>4, <2>9 DEF vars
  <2>10. QED
    BY <2>1, <2>2, <2>3, <2>5, <2>6, <2>7, <2>8, <2>9 DEF Next
<1>3. Shipping => SentIsStored
  BY KeptIsStored DEF Shipping
<1>4. QED
  BY <1>1, <1>2, <1>3, PTL DEF Spec

\* The least number of a set is one of its numbers.
LEMMA MinIsIn == ASSUME NEW S, S \subseteq Nat, S # {} PROVE Min(S) \in S
  BY HasLeast DEF Min

\* The greatest number is the only one that no other exceeds.
LEMMA MaxIs == ASSUME NEW S, S \subseteq Nat, NEW x \in S, \A y \in S : y <= x PROVE Max(S) = x
<1>1. x \in S /\ \A y \in S : x >= y
  OBVIOUS
<1>2. Max(S) \in S /\ \A y \in S : Max(S) >= y
  BY <1>1 DEF Max
<1>3. PICK m : m = Max(S)
  OBVIOUS
<1>4. m \in Nat /\ x \in Nat /\ m >= x /\ x >= m
  BY <1>1, <1>2, <1>3
<1>5. QED
  BY <1>3, <1>4

\* A finite set of numbers has a greatest.
LEMMA MaxTops ==
  ASSUME NEW n \in Nat, NEW S, S \subseteq 0..n, S # {} PROVE Max(S) \in S /\ \A y \in S : y <= Max(S)
<1> DEFINE Below == {n - y : y \in S}
<1>1. \A y \in S : y \in 0..n /\ n - y \in Nat
  OBVIOUS
<1>2. Below \subseteq Nat /\ Below # {}
  BY <1>1
<1>3. PICK x \in Below : \A z \in Below : x <= z
  BY <1>2, HasLeast
<1>4. PICK y \in S : x = n - y
  BY <1>3
<1>5. \A z \in S : n - y <= n - z
  BY <1>3, <1>4
<1>6. \A z \in S : z <= y
  BY <1>1, <1>5
<1>7. S \subseteq Nat
  BY <1>1
<1>8. Max(S) = y
  BY <1>6, <1>7, MaxIs
<1>9. QED
  BY <1>6, <1>8

-----------------------------------------------------------------------------
(* The shape of the state *)

\* The three groups of variables, and all of them.
QueueOK ==
    /\ next \in 1..MaxSeq + 1 /\ entity \in [Rows -> Entities] /\ born \in [Rows -> 0..MaxDay]
    /\ status \in [Rows -> RowStates] /\ attempts \in [Rows -> Nat] /\ db \in Images
DrainsOK ==
    /\ syncing \in BOOLEAN /\ pc \in [Drains -> {"idle", "entering", "requeued", "uploading"}]
    /\ upload \in [Drains -> Uploads] /\ at \in [Drains -> 0..Len(TargetOrder) + 1]
    /\ reached \in [Drains -> BOOLEAN]
ShotsOK ==
    /\ snapPc \in [Snapshots -> {"idle", "dumping", "shipping"}] /\ snap \in [Snapshots -> Shots]
    /\ snapAt \in [Snapshots -> 0..Len(TargetOrder) + 1]

Typed ==
    /\ QueueOK /\ DrainsOK /\ ShotsOK /\ day \in 1..MaxDay
    /\ store \in [Targets -> SUBSET Uploads] /\ snaps \in [Targets -> SUBSET Shots]
    /\ misreported \subseteq Rows

\* The list of targets has an end.
LEMMA ListEnds ==
  /\ Len(TargetOrder) \in Nat /\ DOMAIN TargetOrder = 1..Len(TargetOrder)
  /\ {0, 1} \subseteq 0..Len(TargetOrder) + 1
  BY TargetsAssumption

\* What is empty has its type.
LEMMA EmptyTyped == NoUpload \in Uploads /\ NoImage \in Images /\ NoSnap \in Shots
  BY BoundsAssumption DEF NoUpload, Uploads, NoImage, Images, NoSnap, Shots

\* The first state has its type.
LEMMA InitTyped == Init => Typed
<1> SUFFICES ASSUME Init PROVE Typed
  OBVIOUS
<1>1. QueueOK
  <2>1. (CHOOSE e \in Entities : TRUE) \in Entities
    BY EntitiesAssumption
  <2>2. QED
    BY <2>1, EmptyTyped, BoundsAssumption DEF Init, QueueOK, RowStates
<1>2. DrainsOK /\ ShotsOK
  BY EmptyTyped, ListEnds DEF Init, DrainsOK, ShotsOK
<1>3. QED
  BY <1>1, <1>2, BoundsAssumption DEF Init, Typed

\* The queue's own steps keep the types.
LEMMA QueueTyped ==
  ASSUME Typed,
         \/ \E e \in Entities : Capture(e)
         \/ \E n \in Rows : CommitWrite(n) \/ RollBack(n)
  PROVE  Typed'
<1>1. QueueOK'
  <2>1. ASSUME NEW e \in Entities, Capture(e) PROVE QueueOK'
    <3>1. next \in Rows /\ next + 1 \in 1..MaxSeq + 1 /\ day \in 0..MaxDay
      BY <2>1, BoundsAssumption DEF Capture, Rows, QueueOK, Typed
    <3>2. status' \in [Rows -> RowStates] /\ entity' \in [Rows -> Entities] /\ born' \in [Rows -> 0..MaxDay]
      BY <2>1, <3>1 DEF Capture, QueueOK, RowStates, Typed
    <3>3. QED
      BY <2>1, <3>1, <3>2 DEF Capture, QueueOK, Typed
  <2>2. ASSUME NEW n \in Rows, CommitWrite(n) PROVE QueueOK'
    <3>1. db' \in Images /\ n \in 0..MaxSeq
      BY <2>2, BoundsAssumption DEF CommitWrite, QueueOK, Images, Rows, Typed
    <3>2. QED
      BY <2>2, <3>1 DEF CommitWrite, QueueOK, RowStates, Typed
  <2>3. ASSUME NEW n \in Rows, RollBack(n) PROVE QueueOK'
    BY <2>3 DEF RollBack, QueueOK, RowStates, Typed
  <2>4. QED
    BY <2>1, <2>2, <2>3
<1>2. UNCHANGED <<day, drains, cloud, shots, snaps>>
  BY DEF Capture, CommitWrite, RollBack
<1>3. QED
  BY <1>1, <1>2 DEF drains, cloud, shots, DrainsOK, ShotsOK, Typed

\* A cycle that ends is at rest.
LEMMA RestTyped == ASSUME Typed, NEW d \in Drains, Rest(d) PROVE DrainsOK'
  BY EmptyTyped, ListEnds DEF Rest, DrainsOK, Typed

\* Targets hold objects.
LEMMA PutTyped ==
  ASSUME Typed, NEW d \in Drains,
         PutSucceeds(d) \/ PutUnacknowledged(d) \/ PutTorn(d) \/ PutResent(d)
  PROVE  /\ AtTarget(d) /\ NextTarget(d) /\ UploadFrame
         /\ reached' = reached \/ reached' = [reached EXCEPT ![d] = TRUE]
         /\ store' \in [Targets -> SUBSET Uploads] /\ misreported' \subseteq Rows
<1>1. PICK t \in Targets : AtTarget(d) /\ t = TargetOrder[at[d]]
  BY PutForms, TargetAt
<1>2. PICK objects, held :
        /\ objects \in SUBSET {upload[d], Torn(upload[d])} /\ held \in {store[t], With(t, objects)}
        /\ Acknowledge(d, held) \/ Disown(d, held)
  BY <1>1, PutForms
<1>3. upload[d] \in Uploads
  BY DEF Typed, DrainsOK
<1>4. Torn(upload[d]) \in Uploads /\ upload[d].rows \subseteq Rows
  BY <1>3 DEF Torn, Uploads
<1>5. store \in [Targets -> SUBSET Uploads] /\ misreported \subseteq Rows
  BY DEF Typed
<1>6. held \subseteq Uploads
  BY <1>2, <1>3, <1>4, <1>5 DEF With
<1>7. QED
  BY <1>1, <1>2, <1>4, <1>5, <1>6 DEF Acknowledge, Disown

\* The next target of a cycle, or the end of the list.
LEMMA NextTyped ==
  ASSUME Typed, NEW d \in Drains, AtTarget(d), NextTarget(d)
  PROVE  at' \in [Drains -> 0..Len(TargetOrder) + 1]
  BY ListEnds DEF AtTarget, NextTarget, Typed, QueueOK, DrainsOK, ShotsOK

\* The object of a batch.
LEMMA PreparedTyped ==
  ASSUME Typed, NEW d \in Drains, Prepare(d)
  PROVE  upload' \in [Drains -> Uploads]
<1>1. PICK rows : /\ rows = Oldest({n \in Rows : status[n] = "pending"}) /\ rows # {}
                  /\ upload' = [upload EXCEPT ![d] = [day |-> day, from |-> Min(rows), to |-> Max(rows),
                                                      rows |-> rows, whole |-> TRUE]]
  BY DEF Prepare
<1>2. rows \subseteq Rows
  BY <1>1 DEF Oldest
<1>3. rows \subseteq Nat /\ rows \subseteq 0..MaxSeq
  BY <1>2, BoundsAssumption DEF Rows
<1>4. Min(rows) \in rows /\ Max(rows) \in rows
  BY <1>1, <1>3, MinIsIn, MaxTops, BoundsAssumption
<1>5. PICK object : object = [day |-> day, from |-> Min(rows), to |-> Max(rows), rows |-> rows, whole |-> TRUE]
  OBVIOUS
<1>6. day \in 0..MaxDay
  BY BoundsAssumption DEF Typed, QueueOK, DrainsOK, ShotsOK
<1>7. object \in Uploads
  BY <1>2, <1>3, <1>4, <1>5, <1>6 DEF Uploads
<1>8. QED
  BY <1>1, <1>5, <1>7 DEF Typed, QueueOK, DrainsOK, ShotsOK

\* The steps of a drain cycle keep the types.
LEMMA DrainTyped ==
  ASSUME Typed, NEW d \in Drains, Work(d) \/ PutUnacknowledged(d) \/ PutTorn(d) \/ PutResent(d) \/ DrainFails(d)
  PROVE  Typed'
<1>1. CASE Enter(d)
  <2>1. DrainsOK' /\ UNCHANGED <<queue, day, cloud, shots, snaps>>
    BY <1>1 DEF Enter, DrainsOK, Typed
  <2>2. QED
    BY <2>1 DEF queue, cloud, shots, QueueOK, ShotsOK, Typed
<1>2. CASE Requeue(d)
  <2>1. DrainsOK' /\ UNCHANGED <<day, cloud, shots, snaps>>
    BY <1>2 DEF Requeue, DrainsOK, Typed
  <2>2. QueueOK'
    BY <1>2 DEF Requeue, QueueOK, RowStates, Typed
  <2>3. QED
    BY <2>1, <2>2 DEF cloud, shots, ShotsOK, Typed
<1>3. CASE FindNothing(d) \/ DrainFails(d)
  <2>1. DrainsOK' /\ UNCHANGED <<queue, day, cloud, shots, snaps>>
    BY <1>3, RestTyped DEF FindNothing, DrainFails
  <2>2. QED
    BY <2>1 DEF queue, cloud, shots, QueueOK, ShotsOK, Typed
<1>4. CASE Prepare(d)
  <2>1. upload' \in [Drains -> Uploads] /\ UNCHANGED <<queue, day, cloud, shots, snaps>>
    BY <1>4, PreparedTyped DEF Prepare
  <2>2. DrainsOK'
    BY <1>4, <2>1, ListEnds DEF Prepare, DrainsOK, Typed
  <2>3. QED
    BY <2>1, <2>2 DEF queue, cloud, shots, QueueOK, ShotsOK, Typed
<1>5. ASSUME AtTarget(d), NextTarget(d), UploadFrame,
             reached' = reached \/ reached' = [reached EXCEPT ![d] = TRUE],
             store' \in [Targets -> SUBSET Uploads], misreported' \subseteq Rows
      PROVE  Typed'
  <2>1. DrainsOK'
    BY <1>5, NextTyped DEF UploadFrame, DrainsOK, Typed
  <2>2. QED
    BY <1>5, <2>1 DEF UploadFrame, queue, cloud, shots, QueueOK, ShotsOK, Typed
<1>6. CASE PutFails(d)
  BY <1>5, <1>6 DEF PutFails, cloud, Typed, QueueOK, DrainsOK, ShotsOK
<1>7. CASE PutSucceeds(d) \/ PutUnacknowledged(d) \/ PutTorn(d) \/ PutResent(d)
  BY <1>5, <1>7, PutTyped
<1>8. CASE Mark(d)
  <2>1. DrainsOK' /\ UNCHANGED <<next, entity, born, db, day, cloud, shots, snaps>>
    BY <1>8, RestTyped DEF Mark
  <2>2. status' \in [Rows -> RowStates] /\ attempts' \in [Rows -> Nat]
    BY <1>8 DEF Mark, RowStates, Typed, QueueOK, DrainsOK, ShotsOK
  <2>3. QED
    BY <2>1, <2>2 DEF cloud, shots, QueueOK, ShotsOK, Typed
<1>9. QED
  BY <1>1, <1>2, <1>3, <1>4, <1>6, <1>7, <1>8 DEF Work

\* What a snapshot is filed under.
LEMMA CoversTyped == ASSUME Typed PROVE Covers \in 0..MaxSeq + 1
<1>1. Visible \subseteq 0..MaxSeq
  BY BoundsAssumption DEF Visible, Rows
<1>2. Visible # {} => Max(Visible) \in Visible
  BY <1>1, MaxTops, BoundsAssumption
<1>3. CASE Visible # {}
  <2>1. Max(Visible) \in 0..MaxSeq
    BY <1>1, <1>2, <1>3
  <2>2. Max(Visible) + 1 \in 0..MaxSeq + 1
    BY <2>1, BoundsAssumption
  <2>3. QED
    BY <1>3, <2>2 DEF Covers
<1>4. CASE Visible = {}
  BY <1>4, BoundsAssumption DEF Covers
<1>5. QED
  BY <1>3, <1>4

\* The steps of a snapshot keep the types.
LEMMA ShotTyped ==
  ASSUME Typed, NEW s \in Snapshots,
         \/ StartDump(s) \/ ReadMax(s) \/ ShipSnapshot(s) \/ ShipFails(s)
         \/ FinishDaily(s) \/ FinishManual(s)
  PROVE  Typed'
<1>1. UNCHANGED <<next, entity, born, attempts, db, day, drains, cloud>>
  BY DEF StartDump, ReadMax, ShipSnapshot, ShipFails, FinishDaily, FinishManual, queue
<1>2. QueueOK'
  <2>1. status' \in [Rows -> RowStates]
    BY DEF StartDump, ReadMax, ShipSnapshot, ShipFails, FinishDaily, FinishManual, queue, RowStates, Typed, QueueOK, DrainsOK, ShotsOK
  <2>2. QED
    BY <1>1, <2>1 DEF QueueOK, Typed
<1>3. snaps' \in [Targets -> SUBSET Shots]
  <2>1. snaps \in [Targets -> SUBSET Shots] /\ snap[s] \in Shots
    BY DEF Typed, ShotsOK
  <2>2. CASE ShipSnapshot(s)
    <3>1. PICK t, held : /\ held \in {snaps[t], snaps[t] \cup {snap[s]},
                                     {o \in snaps[t] : ~SameShot(o, snap[s])} \cup {snap[s]}}
                         /\ snaps' = [snaps EXCEPT ![t] = held]
      BY <2>2 DEF ShipSnapshot
    <3>2. QED
      BY <2>1, <3>1
  <2>3. QED
    BY <2>1, <2>2 DEF StartDump, ReadMax, ShipFails, FinishDaily, FinishManual
<1>4. ShotsOK'
  <2>1. CASE StartDump(s)
    <3>1. [NoSnap EXCEPT !.image = db] \in Shots
      BY EmptyTyped DEF Shots, Typed, QueueOK, DrainsOK, ShotsOK
    <3>2. QED
      BY <2>1, <3>1 DEF StartDump, ShotsOK, Typed
  <2>2. CASE ReadMax(s)
    <3>1. Covers \in 0..MaxSeq + 1 /\ day \in 0..MaxDay /\ snap[s] \in Shots
      BY CoversTyped, BoundsAssumption DEF Typed, ShotsOK
    <3> HIDE DEF Covers
    <3>2. [snap[s] EXCEPT !.day = day, !.seq = Covers] \in Shots
      BY <3>1 DEF Shots
    <3>3. QED
      BY <2>2, <3>2, ListEnds DEF ReadMax, ShotsOK, Typed
  <2>3. CASE ShipSnapshot(s) \/ ShipFails(s)
    <3>1. snapAt[s] \in DOMAIN TargetOrder /\ snapAt' = [snapAt EXCEPT ![s] = @ + 1]
          /\ snapPc' = snapPc /\ snap' = snap
      BY <2>3 DEF ShipSnapshot, ShipFails
    <3>2. snapAt[s] + 1 \in 0..Len(TargetOrder) + 1
      BY <3>1, ListEnds
    <3>3. QED
      BY <3>1, <3>2 DEF ShotsOK, Typed
  <2>4. CASE FinishDaily(s) \/ FinishManual(s)
    <3>1. RestShot(s)
      BY <2>4 DEF FinishDaily, FinishManual
    <3>2. QED
      BY <3>1, EmptyTyped, ListEnds DEF RestShot, ShotsOK, Typed
  <2>5. QED
    BY <2>1, <2>2, <2>3, <2>4
<1>5. QED
  BY <1>1, <1>2, <1>3, <1>4 DEF drains, cloud, DrainsOK, Typed

\* Every step keeps the types.
LEMMA StepTyped == ASSUME Typed, [Next]_vars PROVE Typed'
<1>1. CASE NextDay
  <2>1. day' \in 1..MaxDay /\ UNCHANGED <<queue, drains, cloud, shots, snaps>>
    BY <1>1, BoundsAssumption DEF NextDay, Typed, QueueOK, DrainsOK, ShotsOK
  <2>2. QED
    BY <2>1 DEF queue, drains, cloud, shots, QueueOK, DrainsOK, ShotsOK, Typed
<1>2. CASE Crash
  <2>1. QueueOK'
    BY <1>2 DEF Crash, QueueOK, RowStates, Typed
  <2>2. DrainsOK' /\ ShotsOK'
    BY <1>2, EmptyTyped, ListEnds DEF Crash, DrainsOK, ShotsOK
  <2>3. QED
    BY <1>2, <2>1, <2>2 DEF Crash, cloud, Typed
<1>3. CASE UNCHANGED vars
  BY <1>3 DEF vars, queue, drains, cloud, shots, QueueOK, DrainsOK, ShotsOK, Typed
<1>4. QED
  BY <1>1, <1>2, <1>3, QueueTyped, DrainTyped, ShotTyped DEF Next

\* Every variable keeps its type, whatever the bounds, the targets, the number
\* of cycles in flight and the faults.
THEOREM TypeCorrect == Spec => []TypeOK
<1>1. Typed /\ [Next]_vars => Typed'
  BY StepTyped
<1>2. Typed => TypeOK
  BY DEF Typed, QueueOK, DrainsOK, ShotsOK, TypeOK
<1>3. QED
  BY <1>1, <1>2, InitTyped, PTL DEF Spec

-----------------------------------------------------------------------------
(***************************************************************************)
(* One cycle at a time: the rows of the object being shipped are pending   *)
(* until they are marked, as only a cycle touches pending rows, and what   *)
(* was shipped is not taken back.  Two cycles that overlap break both: the *)
(* second may mark as failed what the first has sent.                      *)
(***************************************************************************)
OneCycle == \A c, d \in Drains : c = d
StillPending ==
    \A d \in Drains : pc[d] = "uploading" =>
        \A n \in upload[d].rows : n \in Rows /\ status[n] = "pending"
NextIsFree == \A n \in Rows : n >= next => status[n] = "unborn"
InOrder == StillPending /\ NextIsFree

\* A row that is sent stays sent or is pruned, and a pruned row is gone.
Final ==
    \A n \in Rows : /\ status[n] = "sent" => status'[n] \in {"sent", "pruned"}
                    /\ status[n] = "pruned" => status'[n] = "pruned"

\* Every step keeps the order and takes nothing back.
LEMMA StaysInOrder ==
  ASSUME OneCycle, Typed, InOrder, [Next]_vars PROVE InOrder' /\ Final
<1> USE DEF queue, drains, shots, cloud
<1>1. ASSUME \A d \in Drains : pc'[d] = "uploading" => pc[d] = "uploading" /\ upload'[d] = upload[d],
             \A n \in Rows : /\ status[n] = "pending" => status'[n] = "pending"
                             /\ status[n] = "sent" => status'[n] \in {"sent", "pruned"}
                             /\ status[n] \in {"unborn", "pruned"} => status'[n] = status[n],
             next' = next
      PROVE  InOrder' /\ Final
  BY <1>1 DEF InOrder, StillPending, NextIsFree, Final
<1>2. pc \in [Drains -> {"idle", "entering", "requeued", "uploading"}] /\ status \in [Rows -> RowStates]
      /\ DOMAIN upload = Drains
  BY DEF Typed, DrainsOK, QueueOK
<1>3. ASSUME NEW e \in Entities, Capture(e) PROVE InOrder' /\ Final
  <2>1. next \in Rows /\ status' = [status EXCEPT ![next] = "open"] /\ next' = next + 1
        /\ pc' = pc /\ upload' = upload
    BY <1>3, BoundsAssumption DEF Capture, Typed, QueueOK, Rows
  <2>2. status[next] = "unborn"
    BY <2>1, BoundsAssumption DEF InOrder, NextIsFree, Rows
  <2>3. StillPending' /\ Final
    BY <1>2, <2>1, <2>2 DEF InOrder, StillPending, Final
  <2>4. NextIsFree'
    BY <1>2, <2>1, BoundsAssumption DEF InOrder, NextIsFree, Rows
  <2>5. QED
    BY <2>3, <2>4 DEF InOrder
<1>4. ASSUME NEW n \in Rows, CommitWrite(n) \/ RollBack(n) PROVE InOrder' /\ Final
  BY <1>1, <1>2, <1>4 DEF CommitWrite, RollBack
<1>5. ASSUME NEW d \in Drains, Work(d) \/ PutUnacknowledged(d) \/ PutTorn(d) \/ PutResent(d) \/ DrainFails(d)
      PROVE  InOrder' /\ Final
  <2>1. CASE Enter(d)
    BY <1>1, <1>2, <2>1 DEF Enter
  <2>2. CASE Requeue(d)
    BY <1>1, <1>2, <2>2 DEF Requeue
  <2>3. CASE FindNothing(d) \/ DrainFails(d)
    BY <1>1, <1>2, <2>3 DEF FindNothing, DrainFails, Rest
  <2>4. CASE Prepare(d)
    <3>1. PICK rows : rows = Oldest({n \in Rows : status[n] = "pending"})
                      /\ upload'[d].rows = rows
      BY <1>2, <2>4 DEF Prepare
    <3>2. \A n \in rows : n \in Rows /\ status[n] = "pending"
      BY <3>1 DEF Oldest
    <3>3. status' = status /\ next' = next /\ \A c \in Drains : c = d
      BY <2>4 DEF Prepare, OneCycle
    <3>4. QED
      BY <3>1, <3>2, <3>3 DEF InOrder, StillPending, NextIsFree, Final
  <2>5. CASE PutSucceeds(d) \/ PutFails(d) \/ PutUnacknowledged(d) \/ PutTorn(d) \/ PutResent(d)
    BY <1>1, <2>5, PutTyped DEF PutFails, UploadFrame
  <2>6. CASE Mark(d)
    <3>1. \A n \in upload[d].rows : status[n] = "pending"
      BY <2>6 DEF Mark, InOrder, StillPending
    <3>2. \A n \in Rows : n \notin upload[d].rows => status'[n] = status[n]
      BY <2>6 DEF Mark
    <3>3. next' = next /\ \A c \in Drains : c = d /\ pc'[c] = "idle"
      BY <1>2, <2>6 DEF Mark, Rest, OneCycle
    <3>4. QED
      BY <3>1, <3>2, <3>3 DEF InOrder, StillPending, NextIsFree, Final
  <2>7. QED
    BY <1>5, <2>1, <2>2, <2>3, <2>4, <2>5, <2>6 DEF Work
<1>6. ASSUME NEW s \in Snapshots,
             \/ StartDump(s) \/ ReadMax(s) \/ ShipSnapshot(s) \/ ShipFails(s)
             \/ FinishDaily(s) \/ FinishManual(s)
      PROVE  InOrder' /\ Final
  <2>1. /\ pc' = pc /\ upload' = upload /\ next' = next
        /\ status' = status \/ status' = [n \in Rows |-> IF n \in Prunable THEN "pruned" ELSE status[n]]
    BY <1>6 DEF StartDump, ReadMax, ShipSnapshot, ShipFails, FinishDaily, FinishManual
  <2>2. \A n \in Prunable : status[n] = "sent"
    BY DEF Prunable
  <2>3. QED
    BY <1>1, <2>1, <2>2
<1>7. CASE Crash
  <2>1. \A d \in Drains : pc'[d] = "idle"
    BY <1>7 DEF Crash
  <2>2. QED
    BY <1>1, <1>7, <2>1 DEF Crash, Open
<1>8. CASE NextDay \/ UNCHANGED vars
  BY <1>1, <1>8 DEF NextDay, vars
<1>9. QED
  BY <1>3, <1>4, <1>5, <1>6, <1>7, <1>8 DEF Next

\* At first no drain has marked anything and every row waits.
LEMMA InitInOrder == Init => InOrder
  BY DEF Init, InOrder, StillPending, NextIsFree

-----------------------------------------------------------------------------
(***************************************************************************)
(* Nothing is lost on any kind of target while cycles do not overlap.  A   *)
(* target may replace an object by one of the same key, but the key begins *)
(* with a row of the new object, which is pending, and the objects that    *)
(* count begin with one that was shipped and stays so.                     *)
(***************************************************************************)
Gone == {"sent", "pruned"}

\* Some target holds row n, whole, in a batch that was shipped, or a driver said so.
Held(n) ==
    n \in misreported \/ \E t \in Targets : \E o \in store[t] :
        o.whole = TRUE /\ n \in o.rows /\ o.from \in Rows /\ status[o.from] \in Gone
ShippedHeld == \A n \in Rows : status[n] \in Gone => Held(n)
\* Object o holds what d is shipping, under its key, on a target d has been at.
Landed(d) ==
    \E i \in DOMAIN TargetOrder : i < at[d] /\ \E o \in store[TargetOrder[i]] :
        o.whole = TRUE /\ o.from = upload[d].from /\ upload[d].rows \subseteq o.rows
ReachedHeld == \A d \in Drains : reached[d] = TRUE => upload[d].rows \subseteq misreported \/ Landed(d)
NamedByRow == \A d \in Drains : pc[d] = "uploading" => upload[d].from \in upload[d].rows

Lasting == Whole /\ Fresh /\ NamedByRow /\ ReachedHeld /\ ShippedHeld

\* The batches that were shipped are still there, and no row is newly shipped.
LEMMA HeldStays ==
  ASSUME ShippedHeld, Final,
         \A t \in Targets : \A o \in store[t] :
             o.from \in Rows /\ status[o.from] \in Gone => o \in store'[t],
         misreported \subseteq misreported',
         \A n \in Rows : status'[n] \in Gone => status[n] \in Gone
  PROVE  ShippedHeld'
<1>1. \A n \in Rows : status'[n] \in Gone <=> status[n] \in Gone
  BY DEF Final, Gone
<1>2. SUFFICES ASSUME NEW n \in Rows, status'[n] \in Gone PROVE Held(n)'
  BY DEF ShippedHeld, Gone
<1>3. Held(n)
  BY <1>1, <1>2 DEF ShippedHeld
<1>4. QED
  BY <1>1, <1>3 DEF Held, Gone

\* A step that ships no new object and puts none changes little.
LEMMA QuietLasts ==
  ASSUME Lasting, Final, Whole', Fresh', NamedByRow', UNCHANGED cloud,
         \A d \in Drains : reached'[d] = TRUE =>
             /\ reached[d] = TRUE /\ upload'[d] = upload[d]
             /\ \A i \in DOMAIN TargetOrder : i < at[d] => i < at'[d],
         \A n \in Rows : status'[n] \in Gone => status[n] \in Gone
  PROVE  Lasting'
<1>1. store' = store /\ misreported' = misreported
  BY DEF cloud
<1>2. ReachedHeld'
  <2> SUFFICES ASSUME NEW d \in Drains, reached'[d] = TRUE
               PROVE  upload'[d].rows \subseteq misreported \/ Landed(d)'
    BY <1>1 DEF ReachedHeld
  <2>1. upload[d].rows \subseteq misreported \/ Landed(d)
    BY DEF Lasting, ReachedHeld
  <2>2. QED
    BY <1>1, <2>1 DEF Landed
<1>3. ShippedHeld'
  BY <1>1, HeldStays DEF Lasting
<1>4. QED
  BY <1>2, <1>3 DEF Lasting

\* A cycle that ends forgets its object.
LEMMA RestLasts ==
  ASSUME OneCycle, Typed, Lasting, NEW d \in Drains, Rest(d)
  PROVE  /\ Whole' /\ Fresh' /\ NamedByRow'
         /\ \A c \in Drains : reached'[c] # TRUE
<1>1. \A c \in Drains : c = d
  BY DEF OneCycle
<1>2. upload'[d] = NoUpload /\ pc'[d] = "idle" /\ reached'[d] = FALSE
  BY DEF Rest, Typed, DrainsOK
<1>3. QED
  BY <1>1, <1>2, EmptyWhole DEF Whole, Fresh, NamedByRow

\* What a put takes away begins with the pending row the new object begins with.
LEMMA PutLasts ==
  ASSUME OneCycle, Typed, InOrder, Lasting, Final, NEW d \in Drains,
         PutSucceeds(d) \/ PutUnacknowledged(d) \/ PutTorn(d) \/ PutResent(d)
  PROVE  Lasting'
<1>1. PICK t \in Targets : AtTarget(d) /\ t = TargetOrder[at[d]]
  BY PutForms, TargetAt
<1>2. PICK objects, held :
        /\ objects \in SUBSET {upload[d], Torn(upload[d])} /\ held \in {store[t], With(t, objects)}
        /\ Acknowledge(d, held) \/ Disown(d, held)
  BY <1>1, PutForms
<1>3. /\ pc[d] = "uploading" /\ at[d] \in DOMAIN TargetOrder
      /\ DOMAIN store = Targets /\ DOMAIN reached = Drains /\ DOMAIN at = Drains
      /\ upload[d] \in Uploads
  BY <1>1 DEF AtTarget, Typed, DrainsOK
<1>4. /\ store' = [store EXCEPT ![t] = held] /\ misreported \subseteq misreported'
      /\ at' = [at EXCEPT ![d] = at[d] + 1]
      /\ UNCHANGED <<status, pc, upload>>
  BY <1>1, <1>2 DEF Acknowledge, Disown, NextTarget, UploadFrame, queue
<1>5. store'[t] = held /\ \A u \in Targets : u # t => store'[u] = store[u]
  BY <1>3, <1>4
<1>6. Torn(upload[d]).from = upload[d].from
  BY <1>3 DEF Torn, Uploads
<1>7. \A o \in store[t] : o \in held \/ o.from = upload[d].from
  BY <1>2, <1>6 DEF With, SameKey
<1>8. upload[d].from \in Rows /\ status[upload[d].from] = "pending"
  BY <1>3 DEF InOrder, StillPending, Lasting, NamedByRow
<1>9. ShippedHeld'
  <2>1. \A u \in Targets : \A o \in store[u] :
           o.from \in Rows /\ status[o.from] \in Gone => o \in store'[u]
    BY <1>5, <1>7, <1>8 DEF Gone
  <2>2. QED
    BY <1>4, <2>1, HeldStays DEF Lasting
<1>10. ReachedHeld'
  <2> SUFFICES ASSUME NEW c \in Drains, reached'[c] = TRUE
               PROVE  upload[c].rows \subseteq misreported' \/ Landed(c)'
    BY <1>4 DEF ReachedHeld
  <2>1. c = d
    BY DEF OneCycle
  <2>2. \A i \in DOMAIN TargetOrder : i <= at[d] => i < at'[d]
    BY <1>3, <1>4, ListEnds
  <2>3. CASE reached[d] = TRUE
    <3>1. CASE upload[d].rows \subseteq misreported
      BY <1>4, <2>1, <3>1
    <3>2. CASE Landed(d)
      <4>1. PICK i, o :
              /\ i \in DOMAIN TargetOrder /\ o \in store[TargetOrder[i]]
              /\ i < at[d] /\ o.whole = TRUE /\ o.from = upload[d].from /\ upload[d].rows \subseteq o.rows
        BY <3>2 DEF Landed
      <4>2. i # at[d] /\ i <= at[d]
        BY <1>3, <4>1, ListEnds
      <4>3. TargetOrder[i] # t /\ TargetOrder[i] \in Targets
        BY <1>1, <1>3, <4>1, <4>2, TargetsAssumption
      <4>4. o \in store'[TargetOrder[i]]
        BY <1>5, <4>1, <4>3
      <4>5. QED
        BY <1>4, <2>1, <2>2, <4>1, <4>2, <4>4 DEF Landed
    <3>3. QED
      BY <2>3, <3>1, <3>2 DEF Lasting, ReachedHeld
  <2>4. CASE reached[d] # TRUE
    <3>1. Acknowledge(d, held)
      BY <1>2, <2>1, <2>4 DEF Disown
    <3>2. \/ upload[d].rows \subseteq misreported'
          \/ \E o \in held : SameKey(o, upload[d]) /\ o.whole /\ upload[d].rows \subseteq o.rows
      BY <3>1 DEF Acknowledge
    <3>3. CASE upload[d].rows \subseteq misreported'
      BY <2>1, <3>3
    <3>4. CASE \E o \in held : SameKey(o, upload[d]) /\ o.whole /\ upload[d].rows \subseteq o.rows
      <4>1. PICK o \in held : o.from = upload[d].from /\ o.whole /\ upload[d].rows \subseteq o.rows
        BY <3>4 DEF SameKey
      <4>2. o \in store'[TargetOrder[at[d]]] /\ at[d] < at'[d]
        BY <1>1, <1>3, <1>5, <2>2, <4>1, ListEnds
      <4>3. QED
        BY <1>3, <1>4, <2>1, <4>1, <4>2 DEF Landed
    <3>5. QED
      BY <3>2, <3>3, <3>4
  <2>5. QED
    BY <2>3, <2>4
<1>11. Whole' /\ NamedByRow'
  BY <1>4 DEF Lasting, Whole, NamedByRow
<1>12. Fresh'
  BY <1>3, <1>4 DEF OneCycle, Fresh
<1>13. QED
  BY <1>9, <1>10, <1>11, <1>12 DEF Lasting

\* What is marked as sent has just been stored whole.
LEMMA MarkLasts ==
  ASSUME OneCycle, Typed, InOrder, Lasting, Final, NEW d \in Drains, Mark(d) PROVE Lasting'
<1>1. PICK rows : rows = upload[d].rows
  OBVIOUS
<1>2. pc[d] = "uploading" /\ Rest(d) /\ store' = store /\ misreported' = misreported
  BY DEF Mark, cloud
<1>3. \A n \in rows : n \in Rows /\ status[n] = "pending"
  BY <1>1, <1>2 DEF InOrder, StillPending
<1>4. {n \in upload[d].rows : status[n] # "pruned"} = rows
  BY <1>1, <1>3
<1>5. \/ reached[d] /\ status' = [n \in Rows |-> IF n \in rows THEN "sent" ELSE status[n]]
      \/ status' = [n \in Rows |-> IF n \in rows THEN "failed" ELSE status[n]]
  BY <1>4 DEF Mark
<1>6. Whole' /\ Fresh' /\ NamedByRow' /\ ReachedHeld'
  BY <1>2, RestLasts DEF ReachedHeld
<1>7. ShippedHeld'
  <2>1. CASE status' = [n \in Rows |-> IF n \in rows THEN "failed" ELSE status[n]]
    <3>1. \A n \in Rows : status'[n] \in Gone => status[n] \in Gone
      BY <2>1 DEF Gone
    <3>2. QED
      BY <1>2, <3>1, HeldStays DEF Lasting
  <2>2. CASE reached[d] /\ status' = [n \in Rows |-> IF n \in rows THEN "sent" ELSE status[n]]
    <3>1. rows \subseteq misreported \/ Landed(d)
      BY <1>1, <2>2 DEF Lasting, ReachedHeld
    <3>2. upload[d].from \in rows /\ upload[d].from \in Rows
      BY <1>1, <1>2, <1>3 DEF Lasting, NamedByRow
    <3>3. \A n \in Rows : /\ n \in rows => status'[n] = "sent"
                          /\ n \notin rows => status'[n] = status[n]
      BY <2>2
    <3>4. ASSUME NEW n \in Rows, n \in rows PROVE Held(n)'
      <4>1. CASE n \in misreported
        BY <1>2, <4>1 DEF Held
      <4>2. CASE Landed(d)
        <5>1. PICK i, o :
                /\ i \in DOMAIN TargetOrder /\ o \in store[TargetOrder[i]]
                /\ o.whole = TRUE /\ o.from = upload[d].from /\ upload[d].rows \subseteq o.rows
          BY <4>2 DEF Landed
        <5>2. TargetOrder[i] \in Targets /\ n \in o.rows
          BY <1>1, <3>4, <5>1, TargetsAssumption
        <5>3. status'[upload[d].from] = "sent"
          BY <3>2, <3>3
        <5>4. QED
          BY <1>2, <3>2, <5>1, <5>2, <5>3 DEF Held, Gone
      <4>3. QED
        BY <3>1, <3>4, <4>1, <4>2
    <3>5. ASSUME NEW n \in Rows, n \notin rows, status'[n] \in Gone PROVE Held(n)'
      <4>1. Held(n)
        BY <3>3, <3>5 DEF Lasting, ShippedHeld
      <4>2. \A m \in Rows : status[m] \in Gone => status'[m] \in Gone
        BY <3>3 DEF Gone
      <4>3. QED
        BY <1>2, <4>1, <4>2 DEF Held, Gone
    <3>6. QED
      BY <3>4, <3>5 DEF ShippedHeld, Gone
  <2>3. QED
    BY <1>5, <2>1, <2>2
<1>8. QED
  BY <1>6, <1>7 DEF Lasting

\* Every step keeps what lasts.
LEMMA StepLasts ==
  ASSUME OneCycle, Typed, InOrder, Lasting, Final, [Next]_vars PROVE Lasting'
<1> USE DEF queue, drains, shots
<1>1. ASSUME UNCHANGED <<pc, upload, at, reached, cloud>>,
             \A n \in Rows : status'[n] \in Gone => status[n] \in Gone
      PROVE  Lasting'
  BY <1>1, QuietLasts DEF Lasting, Whole, Fresh, NamedByRow
<1>2. ASSUME NEW e \in Entities, Capture(e) PROVE Lasting'
  BY <1>1, <1>2 DEF Capture, Typed, QueueOK, Gone
<1>3. ASSUME NEW n \in Rows, CommitWrite(n) \/ RollBack(n) PROVE Lasting'
  BY <1>1, <1>3 DEF CommitWrite, RollBack, Typed, QueueOK, Gone
<1>4. ASSUME NEW s \in Snapshots,
             \/ StartDump(s) \/ ReadMax(s) \/ ShipSnapshot(s) \/ ShipFails(s)
             \/ FinishDaily(s) \/ FinishManual(s)
      PROVE  Lasting'
  BY <1>1, <1>4 DEF StartDump, ReadMax, ShipSnapshot, ShipFails, FinishDaily, FinishManual,
       Prunable, Gone
<1>5. ASSUME NEW d \in Drains, Work(d) \/ PutUnacknowledged(d) \/ PutTorn(d) \/ PutResent(d) \/ DrainFails(d)
      PROVE  Lasting'
  <2>1. \A c \in Drains : c = d
    BY DEF OneCycle
  <2>2. DOMAIN pc = Drains /\ DOMAIN upload = Drains /\ DOMAIN reached = Drains
    BY DEF Typed, DrainsOK
  <2>3. CASE Enter(d) \/ Requeue(d)
    <3>1. /\ UNCHANGED <<upload, at, reached, cloud>> /\ pc[d] # "uploading" /\ pc'[d] # "uploading"
          /\ \A n \in Rows : status'[n] \in Gone => status[n] \in Gone
      BY <2>2, <2>3 DEF Enter, Requeue, Gone
    <3>2. Whole' /\ Fresh' /\ NamedByRow'
      BY <2>1, <3>1 DEF Lasting, Whole, Fresh, NamedByRow
    <3>3. QED
      BY <3>1, <3>2, QuietLasts
  <2>4. CASE FindNothing(d) \/ DrainFails(d)
    <3>1. Rest(d) /\ UNCHANGED <<status, cloud>>
      BY <2>4 DEF FindNothing, DrainFails
    <3>2. QED
      BY <3>1, RestLasts, QuietLasts
  <2>5. CASE Prepare(d)
    <3>1. PICK rows : /\ rows = Oldest({n \in Rows : status[n] = "pending"}) /\ rows # {}
                      /\ upload' = [upload EXCEPT ![d] = [day |-> day, from |-> Min(rows), to |-> Max(rows),
                                                          rows |-> rows, whole |-> TRUE]]
      BY <2>5 DEF Prepare
    <3>2. Min(rows) \in rows
      <4>1. rows \subseteq Rows
        BY <3>1 DEF Oldest
      <4>2. rows \subseteq Nat
        BY <4>1, BoundsAssumption DEF Rows
      <4>3. QED
        BY <3>1, <4>2, MinIsIn
    <3>3. upload'[d].whole = TRUE /\ upload'[d].rows = rows /\ upload'[d].from = Min(rows)
      BY <2>2, <3>1
    <3>4. /\ pc[d] = "requeued" /\ pc'[d] = "uploading"
          /\ UNCHANGED <<status, reached, cloud>>
      BY <2>2, <2>5 DEF Prepare
    <3>5. reached[d] = FALSE
      BY <3>4 DEF Lasting, Fresh
    <3>6. Whole' /\ Fresh' /\ NamedByRow'
      BY <2>1, <3>2, <3>3, <3>4 DEF Whole, Fresh, NamedByRow
    <3>7. QED
      BY <2>1, <3>4, <3>5, <3>6, QuietLasts
  <2>6. CASE PutFails(d)
    <3>1. /\ at' = [at EXCEPT ![d] = at[d] + 1] /\ at[d] \in DOMAIN TargetOrder
          /\ UNCHANGED <<status, pc, upload, reached, cloud>>
      BY <2>6 DEF PutFails, AtTarget, NextTarget, UploadFrame
    <3>2. at'[d] = at[d] + 1 /\ at[d] \in Nat /\ \A i \in DOMAIN TargetOrder : i < at[d] => i < at'[d]
      BY <3>1, ListEnds DEF Typed, DrainsOK
    <3>3. Whole' /\ Fresh' /\ NamedByRow'
      BY <3>1 DEF Lasting, Whole, Fresh, NamedByRow
    <3>4. QED
      BY <2>1, <3>1, <3>2, <3>3, QuietLasts
  <2>7. QED
    BY <1>5, <2>3, <2>4, <2>5, <2>6, PutLasts, MarkLasts DEF Work
<1>6. CASE Crash
  <2>1. Whole' /\ Fresh' /\ NamedByRow'
    BY <1>6, EmptyWhole DEF Crash, Whole, Fresh, NamedByRow
  <2>2. UNCHANGED cloud /\ \A d \in Drains : reached'[d] = FALSE
    BY <1>6 DEF Crash
  <2>3. \A n \in Rows : status'[n] \in Gone => status[n] \in Gone
    BY <1>6 DEF Crash, Gone
  <2>4. QED
    BY <2>1, <2>2, <2>3, QuietLasts
<1>7. CASE NextDay \/ UNCHANGED vars
  BY <1>1, <1>7 DEF NextDay, vars
<1>8. QED
  BY <1>2, <1>3, <1>4, <1>5, <1>6, <1>7 DEF Next

\* While drain cycles do not overlap, every row that is marked as shipped, or
\* pruned after it, is in an unbroken batch on some target or was misreported by
\* a driver, whatever the targets do with a key that comes back and whatever
\* faults occur.
THEOREM ShippedIsStoredAnywhere == ASSUME OneCycle PROVE Spec => []SentIsStored
<1>1. Init => Lasting
  BY EmptyWhole DEF Init, Lasting, Whole, Fresh, NamedByRow, ReachedHeld, ShippedHeld, Gone
<1>2. Typed /\ InOrder /\ Lasting /\ [Next]_vars => InOrder' /\ Lasting'
  BY StaysInOrder, StepLasts
<1>3. Typed /\ [Next]_vars => Typed'
  BY StepTyped
<1>4. Lasting => SentIsStored
  BY DEF Lasting, ShippedHeld, Held, SentIsStored, Stored, Gone
<1>5. QED
  BY <1>1, <1>2, <1>3, <1>4, InitTyped, InitInOrder, PTL DEF Spec

-----------------------------------------------------------------------------
(* Drivers that answer only for what they stored *)

\* No target answers for an object it did not take, and no put is repeated with
\* a stream that was read from.
HonestDrivers == "resent" \notin Faults /\ \A t \in Targets : Kind[t] # "webdav"

NothingMisreported == misreported = {}
ShippedIsThere == \A n \in Rows : status[n] \in {"sent", "pruned"} => Stored(n)

\* A put that returns has stored the object, and it is whole.
LEMMA PutHonest ==
  ASSUME HonestDrivers, Whole, NothingMisreported, NEW d \in Drains,
         PutSucceeds(d) \/ PutUnacknowledged(d) \/ PutTorn(d) \/ PutResent(d)
  PROVE  NothingMisreported' /\ upload' = upload
<1>1. CASE PutSucceeds(d)
  <2>1. PICK t \in Targets : t = TargetOrder[at[d]]
    BY <1>1, TargetAt DEF PutSucceeds
  <2>2. PICK held : held = Taken(t, upload[d])
    OBVIOUS
  <2>3. upload[d] \in held /\ upload[d].whole = TRUE
    BY <2>2 DEF Taken, Ignores, With, HonestDrivers, Whole
  <2>4. \E o \in held : SameKey(o, upload[d]) /\ o.whole /\ upload[d].rows \subseteq o.rows
    BY <2>3 DEF SameKey
  <2>5. Acknowledge(d, held)
    BY <1>1, <2>1, <2>2 DEF PutSucceeds
  <2>6. QED
    BY <2>4, <2>5 DEF Acknowledge, UploadFrame, NothingMisreported
<1>2. CASE PutUnacknowledged(d) \/ PutTorn(d)
  BY <1>2 DEF PutUnacknowledged, PutTorn, Disown, UploadFrame, NothingMisreported
<1>3. QED
  BY <1>1, <1>2 DEF PutResent, HonestDrivers

\* Drivers that speak the truth go on doing so.
LEMMA StaysHonest ==
  ASSUME HonestDrivers, Typed, Whole, NothingMisreported, [Next]_vars
  PROVE  Whole' /\ NothingMisreported'
<1>1. DOMAIN upload = Drains
  BY DEF Typed, DrainsOK
<1>2. ASSUME NEW d \in Drains, Rest(d) PROVE Whole'
  BY <1>1, <1>2, EmptyWhole DEF Rest, Whole
<1>3. ASSUME NEW d \in Drains,
             Work(d) \/ PutUnacknowledged(d) \/ PutTorn(d) \/ PutResent(d) \/ DrainFails(d)
      PROVE  Whole' /\ NothingMisreported'
  <2>1. CASE Prepare(d)
    <3>1. PICK object : object.whole = TRUE /\ upload' = [upload EXCEPT ![d] = object]
      BY <2>1 DEF Prepare
    <3>2. QED
      BY <1>1, <2>1, <3>1 DEF Prepare, cloud, Whole, NothingMisreported
  <2>2. CASE FindNothing(d) \/ Mark(d) \/ DrainFails(d)
    BY <1>2, <2>2 DEF FindNothing, Mark, DrainFails, cloud, NothingMisreported
  <2>3. CASE Enter(d) \/ Requeue(d) \/ PutFails(d)
    BY <2>3 DEF Enter, Requeue, PutFails, UploadFrame, cloud, Whole, NothingMisreported
  <2>4. CASE PutSucceeds(d) \/ PutUnacknowledged(d) \/ PutTorn(d) \/ PutResent(d)
    BY <2>4, PutHonest DEF Whole
  <2>5. QED
    BY <1>3, <2>1, <2>2, <2>3, <2>4 DEF Work
<1>4. CASE Crash
  BY <1>4, EmptyWhole DEF Crash, cloud, Whole, NothingMisreported
<1>5. CASE \/ \E e \in Entities : Capture(e)
           \/ \E n \in Rows : CommitWrite(n) \/ RollBack(n)
           \/ \E s \in Snapshots : \/ StartDump(s) \/ ReadMax(s) \/ ShipSnapshot(s)
                                   \/ ShipFails(s) \/ FinishDaily(s) \/ FinishManual(s)
           \/ NextDay \/ UNCHANGED vars
  BY <1>5 DEF Capture, CommitWrite, RollBack, StartDump, ReadMax, ShipSnapshot, ShipFails,
       FinishDaily, FinishManual, NextDay, vars, drains, cloud, Whole, NothingMisreported
<1>6. QED
  BY <1>3, <1>4, <1>5 DEF Next

\* Where drivers only answer for what they stored, every row that is marked as
\* shipped is in an unbroken batch on some target: with one cycle at a time, or
\* with any number of them when no target replaces an object.
THEOREM HonestDriversShip ==
  ASSUME HonestDrivers, OneCycle \/ NoReplacing PROVE Spec => []ShippedIsThere
<1>1. Spec => []SentIsStored
  BY ShippedIsStored, ShippedIsStoredAnywhere
<1>2. Init => Whole /\ NothingMisreported
  BY EmptyWhole DEF Init, Whole, NothingMisreported
<1>3. Typed /\ Whole /\ NothingMisreported /\ [Next]_vars => Typed' /\ Whole' /\ NothingMisreported'
  BY StepTyped, StaysHonest
<1>4. SentIsStored /\ NothingMisreported => ShippedIsThere
  BY DEF SentIsStored, NothingMisreported, ShippedIsThere
<1>5. QED
  BY <1>1, <1>2, <1>3, <1>4, InitTyped, PTL DEF Spec

-----------------------------------------------------------------------------
(***************************************************************************)
(* What a replay computes.  The fold runs through the batches one by one;  *)
(* for an entity its outcome is the greatest row of the last batch that    *)
(* has a row of it, or the base if none has.                               *)
(***************************************************************************)
\* The rows of an entity in a batch, the batches of T that have some, and what
\* the last of them leaves.
RowsIn(batch, e, entityOf, through) == {n \in batch.rows : n > through /\ entityOf[n] = e}
Hits(order, T, e, entityOf, through) == {i \in T : RowsIn(order[i], e, entityOf, through) # {}}
LastWins(order, base, entityOf, through, T) ==
    [e \in DOMAIN base |->
        LET hits == Hits(order, T, e, entityOf, through) IN
        IF hits = {} THEN base[e] ELSE Max(RowsIn(order[Max(hits)], e, entityOf, through))]

\* One unfolding of the fold, by the set of the batches that are done.
ReplayStep(order, base, entityOf, through, T, g) ==
    IF T = {} THEN base
    ELSE ApplyBatch(g[T \ {Max(T)}], order[Max(T)], entityOf, through)

\* One batch more.
LEMMA OneBatchMore ==
  ASSUME NEW N \in Nat, NEW order, NEW base, NEW entityOf, NEW through,
         base = [e \in DOMAIN base |-> base[e]],
         NEW T \in SUBSET (1..N), NEW g,
         T # {} => g[T \ {Max(T)}] = LastWins(order, base, entityOf, through, T \ {Max(T)})
  PROVE  ReplayStep(order, base, entityOf, through, T, g) = LastWins(order, base, entityOf, through, T)
<1>1. CASE T = {}
  <2>1. \A e : Hits(order, T, e, entityOf, through) = {}
    BY <1>1 DEF Hits
  <2>2. QED
    BY <1>1, <2>1 DEF ReplayStep, LastWins
<1>2. CASE T # {}
  <2>1. PICK m : m = Max(T)
    OBVIOUS
  <2>2. m \in T /\ \A y \in T : y <= m
    <3>1. T \subseteq 0..N
      OBVIOUS
    <3>2. QED
      BY <1>2, <2>1, <3>1, MaxTops
  <2>3. PICK U : U = T \ {m}
    OBVIOUS
  <2>4. g[U] = LastWins(order, base, entityOf, through, U) /\ DOMAIN g[U] = DOMAIN base
    BY <1>2, <2>1, <2>3 DEF LastWins
  <2>5. ReplayStep(order, base, entityOf, through, T, g) =
           [e \in DOMAIN base |-> IF RowsIn(order[m], e, entityOf, through) = {} THEN g[U][e]
                                  ELSE Max(RowsIn(order[m], e, entityOf, through))]
    BY <1>2, <2>1, <2>3, <2>4 DEF ReplayStep, ApplyBatch, RowsIn
  <2>6. ASSUME NEW e \in DOMAIN base, RowsIn(order[m], e, entityOf, through) = {}
        PROVE  g[U][e] = LastWins(order, base, entityOf, through, T)[e]
    <3>1. Hits(order, T, e, entityOf, through) = Hits(order, U, e, entityOf, through)
      BY <2>3, <2>6 DEF Hits
    <3>2. QED
      BY <2>4, <3>1 DEF LastWins
  <2>7. ASSUME NEW e \in DOMAIN base, RowsIn(order[m], e, entityOf, through) # {}
        PROVE  Max(RowsIn(order[m], e, entityOf, through)) = LastWins(order, base, entityOf, through, T)[e]
    <3>1. m \in Hits(order, T, e, entityOf, through)
      BY <2>2, <2>7 DEF Hits
    <3>2. Max(Hits(order, T, e, entityOf, through)) = m
      <4>1. Hits(order, T, e, entityOf, through) \subseteq T /\ T \subseteq Nat
        BY DEF Hits
      <4>2. QED
        BY <2>2, <3>1, <4>1, MaxIs
    <3>3. QED
      BY <3>1, <3>2 DEF LastWins
  <2>8. QED
    BY <2>5, <2>6, <2>7 DEF LastWins
<1>3. QED
  BY <1>1, <1>2

\* The replay is the fold of that step.
LEMMA ReplayIs ==
  ASSUME NEW N \in Nat, NEW order, NEW base, NEW entityOf, NEW through,
         base = [e \in DOMAIN base |-> base[e]], DOMAIN order = 1..N
  PROVE  FoldLeft(LAMBDA state, batch : ApplyBatch(state, batch, entityOf, through), base, order)
             = LastWins(order, base, entityOf, through, 1..N)
<1> DEFINE Solves(g) == g = [T \in SUBSET (1..N) |-> ReplayStep(order, base, entityOf, through, T, g)]
           G == CHOOSE g : Solves(g)
           h == [T \in SUBSET (1..N) |-> LastWins(order, base, entityOf, through, T)]
<1>1. Solves(h)
  <2>1. \A T \in SUBSET (1..N) : ReplayStep(order, base, entityOf, through, T, h)
                                   = LastWins(order, base, entityOf, through, T)
    <3>1. \A T \in SUBSET (1..N) : h[T \ {Max(T)}] = LastWins(order, base, entityOf, through, T \ {Max(T)})
      OBVIOUS
    <3> HIDE DEF h
    <3>2. ASSUME NEW T \in SUBSET (1..N)
          PROVE  ReplayStep(order, base, entityOf, through, T, h) = LastWins(order, base, entityOf, through, T)
      <4>1. h[T \ {Max(T)}] = LastWins(order, base, entityOf, through, T \ {Max(T)})
        BY <3>1
      <4>2. QED
        BY <4>1, OneBatchMore
    <3>3. QED
      BY <3>2
  <2>2. h = [T \in SUBSET (1..N) |-> ReplayStep(order, base, entityOf, through, T, h)]
    BY <2>1
  <2>3. QED
    BY <2>2
<1>2. Solves(G)
  BY <1>1
<1>3. FoldLeft(LAMBDA state, batch : ApplyBatch(state, batch, entityOf, through), base, order) = G[1..N]
  BY DEF FoldLeft, MapThenFoldSet, ReplayStep
<1>4. \A T \in SUBSET (1..N) : G[T] = h[T]
  <2> DEFINE Bad == {T \in SUBSET (1..N) : G[T] # h[T]}
  <2>1. SUFFICES ASSUME Bad # {} PROVE FALSE
    OBVIOUS
  <2>2. PICK T \in Bad : \A x \in T : T \ {x} \notin Bad
    <3>1. Bad \subseteq SUBSET (1..N) /\ IsFiniteSet(1..N)
      BY FS_Interval
    <3> HIDE DEF Bad
    <3>2. QED
      BY <2>1, <3>1, HasSmallest
  <2>3. T # {} => Max(T) \in T
    <3>1. T \subseteq 0..N
      BY <2>2
    <3>2. QED
      BY <3>1, MaxTops
  <2>4. T # {} => G[T \ {Max(T)}] = LastWins(order, base, entityOf, through, T \ {Max(T)})
    BY <2>2, <2>3
  <2>5. G[T] = ReplayStep(order, base, entityOf, through, T, G)
    BY <1>2, <2>2
  <2> HIDE DEF G
  <2>6. ReplayStep(order, base, entityOf, through, T, G) = LastWins(order, base, entityOf, through, T)
    <3>1. T \in SUBSET (1..N)
      BY <2>2
    <3>2. QED
      BY <2>4, <3>1, OneBatchMore
  <2>7. QED
    BY <2>2, <2>5, <2>6
<1>5. QED
  BY <1>3, <1>4

-----------------------------------------------------------------------------
(***************************************************************************)
(* A restore from one target.  With transactions that commit in the order  *)
(* of their numbers, one cycle at a time, and no fault but a target that   *)
(* is out of reach, batches are shipped in the order of their rows: when   *)
(* one is picked, all that is not shipped yet and not parked is greater    *)
(* than all that was.  So no two batches of a target overlap, and sorting  *)
(* them by their first number sorts their rows.                            *)
(***************************************************************************)
OneByOne == OneCycle /\ MaxOpen <= 1 /\ Snapshots = {} /\ Faults \subseteq {"offline"}

\* What may still be shipped, now or later.
Unsent(n) ==
    \/ status[n] \in {"unborn", "open", "pending"}
    \/ status[n] = "failed" /\ attempts[n] < MaxAttempts

Batch(o) ==
    /\ o.rows \subseteq Rows /\ o.from \in o.rows /\ o.to \in o.rows
    /\ \A n \in o.rows : o.from <= n /\ n <= o.to
Before(a, b) == \A m \in a.rows, n \in b.rows : m < n

\* All that is left comes after these rows.
Past(rows) == \A n \in Rows \ rows : Unsent(n) => \A m \in rows : m < n

Numbered ==
    \A n \in Rows : (status[n] = "unborn" <=> n >= next) /\ (status[n] = "open" => next = n + 1)
Requeued ==
    \A d \in Drains : pc[d] = "requeued" =>
        \A n \in Rows : status[n] = "failed" => attempts[n] >= MaxAttempts
Picked ==
    \A d \in Drains : pc[d] = "uploading" =>
        /\ Batch(upload[d]) /\ Past(upload[d].rows)
        /\ \A n \in upload[d].rows : status[n] = "pending"
Delivered ==
    \A t \in Targets : \A o \in store[t] :
        /\ Batch(o) /\ Past(o.rows)
        /\ \/ \A n \in o.rows : ~Unsent(n)
           \/ \E d \in Drains : pc[d] = "uploading" /\ reached[d] /\ o = upload[d]
Lined == \A t \in Targets : \A a, b \in store[t] : a = b \/ Before(a, b) \/ Before(b, a)
NoShot == \A t \in Targets : snaps[t] = {}

InLine == Numbered /\ Requeued /\ Picked /\ Delivered /\ Lined /\ NoShot

\* A step that ships nothing, and adds nothing to what is left, keeps the line.
LEMMA QuietInLine ==
  ASSUME InLine, Numbered', Requeued',
         \A n \in Rows : Unsent(n)' => Unsent(n),
         \A n \in Rows : status[n] = "pending" => status'[n] = "pending",
         \A d \in Drains : pc'[d] = "uploading" => pc[d] = "uploading" /\ upload'[d] = upload[d],
         \A d \in Drains : pc[d] = "uploading" =>
             pc'[d] = "uploading" /\ upload'[d] = upload[d] /\ reached'[d] = reached[d],
         store' = store, snaps' = snaps
  PROVE  InLine'
<1>1. ASSUME NEW rows, Past(rows) PROVE \A n \in Rows \ rows : Unsent(n)' => \A m \in rows : m < n
  BY <1>1 DEF Past
<1>2. Picked'
  BY <1>1 DEF InLine, Picked, Past, Batch
<1>3. Delivered'
  <2> SUFFICES ASSUME NEW t \in Targets, NEW o \in store[t]
               PROVE  /\ Batch(o)
                      /\ \A n \in Rows \ o.rows : Unsent(n)' => \A m \in o.rows : m < n
                      /\ \/ \A n \in o.rows : ~Unsent(n)'
                         \/ \E d \in Drains : pc'[d] = "uploading" /\ reached'[d] /\ o = upload'[d]
    BY DEF Delivered, Past, Batch
  <2>1. Batch(o) /\ Past(o.rows)
    BY DEF InLine, Delivered
  <2>2. \/ \A n \in o.rows : ~Unsent(n)
        \/ \E d \in Drains : pc[d] = "uploading" /\ reached[d] /\ o = upload[d]
    BY DEF InLine, Delivered
  <2>3. o.rows \subseteq Rows
    BY <2>1 DEF Batch
  <2>4. QED
    BY <1>1, <2>1, <2>2, <2>3
<1>4. Lined' /\ NoShot'
  BY DEF InLine, Lined, NoShot, Before
<1>5. QED
  BY <1>2, <1>3, <1>4 DEF InLine

\* While at most one transaction is open, a captured row is the only open one.
LEMMA NoneOpen ==
  ASSUME MaxOpen <= 1, Cardinality(Open) < MaxOpen PROVE \A n \in Rows : status[n] # "open"
<1>1. IsFiniteSet(Rows)
  BY BoundsAssumption, FS_Interval DEF Rows
<1>2. Open \subseteq Rows
  BY DEF Open
<1>3. IsFiniteSet(Open) /\ Cardinality(Open) \in Nat
  BY <1>1, <1>2, FS_Subset, FS_CardinalityType
<1>4. Cardinality(Open) = 0
  BY <1>3, BoundsAssumption
<1>5. Open = {}
  BY <1>3, <1>4, FS_EmptySet
<1>6. QED
  BY <1>5 DEF Open

\* The oldest rows come before the others.
LEMMA OldestFirst ==
  ASSUME NEW P, P \subseteq Rows, NEW m \in Oldest(P), NEW n \in P \ Oldest(P)
  PROVE  m < n
<1>1. SUFFICES ASSUME ~(m < n) PROVE FALSE
  OBVIOUS
<1>2. m \in P /\ m \in Int /\ n \in Int /\ P \subseteq Int
  BY DEF Oldest, Rows
<1>3. IsFiniteSet(P)
  <2>1. IsFiniteSet(Rows)
    BY BoundsAssumption, FS_Interval DEF Rows
  <2>2. QED
    BY <2>1, FS_Subset
<1>4. PICK A : A = {x \in P : x < n}
  OBVIOUS
<1>5. PICK B : B = {x \in P : x < m}
  OBVIOUS
<1>6. A \in SUBSET B /\ IsFiniteSet(B) /\ IsFiniteSet(A)
  <2>1. A \subseteq B
    <3>1. ASSUME NEW x \in P, x < n PROVE x < m
      BY <1>1, <1>2, <3>1
    <3>2. QED
      BY <1>4, <1>5, <3>1
  <2>2. B \in SUBSET P /\ A \in SUBSET P
    BY <1>4, <1>5
  <2>3. IsFiniteSet(B)
    BY <1>3, <2>2, FS_Subset
  <2>4. IsFiniteSet(A)
    BY <1>3, <2>2, FS_Subset
  <2>5. QED
    BY <2>1, <2>3, <2>4
<1>7. Cardinality(A) <= Cardinality(B) /\ Cardinality(A) \in Nat /\ Cardinality(B) \in Nat
  BY <1>6, FS_Subset, FS_CardinalityType
<1>8. Cardinality(B) < BatchMax /\ ~(Cardinality(A) < BatchMax)
  BY <1>2, <1>4, <1>5 DEF Oldest
<1>9. QED
  BY <1>7, <1>8, BoundsAssumption

\* A batch is named after its first and last row.
LEMMA BatchMade ==
  ASSUME NEW rows, rows \subseteq Rows, rows # {}, NEW o,
         o.rows = rows, o.from = Min(rows), o.to = Max(rows)
  PROVE  Batch(o)
<1>1. rows \subseteq Nat /\ rows \subseteq 0..MaxSeq /\ MaxSeq \in Nat
  BY BoundsAssumption DEF Rows
<1>2. Max(rows) \in rows /\ \A n \in rows : n <= Max(rows)
  BY <1>1, MaxTops
<1>3. Min(rows) \in rows /\ \A n \in rows : Min(rows) <= n
  BY <1>1, HasLeast DEF Min
<1>4. QED
  BY <1>2, <1>3 DEF Batch

\* A batch that is picked comes after all that was shipped, and before all that is left.
LEMMA PrepareInLine ==
  ASSUME OneByOne, Typed, InLine, NEW d \in Drains, Prepare(d) PROVE InLine'
<1>1. PICK P : P = {n \in Rows : status[n] = "pending"}
  OBVIOUS
<1>2. PICK rows : rows = Oldest(P)
  OBVIOUS
<1>3. PICK object : object = [day |-> day, from |-> Min(rows), to |-> Max(rows), rows |-> rows, whole |-> TRUE]
  OBVIOUS
<1>4. /\ pc[d] = "requeued" /\ rows # {} /\ upload' = [upload EXCEPT ![d] = object]
      /\ pc' = [pc EXCEPT ![d] = "uploading"]
      /\ UNCHANGED <<next, status, attempts, reached, store, snaps>>
  BY <1>1, <1>2, <1>3 DEF Prepare, queue, cloud
<1>5. DOMAIN pc = Drains /\ DOMAIN upload = Drains
  BY DEF Typed, DrainsOK
<1>6. \A c \in Drains : c = d
  BY DEF OneByOne, OneCycle
<1>7. rows \subseteq P /\ P \subseteq Rows
  BY <1>1, <1>2 DEF Oldest
<1>8. object.rows = rows /\ Batch(object)
  BY <1>3, <1>4, <1>7, BatchMade
<1>9. Past(rows)
  <2> SUFFICES ASSUME NEW n \in Rows \ rows, Unsent(n), NEW m \in rows PROVE m < n
    BY DEF Past
  <2>1. m \in Rows /\ status[m] = "pending" /\ m \in Int /\ n \in Int /\ next \in Int
    BY <1>1, <1>7 DEF Rows, Typed, QueueOK
  <2>2. m < next
    BY <2>1 DEF InLine, Numbered
  <2>3. CASE status[n] = "pending"
    BY <1>1, <1>2, <1>7, <2>3, OldestFirst
  <2>4. CASE status[n] = "open"
    <3>1. next = n + 1 /\ m # n
      BY <2>1, <2>4 DEF InLine, Numbered
    <3>2. QED
      BY <2>1, <2>2, <3>1
  <2>5. CASE status[n] = "unborn"
    BY <2>1, <2>2, <2>5 DEF InLine, Numbered
  <2>6. CASE status[n] = "failed"
    <3>1. attempts[n] < MaxAttempts /\ attempts[n] >= MaxAttempts /\ attempts[n] \in Nat
      BY <1>4, <2>6 DEF Unsent, InLine, Requeued, Typed, QueueOK
    <3>2. QED
      BY <3>1, BoundsAssumption
  <2>7. QED
    BY <2>3, <2>4, <2>5, <2>6 DEF Unsent
<1>10. \A n \in Rows : Unsent(n)' <=> Unsent(n)
  BY <1>4 DEF Unsent
<1>11. Picked'
  <2>1. upload'[d] = object /\ Batch(object)' /\ Past(object.rows)'
    BY <1>4, <1>5, <1>8, <1>9, <1>10 DEF Past, Batch
  <2>2. \A n \in object.rows : status'[n] = "pending"
    BY <1>1, <1>4, <1>7, <1>8
  <2>3. QED
    BY <1>6, <2>1, <2>2 DEF Picked
<1>12. Delivered'
  <2>1. \A t \in Targets : \A o \in store[t] :
           Batch(o) /\ Past(o.rows) /\ \A n \in o.rows : n \in Rows /\ ~Unsent(n)
    BY <1>4, <1>6 DEF InLine, Delivered, Batch
  <2>2. QED
    BY <1>4, <1>10, <2>1 DEF Delivered, Batch, Past
<1>13. Numbered' /\ Lined' /\ NoShot'
  BY <1>4 DEF InLine, Numbered, Lined, Before, NoShot
<1>14. Requeued'
  BY <1>4, <1>5, <1>6 DEF Requeued
<1>15. QED
  BY <1>11, <1>12, <1>13, <1>14 DEF InLine

\* What a target takes comes after all it had.
LEMMA PutInLine ==
  ASSUME OneByOne, Typed, InLine, NEW d \in Drains, PutSucceeds(d) PROVE InLine'
<1>1. PICK object : object = upload[d]
  OBVIOUS
<1>2. PICK t : t = TargetOrder[at[d]]
  OBVIOUS
<1>3. /\ pc[d] = "uploading" /\ reached' = [reached EXCEPT ![d] = TRUE]
      /\ store' = [store EXCEPT ![t] = Taken(t, object)]
      /\ UNCHANGED <<next, status, attempts, pc, upload, snaps>>
  BY <1>1, <1>2 DEF PutSucceeds, Acknowledge, AtTarget, UploadFrame, queue, shots
<1>4. \A c \in Drains : c = d
  BY DEF OneByOne, OneCycle
<1>5. DOMAIN store = Targets /\ DOMAIN reached = Drains
  BY DEF Typed, DrainsOK
<1>6. \A u \in Targets : \A o \in store'[u] : o \in store[u] \/ o = object
  BY <1>3, <1>5 DEF Taken, With
<1>7. Batch(object) /\ Past(object.rows) /\ \A n \in object.rows : n \in Rows /\ status[n] = "pending" /\ Unsent(n)
  BY <1>1, <1>3 DEF InLine, Picked, Batch, Unsent
<1>8. \A u \in Targets : \A o \in store[u] : o = object \/ Before(o, object)
  <2> SUFFICES ASSUME NEW u \in Targets, NEW o \in store[u], o # object,
                      NEW m \in o.rows, NEW n \in object.rows
               PROVE  m < n
    BY DEF Before
  <2>1. \A k \in o.rows : ~Unsent(k)
    BY <1>1, <1>4 DEF InLine, Delivered
  <2>2. n \in Rows \ o.rows /\ Unsent(n)
    BY <1>7, <2>1
  <2>3. QED
    BY <2>2 DEF InLine, Delivered, Past
<1>9. \A n \in Rows : Unsent(n)' <=> Unsent(n)
  BY <1>3 DEF Unsent
<1>10. Delivered'
  <2> SUFFICES ASSUME NEW u \in Targets, NEW o \in store'[u]
               PROVE  /\ Batch(o) /\ Past(o.rows)'
                      /\ \/ \A n \in o.rows : ~Unsent(n)'
                         \/ \E c \in Drains : pc'[c] = "uploading" /\ reached'[c] /\ o = upload'[c]
    BY DEF Delivered, Batch
  <2>1. CASE o = object
    <3>1. Past(object.rows)'
      BY <1>7, <1>9 DEF Past
    <3>2. pc'[d] = "uploading" /\ reached'[d] /\ object = upload'[d]
      BY <1>1, <1>3, <1>5
    <3>3. QED
      BY <1>7, <2>1, <3>1, <3>2
  <2>2. CASE o \in store[u] /\ o # object
    <3>1. Batch(o) /\ Past(o.rows) /\ \A n \in o.rows : ~Unsent(n)
      BY <1>1, <1>4, <2>2 DEF InLine, Delivered
    <3>2. \A n \in o.rows : n \in Rows
      BY <3>1 DEF Batch
    <3>3. Past(o.rows)'
      BY <1>9, <3>1 DEF Past
    <3>4. QED
      BY <1>9, <3>1, <3>2, <3>3
  <2>3. QED
    BY <1>6, <2>1, <2>2
<1>11. Lined'
  BY <1>6, <1>8 DEF InLine, Lined, Before
<1>12. Picked' /\ Numbered' /\ Requeued' /\ NoShot'
  BY <1>3, <1>9 DEF InLine, Picked, Past, Batch, Numbered, Requeued, NoShot
<1>13. QED
  BY <1>10, <1>11, <1>12 DEF InLine

\* Marking takes the rows out of what is left, or puts them back as they were.
LEMMA MarkInLine ==
  ASSUME OneByOne, Typed, InLine, NEW d \in Drains, Mark(d) PROVE InLine'
<1>1. PICK rows : rows = upload[d].rows
  OBVIOUS
<1>2. pc[d] = "uploading" /\ Rest(d) /\ UNCHANGED <<next, store, snaps>>
  BY DEF Mark, shots, cloud
<1>3. rows \subseteq Rows /\ \A n \in rows : status[n] = "pending"
  BY <1>1, <1>2 DEF InLine, Picked, Batch
<1>4. {n \in upload[d].rows : status[n] # "pruned"} = rows
  BY <1>1, <1>3
<1>5. \/ /\ reached[d] /\ attempts' = attempts
         /\ status' = [n \in Rows |-> IF n \in rows THEN "sent" ELSE status[n]]
      \/ /\ ~reached[d]
         /\ status' = [n \in Rows |-> IF n \in rows THEN "failed" ELSE status[n]]
         /\ attempts' = [n \in Rows |-> attempts[n] + IF n \in rows THEN 1 ELSE 0]
  BY <1>4 DEF Mark
<1>6. \A n \in Rows : /\ n \in rows => status'[n] \in {"sent", "failed"}
                      /\ n \notin rows => status'[n] = status[n] /\ (reached[d] => attempts'[n] = attempts[n])
                      /\ n \notin rows /\ ~reached[d] => attempts'[n] = attempts[n] + 0
  BY <1>5
<1>7. \A n \in Rows : Unsent(n)' => Unsent(n)
  <2> SUFFICES ASSUME NEW n \in Rows, Unsent(n)' PROVE Unsent(n)
    OBVIOUS
  <2>1. CASE n \in rows
    BY <1>3, <2>1 DEF Unsent
  <2>2. CASE n \notin rows
    <3>1. status'[n] = status[n] /\ attempts'[n] = attempts[n]
      BY <1>6, <2>2 DEF Typed, QueueOK
    <3>2. QED
      BY <3>1 DEF Unsent
  <2>3. QED
    BY <2>1, <2>2
<1>8. \A c \in Drains : c = d /\ pc'[c] = "idle"
  BY <1>2 DEF OneByOne, OneCycle, Rest, Typed, DrainsOK
<1>9. Delivered'
  <2> SUFFICES ASSUME NEW t \in Targets, NEW o \in store[t]
               PROVE  Batch(o) /\ Past(o.rows)' /\ \A n \in o.rows : ~Unsent(n)'
    BY <1>2 DEF Delivered, Batch
  <2>1. Batch(o) /\ Past(o.rows) /\ o.rows \subseteq Rows
    BY DEF InLine, Delivered, Batch
  <2>2. Past(o.rows)'
    BY <1>7, <2>1 DEF Past
  <2>3. CASE \A n \in o.rows : ~Unsent(n)
    BY <1>7, <2>1, <2>2, <2>3
  <2>4. CASE reached[d] /\ o.rows = rows
    <3>1. \A n \in rows : status'[n] = "sent"
      BY <1>3, <1>5, <2>4
    <3>2. QED
      BY <2>1, <2>2, <2>4, <3>1 DEF Unsent
  <2>5. QED
    BY <1>1, <1>8, <2>3, <2>4 DEF InLine, Delivered
<1>10. Picked' /\ Requeued'
  BY <1>8 DEF Picked, Requeued
<1>11. Numbered'
  BY <1>2, <1>3, <1>6 DEF InLine, Numbered
<1>12. Lined' /\ NoShot'
  BY <1>2 DEF InLine, Lined, Before, NoShot
<1>13. QED
  BY <1>9, <1>10, <1>11, <1>12 DEF InLine

\* At the start there is nothing to be out of line.
LEMMA InitInLine == ASSUME Init, Snapshots = {} PROVE InLine
<1>1. Numbered
  BY DEF Init, Numbered, Rows
<1>2. Requeued /\ Picked
  BY DEF Init, Requeued, Picked
<1>3. Delivered /\ Lined /\ NoShot
  BY DEF Init, Delivered, Lined, NoShot
<1>4. QED
  BY <1>1, <1>2, <1>3 DEF InLine

\* A row that is captured is the last one numbered, and the only one open.
LEMMA CaptureInLine ==
  ASSUME OneByOne, Typed, InLine, NEW e \in Entities, Capture(e) PROVE InLine'
<1>1. /\ next \in Rows /\ next' = next + 1 /\ status' = [status EXCEPT ![next] = "open"]
      /\ UNCHANGED <<attempts, pc, upload, reached, store, snaps>>
  BY DEF Capture, drains, cloud, Typed, QueueOK, Rows
<1>2. status[next] = "unborn" /\ DOMAIN status = Rows /\ next \in Int
  <2>1. next \in Int /\ DOMAIN status = Rows
    BY DEF Typed, QueueOK, Rows
  <2>2. QED
    BY <1>1, <2>1 DEF InLine, Numbered
<1>3. \A n \in Rows : status[n] # "open"
  BY NoneOpen DEF Capture, OneByOne
<1>4. \A n \in Rows : status'[n] = IF n = next THEN "open" ELSE status[n]
  BY <1>1, <1>2
<1>5. Numbered'
  <2>1. ASSUME NEW n \in Rows
        PROVE  (status'[n] = "unborn" <=> n >= next') /\ (status'[n] = "open" => next' = n + 1)
    <3>1. n \in Int /\ (status[n] = "unborn" <=> n >= next)
      BY DEF InLine, Numbered, Rows
    <3>2. QED
      BY <1>1, <1>2, <1>3, <1>4, <3>1
  <2>2. QED
    BY <2>1 DEF Numbered
<1>6. Requeued'
  BY <1>1, <1>4 DEF InLine, Requeued
<1>7. \A n \in Rows : Unsent(n)' => Unsent(n)
  BY <1>1, <1>2, <1>4 DEF Unsent
<1>8. \A n \in Rows : status[n] = "pending" => status'[n] = "pending"
  BY <1>2, <1>4
<1>9. QED
  BY <1>1, <1>5, <1>6, <1>7, <1>8, QuietInLine

\* A write that commits or rolls back leaves the rest of the queue alone.
LEMMA WriteInLine ==
  ASSUME Typed, InLine, NEW m \in Rows, CommitWrite(m) \/ RollBack(m) PROVE InLine'
<1>1. /\ status[m] = "open"
      /\ UNCHANGED <<next, attempts, pc, upload, reached, store, snaps>>
  BY DEF CommitWrite, RollBack, drains, cloud
<1>2. PICK s \in {"pending", "void"} : status' = [status EXCEPT ![m] = s]
  BY DEF CommitWrite, RollBack
<1>3. \A n \in Rows : status'[n] = IF n = m THEN s ELSE status[n]
  BY <1>2 DEF Typed, QueueOK
<1>4. Numbered'
  <2>1. ASSUME NEW n \in Rows
        PROVE  (status'[n] = "unborn" <=> n >= next) /\ (status'[n] = "open" => next = n + 1)
    <3>1. (status[n] = "unborn" <=> n >= next) /\ (status[n] = "open" => next = n + 1)
      BY DEF InLine, Numbered
    <3>2. QED
      BY <1>1, <1>2, <1>3, <3>1
  <2>2. QED
    BY <1>1, <2>1 DEF Numbered
<1>5. Requeued'
  BY <1>1, <1>2, <1>3 DEF InLine, Requeued
<1>6. \A n \in Rows : Unsent(n)' => Unsent(n)
  BY <1>1, <1>3 DEF Unsent
<1>7. \A n \in Rows : status[n] = "pending" => status'[n] = "pending"
  BY <1>1, <1>3
<1>8. QED
  BY <1>1, <1>4, <1>5, <1>6, <1>7, QuietInLine

\* With one cycle, what a drain does while no other works.
LEMMA QuietDrain ==
  ASSUME OneByOne, Typed, InLine, NEW d \in Drains,
         Enter(d) \/ Requeue(d) \/ FindNothing(d) \/ PutFails(d)
  PROVE  InLine'
<1>1. \A c \in Drains : c = d
  BY DEF OneByOne, OneCycle
<1>2. DOMAIN pc = Drains /\ DOMAIN upload = Drains /\ DOMAIN status = Rows
  BY DEF Typed, DrainsOK, QueueOK
<1>3. UNCHANGED <<next, attempts, store, snaps>>
  BY DEF Enter, Requeue, FindNothing, PutFails, UploadFrame, queue, shots, cloud
<1>4. \A n \in Rows : \/ status'[n] = status[n]
                      \/ status[n] = "failed" /\ attempts[n] < MaxAttempts /\ status'[n] = "pending"
  BY DEF Enter, Requeue, FindNothing, PutFails, UploadFrame, queue
<1>5. \A n \in Rows : /\ Unsent(n)' => Unsent(n)
                      /\ status[n] = "pending" => status'[n] = "pending"
  BY <1>3, <1>4 DEF Unsent
<1>6. Numbered'
  BY <1>3, <1>4 DEF InLine, Numbered
<1>7. Requeued'
  <2>1. CASE Requeue(d)
    <3>1. ASSUME NEW n \in Rows, status'[n] = "failed" PROVE attempts[n] >= MaxAttempts
      <4>1. status[n] = "failed" /\ ~(attempts[n] < MaxAttempts) /\ attempts[n] \in Nat
        BY <2>1, <3>1 DEF Requeue, Typed, QueueOK
      <4>2. QED
        BY <4>1, BoundsAssumption
    <3>2. QED
      BY <1>3, <3>1 DEF Requeued
  <2>2. CASE ~Requeue(d)
    <3>1. pc'[d] # "requeued"
      BY <1>1, <1>2, <2>2 DEF Enter, FindNothing, PutFails, AtTarget, UploadFrame, Rest
    <3>2. QED
      BY <1>1, <3>1 DEF Requeued
  <2>3. QED
    BY <2>1, <2>2
<1>8. /\ pc'[d] = "uploading" => pc[d] = "uploading" /\ upload'[d] = upload[d]
      /\ pc[d] = "uploading" => pc'[d] = "uploading" /\ upload'[d] = upload[d] /\ reached'[d] = reached[d]
  BY <1>2 DEF Enter, Requeue, FindNothing, PutFails, AtTarget, UploadFrame, Rest
<1>9. QED
  BY <1>1, <1>3, <1>5, <1>6, <1>7, <1>8, QuietInLine

\* Every step keeps the line.
LEMMA StepInLine == ASSUME OneByOne, Typed, InLine, [Next]_vars PROVE InLine'
<1>1. CASE NextDay \/ UNCHANGED vars
  <2>1. UNCHANGED <<next, status, attempts, pc, upload, reached, store, snaps>>
    BY <1>1 DEF NextDay, vars, queue, drains, cloud
  <2>2. Numbered' /\ Requeued' /\ (\A n \in Rows : Unsent(n)' => Unsent(n))
    BY <2>1 DEF InLine, Numbered, Requeued, Unsent
  <2>3. QED
    BY <2>1, <2>2, QuietInLine
<1>2. ASSUME NEW d \in Drains, Work(d) \/ PutUnacknowledged(d) \/ PutTorn(d) \/ PutResent(d) \/ DrainFails(d) PROVE InLine'
  <2>1. Work(d)
    BY <1>2 DEF OneByOne, PutUnacknowledged, PutTorn, PutResent, DrainFails
  <2>2. QED
    BY <2>1, QuietDrain, PrepareInLine, PutInLine, MarkInLine DEF Work
<1>3. ~Crash /\ Snapshots = {}
  BY DEF OneByOne, Crash
<1>4. QED
  BY <1>1, <1>2, <1>3, CaptureInLine, WriteInLine DEF Next

\* In the order of the replay, every batch has a place, and one only.
LEMMA OrderHasAll ==
  ASSUME NEW S, IsFiniteSet(S), NEW order \in SetToSeqs(S)
  PROVE  /\ Cardinality(S) \in Nat /\ DOMAIN order = 1..Cardinality(S)
         /\ \A i \in DOMAIN order : order[i] \in S
         /\ \A i, j \in DOMAIN order : i # j => order[i] # order[j]
         /\ \A b \in S : \E i \in DOMAIN order : order[i] = b
<1>1. PICK D : D = 1..Cardinality(S)
  OBVIOUS
<1>2. order \in [D -> S] /\ \A i, j \in D : i # j => order[i] # order[j]
  BY <1>1 DEF SetToSeqs
<1>3. Cardinality(S) \in Nat
  BY FS_CardinalityType
<1>4. IsFiniteSet(D) /\ Cardinality(D) = Cardinality(S)
  BY <1>1, <1>3, FS_Interval
<1>5. order \in Injection(D, S)
  BY <1>2 DEF Injection, IsInjective
<1>6. order \in Surjection(D, S)
  BY <1>4, <1>5, FS_Injection
<1>7. QED
  BY <1>1, <1>2, <1>3, <1>6 DEF Surjection

\* A target holds finitely many batches: their first numbers tell them apart.
LEMMA FewBatches == ASSUME InLine, NEW t \in Targets PROVE IsFiniteSet(store[t])
<1>1. PICK S : S = store[t]
  OBVIOUS
<1>2. PICK f : f = [b \in S |-> b.from]
  OBVIOUS
<1>3. \A b \in S : b.from \in b.rows /\ b.from \in Rows
  BY <1>1 DEF InLine, Delivered, Batch
<1>4. \A a, b \in S : a # b => a.from # b.from
  <2> SUFFICES ASSUME NEW a \in S, NEW b \in S, a # b PROVE a.from # b.from
    OBVIOUS
  <2>1. a.from < b.from \/ b.from < a.from
    BY <1>1, <1>3 DEF InLine, Lined, Before
  <2>2. a.from \in Int /\ b.from \in Int
    BY <1>3 DEF Rows
  <2>3. QED
    BY <2>1, <2>2
<1>5. f \in Injection(S, Rows)
  BY <1>2, <1>3, <1>4 DEF Injection, IsInjective
<1>6. IsFiniteSet(Rows)
  BY BoundsAssumption, FS_Interval DEF Rows
<1>7. QED
  BY <1>1, <1>5, <1>6, FS_Injection

\* What a restore from a target replays, when no snapshot is there.
LEMMA ReplaysAll ==
  ASSUME InLine, NEW t \in Targets, NEW order \in ReplayOrders(snaps[t], store[t])
  PROVE  /\ order \in SetToSeqs(store[t]) /\ SortedByFrom(order)
         /\ Restored(Entities, entity, snaps[t], order)
              = LastWins(order, [e \in Entities |-> 0], entity, 0, DOMAIN order)
<1>1. snaps[t] = {}
  BY DEF InLine, NoShot
<1>2. AppliedThrough(snaps[t]) = 0
  BY <1>1 DEF AppliedThrough
<1>3. \A b \in store[t] : b.to > 0
  BY DEF InLine, Delivered, Batch, Rows
<1>4. {b \in store[t] : b.to > AppliedThrough(snaps[t])} = store[t]
  BY <1>2, <1>3
<1>5. order \in SetToSeqs(store[t]) /\ SortedByFrom(order)
  BY <1>4 DEF ReplayOrders
<1>6. PICK N : N \in Nat /\ DOMAIN order = 1..N
  BY <1>5, FewBatches, OrderHasAll
<1>7. PICK base : base = IF snaps[t] = {} THEN [e \in Entities |-> 0] ELSE Latest(snaps[t]).image
  OBVIOUS
<1>8. base = [e \in Entities |-> 0] /\ base = [e \in DOMAIN base |-> base[e]]
  BY <1>1, <1>7
<1>9. Restored(Entities, entity, snaps[t], order)
        = FoldLeft(LAMBDA state, batch : ApplyBatch(state, batch, entity, AppliedThrough(snaps[t])), 
                   IF snaps[t] = {} THEN [e \in Entities |-> 0] ELSE Latest(snaps[t]).image, order)
  BY DEF Restored
<1>10. FoldLeft(LAMBDA state, batch : ApplyBatch(state, batch, entity, AppliedThrough(snaps[t])), base, order)
        = LastWins(order, base, entity, AppliedThrough(snaps[t]), 1..N)
  BY <1>6, <1>8, ReplayIs
<1>11. Restored(Entities, entity, snaps[t], order)
        = LastWins(order, base, entity, AppliedThrough(snaps[t]), 1..N)
  BY <1>7, <1>9, <1>10
<1>12. QED
  BY <1>2, <1>5, <1>6, <1>8, <1>11

\* The last batch that has rows of an entity has its newest row.
LEMMA LastIsNewest ==
  ASSUME InLine, NEW t \in Targets, NEW N \in Nat, NEW order,
         DOMAIN order = 1..N,
         \A i \in 1..N : order[i] \in store[t],
         \A i, j \in 1..N : i # j => order[i] # order[j],
         \A b \in store[t] : \E i \in 1..N : order[i] = b,
         SortedByFrom(order), NEW e \in Entities
  PROVE  LastWins(order, [x \in Entities |-> 0], entity, 0, 1..N)[e] = Newest(t, e)
<1>1. PICK all : all = {n \in Rows : entity[n] = e /\ \E o \in store[t] : n \in o.rows}
  OBVIOUS
<1>2. PICK hits : hits = Hits(order, 1..N, e, entity, 0)
  OBVIOUS
<1>3. snaps[t] = {} /\ \A o \in store[t] : Batch(o)
  BY DEF InLine, NoShot, Delivered
<1>4. Newest(t, e) = Max(all \cup {0})
  BY <1>1, <1>3 DEF Newest
<1>5. \A i \in 1..N : \A n : n \in RowsIn(order[i], e, entity, 0) <=> n \in order[i].rows /\ entity[n] = e
  BY <1>3 DEF RowsIn, Batch, Rows
<1>6. all \cup {0} \subseteq Nat
  BY <1>1 DEF Rows
<1>7. CASE hits = {}
  <2>1. all = {}
    <3>1. SUFFICES ASSUME NEW n \in all PROVE FALSE
      OBVIOUS
    <3>2. PICK o \in store[t] : n \in o.rows /\ entity[n] = e
      BY <1>1
    <3>3. PICK i \in 1..N : order[i] = o
      OBVIOUS
    <3>4. i \in hits
      BY <1>2, <1>5, <3>2, <3>3 DEF Hits
    <3>5. QED
      BY <1>7, <3>4
  <2>2. Max(all \cup {0}) = 0
    BY <2>1, MaxIs
  <2>3. QED
    BY <1>2, <1>4, <1>7, <2>2 DEF LastWins
<1>8. CASE hits # {}
  <2>1. PICK i : i = Max(hits)
    OBVIOUS
  <2>2. hits \subseteq 0..N /\ hits \subseteq 1..N
    BY <1>2 DEF Hits
  <2>3. i \in hits /\ \A j \in hits : j <= i
    BY <1>8, <2>1, <2>2, MaxTops
  <2>4. PICK R : R = RowsIn(order[i], e, entity, 0)
    OBVIOUS
  <2>5. R # {} /\ R \subseteq Rows
    BY <1>2, <1>3, <1>5, <2>2, <2>3, <2>4 DEF Hits, Batch
  <2>6. PICK r : r = Max(R)
    OBVIOUS
  <2>7. r \in R /\ \A n \in R : n <= r
    <3>1. R \subseteq 0..MaxSeq /\ MaxSeq \in Nat
      BY <2>5, BoundsAssumption DEF Rows
    <3>2. QED
      BY <2>5, <2>6, <3>1, MaxTops
  <2>8. r \in all
    BY <1>1, <1>5, <2>2, <2>3, <2>4, <2>5, <2>7
  <2>9. \A n \in all : n <= r
    <3> SUFFICES ASSUME NEW n \in all PROVE n <= r
      OBVIOUS
    <3>1. PICK o \in store[t] : n \in o.rows /\ entity[n] = e
      BY <1>1
    <3>2. PICK j \in 1..N : order[j] = o
      OBVIOUS
    <3>3. j \in hits /\ i \in 1..N /\ j <= i
      BY <1>2, <1>5, <2>2, <2>3, <3>1, <3>2 DEF Hits
    <3>4. CASE j = i
      BY <1>5, <2>4, <2>7, <3>1, <3>2, <3>4
    <3>5. CASE j # i
      <4>1. j < i
        BY <3>3, <3>5
      <4>2. order[j].from <= order[i].from
        BY <3>3, <4>1 DEF SortedByFrom
      <4>3. order[j] # order[i] /\ order[j] \in store[t] /\ order[i] \in store[t]
        BY <3>3, <3>5
      <4>4. Before(order[j], order[i]) \/ Before(order[i], order[j])
        BY <4>3 DEF InLine, Lined
      <4>5. /\ order[j].from \in order[j].rows /\ order[i].from \in order[i].rows
            /\ order[j].from \in Int /\ order[i].from \in Int
        BY <1>3, <4>3 DEF Batch, Rows
      <4>6. Before(order[j], order[i])
        <5>1. SUFFICES ASSUME Before(order[i], order[j]) PROVE FALSE
          BY <4>4
        <5>2. order[i].from < order[j].from
          BY <4>5, <5>1 DEF Before
        <5>3. QED
          BY <4>2, <4>5, <5>2
      <4>7. r \in order[i].rows
        BY <1>5, <2>4, <2>7, <3>3
      <4>8. n < r
        BY <3>1, <3>2, <4>6, <4>7 DEF Before
      <4>9. n \in Int /\ r \in Int
        BY <1>1, <2>8 DEF Rows
      <4>10. QED
        BY <4>8, <4>9
    <3>6. QED
      BY <3>4, <3>5
  <2>10. Max(all \cup {0}) = r
    <3>1. r \in all \cup {0} /\ r \in Nat
      BY <1>6, <2>8
    <3>2. \A n \in all \cup {0} : n <= r
      BY <2>9, <3>1
    <3>3. QED
      BY <1>6, <3>1, <3>2, MaxIs
  <2>11. LastWins(order, [x \in Entities |-> 0], entity, 0, 1..N)[e] = r
    BY <1>2, <1>8, <2>1, <2>4, <2>6 DEF LastWins
  <2>12. QED
    BY <1>4, <2>10, <2>11
<1>9. QED
  BY <1>7, <1>8

\* Batches in line are restored in line.
LEMMA InLineRestores == ASSUME InLine PROVE RestoreIsNewest
<1> SUFFICES ASSUME NEW t \in Targets, NEW order \in ReplayOrders(snaps[t], store[t]), NEW e \in Entities
             PROVE  Restored(Entities, entity, snaps[t], order)[e] = Newest(t, e)
  BY DEF RestoreIsNewest
<1>1. PICK base : base = [x \in Entities |-> 0]
  OBVIOUS
<1>2. PICK N : N = Cardinality(store[t])
  OBVIOUS
<1>3. order \in SetToSeqs(store[t]) /\ SortedByFrom(order)
  BY ReplaysAll
<1>4. /\ N \in Nat /\ DOMAIN order = 1..N
      /\ \A i \in 1..N : order[i] \in store[t]
      /\ \A i, j \in 1..N : i # j => order[i] # order[j]
      /\ \A b \in store[t] : \E i \in 1..N : order[i] = b
  BY <1>2, <1>3, FewBatches, OrderHasAll
<1>5. Restored(Entities, entity, snaps[t], order) = LastWins(order, base, entity, 0, 1..N)
  BY <1>1, <1>4, ReplaysAll
<1>6. LastWins(order, base, entity, 0, 1..N)[e] = Newest(t, e)
  BY <1>1, <1>3, <1>4, LastIsNewest
<1>7. QED
  BY <1>5, <1>6

\* A restore rebuilds the newest version of all a target holds, however its
\* objects are listed (restore.service.ts:311), as long as transactions commit
\* one by one, one cycle runs at a time and nothing worse happens than targets
\* out of reach.  Batches are then shipped in the order of their rows.
THEOREM RestoreRebuildsNewest == ASSUME OneByOne PROVE Spec => []RestoreIsNewest
<1>1. Init => Typed /\ InLine
  BY InitTyped, InitInLine DEF OneByOne
<1>2. Typed /\ InLine /\ [Next]_vars => Typed' /\ InLine'
  BY StepTyped, StepInLine
<1>3. Typed /\ InLine => RestoreIsNewest
  BY InLineRestores
<1>4. QED
  BY <1>1, <1>2, <1>3, PTL DEF Spec
=============================================================================
