# School management system: a TLA+ model

This directory holds a formal model of the backend in `src/apps/backend`
(NestJS, PostgreSQL through Drizzle): TLA+ modules, the TLC configurations that
check them on small instances, and TLAPS proofs of the results that should hold
for every instance. Source references are `path:line` of this repository; paths
without a directory are under `src/apps/backend/src`.

1. [The system](#1-the-system)
2. [Modules](#2-modules)
3. [Runs](#3-runs)
4. [Proofs](#4-proofs)
5. [Known behaviours](#5-known-behaviours)
6. [Not modelled](#6-not-modelled)
7. [Reproducing](#7-reproducing)

## 1. The system

One school runs one backend process over one PostgreSQL database. Nothing in
the process is shared between requests but a few caches, flags and one mutex;
what makes the code hard is that Node interleaves handlers at every `await`,
that PostgreSQL runs their transactions at READ COMMITTED, that connections come
from a bounded pool, and that the cloud backup talks to storage providers that
may be offline, answer late or twice, or stop half way.

| Component | State it keeps | Operations | Talks to | What is hard | What makes it correct |
|---|---|---|---|---|---|
| Invoices and ledger (`financial/payment.service.ts`) | `student_payments` (amount due, paid amount, status), `payment_transactions` | record, refund, correct, cancel, reopen, override status, refresh statuses, generate | receipt numbers, revenue split, settings, audit | check outside, write inside a transaction; a sum that is taken before a row is locked | the stored total is the sum of the ledger; the status is what the total implies |
| Receipt numbers (`receipt-number.service.ts`) | `receipt_counters` | next | every money movement | concurrency, rollback, New Year | unique, gapless in a year, never reused |
| Payroll (`payroll.service.ts`, `payroll-document.service.ts`, `revenue-calculation.service.ts`) | compensations, payouts, documents | pay out, correct, delete, reprint, arrange | receipt numbers, settings, the pool | entitlement read before the payout's transaction; a second connection asked for inside it | papers agree with the payouts before them; nobody waits for ever |
| Financial settings (`financial-settings.service.ts`) | one row and its cache | read, update | payroll, billing | cache filled from an older read | the cached row is the stored one |
| Financial reads, KPI cache (`financial.service.ts`, `analytics.service.ts`, ...) | a cache of aggregates | dashboard, reports | ledger | a fill that spans an invalidation | no figure older than the last movement |
| Capture triggers, sync queue (`cloud-backup/queue`) | `sync_queue` | capture, next batch, mark, requeue, prune | every business write | ids are taken before the commit | no committed write is missing from the stream |
| Sync worker (`cloud-backup/worker/sync-worker.service.ts`) | a flag, a conflict, timers | boot, drain, heartbeat, daily snapshot | queue, targets, registry | overlapping cycles, crash between upload and acknowledgement | what is marked as sent is stored |
| Snapshots (`cloud-backup/worker/snapshot.service.ts`) | objects on the targets | dump, ship | database, targets | the dump and its sequence number are read at different times | a snapshot contains what its number says |
| Storage drivers (`cloud-backup/drivers`) | the provider's objects | put, get, list | providers | refuse, replace or duplicate an existing key; torn writes; lost answers | an object under a key is what was put there |
| Restore (`cloud-backup/restore`) | `restore_progress` | start, apply snapshot, replay, finish, cancel | targets, registry | order of batches, resumption | the rebuilt database is the newest the target holds |
| Instance registry (`cloud-backup/registry`) | one JSON object per target | claim, heartbeat, retire | other machines | read-modify-write by several machines, expiry | two machines do not both ship for long |
| Backup setup, credentials (`cloud-backup/setup`, `credential-store`) | `cloud_state`, `cloud_targets` | set up, verify, edit targets | worker | a second set-up of one school | one key per namespace |
| Timetable (`scheduling`) | rules, exceptions, slots, opening hours, rooms | create, split, save a week, except, end, archive, delete, settings | keyed mutex, groups, students | check then insert; calendar arithmetic | no double booking; the calendar is what was saved |
| Hierarchy (`hierarchy`, `fields`, `levels`, `professors`, `groups`) | levels, fields, professors, groups | create, flag, move, archive, detach, delete, purge | students, ledger | cascades over several tables chosen on an older picture | nothing hangs under an archived or a deleted node |
| Students, enrolments, billing (`students`, invoice generation) | students, assignments, invoices | create, edit, move, delete, bill, renew | invoices, hierarchy | several statements in one request | an active enrolment is billed once a month; who paid is kept |
| Imports, data transfer (`imports`, `data-transfer`) | all tables | import, export | everything | two imports of one roster | no twins |
| Authentication, users, audit, updates, machine binding, attendance, whiteboards, local backup | own tables | single-row writes, subprocesses | | little interleaving | see section 6 |
| Frontend, installer | none the backend relies on | | API | | not modelled |

The hazards of this code, at the lines where they bite, and the properties that
cover them are listed in `PROJECT.json`.

## 2. Modules

| Module | Models | Builds on |
|---|---|---|
| `ReceiptBook` | what the receipt service promises: numbers 1, 2, 3, ... of each year, issued one at a time, never taken back | |
| `PaymentLedger` | the cash desk: every endpoint of `PaymentService` that moves money or changes a status, and `ReceiptNumberService.next`, one action per SQL statement | refines `ReceiptBook` |
| `RestoreReplay` | what a restore rebuilds from one target's snapshots and batches (operators, no state) | |
| `CloudSync` | capture triggers, sync queue, drain cycles, snapshots and targets, one action per awaited call | `RestoreReplay` |
| `Namespace` | several machines over one school's cloud namespace: set-up, registry, the worker's life, the restore job | |
| `KeyedMutex` | `runExclusive` of `common/async-mutex.ts` | |
| `Timetable` | rules, exceptions, slots, hours, rooms and the calendar computed from them | `KeyedMutex` |
| `School` | the hierarchy, students, enrolments, invoice generation, imports | |
| `Payroll` | payouts and their papers, arrangements, settings cache, the revenue engine, the connection pool | |
| `FoldLemmas` | no code: what `SumFunction` of the community modules yields for every finite set, least counterexamples | |
| `*_proofs` | theorems about the module they are named after | `FoldLemmas`, where a sum, a maximum or a fold is involved |
| `MC*` | small instances for TLC | |

How they divide the system: a ledger row in `PaymentLedger` is a request at an
invoice that exists; which invoices exist is `School`'s. `Payroll` takes what
was collected as an input (`Collect`, `Post`) and prices it. `CloudSync` looks
into one worker's queue and objects; `Namespace` takes a batch as the numbers it
holds and looks at who may write it, and at what a resumed restore skips. `PaymentLedger` implements `ReceiptBook` by
`Book == INSTANCE ReceiptBook WITH last <- counter, stubs <- ...`; `CloudSync`
asks, in every state, what a restore from each target would rebuild now.

Two conventions hold everywhere. A handler that reads, decides and then writes
is at least two steps, because another request may run between them; its
transaction is one step where its statements cannot be told apart by the
properties, and one step per statement where they can (`PaymentLedger`,
`Payroll`, the cascades of `School`). A history variable (`stale`, `outdated`) holds the requests whose
reads somebody has written over since: a property that the code gives only to
the request nobody overtook says so, and does not say it of the others. No
action reads it.

### 2.1 PaymentLedger

A *request* is one HTTP call; the ledger row it inserts, if any, is the request
itself, so a set of requests is a set of ledger rows. The stored `paid_amount`
is kept as the set of rows it was summed from (`basis`): "the total equals the
sum of the ledger" then is a statement about rows, and two mistakes whose
amounts happen to cancel do not hide each other.

| State | Code |
|---|---|
| `pc`, `job` | where a handler is between two awaits, and its arguments |
| `number` | the sequence number returned by the counter's upsert |
| `sawStatus`, `sawRows`, `draft` | what `reconcile` read, and the status it is going to write (for a refresh: the statuses it has written and not committed) |
| `posted`, `basis`, `status`, `counter` | the committed tables |
| `counterLock`, `rowLock` | PostgreSQL's row locks |
| `window`, `asOf` | where a due date lies from today (early, inside the due-soon window, past), and from the day a refresh started |

| Action | Code |
|---|---|
| `RecordPayment`, `VetRefund`, `VetCorrection`, `ReadAgain` | the reads and checks before the transaction: `recordTransaction`, `refund`, `correct`, the first half of `appendTransaction`. A refund and a correction read the invoice twice, a payment once |
| `TakeNumber` | the upsert of `receipt_counters`: waits for the counter's row and keeps it |
| `Insert`, `InsertCollides` | the ledger row, with the unique index on `receipt_number`, and `reconcile`'s read of the invoice |
| `SumLedger` | `sum(amount)`: committed rows and its own |
| `WriteInvoice`, `Commit`, `Abort` | the UPDATE (waits for the invoice's row), the commit, and every way to fail |
| `Cancel`, `Reopen`, `UpdateStatus`, then `SetStatus` | a read that decides, one UPDATE by primary key |
| `StartRefresh`, `ExpireSoon`, `MarkSoon`, `UnwindOverdue`, `CommitRefresh` | the three UPDATEs of `refreshStatuses` in one transaction |
| `PassDays` | the calendar |

A multi-row UPDATE of the refresh is one step that waits until all its rows are
free. In PostgreSQL it takes them one by one; a lock cycle between two such
statements is broken by the server's deadlock detector, which is an `Abort`.
Left out: the revenue split stored on the row (see `Payroll`), the last-paid
date, notes, and the audit row written after the commit.

### 2.2 CloudSync and RestoreReplay

A queue row is its sequence number. The content of a business row is the number
of the write that produced it, so comparing versions is comparing numbers.

| State | Code |
|---|---|
| `next`, `entity`, `born`, `status`, `attempts` | `sync_queue`; `open` and `void` are ids of transactions not yet committed, or rolled back |
| `db` | committed business data |
| `syncing`, `pc`, `upload`, `at`, `reached` | each call of `drainOnce` in flight: its place, the object it is shipping, the target it is at, whether one took it |
| `snapPc`, `snap`, `snapAt` | each call of `runSnapshot` in flight |
| `store`, `snaps` | the objects on each target |
| `misreported` | rows of a batch whose put a driver acknowledged, although the target does not hold it whole (history) |
| `day` | the date that is part of every object's key |

| Action | Code |
|---|---|
| `Capture`, `CommitWrite`, `RollBack` | the trigger inserts in the business transaction; the id comes from a sequence |
| `Enter`, `Requeue` | the `syncing` flag is tested, then state and targets are awaited, then the flag is raised and failed rows under the ceiling are requeued |
| `FindNothing`, `Prepare` | `nextBatch`, and the object's key |
| `PutSucceeds`, `PutFails`, `PutUnacknowledged`, `PutTorn`, `PutResent` | one target. What a put does to a key that exists is the driver's (`Kind`): folder and Dropbox refuse, S3 replaces, Drive keeps both, WebDAV drops the library's `false` and acknowledges a put that stored nothing. `withRetry` repeats a put with the stream it was given, which the first attempt has read from: on S3, Drive and WebDAV what ends up stored may be the rest of it |
| `Mark`, `DrainFails` | `markSent` or `markFailed`; a query that throws |
| `StartDump`, `ReadMax`, `ShipSnapshot`, `ShipFails`, `FinishDaily`, `FinishManual` | `runSnapshot`; the daily one prunes |
| `NextDay`, `Crash` | the machine |

Left out: the byte bound of a batch (the row bound stands for both), the
encryption envelope, the manifest and data-export objects, the driver cache. A
target that is unreachable or whose credentials no longer work is `PutFails`.
Claims, heartbeats and the restore's job are `Namespace`'s.

### 2.3 Namespace

An identity is an instance's uuid and the salt made with it: step 1 of the
set-up makes the two together, and a key is known by its salt. There is one
destination, and one hour is the unit of time. A *story* fixes which machines
are live at first, what each machine's people do (work, stop it, set it up,
restore, ...) and what the network may do; the actions do not depend on it
otherwise.

| State | Code |
|---|---|
| `up`, `pc` | the process; the awaited call it is in |
| `row` | `cloud_state`: uuid, salt, `setup_complete` |
| `data`, `pending` | rows of history in the database, the rows not shipped |
| `numbers` | of `sync_queue`: the last number given out, the highest committed one, and the one an open transaction holds |
| `worker`, `conflict`, `cycle` | what the worker loaded at boot and whether its timers run; its `conflict` field; what this hour's drain did |
| `job` | `restore_progress`: state, chosen snapshot, saved position; and for the property `listed`, the batches its replays have listed, and `due`, the rows they had to apply |
| `registry`, `salt`, `batches`, `snapshot` | the objects of the namespace |
| `net` | up, down, or the registry object cannot be downloaded |

| Action | Code |
|---|---|
| `Step1`, `Seed`, `FinishSetup` → `SetupRefused`/`SetupFinished`, `Verify`, `BackupNow` | `setup.service.ts` and the controller: the local row is re-keyed, then `meta/salt.json` and `meta/check.json.enc` are replaced, then the claim, then the first snapshot |
| `Boot` → `BootRefused`/`BootAccepted` | `onApplicationBootstrap`: identity and key are loaded, the namespace is claimed; a refusal leaves the timers unarmed |
| `TimerFires`, `NothingToDrain`, `Drain` → `Heartbeat` | `drainOnce` as others see it: the pending rows go as one batch under its first and last number, with the holes that open transactions leave; and the claim renewed after it |
| `NightlySnapshot` | the snapshot timer |
| `StartRestore`, `ApplySnapshot`, `StartReplay`, `ReplayBatch`, `SaveProgress`, `EndReplay`, `FinishRestore` → `AdoptionRefused`/`Adopted`, `CancelRestore` | `restore.service.ts`: batches whose last number is above the saved position are listed and taken by first number; each is applied in a transaction, without its rows at or below the position the call found; its last number is saved as the position after it |
| `Write`, `Hold` → `EndHeld`, `Stop`, `Tick`, `Network` | the school, a transaction that has its number long before it commits or rolls back, the machine, the clock, the provider |

A claim is two steps (`→`): `claim()` reads the registry object, and what it
writes back is that copy with its own record renewed, whatever came between.

### 2.4 KeyedMutex and Timetable

| State of `KeyedMutex` | Code |
|---|---|
| `tails` | the Map of the last promise of each key |
| `key`, `ahead` | a caller's key, and `previous`, the promise it waits for |
| `turn`, `ticket` | where a caller is; the order of arrival (history) |

`Arrive`, `Admit`, `Leave` are the three parts of `runExclusive`: join the
chain, resume when `previous` has settled, settle one's own promise and delete
the key if nobody joined behind.

| State of `Timetable` | Code |
|---|---|
| `table`, `overrides` | `schedule_entries` (weekly rules with a first and a last date), `schedule_entry_exceptions` |
| `slots`, `hours`, `rooms` | `time_slots`, `working_hours`, `classrooms` |
| `stage`, `job`, `plan` | a request: where it is, what it asks, what it has decided to write |

| Action | Code |
|---|---|
| `Ask`, `Enter`, `Return` | creating and splitting a rule run under the mutex, with the key the handler builds (`LockOf`) |
| `VetCreate`, `WriteCreate` | `create`: hours, conflicts, `findOrCreate` of a slot; then the insert |
| `VetSplit`, `WriteClone`, `WritePatch` | `splitSeries`: "this and following" cuts the rule and continues it in a copy, or edits it whole where it starts |
| `VetSync`, `WriteSync` | the weekly builder's save: the stored sessions of a group are diffed against the submitted ones, any number of them new; each new one is checked against the stored rules, none against another new one |
| `VetException`, `WriteException`, `RemoveException` | cancel, move or reassign one date's session |
| `EndSeries`, `Update`, `Archive`, `Remove` | the other writes on a rule |
| `SetHours`, `EditSlot`, `RemoveSlot`, `RemoveRoom` | settings, with the foreign keys that refuse |

The rules a request inserts are named after it, those of a weekly save after the
request and their tile (`Ids`). The calendar is operators: `Strides` walks a rule's dates week by week as
`occurrence.service.ts` does, `Session` applies the exception of the date,
`CountOccurrences` is the dashboard's closed form, summed over the rules. Three numberings of the days
of a week (JavaScript's, ISO's, the school's) are translated as they are in
`date.util.ts`.

### 2.5 School

A level, field, professor or group is a *node*; the database names a new row, so
rows are drawn from a pool of unused ids. A ledger row is one instalment of an
invoice, so an invoice's total is a number of rows.

| State | Code |
|---|---|
| `node` | `levels`, `fields`, `professors`, `groups`: parent, active flag, `is_system_placeholder`, name |
| `pupil` | `students` and `student_assignments`: first group, date, status, and the fee of each enrolment |
| `invoice`, `ledger` | `student_payments`, `payment_transactions` with the professor they name |
| `stage`, `job`, `plan` | a request |

| Action | Code |
|---|---|
| `CreateLevel` ... `CreateGroup`, `AddPen`, `FlagLevel` ... `FlagGroup`, `MoveField` | the four services; creating a group adds its placeholder student |
| `Vet` → `Scan` → `ArchiveCascade`, `DeleteCascade`; `PurgeLevel` ... `PurgeGroup` → `Scan` → `HardDelete` | `hierarchy-delete.service.ts`, `hard-delete.ts`: the check, then the transaction, one `Scan` for the SELECT of each table below, then its updates (or deletes) of the rows found, and the commit |
| `VetDetach` → `FindChildren` → `Reassign`, `Park` → `Detach` | delete this only: the check, the SELECT of the children, for each target the check that it is active or the making of a parking place (on a connection of its own), then the updates and the commit |
| `Enrol`, `UpdateEnrolments` → `UpdateRow`, `Amend`, `VetMove` → `Move`, `VetRemove` → `Remove` | `students.service.ts`; an edit writes the enrolments in a transaction and the student's row after it |
| `ReadRenewal`, `ReadStudent`, `AskBill` → `WriteBills` | invoice generation: one month, a renewal with backfill, one student |
| `Pay` | a movement of money, as far as the tree sees it |
| `VetImport` → `Import` | `imports.service.ts` |

`Legal` are the foreign keys and their ON DELETE rules: a transaction that
breaks one is taken back whole (`Commit`). The statements of a transaction see
what others have committed before each of them (READ COMMITTED); what it writes
itself shows when it commits. Row locks are not modelled: in PostgreSQL a write to
a row that a running transaction has updated waits for its end, here it may also
come first, which is the order of a transaction that began later.

### 2.6 Payroll

Everything is about one month and one calendar year. A request that pays a
professor is also the `payroll_payments` row it inserts.

| State | Code |
|---|---|
| `pc`, `job`, `draft` | a request, what it asks, what its transaction has read or taken |
| `settings`, `cached` | `financial_settings` and the service's cached row |
| `override` | `professor_compensations` |
| `takings`, `roster` | the month's collections of each professor (net amount, credited share), active groups and students |
| `payout`, `papers`, `counter` | `payroll_payments`, `payroll_documents` in pairs, `receipt_counters` of the two scopes |

| Action | Code |
|---|---|
| `VetPayout` | `recordPayment` before its transaction: what is owed is compared with the amount |
| `Begin`, `TakeReceipt`, `CountPaid`, `Price`, `TakeSettlement`, `Commit` | its transaction: a connection, the payroll number, `settlementForPeriod` on the transaction's connection, `periodEntitlement` on *another* connection of the pool, the settlement number, the papers |
| `AskReprint` | `regenerate`, through the same steps without a payroll number |
| `Abort`, `Starve` | a failure; `connectionTimeoutMillis` |
| `AskAmend`/`Amend`, `AskRemove`/`Remove` | `updatePayment`, `removePayment` |
| `AskRule`/`SetRule`, `AskDrop`/`DropRule` | arrangements of one professor |
| `UpdateSettings`, `CacheSettings` | the UPDATE and the assignment of the cache after it |
| `Collect`, `Post`, `Reseat` | a collection's split (rule read, row posted later), changes of the roster |

`ShareOf`, `FixedComponent`, `FromCollections`, `Earned` are the revenue engine
for all six compensation models, rounding included (`PercentOf`). One custom
formula stands for all: the parser is not modelled.

## 3. Runs

| Run | Instance | Checks |
|---|---|---|
| `serial` | 2 requests, 2 invoices of 2 units, 1 year; payment, refund, cancel, refresh; fair | `PaidIsLedgerSum`, `StatusMatchesTotal`, `EveryRequestEnds` |
| `years` | 3 requests, 1 invoice, 2 years, every endpoint, a format without `{YYYY}` | `TypeOK`, `ReceiptsGapless`, `NothingUncommittedCounted`, `IssuesLikeABook` (the refinement) |
| `corrections` | 3 requests, 1 invoice; payment, correction | violates `PaidIsLedgerSum` |
| `prune` | 2 overlapping cycles, 1 snapshot, 3 rows, two of them open at once, a WebDAV target, every fault | `TypeOK`, `SentIsStored` |
| `replay` | 1 cycle, 3 rows of 2 entities, a folder and an S3 bucket, 2 days, offline targets; fair | `RestoreIsNewest`, `SentIsStored`, `EveryRowSettles` |
| `order` | 3 rows of 2 entities, two transactions open at once, no fault | violates `RestoreIsNewest` |
| `namespace` | 2 machines, 3 identities, claims that lapse after 2 hours, up to 3 rows, six stories; fair | `TypeOK`, `ResumeMissesNothing`, `SplitIsNoticed`, `DeadMachineUnblocks` |
| `timetable` | 2 requests of any kind, 2 rules, two weeks of 3 days, 1 room, 2 professors, 2 groups that share a student; saves of up to 2 overlapping tiles | `TypeOK`, `TakesTurns`, `SplitOnce`, `CountIsLength`, `AddedRuleFitsIn`, `SaveMatchesSubmission`, `ReassignedAreFree` |
| `booking` | the same; two creations | violates `RoomHeldOnce` |
| `school` | 2 requests of any kind, every SELECT and every transaction's end a step, 2 levels, 2 fields, 2 professors, 2 groups, 2 students and as many unused rows, 3 months | `TypeOK`, `HomeIsEnrolled`, `ArchiveTakesSubtree`, `DetachKeepsEverybody`, `RenewalIsComplete`, `PaidStudentKept`, `ImportAddsNoTwin` |
| `purge` | the same school; a detach and a purge | violates `TotalsMatchLedger` |
| `payroll` | 3 requests, 1 professor, a pool of 2 connections, every endpoint; fair | `TypeOK`, `NumbersOnce`, `EarlierIsCounted`, `PaidWithinEarned`, `EveryRequestEnds` |

What each property says, and the comment or document of the repository it
comes from, stands above it in its module.

### Bounds, and why they are enough

*Ledger.* A race on one invoice needs two movements; a third request (`years`)
sees its result. An invoice of two units can be unpaid, half paid and settled;
two invoices are what a refresh and a payment need to wait for one another; two
years are what a counter needs to restart.

*Backup.* A queue race needs two cycles, and three rows of which one commits late
are what two cycles need to put different batches under one key; an order race
needs the same three. `prune` has the one kind of target whose driver acknowledges
what it did not store, does not follow a third object on the target or a row's
second failure (`Few`), and leaves out of the fingerprint what a snapshot
contains and what rows are about, which nothing there reads (`View_NoSnapshots`); S3 and the folder are in
`replay`, the other kinds rest on the theorems. `MaxAttempts` 2 stands for 10, `Retention` 1 day
for 30, `MaxDay` 2 allows midnight inside a cycle. `MaxSeq`, `MaxOpen`, `MaxDay`
bound the model, not the code.

*Namespace.* Two machines are what a conflict needs; three identities let one of
them be set up again. An age of two hours is "lapsed". The stories are: two live
machines over a network that fails or hides the registry; a second set-up of a
live school; a restore on a machine that may be switched off at any point while
the old one works; the same over a failing network; the same with transactions of
the old machine that commit late, so that a batch [1-3] without row 2 is listed
beside [2-2]; and a dead machine with an outage, a restore and a set-up. Three
rows are what such a hole needs. Each story is small so that their sum is complete;
they share one state space because the constants are the same. A batch is all that
is pending: limits of rows and bytes only cut it where an earlier drain could have.

*Timetable.* One rule meets another on the same weekday and one starts later
than it, so that a split, an end date and a late start all matter. Three hours
give windows that touch, overlap and are equal. A week of three days keeps the
three day numberings apart. The second week is there for what a first occurrence
hides (`FirstOn` and the count after it). The weekly builder offers two tiles
that overlap in the one room, so that a save may add none, one or both.

*School.* Two of each kind and as many fresh rows, so that every operation has a
right and a wrong target, a parking place can be made at each layer, and an
import can find or create. Two requests are what it takes to write between two
statements of a cascade. Three months let an invoice be in the past, now, and
ahead; `MaxBackfill` 1 stands for 24 and cuts.

*Payroll.* A pool of two is the smallest in which two payouts can hold every
connection and each ask for one more. The default arrangement is a percentage;
a hybrid and a rate per student can replace it. With two connections no two
transactions get past the pricing together, so the run never sees the settlement
counter contended: that half of `NumbersOnce` rests on the theorem
`NumbersNameOne`, which holds for every size of the pool.

Symmetry is used where a run checks safety only: requests and invoices in
`years` and `corrections`, callers in `timetable`, `school` and `purge`, drains
in `prune`. The due amounts are equal, so invoices are interchangeable. Action
properties under symmetry are all of the form `[][A]_vars` with `A` itself
symmetric. The modules that serve requests let a system whose requests were all
served stutter (`Closed`), so that TLC's deadlock check means "a request is
stuck"; the others never stop.

### Fairness

`PaymentLedger!FairSpec` and `Payroll!FairSpec` give every request weak fairness
on its own next step: Node resumes a handler whose awaited call has returned,
PostgreSQL grants a lock that is free, the pool's timer runs. Arrivals, aborts
and the calendar are not fair. Weak fairness is enough because a waiting
request's lock, once free, stays free unless another request takes it, and each
request takes a lock once. In `Payroll` the pool's time-out (`Starve`) is part of
the step: without it two payouts wait for each other's connection for ever.

`CloudSync!FairSpec` gives each drain weak fairness on the worker's own calls:
`scheduleDrain` re-arms its timer in `finally`. Faults and commits are not fair;
`dbError` and `crash` are absent from the fair run, since a database that fails
in every cycle ships nothing.

`Namespace!FairSpec` gives each machine weak fairness on what it does by itself
(a call that was made returns or fails, a timer fires) and strong fairness to the
clock: an hour passes only between calls, and calls come again and again. What
people do, power cuts and the network are not fair.

### What the failing runs show

Each states what a comment or document says, and fails by what the code does.

* `corrections`. "There is no path ... that can leave the invoice disagreeing
  with its own history" (`financial/payment.service.ts:177-182`). `reconcile`
  sums, then waits for the row and writes what it had summed. Two movements that
  both take a receipt are serialised earlier, by the counter's row, and this is
  what `serial` and the theorem `SerialLedger` rely on; a correction takes none.
* `purge`. The same sentence, another path: `hardDeleteHierarchy` deletes every
  ledger row that names the purged professor (`hierarchy/hard-delete.ts:105`),
  also those of groups that were handed to a colleague before, whose invoices
  stay.
* `booking`. "Two requests interleaved between the two would both pass and
  double-book the room" is what the mutex is for
  (`scheduling/schedule-entries/schedule-entry.service.ts:174-176`). Its key is
  slot, room, professor, group and start together, so two groups that want one
  room do not exclude one another.
* `order`. The replay sorts batches by first sequence number
  (`cloud-backup/restore/restore.service.ts:336`). A row that commits late is
  shipped after rows with higher numbers, and an entity may be left with an older
  version.

## 4. Proofs

All theorems hold for every value of the constants that satisfies the named
assumptions of the modules (`DueAssumption`, `PoolAssumption`, ...).

| Theorem | States | By the invariant |
|---|---|---|
| `PaymentLedger_proofs!TypeCorrect` | `[]TypeOK` | `Typed`: with `JobFits`, a request that is moving money has a movement for a job |
| `UniqueReceipts`, `GaplessReceipts` | `[]ReceiptsUnique`, `[]ReceiptsGapless` | `Numbering` |
| `LedgerIsABook` | `Spec => Book!Spec` | `Numbering`: a `Commit` of a receipted movement is one `Issue`, every other step stutters |
| `OnlyCommittedCounted` | `[]NothingUncommittedCounted` | `Counted` |
| `SerialLedger` | `[]PaidIsLedgerSum`, if corrections are not in use and there is one year (`OneCounter`) | `SumsFresh`: mutual exclusion by the counter's row |
| `SerialBadges` | `[]StatusMatchesTotal`, if moreover nobody reopens an invoice or overrides its status (`NoOverride`) | `Badge`: what a movement is about to write is what the ledger will imply |
| `CloudSync_proofs!TypeCorrect` | `[]TypeOK` | `Typed` |
| `ShippedIsStored` | `[]SentIsStored`, if no target replaces objects (`NoReplacing`) | `Shipping` |
| `ShippedIsStoredAnywhere` | `[]SentIsStored`, if cycles do not overlap (`OneCycle`), whatever the targets do | `Lasting`: a batch that counts begins with a shipped row, one that is put with a pending row |
| `HonestDriversShip` | every shipped row is stored, without the exception of `misreported`, if drivers answer only for what they stored (`HonestDrivers`), under either condition above | `misreported` stays empty |
| `RestoreRebuildsNewest` | `[]RestoreIsNewest`, if cycles do not overlap, transactions commit one by one, and nothing worse happens than targets out of reach (`OneByOne`) | `InLine`: batches are shipped in the order of their rows |
| `KeyedMutex_proofs!TurnsAreTaken` | `[]TakesTurns` of the mutex | `MutexInv` |
| `Timetable_proofs!TimetableTakesTurns` | `[]TakesTurns` of the timetable | every step of the timetable is a step of the mutex or leaves it alone |
| `TypeCorrect`, `SplitsOnce` | `[]TypeOK`, `[]SplitOnce` | the timetable's `Orderly` (`TimetableIsInOrder`) |
| `AddedRulesFitIn`, `SavesMatchSubmissions`, `ReassignmentsAreFree` | `AddedRuleFitsIn`, `SaveMatchesSubmission` (of saves of any number of tiles), `ReassignedAreFree` | `Orderly`: its `StillSo`, what a request checked is so until somebody else writes |
| `CountsAreLengths` | `[]CountIsLength`, if the rows of rules are finitely many | types and slots of `Orderly`, `UnionCounts` |
| `Namespace_proofs!TypeCorrect` | `[]TypeOK` | with `Keyed`: a row or worker that has a salt has an identity, and who claims has loaded both |
| `Namespace_proofs!ResumesSafely` | `[]ResumeMissesNothing` | `Resuming` |
| `Payroll_proofs!TypeCorrect` | `[]TypeOK`, the pool's bound included | `Typed` |
| `Payroll_proofs!NumbersNameOne` | `[]NumbersOnce` | `Numbering` |
| `Payroll_proofs!PapersCountEarlier` | `[]EarlierIsCounted` | `Counting` |
| `Payroll_proofs!OverpaymentRefused` | `PaidWithinEarned` | `Covered`: amount and payments are within what is earned until somebody overtakes |
| `School_proofs!TypeCorrect`, `HomesAreEnrolled` | `[]TypeOK`, `[]HomeIsEnrolled` | the school's `IInv` (`SchoolIsInOrder`) |
| `School_proofs!ArchivesWhole`, `DetachesKeepEverybody` | `ArchiveTakesSubtree`, `DetachKeepsEverybody`, both of requests nobody overtook | `IInv`: its `ArchiveWell` and `DetachWell`, what the statements so far have found is all there is until somebody else writes |
| `School_proofs!RenewalsComplete`, `PaidStudentsAreKept`, `ImportsAddNoTwin` | `RenewalIsComplete`, `PaidStudentKept`, `ImportAddsNoTwin` | `IInv`: its `ReadWell`, a request nobody overtook still has in hand what it would read now |
| `FoldLemmas!SumInsert`, `UnionCounts` | a sum over one element more; the size of a disjoint union | |

*Numbering (ledger).* `ReceiptsGapless` is not inductive: it says nothing of the
numbers in flight. `Numbering` adds that a request which carries a number holds
the row of its year's counter and carries exactly the next one (`Held`), that
posted numbers are within the counter (`Within`) and fill it (`Filled`). Only
`Commit` changes the book, and it is the holder's.

*Serial ledger.* A sum is fresh (`SumsFresh`) as long as nobody else commits to
the invoice. Under `OneCounter` every request between its sum and its commit
holds the one counter row, so there is one such request.

*Badges.* The movements and the refresh meet on the status. What a movement
drafts is right because of `SumsFresh`, the same counter's row; the refresh
relabels unpaid invoices only, and holds their rows until it commits, so that no
movement of such an invoice gets past `WriteInvoice` in between. `Badge` says so of
every status on its way to the table: the draft of a movement, what a refresh has
relabelled, and what a cancellation is going to set. A reopening or an override
sets a status that was decided on an older total (section 5), hence `NoOverride`.
The argument never evaluates a total: it compares the totals of equal sets of rows.

*Shipping.* `SentIsStored` is not inductive: a cycle marks rows because of what
it remembers. `Shipping` adds that `reached` implies a whole object with the
rows on some target, or that a driver said so (`ReachedKept`), and that a cycle
that is not uploading remembers nothing (`Fresh`). Without replacing targets the
stores only grow. What the worker cannot know is whether the driver spoke the
truth: `misreported` are the rows for which it did not, and `HonestDriversShip`
shows that it is empty without a WebDAV target and without repeated puts.

*One cycle.* Only a cycle marks rows or puts failed ones back, so while there is
one the rows it is shipping stay pending until it marks them (`StaysInOrder`), and
none of them was sent before. Two overlapping cycles ship the same rows: one marks
them as sent, the other, whose targets were out of reach, as failed. `drainOnce`
tests its flag, awaits the state and the targets, and only then raises it, so
`OneCycle` is a condition on its callers (the timer alone, no verification at the
same moment), not something the flag enforces.

Under the same condition nothing is lost on a target that replaces objects
(`ShippedIsStoredAnywhere`). Two objects of one key begin with the same row. The
row the new one begins with is pending while it is put, and every batch a shipped
row is counted in (`Held`) begins with a row that was shipped before, so a put never
replaces one of those.

*Restore.* A restore sorts batches by their first number and lets the last row of
an entity win. That is the newest row if no two batches of a target overlap.
`InLine` says why they do not: a batch, when it is picked and from then on, lies
before every row that can still be shipped (`Past`), since the oldest pending rows
are taken and the failed ones that count were put back just before (`Requeued`); rows
that are not committed yet have higher numbers only if transactions commit in the
order of their numbers, hence one open transaction. What a target holds is before
all that is left, or is the object under way (`Delivered`), so whatever is put is
after all that is there (`Lined`). The replay itself is a fold over an arbitrary
listing; `ReplayIs` shows by the least counterexample among the sets of positions
that it yields, for each entity, the greatest row of the last batch that has any.
Outside `OneByOne` the property fails (`order`), and with snapshots, crashes or lost
answers it is neither stated nor checked: section 5 lists what happens then.

*Mutex.* `TakesTurns` speaks of who is inside. The invariant says what the chain
of promises looks like: the last in line is the tail, everybody waits for
somebody of the same key who came one place before, and nobody waits for one who
has left. Who has no predecessor is alone in front.

*Timetable.* `Orderly` gathers what is true in every state: types, the mutex's
invariant, slots that differ and rules whose slot exists (`SlotsInOrder`), one
exception a date (`OnePerDate`), shapes of plans (`Planned`), and `StillSo`: a
request that has checked, and that nobody overtook, could check again with the
same result. It is kept because every write marks all others as stale, and because
the writes that do not (arrivals, refusals) change no table but add slots, on
which no check depends. A save may look for any number of slots: each window that
has none gets a row of its own, since there are enough (`EnoughRows`, by counting)
and the choice is an injection (`RowsFound`). The three action properties are `StillSo` in the state
before the step, and the meaning of the write. `AddedRulesFitIn` does not say that
the rules of one save fit in with each other: they may not (section 5). `SplitsOnce` needs a second strand,
`SecondSeesFirst`: while one split is all that was written, its rule ends where it
was cut, and a second request that has been vetted has read that end or changes
it. The proof showed that the property as it stood before was too strong: a third
request may lengthen the rule again between two splits of it, and the instance has
two requests only. `SplitOnce` now says so.

*Counts.* `Strides` is an arithmetic progression up to a bound, whose size
`DaysReached` gives by an explicit bijection; the closed form's division is that
size (`RuleCounted`). Sessions of different rules differ, so the calendar is a
disjoint union and `UnionCounts` adds the sizes up (`CountsTheCalendar`).

*Resuming.* The saved position is only moved after the batch it names was
applied, but the statement needs every *listed* batch below it. `Resuming` adds
what a running replay has still to do: each row it had to apply is in the database,
or stepped over, or in `todo`, where no batch begins before the one just applied. A
row of such a batch at or below the new position then lies inside the range of the
batch just applied, which either holds it, or steps over it: that is where the
exception in `ResumeMissesNothing` comes from, and why there is no other.

*Payroll.* `IInv` is `Typed`, `Numbering` and `Counting` together. `Numbering`:
who carries a payroll or settlement number holds that counter, and all numbers on
record are within the counters. `Counting`: a payout that has summed the month
has counted every payout on record for its professor, and goes on to have
counted them until it commits, because it took the payroll counter before it
summed and keeps it; a reprint does not take it, but the payout it reprints was
on record before it summed, and so was every one with a smaller number. A fourth
part, `Covered`, is for `OverpaymentRefused`: as long as a payout is under way and
nobody has written anything its check read, its amount and what was paid in the
month stay within what was earned. The commit moves the amount from the one to the
other (`OneMoreAdds`, by `SumInsert`).

*School.* `IInv` has four parts. `Requests`: the control state has its shape.
`Rows`: every row is typed and hangs from a row of the table above, and homes,
enrolments, invoices and ledger rows lead to rows that exist; this needs the
database to start that way (`FirstAssumption`), ids of different tables to differ
(`TablesAssumption`) and a missing row to be told from a row (`NullAssumption`).
`ReadWell`: what a request carries from its reads to its writes is of the right
kind, and equal to what the database says now unless the request is `stale`. For
the cascades, which read in several statements, it says how far they have come: an
archive has found every row that hangs from what it found, in the tables it has
searched (`Gathered`), and a detachment holds all children of its node, each placed
one with a target that still takes it (`Knows`).
`HomeIsEnrolled` itself. A commit is treated once: what it writes must be typed,
and the foreign keys (`Legal`) and their cascades give back `Rows`. The action
properties follow from `IInv` in the state before the step. The theorems
hold for any number of requests, rows, names and months. That nobody overtook the
request is needed by all of them but the first two, and the code does not see to it
(section 5). The condition of `DetachKeepsEverybody` on the plan, which must not send
children back to the node, came out of its proof.

*Sums and folds.* The library's induction theorems cannot be used with the
installed provers, so the three places that compute over data argue by the least
counterexample: if a claim about finite sets fails, it fails for a set of least
size (`HasSmallest`, from the well-foundedness of the natural numbers), and there
the step of the fold refutes it. This gives that `SumFunction` does not depend on
the order it picks in (`SumInsert`), that a disjoint union has the sum of the sizes
(`UnionCounts`), and what a replay computes (`ReplayIs`). The operators that are
proved about are therefore written with `SumFunction` and `FoldLeft`: `Total` of the
ledger, `PaidTo` of the payroll, `CountOccurrences` of the timetable, `Restored`.

Assumptions on constants that the proofs asked for, and their reason:

* `MaxDay` is at least 1 (`CloudSync`): the first day is day 1.
* The stored slots differ, the rules at first have a slot that exists, a window that
  is no window is none of the windows, and there is always a free row for a new slot
  (`Timetable`): the unique index, the foreign key, and an identity column that
  does not run out.
* `CountsAreLengths` wants finitely many rows of rules; a table has.

Only model-checked, with the reason:

* All liveness: `EveryRequestEnds` (twice), `EveryRowSettles`, `SplitIsNoticed`,
  `DeadMachineUnblocks`. ENABLED and fairness are out of the prover's reach.

Every safety property of the passing runs is the statement of a theorem. The
hypotheses that some of them have (`OneCounter`, `NoOverride`, `NoReplacing`,
`OneCycle`, `OneByOne`) are met by the runs that check the property (`serial`,
`prune`, `replay`); section 5 and the runs `corrections` and `order` say what the
code does without them.

## 5. Known behaviours

Found while the modules were written, faithful in the models, and not stated as
properties: no document promises otherwise, or the properties say exactly what
is left of the promise.

Money:

* Two collections of a whole outstanding balance both pass, since the balance is
  read before the transaction (`financial/payment.service.ts:816`).
* A cancellation, a reopening or an override decides on a row it no longer looks
  at when it writes it (`:1007`): an invoice paid meanwhile may end cancelled.
* The audit row of a movement is written after its commit; the one of a payout's
  papers before its commit, on a connection of its own. Either can be lost or
  speak of what rolled back.
* Two payouts that overlap may exceed what is owed (`payroll.service.ts:453-460`);
  correcting a payout compares the new amount with nothing, and the papers keep
  the old one until they are reprinted. Payouts dated in different years use
  different counters, so their papers may miss one another.
* A settlement reads the arrangement twice and what was earned and paid on
  different connections: a change between the reads shows on the paper.
* A refund under a fixed arrangement or after a change of rate does not take
  back the share that was credited, and the shares may then exceed the takings.
* Two updates of the financial settings whose answers cross leave the older row
  in the cache, and so does a first read that ends after an update.
* A KPI that is computed across an invalidation is cached after it for up to 60
  seconds (`financial.service.ts:56`).

School:

* Archiving a *field* with everything below is always refused: the reason row
  writes the field's id into a column that refers to levels
  (`hierarchy/hierarchy-delete.service.ts:228`, `db/schema.ts:113-117`).
* Deleting a group made in the interface with everything below is refused: its
  placeholder student still names it as first group.
* A parking place is made outside the transaction and stays when the detach is
  refused. Students of archived groups are still billed. A renewal backdates the
  fees of a group that was joined recently. A move sets the fee to zero.
* Detaching a field, professor or group accepts the detached row itself as the
  place its children go to, since it is still active when it is looked up
  (`hierarchy/hierarchy-delete.service.ts:469`); only a level is refused (`:449`).
  The children are then under an archived parent. A parking place that was restored,
  and is archived again while it is being detached, is its own parking place.
* The cascades select table by table and update what they found, by id
  (`hierarchy/hierarchy-delete.service.ts:200-264`). A field, professor or group that
  is added, moved or restored under the node after its table was searched stays
  active below an archived parent. A detachment loses a race in the same way
  (`:438-530`): a child added after the children were looked up stays behind under the
  detached node, and a target archived after it was looked at takes them all the same.
  `ArchiveTakesSubtree` and `DetachKeepsEverybody` therefore speak of requests that
  nobody overtook.
* `deleteImpact` counts a student of two groups twice, and one level for a field.
* An edit of a student is torn when its second statement is refused or
  overtaken: the first group may then be one the student is not enrolled in.
* A payment taken between the check and the delete goes with the student. Two
  imports of one roster at once add every student twice.
* Two activations of a hierarchy configuration at once may leave two active.

Timetable:

* A weekly save checks each new session against the stored rules, and not against
  its other new ones (`scheduling/group-schedule/group-schedule.service.ts:144-162`): one
  save with two overlapping sessions in one room is accepted, although nobody overtook
  it, where the comment at `:164-172` says that a room cannot hold two classes at
  once. The unique indexes refuse only the same slot. The state is reached in the run
  `timetable`; `AddedRuleFitsIn` compares the new sessions with all others only.
* Two requests that check before either has written may both be accepted and
  clash: two saves, a save and a creation, two exceptions, two creations (`booking`).
  The properties on added rules and exceptions except whom somebody overtook.
* A session that is moved to another date is checked against the room or
  professor the request names, never its own
  (`scheduling/entry-exceptions/entry-exception.service.ts:90`).
* Editing a slot moves every rule on it, unchecked. Ending a series after its end
  date extends it.

Backup:

* The number of a snapshot is read after the dump, and one is added
  (`cloud-backup/worker/snapshot.service.ts:150`): a write between the two counts
  as covered, and the next row is skipped by a replay. Pruning does not look at
  the snapshot's results.
* WebDAV's `putFileContents` answers a key that exists with `false`, which the
  driver drops (`drivers/webdav.driver.ts:150-160`), where "a collision means a key
  was reused, which must fail loudly" (`drivers/storage-driver.ts:39-40`). The put
  counts as done; if the object under that key is torn, or another batch, the rows
  of this one are marked as sent and are nowhere.
* `withRetry` repeats a put with the stream it was given
  (`drivers/s3.driver.ts:137`, `gdrive.driver.ts:198`, `webdav.driver.ts:150`). What
  a provider answers to the rest of a stream is up to it (S3 is told the length and
  may refuse); if it takes it, the batch is truncated and counts as sent. A Drive
  that took both attempts lists two files of one name. Snapshots are uploaded the
  same way; that a snapshot is truncated is not modelled.
* A restore loses rows that committed late. Batches are kept or skipped by their last
  number, rows by their own, and the saved position is the last number of the batch
  applied last (`restore/restore.service.ts:333`, `:361`, `:368`). Of [1-3], without row
  2, and [2-2] the first is applied first; a replay that stops there and is resumed
  skips [2-2] for good, where the comment at `:343-349` says that nothing partial is
  behind a batch boundary. In the same way a resumed replay skips row 2 of [2-4], and
  any replay skips a row below the snapshot's number that was not yet committed when
  the snapshot was taken. `ResumeMissesNothing` excepts the rows another batch steps
  over, and speaks of rows above the position a replay starts from.
* A batch counts as sent when one target took it; another has a hole until its
  next snapshot. Rows at the attempt ceiling stay behind while later ones are
  shipped.
* Two overlapping cycles ship the same rows, and one may mark as failed, and ship
  again, what the other has sent. They may also build different batches with the
  same key, and S3 keeps one of them (why `ShippedIsStored` excludes replacing targets and
  `ShippedIsStoredAnywhere` overlapping cycles). After a
  crash rows are shipped again in a longer batch with the same first number, and
  the order of the two is the provider's; a folder that already holds the object
  refuses it until the rows are given up.
* A drain of an empty queue returns before the heartbeat
  (`worker/sync-worker.service.ts:351`, against BACKUP.md:37): a quiet machine's
  claim lapses. `SplitIsNoticed` therefore speaks of machines with rows to ship.
* A conflict a running worker meets stops its cycles before the heartbeat that
  would clear it, until it restarts (`:338`). A refused claim is still written,
  and then pauses the machine that refused it.
* `finishRestore` claims under a new uuid at each attempt, so its own refused
  attempts block it for three hours.
* A registry object that cannot be downloaded is taken for one that does not
  exist, and the next claim erases the others' records
  (`registry/instance-registry.service.ts:75`).
* `backup/now` and the nightly snapshot do not look at the conflict. A machine
  that boots offline starts its timers without a claim.
* Step 1 on a second machine of the same school, or a confirmed second set-up,
  replaces salt and check before the claim of the last step can refuse; the
  running worker keeps shipping with the old key until it restarts
  (`setup/setup.service.ts:143`, `sync-worker.service.ts:299`).
* A restore finished without a snapshot leaves no salt in `cloud_state`, so the
  worker never starts. `assertDbIsFresh` checks `setup_complete` and not the data
  (`restore/restore.service.ts:88`, against BACKUP.md:201): once a snapshot is
  loaded it brings the flag with it, and every later step of the restore is
  refused. A dump is plain SQL, so applying it onto tables that exist stops at
  the first CREATE. `retire` is called from nowhere.

## 6. Not modelled

| Part | Why |
|---|---|
| Object codec, compression, encryption, key derivation, phrase words | functions on bytes with unit tests; the models keep which key opens what |
| Financial reads, KPIs, reports, exports, receipts and documents | aggregations and rendering of committed rows; a cache with a time limit serves only them |
| The formula parser | a pure function with unit tests; one custom formula stands for all in `Payroll` |
| Workbook parsing, data transfer, attendance print and export | file input and output |
| Local backup, updates, machine binding | subprocesses, downloads and one file; nothing runs against them |
| Authentication, users | one account, signed tokens, single-row reads and writes |
| Audit trail | rows appended by every component and read only by its own page |
| Attendance sheets, whiteboards, system settings, hierarchy naming | single-row writes that nothing else decides on |
| OAuth, target records, credential wrapping | records the drivers read; a driver that cannot log in is an unreachable target |
| Search, tree and impact reads of the hierarchy | reads |
| Frontend | React screens over the API; they keep no state the backend relies on |
| Installer | packaging and service scripts |

## 7. Reproducing

    tlc -workers 2 -config MCPaymentLedger_serial.cfg MCPaymentLedger
    tlapm PaymentLedger_proofs.tla

and likewise for the other runs (`MC<module>_<run>.cfg`) and proof modules. The
longest runs, `namespace`, `payroll` and `school`, take under three minutes on two cores;
the longest proofs, `School_proofs` and `Timetable_proofs`, some minutes each from
nothing.
