# ClearWage: specifications, model checking and proofs

ClearWage is a wage and attendance system for small workshops: a Go server
(`src/server`, chi routes, controllers, services, a goqu repository over PostgreSQL), a
Flutter app for owners, supervisors and workers (`src/app`), and a web front end.
These modules specify the parts that decide what somebody is paid, what is kept when
a step fails, who may change it, and what people are shown and told: the attendance
register, the finalization of a month, the ledger, advances, leaves, the staff record
and the cached reads over it, documents and their files, registration and access, the
rate limiter, disputes and notifications, and the two queues in which the app keeps its
writes while it is offline.

All paths below are relative to the repository. `goqu.go` is
`src/server/repositories/goqu.go`.

## 1. The system

| Component | State it keeps | Operations that change it | What must hold |
|---|---|---|---|
| **Attendance** (`attendance_controller.go`, `attendance_service.go`, `goqu.go`) | one row per employee and day: status, version, `is_locked` | `POST /attendance`, `POST /attendance/bulk`, `PUT /attendance/{id}`, `POST /attendance/lock`, `MarkPaidLeave` | locked rows never change; a stale edit is detected |
| **Holidays** (`holiday_service.go`) | holidays, weekly offs | `POST`, `DELETE /holidays` | read by `IsHoliday` before a mark |
| **Payroll** (`payroll_service.go`, `payroll_controller.go`) | none of its own: wages in the ledger, `is_locked` in the register | `POST /payroll/lock` | wages and locks of a run appear together or not at all; what was counted is frozen; runs that wait for each other end |
| **Ledger** (`ledger_controller.go`, `goqu.go`) | entries: kind, amount, version, client id | create (online, or queued and replayed), edit, delete, settle | one entry per client id; no lost update; a settlement clears the balance |
| **Advance requests** (`advance_request_service.go`) | requests and their status | create, approve (which inserts a ledger entry), deny | an approval that commits books one entry, and nothing else does |
| **Leave requests** (`leave_request_service.go`) | requests and their status | create, approve (which marks days), deny | the days of the leave are marked |
| **Disputes** (`dispute_service.go`) | disputes and their status | raise, resolve, reject; they go with their ledger entry | what people are told has been decided |
| **Notifications** (`notification_service.go`, `notification_triggers.go`, `fcm_service.go`) | inbox rows, device tokens | a goroutine per notice, register and remove a token | nobody is told of what is rolled back |
| **Staff** (`staff_service.go`, `staff_controller.go`) | employee records, some columns versioned | create, update, dismissal, photo, shift, manager | an update does not undo another one |
| **Shifts** (`shift_service.go`) | shifts | create, update, delete | no row refers to a shift that is gone |
| **Read caches** (`pkg/cache/ttl.go`; roster, overview, dashboard, daily summary) | entries with a TTL, a single flight per key | filled by reads; a mark deletes the roster of its day | an answer is not older than the deletion it followed; staleness is bounded |
| **Documents** (`upload_controller.go`, `cloudinary.go`) | rows of `employee_documents`, `photo_url`, files on the disk or at Cloudinary | upload, delete, photo | a row has its file |
| **Document queue of the app** (`document_upload_queue.dart`) | `pending_uploads.json` | enqueue, remove, flush | a picked document is uploaded or still queued |
| **Offline queue of the app** (`sync_service.dart`, `pending_sync_store.dart`, `sync_providers.dart`) | `pending_sync.json`, the chain of flushes | `enqueue`, `flush` | flushes are serial and end; nothing saved is lost |
| **Authentication** (`auth_service.go`, `middlewares/`, `jwt.go`) | tenants, their owners, tokens | register, login, delete the account | no workspace without an owner |
| **Tenants** (`superadmin_service.go`, `tenant_status.go`) | `is_active` of a tenant | suspend, reopen | a suspension stops what comes after it |
| **Rate limiter** (`ratelimit.go`) | a counter and a time per address | every request, a sweep each minute | the limit within a window, but for the wait for the mutex |

The remaining parts (mail quota, sessions of the app, the server-side sync queue, the
user interface, generated code) are listed in `PROJECT.json` with the reason why they
are not modelled.

How they interact:

* Attendance is written by three different upserts and one versioned `UPDATE`, and
  locked by two callers: `POST /attendance/lock` and the finalization.
* The finalization reads the employees, the attendance and the ledger, and writes the
  ledger and the register. Approving an advance and settling write the ledger too.
* Approving a leave writes the register one day at a time.
* A mark copies the shift of the employee, and deletes the cached roster of its day.
  No other write deletes a cached key.
* A decision about a request or a dispute starts a goroutine that notifies people, with
  the context of the request that decides.
* Every route but a few passes the limiter, the token, the tenant and its status before
  its handler starts.
* The app's queues replay attendance marks, ledger entries and documents through the
  ordinary endpoints, with a client id for ledger entries.

What is hard here: every handler runs several SQL statements, most of them without a
transaction, and PostgreSQL runs READ COMMITTED, so requests interleave between
statements; some rows carry versions and others are upserted without counting one; a
lock is a flag on rows that exist; files are kept outside the database; caches are
filled by reads that began before a write; a request may be retried, or end in the
middle; the app may be killed between deleting a file and writing it again; and Dart
code interleaves at every `await`. The hazards, with their lines, are in `PROJECT.json`.

## 2. The modules

    AttendanceRegister            what the register promises (abstract)
       ^          ^        ^
       | refines  | extends| extends
    Attendance  Payroll  LeaveApproval       Ledger   OfflineSync
       |           |         |                  |         |
    MCAttendance MCPayroll MCLeaveApproval   MCLedger MCOfflineSync
    ...Proofs      RegisterProofs            ...Proofs ...Proofs

    AdvanceRequests  Disputes  Notifications     StaffRecord  ReadCache
               \        |        /                      \      /
                     Notices                             Reads
                     /     \                            /     \
              MCNotices  NoticesProofs            MCReads   ReadsProofs

         RateLimiter                       Documents
              |                                |
           Access                        DocumentQueue
          /      \                        /          \
    MCAccess  AccessProofs       MCDocuments   DocumentsProofs

Without a label, a line says that the lower module extends the upper one. `MC*` modules
give the constants values for TLC; `*Proofs` modules hold the theorems. `RegisterProofs`
proves about `Payroll` and `LeaveApproval`, which share the register; the definitions of the
latter are therefore named apart (`LeaveInit`, `LeaveNext`, `LeaveSpec`, `OtherMark`).

**AttendanceRegister** is the abstract specification: `status` per cell (employee and
day) and the set `frozen`. A cell is written only while it is not frozen, only cells
with a row can freeze, none thaws, and one step writes one cell.

**Attendance** is the detailed one. `row[c]` is the database row with its version and
lock, `closed` the days `IsHoliday` answers true for, `draft[d]` the row a device has
open with the version it read, `call[d]` the POST it waits for and how far the handler
is. A handler is as many steps as it runs statements: `CheckRecord` is the status and
holiday check of a record, `WriteRecord` its upsert, and a batch alternates them record
by record (`attendance_controller.go:430-458`), so that other requests come in between
and an error leaves the records before it written. `Upsert` is the
`INSERT ... ON CONFLICT DO UPDATE ... WHERE NOT is_locked` of `goqu.go`: it keeps the
version of a row it overwrites and does nothing to a locked one. `Edit` is the versioned
`UPDATE` with its second statement that tells "locked" from "conflict". A draft may be as
old as you like, so a roster served from the cache is covered. `overtaken` is a history
flag: an upsert rewrote the row under an open draft.

**Payroll** extends the register with the requests that lock a range: finalizations, and
those that only lock (`LockOnly`, `POST /attendance/lock`). `run[f]` records what the
request has read (employees, attendance, advances: three queries outside any
transaction), which inserts it has made and not committed (`posted`), and which rows it
has locked and not committed (`held`), which makes other writers wait. The `UPDATE` that
locks (`goqu.go:1152`) finds its rows when it begins (`BeginLock`, `wanted`) and takes them
one at a time in an order of its own (`LockRow`); at a row that somebody holds it waits and
keeps what it has (`WaitForRow`), so that two of them can deadlock. PostgreSQL finds the
cycle and lets one of it fail (`BreakDeadlock`). `Commit` publishes wages and locks;
`Abandoned` is the deferred `Rollback`. `Calculate` is reduced to present days, paid weekly
offs, one daily rate and advances, cut off at zero; the owner's adjustments override it,
unchecked and of either sign (`payroll_controller.go:161-164`). `SystemStored` says whether
`ledger.created_by` takes the id `"system"`: as migrated it does not, and both answers are
checked.

**Ledger** has the rows of one employee, the phone's view of its creates (`sync`), the
devices' open entries and the settlements. The app puts a client id on every create, also on
one it sends at once (`SaveOnline`, `ledger_service.dart:48-52`); a create that was queued
(`CreateOffline`) may be sent again at any time. `CreateOnline` is a client of the API that
sends no client id. `Inferred` holds the answers to whether `ON CONFLICT (client_id)` finds its
unique index; as migrated the index is partial and PostgreSQL refuses the statement.
`CarriesVersion` holds the answers to whether an edit sends back the version it read; the run
allows both, edit by edit. A device opens an entry from the list of the month (`Open`). Amounts
are integers, since neither the handlers nor the table look at their sign. A settlement is one
statement whose snapshot (`SettleRead`) precedes its insert (`SettleInsert`).

**LeaveApproval** extends the register with the loop of an approval over the dates
of a leave: the cursor is a day together with the form its string has, since `nextDay`
parses `2006-01-02` only and a `DATE` column is scanned as `2026-10-05T00:00:00Z`. `foreign`
is history: the cells that another handler has marked as something else.
**OfflineSync** has the queue file, the chain of flushes and every `await` of `enqueue`,
`flush`, `write` and `append` as a step, with errors and kills. A read catches every error
and answers with no items (`Readings`, `pending_sync_store.dart:45-56`). `trouble` is a history
variable that says whether calls have overlapped or been stopped, or a read has failed.

**AdvanceRequests** has the check-then-insert of a create, the transaction of an approval
(status, entry, commit or rollback, with the row lock that makes others wait), the denial, and
the delete of an entry (`DeleteEntry`, the ordinary route of the ledger), which leaves the
status as it is and takes the entry's disputes with it; `deleted` is its history. **Disputes**
has the status of a dispute, which each decision overwrites. **Notifications** has the
goroutines (`pushing[n]`: to insert the inbox row, to list the tokens, to push to those that
are left) and the owner of each device token; a step that fails is logged and the goroutine
goes on or stops. **Notices** composes the three: each decision is an action of
`AdvanceRequests` or `Disputes` together with `Notify`, which starts a goroutine or, since its
context may end at once, does not. The notice of an approval is started after the commit
(`Approve`), not after the insert (`ApproveInserts`).

**StaffRecord** is the row of an employee with three columns that stand for the others:
`wage` (typed into a versioned update), `shift` (copied by the update, written by
statements without a version, and set to NULL by the deletion of the shift) and `active`.
`ReadRow` and `WriteRow` are the two statements of `UpdateEmployee`, `WriteShift` the third
one, of which a failure leaves the second committed (`ShiftRefused`). **ReadCache** is
`pkg/cache` in front of a singleflight group, with a clock: `Hit`, `Miss` (which leads a
flight or joins one), `Query` (the snapshot), `Land`, `FlightFails` (the leader's context
is cancelled, and all who joined fail), `Store` (by every reader of the flight), `Sweep`.
The database is the number of its last commit. `floor` is a history variable: the newest
write whose deletion of the key met no older value under way. **Reads** composes them:
which handler commits, which one deletes a key afterwards (`CommitMark`, `DeleteKey`),
and which rows make a query fail (`Readable`).

**Documents** has the rows, the files and the requests with the step they are at. A file
of the disk has a name of its own; an asset at Cloudinary is named by its slot and kind,
so that an upload overwrites it. Each step may fail, and a request may end before any.
**DocumentQueue** adds the app: picks, the queue file with a read and a write per change,
and the flushes. A read leaves out the items whose picked file is not there, and all of them
on an error (`Readings`, `document_upload_queue.dart:43-55`); what is written back is what was
read. A write may throw, and may have emptied the file (`WriteFails`). `disturbed` is a history
variable: two tasks were under way together, a read missed an item, or a write failed.

**RateLimiter** keeps ages instead of times; `admitted` is history, the requests let through
since `i` ticks ago. A request reads the clock before it waits for the mutex
(`ratelimit.go:47-49`), so that its time is `lag` ticks old when it is compared and stored,
and may set the stored one back. The limit is any integer, as it is in the configuration.
`Access` has the limiter of `/auth` only; the one in front of every route (`api.go:60`) is the
same code with a higher limit and only refuses more. **Access** has the rows of tenants and
employees, the tokens that were issued, registrations (`reg[r]`) and requests (`call[c]`) with
their steps. `CheckStatus` and the statement of the handler are two steps, and `early` notes
the requests that were past the check when their workspace was suspended.

`PROJECT.json` maps the definitions to the lines they model. What is external, and so
modelled from its use: PostgreSQL's row locks and snapshots, the clock, the caller who
hangs up, and the operating system that kills the app. Mutated forms of definitions,
marked "mutant" in the modules, are plausible slips that break the property they are
paired with; no specification uses them.

## 3. What the runs check

| Run | Instance | Distinct states | Shows |
|---|---|---|---|
| `attendance` | 1 employee, 2 days, 2 devices, versions up to 2 | 699 000 (symmetry) | types, `LockedRowsStay`, `VersionNamesContent`, `EditSawUnlessOvertaken`, and that the handlers implement the register |
| `payroll` | 2 employees, 1 day, 1 finalization with an adjustment of -1, 1 lock by hand, 2 advances, inserts accepted or refused | 1 200 000 | types, `WagesAppearTogether`, `PaysAllOrNothing`, `WagesFollowTheReading` |
| `payroll_runs` | 1 employee, 3 days, 2 runs that share 2 of them | 119 000 | `CountedRowsFrozen`, `EveryRunEnds` |
| `ledger` | 2 devices, 1 create of the app, 1 settlement, amounts of either sign, edits with and without their version, 2 inserts, versions up to 3 | 436 000 (symmetry) | types, `OneEntryPerClient`, `ContentChangesWithVersion`, `EditSawTheEntry`, `SettlementClears` |
| `leave_approval` | 1 employee, 3 days, a leave of 2, 2 approvals | 231 000 | types, `LeaveDaysReached`, `LeaveDaysMarked`, `EveryApprovalEnds` |
| `offline_sync` | 2 saves, 2 flushes that are called again and again, reads that may fail | 343 000 | types, `FlushesDoNotOverlap`, `CalmSavesAreKept`, `EveryFlushEnds` |
| `documents` | 2 document slots, 1 photo, 2 picks, 1 flush, another device, 3 requests, disk or Cloudinary | 1 770 000 (symmetry) | types, `LostFileHasCause`, `CalmPicksAreKept` |
| `notices` | 1 employee, 1 supervisor, 2 requests, 2 approvals, deletes of entries, 1 dispute, 1 device, 2 goroutines | 620 000 (symmetry) | types, `LedgerFollowsStatus`, `EntryComesWithApproval`, `NoticeFollowsDecision` |
| `access` | 2 phones, 2 tenants, 2 employees, 2 registrations, 2 requests, 2 addresses, limit 2, window 2, wait 1, map of 1 | 517 000 (symmetry) | types, `EmptyTenantHasCause`, `RateBounded`, `SuspensionHolds` |
| `reads` | a roster, 2 readers, 1 mark, 2 commits, 5 instants | 1 688 000 (symmetry) | types, `AnswersAreFresh`, `StaleBounded` |
| `staff` | 1 employee, 2 shifts, 2 updates, 1 mark, a reader of an overview and a dashboard, 3 commits | 1 665 000 | `UpdateKeepsColumns` |

Why these bounds are enough. A cell is written independently of other cells, so one employee
has every conflict of an attendance row; the second day makes ranges differ from days.
`VersionNamesContent` needs two devices and an upsert between them. Version 2 of a row is
reached by one edit, and a second edit can only conflict with it; the ledger goes to version 3
because there an accepted stale edit needs a row with room above it. Two employees let a run
stop between two inserts, and a lock by hand comes between the reads and the lock of the run.
Two runs that share two rows are what a deadlock takes, and the third day keeps their ranges
apart. Two items let a flush keep one and push the other. Three requests for one document slot
are an upload, a second one or a delete that races it, and a reader or a third that comes
after; two picks let a newer one meet the flush of an older one, and two slots let a read miss
one item and keep the other. While other devices act the phone of that run flushes nothing and
leaves the second slot alone (`OneStory`, a constraint): the server cannot tell an upload of a
flush from one of a pick, and the queue sees nothing of what others do. Two approvals are a
first and a retry or a concurrent one, with a denial by anybody in between; what the proofs
show of `AdvanceRequests` holds for any number of them. Two registrations race for one phone;
two calls are one past the check of the status and one before it; a map of one address makes
the second address meet the limit of the map. With a window of two and a wait of one tick a
request sets the time back across a tick; the clock of that run stands still once a request is
behind the login (`ClockWaits`, a constraint), because such requests do not meet this limiter.
Two readers are a leader and one who joins; a lifetime and a request of one tick each within
five instants let an entry be stored late, expire and be loaded again. Two updates and a shift
that is deleted or assigned between their statements are all an `UPDATE` can meet. Symmetry is
used for interchangeable devices, requests, readers and calls, and only in runs without
liveness.

Runs that say `CHECK_DEADLOCK FALSE` (`ledger`, `documents`, `reads`, `staff`) stop when
each of their requests has been made and their inserts, versions, commits or ticks are
used up. Bounds of the model: `MaxVersion` (a row at it is not edited again), `MaxEntries`
(how many entries are inserted), `MaxAdvances` (how many advances are granted), `MaxWrites`
(commits), `MaxTime` (ticks), and the sets of
devices, calls, requests, items and flushes. `Slow`, how long a request for a cached read
lasts at most, is an assumption about the deployment: the code sets no timeout on it. So is
`Wait`, how long a request of the limiter is between its clock and its mutex.

One run is expected to find a violation, a disagreement between a text of the repository
and its code:

| Run | Property | Disagreement |
|---|---|---|
| `settlements_see_each_other` | `SettlementsSeeEachOther` | `docs/ARCHITECTURE.md:98-102`: the CTE eliminates the race of two settlements; under READ COMMITTED both read the same balance |

Four more configurations show divergences of the same kind. They are kept for
demonstration and run by hand; TLC prints a counterexample for each:

| Configuration | Property | Disagreement |
|---|---|---|
| `MCEditSawTheRow.cfg` (MCAttendance) | `EditSawTheRow` | `docs/adr/0009-optimistic-locking-version-columns.md:29`: concurrent edits "are detected instead of silently lost"; the upserts (`goqu.go:77-145`, `158-196`) and `MarkPaidLeave` count no version, so an edit opened before one overwrites it |
| `MCPaidOnce.cfg` (MCPayroll) | `PaidOnce` | `payroll_preview_page.dart:88`: "Once locked, payroll cannot be modified for this period."; a second finalization posts the wages again |
| `MCLeaveOnlyItsDays.cfg` (MCLeaveApproval) | `OnlyLeaveDaysMarked` | `leave_request_service_test.go:25`: each date between from and to; after the first turn `nextDay` fails to parse the date, drops the error, and the loop walks from the origin of the calendar up to the end of the leave |
| `MCOfflineOverlap.cfg` (MCOfflineSync) | `NothingSavedIsLost` | `README.md:105-107`: offline writes are staged and flushed; a save that runs beside a flush or another save loses an item |

## 4. Fairness

Liveness is stated for three modules. In **Payroll** (`FairSpec`) the goroutine of a
finalization that has started goes on while it can: weak fairness of its own steps, and
none of the arrival of requests or of other writers. A run may wait for rows another
one holds, and ends because the other one commits or rolls back, or because PostgreSQL
breaks the deadlock they are in; that it does (`deadlock_timeout`) is part of the steps that are
fair. In **LeaveApproval** the
loop of an approval goes on; its context is cancelled only by errors, which are steps of
the model. In **OfflineSync** every await of a flush completes (file operations answer or
throw, the HTTP client has a timeout); nothing is assumed of saves, and nobody has to call
`flush`. No run assumes strong fairness. The other modules state no liveness: a handler
may stop anywhere when its caller hangs up, a notice may be lost, a queue need never
drain, and none of these is promised not to.


## 5. What is proved

The theorems hold for every value of the constants that satisfies the assumptions named in
the modules (`AttendanceAssumption`, `PayrollAssumption`, `LedgerAssumption`,
`AdvanceAssumption`, `NotificationsAssumption`, `NoticesAssumption`, `DocumentAssumption`,
`QueueAssumption`, `LimiterAssumption`, `AccessAssumption`, `LeaveAssumption`,
`CallersAssumption`, and those of `StaffRecord`, `ReadCache` and `Reads`). TLC evaluates each
of them in the runs. Every safety property that a run expects to hold, invariant or action
property, is a theorem.

**AttendanceProofs.** `TypeCorrect` (`[]TypeOK`) is inductive: the part that needs care is
that a call's index stays within its records, and that a record that passed its check has a
status the column takes or a blank. `LockedRowsNeverChange` follows from the effect of each
statement on one row (`UpsertEffect`, `LockStep`). `VersionsNameContent` proves
`[]VersionNamesContent`, which is inductive together with the types: versions only grow, a
version grows with every edit, and an upsert that changes a status marks the drafts of the
row. `EditsSawUnlessOvertaken` draws the conclusion for the user: what `EditSawTheRow`
claims is true of versioned edits among themselves. `HandlersImplementRegister` proves the
refinement: initial states map to initial states, and each step maps to `SetStatus`,
`Freeze` or a stutter.

**RegisterProofs**, payroll. `TypeCorrect` needs that what the service works out is a natural
number for all rates, periods and advances (`PayType`); only an adjustment may be negative. The
inductive invariant `RunInvariant` joins two parts: `PostingOK` says that, until it commits, a
run has no visible wage, that every employee it read either is in `left` or has exactly one
`posted` wage, and that nothing is left once it locks; `CountedOK` says that what it read of
the register is marked, that marked rows never become unmarked, that a run which locks wants
all it has counted, and that a done one has frozen it. `RunsPayAllOrNothing`,
`CountedRowsAreFrozen` and `WagesAppearAtOnce` follow from it. The last theorem needs the
invariant because the step `Commit` alone does not say that `posted` has one wage for each
employee. `WagesFollowReadings` proves `[]WagesFollowTheReading`, for which what is posted and
not yet committed has to follow from the reading too (`Computed`). `RowsHaveOneHolder` says that
locks taken row by row are still locks, and `NobodyWaitsInVain` that a run waits only while
another one can go on, or in a knot, since one that is over holds nothing.

**RegisterProofs**, leave approval. `LeaveDaysReached` says nothing until a loop is over. The
invariant (`Passed`) says where the loop is meanwhile: in the long form of the dates it is at
the first day of the leave; in the short form every day of the leave before the cursor has
been written or lost, and the cursor is not before the origin of the calendar. That the loop,
sent back to the origin, still reaches the last day of the leave is why `LeavesAreReached`
holds in spite of the error that `nextDay` drops. `LeaveTypeCorrect` needs that the cursor
stays within the days (`DueDay`). `ApprovalsMarkTheLeave` proves `[]LeaveDaysMarked`: a day
whose statement succeeded stays marked as a leave as long as nobody else has marked it
(`PaidOrForeign`, of the days that are reached already). That the loop
marks days before the leave as well is the subject of `MCLeaveOnlyItsDays.cfg`.

**LedgerProofs.** The invariant `IInv`: ids are unique and below `nextId`, a draft's
version is not above the version of its row and equal versions have equal contents
(`DraftsFollow`), and a client id occurs once. `ClientsStoredOnce`, `ChangesAreCounted`
and `EditsSawTheEntry` follow. `EditSawTheEntry` alone is not inductive: it needs that a
deleted id is never given again and that every change counts.

`TypeCorrect` and `SettledIsZero` need the balance. `Balance` folds over the rows in the order
of a `CHOOSE`. The induction is over the subsets of the rows and goes through their smallest
counterexample (`SmallestSubset`, from the well-founded order of strict inclusion): two folds
agree (`SumsAgree`), one exists (`SumsExist`), and which row is taken first makes no difference
(`BalanceByAny`). Then a balance is an integer, and adding the opposite of a balance leaves
zero (`OppositeCancels`), whatever the signs of the entries. The rows are finitely many in
every state (`Typed`).

**NoticesProofs**, advance requests. `IInv` adds to the types that the entries the ledger was
ever given are those of the calls that are done (`Recorded`, with those deleted since), and
that the status of a request fits them (`StatusFits`): without the first a commit could add an
entry that is already there. `LedgerAndStatusAgree` (one entry for each committed approval, none
for anything else) and `EntriesComeWithApprovals` follow.

**NoticesProofs**, the composition. Each step of the composition is a step of
`AdvanceRequests` or leaves its variables alone (`StepMaps`), so that the composition
implements it (`NoticesImplementRequests`) and what is proved of the requests holds of it too.
`NobodyToldTooEarly` proves `[]NoticeFollowsDecision`. It is inductive together with the
types, because what has happened stays so: that an entry was booked is not undone by its
deletion, and neither a status nor a dispute returns to an earlier one (`RequestsKeep`,
`DisputesKeep`, `HappenedStays`).

**ReadsProofs.** The invariant has one part for each component. `SInv`: the types of the
staff record, and that the copy of an update which nothing has overtaken equals the row as
long as their versions agree (`CopiesKept`). `CInv`: an entry of the cache and the flights
that started after a deletion are not older than the `floor` of their key
(`EntriesAboveFloor`, `FlightsAboveFloor`), and floors only rise to writes that have been
committed. `ReadsTypeCorrect`, `AnswersFresh` and `UpdatesKeepColumns` follow. A reader's
answer alone says nothing of where the value came from: it takes the flights, which a
deletion does not stop. `AnswersBounded` proves `StaleBounded`, the bound `TTL + 2 * Slow` on
the age of an answer, for every lifetime and duration. The invariant `Aged` gives each holder
of a value its share of the bound: nobody is at work longer than `Slow`; what a leader waits
with was current when it began; what one who joined waits with had been superseded at most
`Slow` before; and an entry that expires at `t` was current at `t - TTL - 2 * Slow`. The second
`Slow` is real: a reader joins a flight late and stores its value, late again.

**DocumentsProofs.** `LostFilesHaveCauses` proves `[]LostFileHasCause`. The strengthening
says which file a row names: on the disk the one of a request that is over, for this very
slot and picture (`RowsNamed`, `FoundNamed`), which makes the file found by an upload
recognizable as that of the row; that a file which was replaced or deleted never comes back
into its row (`NotAgain`), so that a delete's second step harms nobody on the disk; and that
an upload about to save its row has its file, unless a delete destroyed the shared asset
at Cloudinary (`StoredThere`).

The phone's half is over these. `CalmPicksStay` proves that a pick the user was told of is in
the queue or with the server as long as no two tasks ran together, no read missed an item and
no write failed (`~disturbed`). A task that waits or writes has in hand the item its request
uploads (`Sound`, which needs that a request keeps its operation, slot and picture:
`StepMadeStays`); an item is removed only after its request was answered; and while tasks take
turns the copy a task has read is the file, and what a flush has yet to send is in it
(`UpToDate`). `TypeCorrect` includes that the queue has one item for each slot.

**OfflineSyncProofs.** `Chain` says that the chained flushes are those that are not idle,
without repetition, and that the one that runs is the first; `FlushesTakeTurns` follows. For
`CalmSavesStay`, `Carried` says for each call where the items are that it owes: accepted by
the server, in the file, or in the lists it holds between its read and its write. `Calm` says
that calls which have neither overlapped nor been stopped, and whose reads have all succeeded,
are alone, so that the image a call has read is the file. The lemmas about the elements of a
sequence are needed by both (`ElementsOfAppend`, `ElementsOfTail`).

**AccessProofs.** `EmptyTenantsHaveCauses` is inductive together with the types, the foreign
key and `RowsUsed` (ids are not given twice, so a new workspace has no staff and no other
registration). `SuspensionsHold` needs `InsideWasOpen`: a guarded request that is past the
check either finds its workspace open or was noted when it was suspended.
`AccessTypeCorrect` includes that the limiter's map keeps its bound, for which its domain
has to be known to be finite (`MapOK`).

`RatesBounded` proves what the limiter promises for every limit, window and wait. One counter
and one time have to stand for a history of requests, and the time may be `Wait` ticks older
than the last request. In a window that is shorter by `Wait` (`Short`) the counter of a known
address is not below the requests let through, none was let through during the silence the time
shows, and an address that was swept, or never seen, has none (`Remembered`).

Only model-checked are the three liveness properties, `EveryRunEnds`, `EveryApprovalEnds` and
`EveryFlushEnds`: fairness and `ENABLED` are out of the prover's reach. What is proved of each
is its safety half, a number that every step of the run, loop or flush makes smaller and no
other step makes greater (`RunsComeToAnEnd`, for finitely many employees, `LoopsComeToAnEnd`,
`CallsComeToAnEnd`), and, where one waits for another, that the one waited for can go on
(`NobodyWaitsInVain`, `TheFirstFlushGoes`, which needs that no flush ends without giving up
its turn). The divergences of section 3 are refuted by TLC.

## 6. Divergences that no run states

Found while modelling, and visible in the modules; each contradicts a text in the
repository, or leaves it open.

Attendance, payroll and the ledger:

* `docs/API.md:673` says of a batch "All-or-nothing: entire batch is rolled back if any
  record fails." Each record is a statement of its own, so the records before the failing
  one stay (`CheckRecord`, `WriteFails`).
* `docs/ARCHITECTURE.md:93-95` says that a write to a locked month is answered 409. Only
  the versioned edit does that: the upsert of a single mark answers 500
  (`goqu.go:188-190`), a batch answers 200 without having written (`WriteRecord`).
* `docs/API.md:1069` says that the finalization writes wages. It inserts them with
  `CreatedBy: "system"` (`payroll_service.go:327`), and `ledger.created_by` is a `uuid`
  that references `employees` (migration 00005:10): with the schema as migrated the run is
  refused (`RefuseInsert`) and rolled back.
* The `net_pay` of an adjustment is stored as it was sent, a negative one too
  (`payroll_controller.go:161-164`, `payroll_service.go:313-317`, no `CHECK` on
  `ledger.amount`); what the service works out is cut off at zero (`Pay`, `NetPayable`).
* Two finalizations whose ranges overlap can deadlock on the rows they lock; one of them is
  answered 500 and rolled back (`BreakDeadlock`).
* The same line says "for every employee in the period". `Calculate` reads the employees
  active when it runs (`payroll_service.go:86`).
* `docs/planning/product-blueprint.md:143-144` says that the month becomes read-only and
  that the days paid are those of the register. The lock reaches rows that exist, so an
  unmarked day can still be marked; and the attendance is read before the transaction that
  locks it, so a mark in between is frozen without having been paid.
* Holidays are never paid: the map of holidays is keyed with the form in which a `DATE`
  is scanned (`goqu.go:962-966` does not normalize it), the loop looks up `2006-01-02`. The
  days paid without a mark are the weekly offs only (`PaidOff`).
* ADR 0009:30 says that clients carry the version through an edit. The app's ledger page
  sends none (`new_ledger_entry_page.dart:104`), the handler takes 0 for it, and versions
  start at 1: every edit of a ledger entry from the app is answered 409
  (`CarriesVersion = {FALSE}`). A client that does send one is what `EditSawTheEntry` is
  about, and an edit without one never passes it.
* The amount of an entry is any number for the server (`controllers/api/v1/ledger_controller.go`
  and migration 00005 have no check of its sign); only the app's page asks for a positive one.
* `GET` of a single entry always fails: the query selects a column `employee_name` that the
  table does not have (`goqu.go:364`). The app opens entries from the list (`Open`).
* `app/CHANGELOG.md:48` says that an offline ledger entry can be synced again safely. The
  index on `client_id` is partial (migration 00034:5) and the statement names the column
  only (`goqu.go:343`), which PostgreSQL refuses to infer: such creates fail and stay queued
  (`Inferred = {FALSE}`). The app sends a client id with every create
  (`ledger_service.dart:50`), so that its online creates are refused as well (`SaveOnline`).
* A save or a flush whose read of the queue file fails takes the queue for empty
  (`pending_sync_store.dart:53-55`) and writes the file without what it held (`Readings` of
  OfflineSync). A kill or an error between the delete of that file and its appends loses what
  was in it (`Kill`, `FlushThrows`).

Requests, disputes and notices:

* `docs/IMPLEMENTATION-CHECKLIST.md:118` lists an idempotency guard for the approval of an
  advance. There is none: each approval adds an entry, so a repeated one counts twice
  (`UpdateStatus`, `Booked`).
* The entry of an approved request is an ordinary one: deleting it (`goqu.go:401-407`) leaves the
  request approved with nothing in the ledger (`DeleteEntry`).
* A second pending advance is refused by a check (`advance_request_service.go:39`) that
  two creates can pass together (`CheckPending`, `InsertRequest`).
* The comment of `mailAdvanceStatus` (`advance_request_service.go:191-192`) speaks of "an
  approval/denial email"; a denial sends no mail.
* The mail of an approval says that the days are marked
  (`leave_request_service.go:113`); the loop drops the error of every day (`LoseDay`).
* A rejected dispute can be resolved and a resolved one rejected (`Decide`), and a dispute
  disappears with its ledger entry (migration 00022, `ON DELETE CASCADE`).
* A notice runs with the context of the request that decided, and is lost when the
  response is faster (`Notify` may start nothing). A list of tokens read before a device
  changes hands still reaches it (`ListTokens`, `Push`).

Staff and cached reads:

* `docs/API.md:607` and `:624` describe a roster of all active employees. The query scans the
  shift's columns into plain strings: one active employee without any shift makes it fail
  with 500 for everybody (`Readable`).
* The comment of the deletion of a shift says that one that is still assigned is answered
  500 (`shift_controller.go:219`); the foreign keys say `ON DELETE SET NULL` (migrations
  00003:15, 00004:7).
* The comment of `Update` in `staff_controller.go` says that missing fields are set to their
  defaults; `UpdateEmployee` keeps what the row has. What statements without a version
  write between its read and its write (a dismissal, a shift, a photo) is reverted, and a
  copied shift that was deleted in between makes it fail.
* A default shift that is refused by the second statement of an update leaves the first
  one committed, and the request answers 500 (`ShiftRefused`).
* Only marks delete a key. Edits, locks and leave marks leave the roster as it is, a roster
  that was being read is stored after the deletion, and the overview of a dismissed
  employee is served until it expires. A leader whose caller hangs up fails those who
  joined it (`FlightFails`).

Documents:

* `CreateEmployeeDocument` builds `ON CONFLICT DO UPDATE` without a target (`DoUpdate("")`),
  which PostgreSQL refuses: with the statement as written no document is saved
  (`Inferred = {FALSE}`).
* `docs/API.md:341` says "Deletes the previous asset when replacing". Nothing is destroyed
  at Cloudinary: an image replaced by a PDF leaves its asset (they are kept apart by kind,
  and a download is always redirected to the image form), and old photos of the disk stay.
* A delete that races an upload destroys the asset of the new row (`LostFileHasCause`).
* A read of the app's queue drops an item whose picked file is not there, and every item on
  an error (`document_upload_queue.dart:51-53`); the next enqueue or remove writes the
  shortened list back, and nobody is told (`Readings` of DocumentQueue).

Access:

* The rollback of a registration uses the context of its request, so a caller who hangs up
  leaves a workspace without an owner, whose phone can neither register nor log in
  (`EmptyTenantHasCause`).
* `docs/API.md:1132` says "Atomic post-registration setup". The setup is one statement after
  another; a retry compares the scanned form of a holiday's date with the typed one,
  inserts the holiday again and is refused by `UNIQUE (tenant_id, date)`.
* The limiter counts requests since the last silence longer than its window, not in the
  last minute: a steady client below the limit is refused after its `MaxRequests`-th
  request, until it pauses (`NewCount`). In the other direction a whole window is not bounded
  either: a request that waited for the mutex sets the time of the last one back, and the counter
  starts again that much too early. What holds is the bound on a window shorter by the wait
  (`RateBounded`). Under a limit of zero or less the first request after a silence passes.

## 7. What is not modelled

Overtime, production units, payslips, check-in times and the times of shifts: they add
numbers to a row or to a wage and no control. Tenants: every query is filtered by one,
so the modules but `Access` have one. Authorization: each request is checked on its own
before the modelled part starts; `Access` has the checks, with supervisors as owners and
without the phone changes of staff. Onboarding beyond the profile: independent inserts.
Mails and their quota: best effort, after a write, and nothing reads their outcome. The
inbox of notifications, the notices of other handlers and the OAuth token of FCM. The
figures of reports and of the dashboard: they read, and the caches in front of them are
modelled; so is what makes their first query fail. The server-side sync queue: rows that
are inserted and marked through endpoints the app does not use. The sessions of the app
and its screens, and the web front end, which calls the same endpoints. Generated
queriers and mocks.

## 8. Plan

1. `AppSession`: answers that come after the token of the app has changed.
2. A composition of `OfflineSync` and the register, for a replay that overwrites a newer
   mark.
3. Proofs: what a calm queue promises about the order of its items (an item pushed is not
   pushed again), and, with the composition of step 2, for which replays a mark is safe.
