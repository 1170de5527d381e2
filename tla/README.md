# EntraShift in TLA+

EntraShift migrates mailboxes and OneDrives from one Microsoft 365 tenant to another.
This directory holds TLA+ models of its control plane (a Cloudflare Worker over a D1
database and a queue) and of its migration engine (a Python process on one VM), the TLC
configurations that check them on small instances, and proofs for every instance.

    cd tla
    tlc -workers 2 -config MCJobLifecycle.cfg MCJobLifecycle.tla
    tlapm JobLifecycleProofs.tla

`PROJECT.json` is the index: the source lines behind every definition, the runs, a seeded
fault for every checked property, the hazards, the disagreements between code and
documentation that the runs show, and the theorems.

## 1. Inventory of the system

Operators use a web console. It calls the Worker, which writes D1 and sends a dispatch
message for each job to a queue. The engine pulls a batch of messages under a lease, and
for each one reads the job with its checkpoint from the Worker, runs a migrator against
Microsoft Graph while it reports progress, saves the checkpoint and skip records through
the Worker, writes the final status and acks the message.

| Component | State | Operations | What is hard |
|---|---|---|---|
| Job lifecycle and dispatch (`worker/src/routes/jobs.ts`, `routes/vm.ts`, `db/jobs.ts`, `middleware/budget.ts`; `engine/.../worker.py`, `queue_consumer.py`, `job_context.py`, `control_plane.py`) | `jobs.status`, `dispatch_seq`, `last_progress_at`; the queue with its leases; the engine's batch and its position in `_handle`; the stop event; the client's progress floor | create, retry, delta, cancel, delete a user; pull, claim, resume, run, report, settle, ack, give back; SIGTERM, exit, kill, restart | unconditional writes against rows read earlier; write-then-send without undo; redelivery under expired leases; a failure on every failure path; two progress floors |
| Exchange migrator (`exchange/`) | the cursor (`folders_done`, `item_deltas`, `folder_delta_link`), skip-record buffer, loop positions | full and delta passes over primary and archive, folders, export batches, imports; heartbeat; flushes | the checkpoint must not run ahead of imports and skip records, wherever the run ends |
| OneDrive migrator (`onedrive/`) | the cursor (`folder_map`, `items_done`, `delta_link`), buffer, feed | enumerate, create folders shallow-first, copy files, sessions for large ones | files change while they are copied; a stop cuts the feed; the hierarchy over several passes |
| Checkpoints and skip records (`checkpoint.py`, `job_context.py`, `routes/vm.ts`, `db/jobItems.ts`) | `jobs.checkpoint`, `job_items` | load, maybe_flush, flush, flush_items | two writes with a failure between them |
| Migration users, mapping, provisioning, passwords (`routes/users.ts`, `mapping.ts`, `provision.ts`, `passwords.ts`) | `migration_users`, `provisioned_credentials`, accounts at the destination | add, import, patch, delete; provision; list and download passwords | concurrent requests that read, call Graph, then write; the only copy of a password |
| Engine Graph client (`graph/client.py`, `errors.py`) | token cache, attempts | request with retries, paging, classification | expiry and refresh, Retry-After, retry budgets |
| Throttle governor (`graph/throttle.py`) | semaphore permits, error-rate window | slot, record, halve and recover | permits taken away while requests hold them |
| Budget governor (`lib/budget.ts`, `db/budget.ts`, `routes/config.ts`) | a row of counters a day with its degraded flag; the `config` table | guard a write, poll, patch the configuration; record usage in the background | recorders of several requests interleave and fail unnoticed; thresholds change and midnight falls between reads |
| Sign-in and sessions (`routes/auth.ts`, `auth/`, `db/sessions.ts`, `middleware/session.ts`; `web/src/lib/api.ts`, `session.tsx`) | `auth_flow`, `sessions`; the browser's cookie; each tab's CSRF token and request | login, callback, resolve, retry with a fresh token, logout, expire, sweep | a sign-in state used twice; tabs that share a cookie but not a token; answers lost or late |
| Tenant connections (`routes/tenants.ts`, `db/tenants.ts`, `TenantConnections.tsx`) | `tenants` with its secret and status; what each tab shows | connect, test, rotate, disconnect | a test's verdict on a secret rotated meanwhile; a row replaced under an old screen |
| Web console (`UserDiscovery.tsx`, `AuditLog.tsx`, `MappingProvisioning.tsx`, `MigrationMonitor.tsx`, `useAsync.ts`, `poll` of `api.ts`) | per-screen rows, cursor, flags, selection; requests in flight; poll loops | search, page, add, import, map, start, cancel, retry, delta, navigate | answers out of order or after the screen is gone; requests that nothing aborts |
| Audit log and reports, CSV, discovery, VM authentication and cryptography, settings and logging | tables and pure functions | append, query, parse, encrypt | keyset paging with equal timestamps; parsing of quoted fields |

What makes each correct: a job is never forgotten, never runs again after it is settled
and is settled in the end; a pass that is reported completed has moved or recorded what it
owed and its resume point is never ahead of that; a password is not lost and works;
a session ends when it should and is never handed out unrecorded; a verdict belongs to
the secret it was reached with; a refused day stays refused and a paused engine has a
cause; a list on screen answers the query in force.

## 2. Modules

| Module | Stands for |
|---|---|
| `JobPromise` | abstract: an open job is carried by a dispatch in flight or excused |
| `JobLifecycle` | the job row, the routes, the queue and the engine's loop and handler; implements `JobPromise` |
| `PassLedger` | abstract: what a resume point covers is kept or excused |
| `ExchangeMigrator` | the passes of one Exchange job; implements `PassLedger` |
| `OneDriveMigrator` | the passes of one OneDrive job; implements `PassLedger` |
| `Onboarding` | users, mapping, provisioning and passwords; implements `PassLedger` with passwords for items |
| `Sessions` | signing in and staying signed in: tabs, the Worker's guard and sign-in, Entra |
| `BudgetGovernor` | usage counters, degraded flag, pause, hard cap and configuration |
| `TenantConnections` | the two connections, their routes and their screen |
| `Console` | the screens that list and act, and the polls |
| `MC…` | the instances that TLC checks |
| `…Proofs` | the proofs |

### JobLifecycle

One action per route, handler step or call. The program counter `pc` follows
`EngineWorker._handle`: `claimed` (message taken, nothing read), `resumed`, `starting`,
`work`, `beat`, `wrap` (the migrator, with its reports), `settle`, `ack` (the `try`),
`throttled`, `fatal`, `fail`, `ackout` (the `except` branches) and `discard`. Every call to
the control plane is a step, so anything can happen between two of them. The D1 write and
the queue send of a route are two steps (`sends` holds what is between them). A retry has
a step more because its status check reads the row earlier than its write. A call that is
applied while its answer is lost is the applied step followed by the failure. The four
failure statuses are one, `"failed"`: every route and the engine treat them alike. A
paused governor makes the loop idle, which is a stuttering step. The migrator is reduced
to where it reports, polls and ends.

The two progress floors are independent sets: the client counts from before its request
and the server from its own write, so neither bounds the other.

The queue is external, modelled as the code uses it: pulled messages are hidden until
their lease runs out, a retry hides a message for a delay, an ack deletes it, and an ack
under an expired lease may or may not. No delivery limit is configured in the repository;
a limit would delete dispatches of open jobs.

### ExchangeMigrator

`boxes`, `folders`, `items` and `chunk` are what is left of the four nested loops,
`cursor` is the checkpoint in memory and `durable` the one in D1. A delta link stands for
the set of items that were in the source when it was handed out. The folder feed offers a
folder that got items since. Items at the destination are a set; a batch that holds an item
of that set again is a re-import, which `MovedOnce` is about, and the attempts of one import
are one step. `since` (the folder link a run found), `cut`, `dropped`, `forgotten` and `stale`
are history variables. `Interrupted` covers a kill and a
throttled run, which lose the same memory; `GraphFails` the job-fatal branch with its
two suppressed flushes; `CallFails` the generic branch, which flushes nothing.

### OneDriveMigrator

Folders and files have versions; a delta link stands for the versions that the drive had
when its feed was read. A copy uploads the content of the moment in the way that the
feed's size asks for, so a large file that has been emptied gets an upload session without
a chunk (`hollow`). `itemsDone` reaches the cursor only when the run leaves the
feed. Name remediation and metadata are left out. `misplaced` records what was uploaded to
the root because the folder map lacked its parent.

### Onboarding

Two kinds of requests run a step at a time: a provisioning request reads a row, creates
the account, stores the credential, writes the mapping and the audit entry, user after
user; a download lists, purges and answers. Between their steps rows are added,
imported, remapped and removed. Additions and remappings take any of `Bodies`: what the body
leaves out is the default of the route, so a remapping that names no status keeps the row's,
while a UPN left out becomes none, and a body may say `provisioned` itself. `claimed` (history)
holds the users whose row has that status from a body. An addition may also bring a removed
row's id back. The destination directory is external: its accounts stay,
an account is found by its UPN, and its own administrators may create one. One failure, of
any kind and anywhere, happens per behaviour (`faults`).

### Sessions

A tab has a page, an operation (boot, write, sign-out) and the fetch that the operation is
making: `ready`, on the `wire`, `admitted` by the guard, `replied`. A write asks `/api/me`
for the CSRF token first when the module holds none, and once more when it is refused with
`csrf`. The Worker's guard is `Verdict`; a request that it admitted runs later (`Execute`,
`Destroy`), so a sign-out may come in between. A callback takes its steps (`Select`,
`Delete`, `Exchange`, `Mint`, `Sweep`, `Audit`, answer) one await at a time and may break at
each; an error leaves the tab on the callback's page, where it may be loaded again (`Return`)
or left for the console (`Open`). Time is the set of what has expired. A session's cookie, row and CSRF token go by one
name, since each is drawn with the others. Entra redeems a code once. The checks on the
identity token, the group among them, are one outcome of `Exchange`.

### BudgetGovernor

A request reads the day's row and then the limits, each a step; what it bills is recorded
by a task that outlives it in three steps (`increment`, `limits`, `flag`), each of which may
fail without a trace. The engine's poll, a write under the guard of the hard cap and the
PATCH of the configuration, which stores its keys one by one, are the kinds of requests.
Midnight may fall between any two steps; a task keeps writing the flag under the date it
takes then. The fraction is in percent, so that thresholds compare natural numbers.

### TenantConnections

Each tab acts on the row as it was last loaded. `Connect` upserts by role and draws an id
for a new row only. A test reads the row, reads the secret, probes Graph and
writes its verdict by id; a rotation and a removal read, write and audit. Graph's answer is
free, except that a secret of another app, which the dialogs take as well, never gives a token. `overtaken` marks a
status that belongs to a test of other credentials.

### Console

One tab and one screen at a time. A request lives on when its screen is left, but nobody
takes its answer (`mine`). Lists of discovery and audit page by a cursor on a rank that may
tie; the mapping screen reloads its list after each of its changes; the monitor is fed by
`poll()` loops. Effects abort what they replace (`Aborted`), a further page is aborted by
nothing. The routes are single steps here; `Onboarding` and `JobLifecycle` have the steps of
those that change rows.

### Abstractions common to all

History variables (declared as such) record what happened for the properties and guard
nothing. The seeded faults, operators that no specification uses, stand before the
definition that each replaces.

## 3. What the runs check

| Run | Instance | Properties |
|---|---|---|
| `lifecycle` | one job, one retry request in flight, batches of two, at most two dispatches by the operator (`MaxSeq = 2`), two faults; about 1.3 million states | `TypeOK`, `NoJobStranded`, `ReopenedOnlyByRequestOrRun`, `PromiseSpec` |
| `lifecycle_live` | one job dispatched once, one retry request, two faults; about 23,000 states, with fairness | `OpenJobSettles` |
| `exchange` | primary and archive with a folder and an item each, two passes asked for, one fault; about 3.1 million states up to symmetry | `TypeOK`, `MovedOnce`, `CompletedFullPass`, `LedgerSpec`, `DeltaDeliversOneBox`, `ExcusesHaveCause` |
| `drive` | a folder in a folder, a file in the inner one and one in the root, two versions, the first above the session threshold and the second empty, two passes, one fault; about 3.5 million states | `TypeOK`, `HierarchyKept`, `CompletedPass`, `LedgerSpec`, `ExcusesHaveCause` |
| `onboarding` | one user, two addresses, two passwords, two requests, one failure, the bodies that the console sends and four kinds that other clients may; about 240,000 states up to symmetry | `TypeOK`, `PasswordsWork`, `ProvisionedHasAccount`, `LedgerSpec`, `OnlyFailuresLockOut` |
| `sessions` | two tabs, two sessions, two sign-in states, two callbacks at once; about 2.1 million states up to symmetry | `TypeOK`, `CookieIsAudited`, `RefusedOnlyWhenMoved`, `ConsumedStateMintsNothing`, `LoggedOutIsOut` |
| `budget` | two requests and two recorders at once, three requests in all over two days, a cap that two of them reach, two soft fractions; about 3.9 million states up to symmetry | `TypeOK`, `RunsOnlyBelowSoft`, `RefusedStaysRefused`, `DegradedHasCause`, `FlagAgreesAfterOne` |
| `tenants` | one role, two apps with a secret each, two row ids, two tabs; about 4.2 million states up to symmetry | `TypeOK`, `ConnectedWasTested`, `AuditNamesTheRow` |
| `console` | one user, three audit entries of which two tie, two queries, pages of one row, two requests in flight, two poll loops, two changes of the queue; about 1.9 million states up to symmetry | `TypeOK`, `ListAnswersQuery`, `ShowsOwnChanges`, `PollsAreOne`, `SpinnerMeansWork`, `RefusedOnlyWhenMoved` |

**lifecycle.** No kill, SIGTERM, lost answer, expired lease or back-off loses the last
dispatch of an open job. The exceptions are the two that `orphaned` names: a send that dies after
the row was written, and a failure status whose write the generic `except` suppresses
before it acks. A redelivered message never reopens a settled job; a run that began while
the job was open may (it writes its status unconditionally). What a run that saw its
cancellation reports, and that two dispatches never share a number, is proved (section 4).
Two dispatches suffice for a message that is superseded while it is leased, in a batch, or
being retried; two faults for a failure on a failure path. Two jobs do not interact but
through the batch, which `BatchSize = 2` fills with two dispatches of the one job.

**lifecycle_live.** With two failures, stops or kills anywhere, an open job is settled
unless it is orphaned.

**exchange, drive.** A pass may be stopped, killed, throttled, failed or cancelled
anywhere, resumed, followed by a delta pass, or issued anew while it runs. What the
resume point covers is always moved, recorded or excused; a completed full pass has
moved or recorded what it owed. The excuses are history variables, each named for a way in
which the code drops something: `cut` (a stop in the middle of a folder or feed whose link
is stored all the same), `dropped` (skip records that were in the buffer only), `hollow`
(an emptied file), `stale` (a job issued anew during its run). Two items in two places are
what it takes for one to be behind a link and the other not. Two passes let the second
start from what the first left.

The excuses have a cause: `ExcusesHaveCause` says that cutting takes a stop and losing a
record a stop or a failure, so a run that meets neither delivers without excuse. Delta passes
deliver less than their comments say, and it is known how much less. An Exchange delta pass
delivers what came since its folder link into the mailbox of that link, or without a link
into the one it came to first (`DeltaDeliversOneBox`). A OneDrive delta pass, and a
pass of a job issued anew during a run, misses only versions of files that `items_done` passed
over (`CompletedPass`). `MovedOnce` is the other side of delivery: no batch takes up an
item that is at the destination, but after a failure that came before the next checkpoint
write, after a new issue, and in a full pass (a retry) over folders that only a delta pass has
been through. A stop or a cancellation at any point repeats nothing. OneDrive needs no such
property, its uploads replace.

**onboarding.** Whatever interleaves, a password pending, listed or handed out is the one
its account was created with; a password is dropped only by a failure or with its user's
row, and never by a request that another one crosses. A row that provisioning marked
`provisioned` names an account that EntraShift created, because the addresses are written
with the status in one statement, over whatever another request has put there. A body may
write that status, or leave it standing without a UPN, and such rows are excepted by
`claimed`: the property is about provisioning, and what the PATCH does to it is among the
disagreements below. Two requests are the pair that collides and two passwords one for each.

**sessions.** A browser never holds a session whose sign-in is not in the audit log,
although the callback writes the row, sweeps and audits before it answers and may break at
each step. A callback that comes after its state was consumed mints nothing; two that
select the state together may both go on, and then Entra's single-use code lets one
through. No request passes the guard with a session that was signed out. A write is refused for a stale token, after its one retry,
only when the browser's session changed again meanwhile or `/api/me` failed. Two of
everything is what it takes for one tab to sign out or in under the other.

**budget.** A poll lets the engine run only if usage was below the threshold when it
read the row, whatever became of the flag; once a write was refused, every later write of
the day is. The flag may be wrong after overlapping recorders, and it is known how far: it
always has a cause, today or on a day whose recorder midnight overtook, and one recorder
that runs alone puts it right. Two recorders are the pair that overlaps.

**tenants.** A role that shows connected was found good with its secret, unless the test
that said so was overtaken by a rotation or a reconnection; an audit entry names the app whose row was changed, from however old a screen. A
role is independent of the other, so one is enough; two apps let a reconnection put another
tenant in the row.

**console.** A list in rest answers the query in force, without gaps but for rows that tie
with one shown (keyset paging on a timestamp alone, `db/audit.ts:66`); the exception is a
further page asked for before the list moved on. The mapping screen is never older than a
change the tab was told of; at most one loop polls; a busy button has a request behind it,
unless `addSelected` threw; a retry that the monitor offers is refused only when the job
moved on or was cancelled. Pages of one row make paging happen with three entries.

Deadlock is checked for `tenants` and `console`, whose screens can always act. The other
models have states in which all is done and the bounds allow no further request.

### Where code and documentation disagree

Three of the runs state what a comment says and find the code's counterexample:

| Run | Property | The code |
|---|---|---|
| `stale_discard` | `OnlyStaleIsDiscarded` | staleness is judged by the job's status alone, so a delta pass requested during a run is discarded when that run settles the job |
| `exchange_delta` | `CompletedDeltaPass` | one folder delta link serves both mailboxes |
| `drive_delta` | `DeltaMovesChanges` | a file in `items_done` is skipped on delta passes, whatever its version |

Further configurations, outside the list of runs, refute the other statements that the
models turned up; each is run like the rest (`tlc -config <cfg> <module>`):

| Configuration, module | Property | The statement, and the code |
|---|---|---|
| `MCJobCancelOverwritten`, `MCJobLifecycle` | `CancelIsNotOverwritten` | "engine sees the status on its next poll and stops" (`routes/jobs.ts:115`): the running status written at the start and with each report overwrites a cancellation made since the job was read |
| `MCJobFloorFailure`, `MCJobLifecycle` | `FloorIsNotFailure` | "do not treat as a job failure" (`control_plane.py:113`): the server's 429 on a forced report raises in the handler, and the job is acked as failed |
| `MCExchangeStop`, `MCExchangeMigrator` | `StoppedPassResumes` | "On reboot it resumes from the last checkpoint" (`engine/README.md:126`): SIGTERM in the last mailbox breaks the loop, and the run reports completed |
| `MCExchangeReissued`, `MCExchangeMigrator` | `ReissuedStartsClean` | "A re-issued FULL job starts clean" (`db/jobs.ts:132`): the run that goes on meanwhile writes its checkpoint over the wiped one, and the next run skips the folders that it counts as done |
| `MCMappingUnnamed`, `MCOnboarding` | `RemappedNamesUpn` | "clearly persist the UPN that will actually be used" (`routes/mapping.ts:5-6`): a PATCH with an address alone on a provisioned row keeps `provisioned` (line 46) and stores a null UPN (line 48) |
| `MCMappingUnresolved`, `MCOnboarding` | `MappedIsResolved` | "Must resolve to a real destination user; otherwise flag invalid (never silently assume)" (`routes/mapping.ts:58`): a UPN in the body is stored as `mapped` without a look at the destination, and the console's dialog always sends one (`MappingProvisioning.tsx:318`) |
| `MCOnboardingOneTime`, `MCOnboarding` | `HandedOutOnce` | "so this truly is one-time" (`passwords.ts:46`): two downloads list before either purges |
| `MCBudgetUnaudited`, `MCBudgetGovernor` | `ConfigChangesAudited` | "Read-only record of every administrative action" (`AuditLog.tsx`): a PATCH stores the keys before an invalid one, answers 400 and audits nothing |
| `MCTenantConfirmed`, `MCTenantConnections` | `DisconnectsWhatWasConfirmed` | "typed-confirmation gated in the UI" (`routes/tenants.ts:121`): the id typed is compared with an old screen, and the row may hold another tenant by then |
| `MCImportRejected`, `MCConsole` | `ImportQueues` | "sent as raw text body" (`web/src/lib/api.ts:293`): the client sends `{csv}` as JSON and the route parses that as the file, so every import from the console is rejected for its header |
| `MCCancelledRetry`, `MCConsole` | `CancelledCanBeRetried` | "the job can be retried later and will resume" (`MigrationMonitor.tsx:210`): the route retries failed jobs only and answers 409 |

Read on the way, and not modelled: `lib/budget.ts:10` says that the Worker refuses
non-essential writes when it is degraded, but only the hard cap refuses; the Settings screen
says at most 90 days of audit retention where the route takes 365; `pruneOlderThan` of
`db/audit.ts` has no caller; the filter "to" of the audit log excludes that day; the PATCH
of a mapping never stores `auto_create_target`, so provisioning cannot be asked for from
the console; a running job whose tenant is disconnected and connected anew goes on with the
new tenant's tokens; line numbers of a rejected CSV row ignore blank and quoted lines.

### Fairness

Only `lifecycle_live` assumes any (`Fairness` in `JobLifecycle`):

- the Worker finishes the requests that it has begun (`Send`, unless the send is lost);
- leases, delays and floors are timers and run out;
- strong fairness on each message's delivery: a pull that finds several visible messages
  must not pass over the same one for ever. Weak fairness would not do: a message is
  hidden and visible by turns. The dispatch of a removed job circulates for ever, and
  could otherwise starve the rest;
- the engine's event loop runs every enabled step of the handler; a call to the control
  plane is answered or fails (its client has a timeout);
- strong fairness on the end of a migrator's loop: its loops run over finite feeds. Each
  heartbeat leaves `work`, so weak fairness would not force the end;
- the service manager restarts the engine. After a kill that is `Restart=on-failure`;
  after a clean exit on SIGTERM it takes the reboot or the operator who sent it.

Operators, failures, SIGTERM and kills are under no obligation. `MaxFaults` bounds the
failures, and a job that fails for ever is out of the property's scope.

## 4. What is proved

The proof modules establish the following for any number of jobs, requests, mailboxes,
folders, items, users, passwords, tabs, sessions, counters and tenants, any bounds, and any
batch and flush sizes.

| Module | Theorems |
|---|---|
| `JobLifecycleProofs` | `TypeCorrect`, `NumbersUnique`, `NoneStranded`, `Implements` (`JobPromise`), `ReopenedOnlyWhenAllowed`, `SeenCancelStands` |
| `ExchangeMigratorProofs` | `TypeCorrect`, `Implements` (`PassLedger`), `ResumePointAdvances`, `FullPassDelivers`, `DeltaPassDelivers`, `OnlyFailuresExcuse`, `NothingMovedTwice` |
| `OneDriveMigratorProofs` | `TypeCorrect`, `HierarchyIsKept`, `Implements` (`PassLedger`), `PassesDeliver`, `OnlyFailuresExcuse` |
| `OnboardingProofs` | `TypeCorrect`, `PasswordsAlwaysWork`, `ProvisionedAlwaysHasAccount`, `Implements` (`PassLedger`), `CrossingLocksNobodyOut` |
| `SessionsProofs` | `TypeCorrect`, `CookiesAudited`, `ConsumedMintsNothing`, `RefusedWhenMoved`, `EndInOrder`, `LoggedOutStaysOut` |
| `BudgetGovernorProofs` | `TypeCorrect`, `RunsBelowSoft`, `StaysRefused`, `HasCause`, `AgreesAfterOne` |
| `TenantConnectionsProofs` | `TypeCorrect`, `Connected`, `Audited`, `Removed` |
| `ConsoleProofs` | `TypeCorrect`, `ListsAnswer`, `OwnChangesShown`, `OnePoll`, `SpinnerHasWork`, `RetriesRefused` |

**Assumptions.** `BoundsAreNat`, `NoMsgIsNoMessage` (JobLifecycle); `MailboxShape` (each
folder has its mailbox, each item its folder), `MailboxBounds`, `NoneIsNone`
(ExchangeMigrator); `DriveShape` (a parent is less deep than its folders), `DriveBounds`,
`VersionsBound`, `StartIsTree`, `VoidIsSmall` (OneDriveMigrator); `NoneIsNone`,
`ForeignIsForeign`, `BodiesAreBodies` (a body has the fields and values of a request,
Onboarding); `NoneIsNone` (Sessions); `Assumptions` (BudgetGovernor:
limits and fractions are positive; TenantConnections: each secret has its app; Console: a
listing holds things that have a rank) and `NoneApart` (Console). TLC evaluates them in the
runs.

**JobLifecycle.** `TypeInv` adds to the types that the engine holds a message exactly when
it is neither idle nor down. `NoJobStranded` is not inductive: the step that acks needs to
know that the job is settled or orphaned by then. `StrandInv` therefore adds `AckInv`: at
`ack`, `ackout` and `discard`, the message's job is not open, or orphaned, or has another
dispatch in flight. A dispatch that a route sends meanwhile must really be another, which
is `QueueInv`: messages in flight have distinct numbers no larger than the row's, and
what the engine holds before its ack is still in the queue. The implementation of `JobPromise` maps each action to one abstract step
under these. `SawInv` (in the handler's `try` and `except`, the run began with an open
job) gives `ReopenedOnlyByRequestOrRun`. `SeenCancelNeverCompletes` needs the types only: of
all that writes a status, the end of a run alone writes `completed`, after it looked at what
it saw.

**ExchangeMigrator.** `LedgerInv` says that what the links in the cursor and in D1 cover
is accounted for, together with the link of the folder in progress, except for the items
still to export or import. `OrderInv` says that the cursor of a run is at least
as far as D1, that no link is ahead of the source, and that the link in hand is at least
as far as the cursor's; it gives `CheckpointMonotonic`. `DeliveryInv` gives `CompletedFullPass`:
a folder that a cursor counts as done is `Served` (its items of the time of the issue are
accounted for), in a full pass the folder in progress is but for the items and the batch
still to do, and without a stop so is every folder that the loops are past. It rests on
`AccountGrows`, which follows from the steps of the ledger. `CauseInv` (the buffer is empty
once the final flush is done, and a run leaves early only on a stop) gives
`ExcusesHaveCause`. `DeltaInv` is the delta pass's `DeliveryInv`: what is new in the mailbox of
the folder link about to be stored is accounted for, but for the folders and items still to
do; after it was stored, without a stop, all of it; `LinkInv` says that this mailbox has a
destination. `MovedInv` gives `MovedOnce`: what is at the destination is behind a link of D1
between runs and behind one of the cursor during a run, or behind the link in hand, or
forgotten; inside a folder the items still to do meet that only where the old link has them,
which on a delta pass it has not. It needs `OrderInv`, by which a link covers items of its own
folder only.

**OneDriveMigrator.** `FeedInv`: drive and feed are trees, the feed is a past of the drive
and files are copied when no folder is left. `HierarchyInv`: a folder behind a link is
mapped or was cut; with the shallow-first order this puts every upload in its folder.
`LedgerInv` as above. `DeliveryInv` gives `CompletedPass` for full passes: what counts as done is `Met`
(at the destination no older than at the issue, recorded or excused), the drive is never
older than the job, and in a full pass all files are met but those left and those buffered.
`VersionInv` follows versions in place of files and gives the rest of `CompletedPass`: every
file has reached the version behind each link, or is excused or overlooked, whatever the pass, a
stop or a new issue did.

**Onboarding.** `TypeInv` adds what each request holds in each of its phases. `WorkInv`
adds to `PasswordsWork` and `ProvisionedHasAccount` that a request past the creation names an
account that EntraShift created, with its own password as long as it holds one, and rests on
accounts never changing. A body writes `provisioned` only by making the row claimed
(`PatchedRow`, `AddedTypes`), for any set of bodies. `LedgerInv` is the abstract ledger's
own invariant. `FreshInv` (a request about to create an account has a password that no account
and no other request has, for a user whose row was there) gives `OnlyFailuresLockOut`: a password
given up on the way to an account opens none, and one given up later goes in a failure.

**Sessions.** `TypeInv` adds what a tab and a callback hold in each phase. `SessionInv`
says that what tabs, rows and callbacks hold was issued, that what was consumed or signed
out is gone from its table, and that a late callback is nowhere past its select; since a
name is issued once, nothing that ended comes back. `FreshInv` follows the retry: while the
session has not moved since `/api/me` was asked, the cookie of that call, then the token it
gave, then cookie and header of the repeated write are all the browser's session.

**BudgetGovernor.** `RequestInv` says what a request knows of the row that it read: usage
only grows within a day, so what was exhausted stays so. `FlagInv` follows each recorder:
the flag it is about to write has a cause, and a recorder marked alone computed it from
the row as it still is.

**TenantConnections.** Ids are drawn once, so a row with a request's id is the row it read or
the same role connected anew, which `raced` and `overtaken` mark; `Vouched` says that the
verdict to be written was reached with the credentials the request holds, `Naming` that the
name to be audited is the row's.

**Console.** `QueryInv` adds to the property that every list request in flight carries the
query in force, and that is what aborting the older ones gives; `PageAnswers` is the lemma that a
page below the cursor continues the answer, ties included, for any page size. `ListInv` says
the same of the mapping list with the age of its answers, and needs `SentInv`: a request
belongs to the screen that sent it, so an acknowledgement on the mapping screen is one that
reloads. `SpinInv` is the property itself with the requests per slot and
rests on `ImportInv`: no import is answered as a success, so its handler never turns the
`adding` flag of the other button. `RetryInv` keeps what the monitor showed at the click.

**Only model-checked.** `OpenJobSettles`, because liveness under fairness and ENABLED are
beyond the prover; and the refuting runs, whose counterexamples TLC finds. Every other
property of a passing run is proved. Five properties are proved and left out of the runs, which
check what they serve: `DispatchNumbersUnique` and `SeenCancelNeverCompletes` (JobLifecycle),
`CheckpointMonotonic` (ExchangeMigrator; a resume point that went back would break
`MovedOnce`), `RowsEndInOrder` (Sessions: a session goes by its own sign-out or its expiry)
and `RemovedStaysRemoved` (TenantConnections: nothing brings a removed row back). Nothing
proved depends on a recursive definition, and induction over data is not used.

## 5. What is not modelled, and why

- The throttle governor: the engine runs one job at a time and awaits its requests one by
  one, so its semaphores are never contended. The Graph client appears by its outcomes
  (throttled, job-fatal, item-fatal) in the migrators.
- The text of CSV files: parsing is recursion over data. What an accepted row does is in
  `Onboarding`.
- Cryptography and token verification: pure functions of their input, with a cache of
  public keys.
- The rate limit: a counter in one isolate's memory whose refusals every client model
  allows for. The development sign-in.
- Dashboard, reports and their exports, the provisioning tab's downloads: formatting of
  queries that change nothing, or routes that `Onboarding` has.
- Layout, wording, logging, metadata of items, name remediation: no property is
  about them.
- Folders of the Exchange destination, of which a kill may leave two, and duplicates within one
  import's attempts: `dest` is a set of items, or the version of a file.
- The daily quota of the platform but for its 429, which is one more failing call.
- Time but for the order of its events.

## 6. Plan

Done, in this order because a forgotten job or a lost item is the worst the system can do:

1. `JobPromise`, `JobLifecycle`, its runs and proofs.
2. `PassLedger`, `ExchangeMigrator`, its runs and proofs.
3. `OneDriveMigrator`, its runs and proofs.
4. `Onboarding`, its run and proofs.
5. `Sessions`, `BudgetGovernor`, `TenantConnections`, `Console`, their runs and proofs.

What would be worth adding, in this order: `parseCsv` against a
reference definition; a composition of the console with the steps of `Onboarding`'s routes in
place of its single-step ones.
