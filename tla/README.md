# A formal model of Local Foundry

Local Foundry (`backend/`, `frontend/`, `kits/`, `release-template/`, `scripts/`)
is a builder that runs on one machine: a FastAPI process keeps projects in
PostgreSQL and on disk, lets a language model edit their source, validates them
in Docker, and exports, saves or packages what passed. This directory holds TLA+
specifications of the part of it that is concurrent, persistent or paid for, the
TLC configurations that check them, and theorems about them checked by TLAPS.
`PROJECT.json` maps each definition to the lines it stands for.

## 1. The system

| part | state it keeps | operations | talks to |
|---|---|---|---|
| launcher (`main.py`, `db.py`) | per-project locks, `active_runs`, `cancellations`, a pool of 3 threads; rows of `runs` | launch, work, cancel, handlers that take the lock, shutdown, restart | every background action below runs inside it |
| source tree (`files.py`, `main.py`) | `source/`, `snapshots/`, rows of `versions` | save_version, restore, edits by the agent | validation, packages, release, GitHub, native builds read it by digest |
| validation (`validation.py`) | `projects.last_validation` | run; read by release, GitHub, detail | Docker, backups |
| packages (`dependencies.py`) | rows of `dependency_requests` | propose (agent), approve, reject | source tree, image builds |
| release (`releases.py`) | none | bundle | source tree and report |
| GitHub (`github.py`) | `repo`, `sync_state`; the remote branch | review, save | `gh api` |
| file automation (`automations.py`) | one managed folder shared by all projects, `.foundry-trash`, rows of `file_plans` | create_plan, apply, undo | the user's own changes to the folder |
| milestones (`features.py`) | rows of `feature_plans` | create, execute, resume | build loop, meter |
| meter (`usage.py`) | recorded usage, reservation | allowance, record | providers |
| build loop (`agent.py`, `builder.py`, `providers.py`) | conversation, session | ask, retry, dispatch of tools, repair rounds | everything above |
| native builds (`mobile_builds.py`) | one JSON record, log and artifact per build | execute, listing, download | source tree, toolchains |
| recovery, backups (`recovery.py`, `continuity_archive.py`, `backups.py`) | archives, pairs of dump and checksum, rows of `recovery_exports` | export, download, import, backup, restore | all rows, files and the database of a project |
| memory (`memory.py`) | `project_memory` with a revision | save (user), remember (agent) | |
| documents, code index (`documents.py`, `codebase_rag.py`, `code_tools.py`) | index tables | rebuild, query | |
| delivery queue (`kits/accounts`: `integrations.py`, `ops.py`) | `app_outbox` | enqueue, tick and deliver (worker), retry (administrator) | mail and webhook providers; queued by payments and sign-in |
| payments (`kits/accounts`: `billing.py`) | `app_orders`, `app_stripe_events` | checkout, webhook | Stripe; announces in the delivery queue |
| accounts (`kits/accounts`: `auth.py`, `security.py`, `manage.py`) | users, sessions, one-time tokens | registration, sign-in, links, invitations, roles | delivery queue |
| release operations (`release-template/ops.py`) | `staged.json`, `state.json`, `backup.key`, backups, the containers and their database | stage, deploy, rollback, backup, restore drill | Docker on the host of the deployment |
| interface, sandbox, scripts, installers | processes and files | | |

What is hard in it, and what has to be right:

- *Concurrency.* Request handlers, pool threads and a shutdown race over the
  launcher's tables. One operation per project, three at most, none lost.
- *A database whose answers may be lost.* `db._attempt` never repeats a statement,
  so any UPDATE may raise after its commit. Rows must not lie afterwards, locks
  must be released, a file operation must not be half remembered.
- *Crashes.* Renames, rows and requests to a paid provider are separate steps.
  What was moved must be found again, what was billed must be counted, what was
  replaced must have been saved.
- *Others at work.* Users change the managed folder, edit `source/` on disk and
  push to the repository between any two steps. Checks by digest must notice.
- *Paid requests.* A budget holds over every run of a plan, with estimates in
  flight carried across crashes, and no shell command is replayed.
- *Two things that must agree and are written apart*: a record and its artifact, a
  dump and its checksum, a row and its directory, a state file and the containers.
  Whichever is written last, what is listed must be usable.
- *Decisions carried across a wait.* A password verified, a role read, a digest
  reviewed, images staged: each is used later and must still hold then.

The hazards, each at its line, are listed in `PROJECT.json` with the properties
that would notice them.

## 2. The modules

### Runs — the operation launcher

`lock`, `active`, `token` are the three dictionaries of `main.py:24-28`, `row` is
`runs.status`. `pc` says how far a run is between the statements of `launch()` and
`work()`: *claimed* (under `guard`), *queued*, *working*, *settling* (the UPDATE),
*settled* (the pops under `guard`), *popped* (the release). Each is its own action,
since another thread may run between any two: `Claim`, `Insert` or `InsertFails`,
`StartWork`, `FinishWork`, `Settle`, `Pop`, `Release`; beside them `Cancel`,
`BeginEdit`/`EndEdit` (the handlers that hold the lock without a run), `Shutdown`
(drains: queued work is shed and keeps its lock), `Exit`, `Crash` and `Restart`
(`db.init`). `lost` remembers the rows whose last write raised. What an action
does to the project is left to the other modules.

### Operations — what the launcher promises

The abstract specification that `Runs` implements: runs are accepted, act on a
project that no other run acts on, at most `MaxActive` at a time, end, and are
reported, or their report is lost; the process may drain, die and restart, and
what it left running reads *interrupted*. `Runs!Board` maps `row` to `shown`, the
working runs to `acting`, the outcome between an action and its UPDATE to
`inHand`. Locks, tables, threads and events do not appear in it.

### FilePlans — file automation

`tree` is what is at each visible path of the managed folder, `litter` the
directories with hidden files (which the digest does not see), `trash` the plan's
trash, `plan` the row. `create_plan` is two actions, `Validate` and `CreatePlan`,
because it reads the folder twice without the lock; `apply` and `undo` are one
action per rename, with `TurnBack` and the two put-back loops of their `except`
clauses, `AnswerLost` for the UPDATE that raises and `Crash` between any two
steps. `User` creates, deletes, renames, removes and litters at any time. A check
and the rename it guards are one step. A rename may replace what is there
(`Replaces`): a move the file at its target, and moving to the trash the file that
the same plan put there in an attempt a crash cut short. `victim` remembers whose
rename it was.

### Milestones — resumable plans and their budget

`row` is the `feature_plans` row, `mem` the copy of it that `execute()` changes
and persists as a whole; `Persist` has every outcome of an UPDATE. `pc` follows
`execute()` (starting, next, completing, raised, paused) and the inner
`agent.build()` (asking, sending, settling, acting). Tokens, requests and dollars
are one quantity; `Estimates` are what `Meter.allowance` reserves, a request may
cost `Excess` more. Repair rounds are further requests of the milestone.

### Sources — source tree, validation, packages, release

`op` is the one operation that holds the project's lock (what `Runs` proves is
the reason why there is one), with its step and what it remembers across its
steps: the digest it read, the tree it staged, the checks it still has to run.
An approval reads the folder four times, each a step of its own: `CompareFirst`,
`ListPackages`, `CopyFiles` and, when the images are built, `CompareAgain`.
`MoveAway` and `Place` are the two renames of `files.restore`; `Raise` makes any
statement fail and `Unwind` leads to the `finally` that follows. `Outside` edits
the folder on disk, in the ways that the constant `Edits` lists. A tree is its
editable code and the packages its manifests list, `Empty` a tree without
manifests, `Missing` no directory at all.

### GithubSaves — saving to a GitHub repository

`report` is the source on which the last validation passed, which both handlers
require (`Validated`). `row` is `repo` and `sync_state`, `remote` the branch,
`review` what the last `review_github` returned and the user sends back, `op` a
`publish` in progress with what it read so far: the source it exported, the head and
files it saw, what it manages. `Raise` ends it anywhere; `CreatePrivate` and `Patch`
may lose their answer. `Push` is somebody else's commit, `Edit` the program's own
work on the source, which takes the project's lock as `publish` does. `foreign`
(what others put on the branch), `pushed` and `mishap` are history. A file already
on the branch when it is read for the first time counts as GitHub's placeholder if
the source has one of that name: that is the code's rule.

### Outbox — the delivery queue of the Accounts kit

`row` is `app_outbox`, `job` what a worker of `tick()` carries from its first
transaction (the row, the time it read, the attempts) to its second, with the
provider's answer in between; `request` is a `retry()` of `ops.py` between its
SELECT and its UPDATE, which lock nothing on PostgreSQL. The two transactions are
`Sweep`, `GiveUp` or `Take`, and `Finish`; the call between them is `Accept` or
`Refuse`, where the answer of an accepted call may be lost. `Vanish` is a worker
that dies. A lease is the worker's name: the code draws a new one for each tick,
and a worker has one tick at a time. The provider (`known`, `effects`) answers a
key it remembers without sending again. The unit of time is an hour, so leases
and backoffs are 0: they may run out under any call.

### Billing — payments of the Accounts kit

`order` is `app_orders`, `seen` is `app_stripe_events`, `announced` counts the
"order.paid" entries given to the queue. A checkout is `Begin` (its first
transaction and the checks after it), `Post` (Stripe's answer, or its loss) and
`Save`; several run at once for one order. Stripe's side is external: `key` and
`phase` for idempotency keys and sessions, `sent` for its events, two of each,
which `Webhook` takes in any order. A webhook that raises is rolled back and so
is no step at all: an event that cannot be placed yet is just not taken.

### Accounts — accounts, sessions and one-time links of the Accounts kit

`user`, `token` and `session` are the three tables; `link` is what was ever sent,
so that `retired` and the properties can speak of links that are spent. A handler
is one or two transactions. What the first one read is in `call` while others run:
`BeginLogin` verifies the password, `OpenSession` inserts the session under the
advisory lock after looking again; `BeginAdmin` is `current_user()`, `ChangeRole`
and `Invite` the locked part. `Clean` is the worker's deletion of expired rows.
A password is named by the link that set it. A cookie that was logged out, or whose
logout is still running, is not drawn again: tokens are random.

### NativeBuilds — Android and iOS builds

`pc` follows `execute()`: the record (*started*), the source (*checking*), the
stages of `compile_native` (*compiling*), inspection, the copy, the record that says
completed (*publishing*), the event after it, and the `except` and `finally` clauses
(*raised*, *unlinking*, *cleaning*); *ending* is `launch.work`'s UPDATE. `exc` is
what is being raised. `json` is `build.json`, `record` its copy in memory, `file`
the artifact. `Cancel` sets the event at any time, and only the calls of
`check_cancel` see it. A download is `Ask`, `Verify` and `Serve`, without a lock.
`status` is the row of `runs`. A stage that fails prints its environment, and
`Secrets` says what is blotted out of it.

### Recovery — backups and recovery archives

One operation per project (`op`), with its step and what it has read. A backup is
`Dump`, `Place`, `Seal` (the dump renamed, then its checksum); a restore takes
such a backup first, then stops the application and replaces the database; an
export takes one, reads the source twice, packs in plain text, encrypts and
inserts its row; an import makes a project under a new id and commits all rows in
one transaction. `AppWrites` is the project's own application, which runs on
meanwhile, `Edit` a user's editor, `copy` an archive that was downloaded and may be
`Damage`d. `Fail`, `ExportFails` and `ImportFails` raise at any step, `Commit` may
be committed and still raise, `Crash` ends everything but the containers.

### ReleaseOps — operating a deployed release

`installed`, `image` are what the operator put on the host: the unpacked release,
and the images its tags name now. `staged`, `state` are the two JSON files, `ledger`
the migrations applied to the production database, `running` what each service
runs. `command` holds the file lock: a deployment is backup, drill, record, migrate,
one `Replace` per container, the check of the ledger, and the record of success
(`Close`) or failure. `Abort` is an exception nothing handles, or a kill. `key` is
the key file, 0 between `CreateKey` and `WriteKey`; a command that is killed there
leaves an empty file, which later commands refuse until the operator removes it.

In each module a definition named `...Fault` just before its namesake is not part
of the specification: it is a slip that a property must notice.

## 3. What the runs check

| run | instance and bounds | question |
|---|---|---|
| `runs_all` | 3 projects, 3 runs, 1 locking handler on one of them, 2 slots, pool of 2, no pausing outcomes, one run of either kind and two that can be cancelled | do exclusion, the cap and the agreement of tables, locks and rows survive every interleaving, shutdown, crash and lost statement; does every project get free; is `Operations` implemented, liveness included? |
| `file_plans_user` | 1 plan of up to 2 operations, paths with one nested, 2 files, 2 changes by the user, 1 crash | are apply and undo all or nothing and is nothing lost, whatever the user does? |
| `milestones_resume` | 2 milestones, budgets 2 and 3, estimates 1 and 2, excess 1, 2 posts, 2 requests per milestone and run, 3 runs | is the bill accounted for once, the budget kept, nothing replayed or redone? |
| `sources_ops` | 2 codes, 1 request, 2 checks, 3 operations | was what is released, reported, replaced or given packages validated, saved or reviewed? |
| `github_save` | 2 files, 2 exchangeable contents, 4 commits | is foreign work kept, what was validated and reviewed committed, the baseline true? |
| `outbox_queue` | 2 rows, 2 workers, 1 administrator, 2 attempts, window 1 of a memory of 3, clock to 3 | does a message go out once, stay sent, and settle? |
| `billing_webhooks` | 1 order of 2 units, 2 checkouts at a time, 2 events of each kind, window 1 of a memory of 3, clock to 3 | is there one session, and do orders say what their events say, whatever their order? |
| `accounts_admins` | 2 users, 2 sessions, 2 requests at a time, 2 links, clock to 2 | does every session rest on the present password and role, does an administrator remain, does only a live link change a password? |
| `native_builds` | 2 builds one after the other, 2 exchangeable sources, 1 download, 1 crash, 1 damaged file | is what is listed whole, is what is shown what happened, does a cancelled build leave nothing, is no password kept? |
| `release_ops` | 2 releases, the second with one more migration, 2 services, images built twice, 1 backup at a time, 2 keys | is what the record calls healthy served, does only what was staged run, is the database migrated only after a restored backup, does the key open every backup? |
| `recovery_archives` | 1 project and 1 imported from it, 2 exchangeable sources and databases, 2 backups, 4 operations | is what is listed whole, is no database replaced without a usable copy, is what is imported what was exported, bill included? |

One run is expected to fail, on one sentence of the repository:

| run | sentence | what happens |
|---|---|---|
| `file_plans_collision` | README: the file agent rejects collisions | validation and digest of a plan straddle another project's apply; `replace()` then overwrites its file |

More places where the code and its words differ were met while modelling. The
models have them as the code does, and the properties are worded around them;
they have no run of their own:

- A post that `providers.ask` gives up and repeats may have been billed and is
  counted nowhere (features.py:70: "a lost response may have been billed").
- An approval whose batch failed after its swap can only be rejected, with the
  packages in place (main.py:510: "No packages installed."); between the two
  renames of a swap there is no tree (dependencies.py: swaps it atomically).
- Files that an approval copies while somebody edits the folder are put in place
  if the edit is taken back before the second digest (dependencies.py:147, 187;
  README: "cannot silently apply to a different source version"), which
  `AppliedToReviewed` excepts.
- A hidden file in a directory that a plan made lets undo's digest check pass and
  the undo fail (README: undoable until the *visible* workspace changes).
- `ops.retry` can requeue what a late worker has just sent (ops.py: "Only recent
  failed deliveries can be retried"), which `SentStays` has to allow.
- A rollback writes no record before it replaces containers: cut short, it leaves
  `state.json` healthy with two releases serving (`HealthyIsServed`, `strayed`).
- What the application writes between a restore's safeguard and its stop is lost
  (`DataKept`, `wrote`): the safeguard is taken first (backups.py:67).
- An import whose commit raised removes the files of a project that is listed
  (recovery.py:321; `ListedIsWhole`, `cut`), and a crash in an export leaves its
  plaintext staging file, which nothing removes later.
- `invite()` does not look at the administrator's role again in its second
  transaction, as `change_role()` does.

Why the bounds are enough. In `Runs` three runs on two slots give each race a
winner, a loser and a bystander, a third project makes the cap bite before the locks
do, and the proofs below remove the bound. The action constraint `Narrow` of
`MCRuns` also has run ids used in order and the first run not on the last project,
which loses nothing (a run is claimed once, and names are only compared); it
restricts claims and the handler only, no action with fairness. A file plan needs
two operations for a rollback, a directory made or needed by the other operation,
and a second file to be overwritten; two plans are the fewest that can disturb each
other. A milestone plan needs two items (skip one, resume the other), three runs
(interrupt, interrupt again, finish) and a second budget. For `Sources` three
operations allow edit or approve, validate, release or restore; a digest can only be
fooled by editing there and back, which two codes provide; users edit the code
only (`CodeEdits`), the proofs below take any `Edits`. (The proofs below remove
the bounds of file plans, milestone plans and `Sources`.) `GithubSaves` needs four
commits: create, a push before the first read, two saves; or create, save, a push,
and the save it refuses. Contents are only compared, and the proofs below remove the
bound on commits. `Outbox` needs two workers (one stalls, one takes its row), two
rows (the older one is due first) and a clock that passes the window, the memory and
the retention; the proofs below remove these bounds. An order of two units has a
partial refund, a full one, and a stale one; orders share no state but the clock,
and the proofs below remove these bounds too. `Accounts` needs two users (to demote
each other), two requests that overlap, two links of one user, and a clock that
passes a link's life and an idle session; the proofs below remove these bounds.
`NativeBuilds` allows one build at a time: the second can only meet what the first
left behind, and the proofs below hold for any number. `Recovery` needs two backups
(the one restored and the safeguard) and four operations: backup, restore, export
and import, or start the application, restore under it, and so on; `ReleaseOps`
needs a release that adds a migration, so that a rollback may be refused, images
built twice under one tag, and two keys. The proofs below hold for any number of
either. Counters that exist only to bound a run are constants named `Max...`
(MaxUser, MaxCrashes, MaxDamages, MaxSteps, MaxStarts, MaxOps of `Sources` and
`Recovery`, MaxCommits, MaxSessions, MaxLinks, MaxImages, MaxBackups, MaxKeys,
MaxTime), LastTime and LastEnqueue (`Outbox`); MaxActive, PoolSize, Attempts,
MaxAttempts, Checks, the lives of `Accounts` and the MaxOps of `FilePlans` are the
code's own limits, made small. `CHECK_DEADLOCK FALSE` is set where a bounded run
really stops (no budget, operations, links, images or changes left); `runs_all`,
`github_save` and `outbox_queue` check deadlock. Symmetry is used only for model
values the specification compares, and never with liveness.

Fairness. `runs_all` assumes weak fairness of what a run does by itself (`Progress`)
and of a handler's release: pool threads and request threads are scheduled by the
operating system, and every statement, provider call and child process has a timeout
(`process.run`, `providers.ask`, psycopg). Nothing is assumed of users, of the
process staying up or of its restart, so the liveness properties end "or the process
went down" or "an answer was lost". `outbox_queue` assumes that workers keep ticking
(`run_worker` is a loop that catches everything) and that a call ends (15 second
timeouts); not that it succeeds, nor that workers survive it. The bound of the clock
lies past the window of every row. `billing_webhooks` assumes that Stripe repeats an
event until it is acknowledged, and nothing of customers or checkouts.

## 4. What is proved

`RunsProofs` proves for any number of projects, runs and handlers, any MaxActive
and any PoolSize, from `RunsAssumption` alone (finite sets, distinct names,
positive limits):

| theorem | statement |
|---|---|
| `InductiveInvariant` | `IInv` always holds |
| `MutualExclusion` | `OneOperationPerProject` |
| `Agreement` | `TablesAgree`, with the type invariant and `RunningRowHasOwner` |
| `FinalRows` | `TerminalRowsFinal`, an action property |
| `OperationCap` | `AtMostMaxActive` |
| `Implementation` | `Board!Safety`: the launcher implements `Operations`, without its liveness |

`OneOperationPerProject` is not inductive: that a working run holds its lock
follows from the agreement of table and lock (`TablesAgree`), whose preservation
needs to know which rows and steps go together (`StepsAgree`) and that a project
has one holder. `IInv` is their conjunction with `TypeOK` and the two facts about
rows, and TLC checks all but `StepsAgree` in `runs_all`. There is one lemma per group
of actions. `OperationCap` adds `CapInv`, the bound on the table's domain: the map
from registered runs to their projects is injective by `TablesAgree`, so the bound
on the table bounds the runs (`RegisteredFit`, by the cardinality theorems).
`Implementation` has one lemma per abstract action: a thread that takes a run is
`Act`, whose guard is `OneOperationPerProject` and `CapInv` again, an UPDATE or its
loss is `Report`, and everything about locks and tables is a stuttering step.

`FilePlansProofs` proves for any folder of two levels, plans of any length and number,
any changes by the user and crashes, from `FilePlansAssumption` (the folder is a tree,
names are distinct, the files it starts with differ):

| theorem | statement |
|---|---|
| `FilePlansInvariant` | its `IInv` always holds |
| `FilesAreSafe` | `FilesSafe`: `NothingLost`, `TrashRecoverable` and the type invariant |
| `UndoIsExact` | `UndoRestores`, an action property |
| `FailureIsExact` | `AllOrNothing`, an action property |
| `UndoRefusals` | `UndoRefusalExplained`, an action property |

Nothing in these properties says how a rename finds what it needs. The invariant
starts from what validation leaves of a plan: its operations take, make and need
different places, and a directory is made before it is used (`Shape`); what they
take was there and what they make was not (`Against`). From that the files of the
folder after the first k operations follow from those of the preview (`After`), and
carrying out, putting back and undoing all move k by one: `AfterForward` and
`AfterBackward`. A job is always at such a point (`Running`, `CalmJob`), unless
somebody else changed the folder, and so a job that got back to the beginning finds
the digest again (`AfterNone`) and one that put everything back finds the files that
apply left (`AfterUnique`). Of directories and hidden files `After` says nothing,
since the digest does not; `Exact` says it while no one touched them, and that is
what makes every undo possible. `Placed` (a file is in one place, a directory holds
what is in it) holds whatever anybody does. There is one lemma per action, and
`ForwardKeeps` and `BackwardKeeps` are the renames all four loops share.

The proof changed the model in one place. `NothingLost` blamed only moves, and did
not come out inductive: after a crash the row still says "planned", and the plan of
a file that somebody made, took away and made again can be applied a second time,
over what the first attempt put into the trash. `Replaces` now covers that rename
(`automations.py:168` does not look before it renames), and `victim` charges it to
the plan, which somebody must have disturbed.

`AccountsProofs` proves for any number of users, sessions, links and requests at a
time and any lifetimes, from `AccountsAssumption` and `NoneAssumption` (finitely
many users, natural numbers, distinct names):

| theorem | statement |
|---|---|
| `AccountsInvariant` | its `IInv` always holds |
| `HonestSessions` | `SessionsHonest` |
| `AnAdminRemains` | `AdminRemains`, an action property |
| `LiveLinks` | `ByLiveLink`, an action property |

That a session rests on its account's present state needs to know that what a
running handler has read still exists and stays verified (`CallsKnow`). That only
the newest link works follows from `LinksAgree`: links are numbered as they are
sent, and a stored one is the newest of its kind and not retired. `OneLeft` is the
arithmetic of the last administrator.

`SourcesProofs` proves for any contents, requests, checks and number of operations,
from `SourcesAssumption`, `EditsAssumption` and `NoneAssumption` (a starting
template, at least one check, edits that make a tree of a tree, and names that are
not trees):

| theorem | statement |
|---|---|
| `SourcesInvariant` | its `IInv` always holds |
| `NothingOwedLost` | `WorkSaved`, with the type invariant |
| `ReportsVouch` | `ReportVouches` |
| `ReleasesValidated` | `ReleasedWasValidated` |
| `AppliedReviewed` | `AppliedToReviewed` |

The properties speak of what is stored; the invariant has to follow an operation
between its statements. Which operation takes which steps (`StepsAgree`), and what it
remembers is there when it comes to use it (`Remembered`); a version has its
snapshot, and what is owed is one before the tree changes (`SavedFirst`).
`ChecksWatch` counts the edits made under a validation: none, and its checks saw one
tree; one, and the digest at the end differs. Two may cancel out, which the digest
cannot notice and the properties except. `GateHolds` says the same of an export,
`CopyWatch` of the copy that an approval makes between its two digests, and
`RequestsAgree` that the request is the pending one that was reviewed.

`MilestonesProofs` proves for any number of milestones, runs and crashes and any set
of budgets, from `MilestonesAssumption` (natural numbers, at least one
milestone and one attempt, estimates above zero):

| theorem | statement |
|---|---|
| `MilestonesInvariant` | its `IInv` always holds |
| `BillIsSafe` | `BillSafe`, with the type invariant |
| `BudgetKept` | `WithinBudget` |
| `NothingReplayed` | `NoReplay` |
| `CompletedIsFinal` | `CompletedStays`, an action property |

Usage and reservation are in two places, and each has to account for the bill when
the other is lost: `RowAccounts` and `MemAccounts` say what the row and the run's
copy know at each point of a request (between requests nothing is reserved; while one
is out the row has its estimate, within the limit). `CompletedStays` rests on
`NoneForgotten`, since an update writes the run's whole copy over the row, and
`NoReplay` on `OneRun`, that a milestone whose commands began is never pending
again, so that a later run resumes it. `Remaining` is a set of numbers, and that
its first is one of them is `LeastNatural`, by well-foundedness.

The first half of `PublishingProofs` proves of `GithubSaves`, for any set of paths and
contents and any number of commits, from `GithubSavesAssumption` (distinct names,
and `None` no commit):

| theorem | statement |
|---|---|
| `SavesInvariant` | its `IInv` always holds |
| `BaselineSound` | `BaselineTrue`, with the type invariant |
| `ForeignSound` | `ForeignKept`, an action property |
| `SavedSound` | `SavedAsReviewed`, an action property |

`publish` compares heads and then trusts what it read, so the invariant says what
each read is worth while the branch is still where it was read: that what others
own is what is on the branch and not managed (`PriorTold`), that the files seen are
the branch's (`SeenTrue`), that the commit just written is the source and what
others had (`Written`), and that the recorded files are that too (`Recorded`). All
four are about equal heads, which is enough because a commit is never made twice
(`HeadsKnown`). The source cannot change between report, review and commit because
the lock is held (`SourceHeld`), and `Explained` keeps the reason why a head differs.

The second half of `PublishingProofs` proves of `NativeBuilds`, for any number of
builds, sources, downloads, crashes and damaged files, with no need of the module's
assumption:

| theorem | statement |
|---|---|
| `NativeBuildsInvariant` | `BuildInv` always holds |
| `FilesAreSound` | `FilesSound`, with the type invariant |
| `OutcomeIsShown` | `OutcomeShown` |
| `CancelledIsGone` | `CancelledLeavesNothing` |

The invariant is one fact per build (`Good`): what is on disk and recorded at each
step (`Began`), what an exception has made of it so far (`Raised`), what a build that
is over or died left (`Left`), and what a download may have to do with it
(`Handed`): only one that was published, so never one that was cancelled. A step
belongs to one build, and `OneBuild` says that it leaves the others as they are.

The first half of `BackupProofs` proves of `Recovery`, for any number of projects,
backups and operations and any contents, from `RecoveryAssumption` and
`NoneAssumption` (plans are plan rows, `None` is none of the records and values):

| theorem | statement |
|---|---|
| `RecoveryInvariant` | its `IInv` always holds |
| `WholeSound` | `ProjectsWhole`, with the type invariant |
| `DataKeptSound` | `DataKept`, an action property |
| `ImportedSound` | `ImportedAsExported`, an action property |

A project has its own operation, so the invariant is one fact per project (`Good`):
which operation takes which steps (`Matching`), what the backup taken first holds by
then (`Safeguard`), what an import has put beside the listed projects and that it
matches the archive's digest (`Importing`), what an export read and whether an edit
between its two reads spoilt it (`Packing`), and what is listed and offered (`Listed`,
`Offered`, `DumpsMatch`). A step of one project leaves the others as they are
(`SameGood`, `Others`); `ListedByCommit` says that nothing but the last transaction of
an import makes a project appear.

The second half of `BackupProofs` proves of `ReleaseOps`, for any number of
releases, migrations, services, images, backups and keys, from
`ReleaseOpsAssumption` and `MissingAssumption` (each release has its set of
migrations; natural numbers; `Missing` is no number and no record):

| theorem | statement |
|---|---|
| `ReleaseInvariant` | `ReleaseInv` always holds |
| `HealthyServed` | `HealthyIsServed` |
| `OnlyStagedAndSealed` | `StagedAndSealed`, with the type invariant |
| `DrillFirst` | `MigratedAfterDrill`, an action property |

None of the three says enough of an operation under way. `ReleaseInv` adds which
operation takes which steps and holds which backup (`StepsAgree`), that its backup
is of the present database until it migrates and was restored before
(`BackedUp`), how many containers it has replaced and what a rollback leaves if it
stops there (`RolledOut`), that whatever may be served passed staging
(`PassedAgree`) and that all backups have one key (`KeysAgree`). `MigratedAfterDrill`
rests on `RolledOut` too: a rollback runs the migrations, and adds none because it
was let in only at its own schema. Commands that take the lock share one lemma
(`BeginKeeps`), steps that change neither the site nor the record another
(`MoveKeeps`).

The first half of `KitProofs` proves of `Billing`, for any number of orders,
requests, sessions and events, any price and any bound on the clock, from
`BillingAssumption` and `NoneAssumption` (natural numbers, a price above zero,
`None` no session and no key, and the window with the longest request after it
shorter than Stripe's memory of a key):

| theorem | statement |
|---|---|
| `BillingInvariant` | its `IInv` always holds |
| `OneSessionEver` | `OneSession`, with the type invariant |
| `OrdersAreTrue` | `OrderTruth` |

That there is one session is an argument about time (`KeyRemembered`): a request read
its order inside the window and is over `Lag` later (`CallAgrees`), and the key was
first used after the order was created (`KeyAgrees`), so a key that was used is
remembered whenever it is sent. `OrderTruth` needs that an event says what goes on
being true of its session (`EventAgrees`), so that of "paid", "failed" and "expired"
one is ever heard, and that what was heard is of the order's one session
(`HeardAgree`). `OneMore` is the step: one more event, of each kind.

The second half of `KitProofs` proves of `Outbox`, for any number of rows, workers
and administrators, any lease, backoffs and attempts, from `OutboxAssumption`
(natural numbers, and the window with the longest call after it shorter than the
provider's memory, as 23 hours and 15 seconds are of 24):

| theorem | statement |
|---|---|
| `OutboxInvariant` | `QueueInv` always holds |
| `OutboxTypes`, `OutboxSentOnce` | `QueueTypeOK`, `SentOnce` |
| `OutboxDelivered` | `DeliveredOnce`, the two together |
| `SentIsKept` | `SentStays`, an action property |

That a message goes out once needs more than the row: a row is older than the
provider's memory of it (`CreatedInv`), so a row taken inside its window is
delivered, `CallLag` later at the latest, before that memory ends (`JobInv`), and a
repeated call has no effect. A retry keeps `created_at`, which is why the argument
survives it. Steps that only touch rows share one lemma (`HarmlessKeeps`).
`SentStays` adds `LeaseInv`, that a worker which still holds the lease of what it
delivers has not told its answer yet; a retry leaves the lease in the row, which is
why the last UPDATE of a late worker needs more than the row's status.

So every safety invariant and action property that a passing run checks is proved.
Model-checked only are the liveness properties (`ProjectsGetFree` and the liveness
of `ImplementsOperations` in `Runs`, `AllSettle` of `Outbox`, `Recorded` of `Billing`):
liveness under fairness and ENABLED are out of the prover's reach. The
counterexample of `file_plans_collision` is TLC's too. No module here needs a
recursive operator, and nothing is proved by induction over data: what a plan's
operations do together is stated for every prefix of them (`After`) and carried
along by the steps. Three proof modules hold the proofs of two specifications each,
which is why their operators have different names.

## 5. What is abstracted or left out

- File contents, messages and prompts are model values; path, secret, size and
  package name checks are inputs that were accepted, or a statement that raises.
- `Milestones` has one cost where the code has tokens, requests and dollars; the
  rounding of stored dollars is not modelled.
- `Sources` leaves out `preview_url` (README calls it the last start result) and
  the extra gate of Accounts projects; the reads of one digest are one step.
- `GithubSaves` leaves out the branch's name, the privacy check, the layout of the
  diff and the gate version of Accounts projects. The gate of a review and its
  read, the two reads of a review (digest and diff) or of a save (export and
  digest) are one step. A second attempt at a first save uses a new repository
  name.
- `Outbox` leaves out what a message says, the encryption, and the other tables
  that `tick` cleans up. `Billing` takes a webhook's signature and form as checked,
  and an order's price as Stripe has it or the checkout as failed.
- `Lag` of `Billing` and `CallLag` of `Outbox` are an assumption about the host:
  httpx limits each read of a call, and a machine that sleeps for an hour between a
  worker's two transactions is outside of the model (as it is outside of what a 23
  hour window can protect).
- `Accounts` leaves out rate limits, CSRF and origin checks and what a link's mail
  says; a hash is what made it. `application.py`'s records are ordinary rows.
- `NativeBuilds` leaves out the forms of artifacts, the checks of paths, names and
  keystores (a request is admitted or not), and what the toolchains do.
- `Recovery` leaves out sizes and forms of archives (`ImportFails` refuses), and
  messages and memory, which travel as one with the manifest. A database is one
  value, and `RestoreDb` makes it the dump's: objects that the dump does not name,
  which `pg_restore --clean` leaves where they are, are not told apart.
- `ReleaseOps` leaves out overlays and schedules. A compose command is taken to end
  with the program that started it.

### Not modelled

- Two builder processes at once (a shutdown that does not wait for its threads
  while the next process starts): a hazard without a property. What the old
  process does then is bounded by nothing that the code checks.
- Project memory: one UPDATE guarded by its revision, and a locked append; the
  launcher's lock, proved in `Runs`, covers both.
- Document index, code retrieval, diagnostics: computations over files that are
  rebuilt as a whole. Specialist agents: their one lasting effect, a file plan, is
  `FilePlans!Validate` and `CreatePlan`.
- Sandbox, browser checks, interface, templates: command lines, presentation and
  seed files. Wrapper, packaging and installer scripts: command-line tools of one
  process each; `scripts/windows/wsl.py` drives another host through its shell.

## 6. Plan

What comes next, in this order:

1. A variant of `Runs` with two overlapping processes.
2. Project memory and the activation of an upgrade by the Windows launcher.
3. The two reads of a GitHub review and of a save as steps of their own.
