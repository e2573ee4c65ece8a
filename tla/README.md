# A TLA+ verification of rehearsal-db

Rehearsal is a command-line program (TypeScript, `src/src`) that rehearses
database migrations: it captures an approved, sanitized baseline of a source
database, restores it into a disposable local runtime (PostgreSQL, SQLite or
Supabase), applies candidate migrations there, runs the project's application
against it, and takes everything away again. It has no server. Every command is
a process of its own; processes meet on the file system, in the container
engine and in the databases, and any of them can be interrupted or killed
between two steps. That is where this development looks.

Source paths below are relative to `src/src`.

## Inventory

| Component | State it keeps | Operations | What is hard |
|---|---|---|---|
| Workload queue (`runtime/resources/workload_queue*.mts`) | one ticket file per request, shared by all projects of a user | acquire, poll, release, review, recover | no lock at all: a bakery algorithm over a directory, dead owners, reused process ids |
| Project operation lock (`shared/operation_guard.mts`, `operation_progress*.mts`) | a lock directory with owner and progress records, a history file | acquire, take over, publish, release | takeover of dead owners' locks by name, half-made locks |
| Runtime lifecycle (`runtime/lifecycle/lifecycle_engine.mts`, `runtime_startup_ownership.mts`) | runtime marker, candidate receipt | dispatch, rollback, startup cleanup | rollback that fails itself, containers of somebody else |
| PostgreSQL runtime (`targets/postgresql*.mts`) | container, volume, marker, backup, retirement receipt, failure receipt | reset, start, verify, migrate, stop, discard | killed between any two of these |
| Supabase runtime (`targets/supabase*.mts`) | workdir with the provider's configuration, migrations, marker and receipt; containers and volume of the provider | the same, and whole rehearsals | a database that belongs to somebody else's CLI, which applies whatever it finds |
| SQLite runtime (`targets/sqlite*`) | database file, sidecars, marker, a worker process, the baseline it copies | the same, and capture | replacing files that are open; a worker that outlives its manager |
| Runtime stacks (`cli/runtime`, `runtime/lifecycle/persistence.mts`) | the receipts of one execution | start, run, open, reset, migrate, stop, discard over several targets; completion mode | reverse stop after a partial failure or a cancellation; a cleanup that a second signal must not cut short |
| Container engine (`runtime/engines`) | receipt of an engine Rehearsal started | ensure, release when idle, reviewed stop | shared with other projects and with the user |
| Baselines (`baseline`) | generations, active pointer, approvals | build, approve, activate, verify, prune | crash between generation and pointer |
| Source access (`source`) | temporary credential, capture | lease, read, revoke, shape | expiry and revocation races |
| Restore and its cache (`runtime/recovery/restore*.mts`, `runtime/resources/restore_cache.mts`) | key, writer lock, copies and receipts | encode, sign, reuse, stream | overlapping restores, a file edited under the stream |
| Reviewed removal (`cleanup.mts`, `container_retirement.mts`, `runtime/recovery/stale_environment*.mts`) | none; a plan is made twice | preview, confirm, look again, remove or stop | plans that are stale when executed, lost answers |
| Inventory and admission (`resource_inventory.mts`, `workload_capacity.mts` and what they use) | none | list, classify, measure, judge | several requests to a daemon that does not stand still |
| Migration impact (`runtime/migrations/impact`, `targets/migration_impact_runtime.mts`) | none | plan, count in one transaction, report | names that come to stand for something else, a runtime replaced during the query |
| Application session (`application`, `shared/owned_process.mts`) | owned process groups, the owner of the terminal input | launch, readiness, hold, stop | a signal, a deadline and an exit at once; a signal between two owners of the terminal |
| Identity (`identity`) | provider connection, claims | connect, plan, execute, verify | a transaction, and copies of files that it does not contain |
| Migration history and topology (`runtime/migrations/migration_history.mts`, `runtime/lifecycle/topology*.mts`) | none | compare histories, assemble a stack | names compared without contents, one resource claimed twice |
| Project, CLI, migration insights | configuration file | parse, render, plan | little state; pure functions |

How they interact: the CLI (`cli/rehearsal.mts`) takes the project operation
lock, binds cancellation, and dispatches a command. A runtime command ensures
the engine, waits for admission in the workload queue (if configured), and runs
the target manager in a child process; the manager keeps its records in the
private runtime directory and its data in the container engine. Baselines and
receipts connect commands of different days: what one command wrote, possibly
before it was killed, is all the next one knows.

## Modules

| Module | Models | Checked by | Proved |
|---|---|---|---|
| `WorkloadQueue` | the queue, step by step | `queue_recovery` (module `MCWorkloadQueue`) | `LockProofs` |
| `WorkloadLease` | what the queue promises: one slot, lost only by death, given back only after review | refinement in `queue_recovery` | `QueueImplementsLease` |
| `OperationGuard` | the operation lock and the operation history | `operation_lock` | `LockProofs` |
| `PostgresqlRuntime` | the PostgreSQL runtime with its lifecycle dispatch, rollback and retirement | `postgresql_runtime` | `PostgresqlRuntimeProofs` |
| `SqlitePolicy`, `SqliteRuntime` | what a capture of a SQLite source must name and may execute; the embedded runtime and its baselines | `sqlite_runtime` (`MCSqliteRuntime`) | `SqliteRuntimeProofs` |
| `MigrationHistory`, `SupabaseRuntime` | comparing migration histories; the Supabase runtime | `supabase_runtime` (`MCSupabaseRuntime`) | `SupabaseRuntimeProofs` |
| `MigrationImpact` | the measurement of pending migrations | `migration_impact` (`MCMigrationImpact`) | `CommandProofs` |
| `OwnedProcess` | one launched child with its timers, and the application's process group | through `RuntimeSession` | as far as `CommandProofs` needs it |
| `RuntimeTopology` | which documents make a stack of targets | through `RuntimeSession` | |
| `RuntimeSession` | one lifecycle command of the CLI over a stack of targets | `runtime_session` (`MCRuntimeSession`) | `CommandProofs` |
| `ContainerEngine` | several projects on one Colima VM | `container_engine` | `LockProofs` |
| `ResourceInventory` | what the inspections conclude from what they read | through `SharedDocker` | `ResourceProofs` |
| `ReviewedRemoval` | the commands that remove or stop what they first show | through `SharedDocker` | `ResourceProofs` |
| `SharedDocker` | inventory, measured admission and the removals on one daemon | `shared_docker` (`MCSharedDocker`) | `ResourceProofs` |
| `RestoreCache` | restores and the cache they share | `restore_cache` (`MCRestoreCache`) | `ResourceProofs` |
| `IdentityPolicy`, `IdentityClaim` | the identity policy; connect and claim | `identity_claim` (`MCIdentityClaim`) | `IdentityClaimProofs` |
| `SourcePolicy`, `ExternalReader` | the source policy and its plan; what a reader provided by somebody else must be like | through `SourceAccess` | |
| `SourceAccess` | temporary access to the source: plan, apply, retire, next to a colleague and an administrator | through `SourceRefresh` | `SourceRefreshProofs` |
| `BaselineStore` | the store of baseline generations | through `SourceRefresh` | `SourceRefreshProofs` |
| `SourceRefresh` | `baseline refresh`, `refresh`, imports and the prunes, over the two modules above | `source_refresh` (`MCSourceRefresh`) | `SourceRefreshProofs` |

A module "through" another is extended by it, so that its operators and actions
are part of that module's run. Modules that only define what a document may say
(`SourcePolicy`, `ExternalReader`, `IdentityPolicy`, `SqlitePolicy`,
`RuntimeTopology`) translate validators. The MC modules take a document that is
accepted, break it in one place after the other, and ASSUME that each is
accepted or refused as the code does it; the accepted ones are what the state
machine then works with. The guards of its actions ask these operators.

The map of `PROJECT.json` names the source lines of each definition. A
definition that only abbreviates a part of another, in a line, has no entry of
its own: the entry of the definition that uses it covers its lines.

### WorkloadQueue

One ticket file per request is one entry of `ticket`; a file is only replaced
by `rename` and only by its owner, so phase and number stand for the file
identity that the code compares. `store.list()` is a loop of `OpenTicket` (read
one file) and `JudgeOwner` (ask for the process afterwards), because everything
may change between the two. `acquireWorkload` is `Request`, `CountTickets`,
`PublishChoosing`, `ChooseNumber`, `PublishQueued`, `Judge`, `Reclaim`, `Decide`,
`PublishHeld`; `withWorkloadAdmission` is `Execute` and `Finish`; `removeOwned`
is `Retire`; `store.remove` is `RemoveListed` followed by `Unlink`. The
operator's review is `Inspect` and `Confirm`, `recoverWorkloads` is
`CompareDigest`, `Recheck`, `Clear`. `Die`, `OrphanExits` and `ReusePid` are the
world: a process ends anywhere, its children may go on, its id may come back.
That the operator confirms a digest only after checking that the holder's
commands are gone is what the review asks of him, and is the guard of `Confirm`.

### OperationGuard

The lock is the value of the directory under its name: an owner record and a
progress record, each possibly missing. Every access goes through the path, so
each is its own action and meets what stands there then. For a process of
`Unlucky` each of these accesses may also fail by itself (a full disk, an I/O
error; `AccessFails`): before it has made its directory the command is refused;
after that, and whenever the failure is in the release, the lock is left to the
exit shortcut or stays behind. A progress or history record that cannot be
written fails the operation, not its release. `displaced` remembers that a
takeover moved a lock it had not examined (observation 1); the safety properties
are stated for behaviours in which that has not happened.

### PostgresqlRuntime

One command at a time (the operation lock), each a sequence of steps that may
fail (`RollBack`, `Fail`) or be killed (`Crash`) anywhere. `marker`, `backup`,
`receipt`, `failed` and `recorded` are the private files; a marker's bytes are
its baseline generation and the password generated with its volume, which makes
two markers differ exactly when the code's checksums do. A volume is what its
data is: the restored generation, how often each candidate was started on it,
what its ledger says, and whether a candidate is applied in part. `served`,
`condemned`, `escaped`, `replaced` and `meddled` are history variables that
only the properties read. `RecordsVouch` joins what the marker and the
retirement receipt each promise.

The manager action `run` is `reset`, `migrate` and `verify` in one process
(`lifecycle_engine.mts:277`), without releasing the operation lock in between;
it appears as these three commands in a row. `meddled` bounds what other
programs do to the containers: one foreign removal per behaviour.

`Crash` ends the command and its manager together, as a kill of the process
group or a shutdown of the host does. A kill of the CLI alone leaves its manager
running, without the operation lock if a later command takes that over. That a
manager goes on beside the next command's is modelled for the embedded runtime
(`SqliteRuntime`), whose files it would exchange, and for restores
(`RestoreCache`), but not here: everything said of the PostgreSQL runtime is said
for one manager at a time.

### SqlitePolicy and SqliteRuntime

The database, its sidecars, the retained previous file and the journal are
files with an identity each (`leaf`, `disk`), since the code compares
identities before it trusts, renames or removes. A manager runs as long as its
process lives: killing its command leaves an orphaned manager, which notices at
its next look at the operation lock, and killing the manager leaves its
migration worker, which never notices; `Kill`, `Orphan` and the worker's own
actions are these. Two managers at once therefore occur, although the lock
admits one command. `MarkerIsTrue` is what start and verify rely on (the marker
names exactly this file, its baseline and its migrations, and its word that the
worker is gone is right); `ResetIsSafe` is that no half-done reset loses the
last file it could be undone from, and no failed migration leaves a runtime
that a reset refuses.

A check and the system call right after it are one step: the code closes that
window by identity only up to the call. `verify`, `status` and the inspection
read only and are left out. `SqlitePolicy` gives the guard of the capture's copy
step and what a copied row's identity becomes.

### MigrationHistory and SupabaseRuntime

The provider's CLI is not in the repository; it is modelled by what the code
relies on: `start` makes containers and a volume where there are none and
applies the migrations it finds in the workdir, in order, `stop` keeps the
volume, `stop --no-backup` removes it, and either may fail after a part. The
workdir is modelled part by part because the removal goes part by part and a
kill leaves any of its prefixes. The preliminary marker is written before the
CLI starts and never matches, nor does a marker that is half written (`Torn`);
only the last step of a reset writes one that does. `vol.stage` is how far the
restore has come. `approved` and `raced` are histories: which texts were
confirmed for this workdir, and whether a file was edited between its review
and its copy. A Supabase ledger has names and no file hashes, which is why
`MigrationHistory` compares pairs in one place and names in another.

Children of the CLI that go on after a kill are not modelled.

### MigrationImpact

The command holds its reviewed files by directory stamps and two readings, and
looks at the active receipt, at the container and, where the container is not of
the configured image, at its retirement receipt before and after the query; each
look is a step. The query is one read-only transaction: a preflight lookup, a
lock of the schema catalog, table locks in the order of the names, the
snapshot, a check of what was locked, the counts. Others write rows, rename tables, alter
them, swap schemas, edit files, activate another baseline, rewrite receipts and
replace or stop the container while the command runs; locks that the session
holds stop the acts that PostgreSQL would make wait. A command that timed out
leaves its session, which ends on its own (`left`). `report.truth` is the
state of the world at the snapshot, read by the properties only.

A table has one column; a statement is its form with the tables it names, and a
name without its schema is none of `Relations`: such a statement is not
recognised. The scan of SQL text that yields those forms is left out. The plan is
a set of tasks, ordered by file and line (`Precedes`); a report's `counts` gives
each task its answer where the code pairs them by index.

### OwnedProcess, RuntimeTopology and RuntimeSession

`RuntimeSession` is one command from its first step to its exit status, at the
level above `PostgresqlRuntime`: what a target's containers are is `absent`,
`stopped` or `running`, and what a manager does to them is one step that may
fail, be undone, or fail to be undone. `stage` is the place in the program;
`frame` says which of the up to three runtime stacks it executes (`main`, the
`verify` of an opened application, the completion `policy`); `todo` and `done`
are the loop over the targets and the receipts it has collected. `child` is
what `runOwnedProcess` waits for: each manager and each project command, in a
process group of its own, with the two timers that follow a signal.
`group` and `stopping` are the application and its only stop. `listener` is who
handles a signal at this moment: the command (its abort signal, `aborted`), the
application's startup, or the attached session (`closing`). `error`, `held` and
`missed` are the JavaScript errors, as far as the program tells them apart.

`config.project` is the project's documents; `Loads` is whether
`RuntimeTopology` makes a stack of them, and guards the first step of a command.
Completion mode, protection and readiness vary beside the documents.

Only properties read `receipted`, `mishap`, `lost` and `ticketLost`. A process
whose end was not confirmed is not followed any further: what it does after
that is nobody's promise. HTTP proofs and port checks appear by their outcome.
Left out are `--target` selections of a part of the stack, errors of the
signalling itself (`EPERM`), a kill of the CLI process (its persistent traces
are in the modules of the runtimes, `WorkloadQueue` and `OperationGuard`),
children with streamed input, and interactive tasks. Workload admission may be
refused in any heavy command, as it is with a configured queue.

### ContainerEngine

Nobody on the shared VM obeys a lock of Rehearsal, so the code looks again
before it acts, and every look is a step of the model. A receipt names a boot by
its number, which stands for the boot id and start time the code compares. The
`colima stop` of an actor is asked, takes effect or fails, and is answered, in
three steps; the answer may be lost (`tool`). What can change between the very
last look and the stop is beyond any program that has no lock: the histories
`since` and `steady` (what started, and whether the VM booted, since the actor's
last look) and `joined` (commands begun since) say precisely what is excused.
`mine` marks the containers that run because their own command ran them; the
cleanup of a failed startup answers for these. `Meddle` is the machine's owner.

### ResourceInventory, ReviewedRemoval and SharedDocker

`ResourceInventory` holds the judgements as operators on what was read: whose a
container and a volume are, conflicting labels, classification, quota, the
catalog of images. Bytes are counted as sets of pairs of a volume or container
and a byte of it, which adds them up and can be proved about. `ReviewedRemoval`
has the commands that run twice; `stage`, `plan`, `todo`, `current` and `answer`
are where the one command is, the plan it works on, what of that is left, the
item at hand and what is known of that; `consent` is the digest a user may still
confirm. What is left is a set; `IsFirst` is the order in which the code takes
it up. Each look and each act is a request of its own that
may fail; an act may have taken effect although its answer was lost. `changed`
is a history: what other tools changed since the command last looked at it,
which is all that the properties excuse. `SharedDocker` adds the inventory,
which is several requests, and the admission of a start, whose measurement is
bracketed by two listings.

The clock moves with the acts of others (`now`, `MaxTime`). The schedule of
reviews, the disk headroom and the parsing of `docker stats` are left out.

### RestoreCache

A restore is one SQL transaction fed by a stream of two chunks, from the
baseline file or from the cached copy. Two restores overlap only when a killed
command's manager goes on beside the next command; the writer lock is never
taken over, so a dead writer leaves it. A manager first verifies the active
baseline (`Begin`). Only with the project's `restoreCache` policy, which is off by
default, is the file then bound to its identity and digest from the first look
to the last chunk (`BeginCached`); without it the restore streams what it finds
(`BeginPlain`, `plain`), and nothing but the counts and constraints at the end of
the transaction stands between a text written meanwhile and the database
(`Unloadable`, observation 16). `exposed` remembers the restores of that kind
whose file was written under them. Files are their texts (`reviewed`, or
edited ones), and the identity that the code compares misses exactly the
edits that keep size and clock tick (`EditSource`). `excused` and `lifted` are
further histories: this restore was signalled or had its files touched; somebody
emptied the cache by hand.

### IdentityPolicy and IdentityClaim

The claim is one transaction, which reads committed data statement by
statement, and in its middle the copies in Storage, which no transaction
contains. The row of the matched account is locked (`Locked`), so inserts that
refer to it wait. People sign up, link their account, write, edit the defaults
and upload at every step. The copies are removed bucket by bucket, in the order in
which the policy names the buckets (`CopiedBuckets`, `Turn`), because a failure
between two buckets leaves the later ones. `raced` marks an upload that met a copy on its way;
`unheard` a commit whose answer was lost: the code then removes the copies
although the rows may have been committed (observation 8).

### SourcePolicy, ExternalReader, SourceAccess, BaselineStore and SourceRefresh

`SourceRefresh` extends the others; access and store share no variable; one
command of the checkout runs at a time, and `at` is where it is. A command that
needs a confirmation compares the plan it makes with the digest its user has
seen: `review` is the plan that was last shown, with everything its digest
covers. A digest that is used a second time is as good as a new preview of the
same plan, so `Return` forgets it.

What a policy may say, what its plan shows and which variables the environment
must supply is `SourcePolicy`; a policy `Document` that it refuses plans
nothing. A reader of somebody else's (`Readers`) is what the one read-only
transaction of `external_reader.mts` sees; only one that `ReaderConforms` is
verified.

In the source there is at most one set of managed objects (`access`), because
their names are fixed by the policies; it carries the digest of the plan it was
made by, which is a function of the policy, and a password nobody else has. The
field `by` is not in the source and is read by properties only. A transaction is
one step: it commits or not, and the program learns of it or not (`Grant`,
`Drop`). The files are private to the checkout. Each write, link and removal of
a file is a step of its own and can be the last one of a killed command, and
the two removals of a `Promise.all` come in either order. A colleague with a
checkout of his own meets this one only in the source, so that the transactions
of his commands are all that is seen of them. The provider's reader of an
external policy is password 0.

`stored` is what is under each generation's name, `current` the link, `building`
a build directory (one kind is enough: it has a random name and nobody looks at
it again). Removing a generation takes two steps, the first leaving it torn.
Names are ordered as the code sorts them; a new name need not be the largest,
since the clock may step back. The data of a generation is not modelled, only
which version of the source it was read at and under which policy's access.

`drifted` and `astray` are history variables. `astray` marks what the code
cannot know: a commit whose answer was lost, or a receipt that could not be
written after it. A retirement that dropped the access and was killed before it
removed its receipt can be repeated, and then drops the access that a colleague
was granted meanwhile under the same policy; `RetiredAsReviewed` is as much as
the digest in the schema's comment can promise.

`job.fault` tells two failures apart that a report does not: `late` is one after
the link was renamed (`Activate`: the session cannot be closed, or the stage's
last progress record not be written), `link` one of the rename that was to go
back (`Reactivate`). `ReportIsTrue` says what each of them leaves behind, which
is not what the documentation and the program's own message say (observations 17
and 18). The command's own last record, written
after its result has been printed, is left to `OperationGuard`.

## Runs

- `queue_recovery`: two requests and an operator, everything may go wrong.
  `GuardedWorkNeverOverlaps` includes the children of dead holders.
  `WaitersProgress` assumes only that a live process goes on. Two requests never
  need a third number, so the refusal of a number beyond `NumberLimit` (in
  `ChooseNumber`) is not reached here; an impatient request may give up at the
  same place with the same effect, and the proofs hold for any limit.
- `operation_lock`: three commands, one mortal with a reusable id, one (`Unlucky`)
  with file accesses that may fail at every place. What a failure or a kill may
  leave behind is what `LockIsGivenUp` excuses (`CutOff`), and no more: an
  access that fails for a progress record or in a takeover leaves no lock.
- `postgresql_runtime`: both migration tools, protected or not, two baselines,
  two volumes, one candidate; one foreign removal. Two volumes are enough to
  confuse an old one with a new one, two generations to serve the wrong one,
  one candidate to be applied in part, twice or without its ledger row.
- `runtime_session`: every command, completion mode and protection, two targets,
  two signals, in a project that loads and in one whose targets share a port.
  Two targets are a primary and a dependent: enough for the order of a stop,
  for a stack that is half up, and for a cleanup that fails at its first target
  and must go on. A second signal meets the cleanup that the first has caused.
- `sqlite_runtime`: two managers, one of them possibly an orphan; four file
  identities (current, previous, staged and one more to be mistaken for them);
  one migration after the baseline; one kill, edit or baseline after the first
  per behaviour, at any place. The managers are symmetric.
- `supabase_runtime`: two baselines, six directories (nothing new, one and two
  candidates, one of them in two texts), two troubles: a kill and a
  prune, or a kill and an edit, are what it takes to be served something hollow
  or unconfirmed.
- `container_engine`: two projects, one of which boots and releases, the other
  with a queue, and the reviewer. Four commands, two boots, two container
  starts, one act of the owner or a kill. Two boots tell an old receipt from a
  new boot; four commands let a release and a review each meet a start.
- `shared_docker`: two containers of two targets and two that appear later, one of
  them with the labels of both targets; three volumes, one of them labelled for
  both; three tags of two images; two acts of other tools per behaviour (`MaxTime` = 3, the
  clock starts at 1), which is enough to replace something between look and act.
- `restore_cache`: two restores of two baselines of encoded sizes 2 and 3 in a
  budget of 7 with a key and receipts of size 1, so that each copy fits, with or
  without a leftover, and both together do not; each with the policy or without
  it; two disturbances. Restores are symmetric.
- `identity_claim`: two accounts, two objects, two rows or uploads of their own
  in all; kills are not bounded. The accounts are symmetric.
- `migration_impact`: two relations, three tables, two acts of others, at most
  two measurements where the code has a hundred, which one of the three
  directories exceeds over two files. Three tables let a name pass
  to another and its schema to a third. The tables are symmetric.
- `source_refresh`: two managed policies and one external, conforming and
  overreaching readers, three generations of which two are retained, two
  passwords, two versions of the source. `MaxEvents` allows one event per
  behaviour that is nobody's ordinary step: a kill, an edit, an expiry, a
  migration, a change by the administrator or a grant to a colleague. Lost
  answers, failed steps and the interruption are not bounded. One event at any
  place, followed by any commands, reaches every half-done state; three names
  let a new generation be older than the one it replaces and leave one to prune.
  The managed policies differ in their ledgers only, which the access plan's
  digest leaves out and the retirement plan's covers; they are symmetric.

Each property has a mutant in `PROJECT.json`: a plausible mistake in the code
(a check left out, an order swapped, a name compared instead of an identity)
with which TLC finds the property violated under the same configuration.

Several properties are conjunctions of two or three statements with a comment
each: `RecordsVouch`, `OutcomeIsTrue`, `StackGoesDown`, `MarkerIsTrue`,
`ResetIsSafe`, `StopsAreProven`, `CleanupIsExact`, `ActsAsReviewed`,
`ReportsAreTrue`, `ClaimIsWhole`, `OnlyApproved`, `CacheNeverCosts`. The parts
are defined above them.

Fairness: `WorkloadQueue!Fairness` is weak fairness of each live process's own
program: Node runs it, and guarded work is assumed to end. `OperationGuard` adds
strong fairness of `FinishTask`, since an operation may publish any number of
stages but ends. A process that is killed owes nothing.
`RuntimeSession!Fairness`: the event loop runs the
command and its timers; the user owes nothing; neither does a child to which
cancellation is forwarded, since it can be forced; a manager that completes or
cleans up has no deadline in the code either and is assumed to end. All other
modules are checked for safety only: whether their commands end is up to a
daemon, a database, a provider's CLI or the network, of which the code assumes
nothing.

CHECK_DEADLOCK is off where behaviours end: requests and commands are finite, or
their bounds are reached.

## Observations

Where the code and its documentation disagree, or where a property needs the
history variable that excuses a case. The models reproduce the code. A claim
that TLC refutes is defined in its module and belongs to no run: as an INVARIANT
of the module's configuration it yields the counterexample.

1. `shared/operation_guard.mts:345`: the takeover rename is by name; a command
   that read a dead owner's record can move aside the lock a third command has
   just acquired (`docs/security-model.md:36`). Excused by `displaced`.
2. `shared/operation_guard.mts:257`: a process killed between `mkdir` and
   writing its owner leaves a lock that is never recovered
   (`docs/security-model.md:36`). So does a process that nobody killed when the
   owner record cannot be written (a full disk): the error is rethrown at
   `operation_guard.mts:325` and the directory stays. Excused by `CutOff`.
3. `targets/postgresql/postgresql_migrations.mts:170`: SQL candidates are not
   applied in one transaction with their ledger row, and nothing records that
   one was begun; a killed `migrate` leaves a runtime that `verify` accepts
   (`README.md:189`). Excused by `escaped`.
4. `cli/runtime/runtime_commands.mts:413`: a cancelled command whose rollback
   failed inside the manager process ends as an ordinary cancellation, because
   the CLI sees only that the manager failed while it was being cancelled
   (`docs/commands.md:697`; as `CancellationIsClean` TLC refutes it). In `run`, an
   application that cannot be stopped while the command is cancelled is hidden
   likewise (`cli/commands/runtime_action_handlers.mts:182`). And a completion
   that fails by itself is thrown as a plain error (`persistence.mts:83`), which a
   signal that arrives before the last progress record and the release of the
   lock still turns into exit 130 (`shared/cancellation.mts:119`), against the
   comment at `persistence.mts:74` (as `CleanupFaultStays` TLC refutes it).
   In `OutcomeIsTrue`, `MishapIsTold` excuses the first two by `aborted`, and
   `FailedCleanupIsTold` the last by asking for the error it leaves with.
5. `runtime/resources/workload_queue.mts:279`: a ticket that cannot be released
   makes the stack's execution fail outside its own cleanup and before the
   completion mode is applied; the targets stay up
   (`docs/runtime-lifecycle.md:223`). Excused by `ticketLost`.
6. `shared/cancellation.mts:22`: `baseline refresh` is not among the commands
   that handle a signal, so an interruption leaves its `.building-` directory,
   with the rows sanitized so far, and nothing removes it
   (`docs/baselines.md:90`).
7. `runtime/resources/container_retirement.mts:520`: data is reported preserved
   before its volumes are looked at again, and stays so when that look fails; of
   a retired source access, the credential file removed is the one the present
   policy names, not the receipt's (`source/postgresql_access.mts`).
8. `identity/claims/claim_executor.mts:497`: a commit whose answer is lost is
   treated as a failure, and the copies the committed rows point to are removed.
   A kill between the copies and the commit leaves copies with which every later
   claim collides. Excused by `unheard`.
9. `targets/supabase.mts:767`: an edited candidate of the same name is reported
   as applied (`README.md:34`, `docs/commands.md:714`), because the ledger is
   compared by name.
10. `targets/supabase.mts:598`: when the volume is gone behind a final marker,
    the CLI makes an empty database that start and verify accept. Excused by
    `hollow`.
11. `targets/supabase.mts:755`: a file edited between the reading of the plan
    and its copy is applied unconfirmed (excused by `raced`), and a plan emptied
    by a withdrawal in between skips the confirmation.
12. `targets/migration_impact_runtime.mts`: the confirmed digest covers the
    candidates and not the baseline generation they follow.
13. `source/access.mts:835`: the digest of a source plan leaves out the
    migration ledger, the target schemas and the administrator's variable.
14. `runtime/recovery/stale_environment_plan.mts:113`: `stop-stale` ignores
    conflicting volume labels that the inventory counts as conflicts
    (`resource_inventory.mts:661`).
15. `identity/claims/claim_executor.mts:150`: that a user has claimed already is
    inferred from the placeholder having no transferable rows. A copied account
    that is only the author of preserved rows never had any, so that the checks
    for independent data and untouched signup defaults are skipped at the first
    claim (`docs/runtime-policies.md:388`: an edited value or unrelated local
    application data "rolls back the entire claim"). `Endowed` in `NeverMixed`
    excuses it; with {"reviews"} in `Copied`, TLC refutes the property without it.
16. `runtime/resources/restore_cache.mts:337`: without the `restoreCache` policy,
    which is the default, the baseline's file is streamed with no look at its
    identity or digest; a text written after the manager's one verification is
    committed if it keeps the counts and constraints. `docs/configuration.md:493`
    ("Each use still verifies the immutable baseline") is about the cache.
    Excused by `exposed`.
17. `cli/commands/source_commands.mts:218`: a capture can fail after its
    activation, when the session is closed (`source/baseline.mts:747`) or the
    stage's last record is written (`shared/operation_progress.mts:294`).
    `baseline refresh` then reports a failure with the new baseline active
    (`docs/commands.md:369`; as `FailureKeepsBaseline` TLC refutes it), and so
    does `refresh`, which has nothing to roll back as long as `refreshed` is
    unset (`source_commands.mts:444`). `ReportIsTrue` tells it by `fault`.
18. `cli/commands/source_commands.mts:465`: the message "The previous immutable
    baseline is active" is printed as well when the activation of the previous
    baseline (447) is what failed (as `BrokenIsReactivated` TLC refutes it).
    `ReportIsTrue` tells it by `fault`.

## What is proved

`LockProofs` holds the proofs about both file locks and about the engine that all
projects share. It proves, for any sets of requests and operators, any
capacity and number limit, that `QueueInvariant` is inductive, and from it
`GuardedWorkNeverOverlaps`, `LiveTicketStays`, `NoOvertaking`,
`DeadHolderNeedsReview`, and that the queue implements `WorkloadLease`. The
heart of the invariant is `BakeryOrder`: once p is past q's ticket, q is behind
p, i.e. q has noted p's number or will before it takes its own, took a higher
one, or polls without having passed p. Type correctness alone, or exclusion
alone, is not inductive: exclusion depends on what a listing that is still
under way has already seen and what it can no longer miss.

For the operation lock, which shares no variable with the queue, it proves
`GuardInvariant` and `OwnerKeepsLock` for any set of processes, whichever of them
may be killed or have file accesses that fail.

For the shared engine it proves `StopsAreProven` and `CleanupIsExact`, for any
finite set of projects and any bounds, of `EngineAssumption` using little more
than that the reviewer of an engine stop is no project. Boots are numbered and
the one that is up is the last (`Kinds`). So a release that has identified a boot,
read its receipt and qualified the same boot again speaks of one boot
(`Identified`, and `Shown` for the user of `engine stop`), and whatever runs when
its stop is asked for has started since the last look (`Supported`), which the
properties excuse. Ids and times of starts come from one clock: what a failed
startup finds under its container's name is what it captured or something newer
(`Captured`), and whoever has the id that its cleanup chose was started after the
capture (`Chosen`). A step of one command touches only what is claimed of that
command (`OwnStep`), a step of the machine only the containers (`MachineStep`).

`SourceRefreshProofs` proves, for any sets of policies, readers and generations
and any bounds, that `RefreshInvariant` is inductive, and from it
`AccessIsRecorded`, `ActiveIsWhole`, `RollbackTargetKept`, `ReportIsTrue`,
`RetiredAsReviewed`, `CapturedAsReviewed` and `PrunedAsReviewed`. None of these
is inductive: each depends on what the command under way has in hand. So the
invariant says, for every place `at`, which plan the user has reviewed
(`AccessStages`, `Reviewed`), what the files must read there, which generations
the job has set aside and that they are still whole (`GenerationsOfPlace`), and
of which version of the source and under whose access its snapshot is
(`SnapshotOfPlace`). What a failure reports follows from the place where it
happens: up to the activation the link is the old one, on the way back the new one
until the rename, and the generation to go back to is whole all the while. `OnePlan` ties the three things that know one password
(credential, receipt, access) to one plan; without it the receipt that is filled
in after the commit need not name the plan of the access that was granted.
`AccessKept` shows this part for `SourceAccess` alone; a step of the
refresh does not touch it. The assumptions are `AccessAssumption` (the absent
and the torn receipt are no receipts), `StoreAssumption` and
`RefreshAssumption`. The proofs do not depend on which documents and readers
`SourcePolicy` and `ExternalReader` accept.

`PostgresqlRuntimeProofs` proves, for any number of candidates, generations and
volumes and both migration tools, `RecordsVouch`, `ReadyMeansRestored`,
`VerifiedIsExact` and `ServedDataKept`. A lifecycle command is a path through
two dozen stages, any of which may be the last one before a kill, so the
invariant is a table of stages: which command reaches which (`Program`), what it
finds of container and volume (`Sandbox`), what marker and receipts read there
(`Papers`, `BackedUp`), what a retirement holds in memory (`Retirement`), what
the ledger says of the data (`History`), and that data in service has a marker
and is on its way out only in a command that may remove it (`InService`). The
backup of a protected marker, for one, has to be right already when a container
is about to be created on it (`Papers`), where there is no volume yet and the
property does not ask for it.

`ResourceProofs` proves `RestoredIsReviewed` and `CacheNeverCosts` for any
finite set of restores, with the policy or without, any baselines, sizes and
budgets. What a restore has let through a check is the reviewed text, and what
one without checks has streamed is so as long as nobody wrote its file meanwhile
(`Sound`); as long as nobody interfered with
it, every check turns out in its favour (`Calm`). Restores meet only in the
cache, where a number tells whose lock and temporary files are whose: a step of
one (`Local`) leaves the others as they were, so each action is looked at for
the restore that takes it. That the set of restores is finite is used once, for
a fresh number.

`BudgetKept` is about a sum, and a sum over a set is a fold, of which nothing can
be proved here. The size of the retained files is therefore counted byte by
byte: `RetainedBytes` is the cardinality of the set of pairs of a retained file
and a byte of it, and what an eviction, a publication or a rename does to it
follows from the theorems about cardinalities. Its invariant `Budget` stands
beside the first one: as long as nobody has emptied the cache by hand, the
directory fits into the budget at every place of every restore, and one that is
about to publish has made the room that its copy will take (`Room`). A copy whose
key file is cut short by a kill can only be the first of an empty cache.

For the shared Docker daemon it proves `ActsAsReviewed` and `ReportsAreTrue`,
for any containers, volumes, images, tags, labels and policies and any number of
events. `DockerInvariant` says what a command knows at each of its stages: it
works on the confirmed plan, and its item at hand is one of it (`AsConfirmed`);
what its last look has shown of that item is so still, or is among what others
have changed since (`AtHand`); the same for what an inventory has listed so far
(`Listed`) and for what an admission has measured (`Measured`). A step of another
tool is then one case: whatever it touches it enters in `changed`
(`OthersTouch`). That no two environments own the same container, and so that
the volumes of the environments add up to at most what the quota has counted, is
an injection of one set of bytes into another (`PartsAddUp`, `WithinQuota`). Of
`InventoryAssumption` the proofs use that environments and volumes are finite in
number, of `RemovalAssumption` that no container is claimed twice, as the reader
of the claims demands (`container_retirement.mts:99`), and that what stands for
nothing is neither a number nor an answer, and of `CapacityAssumption` that
containers are finite in number.

`IdentityClaimProofs` proves `ClaimIsWhole`, `OwnDataKept` and `NeverMixed` for
any accounts, policies that `IdentityPolicy` accepts, and objects. `NeverMixed`
speaks of a placeholder with a row that a claim transfers (`Endowed`), since the
code separates no others (observation 15). The invariant follows Storage
and database together: the copies stay in place as long as the claim may remove
them (`CopiesStay`), nothing of anybody's own was at their destination
(`ToCopy`), and the records never name a path that may still be removed
(`PathsSpared`).

`CommandProofs` holds the proofs about two commands of the CLI. For the session it proves `ProtectedDataKept`, `OutcomeIsTrue`,
`ApplicationRetired` and `StackGoesDown` for any stack of targets, any set of
projects and any number of signals. The invariant has a part for each thing that
outlives a step: the process that is waited for and why it may have been told to
end (`Process`, `Telling`), the errors on their way to the end and what they
stand for (`Failures`), which of the three stacks is executed and what is
shielded (`Stacks`), the one addressee of a signal (`Signals`), the application
(`Application`), and the targets with a receipt (`Receipts`). The outcome is a
function of the error and the cancellation (`Conclusion`), so the properties of
the outcome follow from what the errors stand for. That a failure is told at all
is an invariant of its own (`Reported`): from the step where something was left
behind, or a cleanup failed, to the end there is an error on its way that will
say so (`Grave`, `Spoiled`), or a cancellation that may hide it. `CleanupNotCutShort` needs
`Telling` before it: a manager that fails without being bound to the
cancellation is a mishap of its own. `CancellationEnds` is liveness and is not
proved.

For the measurement of pending migrations it proves `MeasuredAsReviewed` and
`CountsAreTrue`. The first holds for
any documents, baselines and number of changes by others. Everything the
command compares carries a number that only grows: the stamp of a directory, of
the receipt, of the container. What has the number of the first look at the last
look was therefore never exchanged in between, and what was read of it in between
(`Witnessed`) is what stands there at the end. The invariant `ImpactInv` says for
every place of the command which looks lie behind it (`Located`, `Opened`), and
that the plan in hand is the confirmed one (`Confirmed`). The second rests on `CountingInv`: from the snapshot on, no name
that was found can come to stand for another table, because every table is locked
and the catalog of schemas is, too (`Pinned`; the lock on the schemas is what a
swap would otherwise get round); so what is counted under a task's name is what
the name stood for at the instant of the snapshot (`CountsOK`), the tasks are
those of the candidates (`TasksKnown`, `TaskOfPlan`), and the query of each metric
counts the rows that the statement would meet (`QueriesCount`, which compares the
grouping query with a pairwise definition of a duplicate). `ImpactAssumption` says
that what is absent is not mistaken for a number or a table, and that tables hold
finitely many rows.

`SupabaseRuntimeProofs` proves `ServedIsRestored`, `RemovedIsGone` and
`OnlyApproved` for any baselines, directories and number of interferences. The
first half is about histories: the place of a file is the number of files before
it (`RanksAscend`, `RanksAreTaken`), so a directory lists as one history and a
history is the listing of its own files (`ListingIsHistory`, `HistoryLists`), and
what `migration up` applies next continues the history it applies
(`NextOfHistory`). The invariant then tells two kinds of steps apart: those that
make a runtime anew, during which no marker is valid (`Rebuilding`, `Vouched`),
and those that found a valid one (`Opened`). A valid marker stands for a restored
volume (`Trusted`) and for a workdir in which nothing is unapproved
(`Confined`), which is what makes a start safe that applies whatever it finds
there. Neither is inductive without what a reset knows before it writes the
marker (`Emptied`, `Present`, `Baselined`). That a rehearsal ends with the
confirmed plan needs more: workdir and ledger hold one history all the way from
the reset to the receipt (`Migrating`, `Verifying`), or the start of the next
phase would apply something. The assumption is `SupabaseAssumption`: the history
of a baseline is not empty and ascends, and a directory is finite and holds each
version once, as `assertOrderedUniqueHistory` demands.

`SqliteRuntimeProofs` proves `MarkerIsTrue` and `ResetIsSafe` for any number of
managers, documents, migrations and disturbances. Managers that have lost their
command go on beside later ones, so the invariant speaks of each manager at its
place, orphaned or not, and of what it may still rely on: a manager whose
migration worker may run has the only journal (`AtWork`), a claimed journal is
its own (`Claims`), its private copy is whole until it is exchanged (`Copies`,
`Intact`), what stands under the runtime's name in the middle of the exchange is
either its copy or the file it has set aside (`Placed`), and what a reset tidies
away is not what the marker names any more (`Retained`). A marker that
start or verify would accept names exactly the file that stands there (`Exact`).
None of these survives a step of the other managers without the journal: it is
what excludes two workers, and what an orphan looks at before it goes on. The
second part of `ResetIsSafe` excuses disturbances, and `Undisturbed` is what holds
without one. Of `SqliteAssumption` they use that a missing marker or manager is not mistaken
for one that is there.

The inductive invariants were checked by TLC, as invariants of the
configurations of the runs, before they were proved. None is a property of a
run of its own: the runs check what follows from them, and the proofs check them.

Only model-checked:

- liveness (`WaitersProgress`, `LockIsGivenUp`, `CancellationEnds`): what is
  ENABLED, and with it fairness, is out of the prover's reach;
- what a recursion or a fold computes: the orders and folds of `RuntimeTopology`
  and `ExternalReader`.

## Plan

1. Done: all modules of the table above, with proofs about the queue and its
   lease, the operation lock, the refresh, the PostgreSQL, Supabase and embedded
   runtimes, the shared engine, the restore cache and its budget, the identity
   claim, the shared Docker daemon, the session and the measurement of migrations.
2. Proofs: what is left is out of the prover's reach (above).
3. Models that would still add something: `--target` selections, port preflight,
   the shape sampler, the review schedule of the resource policy, the managed
   prototype.

## Not modelled

- Rendering, prompts, argument and configuration parsing, project discovery and
  setup, the doctor and the plan command, update advice: pure, or without state
  that another step depends on.
- SQL: generation of schemas, privileges and policies, and the scanning of
  migrations for insights. Where a decision rests on its result, the result
  varies freely.
- Privacy transforms and the shape sampler: data transformation inside one step
  of a capture. Their arithmetic and their text rules need a reference
  definition of their own, not a state machine.
- The native histories of Drizzle and Prisma and their tools: external; their
  effect on a ledger is part of `PostgresqlRuntime`.
- The Supabase CLI, Docker, Colima, PostgreSQL and SQLite: modelled by what the
  code relies on.
- The managed prototype: an experiment over recorded receipts.
- Installers, build scripts, tests and the documentation site.
