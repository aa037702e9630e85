# netbox-sync: TLA+ specifications

netbox-sync copies the inventory of Proxmox and ESXi hosts and of Selectel accounts into NetBox.  It
is a set of small processes that share a PostgreSQL schema, a few flock files, protected state files
and Unix sockets, and a plugin (the Guard) inside NetBox that creates and deletes objects for it.
The specifications in this directory model the parts where those processes meet: who may write when,
what survives a crash or a lost answer, what a recorded outcome may claim, and what may be deleted.

## The system and its parts

| Part | Source | Modules |
|---|---|---|
| Durable PLAN and DISCOVERY operations, one slot per source and kind | `netbox_sync/source_operations.py`, `discovery_worker.py`, migration 0004 | `SourceOperations`, `OperationSlot` |
| Synchronization runs: manual apply, scheduler tick, baseline acceptance, removal, and `apply.lock` between them | `apply_worker.py`, `child_process.py`, `worker_supervisor.py`, `run_history.py`, `orchestrator.py`, `run_reconciliation.py`, `scripts/run-scheduled-sync.sh`, migrations 0002, 0012, 0014 | `SyncRuns` |
| Schedules: calendars, which source is due, the tick's list | `calendar_schedule.py`, `selectel_schedule.py`, `application/scheduling.py`, `scheduler_runtime.py`, `schedule_worker.py`, migration 0017 | `Calendar`, `Scheduling` |
| Retirement of a source: review, consent, deletion in NetBox, local cleanup, the removal queue | `retirement_*.py`, `removal_queue.py`, `source_lifecycle.py`, `source_recovery.py`, `source_archive.py`, `local_control.py` | `Retirement` |
| Registration: credentials, host reservations, durable jobs, guarded creation | `registration_jobs.py`, `host_registration.py`, `application/onboarding.py`, `secret_broker.py`, migrations 0007, 0008, 0011, 0015 | `Registration` |
| Planning and applying a source's inventory | `netbox_*_planner.py`, `*_preflight.py`, `*_writes.py`, `netbox_*_apply.py`, `application/sync_plan.py`, `application/runtime_plan.py`, `netbox_disappearance.py` | `NetBox`, `Appliers`, `GuestNetwork`, `Inventory`, `FullSync` |
| The Guard plugin: creation with claims, retirement, archive, VM replacement | `deploy/netbox_guard/` | `Guard` |
| Selectel accounts: control, runner, schedule, baseline and lifecycle decisions; their cards in NetBox | `selectel_*.py`, `deploy/netbox_guard/provider_*.py` | `Accounts`, `ProviderCards` |
| First installation: the staged NetBox configuration, its probes, the preparation of custom fields | `bootstrap_*.py` | `Bootstrap` |
| Authentication: policy, sessions, roles, the directory | `auth_*.py`, `directory_*.py`, `source_teams.py` | `Auth` |
| Installation, update, backup and restore; the schema | `deploy/*.py`, `deployment.py`, `migrations/` | `Deployment`, `Migrations` |

`PROJECT.json` lists every part with its files, the modelled definitions with their lines, and the
parts that are not modelled; the last section says why.

How the parts meet: a PLAN operation publishes a plan in its slot; a manual apply consumes it under
`apply.lock`; the scheduler's tick holds the same lock and decides by `Scheduling` whom to run; what a
run then writes is `FullSync`.  The lifecycle worker takes the lock for a removal and, like schedule
edits and recoveries, passes the source gate, which every later admission sees; its POST reaches
`Guard`.  A module abstracts the others to what it sees of them: the slot of `SyncRuns` is
`OperationSlot`, the operations and runs of `Retirement` are one variable `work`, the Guard's
transaction is one step of it, a retirement is one action of `SyncRuns`, `SourceOperations` and
`Scheduling`, an import is one POST of `Accounts` and one action of `ProviderCards`.

### SourceOperations

One process of `Proc` is one forked request handler or executor of the discovery worker.  `row` is
the table `source_operations`, `executor` the executor advisory lock of a slot (session scoped in
`execute`, transaction scoped in `latest` and `start`, one lock space in PostgreSQL), `gate` the
source gate as far as it is held between two actions (only `review_guard` does that), `admit` the
enabled flag and removal request of the source.  An action is one transaction or one autocommit
statement:

- `LatestRead`, `LatestTryLock`, `LatestCommit`: `latest()`, which interrupts abandoned operations
  and expires old results;
- `Start`: `start()`; `TryLock`, `Check`, `Complete`, `Unlock`: `execute()`;
- `ReviewGate`, `CurrentPlan`, `ReviewEnd`: `review_guard()`; `InvalidatePlan`;
- `Enqueue`, `RemoveSource`, `Recover`: what removal and recovery do to the slots;
- `Elapse` is the passage of 180 seconds (RUNNING) or 24 hours (finished), `Lose` the death of a
  process or of its database session.

`OperationSlot` is the abstract promise to a reader of a slot: a generation is replaced only after
its terminal state, only the running generation publishes, a withdrawn result does not come back.
`review_guard()` refuses a source that is queued for removal, but does not look at its tombstone; the
model asks for an admitted source at once, because `_source()` refuses a removed one a step later.

### SyncRuns

The apply worker serves one request at a time (`pc`), its writer child is a process of its own
(`child`, `writer`), and so is the thread that reaps a child which survived its kill (`reaper`).
The scheduler tick (`step`) runs the due sources one after another, the lifecycle worker accepts
baselines (`desk`) and removes sources.  `lock` is `apply.lock`; `fd` and `reaper` are the
descriptors through which the apply worker keeps it.  `runs` is the table `sync_runs`; its `writes`
is not a column but what the writer of the run really did, so that recorded outcomes can be compared
with the truth.  `baseline` is the table `run_reconciliations`, and `Blocking` and `ScheduleBlocked`
are the views `blocking_sync_runs` and `recovery_schedule_blocks`.  The PLAN slot is the abstract
one of `OperationSlot` (`PlanSlotContract`), which `SourceOperations` implements.

Simplifications: the operator's acknowledgement `old_writes_stopped` is truthful; the scheduler
crashes as a whole; a use of a plan is recorded by its generation and not by comparing clocks.

`WritersCleared` says what "under the lock" is worth.  A manual writer meets no unresolved outcome from
its check to its end.  A tick may meet one: `apply()` closes its descriptor before `finish_run`, so an
outcome of the manual run before may be recorded behind the tick's check.  The property allows exactly
that one outcome, of an older manual run, recorded at exactly that moment, and nothing else.

### Calendar and Scheduling

`Calendar` is the arithmetic: `NextSlot` is `next_slot()` of a source's Moscow calendar, `NextRun` is
`next_run()` of an account's schedule in a zone with summer time, both over real Gregorian dates and
at the resolution of an hour.  The reference they are checked against (`Moments`) defines a schedule as the
set of all its moments.  The only step is the passage of time.

In `Scheduling` a calendar is any set of moments.  `Load`, `Evaluate`, `Start`, `Finish`, `End` are a
tick: it reads the rows (`loaded` is its copy), decides with `Eligible` (`evaluate_schedule()`) and
works through its list; `Die` and the failing branches leave runs nobody finishes.  `Update` is the
schedule worker's conditional UPDATE, `Retire` what a retirement does to the row and to the trigger
that admits runs.  The clock of the host and the one of the database are the same; rows that cannot
be decoded are left out, and so are the other writers of `sync_enabled`, which only switch it off
(`removal_queue.py:84`) or on under the conditions `SyncRuns` models (`run_reconciliation.py:208`,
`legacy_admission.py:230`): to the tick they look like an `Update`.

### Retirement

One source, with the rows that describe it, the guard plugin's intent and receipt in NetBox, and one
`job`: `apply.lock` lets the lifecycle worker drive one retirement at a time, for an administrator
(`Review`, `Execute`), the queue (`Tick...`) or the continuation (`Continue`).  The job's steps are
the transactions of `retirement_journal.py` and the calls of `retirement_coordinator.py`; a POST may
be served, refused, lost, or served after its sender has given up (`stray`, `ServeStray`).  The guard
may refuse a review, and a credential file its cleanup, as often as it likes: such refusals are no
faults and are not bounded.  `Crash` ends the job anywhere.  Everybody else who touches the source is in `Others`.  The enqueue takes no
gate, so the two gated transactions it may slip into have two steps.

Simplifications: other sources appear only as a guard that refuses; digests
and names are always those of the review; queries that only read are left out.  Observations: a schedule
edit admitted before an enqueue switches synchronization on again and the request ends BLOCKED; a run
that has not ended while `apply.lock` is free blocks the request, although the comments of `tick()` say
that it waits; a source whose retirement is BLOCKED stays disabled.

### Registration

`Procs` are the API's request threads and the continuation.  A deployment (`mode`) has durable jobs or
not and the Guard or not.  `ConnectionTest`, `Discard` and `Submit` are the operator's requests; the
steps of a thread (`Step`, `WorkerStep`) are the transactions of the reservation, of the job and of the
registry row, the broker's calls (`files`) and the guarded or direct creation of the cluster.
`Continue` is the background continuation with its `Child`; `AdmitLegacy` and `VerifyLegacy` bring old
ESXi rows under the reservations; `LatePost` serves a POST its sender gave up on and `ForeignCluster`
is somebody else taking the name.  `Crash` ends all processes, `DropSessions` is a database failover
after which the advisory locks are gone while their holders go on; lost answers and torn files are
branches of the calls.  What a probe or a catalogue lookup reads is one choice.  Refused credentials and
refused answers are not bounded.  A deployment may begin with a queue: jobs that an earlier process
staged and left.  `Followed` names the sources whose staged jobs `StagedEnds` follows to their end.

### FullSync and the modules under it

`NetBox` says what a NetBox holds and how a discovered object is matched by its identities,
`Appliers` and `GuestNetwork` are the stages (what a stage reads, checks and writes), `Inventory` is
the way from a discovered inventory to a plan, `FullSync` the process: `Plan`, `apply_full_sync` (all
stages simulated on a copy), then per stage `BeginStage`, `ReadAgain`, `Write` and `EndStage`, `Raise`
where a stage refuses; `Edit` is another user of NetBox, `Fault` a failed call or the death of the
process.  The inventory is Proxmox's; objects of ESXi and of providers appear as other owners.  `base` is
NetBox as the running stage knows it, from its last read and its own writes: what a stage promises not
to touch, it can promise only of what it has seen (`OthersKept`), and `ManualKept` asks for more.

### Guard

Creations, reviews, retirements, archives and VM replacements as two NetBox workers execute them.
What happens behind the database fence is one step; the namespace lock is held between steps.  NetBox
users write, move, tag, bind, delete and re-create objects.  Disks, MAC and IP addresses hang on their
parent like an interface does; permissions are one flag; the reuse of an id is `Recreate`.

### Accounts and ProviderCards

`Accounts` has the state file of each account (`acct`), the runner process of each run, the import
POST of each run and the lifecycle POSTs, which may be served late, and the Guard's tables as far as
they decide.  `ProviderCards` is what the Guard does with one account's cards: an import projects,
binds, creates and adds addresses in one transaction; links, first creations, detach, unlink and
deletion run on the tables they were reviewed on.  An address is known by itself and not by account and
key as well, and the interface an allocation hangs on is left out: one account with distinct addresses
never tells them apart.  A lifecycle decision may fail before its intent is stored, and the fingerprint
of an activation does not look at the revision.

### Bootstrap, Auth, Deployment

`Bootstrap`: each request is a process, a section under the document's lock is one step, what the child
does in NetBox another; processes die between any two.  NetBox may reject a POST of a field whether the
name is free or not.  `Auth`: every auth call is one transaction on
`auth_state`, a request makes several, and time, directory changes and root's commands come between.
`Deployment`: installer, backup, restore and updater as step machines (`pc`) beside the services and a
scheduled run, with one exception (`Raise`), timeout or kill; `Migrations` is what each revision adds.
The beginning of a maintenance window may fail with some services stopped (`WindowFails`), its end with
some started (`RestartFails`), and the quiescing of a failed installation stops what it can
(`QuiesceRuntime`).

## Runs

| Run | Checks | Bounds |
|---|---|---|
| `sources` | `ReviewedCurrent`, `ClosedQuiet`, `SlotContract` of `SourceOperations`; `HonestOutcome`, `PlanOnce`, `RemovedSettled`, `WritersCleared` of `SyncRuns`; `NothingHangs`, which is `EventuallyTerminal` and `LockComesFree` in one formula, under `MCFairness` | operations: one source, PLAN only, three processes, two generations, one loss; runs: one source, two runs over two plans, one token at a time, one crash and one lost `finish_run` |
| `retirement` | `JournalHonest`, `FlightProtected`, `ForgottenLast`, `ReviewedOnly`; `RemovalEnds` under `Fairness` | deletion or archive of a source in use, removed earlier, or left BUSY or unsealed by an earlier release; there two operations, else one; an edit of the row, a change of the inventory, one fault, any number of refusals |
| `registration` | `ClaimedFirst`, `CredentialsKept`, `RegistrationSound`; `StagedEnds` under fairness | two request threads, three deployments with two or three requests for one host and one cluster name, one request alone, and a queue of two staged jobs; one fault |
| `installation` | `ServedSound`, `BundleSound`, `MaintenanceKeeps` of `Deployment`; `ReadyIsSound`, `NoBlindRetry` of `Bootstrap`; `AdmittedNow`, `DirectoryApproved`, `PolicyHeld` of `Auth` | four uses of a host with one fault; six situations of the setup; two browsers, one directory identity, two directories, spans of one or two ticks, a host that resolves well or also to a refused address |
| `synchronizer` | `CadenceKept`, `OffIsSeen` of `Scheduling` and `NextIsFirst` of `Calendar`; `PlanHolds`, `Repeatable`, `IdentitiesExact`, `OthersKept` of `FullSync`; `ClosedIsEmpty`, `DeletesOwned` of `Guard` | two sources, one by interval and one by calendar, four moments with two slots, one edit, one fault; 31 schedules, every fifth hour from December 2023 to December 2024, so that each hour of the day, the leap day, the ends of all months and both changes of the clocks are met; six situations of one host with a VM and a container, two runs, one interference or failed call; three worlds of the Guard with two workers and two retirement intents: one creation among own objects, two creations of one interface name (a repeated nonce included) on a shared device, one creation of a VM that is replaced |
| `selectel` | `HonestAccount`, `ImportIsCurrent`, `CardsSound`, `OnlyOwnDeleted`; `RunningEnds` under fairness | six situations of one or two accounts with two runs; four of an account's cards with three imports, two decisions (four where a card is detached and linked again) and two edits |
| `retirement_conflict` (violation) | `ConflictBlocks` | one operation |
| `retirement_orphan` (violation) | `RefusalProvesNoMutation` | two faults |
| `netbox_manual` (violation) | `ManualKept` | as `synchronizer` |
| `selectel_link` (violation) | `LinkAdoptsNothing` | as `selectel` |
| `guard_audit` (violation) | `AuditAnswers` | one VM replacement |
| `restore_constants` (violation) | `RestoreAccepts` | the tables and revisions `deploy/backup.py` really lists |

A run with several parts (`sources`, `installation`, `synchronizer`, `selectel`) holds them side by side:
a behaviour is one of a single part and leaves the others at rest, so the states are the sum of the
parts' and not their product.  Fairness is asked of the part that moves.

Why the bounds are enough: sources do not interact except through `apply.lock` and the order of a tick,
and one source already meets the lock from all sides; three processes are what it takes for a lookup,
an executor and a newcomer to meet in one slot; two retirement operations are enough for one to
overtake the other; two requests for one host and the continuation meet at every lock of a
registration.  One fault anywhere is what the code's recovery is written for; a second one is needed
only where a lost answer has to be followed by a refusal.  Where the proofs below apply, no bound
matters.  The runs that do not check deadlock are those of systems that may stop: a source is gone, a
horizon ends, all requests of a bounded world are made.

Fairness: forked handlers and executors run on (the provider callback is cut off after 120 seconds),
time passes, pages and waiting requests keep polling `/operations`; the apply worker, the tick and the
lifecycle worker run on (every child is killed after 300 seconds), a killed child exits, Docker
restarts a bundle.  Requests and ticks themselves are not fair.  In `Retirement` every call of the job
returns (all have timeouts), gated transactions commit and admitted work ends; the maintenance thread
comes back every five seconds and `apply.lock` is never held for good, so that its ticks and
continuations are strongly fair; what may hold a removal up for good is named in the property (a file
that is refused again and again, a conflict the guard reports again and again).  In `Registration` the
continuation comes back every five seconds and every call has a timeout; the run asks fairness of the
continuation only, and only where no two requests compete, which is less than the module's `Fairness`; in `Accounts` the scheduler ticks every 30 seconds and a runner goes on until it ends or dies.

### What the violations show

- `retirement_conflict`: `tick()` says that ownership and dependency conflicts block; a guard that
  refuses the review of a queued removal reaches it as a `ControlError`, and the request stays WAITING.
- `retirement_orphan`: a POST that was given up on may be served after the repeated POST was refused;
  the journal then says BLOCKED of a deletion that happened.
- `netbox_manual`: a write sends the whole custom-field map of the stage's read, and so sets back a manual
  field somebody filled in since; sending the managed fields alone would keep it (`netbox_apply.py:329`,
  `netbox_vm_apply.py:257`).
- `selectel_link`: after detach and a manual link ("without adopting ownership",
  `provider_manual_link.py:1`) the receipt of the old import grants the deletion of the card again.
- `guard_audit`: after a VM replacement its creation receipt names no model, and the audit of its
  source fails from then on.
- `restore_constants`: `ALEMBIC_CHAIN` ends before the last migration and `FOUNDATION_TABLES` is not in
  the order of the listing it is compared with, so no bundle of the current revision can be restored.

### Disagreements met while modelling that no run is kept for

Each was seen in a counterexample or follows from the mapped lines; the model does what the code does.

- `apply()` closes the lock descriptor (`apply_worker.py:483`) before `finish_run`; a tick that starts in
  between reads a history without the uncertain outcome, although `docs/live-audit-20260921.md:39-42` says
  it checks under the lock.  `WritersCleared` allows this one late outcome.
- The writer child does not inherit `apply.lock`, so it is free between the death of the apply worker
  and the kill of the group (`docs/architecture.md:419`).
- A calendar source that is overdue when it is switched on again waits for its next slot
  (`docs/web.md:728`), because the edit moves `schedule_changed_at`.
- An enqueue inside the gated start of a recovery's credential stage leaves the recovery pending and
  the removal blocked by it (`removal_queue.py:37`).
- The restore's cleanup drops `sources` before `source_removal_requests`, which refers to it, and leaves
  five functions behind, so that `DROP SCHEMA` fails; services are not started again when `compose
  stop` fails partway in `Maintenance.__enter__` (`docs/backup-restore.md:201-202`), and
  `MaintenanceKeeps` speaks only of windows that were opened.
- Two VMs that exchanged names are always refused; the primary address of a
  VM set by the synchronizer stays after a change in the guest while a container's is overwritten; a
  guest that matches by name or management address only makes an executor raise on the recording facade,
  so that no plan results, although such items are said to be isolated for review
  (`docs/frontend.md:229-231`, `application/sync_plan.py:63`, `tests/test_sync_plan.py:41-49`); legacy-owner objects of the same name are a CONFLICT in `_generic_item`.
- A crash between a preparation's marker and its POST leaves it UNCERTAIN until the field is made by
  hand; `validate` takes the document out of READY without `apply.lock`.
- An account without any server is refused in native mode (`provider_reconcile.py:61-62`); first creation does assign addresses (`docs/hardware-identity.md` says it does not);
  an import may be blocked by the old name of a card it renames, so that two are needed.
- An account disabled between the two checks of a launch stays "running" until the scheduler's tick; a
  replayed decision whose second POST is refused clears the pending nonce although the first may still
  commit (`selectel_lifecycle_control.py:41`, `:148`); an unknown run that ends after a pending baseline
  makes that decision unreplayable.

## Proofs

The proofs hold for every value of the constants under the named assumptions of the modules: bounds
are natural numbers, sets of sources are not empty where a source is chosen, `None` (in `Bootstrap`
`Nil`) is no process, row or answer, the modes, scenes, stages and worlds a model starts in have the
types of the tables, a calendar always has a first next moment (which `NextIsFirst` checks of the real
calendars).  TLC evaluates each assumption in the run of its module.

| Module | Proves |
|---|---|
| `SourceOperationsProofs` | type correctness, `ExecutorFenced`, `ReviewedCurrent`, `ClosedQuiet`, and that `SourceOperations` implements `OperationSlot` (`SlotContract`) |
| `SyncRunsProofs` | type correctness, `HonestOutcome`, `PlanOnce`, `WriterHoldsLock`, `RemovedSettled`, `ManualHistory` and `ScheduleWaits`, `WritersCleared`, and that the slot of `SyncRuns` is one of `OperationSlot` (`PlanSlotContract`) |
| `SchedulingProofs` | `CadenceKept` and the action property `OffIsSeen` |
| `RetirementProofs` | type correctness, `JournalHonest`, `FlightProtected`, `ForgottenLast` and the action property `ReviewedOnly` |
| `RegistrationProofs` | type correctness, `ClaimedFirst`, `CredentialsKept`, `RegistrationSound` |
| `AccountsProofs` | type correctness, `HonestAccount` and the action property `ImportIsCurrent` |
| `NetBoxProofs` | of `Bootstrap` type correctness, `ReadyIsSound`, `NoBlindRetry`; of `Guard` the tables' types, `ClosedIsEmpty` and the action property `DeletesOwned` |
| `DeploymentProofs` | type correctness, `ServedSound`, `BundleSound` and the action property `MaintenanceKeeps` |

Every argument is an inductive invariant `IInv` (`OpsIInv`, `SetupIInv`, `GuardIInv`, `DeployIInv`), which TLC
checked on a small instance before it was
proved.  The properties alone are not inductive because they speak only of the step at which something
would go wrong; what `IInv` adds is:

- `SourceOperations`, `SyncRuns`: who owns a lock or a gate at each step, and what each process knows of
  the row it works on (`WorkerRow`, `TickRow`, `ChildRow`).  What a
  writer has found in the history stays true because every row it depends on is one that only the holder
  of `apply.lock` may change.
- `Scheduling`: a source on the tick's list stays due until it is run (only the tick writes the
  scheduled history, and time only helps), and a row that differs from the tick's copy was changed after
  the tick began.
- `Retirement`: `JobKnows` says for each step of the job what it has established and nobody can undo
  behind it: before the consent the journal has at most the review; between the consent and the recorded
  answer the operation is in flight, and a refusal it is about to record is true unless a POST was given
  up on; the local half works under the receipt and by consent, and credentials, files and rows go in
  that order.  `RowsSay` is how the tables fit together when no job looks: a source that is gone has no
  journal and no request, a gated transaction is alone, a row that was sent or may still be served has an
  intent, an old BUSY row keeps the first tombstone, removed credentials are gone.  The hard case is
  `ServeStray`, a POST served when no job waits for it: the operation is one whose consent was recorded
  and which is remembered as abandoned, so no recorded refusal of another one becomes untrue.
  The module first has the effect of each step on the job, then the steps up to the recorded answer,
  the local half, the queue, everybody else and the theorems.
- `Registration`: `Knows(p)` says what a thread has at each of its steps that nobody can take from it:
  its request's intent, its job, whole files, the cluster it made, the secret of its token; `Apart` and
  `Spent` say that the numbers of random keys are one thread's own until a row refers to them, which is
  why a rollback can only delete its own files.  `Tables` says how the stored parts fit together when no
  thread looks: reservation and intent are of one request, job and row follow it, what NetBox has or may
  still get is journalled.  Nothing in it speaks of the advisory locks, so losing them costs nothing: the
  unique reservation and the immutable intent carry the proof.
- `Accounts`: `Answerable(r)`: an import that may still be sent or served belongs to a retired run or to
  the run its account names and has not settled; so whatever settles an account (a refusal, a receipt, a
  baseline, a deletion) must first have made the import impossible.  Decisions are told apart by their
  nonces (`DecisionIs`), because an answer that comes late is matched to a decision by them alone.
- `Bootstrap`: a probe is judged by the revision it was begun with (`ProbeIs`), and a POST that is not in
  NetBox yet is the one of the running preparation that waits for it or has given up with its marker in
  the document (`RunIs`, `PostIs`); hence at most one is open and nobody can clear its marker but by
  finding the field.
- `Guard`: `Healthy(db)` ties a claim to the generation of its object, an intent to generations that have
  been reached, and a closed source to what its intent deleted or retained.  `Evolves` is what every
  transaction does to the tables: generations only grow and a new object has a later one, a new claim is
  made only for an open source, intents and closures stay; the lemma `EvolvesHealthy` shows once that
  this preserves `Healthy`, and each transaction, and each change of other users, is shown to be such an
  evolution.  `Locked(p)` is
  the namespace lock: a creation that holds it has an open source until it commits.
- `Deployment`: `ActorsIn` says who has `apply.lock` at which step.  `HostIs` is what holds of a host at
  any moment, also after a tool was killed: a release is whole before the link names it, its schema is
  granted before it is active or served, and a configuration with a DSN has the password of the role.
  `InstallIs` says what the installer has established at each step and that the configuration it
  would roll back to (`SnapIs`) is as good as the one it replaces; that every configuration file is of
  the active release holds only as long as nothing was killed, which is why the invariant counts the
  kills.  `WindowIs`: nothing runs while a backup reads its parts, so they are of one moment.  `TargetIs`:
  from the window on nothing runs on a restore's target until it has schema, grants and password, and a
  dropped database stays quiet, also when the restore fails half way.  `StandIs`: the test stand schedules
  nothing, and what the update stopped stays off until NetBox's Guard and the release are new.

The refinements are proved step by step: an action of the detailed module is a step of `OperationSlot`
or leaves its two variables alone.  Action properties follow from `IInv` and the few actions that touch
the variables they speak of (in `RetirementProofs` the lemma `Touches`).

Only model-checked are:

- the liveness properties (`NothingHangs`, `RemovalEnds`, `StagedEnds`, `RunningEnds`; fairness and
  ENABLED are outside the prover);
- `NextIsFirst` of `Calendar`, whose search runs over data and would need induction over it;
- `FullSync` (`PlanHolds`, `Repeatable`, `IdentitiesExact`): the inventory it works on is computed by
  recursive operators, and the properties compare whole simulated stages with the tables before;
- `ProviderCards` (`CardsSound` and the action properties): an import folds over the cards of an
  account, and what the fold leaves is a fact of induction over it;
- `Auth`.  Its properties could be proved along the same lines; the installation run
  explores all interleavings of its small instance.
- what the code does not satisfy (`RestoreAccepts`, `ManualKept`, `LinkAdoptsNothing`, `AuditAnswers`,
  `ConflictBlocks`, `RefusalProvesNoMutation`; see the violations above).

## Not modelled

- pfSense firewalls (`pfsense_*.py`): control, preview and guarded apply follow the pattern of the
  Selectel accounts (state file, child process, receipt) and have no module of their own.
- ESXi migration and adoption: run once by an operator; the decision per object is left to its tests.
- The credential stage of a recovery beyond what a retirement meets (`source_recovery.py`,
  `source_file_purge.py`): the broker's proof of identity and the API's compensation.
- Of the Guard: tenancy and placement of cards, network and routing projections, VM ports, disks and
  NAT, the proof of a creation by a second GET, the client's classification of answers.
- Of the deployment: `migrate_naming.py`, the container entry point, `web_runtime.py`.
- Provider discovery (reads of remote APIs, no state), the pages and the frontend, request parsing and
  data transfer objects, reports and diagnostics (pure presentation), the Selectel audit tool.
