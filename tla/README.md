# My Own Suite: TLA+ verification project

My Own Suite is a self-hosted server: an unprivileged web application (Suite
Manager) in front of a set of small root agents, each a Node service on a Unix
socket, each with its own state files, and each able to start longer work as a
separate process. What the product promises its owner (a backup that was
reported is there, an update never runs without one, the encrypted disk always
opens with a key somebody has, an app's update never strands its data) is not
the property of one function. It is kept by several processes that meet in
files, and that may be killed between any two writes. These modules model that.

The project has three kinds of module:

- **components**: one per part of the system, its state as variables, one action
  per operation, handler or step (33 modules, section 3);
- **harnesses** (`MCHost`, `MCSuite`, `MCFront`, `MCHostUpdate`,
  `MCUpdateJobs`): how TLC is given instances of them (section 4);
- **proofs** (`*Proofs`): theorems about components for every value of their
  constants (section 6).

`PROJECT.json` lists components, runs, mutants, the source lines behind every
definition, findings, hazards and theorems. To repeat a run:
`tlc -workers 2 -config BackupJobs.cfg BackupJobs.tla`; to repeat a proof:
`tlapm BackupJobsProofs.tla`.

## 1. Inventory

### The components and the state each keeps

| component | state | operations that change it |
|---|---|---|
| **Backup agent** (`system-agents/backup/agent.cjs`) | `jobs/*.json`, `current-job.json`, `uncollected-data.json`, `restore-journal.json`, a worker's unit and pid | POST of a backup, delete, check or restore; reconcile on any poll; acknowledge an interrupted restore; places and primary |
| **Backup worker** (`agent-core.cjs`, one process per job) | the repository (restic snapshots and packs), manifests, which containers are stopped | the steps of a backup, a delete, a check, a restore, and the clean-up after each failure |
| **Places** (`destinations.cjs`, `carry-over.cjs`) | archives on a drive or in a bucket, the bucket's catalogue, index files | list, choose, create, index, forget; the move of what MOS 0.22 kept |
| **Restore** (`agent-core.cjs`) | the journal with its phase, the rescue copy, volumes and state while they are replaced | validate, rescue, replace, reconcile, verify, adopt the key, dismiss |
| **Schedule** (`scheduler.cjs`, `schedule.cjs`, `primary.cjs`) | `schedule.json`: what is due, what was asked for, what retention still has to delete | tick: begin, follow, retry, prune |
| **Recovery key** (`key-rotation.cjs`, `engine-restic.cjs`, `recovery-key-store.cjs`, `guest-keys.cjs`) | key file, staged key, superseded keys, guest keys, the acknowledgement | rotate, adopt, acknowledge, re-key an archive on sight |
| **Vault agent** (`vault/`) | LUKS slots, chip enrolment, escrow file, a queue of changes | lay out, open, enrol, reseal, rekey, hand over |
| **Update agent and worker** (`update/`) | job records, the checkout, `node_modules`, the pages, the units | start, cancel, skip; checkpoint, checkout, install, build, reconcile, restart |
| **Host patches** (`infrastructure/host-patching.cjs`, `system-agents/host-patches/`) | apt's configuration files, the hold list, the post-patch verdict | take on or leave, push holds, check, restart |
| **Apps agent** (`system-agents/apps/`) | containers, the routes file, snapshots, drives and their mounts, partial uploads | install, update, roll back, attach, eject, append |
| **HTTPS agent** (`system-agents/https/`) | the Caddyfile and the token beside it, one checkpoint | apply, commit, roll back |
| **Homepage agent** (`system-agents/homepage/`) | YAML files with revisions, routes | revision-checked edits, projections |
| **Suite Manager** (`suite-manager/backend`) | the SQLite store, secret files, sessions, the throttle, catalogue caches, upload sessions | install, update, connect, configure, uninstall; setup and sign-in; address; sources; relay |
| **Suite Manager's pages** (`suite-manager/frontend`) | what a tab shows and has in flight | dialogs, the held page, the job page, the Apps screen |
| **Planner** (`site/planner`) | a library of roadmaps in the browser's storage, an undo history per tab | edit, autosave, undo, import, draw |

### How they interact

- Suite Manager calls an agent with one HTTP request over a Unix socket. Requests
  time out; an agent may have acted although its answer never arrived, and its
  handler runs on when the caller has hung up.
- An agent is one Node event loop: a handler is atomic up to its next `await`.
- The backup and update agents do long work in a **worker**, a separate process
  that rewrites the whole job file with its progress. Agent and worker share
  files and nothing else.
- The update worker is a client of the backup agent: before it touches the
  checkout it asks for a backup and polls that job. Owner, schedule and update
  worker compete for the same queue.
- Both ways the recovery key changes (a rotation in the backup agent, an adoption
  in a restore worker) call the vault agent, which moves a slot of the disk, and
  then write the key file themselves.
- An app's update is a saga: Suite Manager decides the order and keeps the
  record, the apps agent swaps containers, routes and snapshot directories.
- A tab knows the server by answers that overlap and may arrive in any order.

### What is hard

- **Crashes between two writes**: two processes die independently and what they
  leave is found by a later poll, attempt or start.
- **A place that comes and goes**: a drive is pulled and a bucket stops answering
  between any two steps of a job or of its clean-up.
- **Read, await, write**: checks whose answer is used after an `await`, and
  records read by one process and written whole by another.
- **Lost and late answers**: the work was done and the caller does not know.
- **Clean-up that must not reach too far**: discarding a failed backup, pruning,
  undoing an install, discarding secrets, a restore's rescue copies.
- **Things that must end**: a job whose worker is gone, an update that waits for a
  drive, an interrupted app update, a page that holds itself.

`PROJECT.json` lists these as hazards at the lines where they bite, with the
properties that cover each.

## 2. The plan and where it stands

1. The backup queue and pipeline, the update composed with it, the recovery key:
   `BackupQueue`, `BackupJobs`, `UpdateJobs`, `RecoveryKeys`. **Modelled, checked,
   proved about.**
2. What a backup is kept in and taken from: `Restore`, `BackupScheduler`,
   `Buckets`, `DriveArchives`, `Vault`. **Modelled and checked.**
3. Suite Manager's sagas: `AppUpdates`, `Installs`, `Connections`, `Manifests`,
   `Address`, `Catalog`, `Sources`, `Offers`. **Modelled and checked.**
4. Files and machine: `Drives`, `Uploads`, `HostUpdate`, `HostPatches`.
   **Modelled and checked.**
5. The owner's side: `SignIn`, `Throttle`, `Relay`, `Store`, `Homepage`,
   `AppSettings`, `AppScreens`, `Progress`, and the planner (`Planner`, `Roadmap`,
   `Layout`, `Artwork`). **Modelled and checked.**
6. Proofs, in the order of their worth: section 6 says what is done and what is
   left.

No component has a RECURSIVE operator, so that all of them can be proved about.

## 3. The modules and the code

Each module begins with what it is about; `PROJECT.json` "map" gives the lines
behind every definition; one whose lines lie within those of another definition
is read with that one and not listed again. This section says what a reader has to know of the
larger ones.

### Backups

**BackupQueue**: what the backup agent promises. `queue` is what a caller sees of
each job (none, active, succeeded, failed) and `lost` the active jobs whose worker
is gone and not yet noticed. `Accept` succeeds only when every active job is lost,
and settles those as failed in the same call, as `createJob` does by reconciling
first.

**BackupJobs**: the agent and its workers, which implement `BackupQueue`.

| TLA+ | code |
|---|---|
| `job`, `current` | job files; the job `current-job.json` is a copy of |
| `worker[j]` | the step the job's process does next; "dead" is killed, "exited" is done |
| `halted`, `running` | containers the worker stopped and remembers; containers that run |
| `founder`, `repository` | this job created the repository; places that hold one |
| `stored`, `listed` | what each backup has in its repository; manifests |
| `CreateJob`, `Reconcile` | `createJob` (synchronous, so one action); `reconcileCurrentJob` on any poll |
| `Collect` … `ResumeApps` | `createBackup` step by step, with the catch (`DiscardManifest`, `DiscardData`) and the finally (`ResumeApps`) |
| `Unlist`, `Forget`, `Maintain` | `deleteBackup` |

A repository holds one of four amounts per backup: nothing, packs no snapshot
refers to, some snapshots, all of them. A restore is a job with a journal here;
its inside is **Restore**, from validation through rescue, replacement and
verification, with the worker killed and power lost at every step.

**BackupScheduler**: a tick of the schedule, split at its awaits, beside an owner
who edits, backs up and deletes. **Buckets**, **DriveArchives**: the archives in a
bucket and on a drive: the catalogue written before the repository, the readings of
the catalogue and of the points that the agent begins and that land late
(`BeginReading`, `EndReading`), the manifest written to a temporary file and
renamed, the drive pulled at any step, with or without what 0.22 kept at its root. **Vault**: the encrypted disk from its first boot on.

### RecoveryKeys: one key, three processes

| TLA+ | code |
|---|---|
| `disk[k]` | how many LUKS slots the key opens |
| `keyFile`, `staged`, `superseded`, `guest`, `acknowledged` | the files of the same names in the backup agent's state |
| `handler[c]`, `moving[c]` | where a rotation request, or the restore's adoption, is |
| `rekey[c]` | that caller's request at the vault agent, which serves one at a time |
| `archive[a]` | keys that open an archive this server made |
| `known`, `dropped` | keys the owner has seen or typed; keys an adoption overwrote (history) |
| `BeginRotation` … `FinishRotation` | `rotateRecoveryKey` and the engine's three writes, split at awaits and at writes |
| `BeginAdoption` … `ForgetAdopted` | `assumeArchiveKey` in the restore worker |
| `TakeRequest`, `RemoveOldKey` | `rekey` of the vault agent: add a slot, then remove one |

### UpdateJobs and HostUpdate: a managed update

`UpdateJobs` is the agent, its worker up to the checkout, and its checkpoint; the
backup agent is `BackupQueue`, whose actions are conjoined with the step that
causes them. The start handler is split at its awaits (`AskUpdate`,
`HearBackupAgent`, `CreateUpdate`); cancel, skip and the giving up of a lost job
never await between reading and writing the record, but the worker is another
process, so each is two steps (`BeginAnswer`, `EndAnswer`) between which it may
write. `loose` are the workers started without a systemd unit, which the agent
takes for lost while they run. `HostUpdate` is what happens to
the machine once the backup is taken: packages, pages, units and restarts over
several releases, with the tab that holds the screen meanwhile.

### AppUpdates: one app from two sides

| TLA+ | code |
|---|---|
| `row`, `op` | the app's row and its latest update operation in the store |
| `secretFile` | the file of a secret an update collected |
| `disk` | the instance's package directories: installed, candidate, displaced by a promotion, previous |
| `docker` | the version whose containers run, the version the routes lead to |
| `calls[s]` | an agent handler: `keyed` has the app's operation key, `free` was called without it, `lost` was hung up on or outlived its caller |
| `saga` | the Suite Manager handler that holds the key, and what it knows |
| `RecordUpdate`, `AdvanceUpdate`, `RecordPromotion`, `CommitUpdate` | the update, a step per answer: stage, build, activate, promote, commit |
| `CommitFails`, `RefuseUpdate`, `RollBackUpdate`, `UpdateRolledBack` | its failures and what they leave due |
| `FailInterruptedUpdate`, `RecoverInterruptedUpdate` | what Suite Manager's start does with an update that was running |
| `RecoverByCommit`, `RecoverByRollback`, `Recovered` | the owner's recovery |
| `BeginLifecycle`, `EndLifecycle`, `FreeApply`, `FreeApplied` | disable, enable, uninstall; an apply made without the key |
| `AgentStep(s)` | one file-system or docker command of a handler |
| `HangUp`, `SmCrash`, `AgentCrash`, `AgentStart`, `SweepInterruptedPromotions` | a request given up; either process killed; the agent's start, which undoes a promotion cut in two |

Suite Manager's handlers are split at their calls, the agent's at their commands,
and a handler of the agent runs on when nobody waits for it. `overlapped` records
that two of them, or a lost one and Suite Manager, have worked on the app at
once: some properties are claimed only of behaviours where that has not happened,
and say so.

### The rest of Suite Manager and its pages

`Manifests` follows one package from the publisher's edit to what the app is
started with: semantic checks, config rows, rendering, the comparison an update
is previewed with, and the update. `Connections`, `Installs`, `Address`,
`Catalog`, `Sources`, `Offers` are the handlers of those names with their
refusals, undo paths and crashes. `SignIn`, `Throttle`, `Relay`, `Store`,
`Homepage`, `AppSettings`, `AppScreens`, `Progress` are what an owner meets.
`Planner`, `Roadmap`, `Layout`, `Artwork` are the site's roadmap planner: the
library across tabs and timers, a document's dates and order, its geometry in
thousandths of a pixel, and its logos.

### Abstractions used throughout

- A write of one file is atomic: a torn write is taken as the old or the new file
  (the restore journal is renamed into place, job and key files are not).
- A name, a secret or a payload is a model value or a version number; what is
  compared in the code is compared here.
- A step of an external tool (restic, LUKS, docker, apt, npm, caddy) succeeds,
  fails, or has done part of its work; what it prints is left out.
- Every bound on a counter is a constant named `Max...` and is a guard of the
  action it bounds; in `Address`, `HostPatches` and `Offers` it is a budget
  (`Budgets`, `Starts`), of which an action that is bounded spends one.

## 4. The runs

`CHECK_DEADLOCK FALSE` is set in every run: when the job ids, versions or events
of the instance have been used the model stops, the program does not.

Components whose properties are mostly about themselves are checked in three
**harnesses**. They share no state in the code, so an interleaving of two of them
is two runs of one: the variable `part`, chosen by `Init`, names the component that
moves and the others stay as installed. A component that needs two sets of bounds
(for instance many crashes and few requests, or the reverse) is two parts, or
has two budgets to begin with. A
property of a harness says, part by part, what each component promises; the
component's own module states it and says what code it is about.

| run | instance | distinct states | what it shows |
|---|---|---|---|
| `backup_jobs` | 2 jobs of any kind, a drive and a bucket, 1 container, kills and polls at any step | @BJ | `OneWorker`, `SucceededIsRestorable`, `SuccessAfterResume`, `JobsSettle`; the pipeline implements `BackupQueue` |
| `update_jobs` | 2 updates that may overlap, 2 backup ids, torn answers | @UJ | `BackupBeforeTouch`, `FailedCheckpointIsUntouched`, `RunningBackupDecides` |
| `update_jobs_live` | 1 update, 2 backup ids, 1 job of the owner, torn answers | @UL | `UpdateEnds` |
| `recovery_keys` | 3 keys, 1 guest key, 1 archive, changes that may overlap (followed until one of them is over) | @RK | `DiskKeyHeld`, `ArchivesOpen` |
| `app_updates` | 2 versions, 2 updates, any 3 of: a crash of either process, a hang-up, a lifecycle request, a plain apply | @AU | `RecoveryIsPossible`, `ServedIsRecorded`, `CollectedSecretsKept`, `UpdatesSettle` |
| `host_update` | 3 commits of 2 versions, 2 updates, a failure, a crash, a power cut, a track switch | @HU | `MachineIsSound`, `HoldEnds` |
| `host` | parts: schedule, bucket, archive, space, upload, handover, recovery, patches | @HO | `RunsOncePerOccurrence`, `RetentionSparesTheOwner`, `ArchivesAreOurs`, `OwnersFilesAreSafe`, `RecoveryIsAtHand`, `PatchesAreSound`, `PointsStayTrue` |
| `suite` | parts: manifests, connections, installs, address, catalog, sources | @SU | `ReferencesResolve`, `UpdatesKeepValues`, `AppsAreAsRecorded`, `HostFollowsTheSuite`, `CheckedIsListed` |
| `front` | parts for the twelve components an owner meets | @FR | `RecordsAreSound`, `ScreensAreTrue`, `OffersAreSound`, `PlannerKeepsTheWork`, `OwnersDataIsKept`, `ScreensGoForward` |
| `update_jobs_cancel` | 1 update | | refutes "cancel is honoured while queued…" |
| `catalog_feed` | 3 commits, 3 refreshes, 1 failure | | refutes "keeps the last-known-good advisories" |
| `manifests_setup` | 2 edits | | refutes "setup values the candidate newly requires are collected" |

### Why the bounds are enough

- **Two jobs, a drive and a bucket**: a backup that succeeded and, after it, a
  delete, a restore, or a failed backup that cleans up beside it, in the same
  place or the other. Drive and bucket differ in `Removable`.
- **Two updates** overlap their start requests and share `current-job.json`. Two
  backup ids let an answer be lost once and asked again; `AcceptedUnheard` is not
  taken with the last free id, so that the bound does not stop an update the real
  agent would go on serving. `Disturbed` names the one whose record a handler may
  be answering while its worker writes; the destination of this run is set or not
  (`Places`), and comes and goes in the other.
- **Three keys** are two rotations, or one resumed and one after it. A guest key
  adds an adoption before, between, after or beside them. `MaxSlots` bounds how
  often the same key may be on the disk. The generated keys but the first are alike
  (`SYMMETRY`).
- **App updates**: `MaxEvents` bounds all mishaps and side requests of a behaviour
  together, the single bounds each kind. Three are a crash of each process around
  a hung-up call, or a crash during the recovery of a crash with a lifecycle
  request between.
- **Host update**: three commits are an update, one that fails halfway, and a
  release that appears meanwhile.
- **The address** (`MCBudgets`): two changes over one failure and one death of
  either process, one of them to a domain a restore offered; and one change beside
  a tick of the watch, a managed update and a door that moves.
- **Ubuntu's patches** (`MCStarts`): a machine with no configuration, with an
  owner's file after MOS's or with an edited distro file, where the owner edits once
  more; and one with none where the advisory feed moves. Each has an update, a run,
  two reboots and a failure.
- **The catalog** of `suite` has three refreshes over three commits, so that an
  answer can be lost, the track left and taken up again; its manifests have one
  link, two edits and one save.
- **The owner's side** has what its property needs more than one of: two browsers and
  two passwords at the sign-in, two requests at once on the dashboard, two tabs of
  an app's settings (one where undoing and pasting are bounded more widely), two
  jobs. It has one of the rest: one tab and one password of the relay, whose
  conversations overlap all the same (a save, a test, an alert); one attempt in
  flight and one entry kept by the throttle, so that an eviction happens at the
  second; one tab of the planner. What a second tab of the relay's form or of the
  planner would write is in no run.
- **The other parts** have two or three of what their properties compare (archives,
  apps, versions, requests) and one or two of each mishap.

### Fairness, and why the code justifies it

- `BackupJobs`: weak fairness on a live worker's step, on leaving the phases of a
  restore, and on `Reconcile`, which runs in every read of the agent's status.
- `UpdateJobs`: weak fairness on the worker, on a handler's write after its read,
  and on the end of a queue job (which `JobsSettle` shows). Strong fairness on a
  status read finding the agent free, and on the backup agent answering where it is
  asked in a loop: it may fail any number of times, not for ever. `UpdateEnds` is
  claimed only for a destination that is here from some moment on.
- `AppUpdates`: weak fairness on the saga's next step, on the two steps of Suite
  Manager's start, on the agent's start and its sweep, and on every handler's
  next command: systemd restarts both processes, and handlers run on.
- `HostUpdate`: weak fairness on the worker, on each service starting again, and
  on the page's polls, reconnects and reloads (interval timers).
- The harnesses claim no liveness.

### The mutants

Every property has a mutant in `PROJECT.json`: the definition as a plausible bug
would have it, under which TLC finds the property violated. Among them: an idle
check that looks at running jobs only; a checkpoint that takes any end of its backup
for success; a rotation that starts afresh rather than with the staged key; a failed
update that forgets which secrets it collected; a schedule that looks at the last
success; a roll-back of the dashboard that forgets the pages.

## 5. Where the code and its words differ

Three runs must find a counterexample:

1. **Cancel** (`update_jobs_cancel`, `worker.cjs:64` and `:93`). The worker writes
   status "running" over the file when it boots and when its checkpoint is over. A
   cancel that was answered 200 before the boot, or during the last poll, is
   overwritten, and the checkout moves. `docs/decisions.md:307` promises otherwise.
2. **The feed** (`catalog_feed`, `official-catalog-service.cjs:375`). A catalogue
   that moved replaces the cache before its advisory feed is fetched; when that
   fails the advisories this server had are gone, which the comment at 383 denies.
3. **Newly required values** (`manifests_setup`, `app-update-comparison.cjs:121`). A
   field that was optional, left empty, and is required by the new version is asked
   for nowhere: the update called compatible is refused when it is applied.

More sentences of the repository are stated as definitions, were found not to
hold of the modelled behaviour, and are kept in their modules without a run:

| definition | module | the sentence is at |
|---|---|---|
| `ListedIsComplete` | BackupJobs | `agent-core.cjs:530`, a failed backup leaves nothing listed |
| `OneUpdateAtATime`, `QueueHeldUntilApply`, `ApplyIsRecorded` | UpdateJobs | `update/agent.cjs:235`, `:76`, `:149-156` and `:258-268` |
| `RefusedMeansUnchanged`, `GateStandsAgain` | RecoveryKeys | `key-rotation.cjs:45`, `:116` |
| `NoEarlierDataSurvives` | Restore | `agent-core.cjs:835` |
| `StartedIsFinished` | Buckets | `destinations.cjs:502`, a cut backup is not started again beside it |
| `ListedHasContents` | Buckets | `agent-core.cjs:565`, the order of a delete |
| `FreshIndexIsCurrent` | Buckets | `destinations.cjs:32` |
| `MovedPointsOutliveJobs` | DriveArchives | `agent-core.cjs:525`, true as long as no rename of the move failed |
| `MoveEndsInOneArchive` | DriveArchives | `carry-over.cjs:105` |
| `ChipFollowsThePassword` | Vault | `setup-service.cjs:239` |
| `NothingLandsOnTheSystemDisk` | Drives | `files.cjs:33` |
| `NeverAGapOrARepeat` | Uploads | `files-service.cjs:449`, where two requests of an upload met at the drive |
| `ActiveIsJoined` | Connections | `app-package-service.cjs:890` |
| `UninstalledIsFresh` | Installs | `docs/decisions.md:665` |
| `InstallsFromActiveSources` | Sources | `external-source-registry.cjs:28` |
| `PostureIsDerived` | Offers | `package-contracts.cjs:370` |
| `UpToDateIsTrue`, `StableIsARelease`, `ManagerReturns` | HostUpdate | the Updates screen's headline; `Restart=always` |
| `OwnerIsLeftAlone` | HostPatches | `site/docs` on updates; `host-patching.cjs:226` |
| `UnreachedIsNotTicked`, `OpenedIsKept` | Progress | the job page |
| `VerdictIsAboutTheRelay` | Relay | `smtp-settings-service.cjs:130`, with overlapping conversations |
| `ShortcutGoesWithTheApp` | Homepage | `AppDetail.tsx:393` |
| `OldPasswordsOpenNothing` | SignIn | `setup-service.cjs:230`, a sign-in that read the account before the change |
| `ShownIsKept` | AppSettings | `AppConfigDialog.tsx:515` |
| `SnapshotIsRecorded` | AppUpdates | `apps/system-adapter.cjs:927`, when the agent dies |

`StartedIsFinished`: a backup that dies, or fails, between the entry of its archive
in the catalogue and the note of it leaves a name no list of this server holds; and
a reading of the catalogue that the agent began before lands over that note. Either
way the next backup begins a second archive (17 states). What does hold is proved:
a bucket has one archive of this server unless a job chose from lists the bucket
had outgrown (`OneArchiveOfThisServer`). `ListedHasContents`: a listing begun before
a delete lands between its look-up and its forgetting; the delete finds nothing to
forget, and the point stays listed without its contents (19 states).
`MovedPointsOutliveJobs`: a move from 0.22's layout that fails before its last
rename leaves the old points in an archive without a repository; a backup makes
one there, fails, and discards the archive it made, points included (8 states).

Other promises hold of the code only until two requests meet that no lock keeps
apart. Their properties say so in the predicate, on a history variable, and the
run has the meeting: a key is held until a change of it begins beside another
(`DiskKeyHeld`, `ArchivesOpen`: a late end of one removes the staged key another
has moved the disk to); an occurrence is run once until a tick begins before the
last has ended (`RunsOncePerOccurrence`: a refused tick writes back what it had
read); the dashboard's edits, pages and addresses follow each other as long as a
change met no other (`crossed`, `unsettled`, `met`); an app's route is written and
a connection put back where no two requests worked on it at once (`crowded`,
`crossed`); the holds on the host are the feed's until an answer was lost and the
server left its track (`lost`); an ejected drive, an upload, a relay's verdict and
an app's recovery likewise (`overlapped`, `crowded`).

The last row of the table is worth telling. The agent dies after both renames of a promotion
and before it forgets the displaced snapshot; Suite Manager's start, or the
owner's recovery, finds the candidate's digest on disk and commits the update;
the agent's sweep then finds the displaced snapshot, takes it that "the promotion
never returned, so Suite Manager still records the old digest", and undoes the
promotion. The record names the candidate, the disk holds the old package, and
every later verification refuses. With `SnapshotIsRecorded` among the invariants
of `AppUpdates.cfg`, TLC shows it in 25 states.

## 6. What is proved

TLAPS proves each theorem below for every value of the constants, under the
assumptions the component's module names and TLC evaluates, or that the theorem
itself states. Each follows one argument: the property is not inductive alone; a
stronger invariant, for the harder ones checked by TLC over the states of the run
first, holds initially and is kept by every action, one lemma per action or group
of them; the property follows from it.

| module | theorem | property | run |
|---|---|---|---|
| `BackupJobsProofs` | `TypeCorrect`, `OneWorkerAtATime`, `AgentImplementsQueue`, `SucceededStaysRestorable`, `SucceedsAfterResume` | `TypeOK`, `OneWorker`, `ImplementsQueue`, `SucceededIsRestorable`, `SuccessAfterResume` | `backup_jobs` |
| `UpdateJobsProofs` | `TypeCorrect`, `CheckpointBeforeTouch`, `FailedCheckpointsChangeNothing`, `BackupsDecide` | `TypeOK`, `BackupBeforeTouch`, `FailedCheckpointIsUntouched`, `RunningBackupDecides` | `update_jobs` |
| `RecoveryKeysProofs` | `TypeCorrect`, `DiskKeyNeverLost`, `RotationStrandsNoArchive` | `TypeOK`, `DiskKeyHeld`, `ArchivesOpen` | `recovery_keys` |
| `AppUpdatesProofs` | `TypeCorrect`, `CollectedSecretsAreKept`, `RecoveryStaysPossible`, `OnlyTheRecordedServes`, `OffersStaySound`, `NoCommitRunsAhead`, `OfferTypeCorrect`, `NeverGoesBackAStep` | `TypeOK`, `CollectedSecretsKept`, `RecoveryIsPossible`, `ServedIsRecorded` (`app_updates`), `OffersAreSound` (`front`); the others are in no run | `app_updates`, `front` |
| `HostUpdateProofs` | `MachineStaysSound` | `MachineIsSound` | `host_update` |
| `HostServicesProofs` | `OccurrencesRunOnce`, `RetentionSpares` | `RunsOncePerOccurrence`, `RetentionSparesTheOwner` | `host` |
| `HostDataProofs` | `RecoveryStaysAtHand`, `ArchivesStayOurs`, `PointsStayTrueHere`, `OwnersFilesStaySafe`, `PatchesStaySound` and the theorems of the components they rest on | `RecoveryIsAtHand`, `ArchivesAreOurs`, `PointsStayTrue`, `OwnersFilesAreSafe`, `PatchesAreSound` | `host` |
| `SuiteProofs` | `NoReferenceIsLeft`, `UpdatesKeep`, `AppsStayAsRecorded`, `HostKeepsFollowing`, `CheckedSourcesAreListed` | `ReferencesResolve`, `UpdatesKeepValues`, `AppsAreAsRecorded`, `HostFollowsTheSuite`, `CheckedIsListed` | `suite` |

Five of the modules also prove a part of what the `front` run checks, of one
component each; a property of that run puts several components together, so none
of these theorems has its name:

| module | theorem | what it proves, and of which module | part of |
|---|---|---|---|
| `RecoveryKeysProofs` | `SignInStaysSound` | `GateServesEveryone`, `PasswordTakesItsSessions`, `SignInHolds` of `SignIn` | `RecordsAreSound` |
| `SuiteProofs` | `SchemaStaysSound` | `SchemaIsSound` of `Store` | `RecordsAreSound` |
| `BackupJobsProofs` | `RelayStaysSound`, `AlertsStaySpaced` | `RelayIsSound` of `Relay`, `AlertsAreSpaced` of `Throttle` | `RecordsAreSound` |
| `AppUpdatesProofs` | `SettingsStaySound` | `SettingsAreSound` of `AppSettings` | `RecordsAreSound` |
| `AppUpdatesProofs` | `HiddenValuesStay` | `SecretsAreKept` of `AppSettings` | `OwnersDataIsKept` |
| `RecoveryKeysProofs` | `PasswordStaysTheOwners` | `PasswordIsTheOwners` of `SignIn` | `OwnersDataIsKept` |
| `SuiteProofs` | `UpdatesKeepEveryRow` | `UpdatesKeepTheData` of `Store` | `OwnersDataIsKept` |
| `UpdateJobsProofs` | `OnlyTheReviewedIsApplied`, `ReviewsCloseOnTheirOwn` | `OnlyTheReviewed`, `ClosesOnItsOwn` of `AppScreens` | `ScreensGoForward` |

**BackupJobsProofs.** Assumptions: `NoJob` is not a job, buckets are places.
What keeps a second worker from starting is that `createJob` looks at one job,
the current one. The strengthening is `LiveIsCurrent`: a live worker's job is
active and is the current one. Creation needs the current job idle, a worker's
own steps keep its job current, and reconcile touches only a job whose worker is
gone. `AgentImplementsQueue` is `Spec => Queue!QueueSpec` under the mapping
`queue <- what a caller sees`, `lost <- active without a live worker`. Every
active job is the current one (`ActiveIsCurrent`), so `createJob`'s reconciling
of that one settles every lost job of the abstract queue. `CreateJob` maps to
`Accept`, `Reconcile` to `GiveUp`, `Report` to `Settle`, a kill to `Lose`, every
other step to a stutter.

The restore points stand on `LiveIsCurrent` too. A succeeded backup could lose
its data to three actions: the clean-up of a backup that failed beside it, a
delete, and the prune of a delete. `PointsInv` says why none reaches it: a job
takes only the steps of its kind (`StepsFitKind`); a repository that is thrown
away whole is one this very job founded, and then holds nothing of another
(`WritersHaveARepository`, `WrittenInRepositories`); a delete has a target of its
own place, which it unlists before it forgets (`DeletesHaveATarget`); and what a
backup has stored is known from the step it is at (`Progressed`).
`SuccessAfterResume` is an action property: its proof adds that a job about to
report has every container it halted running (`HaltedAreRunning`).

*The relay.* Assumption: a form's security is one of the three there are and no
form stands for "none stored" (`FormsAreWhole`). `RelayInv`: a conversation is at a
word of its own script, about a form that had the owner's word if it is not
encrypted (`IsTalk`), so that a login comes after the handshake in the script
(`LoginComesLater`); what is stored has both halves of a credential or none
(`RowIsWhole`); and while no two conversations have overlapped, the one under way
is about what is stored (`TalksAreCurrent`).

*The alerts.* Assumption: the window is a number. `AlertsInv`: the last claim is not
in the future and no alert is later than it, sent or on its way. That the counters
of the throttle are those in the database (`BackoffIsStored`) goes through
`SelectSeq`, of which the library states nothing.

**RecoveryKeysProofs.** Assumptions: `FirstKey` is among the generated keys,
`NoKey` is no key, `Restore` is no rotation request, `MaxSlots` is positive.
Types are proved of every behaviour (`Requesting`: a slot that is removed was there
and is not the last). `DiskKeyNeverLost` and `RotationStrandsNoArchive` are about
what is so until a change of the key begins beside another: nothing in the agent
prevents that (the owner's dialog makes one request at a time, and a restore stops
the pages), `NoteOverlaps` records it, and from then on a key can be lost.
`HeldInv`, up to that moment: one change is under way (`Solo`); a key the vault
agent was asked to move to is staged or known to the owner (`AskedHeld`), which is
why a rotation stages before it asks and an adoption uses a key the owner typed;
the steps after the answer still have that key (`Following`, `Rotating`). The slot
that goes is removed only once the new key opens the disk. For the archives,
`Replaced` adds that the key file is written over only once its key is on the list
of superseded ones, and that the staged key never is.

*The sign-in.* These theorems are of `SignInSpec`. Assumptions: the gate's width is a
number and "no owner" is no account. `SignInInv`: the requests that hash or wait for
it are those at the gate or in its queue (`GateIsFair`); a hash stands for one
password, so a request that read the hash still in force verified the password
still in force, and one that is to renew a hash is of the password it verified
(`AccountIsKnown`); a token is one browser's, and the cookie a sign-in left is of a
session that is not over (`CookiesAreOnesOwn`). A session of the old password that
a sign-in opens after the change, having read the account before it, is not excluded
(`OldPasswordsOpenNothing`, section 5).

**UpdateJobsProofs.** Handlers and workers write the record over each other in all
of these. `CheckpointInv`: a skip that is in a record was answered, or is about to
be (`SkipIsAnswered`), a worker is started once for an update (`StartedOnce`), and
one that polls has asked for a backup, one that applies has it over in one of three
ways: it succeeded, the skip was answered, or there was no place chosen to back up
to (`CheckpointFirst`): whatever is written over the record, the worker's own place
in its steps is not. For the same reason one that knows of its backup goes on only
with that one (`BackupFirst`). What the record says is worth less: that an update
being applied is recorded as active (`ApplyIsRecorded`) does not hold. What does is
that a record which failed at its checkpoint is of an update that changed nothing:
in `RecordInv` (`AtCheckpoint`) no write that is still to come can put "failed"
beside a checkpoint its worker has passed, since a handler writes back only what was
active when it read it (`ReadActive`).

*The Apps screen.* No assumption: apps, bounds and the order of answers are
arbitrary. `ScreensInv`: what a running update was given to do has been reviewed,
and an instance that is being installed has no version yet (`AppIsSound`), so that
the check an update makes as it starts is all that has to be relied on; a job that
any list in flight shows as succeeded did (`SeenIsSound`), which is why a dialog
that closes on a list, however old, closes on its own job's end; and the page
compares only what was shown (`PageIsSound`).

**HostUpdateProofs.** Assumptions: commits are positive numbers with a first one
and `NoCommit` is none of them; the services restarted are a sequence of known
services, `"manager"` among the known. `HostInv`: a job's target is named
(`TargetIsNamed`); at each step what the steps before it were for has been done,
for every service already restarted (`WorkIsDone`); on one track commits go
forward (`OneTrackGoesForward`); and of `MachineIsSound` its three parts, of
which `PagesAreNotNewer` needs the other two.

**HostServicesProofs.** Three components.

- *The schedule.* Assumption: `MaxTime` is positive. `SchedInv`: what a
  tick beside no other read of its own past is still so when it writes, whatever the
  owner saved since (`TickIsCurrent`); an occurrence has one backup if it was written down and
  one per death of the agent (`AskedOnce`); job numbers are never given again and
  what counts as automatic was asked for (`NumbersAreNew`, `AutomaticWasAsked`);
  and the delete retention has queued still falls on what it was meant for
  (`DeleteSpares`). The lemmas about least and latest
  elements (`LeastExists`, `LatestIsLast`, `OldestIsOneOfThem`, `VictimsAreOld`) and
  the cardinality of the runs of an occurrence (`OneMoreRun`) rest on the library's
  theorems about finite sets.
- *The drive of the owner's files.* No assumption. `SpaceInv` says, as long as two
  handlers have not been in flight together, what a handler alone knows of the
  drive at each of its steps (`Closing`, `Opening`), that a drive on record as
  ejected is read by nobody and whoever opens it is about to record so
  (`EjectedMeans`), and that once the plug-in unit has been through, the drive is
  open and read by its own mount or shut and read by nobody (`Settled`).
  `EjectedMayBePulled` and `RunsOnTheMount` follow.
- *Uploads.* Assumption: the sizes of the file and of a chunk are numbers.
  `UploadInv`: a chunk on its way or being written for someone who waits holds the
  entry of its upload (`OneInFlight`), which is what makes `takeOver` drop or
  refuse; what is flushed is a beginning of the file (`FlushedIsRight`), and a
  partial cut back to what the session has acknowledged is all flushed
  (`Covered`), which is why a torn tail never survives a retry; a write goes on
  from what was flushed with the pieces that follow (`WritesRight`), and a
  confirmed chunk stays flushed until it is counted (`SavesCovered`). All but the
  first hold while no request met another of the same upload at the agent. `ArrivesWhole`
  and `AddedIsThere` follow. Every way for a request to end is one lemma (`EndingKeeps`), every step that leaves
  the drive alone another (`GoingOnKeeps`).

**HostDataProofs** proves the properties of the `host` harness that are about the
data a server is recovered from and the owner's files. `HostRunsTheParts` and `HostRunsTheServices` show that the harness
implements each component's own specification (its steps are a step of one
component and leave the others alone); the components' theorems then give the
harness's property. Assumptions: the bounds on restores, rotations and backups on
a drive are numbers; a machine without MOS's record has none of MOS's own files of
Ubuntu's patches (`StartsAreFound`); the other bounds, the archives, the apps and the
packages are arbitrary.

- *Restore.* `RescuedBeforeRemoved`, `InterruptedIsOnRecord` and `SuccessPutsBack`
  from one invariant, `RestoreInv`: until the rescue copy is whole nothing was
  touched, and once it is, every part of the machine is either as before or in the
  copy (`RescueGoesFirst`); what is touched has an open journal
  (`JournalIsOpen`); and of the targets and volumes a restore goes through one by
  one, those behind it are as in the backup and those ahead untouched
  (`StateProgress`, `VolumeProgress`). Machines are records of functions, and two
  removals and two copies touch each part, so the lemmas about the operators on
  machines (`MachineOperators`, `FieldsAfter`) come first.
- *Vault.* `CopyOpensUntilConfirmed` and `CutLayoutIsNotUnsupported`: a descriptor
  is written only once the slot and the copy are there (`CopyIsKept`), and a disk
  that a power cut left half laid out has no record (`LayoutIsUnrecorded`).
- *Buckets.* `BegunIsFinished` and `NoRepositoryUnnamed`: what the agent holds of the
  catalog is of names in it, and the worker has entered its archive before it goes
  on (`CatalogIsAhead`); a choice from current lists is of the archive that was
  begun (`CurrentChoice`, `OneIsBegun`). The condition on current lists is needed:
  see section 5.
- *DriveArchives.* `NoSecondRepository`, `WhatIsListedVerifies` and
  `OnlyOnesOwnIsDiscarded`: an archive is chosen that has a repository, or while no
  folder holds one of ours, and this stays so until the repository is made
  (`TargetIsSafe`, `OursIsOne`); a job writes points only to an archive that has a
  repository, and its own point is there only once it is named (`JobIsInOrder`);
  and what a job made and may take away again holds no other job's point
  (`MadeByTheJob`), which a failed rename of the move would break.
- *Ubuntu's patches.* `PatchesStaySound`, from `PatchInv`: a record that says MOS runs
  the policy was made where nobody else ran one (`TakenOn`), which is why a machine it
  was never taken on at has neither of MOS's files; from a verdict to the next run or
  restart no unit moves (`VerdictStands`); the packages the log's reader holds back are
  those of the run that is under way (`LogFollows`); and a restart is armed only while
  Ubuntu asks for one. `ReadLine` reads the log a line at a time, so that no fold over
  the log is needed in the proof.

**SuiteProofs** proves the properties of the `suite` harness, one component's
invariant after the other; a step of the harness is one of a component or leaves
its variables alone. Two assumptions, both of the address: the machine has a door's
name and no domain of the owner's is one (`NamesAreDistinct`), and budgets are
natural numbers (`BudgetsAreCounts`).

- *Manifests.* `ManifestInv`: the installed manifest passed validation and every
  field that may not stay empty has a row (`Provided`; optional ones may, and those
  with a default out of the owner's profile, `MayBeEmpty`). Lemmas say what rows
  `createConfigRows` makes (`RowsProvide`) and that a template which passed
  `CheckTemplate` renders to a value or to a reference to such a field, never to the
  owner's namespace (`RenderedResolves`). These theorems are of `ManifestSpec`.
- *Sources.* `CheckedSourcesAreListed` is an action property: its invariant
  (`SourceTypes`, `ChecksEndListed`) says that a check that is to be noted has the
  revision its packages were listed from.
- *The official catalog.* `CatalogInv`: a feed in memory, on disk or on its way to
  the host is that of the revision it is counted under (`IsCache`), the agent writes
  requests in their order (`InOrder`), and while no answer was lost the holds are of the
  last one written (`LatestHeld`). On one track nothing that is held, asked for or
  counted goes back (`Forward`, `AskedForward`), so that a lost answer does no harm
  there: the next refresh asks again.
- *Installs.* `InstallInv`: instances are numbered in the order they are made, and
  each belongs to one handler until it is on record (`Numbered`); the files and
  secrets of a record are there unless the one handler that removes them is at it
  (`FilesKept`, `OneRequest`); and the route of an applied app is written, in the
  running web server or in the candidate of the handler that holds the file
  (`RoutesInTurn`, `Served`). The routes are kept where no two handlers have
  rendered at once for the app (`crowded`). `DockerOwn`: containers and volume are the
  recorded instance's or that of the one start under way.
- *Connections.* `ConnInv`. A handler is a list of steps, so the invariant begins
  with the lists there can be (`Shaped`): only a save writes, its apply and its wait
  are undone by the four steps of a rollback, and what is left of a rollback is an
  end of those four. `Rendered` relates what is stored to the rows, `Remembers` what
  a save read to the moment it was read at, `Undoes` how far a save is from what
  it remembers at each of its steps: before the write the rows are what it read,
  from the write to the restore the secret's old value is remembered, after the
  restore all is as before, and after the agent's apply the container too. `Undone`
  is what a save's answer claims. All but the shapes hold while no two handlers
  have been in flight together. The lemmas go by what becomes of the list: a
  request that begins (`Begins`, `PlainBegins`), a step that is done
  (`GoesToNext`, `AdvancesOn`), one that fails (`FailsOn`, `FailsThere`).

- *The address.* `severed \/ AddressInv`: the promises end where an apply is cut off
  from the change that asked for it, and `severed` stays (`SeveredStays`).
  `InTurn` says who waits for a queued apply or rollback and that nothing follows it
  in the agent's queue, `Alone` that while an address is recorded the agent has
  nothing to do, and nothing but commits after it. Hence a rendering that waits to
  be written is of the address on record, and what a completed move recorded is in
  the file (`Given`). For the token, `TokenIsKept` looks at the checkpoints: the
  token of the address in force is on the host, or, from an apply's restart to its
  record, its failure or its rollback, in the change's own checkpoint, or some
  checkpoint was left that nothing will remove (`Orphan`), which is what a restore
  that failed leaves. A number of a checkpoint is of one change (`UnderWay`).
- *The database.* These theorems are of `StoreSpec`. Assumptions: a session's life
  is a positive number and releases are numbers. `StoreInv`: the file in use, and the
  one in the backup, are each as some migration left them, its record
  and its tables (`FileIsSound`), and a row is there only with its parents
  (`RowsHang`).

**AppUpdatesProofs.** Assumption: versions are positive numbers, and there is
one. `SecretInv`: a saga runs only in a Suite Manager that is up, and has a
request at the agent only while it waits for it (`SagaRuns`), so that a failed
update ends with the record it began; that record is running, or failed while
the owner recovers it (`SagaRecorded`); and what an update collected is not the
row's before the update succeeds (`AddedIsNotHeld`), which is why a recovery by
rollback may discard it. The proof follows neither containers nor directories:
the secret is kept with overlapping handlers too.

`RecoveryIsPossible` needs the disk followed through every rename, in two
layers. `RecordInv`, of every behaviour: the record, the stage on it and the saga
agree, each request is made at its stage (`StageDuring`), and handlers run only
in an agent that is up. `DiskInv`, of handlers that did not overlap: one handler
works at a time, on the packages of the record; the installed, candidate and
displaced directories are as the stage on record has them: before the update,
with the candidate staged, cut in two by one rename or by two, or after it; and a
displaced package is there only while a promotion runs or the agent is not up,
so that the agent's sweep, which undoes one rename at a time, has put it back
before anything can be at rest. TLC checked the invariant on wider bounds first (896,335 states).

`ServedIsRecorded` needs the containers followed as well, under what the property
assumes (`Quiet`). `RunInv`: what a handler at work knows of the containers
(`HandlerServes`), what each answer means for them (`AnswersServe`), and that the
candidate's containers run only between the build and the end of the update, no
other's once its package is installed (`RunFollows`). An answer is believed a
step after it was given, so each is in the invariant.

`NoCommitRunsAhead` is `Spec => CommitsFollowTheDisk`, an action property with the
crashes of either process: the update commits what its own promotion was answered
for (`PromotedInv`), a recovery what it reads from the disk. What it does not say
is that the disk stays there: `SnapshotIsRecorded` is false (section 5). TLC checked these
invariants first over 877,939 states.

*The offers.* No assumption: packages are arbitrary. `OfferInv`: every table of
official packages, published, checked out or cached, has each under its own id
(`TablesAreNamed`), so that whatever an update's candidate is it is of the id it is
taken for (`CandidateIsNamed`); and a preview asks for all the access its candidate
has over the package it was made for (`PreviewAsksForAll`), which with the token
that names both packages is why an update cannot bring access nobody was asked
for. Every change of an installed app is one lemma (`OneAppChanges`). That the offer
is the candidate holds in any state (`OfferIsTaken`). `NeverGoesBackAStep` assumes
that ranks follow the order `CompareSemver` gives the versions; that it gives the
order of the releases is what the run checks.

*The settings.* Assumptions: names and tabs are finite and no fingerprint looks like
the mark for none (`FingerprintsShow`). `SettingsInv`: what is stored is a set with
each name once (`StoredIsASet`); a row whose name the owner let alone is as it was
seeded (`AloneIsHeld`), and what a request carries are the rows of its tab
(`RequestIsTheRows`); every hidden value a dialog was seeded with and that was let
alone still has its row in it (`HiddenHasRow`); and, where there is one tab, what it
calls saved is what is stored, but for an answer that was lost (`SavedIsStored`).
`SecretsAreKept` is of any number of tabs, and of the values each was seeded with:
what another tab has stored since, a save replaces with the rest of the set.

**Only model-checked.**

- `JobsSettle`, `UpdateEnds`, `UpdatesSettle`, `HoldEnds`: liveness under fairness
  and ENABLED are out of the prover's reach.
- Of the properties that several components share, `ScreensAreTrue` and
  `PlannerKeepsTheWork` wholly; of `RecordsAreSound` the throttle's `BackoffIsStored`;
  of `OwnersDataIsKept` the homepage and the throttle's count; of `ScreensGoForward`
  the job page and the homepage's rebuild. The rest of these three is proved of its
  components (the second table), not of the harness that puts them side by side.
- What a fold or a recursive function computes for every input (the planner's
  dates and geometry): induction over data takes an operator as a parameter,
  which the provers cannot instantiate.
- The three refuted sentences, and those of the table in section 5.

## 7. What is not modelled, and why

- A write of one file that a power loss tears. For the list of superseded keys
  that matters most: a list that does not parse is read as empty
  (`engine-restic.cjs:259`).
- The window between `createJob`'s two writes, which have no await between them.
- Forgetting, erasing or naming places by hand and adding or removing an archive's
  keys: listed as remainders of their components in `PROJECT.json`.
- The update agent's restart of the host while a job starts within its five
  seconds: a kill of the worker, which every module allows at any step.
- Command lines, parsing, wording, estimates, page layout outside the planner, the
  installers, image builds, the lab and end-to-end test tooling: I/O, presentation
  or generated. `PROJECT.json` lists each with the reason.
