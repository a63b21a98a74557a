# Verification of the Konnaxion Capsule Manager

TLA+ modules, model-checking configurations and machine-checked proofs about the
program in this repository. Every module is written from the source; the file and
the lines each definition stands for are in `PROJECT.json` under `map`.

## 1. The system

A Konnaxion *capsule* (`.kxcap`) is a signed package of a product release. The
**Builder** (`kx_builder`) makes it; the **Manager** (`kx_manager`) is the
operator's GUI and HTTP server, which runs long operations as background jobs and
calls the **Agent** (`kx_agent`), the privileged process on the target host that
imports capsules, keeps the registry of installed artifacts, renders Compose files,
runs the Security Gate and starts, stops, backs up and restores instances.

| component | state it keeps | operations | talks to | hard behaviour |
|---|---|---|---|---|
| operation jobs (`kx_manager/services/operation_jobs.py`) | one JSON record and one log per job, `latest-job.txt`, a thread pool, a heartbeat thread per job | create, run, heartbeat, read | UI (reads), deploy pipeline | three threads share a file; failing writes and reads; death of the Manager |
| build jobs (`build_jobs.py`, `builder.py`) | job records, a pool of one thread, the builder processes | create, preflight, run with a timeout, rebuild | Builder | a builder outlives its job; two pools start builders |
| Builder (`kx_builder`) | a staging directory of its own; image tags and capsule files shared with every other builder | build images, save archives, seal, package, verify | Docker engine, filesystem | shared mutable tags; exists, unlink and write are three steps |
| deploy / GO LIVE (`operation_jobs.py`, `deploy.py`, `release.py`) | the step of one run and what it saw of the instance | prepare the Agent, ask for the status, back up, import, create or update, publish, start, probe | Agent over SSH, host over SSH | timeouts and retries whose first copies are still served; other users of the instance |
| Agent API and dispatcher (`api.py`, `actions.py`) | a queue of requests | allowlisted actions, one at a time | every Agent component | failure or crash in the middle of an action |
| importer (`capsules/importer.py`) | capsule files, extraction directories | import: copy, verify, extract, swap, register | verifier, registry | each file replacement is atomic, the sequence is not |
| artifact registry (`artifacts/registry.py`) | `installed-artifacts.json` with a generation | register, remove, list, get manifest | importer, composition hosts | dependencies across upgrades; refusal after side effects |
| security gate, evidence, admission (`security/`) | evidence files | run gate, write evidence, admit a start | start action | checked by one action, used by another |
| runtime (`runtime/`) | Compose and env files, containers, images | render, up, down, migrate, health | Docker | rewritten files under running containers; mutable image tags |
| backups (`backups/executor.py`, `verify.py`) | a directory per backup with its manifest | create, verify, clean up, test restore | Docker, filesystem | the instance writes meanwhile; a failure or crash between two artifacts |
| restore (`backups/restore.py`) | the data of an instance, a report | preflight, copy, replace part by part, check, compensate, report | operations of the caller | failure of any step, of its compensation and of the report |
| rollback (`backups/rollback.py`) | two capsule pointers, a state file | repoint, restore data, restart, clear a failure | operations of the caller | two pointer files; dry runs through the same steps |
| instance states, retention, tunnels (`instances/`, `retention.py`, `network/`) | state files, plans | tables and validation | nothing calls most of them | |
| CLI, shared code, installers | none at run time | batch programs | | sequential |

What makes each component correct, and where it may go wrong, is listed line by
line in `PROJECT.json` under `hazards`.

## 2. The modules and the code

### OperationJobs (implements JobBoard)

`kx_manager/services/operation_jobs.py`. One record file per job, written by three
threads.

| in the module | in the code |
|---|---|
| `status` | `"status"` of `<job-id>.json`; `"lost"` is a record rewritten from scratch after a failed read, with no status at all |
| `latest` | `latest-job.txt` |
| `request` and `CreateRecord`, `NameLatest`, `Submit`, `CreateFails` | `create_operation_job`, one action per file write and one for the submission |
| `queue`, `Take` | the `ThreadPoolExecutor` and its work queue |
| `worker` and `MarkRunning` … `Return` | `_run_job`: the try block, its bookkeeping writes (`Trip` when one raises), the except block, the finally block |
| `outcome`, `Operate`, `OperationRaises` | what `_run_operation` did: the body of the operation is one step |
| `beat` and `BeatRead`, `BeatWrite`, … | `_heartbeat`: the read outside the lock, then `_update_job` under it |
| `Crash` | death and restart of the Manager; `ensure_operation_job_store` only makes the directory |

`_update_job` reads, merges and replaces the file under `_job_write_lock`, so it is one
action. Timestamps, phases, messages and results decide nothing and are left out; a
progress report is a stutter unless its read fails (`ProgressLost`).

**JobBoard** is the promise: recorded once, started at most once, closed once. The
refinement maps `board` to `status` directly (`OperationJobs!Board`), so it holds where
no read of a record fails.

### ArtifactStore (implements Inventory)

`capsules/importer.py` and `artifacts/registry.py`, as the dispatcher calls them. A
request is the record `op`: its inputs, its step, its local variables. Every file
replacement is one action; every action that writes has a failing twin and `Crash` may
come between any two. `stored`, `extracted` and `registry` are the three stores on disk;
`seen` is what a discovery client read after the last request, which is what the
generation is for. A capsule's content is a *release*; what its descriptor says
(dependencies, capabilities, manifest) and what the verifier says of it are constant
functions of the release. A deletion that fails (`RemoveFails`) may have taken the tree
away, or part of it, which counts as gone. `runtime` and `recorded` are the instance's Compose file and
its state file: the removal guard reads the second, the Agent writes the first.

**Inventory** is the promise: an artifact is installed, replaced or removed in one step that
the inventory of that moment allows, with a generation of its own. The refinement
(`ArtifactStore!Stock`) maps `installed` to the releases of the registry's entries. It
spans the gap between the checks of a removal and its registry write, two deletions later,
and holds through every failure and crash, since a request that is cut off has either
written the registry or not.

### InstanceRuntime (implements Deployment)

The instance actions of `actions.py` with the parts of `runtime/`, `security/` they
call. `op` is the request in progress, `told` what its successful answer claimed.

| in the module | in the code |
|---|---|
| `env`, `compose`, `BeginRender` … `RenderFails` | `write_runtime_compose`: env files, Compose file, Traefik file, in this order, for create, update, profile changes and the end of public mode |
| `evidence`, `Check`, `BeginStart`, `StartBlocked` | `handle_security_check`, also the first thing `handle_instance_start` does |
| `images`, `Load`, `LoadFails`, `LoadedAll`, `LoadedSome` | `_load_capsule_image_archives_for_instance`; tags belong to the host |
| `Admit`, `Deny` | `enforce_for_start`: the env profile decides whether the images are measured |
| `stack`, `Down`, `Up` and failing twins | `docker compose down` and `up` with their readiness checks; a command that timed out has done any part of its work |
| `schema`, `Migrate`, `MigrateFails` | `run_django_migrations` |
| `Crash` | the Agent dies between two steps |
| `Extract`, `Discard` | what ArtifactStore does to the extraction directory, between requests |

A container remembers the capsule its image came from, the Compose file it was created
with and whether its start was admitted. `Up` may keep a container whose configuration
has not changed although its tag names another image, which is what Compose does and
why the code recreates the stack.

Constants stand for the choices a client or the configuration makes: `Named` (capsule
ids requests name), `Recreates` (`force_recreate_after_image_load`), `EnvWrites`
(`generate_secrets`), `TagOf` (which capsules share image tags), `Pinned` (capsules whose
Compose file names its images by digest: admission refuses any other). Archives count as
loaded only when all are; a capsule without `images.yaml` is skipped by the code with the
answer ok, but no capsule the gate passed lacks it, since the builder signs none without.

**Deployment** is what the Manager may take for granted about one instance: its Compose file
is rewritten under running containers, containers go away, all at once or some of them, and
new ones come up from the Compose file as it is, never beside containers of another. The
refinement (`InstanceRuntime!StacksAreDeployed`, one instance of Deployment for each
instance) forgets which services run and keeps how many. It needs starts that recreate:
without the `down`, Compose may keep a container of the file before.

### BackupStore

`backups/executor.py`, `backups/verify.py`, the backup handlers of `actions.py` and the
isolated test restore of `backups/restore.py`, with one running instance that goes on
storing uploads.

| in the module | in the code |
|---|---|
| `files`, `rows`, `StoreFile`, `StoreRow` | external: the application stores a file, then the row that names it |
| `dir` | a backup directory: its manifest, its artifacts, and how many rows and files they hold |
| `BeginBackup`, `Capture` in `Order`, `WriteManifest`, `VerifyCreated`, `MarkVerified`, `Confirm` | `create_verified_instance_backup`, one action per artifact or file replacement; `Confirm` verifies once more before the answer |
| `StepFails`, `Cleanup`, `CleanupFails` | its `except` block and `rmtree(ignore_errors=True)`, which may leave part of the directory |
| `Accepted`, `VerifyExisting` | `verify_backup` and `handle_backup_verify`; missing logs are a warning |
| `target`, `BeginTest` … `StopTest` | `test_restore_backup`: a fresh directory, restore of both parts, start, gate, and the `down` of the `finally` block |
| `Rot` | external: an artifact is damaged or lost on disk |
| `Crash` | the Agent dies between two steps; neither `except` nor `finally` runs |

### Recovery

`RestoreRunner.run` and `rollback_instance`. Both take the operations they run from the
caller, so an operation is what the runners rely on: it does its work, or raises and
leaves part of it. At this commit the dispatcher registers no handler that reaches
them (`instance_restore` and `instance_rollback` are names without a handler), so the
model is of the two runners as a caller would use them, one run after another.

| in the module | in the code |
|---|---|
| `data` | what the database, media and env of an instance hold: what was live, the backup, or neither (`"torn"`) |
| `After`, `Planned`, `Skip`, `Safety`, `RestorePart`, `Check`, `MarkRestored` | the `try` block of `run`: the fixed order, the optional steps of the plan, the pre-restore backup of a same-instance restore only |
| `StepFails`, `Compensate`, `CompensateFails` | the `except` block: whatever the compensation returns the status is "rolled back", unless it raises |
| `WriteReport`, `WriteReportFails` | `write_report`; for a success it is still inside the `try` block |
| `current`, `previous`, `SavePrevious`, `Repoint` | the two pointer files of `repoint_capsule` |
| `state`, `BeginRollback` … `Complete`, `RollbackFails`, `ClearFailed` | `rollback-state.json` and `rollback_instance` |

### CapsuleBuild

`build_jobs.py`, `builder.py` and the release step on the Manager's side, the builder
process (`kx_builder/main.py`, `package.py`, `verify.py`) on the other.

| in the module | in the code |
|---|---|
| `job`, `Create`, `Take`, `PreflightFails`, `StartBuilder`, `Close` | `create_build_job` and `_run_job`; `Asks` are the requests a client makes, `Unready` those whose source directory or key is missing; a release runs in the operations pool (`prepare_signed_release`), which is why two builders can be at work |
| `Timeout`, `GiveUp` | `subprocess.run(timeout=…)` kills "uv run". The builder below it ends too, or goes on. On POSIX the call returns at once and the job is closed; on Windows, where `StartCapsuleManager.bat` starts the Manager, it reads the captured output to its end first, so a builder that goes on keeps the job `waiting`, for ever if it hangs |
| `Crash` | the Manager dies; any of its builders may go on |
| `proc`, `Check` … `Verify` | the steps of a builder that touch what builders share |
| `tag`, `Build`, `Save` | `docker build --tag` and `docker save`: tags depend on the application version alone |
| `stage`, `Seal` | the staging directory and `checksums.txt` |
| `path`, `file`, `Unlink`, `Open`, `Compress` | the output by name and by inode: it is unlinked and opened anew, and a file without a name lives while it has a writer |
| `met` | history: which builders were at work at the same time |

The records, logs and heartbeats of build jobs are built like those of operation jobs and
left to OperationJobs.

### GoLive (implements Deployment)

The GO LIVE job of `operation_jobs.py` and `deploy.py`, the SSH requests of
`agent_execution_client.py`, and the Agent that serves them. Run `r` deploys capsule `r`.

| in the module | in the code |
|---|---|
| `job`, `Follows`, `Classify`, `End` | `_run_one_click_release` with its local variables; `fresh` is `instance_absent`. Two best-effort GETs (`deploy.py:297`, `deploy.py:300`) are left out: they change nothing and the job goes on whatever they answer |
| `TakenForAbsent` | a status that fails before the Agent, by an error whose text reads like absence: not sent again, and the instance counts as absent (`operation_jobs.py:729`) |
| `PrepareAgent` | health, refresh or bootstrap of the Agent, which restarts its service |
| `Send`, `Deliver`, `Timeout`, `Retry`, `Hear` | `_ssh_agent_request`: attempts, retryable results, and answers; a failed action is HTTP 200 with `ok = false`, which is not sent again |
| `queue`, `First`, `Reply` | the Agent's one event loop: copies of requests are served in the order they came, also when nobody waits for them |
| `ServeStatus` … `ServeHealth`, `ServeFails`, `Halfway` | the handlers, each by its effect on Compose file, containers and database; those of import, start and backup are modelled step by step in ArtifactStore, InstanceRuntime and BackupStore |
| `Publish`, `ProbeHttps` | over SSH and HTTPS, past the Agent |
| `script`, `LatePublish` | the publication script of a run that gave it up goes on at the server, also while the next run is in progress |
| `Ask`, `ServeStop` | external: the operator's stop and start buttons |
| `AgentDies`, `JobFails` | the Agent dies in an action and its queue is gone; any other error of the job, or the death of the Manager |
| `Leftover` | what a `docker compose down` that failed or timed out leaves: a service is stopped before those it depends on |

### How they compose

The Agent serves one request at a time: its handlers are coroutines that never await,
so no two requests of ArtifactStore, InstanceRuntime, BackupStore and Recovery overlap.
InstanceRuntime keeps the one effect of ArtifactStore it depends on (which capsules are
extracted) and allows any sequence of them between two requests, which is weaker than
what ArtifactStore does. GoLive composes the Manager's job, the transport, the Agent
and a second user: there an Agent action is one step with the outcomes the detailed
modules give it, and `Halfway` is what a failure or crash in the middle leaves
(InstanceRuntime's `DownFails`, `MigrateFails`, `UpFails`, `RenderFails`, `Crash`).
Deployment is what the two have in common: InstanceRuntime implements it with the single
steps of its handlers, GoLive with one step per action (`InstanceIsDeployed`). So the
containers GoLive reckons with, in the middle of an action too, come and go as the
handlers make them.
GoLive's job runs in the pool of OperationJobs as the step `Operate`, and the
release it starts with is a build of CapsuleBuild.

`MC*` modules hold the small inventories and the model values of the runs,
`*_proofs` modules the theorems.

## 3. The runs

| run | instance | shows |
|---|---|---|
| `jobs_live` | 3 jobs, 1 pool thread, no fault | every submitted job is closed with its verdict, heartbeats end, active records have an owner (`RecordsAgree`), the board is implemented with its liveness |
| `jobs_faults` | 3 jobs, 2 threads, 2 failing writes, 1 failing read, 1 restart | success is never claimed without cause, no job starts twice, and up to the failing read the board's safety holds |
| `store_clean` | 2 artifacts, 3 ids, 1 instance, 6 registry writes | entries match files, the served view follows the generation |
| `store_faults` | ids used again for other contents, a rejected capsule, 1 failure, 1 crash, 5 registry writes | no artifact is left without one it requires; only the upgrade of a provider takes away what an installed artifact needs (`OnlyUpgradesBreak`); nothing rejected is called verified; each change of the registry is one Inventory allows in that moment |
| `runtime_shared` | 2 instances, 2 capsules with one tag, 2 services, 1 failure, with and without recreation | an instance never comes up with another capsule's images; started is complete and stopped is down (`AnswersAreTrue`) |
| `runtime_faults` | 1 instance, 2 profiles, any capsule named, 1 failure, 1 crash | containers only on gate evidence; what was admitted is what runs and django-api never runs on another capsule's schema (`ContainersAreSound`); the handlers implement Deployment |
| `runtime_admission` | 1 instance, 2 profiles, 1 failure | **violation**, see section 6 |
| `backups` | 2 backups, 1 test target, 1 upload, 2 failures, 1 damaged artifact, 1 crash | a verified backup is whole, no row misses its file, what was told stays, a passed test shows one backup, test stacks end |
| `builds` | 2 build jobs in one thread, the second without its source directory, 1 release in the other pool, 1 output, 1 fault or restart, hanging builders | a capsule passes its own checksums, a lone builder packs only its own images, success is the job's own capsule, nothing is replaced unasked, queued jobs are closed, the one behind a hanging builder too, unless that builder holds the lane |
| `recovery` | 3 runs of 5 restore plans and 2 rollback targets, 1 failure, 1 crash, any negative check | answers are true, a copy comes first, the previous pointer is kept, dry runs are dry |
| `golive` | 2 runs, 2 attempts per request, 2 requests of an operator, 1 failure, misread error or death of the Agent | late copies stay in order, an instance that was shown is backed up and not repaired, success means served, every run ends |
| `golive_stopped` | 1 run, no fault | **violation**, see section 6 |

Why these bounds. Jobs share nothing but the pool and `latest-job.txt`, so three jobs
and one or two threads already give a queue that waits, two jobs that run and one that
waits, and a creation that overlaps both. The registry's rules relate at most three
artifacts, and the hard sequences have an install, a dependent and an upgrade: six
registry writes allow each to be done and undone. Two capsules and two services are
what it takes for a tag to be half replaced; a second instance is what it takes for
somebody else to replace it. In `runtime_faults` one of the two capsules is pinned by digest
and in `runtime_shared`, where nothing is public, none. Two backups are what it takes for one to share the other's
second or for a test to follow another into one target; one upload whose file and row
are stored on either side of any step separates dump and archive. Two builders are
what it takes to share tags and a file, three archives from two tags to mix them; the
job that waits behind one of them needs no builder of its own, so it is one that fails its
preflight; the fault is a failure or a restart. Three recovery runs allow a second rollback
after one that failed, or a restore after a damaged one. Two runs of two attempts give
a copy of an earlier step, an earlier attempt and an earlier run; two operator requests
stop and start the instance once. One failure and one crash reach every step of every
sequence and both orders. For all values of these bounds most of the safety
properties are proved (section 5).

The registry is cut off at `MaxGeneration` writes, jobs, builds, recoveries and runs are
finite in number and may all be over: there deadlock is not checked. In the `runtime`
and `backups` runs it is.

`runtime_shared` takes symmetry between instances and between capsules, `backups` between
the two backups; no run with a liveness property takes any. `ToldIsKept` of `backups` is
an action property, invariant under the permutation.

Assumptions a property needs are in its comment: `RecordsAgree` is about bookkeeping that
does not fail, `BoardSafe` about the time up to the first failing read, `EntryMatchesFiles`
and `ViewFollowsGeneration` about a capsule id per release and no failure, `StackRunsCapsule` and `AnswersAreTrue` of
InstanceRuntime about requests that leave the capsule to the Compose file, `QueuedIsClosed`
about lanes that no builder holds for ever,
`ContainersAreSound` and `StacksAreDeployed` about starts that recreate the containers, `VerifiedIsWhole` about
artifacts the disk did not damage, `OwnImages` and `SuccessIsOwn` about builders that met
no other (no rival), `ExistingIsSpared` about an instance the run was shown, and
`SuccessIsServed` about a run no operator's request was served in.

## 4. Fairness

`OperationJobs!FairSpec` has weak fairness of: a handler that began a creation goes on
(it is plain code without an await), an idle pool thread takes queued work
(`ThreadPoolExecutor`), a pool thread goes on and the operation it runs comes back
(every SSH command, subprocess and HTTP request of the operations has a timeout; what the
next paragraph says of a subprocess that is killed and leaves a child behind holds of the
subprocesses of an operation too, and `BoardLive` is about operations that do return), and a
heartbeat thread wakes up (`stop_event.wait(HEARTBEAT_SECONDS)`). Nothing is assumed of
new jobs, faults and crashes.

`CapsuleBuild!FairSpec` has weak fairness of what the Manager does with each build
(`Manage`): pool threads run, and `subprocess.run` comes back with the end of the builder
or notices its timeout. That it returns after the timeout is not assumed: on Windows it
waits until nobody holds the captured output, and a builder that survived "uv run" holds it.
Such a job is `waiting` until its builder ends, and a builder need not end: it may hang in
any step. So `QueuedIsClosed` says what is left to say: all queued jobs are closed unless a
job waits for ever (`LaneHeld`).

`GoLive!FairSpec` begins after the release was built, to which the last paragraph applies. It has weak fairness of the Manager's steps: a pool thread starts the next
run and goes on, and each request ends with an answer or with its timeout (`curl
--max-time` and the timeout of the SSH command). Local steps over SSH may instead fail,
and `JobFails` is fair only there. Nothing is assumed of the Agent, which may be down for
ever, nor of the operator: `EveryRunEnds` holds without either.

ArtifactStore, InstanceRuntime, BackupStore and Recovery have only safety properties and
assume no fairness.

## 5. The proofs

TLAPS checks the seven `*_proofs` modules for every value of the constants that satisfies
the named assumptions of the module they extend (`JobsAssumption`,
`ConcurrencyAssumption`, `BoundsAssumption`; `StoreAssumption`; `RuntimeAssumption`,
`BudgetAssumption`; `BackupAssumption`, `BoundAssumption`; `PlanAssumption`,
`RecoveryAssumption`; `BuildAssumption`, `BoundAssumption`; `BoundAssumption`,
`NoneAssumption`): any number of jobs, threads,
capsules, instances, backups, builders, restore plans, runs and attempts, any number of
faults and crashes.

| theorem | states | inductive invariant |
|---|---|---|
| `OperationJobs_proofs!Typing` | `TypeOK` | itself |
| `FlowInvariant` | `Flow` | itself: what record, handler, queue, pool thread and heartbeat of one job say of each other (`JobFlow`), and that the queue holds each submitted job once (`QueueFlow`) |
| `SuccessTheorem` | `SuccessIsReal` | `Flow`: a thread about to write "succeeded" has seen an operation that is ok, and no other thread writes a status of its own |
| `StartsOnceTheorem` | `StartsOnce` | `Flow`: a queued job has not been taken and is in the queue once |
| `OwnedTheorem`, `LatestTheorem` | `ActiveIsOwned` up to the first failed write or crash, `LatestIsRecorded` | itself with `Flow`: what takes a job off the queue is the thread that answers for it |
| `PoolTheorem`, `RunningTheorem` | at most `Concurrency` busy threads, always; `RunningWithinPool` | `PoolBound`: a thread becomes busy only in `Take`; records that say running are of busy threads |
| `ReportedTheorem`, `RecordsTheorem` | `ClosedIsReported`, `RecordsAgree`, while the faults they speak of have not happened | `ReportedSoFar`: an operation that raised has a bad outcome before its record is closed |
| `BoardTheorem`, `FrozenTheorem` | `BoardSafe`, `FinalIsFrozen` | `Flow` and `Intact` (while no read has failed, no record loses its status); every step maps to a step of the board or leaves it alone |
| `ArtifactStore_proofs!Typing`, `RequiredTheorem`, `GenuineTheorem`, `RegistryTheorem` | `TypeOK`, `RequiredInstalled`, `VerifiedIsGenuine`, `RegistrySound` | `Sound`: what the request in progress has established. The content registered is the content verified, because nobody writes in between; nothing comes to depend on an artifact between the checks of a removal and its registry write |
| `InventoryTheorem` | `RegistryIsInventory` | `Sound` and `NoneLoses`: from the checks of a removal to its registry write the registry is the same, so what was checked still holds. A registration maps to `Install`, `Forget` to `Remove`, every other step to a stutter |
| `UpgradeTheorem` | `OnlyUpgradesBreak`, for any inventory | `Sound` and `NoneLoses`: when an entry is forgotten, nobody in the registry of that moment needs it; a registration validates what it brings. So what breaks a dependency is the replacement of a provider by a release that does not do |
| `EntryTheorem` | `EntryMatchesFiles`, with an id per release, up to the first fault or crash | `Backed`: what an entry's files hold in each step of a request that works on them (`Holding`, `HasFile`, `HasTree`) |
| `ViewTheorem`, `FollowTheorem` | `FollowGeneration` up to the first fault or crash; `ViewFollowsGeneration` without any | `SeenSoFar`: clients have seen the registry as it is, with the releases it announces, which with `Backed` is what is served |
| `InstanceRuntime_proofs!Typing`, `SoundInvariant`, `EvidenceTheorem` | `TypeOK`, `Sound`, `StartedOnEvidence` | `Sound`: the gate passed the Compose file as it still is, and the archives loaded so far are what the tags name |
| `ImagesTheorem` | `StackRunsCapsule`, when `Named` is `{Nothing}` or empty | `OwnCapsule`: a start works on the capsule of its Compose file |
| `SchemaTheorem` | `AppMatchesSchema` (half of `ContainersAreSound`), when starts recreate | `Recreated`: no container is left when the migrations run, and the schema is the capsule's before `up` |
| `AdmissionTheorem`, `ContainersTheorem` | `AdmittedIsReleased`, the other half; `ContainersAreSound`, when starts recreate | `Admitted`: an admitted start works on a released capsule |
| `DeploymentTheorem` | `StacksAreDeployed`, when starts recreate | `Uniform`, the containers of an instance are of one Compose file, with `Recreated`: containers appear on an empty stack. `Up` and its failures map to `BringUp`, a `down` and its failures to `TakeDown`, the Compose write to `Rewrite` |
| `AnswersTheorem` | `AnswersAreTrue`, when `Named` is `{Nothing}` or empty | `StartedSoFar`: an instance answered as started is complete, unless a start of it has got as far as the migrations, whose answer will be another; the database is migrated before the containers are up |
| `StopTheorem` | `StoppedIsDown` (part of `AnswersAreTrue`) | itself with `Sound`: only a successful `down` makes an answer say "stopped" |
| `BackupStore_proofs!SoundInvariant`, `Typing` | `Sound`, `TypeOK` | `Sound`, of five parts; the type invariant needs them, since a test restore adds files to what its target holds, and the target is empty only because `Shown` says so |
| `VerifiedTheorem`, `RowsTheorem` | `VerifiedIsWhole`, `RowsHaveFiles` | `Whole`: without rot, the artifacts before the current one are whole; `Captured`: the rows dumped are at most the files on disk when the media are archived |
| `PassTheorem`, `StackTheorem` | `PassShowsBackup`, `TestStackEnds` | `Shown`: what each step of a test has put into its target, which was empty when it began; the finished backup it reads is not written any more |
| `ToldTheorem` | `ToldIsKept` | `Own`: the directory an action writes was not there when it began, so nobody was told of it |
| `Recovery_proofs!Typing`, `SoundInvariant`, `AnswersTheorem` | `TypeOK`, `Sound`, `AnswersAreTrue` | `Whole`: the parts a restore has passed hold the backup and no check was negative; `Pointed`: what a rollback has read, saved and moved |
| `CopyTheorem` | `CopyFirst` | `Copied`: past the copy, the copy the restore names was made |
| `PointerTheorem`, `DryTheorem` | `PointerKept`, `DryRunIsDry` | `Pointed`; `Dry`: a dry restore does not get past the preflight and has no copy to put back |
| `CapsuleBuild_proofs!Typing`, `SoundInvariant`, `CapsulesTheorem` | `TypeOK`, `Sound`, `CapsulesAreSound` | `Begun`: builders at work at one time know each other; `Own`: what a builder that met no other has tagged, saved and written is its own; `Summed`: sums are of the images they lie with; `Files`: names and writers of a file |
| `SuccessTheorem`, `KeptTheorem` | `SuccessIsOwn`, `CapsuleKept` | `Alone`, `Untouched`: what a builder without a rival found or wrote under its name is still there |
| `GoLive_proofs!SoundInvariant`, `Typing`, `InOrderTheorem` | `Sound`, `TypeOK`, `InOrder` | `Asking`: while the job waits, the Agent holds only copies of its own step, in the order of their attempts, and none once the answer is known, since the answered copy is the last one; late copies of a status, which only read, may stay |
| `SparedTheorem` | `ExistingIsSpared` | `Careful`: past the status, a run that was shown the instance has a backup of it and does not ask for the repair; `Started` ties a run to its copies |
| `ServedTheorem` | `SuccessIsServed` | `Deployed`: what each step that was answered has made of Compose file and containers, unless the operator meddled |
| `GoLive_proofs!DeploymentTheorem` | `InstanceIsDeployed` | `Sound`: a network step is served only where a Compose file is. Each disjunct of `Halfway` and each handler maps to one step of Deployment |

Each proof has one step per action of `Next`. `TypeOK` is not inductive alone in
InstanceRuntime, ArtifactStore and BackupStore: the image a container gets is a capsule
only because the start has loaded it, which is what `Progress` says, and so on.

Every safety property of the passing runs is stated by a theorem. Some hold only under a
hypothesis of their theorem. Where it is about faults that did not happen, it is a
condition on the state (`writeFaults = 0 /\ crashes = 0 => ...`), so the theorem says how
long the property lasts in a behaviour in which things do fail. Where it is about the
inventory or the requests (`IdPerRelease`, `Named \subseteq {Nothing}`),
it is a condition on the constants, satisfied by the instance the run checks, and section 6
says what the code does without it.

`InstanceIsDeployed` has no run of its own: the theorem states it for every number of runs and
attempts. It says what a step does to one instance; that the *answers* GoLive gives an action
are those InstanceRuntime gives it is by comparison of the modules, not by a theorem, since
admission and the gate are left out of GoLive.

Only model-checked: what is under fairness (`BoardLive`, `HeartbeatEnds`, `QueuedIsClosed`,
`EveryRunEnds`), which is beyond the prover.

## 6. Where code and documents disagree

Two are the counterexample of a run; `PROJECT.json` quotes the sentence.

1. `runtime_admission`: env files and Compose file that disagree after a failed write
   let a public start pass without admission.
2. `golive_stopped`: "Existing production instance => verified pre-deploy backup", but an
   instance that was stopped lists no container, is taken for absent, and its database is
   migrated without a backup and with the repair of migration records asked for.

The models show more, which no run is spent on.

Jobs and artifacts (OperationJobs, ArtifactStore, InstanceRuntime):

- After a restart of the Manager a record says queued or running for ever
  (`operation_jobs.py:25` has a status `interrupted` that nothing writes; `operation_jobs.py:5`
  and `kx_manager/ui/app.py:1276` promise records that survive).
- An upgrade may drop a capability an installed artifact requires: `_validate_dependencies`
  (`registry.py:355`) looks at what the new artifact needs, not at who needs it. So "required
  capabilities hold" is no invariant of the code; `OnlyUpgradesBreak` says that nothing else
  breaks them.
- The guard of a removal (`registry.py:477`) reads an instance state file nothing writes, so
  it never finds the instance that runs the capsule.
- "Public mode disabled." (`actions.py:2064`) is answered while the public containers run, and
  only a request ends a temporary public mode; no timer of the code does.
- With `overwrite`, the Agent's default, a capsule the verifier rejects has replaced the
  stored one and stays. A refused registration leaves the new extraction directory behind
  the old entry with no new generation, which is why `ViewFollowsGeneration` is checked
  with an id per release.

Backups, restore and rollback (BackupStore, Recovery):

- `rmtree(ignore_errors=True)` may leave a directory whose manifest says verified and whose
  artifacts are gone; a crash leaves one that says created. `backup_verify` never writes the
  manifest, so a damaged backup keeps its mark.
- A failed `down` or a crash leaves a test stack running, and its target id is refused from
  then on.
- The pre-restore backup is made before the instance is stopped: what the instance stores
  in between is in neither.
- A complete restore whose report cannot be written is compensated. "Rolled back" is
  answered although the default compensation does nothing.
- A dry or refused restore to a new instance writes its report into the target directory, so
  the real one is refused afterwards.
- `start_runtime` brings up the Compose file as it is, so a rollback moves the pointer but not
  what runs (`DOC-09:869` says "Recreate containers from previous capsule."); nobody else writes
  `current_capsule.json`; the results of its hooks are ignored; a dry run writes the states of
  a real one; and a rollback to the capsule the instance is on makes both pointers equal.

Building (CapsuleBuild):

- Two builders at a time mix their images in a capsule that passes its own checksums and
  verification: the tags depend on the application version alone. "Builds are intentionally
  serialized by default" (`build_jobs.py:3`) is about one pool; GO LIVE builds in another.
- The output is looked at, unlinked and opened in three steps, so a build without `--force`
  may delete what a rival has just made. A failed compression leaves a partial file.
- On Windows a builder that hangs, survives the kill of "uv run" and holds its output keeps
  the thread of its pool: no later build job is started until it ends or the Manager is
  restarted, whatever the timeout says.

GO LIVE (GoLive):

- The refresh of the Agent restarts its service and cuts off whatever it was doing, for
  whomever.
- Copies of a failed run's requests are served until the next run restarts the Agent.
- A failed status whose text has "not found" or "no such file" in it, of whatever origin,
  counts as an absent instance.
- `instance_update` renders the private default until the network step, and ignores the
  `create_pre_update_backup` it is sent. The universes are published past the Agent.
- An Agent that dies in a request gives curl's exit code 52, which is not retried: the job
  fails, and what was half done stays.

## 7. What is not modelled

Bodies of operations, gate checks, signature and checksum verification, Compose rendering
and manifest validation are pure functions of their inputs: they appear as constant sets,
as one step, or not at all. Logs, timestamps, messages and HTTP formats decide nothing.

- **Instance states and lifecycle**, **backup retention**: tables and plans that no handler of
  the running program calls, so they have no behaviour to check.
- **Network**: profiles are values; changing one and ending public mode are actions of
  InstanceRuntime. Tunnels, ports and firewall only validate and render.
- **Secrets and env files**: the generated secrets, their agreement between three env files,
  and the reconciliation of the PostgreSQL password before the migrations
  (`runtime/migrations.py:39`) are part of one step of InstanceRuntime.
- **Build job records**: the files, logs and heartbeats repeat OperationJobs.
- **Provisioning of a VPS** and the first transfer of production data: long scripts of host
  commands whose only state is the host's.
- **CLI, UI rendering, installers, policies**: they keep no state at run time; `src/tools` repeats
  whole packages of the program as installer payloads.

Much of the repository is of these kinds (rendering, validation, forms, pages, scripts and
repeated payloads), which is why the map covers the control of the stateful components and a
small share of all lines.

## 8. The plan

Done: 1 OperationJobs with JobBoard; 2 ArtifactStore with Inventory; 3 InstanceRuntime
with Deployment; 4 Recovery; 5 BackupStore; 6 CapsuleBuild; 7 GoLive with
Deployment again; the safety properties of all seven proved.

Left, in this order:

1. **Credentials**: the password in the env files, in `DATABASE_URL` and in PostgreSQL, with the
   two writers of the env files and the reconciliation before migrations, under failures
   between any two writes.
2. The first transfer of production data to a new server.

Each new module has its `MC` module and runs, its mutants and its proofs in a module of its
own, with no RECURSIVE operator.
