# A TLA+ model of DBS

DBS takes encrypted, self-repairing backups of Django projects. It has two halves. The
**panel** lives inside the project that is backed up: an admin page, a schedule that runs in
the web workers, and management commands. The **manager** is a program of its own that looks
after many applications on many servers: it queues backups, restores, redeployments and moves,
collects what they produce and keeps it. Both rest on one database table of leases, one audit
trail, and plain files; neither has a queue server or a lock server. What can go wrong is
therefore what these modules are about: processes that die between two statements, leases
that run out, janitors that clean up after the living, and lists that are out of date when
they are used.

## The system

| Component | State | Operations | Who interacts with it |
|---|---|---|---|
| Panel jobs (`jobs.py`, `job_process.py`, `leases.py`) | lease rows `dbs.runner` and `dbs.job:<event>`, an audit event per job, a reservation, a partial, an upload | start a backup or restore, heartbeat, work, settle, recover | web workers, child processes, supervisor threads, watchdog threads, ticks |
| Schedule (`schedule_runner.py`, `admin.py`) | one row: enabled, status, next run | tick, resume, run, save the form, run once | every web worker, the admin form, the command line |
| Retention (`retention.py`) | the files of a folder, their verdicts in the audit trail | list, judge, remove, sweep leftovers | panel jobs, the schedule, streams |
| Audit trail (`audit.py`) | rows with a status and, once sealed, an index and a hash | record, queue, start, close, interrupt, seal, verify | everybody |
| Backup engine (`engine/`, `introspect.py`, `serialize.py`, `files.py`) | a plan of models, frames, threads and channels, staged files, a transaction | plan, page, pack, list, read, publish; read, stage, load, commit, place | jobs and commands, beside the project's own writes |
| Container (`container/`, `crypto/`), sealed files (`vault.py`) | blocks stored twice, parity, trailers; records sealed with a key of their own | write, read, repair; seal, rotate, open | the engine, the manager's store |
| Upgrade (`upgrade.py`, `dbs_upgrade`) | what a project still has to do, old backups and their conversions, the installed release | check, fix, convert, compare releases | a person, several runs at once |
| Session guard (`security/`) | sessions with flags, blocks, fitted models, telemetry | score, warn, block, forget, refit, purge | every request of the admin |
| Manager jobs (`backups/services`, `backups/locks.py`) | an audit event per job, a take lock per application, the last run of a plan | queue, dispatch, run, release | requests, the scheduler, pool threads |
| Manager recovery (`activity`, `recovery.py`, `processes.py`) | job leases, the instance | recover at a start, sweep while serving | instances that crash, stop and start |
| Collection and stored files (`dbs_runs.py`, `backup_service.py`, `storage.py`) | backup rows, files in the store, copies on the server | stream, pull, resume, register, release, upload, archive, delete, undo, expire | jobs, requests, the scheduler |
| Plans and scheduler (`backup_plan_service.py`, `timing.py`, `scheduler.py`) | plans with a next run, a row per task, the instance lease | create, edit, pause, move, dispatch; tick, claim | requests, instances |
| Relocation and redeploy | steps of a long remote change, what earlier moves did, move locks, safety backups | plan, run a step, resume, rehearse, revert | jobs, users of the servers |
| Servers, applications, discovery | rows, pinned keys, locks; what a server answers | add, change, check, merge, remove; search and rank | requests, moves, assistants |
| Remote commands and files (`ssh_gateway.py`, `files/`) | a process on a server, files and partials there | run, stream, time out, settle; upload, push, pull, replace, sweep | jobs, requests, the server's users |
| Accounts and sign-in | accounts and roles, attempt counts, secrets and codes, tickets | set up, hand over, throttle, enrol, sign in, redeem | browsers, the command line |
| Data folder and keys (`keystore.py`, `staging.py`, `transfer.py`) | database, key file, keychain entry, stage and marker | start, import, swap, finish after a crash | commands |
| Terminals (`shell/`) | open terminals, an output buffer, cursors of tabs | open, poll, type, revoke, close | browsers, reader threads, the sweep |

The hard behaviours, with the properties that make each component correct:

* **Panel jobs.** A worker, its child and the child's supervisor die independently. One job at
  a time; an event that has begun ends; an outcome is final; a settled job leaves no file; a
  recovery ends the dead only.
* **Schedule.** Many workers see the same row. One backup per interval; one retry; a due
  schedule is served.
* **Retention.** Prunes run beside each other on old listings. The newest verified backup, the
  places and the limit.
* **Audit trail.** Concurrent sealers and late writers. The chain is intact, sealed rows are
  final, nothing finished is passed over.
* **Engine.** Rows and files change while they are read; threads fail while others wait; a
  restore fails late. No row twice and none missed, no thread left waiting, all or nothing.
* **Container.** Damage at the edges of the layout, in both copies, or made with a valid block
  of another file. Never a wrong byte; what is within the promise is healed.
* **Session guard.** Requests overlap and save sessions late. A block ends all; a session does
  not vouch for itself; a model that was forgotten does not come back.
* **Manager jobs.** A stopped instance drains while the next one recovers, and sweeps run
  beside jobs. A working job has its lock, ended jobs free it, the living are spared, jobs end.
* **Collection.** A break or a crash falls between the file, the row and the server's copy. A
  copy leaves the server once it is held; nothing is held twice; every row has its file.
* **Moves.** Steps fail half way and are resumed on old facts, on servers that others use. What
  was there is not written over; success is complete; a failed redeploy has its way back.
* **Servers, sign-in, files, terminals.** Requests read, wait and write. Names are unique, keys
  are confirmed, codes and tickets work once, files are whole, limits hold.

`PROJECT.json` lists these dangers, each at the line where it bites, under `hazards`.

## Modules

| Module | Models |
|---|---|
| `PanelJobs` | a panel backup, a restore or a scheduled cycle from `Runner.take` to its last clean-up, with `recover` and the sweep |
| `OneRunner` | what the panel's jobs promise, abstractly; `PanelJobs` implements it (`KeepsPromise`) |
| `ScheduleRunner` | `run_due` in every worker, and the schedule's admin form |
| `BackupFolder` | the folder, the verdicts, and the retention of jobs and streams |
| `AuditChain` | rows, sealing and `verify_chain` |
| `ManagerJobs` | the manager's jobs, take locks, job leases, instances, recovery and sweep |
| `PanelJobsProofs`, `BackupFolderProofs`, `AuditChainProofs`, `RedeployProofs` | theorems about these four, and their proofs |
| `ManagerProofs` | the same for `ManagerJobs` and, as instances with a name of their own, `Accounts`, `StoredFiles`, `Servers`, `SignIn`, `Terminals` and `Ticks` |
| `Backup`, `Pipeline`, `ModelOrder`, `Restore` | the engine |
| `StreamContainer`, `SealedFile` | the container with its repair, and the vault's sealed files |
| `OldBackup` | the container of the first format, and its conversion into the second |
| `Upgrade` | `dbs upgrade` |
| `SessionGuard`, `GuardModel`, `GuardHistory`, `GuardAddress` | the session guard |
| `Collection`, `StoredFiles`, `Plans`, `PlanTiming`, `Ticks` | the manager's backups, their files, plans and times, and its scheduler |
| `Relocation`, `Redeploy` | moves between servers and between applications |
| `Servers`, `Discovery`, `Applications`, `HostKeys` | what the manager knows of servers and applications |
| `RemoteCommand`, `RemoteFiles` | commands and files on a server |
| `Accounts`, `Attempts`, `SignIn`, `Tickets` | accounts, and what guards them |
| `DataFolder` | the data folder, its key, and imports |
| `Terminals`, `TerminalStream` | which terminals are open, and what goes through one |
| `MCPanelParts`, `MCManagerParts` | the components that stand alone, each on its small instances, in two runs; and the promises that the documentation makes without a condition (`PromiseSpec`) |
| `MCManagerJobs` | a small instance of `ManagerJobs`; the cfg files of the other runs give their constants values directly |

### PanelJobs

A member of `Jobs` is one attempt. `pc[j]` is the next step of its own line of control, first
in the worker (`Ask` to `Spawn`), then in the child (`Boot` to `End`); a scheduled job begins
its event in the child, a panel job in the worker, which is why `HasJobLease` and `InChild`
differ between them. `sup[j]` is the supervisor (`supervise`, or the waiting `run_and_wait`),
`breach[j]` the watchdog thread (`Limits`), which fails the event in one step and ends the
process in a later one while the main thread goes on. A partial is published in two steps:
`GiveBack` removes the reservation, `Publish` links the file under the free name, and the child
may die between the two. `seen[p]` is what `recover` has read in
process p and not acted on yet. A lease is the time it still has. A step is one statement
against the database or one change of the folder; where several touch nothing shared they are
one step. `Threads` are the jobs run with `DBS_JOB_PROCESS = False`.

Processes die in every step (`Die`), supervisors too (`SupervisorDies`), and the database may
refuse an outcome (`OutcomeRefused`, kept in the history variable `refused`).

Time: `Tick` takes one from every lease. The heartbeat renews every 30 seconds what lasts 120,
and the code relies on nothing else to keep a lease while it works; `Prompt` says that a live
process renews, or gives back, before `Gap` ticks are over. `Gap < TTL` is the assumption under
which one job runs at a time: a process that the host suspends for two minutes breaks it, and
the code does not claim otherwise. It also stands for the stretches without a heartbeat (the
start of a child, and retention after the outcome is written).

### ScheduleRunner

The row is `enabled`, `status` and `next` (0 is also "no time yet"). The lease is used by what
`PanelJobs` shows of it: one holder, freed by its holder or, once it is dead, by time. `now` is
the moment a tick began, which is the one that decides what is due and when the next run is.
A worker may die and leave a child that goes on (`runAlone`). A post of the form is two steps,
the read of the row and the save of all its columns. `setback` is a history variable: since
the last backup a retry was given up and moved `next_run_at` backwards.

### BackupFolder

A backup is a number in the order of beginnings. `stamp` is the time retention orders it by: the
manifest's until the record is written. The positions of the code's sorted lists are counted as
the number of newer backups. A job records its backup (`Record`) and then the event that carries
its verdict (`Finish`). A prune lists, judges and removes one file at a time; `disturbed` is a
history variable that says that the folder or a verdict changed under it. Streams run beside
everything, other backups one at a time (`PanelJobs`).

### AuditChain

A hash is the sequence of contents it was computed from, so equal hashes mean equal histories.
The lock on the chain's lease row is a database row lock: it is held from the update in
`_hold_chain` to the end of the transaction, and the links appear at `Commit`.

### ManagerJobs

`step[j]` is the thread of job j: queued with its lock (`Request`) or, by the scheduler, before
it (`Dispatch`, `DispatchLocks`), sent to the pool, started, leased, holding, working,
releasing in two statements, and telling the plan. `owner[j]` is the instance the thread
belongs to. An instance crashes, or is stopped and drains; `Restart` begins the next one with
`recover`. The janitor is `recover` or `sweep` with what it has read so far. Whether a process
is known to be dead (`abandoned`) is a choice: on another host nobody knows. Time runs in steps
of hours against a limit of 25, so the statements of a janitor or a release never straddle one,
and `Prompt` says that `BACKUP_TOTAL_TIMEOUT` ends a live job in time.

### The engine: Backup, Pipeline, ModelOrder, Restore

`Backup` is the main thread of a backup, step by step: `ListPage` and `ListRoots` find the
files, `EmitManifest` announces them, `OpenFile` and `ReadChunk` read one, `FetchPage`,
`EncodePage` and `NextRows` read a model's rows in pages and pack them into frames, `Close`
verifies and moves the container into place. `Project` is what the project does meanwhile:
it inserts and deletes rows, and adds, changes and removes files. `snap` is the snapshot of a
database that gives one, and `stayed` the rows that were there all along. A row weighs
`Size[k]`; frames, pages and lists have limits of a few units, so that each limit is met.
`ModelOrder` is the choice and the order of the models, for every inheritance without a cycle
and every few references of three models. `Pipeline` is the threads: `th[t]` is what a thread
does, `waiters` the threads in the condition of a channel, so that a wake-up that is lost
leaves a thread that nobody wakes; `Err` is an error of a stage, and `Join` the end of the
`with` block. `NobodyStuck` states the absence of a deadlock as an invariant.

`Restore` reads a sequence of frames. A payload is one of those a writer may write, or one of
them cut, reordered, repeated or with a wrong digest. `staged`, `tx` and `seq` are what is not
committed yet; `Fault` is an error of the disk or of the database, `Crash` the end of the
process, in every step. A file that cannot be moved into place is counted and the next one
is taken (`NotMoved`), and a remote storage that refuses to delete a staging object keeps it.
`Again` follows a dry run or a validation by the restore it rehearsed,
so that `RehearsalHolds` compares two code paths. A backup of the first format is read whole
(`ReadV1`). Paths are sequences of names, with links and
path mappings that lead out of the allowed roots. `backup_files`, which only reads, and a
caller's own transaction around a restore are left out.

### What is stored: StreamContainer, OldBackup, SealedFile, Upgrade

A container is a sequence of units of length one: header, slots, trailers, header. Reed-Solomon
is what a decoder promises: within the parity budget it gives the codeword written, beyond it an
error or, when `luck` says so, a wrong codeword. Encryption is ideal: a chunk opens only with
its key, number and flag. `Write` cuts the payload into any pieces, and the sink may fail in the
middle of what it is given (`Emit`); `Damage`, `Lose`, `Truncate`, `TruncateInside`, `Extend`,
`Swap`, `Foreign`, `Reseal` and `Burst` are what happens to the file; `ReadSlot`, `Yield` and
`Finish` are the reader, `ReadFails` a file it cannot read on. `SealedFile` does the same for
the vault's records, whose number and end only show in the nonce.

`OldBackup` is a backup of the first format. Its file is a header, two manifests, two copies of
the blocks and the header again. A codeword is a row of symbols, 0 where it is as it was
written, so that two copies show where one of them changed. Headers and manifests are lost,
codewords damaged and the file cut before `Open`; `RepairBlock` takes a block from the first
copy that decodes, or from both. `EmitHeader`, `EmitFile`, `EmitBatch` and `EmitTrailer` write
what was read in frames of the second format, and `Validate` reads them. The panel's sum has two
instances: one damages the file three times and has an empty payload; the other has payloads
whose models, files and rows meet every limit, and one damage at most.

In `Upgrade` a project is the set of
facts its steps look for, and a command is its options and its steps in order, with the fixes
that fail halfway and the errors that end it early; conversions of old backups are claimed,
begun, written and completed beside those of another command, which may be cut off.

### The session guard: SessionGuard, GuardModel, GuardHistory, GuardAddress

A request loads its session when it begins and saves it when it ends; `req[q]` is what it
carries between the two. The score of the isolation forest is any of `ModelScores`; the rules,
thresholds, flags, blocks and the idle limit are the code's. `recent` is the window of requests
that a new one is compared with; the oldest leaves it when it is full (`FallsBehind`). `real`,
`warned` and `blocked` are history variables for what the code promises about them, and a
request's `lost` and `told` say whether its session was saved by one that had loaded it earlier,
and whether a warning had been answered when it began. `GuardModel` is the cache of
fitted models with its generation counter, its background fits and what forgets a user;
`GuardHistory` the purge that carries counts over, where `crossed` says that two purges
overlapped; `GuardAddress` the walk through
`X-Forwarded-For`.

### The manager's backups: Collection, StoredFiles, Plans, PlanTiming, Ticks

`Collection` follows one run at a time (`ManagerJobs` shows that there is one) from the command
on the server to the row and the release of the server's copy. `srv[b]` is the copy there, whole
or not; a break leaves a partial in the manager and the tee on the server goes on. Users delete,
undo, verify and change the passphrase beside it. `StoredFiles` is what has no DBS container:
uploads, archives and collected files. Everything chooses a name in one folder; `disk[p]` says
which thread's file is at place p, so that a clean-up by path that hits the file of another
shows. `left` remembers where a crash may have left something, and `haunted` the places where
one parted an expired file from its row. `Plans` is a row of a plan between the request that
read it and the save of what it changed, with the scheduler and other editors between them;
`crossed` are the plans that were saved over what their editor had not read; `PlanTiming` is
`next_on_grid` in a zone whose offset changes once, a day of four hours; `Ticks` is the lease of
the instance and the claim of a task, with a tick that may be slower than its lease.

### Moves: Relocation, Redeploy

A move is the list of steps that the plan makes of what was found. A step does its work, may
find somebody else's things in its way, and may fail before, in or after it; what it leaves is
`Leaves`. `Resume` starts another move with what the failed one is known to have done.
`Intrude` is somebody else on the new server, `lost` the old data that were written over and
the move that did it, whose `facts` say what it knew. In
`Redeploy` a job has its target's lock, plans, takes a safety backup, works through its steps
and may be reverted by another one; the code, the data, the schema and the `.env` of an
application are numbers that tell versions apart. What commands print is abstracted to the
facts it yields.

### Servers and applications: Servers, Discovery, Applications, HostKeys, RemoteCommand, RemoteFiles

`Servers` and `Applications` have one shape: `Begin` reads and validates, `End` writes, and
everything else happens between the two. A move takes the locks of both its servers or none: the
two `cache.add` of `relocation/locks.py:15-25` run inside the transaction in which the move is
queued, and the cache is a table of the same database, so a first lock whose second is refused
is undone before anybody sees it. The cache forgets locks, and `Janitor` sweeps them; `robbed`
are the moves at work that lost a lock so. `Discovery` is sequential, over every small server of
a set of worlds: folders with owners, containers with mounts and labels, Pythons; any read may
fail. `HostKeys` has the cache entries of a confirmation, each read and write a step.
`RemoteCommand` has a clock: `timeout` on the server, its grace and the manager's deadline are
due at moments, and a timer that is due goes off before the next tick. A process is `loose` that
its call's settling time does not cover: one that was fed or streamed, or that started late on
the server. `RemoteFiles` has a step for each SFTP call, and a user of the server who edits.

### People: Accounts, Attempts, SignIn, Tickets, DataFolder, Terminals, TerminalStream

`Accounts` has a request's checks, reads and writes apart (`was` is the role it read), the
setup's lease and the command line, which needs no account. `Attempts` counts in the cache,
where `incr` is a read and a write. `SignIn` has browsers with sessions, one-time codes by time
step and recovery codes by set, and `again` counts the sign-ins of a form sent twice; `Tickets`
the password that pays for one download. `DataFolder` has folders with the key their database is
sealed with, the key file in each, and the keychain by path; `Step` is the next statement of a
command that starts, exports or imports, and `Crash` stops it anywhere. `Terminals` counts
places from reservation to close, and `closer` tells whose list closed a terminal;
`TerminalStream` counts output in pieces and keystrokes by number, with answers that are lost.

## Runs

| Run | Instance | Result |
|---|---|---|
| `panel_jobs` | a panel backup and a scheduled one in child processes, TTL 3, Gap 2 | passes |
| `panel_jobs_live` | a restore in a child, a scheduled backup in a thread, TTL 2, Gap 1 | passes |
| `panel_jobs_orphan` | the same | `EveryEventEnds` is violated |
| `schedule` | two workers, an interval of 2 up to moment 3, one death, one edit | passes |
| `schedule_saves` | the same | `OncePerIntervalDespiteSaves` is violated |
| `schedule_workers` | three workers, an interval of 2 up to moment 3, no death, no edit | `OncePerInterval` is violated |
| `backup_folder_verified` | four backups, two of them streams, one unverified, keep 2, limit 2 | `VerifiedAlwaysKept` is violated |
| `manager_jobs` | a requested and a dispatched job of one application, two instances, limit 2, slack 1 | passes |
| `manager_jobs_sweep` | the same | `OneRunPerApplication` is violated |
| `panel_parts` | the parts of the Django app and the command line, 35 instances of 15 modules | passes |
| `manager_parts` | the parts of the manager, 55 instances of 20 modules | passes |
| `promises` | twelve of these instances one after another, two of them of the session guard | `SomePromiseHolds` is violated: all twelve promises are |

**The sums of parts.** The components above that only meet through what another module already
shows are checked in two runs. A behaviour of `MCPanelParts` or `MCManagerParts` is a behaviour
of one part on one instance: `part` names it, and `v1`, `v2`, ... stand for that part's
variables in their order (`INSTANCE ... WITH x <- v1`). `Init` is the disjunction of the parts'
initial states and `Next` of their steps, which keep `part`; so the states of the run are the
sum, not the product, of the parts' states, and each part is explored completely. A property
of such a run is a conjunction of `part = ... => property of that part`:

| Property | What its conjuncts say, and of which modules |
|---|---|
| `BackupsAreWhole` | no row twice, none that stayed missed, named files are there, frames are readable, parents first (`Backup`, `ModelOrder`) |
| `PipelinesDeliver` | all bytes in order or the first failure is told; channels are bounded; nobody is stuck (`Pipeline`) |
| `ContainersAreRecovered` | the layout, bounded memory, healing within the promise, never a wrong byte, prefixes only (`StreamContainer`, `SealedFile`); of the first format, recovery, a true report and exact conversions (`OldBackup`) |
| `RestoresAreExact` | all or nothing, exact merges, sequences and references, confined files, rehearsals that hold (`Restore`) |
| `UpgradesHold` | one run is enough, conversions are whole, the latest is the latest (`Upgrade`) |
| `GuardsHold` | blocks end all, forgotten models stay away, the address cannot be forged; flags and warnings refuse and idle sessions end, but for a session saved by an overtaken request and a download's second score; sessions are counted once unless purges cross (`SessionGuard`, `GuardModel`, `GuardHistory`, `GuardAddress`) |
| `ChainIntact`, `NothingForgotten`, `SealedRowsAreFinal` | the chain recomputes, nothing finished is left unsealed by the last sealer, a sealed row does not change (`AuditChain`) |
| `NewestVerifiedKept`, `PlacesAreKept`, `StreamLimit`, `StreamKeepsItsOwn` | what a prune may not remove, and what a stream leaves (`BackupFolder`) |
| `PanelStepsHold` | the steps never taken by these parts; and with three workers no backup before its interval is over, unless a retry given up moved `next_run_at` backwards (`KeepsTheInterval` of `ScheduleRunner`) |
| `MovesHold` | old data are written over only by a move that could not read whose they are; a resumed move, also of a resumed one, finds its backup; completeness; one job per application (`Relocation`, `Redeploy`) |
| `ServersHold` | names and pinned keys; two moves share no server, but for those robbed of a lock; what discovery offers and runs; complete applications; one command at a time, but beside a loose one (`Servers`, `Discovery`, `Applications`, `RemoteCommand`) |
| `BackupsAreKept` | collected once, few copies on the server, nothing stray, faithful and complete runs; rows with whole files but at a `haunted` place; plans on their beat, asked about and with names of their own unless `crossed`; times across a change of the clocks, one instance that serves, spaced claims (`Collection`, `StoredFiles`, `Plans`, `PlanTiming`, `Ticks`) |
| `SignInsHold` | one master, bounded attempts, password first but for a form sent twice, codes and recovery codes once, one download per password (`Accounts`, `Attempts`, `SignIn`, `Tickets`) |
| `SecretsHold` | the key that opens the data, keys kept through every crash, pinned keys were confirmed (`DataFolder`, `HostKeys`) |
| `SessionsHold` | no torn file, one version per download, terminals within limits, output and keys in order (`RemoteFiles`, `Terminals`, `TerminalStream`) |
| `ManagerStepsHold` | the steps never taken by these parts: nothing written over, a way back whatever fails or is killed, a master lost only to a stale change of role, removal from a server only once held, passwords asked, old codes dead, folders never deleted |

**Why the bounds are enough.** Two jobs are what a conflict over one lease, one lock or one
folder takes, and the theorems below extend the main ones to any number. A lease of 3 ticks
with a gap of 2 has a state in which it is renewed late, one in which it is about to expire and
one in which it has. Two workers over more than one interval show a retry, a giving up and a
second interval. Four backups exceed both keep and limit by two. Batches of two are exceeded by
three rows. Two instances are one that drains and one that recovers; time reaches the sweep's
age limit. `CHECK_DEADLOCK` is off because every instance ends when its jobs, moments or
instances are used up.

In the sums each part has the smallest instance in which its hard cases happen, and several
where the cases do not fit into one; the comment before each `INSTANCE` says which. A page, a
frame, a block, a channel and a buffer hold one or two units, and there is one unit more than
fits. Two requests are what a read that is out of date takes. One fault is allowed where a
second would have to hit the same step, two where the second comes into the recovery of the
first (imports, remote `.env` files, damage to both copies of a block). Where requests that
overlap, a crash or a janitor break what a single actor keeps, the instance has them, a history
variable says whom they hit, and the property excepts just those; the same promise without the
exception is what the run `promises` refutes. Three moves are one that fails, one that resumes it
and one that resumes the second.

**Fairness.** A live thread goes on; a heartbeat, a supervisor and a tick come back by their
timers; time passes. Nothing has to be asked for, no process has to die, and nobody has to
start the manager again (`JobsEnd` is about an instance that serves). In `ScheduleRunner` a
worker that finds the lease taken tries again at the next tick, which is strong fairness of
`Take`. In `ManagerJobs` time is strongly fair, because the janitor and a release interrupt it.
The sums state no fairness, and the runs check safety of them; that threads and
jobs which wait for each other can go on is the invariant `NobodyStuck` there.

**What the violations show.**

1. `Job.begin` records the event before it takes the lease; a crash in between leaves an event
   "running" for ever. With a lease taken, every event ends (`LeasedEventEnds`).
2. Saving the schedule's form writes back the `next_run_at` it was loaded with. Without a save,
   a forced run or a set back two backups are an interval apart (`OnceUnlessSetBack`).
3. Streams prune without the runner lease. A prune that nothing disturbs keeps the newest
   verified backup (`NewestVerifiedKept`); two at the same time may not.
4. The sweep compares locks with a list of jobs it read before. Apart from that every working
   job has its lock (`WorkersHoldTheLock`), whatever crashes and restarts.
5. `run_due` takes its moment before the lease. A worker whose tick began before a long backup
   takes the lease a whole interval later, finds "retrying", gives the retry up and moves
   `next_run_at` on from its own old moment, which is backwards; a third worker, whose moment lies
   between, then finds the schedule due. Two workers do not suffice, and neither death nor edit is
   needed. `OnceUnlessSetBack` says that this is the only way, for any number of workers.
6. Twelve sentences of the documentation and the tests, each without a condition, do not hold
   where two actors cross or one dies:

   | Part | Promise | What breaks it |
   |---|---|---|
   | flag | `FlaggedNeverServes` | a request that began before the warning saves its session over the flag |
   | warning | `WarningNeverServes` | a download is scored twice, and served when only the second score warns |
   | idle | `IdleAlwaysEnds` | a poll saves a session without the last activity |
   | seen | `SeenOnceAlways` | two processes that purge at once both carry the same session |
   | old data | `OldDataAlwaysKept` | a shared database whose facts could not be read is restored over |
   | one move | `OneMoveAtATime` | a sweep with an old list, or the cache's expiry, frees the lock of a move at work |
   | one command | `AlwaysOneAtATime` | a fed command whose connection broke, or one that starts late, has no settling time that covers it |
   | kept file | `AliveIsWhole` | a crash after an expired file was unlinked and before its row is saved: an upload takes the name, and the next expiry removes its file |
   | beat | `AlwaysOnBeat` | a plan that is resumed and rescheduled at once is on without a next run |
   | fewer | `FewerIsAlwaysAsked` | of two editors who raise the number the later lowers what the other saved |
   | plan folders | `AlwaysDistinctNames` | two requests save two names with one slug |
   | one master | `NeverDemoted` | a change of role that read the account before a hand-over demotes the new master |

`PromiseSpec` walks through them in this order. It begins in the first part, on the instance of
that part; it leaves a part only from a state that breaks the part's promise (`Breaks`), and
goes on in an initial state of the next part's specification (`Begins` asks for its `Init`). So
`part = "none left"` is reachable just if each of the twelve can be broken, and TLC's trace, 138
states long, holds one counterexample after another. A promise that the code came to keep would
end the walk, and the run would no longer find its violation. What does hold in each of these
parts is the property with the exception in `GuardsHold`, `MovesHold`, `ServersHold`,
`BackupsAreKept` and `ManagerStepsHold`.

## Where a promise depends on the instance

The following came up while the modules were written, beside the twelve promises above. TLC finds
each of them when the instance is changed as the sentence says; where an item does not say that
the runs have it, they keep to instances in which the property holds, and the restriction is
named here instead of being hidden.

*Panel and command line*

* Two threads: a request that counted too few rows notes that over a model fitted meanwhile
  (`LastFitServes`, checked with one).
* `Prompt` of `PanelJobs` renews the leases of whatever lives, so a job whose renewals fail while
  it goes on (`leases.py`) is no state: no property here is about it.
* A dry run counts a file that the backup skipped among those that would be written.
* One wrong byte in the tag and in a codeword of both copies gives a block up, though both
  copies decode; `Recoverable` leaves this case out.
* Of a backup of the first format the second copy's blocks are looked at only where the first
  fails, while `validate_backup` says that it checks every block of both copies
  (`engine/validate.py:38`). `ReportIsTrue` says of the second copy only that it has its length.
* A conversion whose payload has, between records of a model that its order leaves out, those of
  another one does not validate and fails (`SoundConverts`).
* Without hard links, a conversion that was cut off or is still being written counts as done
  (`ConvertedIsWhole`; `UpgradeNoLinks` has no crash). A release candidate is called the latest
  when its final release is out (`Finals` has final releases only).

*Backups of the manager*

* An undo that looked before the expiry took the file brings back a backup without one. A
  quarantined backup that is verified again takes the place of one that can be restored.
  Without a known folder a broken stream is reported as kept on the server and never
  collected; with a small limit on the server, the next stream removes what waits there.
* The lock is released before the plan is told, so an older run may overwrite the outcome of a
  newer one.

*Moves*

* A step that took effect and then failed refuses its own work in every later resume. A resumed
  move loads its image over one of the same name, keeps no record of earlier moves when it fails in
  its plan phase, and does not list an upload whose digest it could not read.
* A redeploy takes a target with data and one migration to run for empty, without a backup of
  it, and one that the end of the manager cuts off after a step cannot be reverted: both happen
  in the instance `CutOff`, and `WayBack` says what is left then. A backup found damaged after
  the move was queued is restored when the source does not answer.

*Servers and applications*

* A deletion that looked before, and a merge, remove a server that a move holds, or that has
  just been given an application. Two changes of the sign-in, each valid for the row it read,
  leave a server without a credential for its method.
* Two requests on one application: a rename sent with every setting writes back the old Python
  without a password, a free change is written after the check has passed, and a Compose
  application is left without its service.
* With as many containers as are probed, the place on the server itself is cut off before the
  ranking. A temporary file system over the backup folder is skipped for having no source. A
  place that matches the answers comes after one that has django-dbs and does not. A database
  in another container of the same server is called elsewhere.
* Two people decide on one key and both are told that it is stored; two additions with one
  confirmation pin it twice; two requests at once lose one from the list of what waits. A key
  that nobody confirmed is never pinned (`PinnedWasConfirmed`, checked with two deciders).

*Sign-in, keys and terminals*

* A switching off that read the account before a hand-over hits the new master. Two right
  passwords at once lose a `decr` of the cache. Two browsers that enrol at once replace each
  other's secret (`EnrolledOnce` is checked with one).
* Two commands that start at once on a new data folder each make a key; a keychain that a later
  start does not find at all, unlike one that does not answer, leads to a new key.
* Listing the terminals from a second browser closes those of the first. A connection whose
  audit row cannot be written stays open and is not counted. Signing out while a terminal
  connects leaves it open. A poll just before the end is noted is told that there is no such
  terminal.

## Proofs

Eight modules hold theorems: five modules of proofs, and `ScheduleRunner`, `HostKeys` and
`Tickets`, whose theorems stand at their end. Each theorem holds for every value of the
constants that the module's named assumption allows. All the properties of the run `panel_jobs`
and those of the audit chain and the backup folder in `panel_parts` are theorems, and of
`manager_jobs` and `schedule` those that are not liveness. An inductive invariant is a
conjunction of named parts in the component's module; TLC checked each of them on the run's
instance before it was proved.

**`PanelJobsProofs`**, for any set of jobs and any `TTL` and `Gap`:

* `TypeCorrect`: `TypeOK` always holds;
* `OneAtATimeAlways` and `RecoveryIsSafe`, assuming `Gap < TTL`;
* `OutcomesAreFinalAlways` and `SettledJobsAreClean`, without that assumption;
* `SuccessIsPublishedAlways`, `RetentionAfterSuccessAlways` and `PromiseKept`, assuming
  `Gap < TTL`.

`OneAtATime` is not inductive. A job might be live with a lease that has run out, so
`LiveHoldRunner` says that whoever lives owns an unexpired runner lease; two live jobs would
both be the owner. `RecoveryOnlyTouchesTheDead` needs more, because `recover` acts on what it
read before: `LiveHoldLease` (a live job that has begun has an unexpired job lease),
`LeaseIsHeldOrLeft` (a lease that nobody holds belongs to an ended process), `SeenHaveEnded`
(what a recovery has read are ended processes, and they stay ended) and `InterruptedHaveEnded`.
Their conjunction with `TypeOK` is `LeaseInv`. `Tick` is the step that needs `Gap < TTL`.
Outcomes are final because `Close` filters; the steps that write without a filter are those of
a job that has not begun, whose event does not exist (`UnbegunHaveNoEvent`).

`SettledJobIsClean` speaks of the end of a supervisor; its invariant `CleanInv` follows the job
there. A child whose supervisor watches has begun (`ChildrenHaveBegun`), so its event is open
with a lease by which the supervisor finds it, or closed, or was refused by the database
(`OpenEventsHaveLeases`, `ClosedHaveOutcomes`); a partial exists only between its creation and
its link (`PartialsAreInWork`); and what the supervisor has freed and removed does not come
back, because its child has ended (`SettledAreFree`, `CleanedAreGone`). No lease has to hold
for this.

`SuccessInv` adds to `LeaseInv` that the event of a job at work is open unless its watchdog has
failed it (`WorkIsOpen`), that a published backup is still there when its job writes the
outcome (`PublishedAreThere`, where one job at a time is needed: only another job could have
pruned it) and that retention follows a success (`PruningFollowsSuccess`).

`PromiseKept` is the refinement of `OneRunner`. The abstract runner is the job that is live;
that there is one, so that `CHOOSE` finds the same job before and after a step, is `OneAtATime`
(lemma `TheLiveRun`). Each action is a step of the abstract specification or a stutter (lemma
`PromiseStep`): `Acquire` begins, a filtered write that takes effect ends, `recover`,
supervisors and watchdogs end for others, and everything else leaves the mapping alone.

**`ScheduleRunner`**: the end of the module proves `RetriedOnceAlways` for any number of workers
and any interval. `tries` counts the attempts since `next_run_at` last moved. The invariant
`TriesInv` says that whoever is past the lease is the one it names (`OneInside`), that the row's
status tells how often the schedule may have tried (`TriesMatch`: twice when it says retrying,
once when it says running or interrupted, else not at all), that only an interrupted row is
tried a second time (`StartsFresh`), and that the copy by which a worker decides is the row's,
unless somebody saved the form since, which begins the count again (`CopyIsCurrent`).
`OnceUnlessSetBackAlways` proves of any number of workers what is left of one backup per
interval: only a save, a forced run, or a retry given up with an old moment brings the next
backup forward. Its `IntervalInv` says that unless one of these happened `next_run_at` is an
interval after the last backup (`RowWaits`), and so are the copy that a tick is compared with
(`CopyWaits`) and the tick of whoever runs (`RunsInTime`).

**`BackupFolderProofs`**, for any backups, streams, `Keep` and `Limit` of at least two:
`NewestVerifiedKeptAlways`, `PlacesAreKeptAlways`, `StreamLimitAlways` and
`StreamKeepsItsOwnAlways`. The code decides by the position of a backup in a sorted list, which
the model counts as the number of newer ones; the lemma the rest needs is `FirstOnes`: if n or
more precede one member of a finite set, then n members have fewer than n before them. From it
follow that a verified backup other than the newest has a newer one (`NewestPassed`), that
`Stale` spares the newest verified backup and leaves `Keep` places (`StaleOnes`), and that
`StaleBeyond` spares the stream's own backup and leaves no more than `Limit` (`BeyondOnes`,
which needs two places, one for its own and one for the newest verified, and times that differ).
The invariant `FolderInv` says that times differ (`TimesDiffer`), that an undisturbed job's list
is the folder (`ListIsCurrent`), and that what it will leave keeps the promise however many of
its files are gone already (`PlanHolds`), which is why a prune that dies half way does no harm.

**`AuditChainProofs`** proves `ChainIntactAlways`, `SealedRowsAreFinalAlways` and
`NothingForgottenAlways` for any rows, processes and batch size. `ChainIntact` recomputes the
chain; the invariant `ChainInv` says it link by link: links are numbered without a gap
(`Numbered`), each is its row's content on top of the link before (`Linked`), and a process that
has read rows has the row lock, so that nobody else has sealed them (`HoldersHaveTheLock`,
`BatchesArePending`). `NothingForgotten` is a matter of counting: those who have still to seal
have room in their batches for all rows that wait (`SealersSuffice`), and with nobody left
there is no room, so no row.

**`ManagerProofs`, jobs**, for any jobs, applications, limits and number of instances:
`TypeCorrect`, `WorkersHoldTheLockAlways`, `EndedJobsFreeTheirLockAlways` and
`TheLivingAreSparedAlways`. `LockInv` adds that a thread past its end has a finished row
(`ClosingHaveEnded`, without which the plan could be told an unfinished status) and that a
thread which found its lock and is about to delete it still has it (`HoldersHold`), so that its
delete never takes the lock of another. `FreeInv` says in which steps a job can have the lock at
all (`LocklessHoldNothing`) and which outcomes a waiting and a finished thread can have
(`WaitingAreUnfinished`, `OverHaveEnded`). `LivingInv` says why recovery and sweep miss the
living: threads run in live processes, workers are leased, what `recover` has read includes
them (`SparedAreKept`), and no job with a thread gets as old as the sweep wants (`BusyAreYoung`).

**`ManagerProofs`, scheduler** (`Ticking!`): `SpacedAlways` and `OneServesAlways`, for any
number of instances, any lease and any interval. Claims are spaced without any help of the
lease: `SpacedInv` says that a tick claims what was due when it began and that `next_run_at` is
an interval after the last claim. `OneServesAlways` assumes `InTime`, without which TLC's second
instance has two that serve for a while; `ServesInv` says that the one that serves owns a lease
that has not run out, that whoever was found dead is dead, and that a lease of nobody has run
out.

**`ManagerProofs`, accounts** (`People!`): `AtMostOneMasterAlways` and `HandOverWorksAlways` for
any names, requests and orphans. That there is one master at most is the constraint of the table;
what has to be shown is that no request writes the role past it: what a request has read, asked
for or been given is an assignable role unless it makes the first account (`ReadAreAssignable`),
and every role has its user (`RolesHaveUsers`). `FirstIsMasterAlways` and `NotDemotedAlways`
hold of the same: changes of role that read an account long ago are allowed, and so are users
without an account. The first says that the first account is the master and that a later one
becomes it only where there is none; the second that a master loses the role in the step that
gives it away, or to a stale change of role, which is the divergence told above. `FirstInv`
says why: a request that was told it is not the first saw an account that stays (`LaterSawOne`), and
no change of role is written that read the master or no account at all (`ReadAnother`).

**`ManagerProofs`, stored files** (`Stored!`): `NothingStrayAlways`, `CollectedFaithfullyOnceAlways`
and `RunsAreCompleteAlways` without a condition, for any uploads, limits, crashes, deletions and
expiries. A file is explained by a row whose file the expiry has not removed, by a thread at
work or by a crash (`FilesExplained`). `StoredIsWholeAlways` rests on `WholeInv`: outside
the haunted places no two threads work at one place (`OnePerPlace`) nor at that of a kept row
(`WorkApart`), and what they have written and what rows keep is there (`WorkIsThere`,
`KeptAreThere`). A place becomes haunted when the manager dies after it has unlinked an expired
file there and before the row is saved (`backup_schedule_service.py:67-68`); the row still counts
as kept, its name is free, and the next expiry unlinks what an upload wrote there. The theorem
excludes no step: it says that the harm of such a crash stays at the place it hit.
`CollectInv` says which version a read item is (`ListedIsGoing`, `ToCollectIsNew`), and that only
the thread of the plan reads from the server (`ItemsFit`).

**`ManagerProofs`, servers** (`Hosts!`): `NamesAndPinsAlways` for any requests. `OneMoveAlways`
lets locks expire and sweeps run with any list: a move that was not robbed of a lock holds both,
and of two at work on one server one was robbed. `MoveInv` says that from the
queue to its release a move has both locks unless it is in `robbed` (`MovesHold`), and that a move
that is asked for is nobody else's (`AskedOnce`).

**`ManagerProofs`, sign-in** (`SignsIn!`): `RecoveryOnceAlways` without a condition: a code that was
used is no longer in the set, and a set that is given is new (`RecoveryInv`).
`PasswordFirstAlways` has no condition either. The session's key of a half sign-in is
read by both of two overlapping requests, and each may bring a code; `again` counts the sign-ins
of a request whose browser has changed its key meanwhile. `PasswordInv` says that a browser which
may still go on, by its session or by a request with its key, has a right password that no
sign-in has used up.
`CodeOnceAlways` assumes `Calm`, that nobody else is signing in when the second factor is
enrolled or reset: a code whose account was read before a reset may be accepted after it once
more, and of two enrollments that overlap the later replaces the secret. `CodeInv` says that
a secret was made once and for one browser (`MadeOnce`), that one which the account has or had
is in no other session (`SpentIsGone`), that what a request read of the account is still so
(`ReadsHold`), and that the accepted steps of the account's secret are behind (`StepsBehind`).

**`ManagerProofs`, terminals** (`Consoles!`): `AtMostAlways` for any finite sets of browsers and
terminals. A connection whose audit row is refused stays open and is not counted, so the limit
holds beside `faults` of them, and exactly where there are none. `LimitsInv` counts what is open,
reserved or connected of each account against its places. `RevokedForChangeAlways` is
for any number of browsers of an account, since a list closes the terminals of the account's
other browsers: a terminal that was revoked is one whose account changed, or one that another
browser of the same account closed so.

**`RedeployProofs`**, for any applications, jobs and backup files: `OneOnEachAlways`,
`RehearsalReadsAlways` and `RevertPutsBackAlways` without a condition on what happens. The lock
of a job that waits may run out and be taken by another; `LocksInv` says that a job which runs
has its target's, because it looks for it as it begins. `PlanInv` says how a job's
steps stand: those behind are done, at most one runs, those ahead wait. `RevertInv` follows a
revert step by step against what the job it reverts has recorded; that job is over, so nobody
writes it. `WayBackAlways` allows any number of
crashes and targets whose migrations are behind: when a redeploy stops, whatever stopped it, the
data it backs up and the recorded `.env` are what was there before, and unless the manager was
killed it can be reverted. `WayInv` says that nothing has changed while a step that prepares is
ahead (`AsBefore`), and that once such a step is behind, the safety backup and the recorded `.env`
are what was there before (`KeptData`).

**`HostKeys`**: `PinnedWasConfirmedAlways`, `ConnectedWasConfirmedAlways` and
`ApprovedInTimeAlways`, for any number of calls, people, ids, addresses and keys. Copies of an
entry are shown, decided on and stored back while others do the same; `PinInv` says that every
copy is of what was asked for under its id (`AsAsked`), which never changes, and that an entry
or an addition counts as confirmed only when somebody said so. That one person decides for all
(`DecidedOnce`) and that a key is pinned once do not hold for several people and calls.

**`Tickets`**: `OneDownloadAlways`, for any accounts, finitely many requests and any files.
`PaidInv` keeps the books: for an account and a guarded file, the downloads served, those that
may go on and the tickets that are left are together no more than the passwords given. A request
between its `get` and its `delete` holds nothing: the ticket it saw is still that ticket or gone.

### Only model-checked

* **Liveness**: `LeasedEventEnds`, `LeasesAreFreed`, `LeftoversAreCleared`, `DueIsServed` and
  `JobsEnd`. The prover has no rule for fairness or `ENABLED`.
* **`NobodyStuck`** of `Redeploy`, which is about what is enabled.
* **The other modules of the two sums**, and the other properties of the nine proved about. The
  sums' own invariants say of small instances that each of their components keeps its promises;
  the theorems are about those components.

## Not modelled

* **Presentation.** The browser application, listings, reports, progress, the dashboard, logs
  and the console read and print. The terminal's own commands (`terminal/`) and the MCP tools
  other than those for host keys parse their input and call what is modelled.
* **Functions of bytes.** Ciphers, key derivation, compression, JSON, and the arithmetic of
  Reed-Solomon; their promises are in `StreamContainer`, `OldBackup` and `SealedFile`. A writer
  of the first format: only tests have one (`tests/format1.py`). The isolation forest: its score
  is an input.
* **Encodings.** Connection codes, settings, sealed fields, the archive of an export.
* **Command lines.** How a remote command is put together, and how what it prints is parsed:
  the models have the facts it yields.
* **The copy that a restore job puts on the server.** `ManagerJobs` has the job, not the upload
  and the removal of the file it restores from. The lock's 25 hours count from the queueing of
  a job; `Prompt` of `ManagerJobs` keeps a live job within them, the time in the queue included.
* **The import of old installations**, the foreground loop of `dbs schedule`, and health
  reports.
* **Libraries.** Django's sessions and password hashes, paramiko, and the databases are what
  the code relies on: single statements and transactions are atomic, row locks hold.

`PROJECT.json` gives the reason for each component that is not or only partly modelled.

## Plan

The next theorems, in this order:

1. `ErrorsSurface` of `Pipeline`: a block that ends without an error had none.
2. `OneAtATime` of `RemoteCommand`, and the copies of `RemoteFiles`.
3. `OldDataIsKept` of `Relocation`, for chains of any length.
4. `CollectedOnce` of `Collection`, whose retries `StoredFiles` does not have.
