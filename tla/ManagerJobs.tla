----------------------------- MODULE ManagerJobs -----------------------------
(***************************************************************************)
(* The manager's backup and restore jobs: JobQueue, BackupRunService,      *)
(* TakeLock, the job leases of activity/job_leases.py, and recovery.py.    *)
(* A job is queued together with its application's take lock (or, when the *)
(* scheduler dispatches a plan, before it), sent to the thread pool of the *)
(* running instance, run, closed, and its lock given back.  An instance    *)
(* may crash; or it is stopped, and its pool drains while the next         *)
(* instance already starts with recover().  Every quarter of an hour the   *)
(* serving instance sweeps.  Recovery and sweep are the janitor's steps    *)
(* below, between which jobs go on.                                        *)
(*                                                                         *)
(* The take lock is a row of the cache table in the same database, so it   *)
(* commits together with the event that is queued in its transaction.      *)
(***************************************************************************)
EXTENDS Naturals

CONSTANTS
    Jobs,         \* takes, plan runs and restores
    Dispatched,   \* the plan runs that the scheduler queues
    Apps,         \* applications
    AppOf,        \* AppOf[j]: the application of job j
    NoJob,        \* nobody's: a free lock, no lock in hand
    Limit,        \* BACKUP_TASK_TIME_LIMIT, in ticks
    Slack,        \* STALE_AFTER_LIMIT, in ticks
    MaxStarts     \* bound: instances that are started one after the other

ASSUME ManagerAssumption ==
    /\ Dispatched \subseteq Jobs
    /\ AppOf \in [Jobs -> Apps]
    /\ NoJob \notin Jobs \cup Apps
    /\ Limit \in Nat \ {0, 1}
    /\ Slack \in Nat \ {0}
    /\ MaxStarts \in Nat \ {0}

Instances == 1 .. MaxStarts

VARIABLES
    event,    \* event[j]: the status of the job's row, interrupted apart from failed
    step,     \* step[j]: where the job's thread is
    owner,    \* owner[j]: the instance whose thread that is, 0 before it is queued
    lock,     \* lock[a]: the job in the take lock's row and the time it has left
    lease,    \* lease[j]: what is left of "dbs.manager.job:<event>", 0 without one
    since,    \* since[j]: the time since the row was created, or started
    alive,    \* alive[i]: instance i is a process
    server,   \* the newest instance, and whether it recovers, serves or is down
    janitor,  \* recover() or sweep(): its step and what it has read
    shown,    \* shown[a]: the last outcome that the application's plan shows
    swept     \* history: swept[a]: the janitor freed a's lock under a job with a live thread

vars == <<event, step, owner, lock, lease, since, alive, server, janitor, shown,
          swept>>

UNFINISHED == {"queued", "running"}
FINISHED == {"succeeded", "failed", "interrupted"}
Stale == Limit + Slack + 1

Threads == {"lock", "send", "pool", "lease", "hold", "work", "release", "delete",
            "remember", "unsend", "undelete"}
Idle == [step |-> "idle", keep |-> {}, spared |-> {}, unfinished |-> {}, todo |-> {},
         victim |-> NoJob]

Statuses == {"none"} \cup UNFINISHED \cup FINISHED
Steps == Threads \cup {"new", "over", "dead"}
Locks == [job : Jobs \cup {NoJob}, left : 0 .. Limit]
Servers == [inst : Instances, phase : {"down", "recovering", "serving"}]
Janitors == [step : {"idle", "keep", "stale", "interrupt", "read", "scan", "delete"},
             keep : SUBSET Jobs, spared : SUBSET Jobs, unfinished : SUBSET Jobs,
             todo : SUBSET Apps, victim : Apps \cup {NoJob}]

TypeOK ==
    /\ event \in [Jobs -> Statuses]
    /\ step \in [Jobs -> Steps]
    /\ owner \in [Jobs -> 0 .. MaxStarts]
    /\ lock \in [Apps -> Locks]
    /\ lease \in [Jobs -> 0 .. Limit]
    /\ since \in [Jobs -> 0 .. Stale]
    /\ alive \in [Instances -> BOOLEAN]
    /\ server \in Servers
    /\ janitor \in Janitors
    /\ shown \in [Apps -> {"none"} \cup FINISHED]
    /\ swept \in [Apps -> BOOLEAN]

Free == [job |-> NoJob, left |-> 0]

Init ==
    /\ event = [j \in Jobs |-> "none"]
    /\ step = [j \in Jobs |-> "new"]
    /\ owner = [j \in Jobs |-> 0]
    /\ lock = [a \in Apps |-> Free]
    /\ lease = [j \in Jobs |-> 0]
    /\ since = [j \in Jobs |-> 0]
    /\ alive = [i \in Instances |-> i = 1]
    /\ server = [inst |-> 1, phase |-> "serving"]
    /\ janitor = Idle
    /\ shown = [a \in Apps |-> "none"]
    /\ swept = [a \in Apps |-> FALSE]

Serving == server.phase = "serving"
Busy(j) == step[j] \in Threads
Goto(j, s) == step' = [step EXCEPT ![j] = s]

\* audit._close: only an unfinished row takes an outcome, and its age is over.
Close(j, status) ==
    /\ event' = [event EXCEPT ![j] = IF @ \in UNFINISHED THEN status ELSE @]
    /\ since' = [since EXCEPT ![j] = 0]

\* Mutant: cache.set in place of cache.add.
AcquireAny(j, settling) == ~ settling

\* TakeLock.acquire: cache.add, which an unexpired row refuses; so does a
\* server that is settling, whether the lock is free or not.
Acquire(j, settling) == ~ settling /\ lock[AppOf[j]].job = NoJob
Locked(j) == [lock EXCEPT ![AppOf[j]] = [job |-> j, left |-> Limit]]

-----------------------------------------------------------------------------
(* Queueing a job. *)

Create(j) ==
    /\ Serving
    /\ step[j] = "new"
    /\ event' = [event EXCEPT ![j] = "queued"]
    /\ owner' = [owner EXCEPT ![j] = server.inst]

\* queue_backup: the row and the lock in one transaction, or neither.
Request(j) ==
    /\ j \notin Dispatched
    /\ Create(j)
    /\ Acquire(j, FALSE)
    /\ lock' = Locked(j)
    /\ Goto(j, "send")
    /\ UNCHANGED <<lease, since, alive, server, janitor, shown, swept>>

\* dispatch_due queues the run of a due plan and moves the plan on ...
Dispatch(j) ==
    /\ j \in Dispatched
    /\ Create(j)
    /\ Goto(j, "lock")
    /\ UNCHANGED <<lock, lease, since, alive, server, janitor, shown, swept>>

\* ... and takes the lock once that is committed; a refusal fails the job.
DispatchLocks(j) ==
    /\ step[j] = "lock"
    /\ \E settling \in BOOLEAN :
         IF Acquire(j, settling)
         THEN /\ lock' = Locked(j)
              /\ Goto(j, "send")
              /\ UNCHANGED <<event, since>>
         ELSE /\ Close(j, "failed")
              /\ Goto(j, "remember")
              /\ UNCHANGED lock
    /\ UNCHANGED <<owner, lease, alive, server, janitor, shown, swept>>

\* Submitting to the pool; when that raises the job fails and its lock goes.
Send(j) ==
    /\ step[j] = "send"
    /\ Goto(j, "pool")
    /\ UNCHANGED <<event, owner, lock, lease, since, alive, server, janitor, shown, swept>>

SendFails(j) ==
    /\ step[j] = "send"
    /\ Close(j, "failed")
    /\ Goto(j, "unsend")
    /\ UNCHANGED <<owner, lock, lease, alive, server, janitor, shown, swept>>

-----------------------------------------------------------------------------
(* Running it: BackupRunService.take, run_plan and restore. *)

\* audit.start; a row that was interrupted meanwhile ends the job here.
Begin(j) ==
    /\ step[j] = "pool"
    /\ IF event[j] \in UNFINISHED
       THEN /\ event' = [event EXCEPT ![j] = "running"]
            /\ since' = [since EXCEPT ![j] = 0]
            /\ Goto(j, "lease")
       ELSE /\ Goto(j, "over")
            /\ UNCHANGED <<event, since>>
    /\ UNCHANGED <<owner, lock, lease, alive, server, janitor, shown, swept>>

\* Mutant: the lease outlasts the lock.
TakeLeaseLonger(j) ==
    /\ step[j] = "lease"
    /\ lease' = [lease EXCEPT ![j] = Limit + Slack]
    /\ Goto(j, "hold")
    /\ UNCHANGED <<event, owner, lock, since, alive, server, janitor, shown, swept>>

\* job_leases.hold
TakeLease(j) ==
    /\ step[j] = "lease"
    /\ lease' = [lease EXCEPT ![j] = Limit]
    /\ Goto(j, "hold")
    /\ UNCHANGED <<event, owner, lock, since, alive, server, janitor, shown, swept>>

\* TakeLock.hold: take the lock or find it one's own, else BackupRunning.
Hold(j) ==
    /\ step[j] = "hold"
    /\ \E settling \in BOOLEAN :
         \/ /\ Acquire(j, settling)
            /\ lock' = Locked(j)
            /\ Goto(j, "work")
            /\ UNCHANGED <<event, lease, since>>
         \/ /\ ~ Acquire(j, settling) /\ lock[AppOf[j]].job = j
            /\ Goto(j, "work")
            /\ UNCHANGED <<event, lock, lease, since>>
         \/ /\ ~ Acquire(j, settling) /\ lock[AppOf[j]].job # j
            /\ Close(j, "failed")
            /\ lease' = [lease EXCEPT ![j] = 0]
            /\ Goto(j, "release")
            /\ UNCHANGED lock
    /\ UNCHANGED <<owner, alive, server, janitor, shown, swept>>

\* Mutant: a failure forgets the lock.
FinishKeeps(j) ==
    /\ step[j] = "work"
    /\ Close(j, "failed")
    /\ lease' = [lease EXCEPT ![j] = 0]
    /\ Goto(j, "over")
    /\ UNCHANGED <<owner, lock, alive, server, janitor, shown, swept>>

\* The backup or restore ends, well or not: jobs.succeed, jobs.fail.
Finish(j) ==
    /\ step[j] = "work"
    /\ \E status \in {"succeeded", "failed"} : Close(j, status)
    /\ lease' = [lease EXCEPT ![j] = 0]
    /\ Goto(j, "release")
    /\ UNCHANGED <<owner, lock, alive, server, janitor, shown, swept>>

\* After its release a run of a plan goes on to tell the plan.
Released(j) == IF j \in Dispatched /\ step[j] \in {"release", "delete"} THEN "remember" ELSE "over"

\* TakeLock.release reads the holder, and deletes the row in a statement of its own.
ReleaseReads(j) ==
    /\ step[j] \in {"release", "unsend"}
    /\ Goto(j, IF lock[AppOf[j]].job # j THEN Released(j)
               ELSE IF step[j] = "release" THEN "delete" ELSE "undelete")
    /\ UNCHANGED <<event, owner, lock, lease, since, alive, server, janitor, shown, swept>>

ReleaseDeletes(j) ==
    /\ step[j] \in {"delete", "undelete"}
    /\ lock' = [lock EXCEPT ![AppOf[j]] = Free]
    /\ Goto(j, Released(j))
    /\ UNCHANGED <<event, owner, lease, since, alive, server, janitor, shown, swept>>

\* last_run: the plan takes over the status of the row.
Remember(j) ==
    /\ step[j] = "remember"
    /\ shown' = [shown EXCEPT ![AppOf[j]] = event[j]]
    /\ Goto(j, "over")
    /\ UNCHANGED <<event, owner, lock, lease, since, alive, server, janitor, swept>>

-----------------------------------------------------------------------------
(* Instances. *)

\* The instance that serves, or one that still drains, dies with its threads.
Crash(i) ==
    /\ alive[i]
    /\ alive' = [alive EXCEPT ![i] = FALSE]
    /\ step' = [j \in Jobs |-> IF Busy(j) /\ owner[j] = i THEN "dead" ELSE step[j]]
    /\ IF server.inst = i /\ server.phase # "down"
       THEN server' = [server EXCEPT !.phase = "down"] /\ janitor' = Idle
       ELSE UNCHANGED <<server, janitor>>
    /\ UNCHANGED <<event, owner, lock, lease, since, shown, swept>>

\* Stopped: the instance lease is freed and the pool is left to drain.
Stop ==
    /\ Serving
    /\ janitor = Idle
    /\ server' = [server EXCEPT !.phase = "down"]
    /\ UNCHANGED <<event, step, owner, lock, lease, since, alive, janitor, shown, swept>>

\* The process ends with its last thread.
Exit(i) ==
    /\ alive[i]
    /\ server.inst > i \/ server.phase = "down"
    /\ \A j \in Jobs : Busy(j) => owner[j] # i
    /\ alive' = [alive EXCEPT ![i] = FALSE]
    /\ UNCHANGED <<event, step, owner, lock, lease, since, server, janitor, shown, swept>>

Restart ==
    /\ server.phase = "down"
    /\ server.inst < MaxStarts
    /\ server' = [inst |-> server.inst + 1, phase |-> "recovering"]
    /\ alive' = [alive EXCEPT ![server.inst + 1] = TRUE]
    /\ janitor' = [Idle EXCEPT !.step = "keep"]
    /\ UNCHANGED <<event, step, owner, lock, lease, since, shown, swept>>

-----------------------------------------------------------------------------
(* The janitor: recover() at the start of an instance, sweep() while it      *)
(* serves.                                                                   *)

SweepBegins ==
    /\ Serving
    /\ janitor.step = "idle"
    /\ janitor' = [janitor EXCEPT !.step = "stale"]
    /\ UNCHANGED <<event, step, owner, lock, lease, since, alive, server, shown, swept>>

Working(j) == step[j] = "work"

\* Mutant: every lease is taken for one that a dead process left.
LiveNone(known) == {}

\* job_leases.live: unexpired, and not of a process of this host that is gone;
\* of another host, or a process number used again, nobody knows.
LiveLeases(known) == {j \in Jobs : lease[j] > 0 /\ (alive[owner[j]] \/ ~ known)}

\* interrupt() first asks which leases are live ...
RecoverReads ==
    /\ janitor.step = "keep"
    /\ \E known \in BOOLEAN :
         janitor' = [janitor EXCEPT !.step = "interrupt", !.keep = LiveLeases(known),
                                    !.spared = {j \in Jobs : Working(j)}]
    /\ UNCHANGED <<event, step, owner, lock, lease, since, alive, server, shown, swept>>

Interrupted(S) ==
    /\ event' = [j \in Jobs |-> IF j \in S /\ event[j] \in UNFINISHED THEN "interrupted"
                                ELSE event[j]]
    /\ since' = [j \in Jobs |-> IF j \in S THEN 0 ELSE since[j]]

\* ... and then ends every other job that is not finished.
RecoverInterrupts ==
    /\ janitor.step = "interrupt"
    /\ Interrupted(Jobs \ janitor.keep)
    /\ janitor' = [Idle EXCEPT !.step = "read"]
    /\ UNCHANGED <<step, owner, lock, lease, alive, server, shown, swept>>

\* Mutant: the sweep ends what waits and forgets what runs.
SweepInterruptsQueued ==
    /\ janitor.step = "stale"
    /\ Interrupted({j \in Jobs : event[j] = "queued" /\ since[j] = Stale})
    /\ janitor' = [Idle EXCEPT !.step = "read"]
    /\ UNCHANGED <<step, owner, lock, lease, alive, server, shown, swept>>

\* sweep_stale_jobs: what was queued or started longer ago than any job lasts;
\* a lease taken since then, and unexpired, would keep it, and no job has one.
SweepInterrupts ==
    /\ janitor.step = "stale"
    /\ Interrupted({j \in Jobs : event[j] \in UNFINISHED /\ since[j] = Stale})
    /\ janitor' = [Idle EXCEPT !.step = "read"]
    /\ UNCHANGED <<step, owner, lock, lease, alive, server, shown, swept>>

\* release_abandoned_locks reads the unfinished jobs, once ...
ReadUnfinished ==
    /\ janitor.step = "read"
    /\ janitor' = [Idle EXCEPT !.step = "scan", !.todo = Apps,
                               !.unfinished = {j \in Jobs : event[j] \in UNFINISHED}]
    /\ UNCHANGED <<event, step, owner, lock, lease, since, alive, server, shown, swept>>

\* ... and looks at the holder of every application's lock.
Abandoned(a) == lock[a].job \in Jobs \ janitor.unfinished

Scan(a) ==
    /\ janitor.step = "scan" /\ a \in janitor.todo
    /\ janitor' = [janitor EXCEPT !.todo = @ \ {a},
                                  !.step = IF Abandoned(a) THEN "delete" ELSE "scan",
                                  !.victim = IF Abandoned(a) THEN a ELSE NoJob]
    /\ UNCHANGED <<event, step, owner, lock, lease, since, alive, server, shown, swept>>

\* History: a live thread has this lock, or is about to delete it.
StillWanted(a) ==
    \E j \in Jobs : Busy(j) /\ AppOf[j] = a /\ (lock[a].job = j \/ step[j] \in {"delete", "undelete"})

JanitorDeletes ==
    /\ janitor.step = "delete"
    /\ lock' = [lock EXCEPT ![janitor.victim] = Free]
    /\ janitor' = [janitor EXCEPT !.step = "scan", !.victim = NoJob]
    /\ swept' = [swept EXCEPT ![janitor.victim] = @ \/ StillWanted(janitor.victim)]
    /\ UNCHANGED <<event, step, owner, lease, since, alive, server, shown>>

\* After recover() the instance serves.
JanitorEnds ==
    /\ janitor.step = "scan" /\ janitor.todo = {}
    /\ janitor' = Idle
    /\ server' = [server EXCEPT !.phase = "serving"]
    /\ UNCHANGED <<event, step, owner, lock, lease, since, alive, shown, swept>>

-----------------------------------------------------------------------------
\* BACKUP_TOTAL_TIMEOUT ends a live job before its lock, lease or age are over.
Prompt(j) ==
    Busy(j) =>
        /\ lock[AppOf[j]].job = j => lock[AppOf[j]].left > 1
        /\ lease[j] # 1
        /\ since[j] < Limit

Less(n) == IF n > 0 THEN n - 1 ELSE 0

\* Time runs in steps of hours: a statement and the next are not that far
\* apart, so the janitor and a release are through before it moves on.
Tick ==
    /\ \A j \in Jobs : Prompt(j)
    /\ janitor = Idle /\ \A j \in Jobs : step[j] \notin {"delete", "undelete"}
    /\ lock' = [a \in Apps |-> IF lock[a].left > 1 THEN [lock[a] EXCEPT !.left = @ - 1] ELSE Free]
    /\ lease' = [j \in Jobs |-> Less(lease[j])]
    /\ since' = [j \in Jobs |->
                   IF event[j] \in UNFINISHED /\ since[j] < Stale THEN since[j] + 1 ELSE since[j]]
    /\ <<lock, lease, since>>' # <<lock, lease, since>>
    /\ UNCHANGED <<event, step, owner, alive, server, janitor, shown, swept>>

Queue(j) == Request(j) \/ Dispatch(j)

Run(j) ==
    \/ DispatchLocks(j) \/ Send(j) \/ SendFails(j) \/ Begin(j) \/ TakeLease(j)
    \/ Hold(j) \/ Finish(j) \/ ReleaseReads(j) \/ ReleaseDeletes(j)
    \/ Remember(j)

Janitor ==
    \/ RecoverReads \/ RecoverInterrupts \/ SweepInterrupts \/ ReadUnfinished
    \/ (\E a \in Apps : Scan(a)) \/ JanitorDeletes \/ JanitorEnds

Next ==
    \/ \E j \in Jobs : Queue(j) \/ Run(j)
    \/ \E i \in Instances : Crash(i) \/ Exit(i)
    \/ Stop \/ Restart
    \/ SweepBegins \/ Janitor \/ Tick

(* Pool threads and the janitor go on, the sweep is due every quarter of an  *)
(* hour, and time passes.  Whoever runs the manager need not start it again: *)
(* the properties of an instance that serves say so themselves.              *)
Fairness ==
    /\ \A j \in Jobs : WF_vars(Run(j))
    /\ WF_vars(SweepBegins)
    /\ WF_vars(Janitor)
    /\ SF_vars(Tick)

Spec == Init /\ [][Next]_vars /\ Fairness

-----------------------------------------------------------------------------
(* Properties *)

(* "A backup or restore of this application is already queued or running"    *)
(* (BackupRunning): while a job works, no other job of its application does. *)
OneRunPerApplication ==
    \A i, j \in Jobs : Working(i) /\ Working(j) /\ AppOf[i] = AppOf[j] => i = j

(* The same as far as the jobs themselves, crashes, restarts and draining    *)
(* instances go: a job that works has the lock, and so works alone, unless   *)
(* the janitor freed that lock under a job of the application that has a     *)
(* live thread.                                                              *)
WorkersHoldTheLock ==
    \A j \in Jobs : Working(j) => lock[AppOf[j]].job = j \/ swept[AppOf[j]]

(* recover() of the next instance leaves alone what a stopped one is still   *)
(* working on, and a sweep never ends a job that a live thread works on.     *)
TheLivingAreSpared ==
    [][\A j \in Jobs :
         event[j] \in UNFINISHED /\ event'[j] = "interrupted" =>
            /\ j \notin janitor.spared
            /\ janitor.step = "stale" => ~ Busy(j)]_vars

(* A job that came to an end in its own thread has given its lock back, on   *)
(* every path, unless it was interrupted while it waited in the pool: then   *)
(* the lock is left to the janitor.                                          *)
EndedJobsFreeTheirLock ==
    \A j \in Jobs :
        step[j] = "over" /\ event[j] # "interrupted" => lock[AppOf[j]].job # j

(* No job stays queued or running for ever on an instance that serves: its   *)
(* thread, recover() or, when its process is on a host that is gone, a sweep *)
(* ends it.                                                                  *)
JobsEnd ==
    \A j \in Jobs :
        (event[j] \in UNFINISHED) ~> (event[j] \in FINISHED \/ server.phase = "down")

-----------------------------------------------------------------------------
(* The inductive invariant behind TypeOK and WorkersHoldTheLock.             *)

\* A thread only runs for a job whose row exists ...
QueuedHaveRows == \A j \in Jobs : step[j] # "new" => event[j] # "none"

\* ... and releases the lock, or tells the plan, once the row is finished.
Closing == {"release", "delete", "remember", "unsend", "undelete"}
ClosingHaveEnded == \A j \in Jobs : step[j] \in Closing => event[j] \in FINISHED

\* Whoever works, or has found its lock and is about to delete it, holds it.
HoldersHold ==
    \A j \in Jobs :
        step[j] \in {"work", "delete", "undelete"} => lock[AppOf[j]].job = j \/ swept[AppOf[j]]

JobInv == TypeOK /\ QueuedHaveRows /\ ClosingHaveEnded
LockInv == JobInv /\ HoldersHold

(* ... and the one behind EndedJobsFreeTheirLock.                            *)

\* Only recovery or a sweep ends a job that waits for its thread ...
WaitingAreUnfinished ==
    \A j \in Jobs : step[j] \in {"lock", "send", "pool"} => event[j] \in UNFINISHED \cup {"interrupted"}

\* ... and nobody changes the outcome of one whose thread is through.
OverHaveEnded == \A j \in Jobs : step[j] = "over" => event[j] \in FINISHED

\* Before a job takes the lock, and once its thread has released it, the lock is not the job's.
LocklessHoldNothing ==
    \A j \in Jobs : step[j] \in {"new", "lock", "remember"} => lock[AppOf[j]].job # j

FreeInv ==
    /\ JobInv
    /\ WaitingAreUnfinished /\ OverHaveEnded
    /\ LocklessHoldNothing /\ EndedJobsFreeTheirLock

(* ... and the one behind TheLivingAreSpared.                                *)

\* Threads run in live processes, and the serving instance is one of them ...
BusyAreAlive == \A j \in Jobs : Busy(j) => owner[j] \in Instances /\ alive[owner[j]]
ServerIsAlive == server.phase # "down" => alive[server.inst]
JanitorServes == janitor.step # "idle" => server.phase # "down"

\* ... whoever works has an unexpired job lease ...
WorkersAreLeased == \A j \in Jobs : step[j] \in {"hold", "work"} => lease[j] > 0

\* ... and no job with a thread gets old enough to be swept.
NewAreUnwritten == \A j \in Jobs : step[j] = "new" => event[j] = "none" /\ since[j] = 0
BusyAreYoung == \A j \in Jobs : Busy(j) => since[j] <= Limit

\* What recover() has read includes the leases of all that worked then.
SparedAreKept ==
    IF janitor.step = "interrupt" THEN janitor.spared \subseteq janitor.keep
    ELSE janitor.spared = {}

LivingInv ==
    /\ JobInv
    /\ BusyAreAlive /\ ServerIsAlive /\ JanitorServes /\ WorkersAreLeased
    /\ NewAreUnwritten /\ BusyAreYoung /\ SparedAreKept
=============================================================================
