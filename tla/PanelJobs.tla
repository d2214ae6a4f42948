------------------------------ MODULE PanelJobs ------------------------------
(***************************************************************************)
(* The jobs of the admin panel (dbs/jobs.py, dbs/job_process.py,           *)
(* dbs/leases.py and the part of dbs/schedule_runner.py that runs one      *)
(* cycle).  A job is one attempt to back up or to restore: one Runner with *)
(* an owner of its own, at most one audit event, one job lease and one     *)
(* file name.  A web worker takes the runner lease and starts a child      *)
(* process; the child does the work, renews both leases and cleans up; a   *)
(* supervisor thread of the worker settles what a dead child left behind;  *)
(* recover() ends the events of jobs whose lease ran out.  Workers and     *)
(* children may die between any two steps.                                 *)
(*                                                                         *)
(* A lease is modelled by the time it still has: 0 is expired.             *)
(***************************************************************************)
EXTENDS Naturals

CONSTANTS
    Jobs,        \* attempts at a backup or a restore
    Scheduled,   \* the ones the schedule starts (run_due); the rest come from the panel
    Restores,    \* panel restores of an uploaded file
    Threads,     \* the ones run with DBS_JOB_PROCESS = False, in a thread of the worker
    Ticker,      \* a scheduler tick or a panel page that calls recover()
    NoOne,       \* no owner
    TTL,         \* LEASE_SECONDS
    Gap          \* the longest a live process leaves a lease without renewing it

ASSUME JobsAssumption ==
    /\ Scheduled \subseteq Jobs
    /\ Restores \subseteq Jobs \ Scheduled
    /\ Threads \subseteq Jobs
    /\ Ticker \notin Jobs
    /\ NoOne \notin Jobs
    /\ TTL \in Nat \ {0}
    /\ Gap \in Nat

VARIABLES
    pc,       \* pc[j]: the next step of the job's own line of control
    sup,      \* sup[j]: the thread that supervises j's child process
    event,    \* event[j]: the status of j's audit event
    lease,    \* lease[j]: what is left of the lease "dbs.job:<event>"
    runner,   \* the lease "dbs.runner": its owner and what is left of it
    disk,     \* disk[j]: the files of j that exist
    seen,     \* seen[p]: the expired job leases recover() has read in process p
    breach,   \* breach[j]: why the watchdog thread of j's child is stopping it
    refused   \* history: the jobs whose outcome the database did not take

vars == <<pc, sup, event, lease, runner, disk, seen, breach, refused>>

NoLease == TTL + 1

Unfinished == {"running"}
Finished == {"succeeded", "failed", "interrupted"}

\* The steps taken while the runner lease is held.
Held == {"reserve", "record", "lease", "spawn", "boot", "write", "verify",
         "publish", "link", "finish", "closeOk", "closeBad", "prune", "end"}
\* The steps taken while the job lease is held.
Leased == {"spawn", "boot", "write", "verify", "publish", "link", "finish",
           "closeOk", "closeBad"}
\* The steps a panel job takes in its child; a scheduled one begins its event there too.
ChildSteps == {"boot", "write", "verify", "publish", "link", "finish", "closeOk",
               "closeBad", "prune", "end"}
BeginSteps == {"reserve", "record", "lease"}
Ended == {"exit0", "exitN"}

Panel == Jobs \ Scheduled

Live(j) == pc[j] \in Held
HasJobLease(j) == pc[j] \in (IF j \in Scheduled THEN Leased \ {"spawn", "boot"} ELSE Leased)
InChild(j) == pc[j] \in ChildSteps \cup (IF j \in Scheduled THEN BeginSteps ELSE {})
Isolated(j) == j \notin Threads

TypeOK ==
    /\ pc \in [Jobs -> Held \cup Ended \cup {"idle", "recover", "acquire"}]
    /\ sup \in [Jobs -> {"none", "watching", "cleaning", "done", "dead"}]
    /\ event \in [Jobs -> {"none"} \cup Unfinished \cup Finished]
    /\ lease \in [Jobs -> 0 .. NoLease]
    /\ runner \in [owner : Jobs \cup {NoOne}, left : 0 .. TTL]
    /\ disk \in [Jobs -> SUBSET {"reservation", "partial", "backup", "upload"}]
    /\ seen \in [Jobs \cup {Ticker} -> SUBSET Jobs]
    /\ breach \in [Jobs -> {"no", "limit", "lost"}]
    /\ refused \subseteq Jobs

Init ==
    /\ pc = [j \in Jobs |-> "idle"]
    /\ sup = [j \in Jobs |-> "none"]
    /\ event = [j \in Jobs |-> "none"]
    /\ lease = [j \in Jobs |-> NoLease]
    /\ runner = [owner |-> NoOne, left |-> 0]
    /\ disk = [j \in Jobs |-> IF j \in Restores THEN {"upload"} ELSE {}]
    /\ seen = [p \in Jobs \cup {Ticker} |-> {}]
    /\ breach = [j \in Jobs |-> "no"]
    /\ refused = {}

-----------------------------------------------------------------------------
(* The database operations that the steps below are made of. *)

\* Mutant: the filter on unfinished events is missing.
CloseAny(j, status) == [event EXCEPT ![j] = status]

\* audit._close: only an unfinished event takes an outcome.
Close(j, status) == [event EXCEPT ![j] = IF @ \in Unfinished THEN status ELSE @]

\* leases.release: only the owner's row is freed.
Release(j) == IF runner.owner = j THEN [owner |-> NoOne, left |-> 0] ELSE runner

\* Mutant: the row is taken whoever holds it.
AcquirableAny(j) == TRUE

\* leases.acquire: a row is taken when it has expired or is already the caller's.
Acquirable(j) == runner.left = 0 \/ runner.owner = j

\* The files one job may leave behind when it ends early.
Discard(j, files) == [disk EXCEPT ![j] = @ \ files]

\* discard_reservation of a panel backup, _remove(path) of an owned upload.
Leftover(j) == IF j \in Restores THEN {"upload"} ELSE {"reservation"}

Goto(j, step) == pc' = [pc EXCEPT ![j] = step]

\* main joins the watchdog thread, which ends the process once it has found a breach.
ExitCodes(j) == IF breach[j] = "no" THEN Ended ELSE {"exitN"}

-----------------------------------------------------------------------------
(* recover(): read the expired job leases, end their events, delete them. *)

\* Mutant: the expiry filter is missing.
ReadLeases(p) == seen' = [seen EXCEPT ![p] = {j \in Jobs : lease[j] # NoLease}]

\* Reading: the first query of recover().
ReadExpired(p) == seen' = [seen EXCEPT ![p] = {j \in Jobs : lease[j] = 0}]

\* Mutant: the leases are deleted and their events forgotten.
DeleteExpired(p) ==
    /\ event' = event
    /\ lease' = [j \in Jobs |-> IF j \in seen[p] /\ lease[j] = 0 THEN NoLease ELSE lease[j]]
    /\ seen' = [seen EXCEPT ![p] = {}]

\* audit.interrupt and the delete that follows it.  A lease renewed since it
\* was read is not deleted, but its event has been interrupted all the same.
EndExpired(p) ==
    /\ event' = [j \in Jobs |->
                   IF j \in seen[p] /\ event[j] \in Unfinished THEN "interrupted" ELSE event[j]]
    /\ lease' = [j \in Jobs |-> IF j \in seen[p] /\ lease[j] = 0 THEN NoLease ELSE lease[j]]
    /\ seen' = [seen EXCEPT ![p] = {}]

TickerReads ==
    /\ seen[Ticker] = {}
    /\ \E j \in Jobs : lease[j] = 0
    /\ ReadExpired(Ticker)
    /\ UNCHANGED <<pc, sup, event, lease, runner, disk, breach, refused>>

TickerRecovers ==
    /\ seen[Ticker] # {}
    /\ EndExpired(Ticker)
    /\ UNCHANGED <<pc, sup, runner, disk, breach, refused>>

\* Mutant: the pattern misses uploads.
SweepBackups(j) ==
    /\ \E files \in SUBSET (disk[j] \cap {"reservation", "partial"}) :
         /\ files # {}
         /\ pc[j] = "write" => "partial" \notin files
         /\ disk' = Discard(j, files)
    /\ UNCHANGED <<pc, sup, event, lease, runner, seen, breach, refused>>

\* sweep_leftovers: a partial that is no longer written, a reservation or an
\* upload an hour old, also one whose job is still running.
Sweep(j) ==
    /\ \E files \in SUBSET (disk[j] \cap {"reservation", "partial", "upload"}) :
         /\ files # {}
         /\ pc[j] = "write" => "partial" \notin files
         /\ disk' = Discard(j, files)
    /\ UNCHANGED <<pc, sup, event, lease, runner, seen, breach, refused>>

-----------------------------------------------------------------------------
(* Starting a job: start_backup, start_restore and run_due. *)

\* Runner.take begins with recover().
Ask(j) ==
    /\ pc[j] = "idle"
    /\ ReadExpired(j)
    /\ Goto(j, "recover")
    /\ UNCHANGED <<sup, event, lease, runner, disk, breach, refused>>

AskRecovers(j) ==
    /\ pc[j] = "recover"
    /\ EndExpired(j)
    /\ Goto(j, "acquire")
    /\ UNCHANGED <<sup, runner, disk, breach, refused>>

\* The step that follows take(): a panel backup reserves its name, a restore
\* records its event, the schedule starts its child.
AfterTake(j) ==
    IF j \in Scheduled THEN "spawn" ELSE IF j \in Restores THEN "record" ELSE "reserve"

Take(j) ==
    /\ pc[j] = "acquire"
    /\ Acquirable(j)
    /\ runner' = [owner |-> j, left |-> TTL]
    /\ Goto(j, AfterTake(j))
    /\ UNCHANGED <<sup, event, lease, disk, seen, breach, refused>>

\* Busy: nothing is recorded, and an owned upload is removed.
Busy(j) ==
    /\ pc[j] = "acquire"
    /\ ~ Acquirable(j)
    /\ Goto(j, "exit0")
    /\ disk' = Discard(j, {"upload"})
    /\ UNCHANGED <<sup, event, lease, runner, seen, breach, refused>>

\* reserve_backup_name creates the empty file with O_EXCL.
Reserve(j) ==
    /\ pc[j] = "reserve"
    /\ disk' = [disk EXCEPT ![j] = @ \cup {"reservation"}]
    /\ Goto(j, "record")
    /\ UNCHANGED <<sup, event, lease, runner, seen, breach, refused>>

\* An OSError is recorded as a refused job; a taken name records nothing.  The
\* panel frees the runner, a scheduled child exits and leaves that to its parent.
ReserveFails(j) ==
    /\ pc[j] = "reserve"
    /\ \E status \in {"none", "failed"} : event' = [event EXCEPT ![j] = status]
    /\ runner' = IF j \in Panel THEN Release(j) ELSE runner
    /\ \E step \in ExitCodes(j) : Goto(j, step)
    /\ UNCHANGED <<sup, lease, disk, seen, breach, refused>>

\* Job.begin records the event, and only then takes its lease.
Record(j) ==
    /\ pc[j] = "record"
    /\ event' = [event EXCEPT ![j] = "running"]
    /\ Goto(j, "lease")
    /\ UNCHANGED <<sup, lease, runner, disk, seen, breach, refused>>

TakeJobLease(j) ==
    /\ pc[j] = "lease"
    /\ lease' = [lease EXCEPT ![j] = TTL]
    /\ Goto(j, IF j \in Scheduled THEN "write" ELSE "spawn")
    /\ UNCHANGED <<sup, event, runner, disk, seen, breach, refused>>

\* A database error in Job.begin: the file and the runner are given back.
BeginFails(j) ==
    /\ pc[j] \in {"record", "lease"}
    /\ disk' = Discard(j, Leftover(j))
    /\ runner' = IF j \in Panel THEN Release(j) ELSE runner
    /\ \E step \in ExitCodes(j) : Goto(j, step)
    /\ UNCHANGED <<sup, event, lease, seen, breach, refused>>

\* job_process.Child, or a thread of this worker.
Spawn(j) ==
    /\ pc[j] = "spawn"
    /\ Goto(j, "boot")
    /\ sup' = [sup EXCEPT ![j] = IF Isolated(j) \/ j \in Scheduled THEN "watching" ELSE "none"]
    /\ UNCHANGED <<event, lease, runner, disk, seen, breach, refused>>

\* The child cannot be started and _start undoes everything; run_due frees the
\* runner then, and also when the schedule turns out not to be due after all.
SpawnFails(j) ==
    /\ pc[j] = "spawn"
    /\ event' = Close(j, "failed")
    /\ lease' = [lease EXCEPT ![j] = NoLease]
    /\ disk' = Discard(j, Leftover(j))
    /\ runner' = Release(j)
    /\ Goto(j, "exit0")
    /\ UNCHANGED <<sup, seen, breach, refused>>

-----------------------------------------------------------------------------
(* The work itself: _take_backup, _restore and run_cycle, in the child. *)

\* django.setup, the watchdog and the adoption of the worker's leases.
Boot(j) ==
    /\ pc[j] = "boot"
    /\ Goto(j, IF j \in Scheduled THEN "reserve" ELSE "write")
    /\ UNCHANGED <<sup, event, lease, runner, disk, seen, breach, refused>>

\* Mutant: a renewal adds to the time that is left.
BeatExtends(j) ==
    /\ pc[j] \in {"write", "verify", "publish", "link", "finish"}
    /\ lease' = IF lease[j] # NoLease THEN [lease EXCEPT ![j] = @ + TTL] ELSE lease
    /\ runner' = IF runner.owner = j THEN [runner EXCEPT !.left = @ + TTL] ELSE runner
    /\ UNCHANGED <<pc, sup, event, disk, seen, breach, refused>>

\* Mutant: the heartbeat outlives the work it was started for.
BeatForever(j) ==
    /\ pc[j] \notin {"idle", "recover", "acquire"}
    /\ lease' = IF lease[j] # NoLease THEN [lease EXCEPT ![j] = TTL] ELSE lease
    /\ runner' = IF runner.owner = j THEN [runner EXCEPT !.left = TTL] ELSE runner
    /\ UNCHANGED <<pc, sup, event, disk, seen, breach, refused>>

\* Heartbeat.beat: each of the two leases is renewed on its own, and a
\* database error on one is logged and passed over.
Beat(j) ==
    /\ pc[j] \in {"write", "verify", "publish", "link", "finish"}
    /\ \E names \in {{"job"}, {"runner"}, {"job", "runner"}} :
         /\ lease' = IF "job" \in names /\ lease[j] # NoLease
                     THEN [lease EXCEPT ![j] = TTL] ELSE lease
         /\ runner' = IF "runner" \in names /\ runner.owner = j
                      THEN [runner EXCEPT !.left = TTL] ELSE runner
    /\ UNCHANGED <<pc, sup, event, disk, seen, breach, refused>>

\* A backup goes to a partial beside its name; a restore loads its upload.
Write(j) ==
    /\ pc[j] = "write"
    /\ IF j \in Restores
       THEN /\ "upload" \in disk[j]
            /\ Goto(j, "finish")
            /\ disk' = disk
       ELSE /\ disk' = [disk EXCEPT ![j] = @ \cup {"partial"}]
            /\ Goto(j, "verify")
    /\ UNCHANGED <<sup, event, lease, runner, seen, breach, refused>>

\* Mutant: a verified partial never takes its name.
VerifyOnly(j) ==
    /\ pc[j] = "verify"
    /\ "partial" \in disk[j]
    /\ Goto(j, "finish")
    /\ UNCHANGED <<sup, event, lease, runner, disk, seen, breach, refused>>

\* verify_written reads the partial back before it may take the name.
Verify(j) ==
    /\ pc[j] = "verify"
    /\ "partial" \in disk[j]
    /\ Goto(j, "publish")
    /\ UNCHANGED <<sup, event, lease, runner, disk, seen, breach, refused>>

\* release_reservation: the name is nobody's for a moment.
GiveBack(j) ==
    /\ pc[j] = "publish"
    /\ disk' = Discard(j, {"reservation"})
    /\ Goto(j, "link")
    /\ UNCHANGED <<sup, event, lease, runner, seen, breach, refused>>

\* publish_new: os.link, which never replaces a file.
Publish(j) ==
    /\ pc[j] = "link"
    /\ "partial" \in disk[j]
    /\ disk' = [disk EXCEPT ![j] = @ \cup {"backup"}]
    /\ Goto(j, "finish")
    /\ UNCHANGED <<sup, event, lease, runner, seen, breach, refused>>

\* An exception anywhere in the tracked body: the partial goes, the event fails.
WorkFails(j) ==
    /\ pc[j] \in {"write", "verify", "publish", "link", "finish"}
    /\ disk' = Discard(j, {"partial"})
    /\ event' = Close(j, "failed")
    /\ Goto(j, "closeBad")
    /\ UNCHANGED <<sup, lease, runner, seen, breach, refused>>

\* The partial is unlinked, the backup recorded and the event succeeds.
Succeed(j) ==
    /\ pc[j] = "finish"
    /\ disk' = Discard(j, {"partial"})
    /\ event' = Close(j, "succeeded")
    /\ Goto(j, "closeOk")
    /\ UNCHANGED <<sup, lease, runner, seen, breach, refused>>

\* The database does not take the outcome: tracked() drops the lease all the same.
OutcomeRefused(j) ==
    /\ pc[j] \in {"write", "verify", "publish", "link", "finish"}
    /\ disk' = Discard(j, {"partial"})
    /\ refused' = refused \cup {j}
    /\ Goto(j, "closeBad")
    /\ UNCHANGED <<sup, event, lease, runner, seen, breach>>

\* Mutant: retention runs after a failure too.
ClosePrunes(j) ==
    /\ pc[j] \in {"closeOk", "closeBad"}
    /\ lease' = [lease EXCEPT ![j] = NoLease]
    /\ disk' = IF j \in Scheduled THEN Discard(j, {"reservation"}) ELSE disk
    /\ Goto(j, IF j \notin Restores THEN "prune" ELSE "end")
    /\ UNCHANGED <<sup, event, runner, seen, breach, refused>>

\* Job.close drops the lease; run_cycle discards its reservation at once.
CloseJob(j) ==
    /\ pc[j] \in {"closeOk", "closeBad"}
    /\ lease' = [lease EXCEPT ![j] = NoLease]
    /\ disk' = IF j \in Scheduled THEN Discard(j, {"reservation"}) ELSE disk
    /\ Goto(j, IF pc[j] = "closeOk" /\ j \notin Restores THEN "prune" ELSE "end")
    /\ UNCHANGED <<sup, event, runner, seen, breach, refused>>

\* keep_newest removes older backups; which ones is the matter of BackupFolder.
Prune(j) ==
    /\ pc[j] = "prune"
    /\ \E old \in SUBSET {i \in Jobs \ {j} : "backup" \in disk[i]} :
         disk' = [i \in Jobs |-> IF i \in old THEN disk[i] \ {"backup"} ELSE disk[i]]
    /\ Goto(j, "end")
    /\ UNCHANGED <<sup, event, lease, runner, seen, breach, refused>>

\* The end of the panel's work discards the file and frees the runner; a
\* scheduled child leaves the runner to its parent.
End(j) ==
    /\ pc[j] = "end"
    /\ IF j \in Panel
       THEN /\ disk' = Discard(j, Leftover(j))
            /\ runner' = Release(j)
       ELSE UNCHANGED <<disk, runner>>
    /\ \E step \in ExitCodes(j) : Goto(j, step)
    /\ breach' = [breach EXCEPT ![j] = "no"]
    /\ UNCHANGED <<sup, event, lease, seen, refused>>

-----------------------------------------------------------------------------
(* Failures: the watchdog, crashes, and the supervisor that settles them. *)

\* Mutant: the supervisor is told of no output.
NoOutputs(j) == {}

\* remove_partials, for the outputs the spec names: none for the schedule.
Outputs(j) == IF j \in Panel \ Restores THEN {"partial", "reservation"} ELSE {}

\* Limits._watch finds the time or the memory used up; _breach fails the event
\* while the main thread goes on.
BreachLimit(j) ==
    /\ Isolated(j) /\ InChild(j)
    /\ breach[j] = "no"
    /\ breach' = [breach EXCEPT ![j] = "limit"]
    /\ event' = IF lease[j] # NoLease THEN Close(j, "failed") ELSE event
    /\ UNCHANGED <<pc, sup, lease, runner, disk, seen, refused>>

\* Limits._lease_lost: the job lease is gone or has expired.  A scheduled job
\* names no lease in its spec and is not watched.
LeaseLost(j) ==
    /\ Isolated(j) /\ InChild(j) /\ j \in Panel
    /\ breach[j] = "no"
    /\ lease[j] \in {0, NoLease}
    /\ breach' = [breach EXCEPT ![j] = "lost"]
    /\ UNCHANGED <<pc, sup, event, lease, runner, disk, seen, refused>>

\* _breach removes the partials and ends the process at once.
BreachExit(j) ==
    /\ breach[j] # "no" /\ InChild(j)
    /\ disk' = Discard(j, Outputs(j))
    /\ Goto(j, "exitN")
    /\ breach' = [breach EXCEPT ![j] = "no"]
    /\ UNCHANGED <<sup, event, lease, runner, seen, refused>>

\* The process running the job's current step dies, whatever it was doing: out
\* of memory, killed by its parent past its limits, or with its host.
Die(j) ==
    /\ pc[j] \notin Ended \cup {"idle"}
    /\ Goto(j, "exitN")
    /\ sup' = [sup EXCEPT ![j] = IF ~ Isolated(j) /\ @ = "watching" THEN "dead" ELSE @]
    /\ seen' = [seen EXCEPT ![j] = {}]
    /\ breach' = [breach EXCEPT ![j] = "no"]
    /\ UNCHANGED <<event, lease, runner, disk, refused>>

\* The worker dies and its supervisor with it; the child is in a session of its
\* own and lives on.
SupervisorDies(j) ==
    /\ Isolated(j)
    /\ sup[j] \in {"watching", "cleaning"}
    /\ sup' = [sup EXCEPT ![j] = "dead"]
    /\ UNCHANGED <<pc, event, lease, runner, disk, seen, breach, refused>>

\* settle: fail what the owner's leases still name, clear its partials, free
\* its leases.  Without a child of its own run_due only frees the runner.
Settle(j) ==
    /\ sup[j] = "watching"
    /\ pc[j] \in Ended
    /\ IF Isolated(j)
       THEN /\ event' = IF pc[j] = "exitN" /\ lease[j] # NoLease THEN Close(j, "failed") ELSE event
            /\ disk' = IF pc[j] = "exitN" THEN Discard(j, Outputs(j)) ELSE disk
            /\ lease' = [lease EXCEPT ![j] = NoLease]
       ELSE UNCHANGED <<event, disk, lease>>
    /\ runner' = Release(j)
    /\ sup' = [sup EXCEPT ![j] = "cleaning"]
    /\ UNCHANGED <<pc, seen, breach, refused>>

\* supervise runs the cleanup the panel gave it.
Cleanup(j) ==
    /\ sup[j] = "cleaning"
    /\ disk' = IF j \in Panel THEN Discard(j, Leftover(j)) ELSE disk
    /\ sup' = [sup EXCEPT ![j] = "done"]
    /\ UNCHANGED <<pc, event, lease, runner, seen, breach, refused>>

-----------------------------------------------------------------------------
\* A live process renews or gives back what it holds before Gap has passed.
Prompt(j) ==
    /\ Live(j) /\ runner.owner = j => TTL - runner.left < Gap
    /\ HasJobLease(j) /\ lease[j] # NoLease => TTL - lease[j] < Gap

Tick ==
    /\ \A j \in Jobs : Prompt(j)
    /\ runner.left > 0 \/ \E j \in Jobs : lease[j] \in 1 .. TTL
    /\ runner' = [runner EXCEPT !.left = IF @ > 0 THEN @ - 1 ELSE 0]
    /\ lease' = [j \in Jobs |-> IF lease[j] \in 1 .. TTL THEN lease[j] - 1 ELSE lease[j]]
    /\ UNCHANGED <<pc, sup, event, disk, seen, breach, refused>>

Start(j) ==
    \/ Ask(j) \/ AskRecovers(j) \/ Take(j) \/ Busy(j)
    \/ Reserve(j) \/ ReserveFails(j) \/ Record(j) \/ TakeJobLease(j) \/ BeginFails(j)
    \/ Spawn(j) \/ SpawnFails(j)

Work(j) ==
    \/ Boot(j) \/ Write(j) \/ Verify(j) \/ GiveBack(j) \/ Publish(j) \/ WorkFails(j)
    \/ Succeed(j) \/ CloseJob(j) \/ Prune(j) \/ End(j)

Supervise(j) == Settle(j) \/ Cleanup(j)

Trouble(j) ==
    \/ OutcomeRefused(j) \/ BreachLimit(j) \/ LeaseLost(j) \/ BreachExit(j)
    \/ Die(j) \/ SupervisorDies(j)

Next ==
    \/ \E j \in Jobs : Start(j) \/ Work(j) \/ Beat(j) \/ Supervise(j) \/ Trouble(j) \/ Sweep(j)
    \/ TickerReads \/ TickerRecovers \/ Tick

Spec == Init /\ [][Next]_vars

(* Work that has begun goes on or fails (DBS_JOB_TIME_LIMIT bounds it), a     *)
(* supervisor thread wakes every second, a heartbeat every 30, a scheduler   *)
(* tick recovers and sweeps every minute, and time passes.  Nobody has to    *)
(* ask for a job, and nothing has to go wrong.                               *)
Fairness ==
    /\ \A j \in Jobs :
         /\ WF_vars(Start(j) /\ pc[j] # "idle")
         /\ WF_vars(Work(j))
         /\ WF_vars(Beat(j))
         /\ WF_vars(Supervise(j))
         /\ WF_vars(BreachExit(j))
         /\ WF_vars(Sweep(j))
    /\ WF_vars(TickerReads)
    /\ WF_vars(TickerRecovers)
    /\ WF_vars(Tick)

FairSpec == Spec /\ Fairness

-----------------------------------------------------------------------------
(* Properties *)

(* "Only one backup or restore runs at a time" (docs/panel.md): no two jobs  *)
(* are between taking and giving back the runner lease, whatever workers and *)
(* children die, as long as the live ones renew in time (Gap < TTL).         *)
OneAtATime == \A i, j \in Jobs : Live(i) /\ Live(j) => i = j

(* recover() marks as interrupted only jobs whose process is gone: a process *)
(* that still works never finds its own event ended by another one.          *)
RecoveryOnlyTouchesTheDead == \A j \in Jobs : event[j] = "interrupted" => ~ Live(j)

(* When the supervisor of a panel job is done, nothing of the job is left:   *)
(* its event has an outcome (unless the database refused it), its leases are *)
(* freed, and no partial, empty reservation or uploaded file stays behind.   *)
SettledJobIsClean ==
    \A j \in Panel : sup[j] = "done" =>
        /\ event[j] \in Finished \/ j \in refused
        /\ lease[j] = NoLease
        /\ runner.owner # j
        /\ disk[j] \cap {"partial", "reservation", "upload"} = {}

(* An outcome is written once: a late success, failure, breach, settlement   *)
(* or recovery never changes the status of an event that has ended.          *)
OutcomesAreFinal ==
    [][\A j \in Jobs : event[j] \in Finished => event'[j] = event[j]]_vars

(* A backup job succeeds only when its verified file has taken its name.     *)
SuccessIsPublished ==
    [][\A j \in Jobs \ Restores :
         event[j] # "succeeded" /\ event'[j] = "succeeded" => "backup" \in disk'[j]]_vars

(* "Older backups are never touched, and retention does not run after a      *)
(* failure" (docs/panel.md): a backup leaves the folder only in the pruning  *)
(* of a job that succeeded, or that its watchdog is stopping meanwhile.      *)
RetentionAfterSuccess ==
    [][\A i \in Jobs : "backup" \in disk[i] \ disk'[i] =>
         \E j \in Jobs \ {i} : pc[j] = "prune" /\ (event[j] = "succeeded" \/ breach[j] = "limit")]_vars

(* A job whose lease was taken never stays open: its own process, its        *)
(* supervisor or recover() gives its event an outcome, whatever dies, unless *)
(* the database refused the outcome that the job itself had for it.          *)
LeasedEventEnds ==
    \A j \in Jobs :
        (event[j] = "running" /\ lease[j] # NoLease) ~> (event[j] \in Finished \/ j \in refused)

(* The job page "refreshes every few seconds until the job ends"             *)
(* (docs/panel.md), so every event that is recorded as running should end.   *)
EveryEventEnds == \A j \in Jobs : event[j] = "running" ~> event[j] \in Finished

(* No job lease is stranded, and a dead holder of the runner lease blocks    *)
(* the next job only until the lease runs out.                               *)
LeasesAreFreed ==
    \A j \in Jobs :
        /\ lease[j] # NoLease ~> lease[j] = NoLease
        /\ runner.owner = j ~> (runner.owner # j \/ runner.left = 0)

(* What a job leaves in the backup folder when its process and its           *)
(* supervisor died is cleared by a later tick.                               *)
LeftoversAreCleared ==
    \A j \in Jobs :
        (pc[j] \in Ended) ~> disk[j] \cap {"reservation", "partial", "upload"} = {}

-----------------------------------------------------------------------------
(* The inductive invariant behind OneAtATime, RecoveryOnlyTouchesTheDead and *)
(* OutcomesAreFinal, in named parts.                                         *)

\* Whoever lives holds an unexpired runner lease.
LiveHoldRunner == \A j \in Jobs : Live(j) => runner.owner = j /\ runner.left > 0

\* Between its begin and its close a live job holds an unexpired job lease.
LiveHoldLease == \A j \in Jobs : HasJobLease(j) => lease[j] \in 1 .. TTL

\* Otherwise a job lease is one that an ended process left behind.
LeaseIsHeldOrLeft ==
    \A j \in Jobs : pc[j] \in Ended \/ HasJobLease(j) \/ lease[j] = NoLease

\* recover() only ever reads the leases of ended processes.
SeenHaveEnded == \A p \in Jobs \cup {Ticker} : \A j \in seen[p] : pc[j] \in Ended

\* Only ended processes have interrupted events.
InterruptedHaveEnded == \A j \in Jobs : event[j] = "interrupted" => pc[j] \in Ended

\* A job that has not begun has no event.
Unbegun(j) ==
    pc[j] \in {"idle", "recover", "acquire", "reserve", "record"}
              \cup (IF j \in Scheduled THEN {"spawn", "boot"} ELSE {})
UnbegunHaveNoEvent == \A j \in Jobs : Unbegun(j) => event[j] = "none"

LeaseInv ==
    /\ TypeOK
    /\ LiveHoldRunner
    /\ LiveHoldLease
    /\ LeaseIsHeldOrLeft
    /\ SeenHaveEnded
    /\ InterruptedHaveEnded

-----------------------------------------------------------------------------
(* The inductive invariant behind SettledJobIsClean.                         *)

\* A partial exists while it is written, read back and published, or when its
\* process ended in the middle of that.
PartialsAreInWork ==
    \A j \in Jobs : "partial" \in disk[j] => pc[j] \in {"verify", "publish", "link", "finish", "exitN"}

\* A restore writes no backup, and only a restore has an upload.
RestoresOnlyLoad ==
    \A j \in Jobs :
        IF j \in Restores
        THEN disk[j] \subseteq {"upload"} /\ pc[j] \notin {"reserve", "verify", "publish", "link",
                                                          "prune"}
        ELSE "upload" \notin disk[j]

\* A job that has begun has an event.
BegunHaveEvents ==
    \A j \in Jobs : pc[j] \in Ended \/ Unbegun(j) \/ event[j] # "none"

\* What a supervisor watches is a child whose job has begun.
ChildrenHaveBegun ==
    \A j \in Panel : sup[j] # "none" =>
        Isolated(j) /\ pc[j] \in ChildSteps \cup Ended /\ event[j] # "none"

\* The supervisor finds the event of a dead child by its lease.
OpenEventsHaveLeases ==
    \A j \in Panel : (pc[j] = "spawn" \/ sup[j] # "none") /\ event[j] = "running" =>
        lease[j] # NoLease \/ j \in refused

\* A child that ends in order has closed its event.
ClosedHaveOutcomes ==
    \A j \in Panel :
        sup[j] # "none" /\ pc[j] \in {"closeOk", "closeBad", "prune", "end", "exit0"} =>
            event[j] # "running" \/ j \in refused

\* What settle has done stays done ...
SettledAreFree ==
    \A j \in Panel : sup[j] \in {"cleaning", "done"} =>
        /\ pc[j] \in Ended
        /\ event[j] # "running" \/ j \in refused
        /\ lease[j] = NoLease
        /\ runner.owner # j
        /\ "partial" \notin disk[j]

\* ... and what the cleanup has removed does not come back.
CleanedAreGone ==
    \A j \in Panel : sup[j] = "done" => disk[j] \cap {"reservation", "upload"} = {}

CleanInv ==
    /\ TypeOK
    /\ PartialsAreInWork
    /\ RestoresOnlyLoad
    /\ BegunHaveEvents
    /\ ChildrenHaveBegun
    /\ OpenEventsHaveLeases
    /\ ClosedHaveOutcomes
    /\ SettledAreFree
    /\ CleanedAreGone

-----------------------------------------------------------------------------
(* What SuccessIsPublished and RetentionAfterSuccess rest on, besides the    *)
(* lease invariant.                                                          *)

\* The event of a job at work is open, unless its watchdog has just failed it.
AtWork(j) ==
    pc[j] \in {"lease", "write", "verify", "publish", "link", "finish"}
              \cup (IF j \in Panel THEN {"spawn", "boot"} ELSE {})
WorkIsOpen == \A j \in Jobs : AtWork(j) => event[j] = "running" \/ breach[j] = "limit"

\* Nobody prunes the backup of a job that is about to succeed.
PublishedAreThere == \A j \in Jobs \ Restores : pc[j] = "finish" => "backup" \in disk[j]

\* Retention follows a success, or a breach that overtook it.
PruningFollowsSuccess ==
    \A j \in Jobs : pc[j] \in {"closeOk", "prune"} => event[j] = "succeeded" \/ breach[j] = "limit"

SuccessInv == LeaseInv /\ WorkIsOpen /\ PublishedAreThere /\ PruningFollowsSuccess

-----------------------------------------------------------------------------
(* PanelJobs implements OneRunner: the job that runs is the one that holds   *)
(* the runner lease and lives, and an interrupted event is a failed outcome. *)
RunningJob == IF \E j \in Jobs : Live(j) THEN CHOOSE j \in Jobs : Live(j) ELSE NoOne

OutcomeOf(status) ==
    CASE status = "none" -> "none"
      [] status = "running" -> "open"
      [] status = "succeeded" -> "succeeded"
      [] OTHER -> "failed"

Outcomes == [j \in Jobs |-> OutcomeOf(event[j])]

Promise == INSTANCE OneRunner WITH running <- RunningJob, outcome <- Outcomes

(* Every behaviour of the leases, the processes and recover() is one that    *)
(* the abstract specification of the panel's jobs allows.                    *)
KeepsPromise == Promise!Spec
=============================================================================
