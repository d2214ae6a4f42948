------------------------------ MODULE Redeploy ------------------------------
(* Redeploys of the manager: an application's data and .env moved onto         *)
(* another, a deploy in place, and the revert of one that stopped. Each is a   *)
(* job that holds its target's lock and works through planned steps; a         *)
(* rehearsal walks the same steps and changes nothing.                         *)
EXTENDS Naturals, Sequences, FiniteSets

CONSTANTS Apps, Jobs,
          Actions,      \* of "run", "deploy", "revert"
          Routes,       \* the moves asked for: pairs of source and target
          Rehearsals,   \* whether redeploys are rehearsed, or for real, or both
          DeploySteps,  \* the application's deploy steps, a sequence of kinds
          AppKind,      \* [Apps -> "host", "container" or "compose"]
          Schemas,      \* what migrations an application may have at first
          EnvApps,      \* applications that name their .env
          Files,        \* backup files there can be: 1..n
          MaxFaults,    \* failures of a step
          MaxCrashes,   \* jobs that the end of the manager cuts off
          MaxUpkeep,    \* verifications that fail, removals, and lock expiries
          None

RedeployAssumption == MaxFaults \in Nat /\ MaxCrashes \in Nat /\ MaxUpkeep \in Nat

VARIABLES app,    \* [Apps -> data, .env, schema, code]
          files,  \* [Files -> backup file of the manager], or None
          jobs,   \* [Jobs -> job]
          lock,   \* [Apps -> the job that holds it, or None]: TakeLock
          faults, crashes, upkeep

vars == <<app, files, jobs, lock, faults, crashes, upkeep>>

Free == [action |-> None, src |-> None, tgt |-> None, rehearsal |-> TRUE, flush |-> FALSE,
         backup |-> 0, env |-> None, of |-> None, steps |-> << >>, status |-> "-",
         used |-> 0, safety |-> 0, recorded |-> None, had |-> FALSE, revertable |-> FALSE,
         before |-> None]

MoveSteps == <<"check", "source_backup", "record_env", "safety_backup", "env", "migrate",
               "restore", "final_check">>
MoveRehearsal == {"check", "source_backup", "safety_backup", "restore"}
Kinds == {"git_pull", "compose_up", "restart", "migrate", "collectstatic"}
Changing(action) == IF action = "run" THEN {"env", "migrate", "restore", "final_check"}
                    ELSE IF action = "deploy" THEN Kinds \cup {"final_check"} ELSE {}

Planned(steps, runs) ==
    [i \in DOMAIN steps |->
        [step |-> steps[i], status |-> IF steps[i] \in runs THEN "pending" ELSE "skipped"]]
(* deploy.planned: a rehearsal neither records the .env nor checks at the end. *)
DeployPlanned(rehearsal) ==
    LET all == <<"check", "safety_backup", "record_env">> \o DeploySteps \o <<"final_check">>
    IN  Planned(all, {all[i]: i \in DOMAIN all}
                       \ (IF rehearsal THEN {"record_env", "final_check"} ELSE {}))

Alive(f, a) == files[f] # None /\ files[f].app = a /\ files[f].there
(* latest_of_kind and _chosen_backup: none that failed its validation.         *)
Chosen(a) == LET good == {f \in Files: Alive(f, a) /\ files[f].ok}
             IN  IF good = {} THEN {0} ELSE {CHOOSE f \in good: \A g \in good: f >= g}
Choosable(a) == Chosen(a) \cup {f \in Files: Alive(f, a) /\ files[f].ok}

-----------------------------------------------------------------------------
(* queue_backup: the job and its target's lock, or neither.                    *)
IsNext(j) == jobs[j].status = "-" /\ \A k \in Jobs: k < j => jobs[k].status # "-"
Queue(j, job) ==
    /\ IsNext(j)
    /\ lock[job.tgt] = None
    /\ jobs' = [jobs EXCEPT ![j] = job] /\ lock' = [lock EXCEPT ![job.tgt] = j]
    /\ UNCHANGED <<app, files, faults, crashes, upkeep>>

Start(j, s, t, b, env, flush, rehearsal) ==
    /\ "run" \in Actions /\ s # t /\ b \in Choosable(s)
    /\ env # None => t \in EnvApps
    /\ Queue(j, [Free EXCEPT !.action = "run", !.src = s, !.tgt = t, !.backup = b, !.env = env,
                   !.flush = flush, !.rehearsal = rehearsal, !.status = "queued",
                   !.steps = Planned(MoveSteps,
                               {x \in IF rehearsal THEN MoveRehearsal
                                      ELSE {MoveSteps[i]: i \in DOMAIN MoveSteps}:
                                  x # "env" \/ env # None})])

(* catalogue.validated, asked again for every deploy.                          *)
Fits(kind, a) ==
    /\ kind \in {"compose_up"} => AppKind[a] = "compose"
    /\ kind = "restart" => AppKind[a] # "host"
Deploy(j, t, rehearsal) ==
    /\ "deploy" \in Actions /\ DeploySteps # << >>
    /\ \A i \in DOMAIN DeploySteps: Fits(DeploySteps[i], t)
    /\ Queue(j, [Free EXCEPT !.action = "deploy", !.tgt = t, !.rehearsal = rehearsal,
                   !.status = "queued", !.steps = DeployPlanned(rehearsal)])

MayBeReverted(m) == /\ jobs[m].action \in {"run", "deploy"} /\ jobs[m].status = "failed"
                    /\ ~jobs[m].rehearsal /\ jobs[m].revertable
(* _has_material: only what was recorded can be put back. The code of a        *)
(* deploy, and its .env, stay.                                                 *)
RevertRuns(m, rehearsal) ==
    {"check"} \cup (IF jobs[m].safety # 0 THEN {"restore"} ELSE {})
              \cup (IF ~rehearsal /\ jobs[m].action = "run" /\ jobs[m].recorded # None
                    THEN {"env"} ELSE {})
Revert(j, m, rehearsal) ==
    /\ "revert" \in Actions /\ MayBeReverted(m)
    /\ Queue(j, [Free EXCEPT !.action = "revert", !.tgt = jobs[m].tgt, !.of = m,
                   !.rehearsal = rehearsal, !.flush = TRUE, !.backup = jobs[m].safety,
                   !.env = IF jobs[m].action = "run" THEN jobs[m].recorded ELSE None,
                   !.status = "queued",
                   !.steps = Planned(IF jobs[m].action = "run" THEN <<"check", "env", "restore">>
                                     ELSE <<"check", "restore">>, RevertRuns(m, rehearsal))])

-----------------------------------------------------------------------------
Freed(j) == lock' = [a \in Apps |-> IF lock[a] = j THEN None ELSE lock[a]]

(* run: a job whose lock ran out while it was queued takes it again, or        *)
(* fails when another job has it.                                              *)
MayHold(a, j) == lock[a] \in {None, j}
Begin(j) ==
    /\ jobs[j].status = "queued"
    /\ LET t == jobs[j].tgt IN
       IF MayHold(t, j)
       THEN /\ lock' = [lock EXCEPT ![t] = j]
            /\ jobs' = [jobs EXCEPT ![j].status = "running", ![j].before = app[t]]
       ELSE jobs' = [jobs EXCEPT ![j].status = "failed"] /\ UNCHANGED lock
    /\ UNCHANGED <<app, files, faults, crashes, upkeep>>

At(j) == {i \in DOMAIN jobs[j].steps: jobs[j].steps[i].status = "running"}
Step(j) == LET i == CHOOSE i \in At(j): TRUE IN jobs[j].steps[i].step
Doing(j, names) == jobs[j].status = "running" /\ At(j) # {} /\ Step(j) \in names
Pending(j) == {i \in DOMAIN jobs[j].steps: jobs[j].steps[i].status = "pending"}

StepStarts(j) ==
    /\ jobs[j].status = "running" /\ At(j) = {} /\ Pending(j) # {}
    /\ LET i == CHOOSE i \in Pending(j): \A k \in Pending(j): i <= k
       IN  jobs' = [jobs EXCEPT ![j].steps[i].status = "running"]
    /\ UNCHANGED <<app, files, lock, faults, crashes, upkeep>>

(* _steps: the step is settled, and what it found joins the job's detail.      *)
Marked(j, status, pending) ==
    [i \in DOMAIN jobs[j].steps |->
        [step |-> jobs[j].steps[i].step,
         status |-> IF i \in At(j) THEN status
                    ELSE IF i \in Pending(j) THEN pending ELSE jobs[j].steps[i].status]]
Settled(j, status, found) ==
    [jobs EXCEPT ![j] = [found EXCEPT !.steps = Marked(j, status, "pending")]]

(* _may_revert and the failure of a step: what follows is skipped.             *)
MayRevert(j) == /\ ~jobs[j].rehearsal /\ Step(j) \in Changing(jobs[j].action)
                /\ jobs[j].recorded # None \/ jobs[j].safety # 0
StepFails(j) ==
    /\ jobs' = [jobs EXCEPT ![j].status = "failed", ![j].revertable = MayRevert(j),
                            ![j].steps = Marked(j, "failed", "skipped")]
    /\ Freed(j)

Finish(j) ==
    /\ jobs[j].status = "running" /\ At(j) = {} /\ Pending(j) = {}
    /\ jobs' = [jobs EXCEPT ![j].status = "succeeded"] /\ Freed(j)
    /\ UNCHANGED <<app, files, faults, crashes, upkeep>>

-----------------------------------------------------------------------------
Succeeds(j, found) == jobs' = Settled(j, "succeeded", found)
NewFile == CHOOSE f \in Files: files[f] = None /\ \A g \in Files: g < f => files[g] # None
Room == \E f \in Files: files[f] = None
BackedUp(a) == files' = [files EXCEPT ![NewFile] =
                           [app |-> a, data |-> app[a].data, ok |-> TRUE, there |-> TRUE]]

Check(j) ==
    /\ Doing(j, {"check", "final_check"})
    /\ Succeeds(j, jobs[j])
    /\ UNCHANGED <<app, files, lock, faults, crashes, upkeep>>

(* _fresh_backup takes the source's lock for as long as the backup runs.       *)
SourceHeld(j) ==
    /\ Doing(j, {"source_backup"}) /\ ~jobs[j].rehearsal
    /\ lock[jobs[j].src] # j
    /\ IF lock[jobs[j].src] = None
       THEN lock' = [lock EXCEPT ![jobs[j].src] = j] /\ UNCHANGED jobs
       ELSE StepFails(j)
    /\ UNCHANGED <<app, files, faults, crashes, upkeep>>
SourceBackup(j) ==
    /\ Doing(j, {"source_backup"}) /\ ~jobs[j].rehearsal
    /\ lock[jobs[j].src] = j /\ Room
    /\ BackedUp(jobs[j].src)
    /\ lock' = [lock EXCEPT ![jobs[j].src] = None]
    /\ Succeeds(j, [jobs[j] EXCEPT !.used = NewFile])
    /\ UNCHANGED <<app, faults, crashes, upkeep>>
(* The source does not answer: the backup that was chosen stands in for it.    *)
SourceUnreachable(j) ==
    /\ Doing(j, {"source_backup"}) /\ ~jobs[j].rehearsal
    /\ lock[jobs[j].src] = j /\ faults < MaxFaults
    /\ faults' = faults + 1
    /\ IF jobs[j].backup = 0 THEN StepFails(j)
       ELSE /\ Succeeds(j, [jobs[j] EXCEPT !.used = jobs[j].backup])
            /\ lock' = [lock EXCEPT ![jobs[j].src] = None]
    /\ UNCHANGED <<app, files, crashes, upkeep>>
SourceRehearsed(j) ==
    /\ Doing(j, {"source_backup"}) /\ jobs[j].rehearsal
    /\ IF jobs[j].backup = 0 THEN StepFails(j) ELSE Succeeds(j, jobs[j]) /\ UNCHANGED lock
    /\ UNCHANGED <<app, files, faults, crashes, upkeep>>

RecordEnv(j) ==
    /\ Doing(j, {"record_env"})
    /\ IF jobs[j].tgt \in EnvApps
       THEN Succeeds(j, [jobs[j] EXCEPT !.recorded = app[jobs[j].tgt].env])
       ELSE jobs' = Settled(j, "skipped", jobs[j])
    /\ UNCHANGED <<app, files, lock, faults, crashes, upkeep>>

(* _safety_backup and _deploy_safety_backup: a move asks first whether the     *)
(* target is migrated; a deploy does not.                                      *)
HoldsData(a) == app[a].schema = "current"
SafetyBackup(j) ==
    /\ Doing(j, {"safety_backup"})
    /\ LET t == jobs[j].tgt
           had == jobs[j].action = "deploy" \/ HoldsData(t)
           real == had /\ ~jobs[j].rehearsal
       IN  /\ real => Room
           /\ IF real THEN BackedUp(t) ELSE UNCHANGED files
           /\ jobs' = Settled(j, IF had THEN "succeeded" ELSE "skipped",
                              [jobs[j] EXCEPT !.had = had, !.safety = IF real THEN NewFile ELSE 0])
    /\ UNCHANGED <<app, lock, faults, crashes, upkeep>>

-----------------------------------------------------------------------------
(* What a step for real makes of the target: the .env pushed, the migrations   *)
(* run, the backup restored over the data or merged with it, and the steps of  *)
(* a deploy, whose new code needs migrations that change the data.             *)
RestoredFile(j) == IF jobs[j].used # 0 THEN jobs[j].used ELSE jobs[j].backup
Restored(j, data) == IF jobs[j].flush THEN files[RestoredFile(j)].data
                     ELSE data \cup files[RestoredFile(j)].data
After(j) ==
    LET t == app[jobs[j].tgt] IN
    CASE Step(j) = "env" -> [t EXCEPT !.env = jobs[j].env]
      [] Step(j) = "migrate" -> [t EXCEPT !.schema = "current",
                                          !.data = IF t.code = "new" THEN @ \cup {"migrated"} ELSE @]
      [] Step(j) = "restore" -> [t EXCEPT !.data = Restored(j, t.data)]
      [] Step(j) = "git_pull" -> [t EXCEPT !.code = "new", !.schema = "behind"]
      [] OTHER -> t

CanWork(j) == Step(j) = "restore" =>
    RestoredFile(j) # 0 /\ files[RestoredFile(j)] # None /\ files[RestoredFile(j)].there

(* restore_file's dry_run, and rehearsal_commands: they only read.             *)
Rehearse(j) ==
    /\ Doing(j, {"env", "restore"} \cup Kinds) /\ jobs[j].rehearsal /\ CanWork(j)
    /\ jobs' = Settled(j, IF Step(j) = "restart" THEN "skipped" ELSE "succeeded", jobs[j])
    /\ UNCHANGED <<app, files, lock, faults, crashes, upkeep>>
Change(j) ==
    /\ Doing(j, {"env", "restore"} \cup Kinds) /\ ~jobs[j].rehearsal /\ CanWork(j)
    /\ app' = [app EXCEPT ![jobs[j].tgt] = After(j)]
    /\ Succeeds(j, jobs[j])
    /\ UNCHANGED <<files, lock, faults, crashes, upkeep>>
(* stored: the backup is gone.                                                 *)
BackupMissing(j) ==
    /\ Doing(j, {"restore"}) /\ ~CanWork(j)
    /\ StepFails(j)
    /\ UNCHANGED <<app, files, faults, crashes, upkeep>>

(* A step fails, and may have done its work before: a migration that is cut    *)
(* off, a restore whose answer is lost.                                        *)
Fail(j) ==
    /\ jobs[j].status = "running" /\ At(j) # {} /\ faults < MaxFaults
    /\ faults' = faults + 1
    /\ \/ UNCHANGED app
       \/ /\ ~jobs[j].rehearsal /\ CanWork(j) /\ After(j) # app[jobs[j].tgt]
          /\ app' = [app EXCEPT ![jobs[j].tgt] = After(j)]
    /\ StepFails(j)
    /\ UNCHANGED <<files, crashes, upkeep>>

(* The manager is killed; recovery ends the job and frees its locks.           *)
Interrupt(j) ==
    /\ jobs[j].status \in {"queued", "running"} /\ crashes < MaxCrashes
    /\ crashes' = crashes + 1
    /\ jobs' = [jobs EXCEPT ![j].status = "failed"]
    /\ Freed(j)
    /\ UNCHANGED <<app, files, faults, upkeep>>

(* Meanwhile: a verification finds a backup damaged, a backup is removed, and  *)
(* the lock of a job that has waited too long runs out.                        *)
Verify(f) == /\ files[f] # None /\ files[f].ok /\ upkeep < MaxUpkeep /\ upkeep' = upkeep + 1
             /\ files' = [files EXCEPT ![f].ok = FALSE]
             /\ UNCHANGED <<app, jobs, lock, faults, crashes>>
Remove(f) == /\ files[f] # None /\ files[f].there /\ upkeep < MaxUpkeep /\ upkeep' = upkeep + 1
             /\ files' = [files EXCEPT ![f].there = FALSE]
             /\ UNCHANGED <<app, jobs, lock, faults, crashes>>
Expire(j) == /\ jobs[j].status = "queued" /\ upkeep < MaxUpkeep /\ upkeep' = upkeep + 1
             /\ lock[jobs[j].tgt] = j /\ Freed(j)
             /\ UNCHANGED <<app, files, jobs, faults, crashes>>

-----------------------------------------------------------------------------
FirstFile(a) == [app |-> a, data |-> {a}, ok |-> TRUE, there |-> TRUE]
Init ==
    /\ \E schema \in [Apps -> Schemas]: \E env \in [Apps -> BOOLEAN]:
          app = [a \in Apps |-> [data |-> IF schema[a] = "none" THEN {} ELSE {a},
                                 env |-> IF env[a] /\ a \in EnvApps THEN a ELSE None,
                                 schema |-> schema[a], code |-> "old"]]
    /\ files \in {[f \in Files |-> None]}
                \cup {[f \in Files |-> IF f = 1 THEN FirstFile(r[1]) ELSE None]: r \in Routes}
    /\ jobs = [j \in Jobs |-> Free]
    /\ lock = [a \in Apps |-> None]
    /\ faults = 0 /\ crashes = 0 /\ upkeep = 0

Work(j) ==
    \/ Begin(j) \/ StepStarts(j) \/ Finish(j)
    \/ Check(j) \/ SourceHeld(j) \/ SourceBackup(j) \/ SourceRehearsed(j)
    \/ RecordEnv(j) \/ SafetyBackup(j) \/ Rehearse(j) \/ Change(j) \/ BackupMissing(j)

Next ==
    \/ \E j \in Jobs:
         \/ /\ IsNext(j)
            /\ \/ \E r \in Routes, rehearsal \in Rehearsals, flush \in BOOLEAN:
                    \E b \in Choosable(r[1]), env \in {None, r[1]}:
                       Start(j, r[1], r[2], b, env, flush, rehearsal)
               \/ \E t \in Apps, rehearsal \in Rehearsals: Deploy(j, t, rehearsal)
               \/ \E m \in Jobs, rehearsal \in Rehearsals: Revert(j, m, rehearsal)
         \/ Work(j) \/ SourceUnreachable(j) \/ Fail(j) \/ Interrupt(j) \/ Expire(j)
    \/ \E f \in Files: Verify(f) \/ Remove(f)

Spec == Init /\ [][Next]_vars

-----------------------------------------------------------------------------

(* A rehearsal changes nothing: neither application, no backup of the manager. *)
RehearsalReads ==
    \A j \in Jobs: (jobs[j].rehearsal /\ jobs[j].status = "running" /\ jobs'[j] # jobs[j])
                      => app' = app /\ files' = files

(* Two jobs never work on one application at once, not even when the lock of   *)
(* one ran out before it began; nor does a move back up a source that another  *)
(* job is changing.                                                            *)
OneOnEach ==
    \A j, k \in Jobs: (j # k /\ jobs[j].status = "running" /\ jobs[k].status = "running")
        => /\ jobs[j].tgt # jobs[k].tgt
           /\ (Doing(j, {"source_backup"}) /\ ~jobs[j].rehearsal /\ jobs[k].tgt = jobs[j].src)
                => lock[jobs[j].src] # j

(* Whether the target's data when the job began are ones it backs up: a move   *)
(* takes no safety backup of an application whose migrations are behind.       *)
Guarded(j) == /\ jobs[j].before.data # {}
              /\ jobs[j].action = "deploy" \/ jobs[j].before.schema = "current"
(* What stops a redeploy without a way back is the end of the manager alone.   *)
Reverts(j) == jobs'[j].revertable \/ crashes' # crashes

(* When a redeploy stops, by whatever failure or crash, with data that it      *)
(* backs up or a .env changed, the safety backup and the recorded .env are     *)
(* what was there before it began; unless the manager was killed, it can be    *)
(* reverted.                                                                   *)
WayBack ==
    \A j \in Jobs:
     (/\ jobs[j].status = "running" /\ jobs'[j].status = "failed"
      /\ jobs[j].action \in {"run", "deploy"})
     => LET was == jobs[j].before
            now == app'[jobs[j].tgt]
        IN  /\ (Guarded(j) /\ now.data # was.data)
                 => files[jobs[j].safety].data = was.data /\ Reverts(j)
            /\ (was.env # None /\ now.env # was.env)
                 => jobs[j].recorded = was.env /\ Reverts(j)

(* A revert for real that succeeds leaves the data as the safety backup has    *)
(* them and, after a move, the .env as it was recorded.                        *)
RevertPutsBack ==
    \A j \in Jobs:
     (/\ jobs[j].action = "revert" /\ ~jobs[j].rehearsal
      /\ jobs[j].status = "running" /\ jobs'[j].status = "succeeded")
     => LET m == jobs[jobs[j].of]
            now == app[jobs[j].tgt]
        IN  /\ m.safety # 0 => now.data = files[m.safety].data
            /\ (m.action = "run" /\ m.recorded # None) => now.env = m.recorded

(* Two jobs never wait for one another: while one is not over, one of them    *)
(* can go on.                                                                  *)
NobodyStuck == (\E j \in Jobs: jobs[j].status \in {"queued", "running"}) => ENABLED \E j \in Jobs: Work(j)

-----------------------------------------------------------------------------
(* Why they hold: the inductive invariants. *)

Content == SUBSET (Apps \cup {"migrated"})
AppState == [data: Content, env: Apps \cup {None}, schema: {"none", "behind", "current"}, code: {"old", "new"}]
FileRow == [app: Apps, data: Content, ok: BOOLEAN, there: BOOLEAN]

ConstantsFit ==
    /\ Routes \subseteq Apps \X Apps /\ EnvApps \subseteq Apps /\ Rehearsals \subseteq BOOLEAN
    /\ IsFiniteSet(Files) /\ Files = 1 .. Cardinality(Files)
    /\ None \notin Apps /\ None \notin Jobs /\ None \notin FileRow
    /\ Schemas \subseteq {"none", "behind", "current"} /\ DeploySteps \in Seq(Kinds)

AllSteps == {"check", "source_backup", "record_env", "safety_backup", "env", "restore", "final_check"} \cup Kinds
PlannedStep == [step: AllSteps, status: {"pending", "running", "succeeded", "skipped", "failed"}]
Job == [action: {"run", "deploy", "revert", None}, src: Apps \cup {None}, tgt: Apps \cup {None},
        rehearsal: BOOLEAN, flush: BOOLEAN, backup: Files \cup {0}, env: Apps \cup {None},
        of: Jobs \cup {None}, steps: Seq(PlannedStep),
        status: {"-", "queued", "running", "succeeded", "failed"}, used: Files \cup {0},
        safety: Files \cup {0}, recorded: Apps \cup {None}, had: BOOLEAN, revertable: BOOLEAN,
        before: AppState \cup {None}]
TypeOK == /\ app \in [Apps -> AppState] /\ files \in [Files -> FileRow \cup {None}]
          /\ jobs \in [Jobs -> Job] /\ lock \in [Apps -> Jobs \cup {None}]
          /\ {faults, crashes} \subseteq Nat

(* A job that runs has the lock of its target, which is no source of its own.  *)
LocksInv == \A j \in Jobs: jobs[j].status # "-" =>
    /\ jobs[j].tgt \in Apps /\ jobs[j].src # jobs[j].tgt
    /\ jobs[j].status = "running" => lock[jobs[j].tgt] = j

(* Steps are taken in their order, those that prepare before those that change *)
(* the target; a .env is pushed only where one is named.                       *)
Ahead(j, i) == jobs[j].steps[i].status \in {"pending", "running"}
Preparing == {"check", "source_backup", "record_env", "safety_backup"}
Forward(j) == jobs[j].action \in {"run", "deploy"}
StepNames(j) == {jobs[j].steps[i].step: i \in DOMAIN jobs[j].steps}
SourceNamed(j) == "source_backup" \in StepNames(j) => jobs[j].src \in Apps
InOrder(j) == \A i, k \in DOMAIN jobs[j].steps:
    (i < k /\ jobs[j].steps[k].status = "running") => ~Ahead(j, i)
Prepares(j) ==
    /\ {"record_env", "safety_backup"} \subseteq StepNames(j)
    /\ \A i, k \in DOMAIN jobs[j].steps:
          (jobs[j].steps[i].step \in Preparing /\ jobs[j].steps[k].step \notin Preparing) => i < k
    /\ StepNames(j) \subseteq Preparing \cup Changing(jobs[j].action)
NothingTaken(j) == (jobs[j].status = "queued" /\ ~jobs[j].rehearsal) =>
    \A i \in DOMAIN jobs[j].steps: jobs[j].steps[i].step \in {"record_env", "safety_backup"} => Ahead(j, i)
EnvNamed(j) == \A i \in DOMAIN jobs[j].steps: (jobs[j].steps[i].step = "env" /\ Ahead(j, i)) =>
    jobs[j].action = "run" /\ jobs[j].tgt \in EnvApps
PlanInv == \A j \in Jobs: jobs[j].status # "-" =>
    /\ InOrder(j) /\ SourceNamed(j)
    /\ Forward(j) => Prepares(j) /\ NothingTaken(j) /\ EnvNamed(j)

(* Until a job has prepared, and in a rehearsal, its target is as it was; then *)
(* what was there is kept.                                                     *)
AsBefore(j) == app[jobs[j].tgt] = jobs[j].before
KeptData(j) == Guarded(j) =>
    jobs[j].safety \in Files /\ files[jobs[j].safety] # None
        /\ files[jobs[j].safety].data = jobs[j].before.data
WayInv == \A j \in Jobs: (jobs[j].status = "running" /\ Forward(j)) =>
    /\ jobs[j].rehearsal => AsBefore(j)
    /\ (\E i \in DOMAIN jobs[j].steps: jobs[j].steps[i].step \in Preparing /\ Ahead(j, i)) => AsBefore(j)
    /\ ~jobs[j].rehearsal =>
         \A i \in DOMAIN jobs[j].steps: ~Ahead(j, i) =>
            /\ jobs[j].steps[i].step = "safety_backup" => KeptData(j)
            /\ (jobs[j].steps[i].step = "record_env" /\ jobs[j].tgt \in EnvApps) =>
                  jobs[j].recorded = jobs[j].before.env
    /\ app[jobs[j].tgt].env # jobs[j].before.env => jobs[j].tgt \in EnvApps

(* A revert restores what the job it reverts recorded, step by step.           *)
Reverting(j) == jobs[j].action = "revert" /\ ~jobs[j].rehearsal /\ jobs[j].status # "-"
RevertsOf(j) == LET m == jobs[jobs[j].of] IN
    /\ jobs[j].of \in Jobs /\ m.status = "failed" /\ m.action \in {"run", "deploy"} /\ jobs[j].tgt = m.tgt
    /\ jobs[j].used = 0 /\ jobs[j].flush /\ jobs[j].backup = m.safety
    /\ m.action = "run" => jobs[j].env = m.recorded
    /\ {"restore"} \subseteq StepNames(j) /\ StepNames(j) \subseteq {"check", "env", "restore"}
    /\ m.action = "run" => "env" \in StepNames(j)
PutBack(j) == LET m == jobs[jobs[j].of] IN
    \A i \in DOMAIN jobs[j].steps: ~Ahead(j, i) =>
        /\ (jobs[j].steps[i].step = "restore" /\ m.safety # 0) =>
              jobs[j].status = "running" /\ app[jobs[j].tgt].data = files[m.safety].data
        /\ (jobs[j].steps[i].step = "env" /\ m.action = "run" /\ m.recorded # None) =>
              jobs[j].status = "running" /\ app[jobs[j].tgt].env = m.recorded
RevertInv ==
    /\ \A j \in Jobs: jobs[j].safety # 0 => files[jobs[j].safety] # None
    /\ \A j \in Jobs: Reverting(j) => RevertsOf(j)
    /\ \A j \in Jobs: (Reverting(j) /\ jobs[j].status \in {"queued", "running"}) => PutBack(j)
=============================================================================
