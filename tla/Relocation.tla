------------------------------ MODULE Relocation ------------------------------
(***************************************************************************)
(* Moving a server's applications to another server: RelocationService,    *)
(* Move and its steps, the Carrier that puts things in place and the       *)
(* inventory that plans it.  A move is a list of steps.  A step changes    *)
(* the new server, may refuse what it finds there, and may fail half way.  *)
(* A real move that failed can be resumed by another one, which skips what *)
(* the failed one is known to have done.  MoveLocks shows that moves       *)
(* follow each other; here they are numbered in the order they start.      *)
(***************************************************************************)
EXTENDS Naturals, Sequences, SequencesExt

CONSTANTS
    Apps,          \* the applications that move
    AppOrder,      \* the same, in the order of the choices
    Kind,          \* Kind[a]: "host", "compose" or "container"
    Place,         \* Place[a]: where its database really is
    Has,           \* Has[a]: which of volumes, units, an env file elsewhere and sites
    SameMachine,   \* both servers have one host key
    FactsMayFail,  \* database_facts may read nothing during the inventory
    Torn,          \* a step may fail half way, and the manager may crash
    Careful,       \* the user resumes the last move that got to an application
    Plans,         \* backup plans of an application
    MaxMoves,      \* bound: moves
    MaxFaults,     \* bound: failures of commands and connections, and crashes
    MaxIntruders   \* bound: things somebody else puts on the new server

Places == {"host_package", "remote", "compose_service", "companion_container", "file"}

RelocationAssumption ==
    /\ AppOrder \in Seq(Apps)
    /\ Kind \in [Apps -> {"host", "compose", "container"}]
    /\ Place \in [Apps -> Places]
    /\ Has \in [Apps -> SUBSET {"volume", "unit", "extra", "site"}]
    /\ {SameMachine, FactsMayFail, Torn, Careful} \subseteq BOOLEAN
    /\ {Plans, MaxMoves} \subseteq Nat \ {0}
    /\ {MaxFaults, MaxIntruders} \subseteq Nat

VARIABLES
    move,       \* move[m]: the data of the m-th move's row
    site,       \* site[a]: what the new server holds where a's things go
    ready,      \* the preparations the new server has had
    lost,       \* history: the moves that migrated or restored over the old data, and of which application
    faults,     \* failures so far
    intruders   \* things of others so far

vars == <<move, site, ready, lost, faults, intruders>>

Moves == 1 .. MaxMoves
Parts == {"folder", "extra", "image", "volume", "db", "up", "unit", "site"}

PLAN_STEPS == <<"connect", "inventory", "evaluate">>
PREPARE_STEPS == <<"sudo_check", "repositories", "packages", "engine_setup", "services",
                   "users", "recheck">>

Key(a, s) == [app |-> a, step |-> s]
Keys(a, steps) == [i \in DOMAIN steps |-> Key(a, steps[i])]
PlanPhase == Keys("plan", PLAN_STEPS)

NoMove == [status |-> "none", real |-> FALSE, chosen |-> TRUE, of |-> 0, before |-> {},
           facts |-> [a \in Apps |-> ""], work |-> PlanPhase, next |-> 1, done |-> {},
           backup |-> {}, row |-> {}]

Init ==
    /\ move = [m \in Moves |-> NoMove]
    /\ site = [a \in Apps |->
                 LET old(v) == IF SameMachine THEN v ELSE "none"
                 IN [folder |-> "none", extra |-> "none", site |-> old("theirs"), image |-> old("ours"), volume |-> old("theirs"),
                     db |-> old("theirs"), up |-> old("theirs"), unit |-> old("theirs"),
                     row |-> FALSE, plans |-> 0, staged |-> "none"]]
    /\ ready = {}
    /\ lost = {}
    /\ faults = 0
    /\ intruders = 0

-----------------------------------------------------------------------------
(* The plan of a move. *)

\* inventory.Survey.database: what the plan says becomes of the database.
DatabaseAction(seen) ==
    CASE seen = "remote" -> "shared"
      [] seen = "" -> "unknown"
      [] OTHER -> "restore"

\* application_steps: the steps of one application; migrate and restore are
\* skipped from the start for a database that both servers share.
ApplicationSteps(a, seen) ==
    LET host == Kind[a] = "host"
        If(c, s) == IF c THEN <<s>> ELSE <<>>
        own == DatabaseAction(seen) # "shared"
    IN <<"source_backup", "carry_folder">>
       \o If("extra" \in Has[a], "carry_extra")
       \o If(~ host /\ site[a].image # "ours", "carry_image")
       \o If(~ host /\ "volume" \in Has[a], "carry_volume")
       \o If(host, "python")
       \o If(host /\ seen = "host_package", "database_create")
       \o If(~ host, "start")
       \o <<"register">>
       \o If(own, "migrate") \o If(own, "restore")
       \o If(host /\ "unit" \in Has[a], "install_units")
       \o If(host /\ "site" \in Has[a], "install_sites")
       \o <<"final_check", "copy_plans">>

\* prepare_steps: what the new server still lacks.
PrepareSteps == SelectSeq(PREPARE_STEPS, LAMBDA s : s \notin ready)

\* inventory.Survey: what is in the way of an application.  Every one of
\* these is among RESUMED_BLOCKERS.
FolderBlocks(a) == site[a].folder # "none"
ImageBlocks(a) == Kind[a] # "host" /\ site[a].image = "theirs"
VolumeBlocks(a) == Kind[a] # "host" /\ "volume" \in Has[a] /\ site[a].volume # "none"
UnitBlocks(a) == Kind[a] = "host" /\ \E p \in {"unit", "site"} \cap Has[a] : site[a][p] # "none"
ContainerBlocks(a) == Kind[a] = "container" /\ site[a].up # "none"
NameBlocks(a) == site[a].row
FileBlocks(a) == "extra" \in Has[a] /\ site[a].extra # "none"
Blocked(a) == \/ FolderBlocks(a) \/ FileBlocks(a) \/ ImageBlocks(a) \/ VolumeBlocks(a)
              \/ UnitBlocks(a) \/ ContainerBlocks(a) \/ NameBlocks(a)

\* still_blocking: once an earlier move has done anything, none of them blocks.
StillBlocking(m) == move[m].before = {} /\ \E a \in Apps : Blocked(a)

-----------------------------------------------------------------------------
(* What a step does to the new server: whether it refuses, what it leaves    *)
(* when it is done, and what else it may leave when it fails half way.       *)

Does(refuses, done, torn) == [refuses |-> refuses, done |-> done, torn |-> torn]
Only(a, p, v) == [site[a] EXCEPT ![p] = v]
Same(a) == Does(FALSE, site[a], {})

\* Carrier.carry: fetched to the spool, uploaded and placed.  An archive that
\* cannot be removed after placing it is listed among the leftovers; one
\* whose digest could not be read is not.
Carried(a, w) ==
    LET left(t, how) == [t EXCEPT !.staged = how]
    IN [w EXCEPT !.torn = @ \cup {left(t, "listed") : t \in @ \cup {site[a]}}
                            \cup {left(site[a], "unlisted")}]

\* Carrier.place_folder and settle: beside its place, then renamed into it
\* only where nothing is.  The connection may go after the rename.
PlaceFolder(a) ==
    Does(site[a].folder # "none", Only(a, "folder", "ours"), {Only(a, "folder", "ours")})

\* Carrier.place_file: the file that the env lies in, outside the folder.
PlaceFile(a) ==
    Does(site[a].extra # "none", Only(a, "extra", "ours"), {Only(a, "extra", "ours")})

\* Carrier.load_image: the engine takes the archive's name for its own.
LoadImage(a) == Does(FALSE, Only(a, "image", "ours"), {Only(a, "image", "ours")})

\* Carrier.fill_volume: made if need be, and filled only while it is empty.
FillVolume(a) ==
    Does(site[a].volume \notin {"none", "empty"}, Only(a, "volume", "ours"),
         {Only(a, "volume", v) : v \in {"empty", "torn", "ours"}})

\* step_database_create: asks for the name first; then one script, whose
\* answer may be lost.
DatabaseCreate(a) ==
    Does(site[a].db # "none", Only(a, "db", "ours"), {Only(a, "db", "ours")})

\* step_start: compose up takes up what is there, run --name does not.
StartContainers(a) ==
    Does(Kind[a] = "container" /\ site[a].up # "none", Only(a, "up", "ours"),
         {Only(a, "up", "ours")})

\* step_register: the row is made unless the move knows of it; a name in use
\* is refused.
Register(m, a) ==
    Does(a \notin move[m].row /\ site[a].row, [site[a] EXCEPT !.row = TRUE], {})

\* own_database: on one machine, the database that the plan named is refused.
OwnDatabase(m, a) == SameMachine => Place[a] = "file" \/ move[m].facts[a] # Place[a]

\* step_migrate and step_restore write to the database of the application
\* that now runs on the new server.
Migrate(m, a) == Does(~ OwnDatabase(m, a), site[a], {})

\* restoring.restore_file with the backup that the phase names.
Restore(m, a) == Does(~ OwnDatabase(m, a) \/ a \notin move[m].backup, site[a], {})

\* step_install_units and install_file: the same file may stand there.
InstallUnits(a) ==
    Does(site[a].unit = "theirs", Only(a, "unit", "ours"), {Only(a, "unit", "ours")})

\* step_install_sites: the file like a unit's, then its link, which is new or
\* fails: a site that was linked before the step failed is refused.
InstallSites(a) ==
    Does(site[a].site \in {"theirs", "ours"}, Only(a, "site", "ours"),
         {Only(a, "site", v) : v \in {"torn", "ours"}})

\* step_python: the requirements are staged, and listed if they cannot be removed.
RebuildPython(a) == Does(FALSE, site[a], {[site[a] EXCEPT !.staged = "listed"]})

\* step_copy_plans: one after the other; a name in use is refused.
CopyPlans(a) ==
    Does(site[a].plans > 0, [site[a] EXCEPT !.plans = Plans],
         {[site[a] EXCEPT !.plans = n] : n \in 1 .. Plans - 1})

\* Move.work: the handler of a step.
Work(m, k) ==
    CASE k.step = "carry_folder" -> Carried(k.app, PlaceFolder(k.app))
      [] k.step = "carry_extra" -> Carried(k.app, PlaceFile(k.app))
      [] k.step = "python" -> RebuildPython(k.app)
      [] k.step = "install_sites" -> InstallSites(k.app)
      [] k.step = "carry_image" -> Carried(k.app, LoadImage(k.app))
      [] k.step = "carry_volume" -> Carried(k.app, FillVolume(k.app))
      [] k.step = "database_create" -> DatabaseCreate(k.app)
      [] k.step = "start" -> StartContainers(k.app)
      [] k.step = "register" -> Register(m, k.app)
      [] k.step = "migrate" -> Migrate(m, k.app)
      [] k.step = "restore" -> Restore(m, k.app)
      [] k.step = "install_units" -> InstallUnits(k.app)
      [] k.step = "copy_plans" -> CopyPlans(k.app)
      [] OTHER -> Same(k.app)

\* The old application's data goes when its database is the one written to.
WritesOld(k) ==
    /\ k.step \in {"migrate", "restore"}
    /\ Place[k.app] = "remote" \/ (SameMachine /\ Place[k.app] # "file")
Overwritten(m, k) == IF WritesOld(k) THEN lost \cup {[by |-> m, app |-> k.app]} ELSE lost

-----------------------------------------------------------------------------
(* Running a move. *)

Running(m) == move[m].status = "running"
AtEnd(m) == move[m].next > Len(IF move[m].real THEN move[m].work ELSE PlanPhase)
Current(m) == move[m].work[move[m].next]
OnApp(m) == Current(m).app \in Apps
Advance(m, changes) ==
    move' = [move EXCEPT ![m] = [changes EXCEPT !.next = @ + 1,
                                                !.done = @ \cup {Current(m)}]]

\* RelocationService._resumable
Resumable(e) == move[e].status = "failed" /\ move[e].real /\ move[e].chosen

\* Mutant: the step that failed counts as done.
DoneAndFailedIn(e) == {k \in move[e].done : k.app # "plan"} \cup {Current(e)}

\* The keys of the steps that a move's phases show as done, but for the plan's.
DoneIn(e) == {k \in move[e].done : k.app # "plan"}

GotToWork(e) == \E k \in DoneIn(e) : k.app \in Apps
Best(e) == \A o \in Moves : Resumable(o) => IF o > e THEN ~ GotToWork(o) ELSE GotToWork(o) => GotToWork(e)

Quiet == \A m \in Moves : move[m].status \notin {"running", "crashed"}
NextMove(m) == move[m].status = "none" /\ \A o \in 1 .. m - 1 : move[o].status # "none"

\* RelocationService.start, of a move of its own.
StartMove(m, real) ==
    /\ Quiet /\ NextMove(m)
    /\ Careful => real /\ m = 1
    /\ move' = [move EXCEPT ![m] = [NoMove EXCEPT !.status = "running", !.real = real]]
    /\ UNCHANGED <<site, ready, lost, faults, intruders>>

\* RelocationService._confirm: a wrong password leaves the row of a failed
\* move, without choices.
ConfirmFails(m) ==
    /\ Quiet /\ NextMove(m)
    /\ ~ Careful
    /\ move' = [move EXCEPT ![m] = [NoMove EXCEPT !.status = "failed", !.real = TRUE,
                                                  !.chosen = FALSE]]
    /\ UNCHANGED <<site, ready, lost, faults, intruders>>

\* RelocationService.start, of a move that resumes e.
StartResume(m, e) ==
    /\ Quiet /\ NextMove(m)
    /\ Resumable(e)
    /\ Careful => Best(e)
    /\ move' = [move EXCEPT ![m] = [NoMove EXCEPT !.status = "running", !.real = TRUE,
                                                  !.of = e, !.before = DoneIn(e)]]
    /\ UNCHANGED <<site, ready, lost, faults, intruders>>

\* run_phase: what an earlier move has done is shown as done before.
SkipDone(m) ==
    /\ Running(m) /\ ~ AtEnd(m)
    /\ Current(m) \in move[m].before
    /\ Advance(m, move[m])
    /\ UNCHANGED <<site, ready, lost, faults, intruders>>

\* step_connect and open_target: both servers are reached, every time.
Connect(m) ==
    /\ Running(m) /\ ~ AtEnd(m)
    /\ Current(m).step = "connect"
    /\ Advance(m, move[m])
    /\ UNCHANGED <<site, ready, lost, faults, intruders>>

\* The steps of the preparation, which can all be repeated.
Prepare(m) ==
    /\ Running(m) /\ ~ AtEnd(m)
    /\ Current(m).app = "prepare"
    /\ Current(m) \notin move[m].before
    /\ Advance(m, move[m])
    /\ ready' = ready \cup {Current(m).step}
    /\ UNCHANGED <<site, lost, faults, intruders>>

\* step_inventory: the phases of the whole move; the backup and the row of an
\* application come from the phases of the move that is resumed.
Inventory(m) ==
    /\ Running(m) /\ ~ AtEnd(m)
    /\ Current(m).step = "inventory"
    /\ \E unread \in IF FactsMayFail THEN SUBSET Apps ELSE {{}} :
         LET seen == [a \in Apps |-> IF a \in unread THEN "" ELSE Place[a]]
             e == move[m].of
         IN Advance(m, [move[m] EXCEPT
              !.facts = seen,
              !.work = PlanPhase \o Keys("prepare", PrepareSteps)
                       \o FlattenSeq([i \in DOMAIN AppOrder |->
                            Keys(AppOrder[i], ApplicationSteps(AppOrder[i], seen[AppOrder[i]]))]),
              !.backup = IF e = 0 THEN {} ELSE move[e].backup,
              !.row = IF e = 0 THEN {} ELSE move[e].row])
    /\ UNCHANGED <<site, ready, lost, faults, intruders>>

Fault == faults < MaxFaults /\ faults' = faults + 1
Failed(m) == move' = [move EXCEPT ![m].status = "failed"]

\* step_evaluate
Evaluate(m) ==
    /\ Running(m) /\ ~ AtEnd(m)
    /\ Current(m).step = "evaluate"
    /\ IF StillBlocking(m) THEN Failed(m) ELSE Advance(m, move[m])
    /\ UNCHANGED <<site, ready, lost, faults, intruders>>

\* step_evaluate with what Survey.server_checks and space find in the way: an
\* unknown system, no sudo, no room; these block a resumed move too.
ServerBlocks(m) ==
    /\ Running(m) /\ ~ AtEnd(m)
    /\ Current(m).step = "evaluate"
    /\ Fault
    /\ Failed(m)
    /\ UNCHANGED <<site, ready, lost, intruders>>

Ready(m) == Running(m) /\ ~ AtEnd(m) /\ OnApp(m) /\ Current(m) \notin move[m].before

\* run_phase: the step is done and shown so.
StepDone(m) ==
    /\ Ready(m)
    /\ LET k == Current(m) IN
         /\ ~ Work(m, k).refuses
         /\ site' = [site EXCEPT ![k.app] = Work(m, k).done]
         /\ lost' = Overwritten(m, k)
         /\ Advance(m, [move[m] EXCEPT
              !.backup = IF k.step = "source_backup" THEN @ \cup {k.app} ELSE @,
              !.row = IF k.step = "register" THEN @ \cup {k.app} ELSE @])
    /\ UNCHANGED <<ready, faults, intruders>>

\* run_phase: the step refuses, and the move fails.
StepRefuses(m) ==
    /\ Ready(m)
    /\ Work(m, Current(m)).refuses
    /\ Failed(m)
    /\ UNCHANGED <<site, ready, lost, faults, intruders>>

\* What an application's step leaves on the new server when it ends in s.
Leaves(m, k, s) ==
    /\ site' = [site EXCEPT ![k.app] = s]
    /\ lost' = Overwritten(m, k)

\* run_phase: a command or a connection fails, before or after its effect.
StepFails(m) ==
    /\ Running(m) /\ ~ AtEnd(m)
    /\ Current(m) \notin move[m].before
    /\ Current(m).step # "evaluate"
    /\ Fault
    /\ \/ UNCHANGED <<site, lost>>
       \/ /\ Ready(m) /\ Torn
          /\ ~ Work(m, Current(m)).refuses
          /\ \E s \in Work(m, Current(m)).torn \cup {site[Current(m).app]} : Leaves(m, Current(m), s)
    /\ Failed(m)
    /\ UNCHANGED <<ready, intruders>>

\* The manager dies: the step may have come to its end unrecorded.
Crash(m) ==
    /\ Torn
    /\ Running(m) /\ ~ AtEnd(m)
    /\ Fault
    /\ \/ UNCHANGED <<site, lost>>
       \/ /\ Ready(m)
          /\ ~ Work(m, Current(m)).refuses
          /\ Leaves(m, Current(m), Work(m, Current(m)).done)
    /\ move' = [move EXCEPT ![m].status = "crashed"]
    /\ UNCHANGED <<ready, intruders>>

\* audit.interrupt ends the row of the dead manager's move as failed.
Recover(m) ==
    /\ move[m].status = "crashed"
    /\ Failed(m)
    /\ UNCHANGED <<site, ready, lost, faults, intruders>>

\* Move.run comes to its end; a rehearsal does so after its plan.
Finish(m) ==
    /\ Running(m) /\ AtEnd(m)
    /\ move' = [move EXCEPT ![m].status = "succeeded"]
    /\ UNCHANGED <<site, ready, lost, faults, intruders>>

\* Somebody else puts something where the move would put its own.
Intrude(a, p) ==
    /\ intruders < MaxIntruders
    /\ site[a][p] = "none"
    /\ site' = [site EXCEPT ![a][p] = "theirs"]
    /\ intruders' = intruders + 1
    /\ UNCHANGED <<move, ready, lost, faults>>

Run(m) == \/ SkipDone(m) \/ Connect(m) \/ Prepare(m) \/ Inventory(m) \/ Evaluate(m)
          \/ StepDone(m) \/ StepRefuses(m) \/ Recover(m) \/ Finish(m)

Resume(m) == \E e \in Moves : StartResume(m, e)

Next ==
    \/ \E m \in Moves : Run(m) \/ StepFails(m) \/ ServerBlocks(m) \/ Crash(m) \/ Resume(m) \/ ConfirmFails(m)
    \/ \E m \in Moves, real \in BOOLEAN : StartMove(m, real)
    \/ \E a \in Apps, p \in Parts : Intrude(a, p)

Spec == Init /\ [][Next]_vars

-----------------------------------------------------------------------------

(* "Nothing on the new server is written over" (docs/deploy-and-move.md):    *)
(* what somebody else put there, even while a move runs or waits to be       *)
(* resumed, stays theirs.  Images (see ImagesAreKept) and the services of a   *)
(* compose project of the same name apart.                                   *)
NothingWrittenOver ==
    \A a \in Apps, p \in Parts :
        /\ site[a][p] = "theirs"
        /\ p # "image" /\ (p = "up" => Kind[a] = "container")
        => site'[a][p] = "theirs"

(* A database on another machine, and the old application's own on the same  *)
(* machine, are migrated or restored over only by a move whose inventory did *)
(* not learn where the database is.                                          *)
OldDataIsKept == \A x \in lost : move[x.by].facts[x.app] = ""

(* A database on another machine "is shared by both servers, so the move      *)
(* never restores over it" (docs/deploy-and-move.md), whatever it could read. *)
OldDataAlwaysKept == lost = {}

(* A move that comes to restore an application has its backup, also when an  *)
(* earlier move of the chain took it.                                        *)
BackupIsKnown ==
    \A m \in Moves :
        Running(m) /\ ~ AtEnd(m) /\ Current(m).step = "restore" => Current(m).app \in move[m].backup

(* A move that succeeded has put everything of its applications in place:    *)
(* whatever it skipped, some move before it has really done.                 *)
SucceededIsComplete ==
    \A m \in Moves :
        move[m].status = "succeeded" /\ move[m].real =>
            \A a \in Apps :
                /\ site[a].folder = "ours" /\ site[a].row /\ site[a].plans = Plans
                /\ "extra" \in Has[a] => site[a].extra = "ours"
                /\ Kind[a] = "host" => \A p \in {"unit", "site"} \cap Has[a] : site[a][p] = "ours"
                /\ Kind[a] # "host" => /\ site[a].up = "ours"
                                       /\ "volume" \in Has[a] => site[a].volume = "ours"

=============================================================================
