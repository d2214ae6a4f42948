---------------------------- MODULE Applications ----------------------------
(***************************************************************************)
(* The applications the manager keeps (dbs/manager/applications/services/  *)
(* application_service.py): adding, changing, removing and checking them,  *)
(* reading their passphrase, and the password these ask for.               *)
(*                                                                         *)
(* A request reads the application's row, validates against what it read,  *)
(* then confirms a password or waits for a server, and only then writes    *)
(* the columns it was sent: BaseRepository.update saves exactly those.     *)
(* Requests run in threads of several instances, so `begin' and `write'    *)
(* are separate steps.  Fields stand for the groups the code tells apart:  *)
(* kind, engine, service, container, dir and python for RUN_FIELDS, soft   *)
(* for the rest of SETUP_FIELDS, name for UNGUARDED_FIELDS.                *)
(***************************************************************************)
EXTENDS Integers, FiniteSets, TLC

CONSTANTS
    Apps,       \* ids
    Requests,   \* request threads
    Users,
    Names,
    Created,    \* the settings an application may be added with
    Changes,    \* the changes a request may send: functions of some fields
    Findings,   \* what a check may find
    Typed,      \* what may be typed as the password: "", "right", "wrong"
    MaxWrites   \* bound on the requests in a behaviour

VARIABLES
    row,     \* row[a]: the application's row
    req,     \* req[r]: a request, with the row it read
    writes   \* requests begun

vars == <<row, req, writes>>

RUN_FIELDS == {"kind", "engine", "service", "container", "dir", "python"}
UNGUARDED_FIELDS == {"name"}
SETUP_FIELDS == RUN_FIELDS \cup {"soft"}
CONNECTION_ERRORS == {"host_key_changed", "auth_failed", "unreachable"}

Blank == [name |-> "", kind |-> "host", engine |-> "", service |-> "", container |-> "",
          dir |-> "", python |-> 1, soft |-> 1, pass |-> 0]
NoRow == Blank @@ [alive |-> FALSE, by |-> "", young |-> FALSE, status |-> "unknown",
                   error |-> "", problems |-> {}, ready |-> FALSE, steps |-> 0]
Idle == [pc |-> "idle"]

Alive(a) == row[a].alive
name_in_use(name, excluding) == \E a \in Apps \ excluding : Alive(a) /\ row[a].name = name

\* _runtime: what the changes leave unsaid is read from the current row
Value(changes, current, field) == IF field \in DOMAIN changes THEN changes[field]
                                  ELSE current[field]

Complete(kind, engine, service, container, dir) ==
    CASE kind = "host"      -> TRUE
      [] kind = "compose"   -> engine # "" /\ service # "" /\ dir # ""
      [] kind = "container" -> engine # "" /\ container # ""

_runtime(changes, current) ==
    Complete(Value(changes, current, "kind"), Value(changes, current, "engine"),
             Value(changes, current, "service"), Value(changes, current, "container"),
             Value(changes, current, "dir"))

\* moving to the host drops the engine
Cleaned(changes) ==
    IF "kind" \in DOMAIN changes /\ changes.kind = "host"
    THEN ("engine" :> "") @@ changes ELSE changes

changed_fields(application, changes) ==
    {f \in DOMAIN changes : f = "pass" \/ application[f] # changes[f]}

in_setup(user, application) ==
    application.by = user /\ application.young /\ application.status # "ok"

Free(user, application) ==
    UNGUARDED_FIELDS
    \cup IF in_setup(user, application) THEN SETUP_FIELDS \ RUN_FIELDS ELSE {}

---------------------------------------------------------------------------
(* Requests.  One that is refused changes nothing and is not shown, except *)
(* for a wrong password, which is only found out at the write.             *)

Init ==
    /\ row = [a \in Apps |-> NoRow]
    /\ req = [r \in Requests |-> Idle]
    /\ writes = 0

Begin(r, request) ==
    /\ req[r] = Idle /\ writes < MaxWrites
    /\ writes' = writes + 1
    /\ req' = [req EXCEPT ![r] = request]
    /\ UNCHANGED row

End(r) == req' = [req EXCEPT ![r] = Idle] /\ UNCHANGED writes

BeginCreate(r) ==
    \E a \in Apps, user \in Users, name \in Names, settings \in Created :
        /\ row[a] = NoRow
        /\ \A o \in Requests : req[o].pc = "create" => req[o].app # a
        /\ _runtime(settings, Blank)
        /\ ~name_in_use(name, {})
        /\ Begin(r, [pc |-> "create", app |-> a, user |-> user, typed |-> "right",
                     changes |-> ("name" :> name) @@ Cleaned(settings)])

BeginUpdate(r) ==
    \E a \in Apps, user \in Users, changes \in Changes, typed \in Typed :
        /\ Alive(a)
        /\ _runtime(changes, row[a])
        /\ ("name" \in DOMAIN changes => ~name_in_use(changes["name"], {a}))
        /\ (typed # "" \/ changed_fields(row[a], Cleaned(changes)) \subseteq Free(user, row[a]))
        /\ Begin(r, [pc |-> "update", app |-> a, user |-> user, typed |-> typed,
                     changes |-> Cleaned(changes)])

BeginDelete(r) ==
    \E a \in Apps, typed \in Typed \ {""} :
        Alive(a) /\ Begin(r, [pc |-> "delete", app |-> a, typed |-> typed])

BeginDeploySteps(r) ==
    \E a \in Apps, typed \in Typed \ {""} :
        Alive(a) /\ Begin(r, [pc |-> "steps", app |-> a, typed |-> typed])

BeginCapture(r) ==
    \E a \in Apps : Alive(a) /\ Begin(r, [pc |-> "capture", app |-> a, typed |-> ""])

BeginCheck(r) ==
    \E a \in Apps : Alive(a) /\ Begin(r, [pc |-> "check", app |-> a, typed |-> "",
                                          kind |-> row[a].kind])

\* confirm_password of what was typed, whether it was needed or not
Confirmed(r) == req[r].typed # "wrong"

\* the unique index on the names of the applications not removed
NameFree(name, a) == ~name_in_use(name, {a})

\* _saved: IntegrityError is name_taken
_saved(r, write) ==
    LET q == req[r] IN
    IF "name" \in DOMAIN q.changes /\ write.alive /\ ~NameFree(q.changes["name"], q.app)
    THEN UNCHANGED row
    ELSE row' = [row EXCEPT ![q.app] = write]

WriteCreate(r) ==
    /\ req[r].pc = "create"
    /\ _saved(r, req[r].changes @@ [NoRow EXCEPT !.alive = TRUE, !.by = req[r].user,
                                                 !.young = TRUE])
    /\ End(r)

WriteUpdate(r) ==
    /\ req[r].pc = "update"
    /\ IF Confirmed(r) THEN _saved(r, req[r].changes @@ row[req[r].app]) ELSE UNCHANGED row
    /\ End(r)

WriteDelete(r) ==
    /\ req[r].pc = "delete"
    /\ IF Confirmed(r) THEN row' = [row EXCEPT ![req[r].app].alive = FALSE] ELSE UNCHANGED row
    /\ End(r)

WriteDeploySteps(r) ==
    /\ req[r].pc = "steps"
    /\ IF Confirmed(r) THEN row' = [row EXCEPT ![req[r].app].steps = 1] ELSE UNCHANGED row
    /\ End(r)

\* the passphrase the application itself uses, or RemoteCommandFailed
WriteCapture(r) ==
    /\ req[r].pc = "capture"
    /\ \/ row' = [row EXCEPT ![req[r].app].pass = 9]
       \/ UNCHANGED row
    /\ End(r)

---------------------------------------------------------------------------
(* The check                                                               *)

\* what _inspect may find; a host application has no container
Reports(kind) ==
    {found \in Findings :
        /\ (found.engine = "") = (kind = "host")
        /\ (found.running => found.engine = "ok")
        /\ (kind = "host" => found.backups # "unmounted")
        /\ (kind # "host" => found.command # "")}

_problems(report) ==
    (CASE report.engine = "denied"  -> {"engine_permission_denied"}
       [] report.engine = "missing" -> {"engine_missing"}
       [] report.engine = "ok" /\ ~report.running -> {"container_not_running"}
       [] OTHER -> {})
    \cup (CASE report.version = 0 -> {"dbs_missing"}
            [] report.version = 1 -> {"dbs_too_old"}
            [] report.version = 2 -> IF report.command = "no" THEN {"backup_command_missing"} ELSE {})
    \cup (IF report.env = "no" THEN {"env_file_missing"} ELSE {})
    \cup (IF report.roots THEN {} ELSE {"root_missing"})
    \cup (CASE report.backups = "yes" -> {}
            [] report.backups = "unmounted" -> {"backup_dir_not_mounted"}
            [] report.backups = "no" -> {"backup_dir_missing"})

_ready(report) ==
    /\ (report.engine = "" \/ (report.engine = "ok" /\ report.running))
    /\ report.version # 0
    /\ report.command # "no"
    /\ report.env # "no"
    /\ report.roots
    /\ report.backups = "yes"

_record(a, status, error, problems) ==
    row' = [row EXCEPT ![a].status = status, ![a].error = error, ![a].problems = problems]

WriteCheck(r) ==
    /\ req[r].pc = "check"
    /\ \/ \E report \in Reports(req[r].kind) :
            _record(req[r].app, IF _ready(report) THEN "ok" ELSE "problem", "", _problems(report))
       \/ \E error \in CONNECTION_ERRORS : _record(req[r].app, "failed", error, {})
       \/ UNCHANGED row      \* any other error leaves the row as it was
    /\ End(r)

\* the hour after it was added ends
Age(a) ==
    /\ Alive(a) /\ row[a].young
    /\ row' = [row EXCEPT ![a].young = FALSE]
    /\ UNCHANGED <<req, writes>>

Step(r) ==
    \/ BeginCreate(r) \/ BeginUpdate(r) \/ BeginDelete(r) \/ BeginDeploySteps(r)
    \/ BeginCapture(r) \/ BeginCheck(r)
    \/ WriteCreate(r) \/ WriteUpdate(r) \/ WriteDelete(r) \/ WriteDeploySteps(r)
    \/ WriteCapture(r) \/ WriteCheck(r)

Next == (\E r \in Requests : Step(r)) \/ (\E a \in Apps : Age(a))

Spec == Init /\ [][Next]_vars

---------------------------------------------------------------------------
(* Properties                                                              *)

\* The writes of requests that confirmed the right password in this step.
WithPassword(a) ==
    \E r \in Requests : /\ req[r] # Idle /\ req'[r] = Idle
                        /\ req[r].app = a /\ req[r].typed = "right"

RunOf(application) == [f \in RUN_FIELDS |-> application[f]]

\* Two applications that are not removed never share a name, whatever requests
\* asked name_in_use before either was written.
UniqueNames ==
    \A a, b \in Apps : Alive(a) /\ Alive(b) /\ row[a].name = row[b].name => a = b

\* A Compose application has its engine, its service and its folder, a
\* container application its engine and its container ("a compose application
\* needs an engine, a service and a folder").
RuntimeComplete ==
    \A a \in Apps : Alive(a) =>
        Complete(row[a].kind, row[a].engine, row[a].service, row[a].container, row[a].dir)

\* Adding an application "asks for your password ... So does changing what it
\* runs ..., at any time": a run field of an application changes only in the
\* write of a request with the right password.
RunNeedsPassword ==
    \A a \in Apps : Alive(a) /\ RunOf(row'[a]) # RunOf(row[a]) => WithPassword(a)

\* "changes the other settings of an application it added until its check
\* passes; after that, those ask for your password too".
SetupEnds ==
    \A a \in Apps : Alive(a) /\ row[a].status = "ok" /\ row'[a].soft # row[a].soft
                    => WithPassword(a)

\* Only the account that added an application ever changes its other settings
\* without a password, whatever requests overlap.
OthersAsked ==
    \A a \in Apps : Alive(a) /\ row'[a].soft # row[a].soft /\ ~WithPassword(a)
      => \E r \in Requests : req[r] # Idle /\ req'[r] = Idle /\ req[r].app = a
                             /\ req[r].pc = "update" /\ req[r].user = row[a].by

\* A check that did not pass names the problem for which a next step is given,
\* or the connection error; one that passed names nothing but an old version.
ProblemsExplain ==
    \A a \in Apps :
        /\ (row[a].status = "problem" => row[a].problems # {})
        /\ (row[a].status = "failed" => row[a].error # "" /\ row[a].problems = {})
        /\ (row[a].status = "ok" => row[a].problems \subseteq {"dbs_too_old"})
=============================================================================
