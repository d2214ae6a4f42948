--------------------------- MODULE MCManagerParts ----------------------------
(* The parts of the manager that work on their own, checked in one run.  A
   behaviour is a behaviour of one part, named by part, on one of its
   instances: the states of the run are the sum of the states of the parts,
   and the variables v1, v2, ... stand for the variables of that part. *)
EXTENDS Integers, Sequences, FiniteSets, TLC

CONSTANTS None, Never, Manual, NoRun, Nobody, Shell,
          c1, c2   \* two requests

VARIABLES
    part,   \* the part of the system this behaviour is of
    v1, v2, v3, v4, v5, v6, v7, v8, v9, v10, v11, v12   \* its variables, in its own order

vars == <<part, v1, v2, v3, v4, v5, v6, v7, v8, v9, v10, v11, v12>>

\* Servers: rows of one machine, or of two.
OneMachine == [s \in {"web", "db"} |-> "x"]
TwoMachines == [s \in {"web", "db", "old"} |-> IF s = "web" THEN "x" ELSE "y"]
FirstKeys == [x \in {"x", "y"} |-> "k1"]

\* Applications: what the wizard creates, what a request changes, what a check finds.
HostSettings == "kind" :> "host"
ComposeSettings == [kind |-> "compose", engine |-> "docker", service |-> "web", dir |-> "/srv"]
ContainerSettings == [kind |-> "container", engine |-> "podman", container |-> "box"]
AllCreated == {HostSettings, ComposeSettings, ContainerSettings}
AllChanges ==
    {"soft" :> 2, "python" :> 2, "pass" :> 5, "service" :> "", "kind" :> "compose",
     [name |-> "n2", kind |-> "host", python |-> 1, soft |-> 1],
     [kind |-> "compose", engine |-> "docker", service |-> "web", dir |-> "/srv"],
     [kind |-> "container", engine |-> "docker"]}
NameChanges == {"name" :> "n1", "name" :> "n2", "soft" :> 2, "pass" :> 5}
AllFindings ==
    [engine : {"", "ok", "missing", "denied"}, running : BOOLEAN, version : 0 .. 2,
     command : {"", "yes", "no"}, env : {"", "yes", "no"}, roots : BOOLEAN,
     backups : {"yes", "no", "unmounted"}]
Finding(engine, version, backups) ==
    [engine |-> engine, running |-> engine = "ok", version |-> version, command |-> "yes",
     env |-> "", roots |-> TRUE, backups |-> backups]
FewFindings == {Finding("", 2, "yes"), Finding("ok", 1, "yes"), Finding("", 0, "no")}

\* Terminals: two browsers of one account and one of another.
ThreeBrowsers == {"b1", "b2", "b3"}
Whose == [b \in ThreeBrowsers |-> IF b = "b3" THEN "u2" ELSE "u1"]

\* Plans: names that make the same folder.
SlugOf == "Nightly" :> "nightly" @@ "nightly!" :> "nightly" @@ "weekly" :> "weekly"

\* Discovery: servers with an application on the host and in containers.
Nowhere == <<>>
Python(venv) == venv \o <<"bin", "python">>
Srv == <<"srv">>
App == <<"srv", "app">>
Sub == <<"srv", "app", "web">>
HomeDir == <<"home">>
Venv == <<"srv", "app", "venv">>
SubVenv == <<"srv", "app", "web", "venv">>

Own   == [uid |-> 7, gid |-> 7, group |-> TRUE, others |-> FALSE]
OfRoot  == [uid |-> 0, gid |-> 0, group |-> FALSE, others |-> FALSE]
Opened   == [uid |-> 7, gid |-> 7, group |-> TRUE, others |-> TRUE]
Shared == [uid |-> 7, gid |-> 9, group |-> TRUE, others |-> FALSE]

AllFolders == {<<>>, Srv, App, Sub, HomeDir, Venv, Append(Venv, "bin"),
               SubVenv, Append(SubVenv, "bin")}

Entries(srv, app, sub, venv) ==
    [f \in AllFolders |->
        CASE f = Srv -> srv [] f = App -> app [] f = Sub -> sub
          [] f \in {Venv, SubVenv} -> venv [] f = <<>> -> OfRoot [] OTHER -> Own]

NoLabels == [project |-> Nowhere, service |-> Nowhere, working_dir |-> Nowhere]
Labels(project, service, dir) == [project |-> project, service |-> service, working_dir |-> dir]
Bind(source, destination) == [type |-> "bind", source |-> source, destination |-> destination]
Volume(source, destination) == [type |-> "volume", source |-> source, destination |-> destination]
Tmpfs(destination) == [type |-> "tmpfs", source |-> Nowhere, destination |-> destination]

NoDatabase == [vendor |-> "", host |-> <<>>]
Postgres(host) == [vendor |-> "postgresql", host |-> host]
BackupDir == <<"app", "backups">>
Said(backup, env, database) ==
    [settings |-> TRUE, backup |-> backup, env |-> env, database |-> database, manage |-> TRUE]

OptPython == <<"opt", "venv", "bin", "python">>
ContainerRow(n, running, docker, podman, mounts, has, said) ==
    [name |-> <<n>>, running |-> running, docker |-> docker, podman |-> podman,
     workdir |-> <<"app">>, settings |-> IF has = <<>> THEN "invalid" ELSE "valid",
     pythons |-> <<>>, mounts |-> mounts, named |-> TRUE, has |-> has, dbs |-> said]

Holding(v) == (OptPython :> v)
Web(n, running, said) ==
    ContainerRow(n, running, Labels(<<50>>, <<60>>, App), NoLabels, <<Bind(App, <<"app">>)>>, Holding(2), said)
Db(n) == ContainerRow(n, TRUE, NoLabels, NoLabels, <<>>, <<>>, Said(Nowhere, Nowhere, NoDatabase))
Lone(n, mounts, has) == ContainerRow(n, TRUE, NoLabels, NoLabels, mounts, has,
                            Said(BackupDir, <<"app", ".env">>, Postgres(<<9>>)))

ServiceUnit(scope, name, folders) ==
    [kind |-> "unit", scope |-> scope, name |-> name, mentions |-> folders]
SiteFile(name, folders) ==
    [kind |-> "site", scope |-> "system", name |-> name, mentions |-> folders]

OnServer(entries, docker, podman) ==
    [entry |-> entries, venvs |-> <<Venv, SubVenv>>, projects |-> {App, Sub},
     files |-> {Append(App, ".env")}, envFiles |-> (App :> << <<"srv", "app", "web.env">> >>),
     declared |-> (App :> {<<60>>}), usable |-> {"docker", "podman"},
     containers |-> ("docker" :> docker @@ "podman" :> podman),
     hostHas |-> (Python(Venv) :> 2 @@ <<"python3">> :> 1), hostSettings |-> TRUE,
     hostDbs |-> Said(<<"var", "backups">>, Append(App, ".env"), Postgres(<<>>)),
     git |-> {App}, services |-> <<ServiceUnit("system", "app.service", {App}), ServiceUnit("user", "app.service", {App}),
                    SiteFile("app", {App}), ServiceUnit("system", "web.service", {Sub})>>]

AllOwn == Entries(OfRoot, Own, Own, Own)

\* folders of every owner, with and without manage.py in the folder given
TrustWorlds ==
    {[OnServer(Entries(srv, app, sub, venv), <<>>, <<>>) EXCEPT
         !.projects = p, !.hostHas = h] :
        srv \in {OfRoot, Own, Opened}, app \in {Own, Shared}, sub \in {Own, Opened, Shared},
        venv \in {Own, Opened}, p \in {{App, Sub}, {Sub}},
        h \in {Python(Venv) :> 2, Python(SubVenv) :> 1, <<"python">> :> 2}}

ContainerRows ==
    {<<>>, <<Web(1, TRUE, Said(BackupDir, Nowhere, NoDatabase))>>,
     <<Web(1, FALSE, Said(BackupDir, Nowhere, NoDatabase)),
       Web(2, TRUE, Said(<<"data">>, <<"app", ".env">>, Postgres(<<3>>))), Db(3)>>,
     <<Web(2, FALSE, Said(BackupDir, Nowhere, NoDatabase)), Db(4)>>,
     <<[Web(1, TRUE, Said(BackupDir, Nowhere, NoDatabase)) EXCEPT !.named = FALSE],
       Lone(2, <<Bind(App, <<"app">>), Volume(<<"vol">>, BackupDir)>>, Holding(1))>>,
     <<Lone(2, <<Bind(App, <<"app">>)>>, Holding(2)), Lone(3, <<Bind(App, <<"app">>)>>, <<>>),
       Web(4, TRUE, Said(BackupDir, Append(App, ".env"), Postgres(<<60>>)))>>}
PodmanRows ==
    {<<>>, <<ContainerRow(1, TRUE, NoLabels, Labels(<<50>>, <<60>>, Sub), <<Bind(Sub, <<"app">>)>>,
                 Holding(2), Said(BackupDir, Nowhere, [vendor |-> "mysql", host |-> <<0>>]))>>}

ContainerWorlds ==
    {[OnServer(AllOwn, d, p) EXCEPT !.hostHas = h, !.usable = u, !.projects = m] :
        d \in ContainerRows, p \in PodmanRows,
        h \in {Python(Venv) :> 2, <<"python3">> :> 1, <<"perl">> :> 2},
        u \in {{"docker"}, {"docker", "podman"}}, m \in {{App, Sub}, {}}}
SomeAnswers == {[runs_in |-> r, engine |-> "docker", database |-> "mariadb"] :
                 r \in {"", "host", "compose", "container"}}
NotSure == {[runs_in |-> "", engine |-> "", database |-> ""]}

\* Two applications moved, resumed after a fault, with strangers on the new
\* server.
Relocating == INSTANCE Relocation WITH
    Apps <- {"shop", "blog"}, AppOrder <- <<"shop", "blog">>,
    Kind <- [shop |-> "host", blog |-> "container"],
    Place <- [shop |-> "host_package", blog |-> "remote"],
    Has <- [a \in {"shop", "blog"} |-> {"volume", "unit", "extra", "site"}], SameMachine <- FALSE,
    FactsMayFail <- FALSE, Torn <- TRUE, Careful <- FALSE, Plans <- 2, MaxMoves <- 2,
    MaxFaults <- 1, MaxIntruders <- 1,
    move <- v1, site <- v2, ready <- v3, lost <- v4, faults <- v5, intruders <- v6

\* An application moved within one machine.
RelocatingHere == INSTANCE Relocation WITH
    Apps <- {"shop"}, AppOrder <- <<"shop">>, Kind <- [shop |-> "compose"],
    Place <- [shop |-> "compose_service"], Has <- [shop |-> {}], SameMachine <- TRUE,
    FactsMayFail <- TRUE, Torn <- TRUE, Careful <- FALSE, Plans <- 2, MaxMoves <- 2,
    MaxFaults <- 1, MaxIntruders <- 0,
    move <- v1, site <- v2, ready <- v3, lost <- v4, faults <- v5, intruders <- v6

\* An application with its database elsewhere, whose move is resumed and the
\* resumed move resumed again, and whose facts may stay unread.
RelocatingAgain == INSTANCE Relocation WITH
    Apps <- {"shop"}, AppOrder <- <<"shop">>, Kind <- [shop |-> "container"],
    Place <- [shop |-> "remote"], Has <- [shop |-> {"volume"}], SameMachine <- FALSE,
    FactsMayFail <- TRUE, Torn <- TRUE, Careful <- TRUE, Plans <- 1, MaxMoves <- 3,
    MaxFaults <- 2, MaxIntruders <- 0,
    move <- v1, site <- v2, ready <- v3, lost <- v4, faults <- v5, intruders <- v6

\* A redeploy and its revert, with a fault.
Redeploying == INSTANCE Redeploy WITH
    Apps <- {"a1", "a2"}, Jobs <- {1, 2}, Actions <- {"run", "revert"}, Routes <- {<<"a1", "a2">>},
    Rehearsals <- BOOLEAN, DeploySteps <- <<>>, AppKind <- [a1 |-> "compose", a2 |-> "host"],
    Schemas <- {"none", "current"}, EnvApps <- {"a1"}, Files <- {1, 2, 3}, MaxFaults <- 1,
    MaxCrashes <- 0, MaxUpkeep <- 0,
    app <- v1, files <- v2, jobs <- v3, lock <- v4, faults <- v5, crashes <- v6, upkeep <- v7

\* A deployment of new code, rehearsed or not, and its revert.
Deploying == INSTANCE Redeploy WITH
    Apps <- {"a1", "a2"}, Jobs <- {1, 2}, Actions <- {"deploy", "revert"}, Routes <- {},
    Rehearsals <- BOOLEAN, DeploySteps <- <<"git_pull", "migrate", "restart">>,
    AppKind <- [a1 |-> "compose", a2 |-> "host"], Schemas <- {"none", "behind", "current"},
    EnvApps <- {"a1"}, Files <- {1, 2, 3}, MaxFaults <- 1, MaxCrashes <- 0, MaxUpkeep <- 1,
    app <- v1, files <- v2, jobs <- v3, lock <- v4, faults <- v5, crashes <- v6, upkeep <- v7

\* One of either that a failure stops or the end of the manager, also onto an
\* application whose migrations are behind.
CutOff == INSTANCE Redeploy WITH
    Apps <- {"a1", "a2"}, Jobs <- {1}, Actions <- {"run", "deploy"}, Routes <- {<<"a2", "a1">>},
    Rehearsals <- BOOLEAN, DeploySteps <- <<"git_pull", "migrate", "restart">>,
    AppKind <- [a1 |-> "compose", a2 |-> "host"], Schemas <- {"none", "behind", "current"},
    EnvApps <- {"a1"}, Files <- {1, 2, 3}, MaxFaults <- 1, MaxCrashes <- 1, MaxUpkeep <- 0,
    app <- v1, files <- v2, jobs <- v3, lock <- v4, faults <- v5, crashes <- v6, upkeep <- v7

\* Two redeploys between the same applications, in opposite directions.
Crossing == INSTANCE Redeploy WITH
    Apps <- {"a1", "a2"}, Jobs <- {1, 2}, Actions <- {"run"},
    Routes <- {<<"a1", "a2">>, <<"a2", "a1">>}, Rehearsals <- {FALSE}, DeploySteps <- <<>>,
    AppKind <- [a1 |-> "compose", a2 |-> "host"], Schemas <- {"current"}, EnvApps <- {},
    Files <- 1 .. 5, MaxFaults <- 0, MaxCrashes <- 1, MaxUpkeep <- 0,
    app <- v1, files <- v2, jobs <- v3, lock <- v4, faults <- v5, crashes <- v6, upkeep <- v7

\* Two requests that add, rename, pin, check, merge and remove servers.
ServerRows == INSTANCE Servers WITH
    Server <- {"web", "db"}, Names <- {"n1", "n2"}, HostKeys <- {"k1", "k2"}, Apps <- {"a1"},
    Requests <- {"r1", "r2"}, Moves <- {}, Machine <- OneMachine, Presents <- FirstKeys,
    Ops <- {"create", "rename", "repin", "check", "merge", "delete", "signin", "addapp"},
    Sweeps <- FALSE, Expiry <- FALSE, MaxCrashes <- 0, MaxRequests <- 3,
    row <- v1, home <- v2, req <- v3, move <- v4, lock <- v5, janitor <- v6, crashes <- v7,
    requests <- v8, robbed <- v9

\* A move whose locks are swept or forgotten while servers change.
ServerSweep == INSTANCE Servers WITH
    Server <- {"web", "db"}, Names <- {"n1", "n2"}, HostKeys <- {"k1"}, Apps <- {},
    Requests <- {"r1"}, Moves <- {"m1"}, Machine <- OneMachine, Presents <- FirstKeys,
    Ops <- {"create", "move", "delete"}, Sweeps <- TRUE, Expiry <- TRUE, MaxCrashes <- 1,
    MaxRequests <- 3,
    row <- v1, home <- v2, req <- v3, move <- v4, lock <- v5, janitor <- v6, crashes <- v7,
    requests <- v8, robbed <- v9

\* Two moves between servers, and a crash.
ServerMoves == INSTANCE Servers WITH
    Server <- {"web", "db", "old"}, Names <- {"n1", "n2", "n3"}, HostKeys <- {"k1"}, Apps <- {},
    Requests <- {"r1", "r2"}, Moves <- {"m1", "m2"}, Machine <- TwoMachines, Presents <- FirstKeys,
    Ops <- {"move"}, Sweeps <- FALSE, Expiry <- FALSE, MaxCrashes <- 1, MaxRequests <- 3,
    row <- v1, home <- v2, req <- v3, move <- v4, lock <- v5, janitor <- v6, crashes <- v7,
    requests <- v8, robbed <- v9

\* Two moves of one machine whose locks are swept and forgotten, and a crash.
ServerLocksLost == INSTANCE Servers WITH
    Server <- {"web", "db"}, Names <- {"n1", "n2"}, HostKeys <- {"k1"}, Apps <- {},
    Requests <- {"r1", "r2"}, Moves <- {"m1", "m2"}, Machine <- OneMachine, Presents <- FirstKeys,
    Ops <- {"move"}, Sweeps <- TRUE, Expiry <- TRUE, MaxCrashes <- 1, MaxRequests <- 3,
    row <- v1, home <- v2, req <- v3, move <- v4, lock <- v5, janitor <- v6, crashes <- v7,
    requests <- v8, robbed <- v9

\* Backups made on a server and collected, with breaks and a crash.
Collecting == INSTANCE Collection WITH
    Backups <- {1, 2}, Rows <- {1, 2, 3}, Clocks <- {1, 2}, Passphrases <- {"p1"},
    HasFolder <- TRUE, Keep <- 1, KeepRemote <- 0, QuarantineKeep <- 1, ServerLimit <- 2,
    MaxCrashes <- 1, MaxDeletes <- 0, MaxUndos <- 0, MaxVerifies <- 0, MaxRekeys <- 0,
    MaxBreaks <- 2,
    srv <- v1, moment <- v2, sealed <- v3, row <- v4, stored <- v5, passphrase <- v6, run <- v7,
    kept <- v8, verifying <- v9, undoing <- v10, expiring <- v11, count <- v12

\* The same while the passphrase changes and a deletion is undone.
CollectingKeys == INSTANCE Collection WITH
    Backups <- {1, 2}, Rows <- {1, 2}, Clocks <- {1}, Passphrases <- {"p1", "p2"},
    HasFolder <- TRUE, Keep <- 1, KeepRemote <- 0, QuarantineKeep <- 1, ServerLimit <- 2,
    MaxCrashes <- 0, MaxDeletes <- 1, MaxUndos <- 1, MaxVerifies <- 1, MaxRekeys <- 1,
    MaxBreaks <- 0,
    srv <- v1, moment <- v2, sealed <- v3, row <- v4, stored <- v5, passphrase <- v6, run <- v7,
    kept <- v8, verifying <- v9, undoing <- v10, expiring <- v11, count <- v12

\* Three backups, one of which may stay on the server.
CollectingFew == INSTANCE Collection WITH
    Backups <- {1, 2, 3}, Rows <- 1 .. 4, Clocks <- {1, 2}, Passphrases <- {"p1"},
    HasFolder <- TRUE, Keep <- 1, KeepRemote <- 1, QuarantineKeep <- 1, ServerLimit <- 3,
    MaxCrashes <- 0, MaxDeletes <- 0, MaxUndos <- 0, MaxVerifies <- 0, MaxRekeys <- 0,
    MaxBreaks <- 1,
    srv <- v1, moment <- v2, sealed <- v3, row <- v4, stored <- v5, passphrase <- v6, run <- v7,
    kept <- v8, verifying <- v9, undoing <- v10, expiring <- v11, count <- v12

\* An upload beside a plan that collects a file under the same name, with a
\* fault and the expiry of what was deleted.
Storing == INSTANCE StoredFiles WITH
    Uploads <- {"u1"}, Files <- {1}, Plan <- "collect", Keep <- 1, KeepRemote <- 1, MaxPlaces <- 2,
    MaxRuns <- 2, MaxWrites <- 1, MaxFaults <- 1, MaxCrashes <- 0, MaxDeletes <- 1, MaxExpiries <- 2,
    disk <- v1, row <- v2, work <- v3, job <- v4, server <- v5, remote <- v6, expiring <- v7,
    left <- v8, count <- v9, haunted <- v10

\* Two uploads and a plan that collects two files, cut short by a crash.
StoringCrash == INSTANCE StoredFiles WITH
    Uploads <- {"u1", "u2"}, Files <- {1, 2}, Plan <- "collect", Keep <- 1, KeepRemote <- 1,
    MaxPlaces <- 3, MaxRuns <- 2, MaxWrites <- 0, MaxFaults <- 1, MaxCrashes <- 1, MaxDeletes <- 0,
    MaxExpiries <- 0,
    disk <- v1, row <- v2, work <- v3, job <- v4, server <- v5, remote <- v6, expiring <- v7,
    left <- v8, count <- v9, haunted <- v10

\* Two uploads beside a plan, a deletion, and a crash in the middle of expiry.
StoringHalf == INSTANCE StoredFiles WITH
    Uploads <- {"u1", "u2"}, Files <- {1}, Plan <- "collect", Keep <- 1, KeepRemote <- 1,
    MaxPlaces <- 2, MaxRuns <- 1, MaxWrites <- 0, MaxFaults <- 0, MaxCrashes <- 1, MaxDeletes <- 1,
    MaxExpiries <- 2,
    disk <- v1, row <- v2, work <- v3, job <- v4, server <- v5, remote <- v6, expiring <- v7,
    left <- v8, count <- v9, haunted <- v10

\* A plan that archives, with a fault and the expiry of older archives.
Archiving == INSTANCE StoredFiles WITH
    Uploads <- {"u1"}, Files <- {1}, Plan <- "archive", Keep <- 1, KeepRemote <- 1, MaxPlaces <- 1,
    MaxRuns <- 3, MaxWrites <- 0, MaxFaults <- 1, MaxCrashes <- 0, MaxDeletes <- 0, MaxExpiries <- 2,
    disk <- v1, row <- v2, work <- v3, job <- v4, server <- v5, remote <- v6, expiring <- v7,
    left <- v8, count <- v9, haunted <- v10

\* Applications in containers, for every answer about them.
Discovering == INSTANCE Discovery WITH
    Worlds <- ContainerWorlds, AnswerSets <- SomeAnswers, Chosen <- App, Home <- HomeDir,
    CANDIDATES_PROBED <- 4, CONTAINERS_INSPECTED <- 4, PROBES_PER_SEARCH <- 4,
    SERVICE_FILES_READ <- 3, MaxFailures <- 1,
    pc <- v1, world <- v2, answers <- v3, failures <- v4, report <- v5, listing <- v6,
    neighbours <- v7, todo <- v8, places <- v9, ran <- v10, check <- v11

\* Folders of every owner.
DiscoveringTrust == INSTANCE Discovery WITH
    Worlds <- TrustWorlds, AnswerSets <- NotSure, Chosen <- App, Home <- HomeDir,
    CANDIDATES_PROBED <- 4, CONTAINERS_INSPECTED <- 4, PROBES_PER_SEARCH <- 4,
    SERVICE_FILES_READ <- 3, MaxFailures <- 1,
    pc <- v1, world <- v2, answers <- v3, failures <- v4, report <- v5, listing <- v6,
    neighbours <- v7, todo <- v8, places <- v9, ran <- v10, check <- v11

\* Two requests on two applications.
TwoApplications == INSTANCE Applications WITH
    Apps <- {"a1", "a2"}, Requests <- {"r1", "r2"}, Users <- {"ann", "bob"}, Names <- {"n1", "n2"},
    Created <- {HostSettings}, Changes <- NameChanges,
    Findings <- {Finding("", 2, "yes"), Finding("", 0, "no")}, Typed <- {"", "right"},
    MaxWrites <- 3,
    row <- v1, req <- v2, writes <- v3

\* One request at a time, on every kind of application.
OneApplication == INSTANCE Applications WITH
    Apps <- {"a1"}, Requests <- {"r1"}, Users <- {"ann", "bob"}, Names <- {"n1", "n2"},
    Created <- AllCreated, Changes <- AllChanges, Findings <- FewFindings,
    Typed <- {"", "right", "wrong"}, MaxWrites <- 3,
    row <- v1, req <- v2, writes <- v3

\* Every outcome of a check.
CheckedApplication == INSTANCE Applications WITH
    Apps <- {"a1"}, Requests <- {"r1"}, Users <- {"ann"}, Names <- {"n1"}, Created <- AllCreated,
    Changes <- {"soft" :> 2}, Findings <- AllFindings, Typed <- {"", "right"}, MaxWrites <- 2,
    row <- v1, req <- v2, writes <- v3

\* The first accounts, made by the wizard and by hand at once.
AccountSetup == INSTANCE Accounts WITH
    Names <- {"ann", "bob"}, Clients <- {"c1", "c2"}, Ops <- {"setup", "create", "run"},
    Given <- {"viewer", "master"}, Orphans <- {},
    user <- v1, role <- v2, active <- v3, change <- v4, req <- v5, lease <- v6, token <- v7

\* The master role handed over.
AccountHandOver == INSTANCE Accounts WITH
    Names <- {"ann", "bob", "cid"}, Clients <- {"c1", "c2"}, Ops <- {"create", "hand"},
    Given <- {"viewer"}, Orphans <- {},
    user <- v1, role <- v2, active <- v3, change <- v4, req <- v5, lease <- v6, token <- v7

\* Accounts that have no role yet.
AccountOrphans == INSTANCE Accounts WITH
    Names <- {"ann", "bob"}, Clients <- {"c1", "c2"}, Ops <- {"make", "hand", "list", "create"},
    Given <- {"viewer"}, Orphans <- {"ann", "bob"},
    user <- v1, role <- v2, active <- v3, change <- v4, req <- v5, lease <- v6, token <- v7

\* Every change to an account.
AccountRoles == INSTANCE Accounts WITH
    Names <- {"ann", "bob"}, Clients <- {"c1", "c2"}, Ops <- {"create", "role", "active", "expire"},
    Given <- {"viewer", "operator"}, Orphans <- {},
    user <- v1, role <- v2, active <- v3, change <- v4, req <- v5, lease <- v6, token <- v7

\* A change of role beside a hand-over of the master role.
AccountMaster == INSTANCE Accounts WITH
    Names <- {"ann", "bob"}, Clients <- {"c1", "c2"}, Ops <- {"create", "role", "hand"},
    Given <- {"viewer", "operator"}, Orphans <- {},
    user <- v1, role <- v2, active <- v3, change <- v4, req <- v5, lease <- v6, token <- v7

\* Passwords tried from two addresses.
Limits == INSTANCE Attempts WITH
    Requests <- {"r1"}, Addresses <- {"h1", "h2"}, Passwords <- {"right", "wrong"}, PerUser <- 2,
    PerAddress <- 3, MaxAttempts <- 4, MaxExpiries <- 1,
    count <- v1, waiting <- v2, known <- v3, req <- v4, tried <- v5, attempts <- v6, expiries <- v7

\* The right password, often.
LimitsRight == INSTANCE Attempts WITH
    Requests <- {"r1"}, Addresses <- {"h1"}, Passwords <- {"right"}, PerUser <- 1, PerAddress <- 2,
    MaxAttempts <- 6, MaxExpiries <- 2,
    count <- v1, waiting <- v2, known <- v3, req <- v4, tried <- v5, attempts <- v6, expiries <- v7

\* One browser that enrols and signs in.
SigningIn == INSTANCE SignIn WITH
    Browsers <- {"b1"}, Requests <- {"r1"}, Ops <- {"code", "recovery", "show", "enroll"},
    Enrolled <- FALSE, RECOVERY_CODES <- 2, Pending <- 1, MaxNow <- 2, MaxRequests <- 6,
    MaxSets <- 2,
    now <- v1, acct <- v2, sess <- v3, req <- v4, secrets <- v5, sets <- v6, accepted <- v7,
    used <- v8, passwords <- v9, signIns <- v10, requests <- v11, again <- v12

\* A form sent twice by one browser.
SigningInAgain == INSTANCE SignIn WITH
    Browsers <- {"b1"}, Requests <- {"r1", "r2"}, Ops <- {"code", "recovery"},
    Enrolled <- TRUE, RECOVERY_CODES <- 2, Pending <- 1, MaxNow <- 1, MaxRequests <- 4, MaxSets <- 1,
    now <- v1, acct <- v2, sess <- v3, req <- v4, secrets <- v5, sets <- v6, accepted <- v7,
    used <- v8, passwords <- v9, signIns <- v10, requests <- v11, again <- v12

\* Two browsers with the codes of one account.
SigningInTwice == INSTANCE SignIn WITH
    Browsers <- {"b1", "b2"}, Requests <- {"r1", "r2"}, Ops <- {"code", "recovery"},
    Enrolled <- TRUE, RECOVERY_CODES <- 1, Pending <- 1, MaxNow <- 2, MaxRequests <- 3, MaxSets <- 2,
    now <- v1, acct <- v2, sess <- v3, req <- v4, secrets <- v5, sets <- v6, accepted <- v7,
    used <- v8, passwords <- v9, signIns <- v10, requests <- v11, again <- v12

\* Tickets for downloads, used twice and by others.
Downloads == INSTANCE Tickets WITH
    Users <- {"u1", "u2"}, Requests <- {"r1", "r2"}, Files <- {"env", "link"}, Named <- {"env"},
    Guarded <- {"env", "link"}, MaxIssued <- 1, MaxAsked <- 2,
    ticket <- v1, issued <- v2, missing <- v3, req <- v4, paid <- v5, served <- v6, asked <- v7

\* A start, an import and a crash, with a key ring that may fail.
Folder == INSTANCE DataFolder WITH
    Procs <- {"p1"}, Store <- "unset", RingStates <- {"works", "locked", "flaky"}, MaxKeys <- 6,
    MaxImports <- 1, MaxCrashes <- 1,
    folder <- v1, ring <- v2, state <- v3, proc <- v4, exports <- v5, made <- v6, imports <- v7,
    crashes <- v8, started <- v9, wrong <- v10

\* Two imports, each cut short by a crash.
FolderImports == INSTANCE DataFolder WITH
    Procs <- {"p1"}, Store <- "unset", RingStates <- {"works"}, MaxKeys <- 8, MaxImports <- 2,
    MaxCrashes <- 2,
    folder <- v1, ring <- v2, state <- v3, proc <- v4, exports <- v5, made <- v6, imports <- v7,
    crashes <- v8, started <- v9, wrong <- v10

\* The key in a file by choice.
FolderFile == INSTANCE DataFolder WITH
    Procs <- {"p1"}, Store <- "file", RingStates <- {"works"}, MaxKeys <- 8, MaxImports <- 2,
    MaxCrashes <- 1,
    folder <- v1, ring <- v2, state <- v3, proc <- v4, exports <- v5, made <- v6, imports <- v7,
    crashes <- v8, started <- v9, wrong <- v10

\* Keys of a server that changes its key, decided in time or not.
KnownHosts == INSTANCE HostKeys WITH
    Requesters <- {"r1"}, Deciders <- {"d1"}, Adders <- {"a1"}, Ids <- {"i1", "i2"},
    Addresses <- {"h1"}, Keys <- {"k1"}, Lifetime <- 1, MaxTime <- 2, MaxChanges <- 0,
    now <- v1, presents <- v2, entry <- v3, index <- v4, req <- v5, dec <- v6, add <- v7,
    servers <- v8, connected <- v9, asked <- v10, said <- v11, changes <- v12

\* Two people who decide about the keys of two servers.
KnownHostsTwo == INSTANCE HostKeys WITH
    Requesters <- {"r1"}, Deciders <- {"d1", "d2"}, Adders <- {"a1"}, Ids <- {"i1"},
    Addresses <- {"h1", "h2"}, Keys <- {"k1", "k2"}, Lifetime <- 1, MaxTime <- 0, MaxChanges <- 1,
    now <- v1, presents <- v2, entry <- v3, index <- v4, req <- v5, dec <- v6, add <- v7,
    servers <- v8, connected <- v9, asked <- v10, said <- v11, changes <- v12

\* A plan that is edited while it runs.
OnePlan == INSTANCE Plans WITH
    PlanIds <- {"p1"}, Editors <- {"e1"}, Runs <- {"r1", "r2"}, Names <- {"weekly"}, Slug <- SlugOf,
    Intervals <- {2, Manual}, Keeps <- {1, 2}, MaxTime <- 3,
    now <- v1, plan <- v2, edit <- v3, run <- v4, lock <- v5, unasked <- v6, crossed <- v7

\* A plan that two people edit at once.
PlanEditors == INSTANCE Plans WITH
    PlanIds <- {"p1"}, Editors <- {"e1", "e2"}, Runs <- {}, Names <- {"weekly"}, Slug <- SlugOf,
    Intervals <- {2}, Keeps <- {1, 2, 3}, MaxTime <- 1,
    now <- v1, plan <- v2, edit <- v3, run <- v4, lock <- v5, unasked <- v6, crossed <- v7

\* Two plans with names that make the same folder, named by two people.
PlanNames == INSTANCE Plans WITH
    PlanIds <- {"p1", "p2"}, Editors <- {"e1", "e2"}, Runs <- {},
    Names <- {"Nightly", "nightly!", "weekly"}, Slug <- SlugOf, Intervals <- {Manual}, Keeps <- {1},
    MaxTime <- 0,
    now <- v1, plan <- v2, edit <- v3, run <- v4, lock <- v5, unasked <- v6, crossed <- v7

\* The times of a plan across a change of the clocks.
Timing == INSTANCE PlanTiming WITH
    Day <- 4, Intervals <- {1, 2, 4, 8}, Anchors <- 4 .. 6, MaxTime <- 16,
    interval <- v1, anchor <- v2, change <- v3, before <- v4, then <- v5, moment <- v6, next <- v7,
    last <- v8

\* Instances of the manager that take the lease in turn.
Scheduling == INSTANCE Ticks WITH
    Instances <- {"i1", "i2"}, LeaseSeconds <- 2, Interval <- 2, InTime <- TRUE, MaxTime <- 3,
    now <- v1, lease <- v2, proc <- v3, found <- v4, tick <- v5, due <- v6, claims <- v7

\* The same when the one that serves may be late.
SchedulingSlow == INSTANCE Ticks WITH
    Instances <- {"i1", "i2"}, LeaseSeconds <- 2, Interval <- 2, InTime <- FALSE, MaxTime <- 3,
    now <- v1, lease <- v2, proc <- v3, found <- v4, tick <- v5, due <- v6, claims <- v7

\* Two uploads to one place.
Uploading == INSTANCE RemoteFiles WITH
    Clients <- {c1, c2}, Ops <- {"upload", "push", "delete"}, Size <- 2, Inside <- FALSE,
    MaxFaults <- 1, MaxEdits <- 1,
    file <- v1, part <- v2, req <- v3, versions <- v4, faults <- v5, edits <- v6

\* An env file replaced and read.
ReplacingEnv == INSTANCE RemoteFiles WITH
    Clients <- {c1, c2}, Ops <- {"replace", "pull"}, Size <- 1, Inside <- FALSE, MaxFaults <- 0,
    MaxEdits <- 1,
    file <- v1, part <- v2, req <- v3, versions <- v4, faults <- v5, edits <- v6

\* The same in a container.
ReplacingInside == INSTANCE RemoteFiles WITH
    Clients <- {c1}, Ops <- {"replace"}, Size <- 2, Inside <- TRUE, MaxFaults <- 2, MaxEdits <- 1,
    file <- v1, part <- v2, req <- v3, versions <- v4, faults <- v5, edits <- v6

\* A download while the file is replaced.
Reading == INSTANCE RemoteFiles WITH
    Clients <- {c1, c2}, Ops <- {"download", "replace"}, Size <- 2, Inside <- FALSE, MaxFaults <- 0,
    MaxEdits <- 0,
    file <- v1, part <- v2, req <- v3, versions <- v4, faults <- v5, edits <- v6

\* Commands on a server, fed or run, one after another over a slow connection.
Running == INSTANCE RemoteCommand WITH
    Kinds <- {"run", "feed"}, Seconds <- 2, Kill <- 1, Margin <- 1, Idle <- 2, Delay <- 1, Notice <- 1,
    Chunks <- 0, OnHost <- TRUE, Inside <- FALSE, Container <- FALSE, MaxCalls <- 2, MaxTime <- 6,
    now <- v1, up <- v2, cut <- v3, proc <- v4, call <- v5, last <- v6, settle <- v7

\* The same inside a container.
RunningInside == INSTANCE RemoteCommand WITH
    Kinds <- {"run"}, Seconds <- 2, Kill <- 1, Margin <- 1, Idle <- 2, Delay <- 1, Notice <- 1,
    Chunks <- 0, OnHost <- FALSE, Inside <- TRUE, Container <- TRUE, MaxCalls <- 2, MaxTime <- 6,
    now <- v1, up <- v2, cut <- v3, proc <- v4, call <- v5, last <- v6, settle <- v7

\* A command whose output is streamed over a slow connection.
RunningStream == INSTANCE RemoteCommand WITH
    Kinds <- {"stream", "feed"}, Seconds <- 4, Kill <- 1, Margin <- 1, Idle <- 2, Delay <- 1,
    Notice <- 1, Chunks <- 2, OnHost <- TRUE, Inside <- FALSE, Container <- FALSE, MaxCalls <- 1,
    MaxTime <- 9,
    now <- v1, up <- v2, cut <- v3, proc <- v4, call <- v5, last <- v6, settle <- v7

\* Terminals of two accounts, with a change to an account.
Shells == INSTANCE Terminals WITH
    Users <- {"u1", "u2"}, Browsers <- ThreeBrowsers, UserOf <- Whose, Terms <- {1, 2},
    MaxOpen <- 2, PerAccount <- 1, MaxChanges <- 1, MaxFaults <- 0, Listing <- ThreeBrowsers,
    account <- v1, signedIn <- v2, opening <- v3, reserved <- v4, term <- v5, stopped <- v6,
    changes <- v7, faults <- v8, leaked <- v9, closer <- v10

\* The output of a terminal in two tabs, with a lost answer.
Screen == INSTANCE TerminalStream WITH
    Tabs <- {"t1"}, Capacity <- 2, ReadMax <- 1, MaxOutput <- 3, MaxKeys <- 0, MaxLost <- 1,
    Attentive <- FALSE,
    chan <- v1, buf <- v2, reader <- v3, ses <- v4, tab <- v5, keys <- v6, lost <- v7

\* Keys sent again after lost answers.
Typing == INSTANCE TerminalStream WITH
    Tabs <- {"t1"}, Capacity <- 2, ReadMax <- 1, MaxOutput <- 0, MaxKeys <- 3, MaxLost <- 2,
    Attentive <- FALSE,
    chan <- v1, buf <- v2, reader <- v3, ses <- v4, tab <- v5, keys <- v6, lost <- v7

\* For the promises below: one session of the panel whose requests overlap.
Guarding == INSTANCE SessionGuard WITH
    Keys <- {"k1"}, Reqs <- {"q1", "q2"}, Nets <- {"n1"}, Agents <- {"a1"},
    Kinds <- {"write", "download", "poll"}, Trusted <- {}, Expected <- {}, ModelScores <- {0, 60},
    Travels <- {0}, WarnAt <- 60, LogoutAt <- 85, LearningLogins <- 0, IdleTimeout <- 1,
    Resolution <- 1, Enforce <- TRUE, Many <- FALSE, MaxClock <- 2,
    ses <- v1, req <- v2, events <- v3, recent <- v4, locked <- v5, clock <- v6, real <- v7,
    warned <- v8, blocked <- v9, overtaken <- v10

\* Its sessions counted while two processes purge.
Purging == INSTANCE GuardHistory WITH
    Sessions <- {"k1", "k2"}, Procs <- {"p1", "p2"}, MaxFaults <- 0, MaxSeen <- 4, Returns <- FALSE,
    young <- v1, old <- v2, counter <- v3, due <- v4, purge <- v5, ever <- v6, faults <- v7,
    crossed <- v8

ASSUME PartsAssumption ==
    /\ Relocating!RelocationAssumption /\ RelocatingHere!RelocationAssumption
    /\ Redeploying!RedeployAssumption /\ Deploying!RedeployAssumption
    /\ Crossing!RedeployAssumption /\ ServerRows!ServersAssumption
    /\ ServerSweep!ServersAssumption /\ ServerMoves!ServersAssumption
    /\ ServerLocksLost!ServersAssumption /\ StoringHalf!StoredFilesAssumption
    /\ RelocatingAgain!RelocationAssumption /\ CutOff!RedeployAssumption
    /\ AccountMaster!AccountsAssumption /\ SigningInAgain!SignInAssumption
    /\ Collecting!CollectionAssumption /\ CollectingKeys!CollectionAssumption
    /\ CollectingFew!CollectionAssumption /\ Storing!StoredFilesAssumption
    /\ StoringCrash!StoredFilesAssumption /\ Archiving!StoredFilesAssumption
    /\ AccountSetup!AccountsAssumption /\ AccountHandOver!AccountsAssumption
    /\ AccountOrphans!AccountsAssumption /\ AccountRoles!AccountsAssumption
    /\ Limits!LimitsAssumption /\ LimitsRight!LimitsAssumption
    /\ SigningIn!SignInAssumption /\ SigningInTwice!SignInAssumption
    /\ Downloads!TicketsAssumption /\ Folder!DataFolderAssumption
    /\ FolderImports!DataFolderAssumption /\ FolderFile!DataFolderAssumption
    /\ KnownHosts!LifetimeAssumption /\ KnownHostsTwo!LifetimeAssumption
    /\ Timing!TimingAssumption /\ Scheduling!TicksAssumption
    /\ SchedulingSlow!TicksAssumption /\ Uploading!FilesAssumption
    /\ ReplacingEnv!FilesAssumption /\ ReplacingInside!FilesAssumption
    /\ Reading!FilesAssumption /\ Running!CommandAssumption
    /\ RunningInside!CommandAssumption /\ RunningStream!CommandAssumption
    /\ Shells!TerminalsAssumption
    /\ Screen!StreamAssumption /\ Typing!StreamAssumption
    /\ Guarding!GuardAssumption /\ Purging!HistoryAssumption

-----------------------------------------------------------------------------
\* The variables a part does not have stay blank.
Blank12 == v12 = 0
Same12 == v12' = v12
Blank11 == v11 = 0 /\ Blank12
Same11 == v11' = v11 /\ Same12
Blank10 == v10 = 0 /\ Blank11
Same10 == v10' = v10 /\ Same11
Blank9 == v9 = 0 /\ Blank10
Same9 == v9' = v9 /\ Same10
Blank8 == v8 = 0 /\ Blank9
Same8 == v8' = v8 /\ Same9
Blank7 == v7 = 0 /\ Blank8
Same7 == v7' = v7 /\ Same8
Blank6 == v6 = 0 /\ Blank7
Same6 == v6' = v6 /\ Same7
Blank5 == v5 = 0 /\ Blank6
Same5 == v5' = v5 /\ Same6
Blank4 == v4 = 0 /\ Blank5
Same4 == v4' = v4 /\ Same5

Init ==
    \/ part = "relocation" /\ Relocating!Init /\ Blank7
    \/ part = "same machine" /\ RelocatingHere!Init /\ Blank7
    \/ part = "resumed again" /\ RelocatingAgain!Init /\ Blank7
    \/ part = "redeploy" /\ Redeploying!Init /\ Blank8
    \/ part = "deploy" /\ Deploying!Init /\ Blank8
    \/ part = "cut off" /\ CutOff!Init /\ Blank8
    \/ part = "crossing" /\ Crossing!Init /\ Blank8
    \/ part = "servers" /\ ServerRows!Init /\ Blank10
    \/ part = "sweep" /\ ServerSweep!Init /\ Blank10
    \/ part = "server locks" /\ ServerMoves!Init /\ Blank10
    \/ part = "locks lost" /\ ServerLocksLost!Init /\ Blank10
    \/ part = "collection" /\ Collecting!Init
    \/ part = "passphrases" /\ CollectingKeys!Init
    \/ part = "on server" /\ CollectingFew!Init
    \/ part = "stored files" /\ Storing!Init /\ Blank11
    \/ part = "stored crash" /\ StoringCrash!Init /\ Blank11
    \/ part = "stored half" /\ StoringHalf!Init /\ Blank11
    \/ part = "archives" /\ Archiving!Init /\ Blank11
    \/ part = "discovery" /\ Discovering!Init /\ Blank12
    \/ part = "discovery trust" /\ DiscoveringTrust!Init /\ Blank12
    \/ part = "applications" /\ TwoApplications!Init /\ Blank4
    \/ part = "one application" /\ OneApplication!Init /\ Blank4
    \/ part = "check" /\ CheckedApplication!Init /\ Blank4
    \/ part = "setup" /\ AccountSetup!Init /\ Blank8
    \/ part = "hand over" /\ AccountHandOver!Init /\ Blank8
    \/ part = "orphans" /\ AccountOrphans!Init /\ Blank8
    \/ part = "roles" /\ AccountRoles!Init /\ Blank8
    \/ part = "master role" /\ AccountMaster!Init /\ Blank8
    \/ part = "attempts" /\ Limits!Init /\ Blank8
    \/ part = "often" /\ LimitsRight!Init /\ Blank8
    \/ part = "sign in" /\ SigningIn!Init
    \/ part = "form twice" /\ SigningInAgain!Init
    \/ part = "codes" /\ SigningInTwice!Init
    \/ part = "tickets" /\ Downloads!Init /\ Blank8
    \/ part = "data folder" /\ Folder!Init /\ Blank11
    \/ part = "imports" /\ FolderImports!Init /\ Blank11
    \/ part = "key file" /\ FolderFile!Init /\ Blank11
    \/ part = "host keys" /\ KnownHosts!Init
    \/ part = "deciders" /\ KnownHostsTwo!Init
    \/ part = "plans" /\ OnePlan!Init /\ Blank8
    \/ part = "two editors" /\ PlanEditors!Init /\ Blank8
    \/ part = "plan names" /\ PlanNames!Init /\ Blank8
    \/ part = "timing" /\ Timing!Init /\ Blank9
    \/ part = "ticks" /\ Scheduling!Init /\ Blank8
    \/ part = "slow ticks" /\ SchedulingSlow!Init /\ Blank8
    \/ part = "uploads" /\ Uploading!Init /\ Blank7
    \/ part = "env files" /\ ReplacingEnv!Init /\ Blank7
    \/ part = "env inside" /\ ReplacingInside!Init /\ Blank7
    \/ part = "reads" /\ Reading!Init /\ Blank7
    \/ part = "command" /\ Running!Init /\ Blank8
    \/ part = "command inside" /\ RunningInside!Init /\ Blank8
    \/ part = "command stream" /\ RunningStream!Init /\ Blank8
    \/ part = "terminals" /\ Shells!Init /\ Blank11
    \/ part = "terminal" /\ Screen!Init /\ Blank8
    \/ part = "keys" /\ Typing!Init /\ Blank8

Next ==
    \/ part = "relocation" /\ part' = part /\ Relocating!Next /\ Same7
    \/ part = "same machine" /\ part' = part /\ RelocatingHere!Next /\ Same7
    \/ part = "resumed again" /\ part' = part /\ RelocatingAgain!Next /\ Same7
    \/ part = "redeploy" /\ part' = part /\ Redeploying!Next /\ Same8
    \/ part = "deploy" /\ part' = part /\ Deploying!Next /\ Same8
    \/ part = "cut off" /\ part' = part /\ CutOff!Next /\ Same8
    \/ part = "crossing" /\ part' = part /\ Crossing!Next /\ Same8
    \/ part = "servers" /\ part' = part /\ ServerRows!Next /\ Same10
    \/ part = "sweep" /\ part' = part /\ ServerSweep!Next /\ Same10
    \/ part = "server locks" /\ part' = part /\ ServerMoves!Next /\ Same10
    \/ part = "locks lost" /\ part' = part /\ ServerLocksLost!Next /\ Same10
    \/ part = "collection" /\ part' = part /\ Collecting!Next
    \/ part = "passphrases" /\ part' = part /\ CollectingKeys!Next
    \/ part = "on server" /\ part' = part /\ CollectingFew!Next
    \/ part = "stored files" /\ part' = part /\ Storing!Next /\ Same11
    \/ part = "stored crash" /\ part' = part /\ StoringCrash!Next /\ Same11
    \/ part = "stored half" /\ part' = part /\ StoringHalf!Next /\ Same11
    \/ part = "archives" /\ part' = part /\ Archiving!Next /\ Same11
    \/ part = "discovery" /\ part' = part /\ Discovering!Next /\ Same12
    \/ part = "discovery trust" /\ part' = part /\ DiscoveringTrust!Next /\ Same12
    \/ part = "applications" /\ part' = part /\ TwoApplications!Next /\ Same4
    \/ part = "one application" /\ part' = part /\ OneApplication!Next /\ Same4
    \/ part = "check" /\ part' = part /\ CheckedApplication!Next /\ Same4
    \/ part = "setup" /\ part' = part /\ AccountSetup!Next /\ Same8
    \/ part = "hand over" /\ part' = part /\ AccountHandOver!Next /\ Same8
    \/ part = "orphans" /\ part' = part /\ AccountOrphans!Next /\ Same8
    \/ part = "roles" /\ part' = part /\ AccountRoles!Next /\ Same8
    \/ part = "master role" /\ part' = part /\ AccountMaster!Next /\ Same8
    \/ part = "attempts" /\ part' = part /\ Limits!Next /\ Same8
    \/ part = "often" /\ part' = part /\ LimitsRight!Next /\ Same8
    \/ part = "sign in" /\ part' = part /\ SigningIn!Next
    \/ part = "form twice" /\ part' = part /\ SigningInAgain!Next
    \/ part = "codes" /\ part' = part /\ SigningInTwice!Next
    \/ part = "tickets" /\ part' = part /\ Downloads!Next /\ Same8
    \/ part = "data folder" /\ part' = part /\ Folder!Next /\ Same11
    \/ part = "imports" /\ part' = part /\ FolderImports!Next /\ Same11
    \/ part = "key file" /\ part' = part /\ FolderFile!Next /\ Same11
    \/ part = "host keys" /\ part' = part /\ KnownHosts!Next
    \/ part = "deciders" /\ part' = part /\ KnownHostsTwo!Next
    \/ part = "plans" /\ part' = part /\ OnePlan!Next /\ Same8
    \/ part = "two editors" /\ part' = part /\ PlanEditors!Next /\ Same8
    \/ part = "plan names" /\ part' = part /\ PlanNames!Next /\ Same8
    \/ part = "timing" /\ part' = part /\ Timing!Next /\ Same9
    \/ part = "ticks" /\ part' = part /\ Scheduling!Next /\ Same8
    \/ part = "slow ticks" /\ part' = part /\ SchedulingSlow!Next /\ Same8
    \/ part = "uploads" /\ part' = part /\ Uploading!Next /\ Same7
    \/ part = "env files" /\ part' = part /\ ReplacingEnv!Next /\ Same7
    \/ part = "env inside" /\ part' = part /\ ReplacingInside!Next /\ Same7
    \/ part = "reads" /\ part' = part /\ Reading!Next /\ Same7
    \/ part = "command" /\ part' = part /\ Running!Next /\ Same8
    \/ part = "command inside" /\ part' = part /\ RunningInside!Next /\ Same8
    \/ part = "command stream" /\ part' = part /\ RunningStream!Next /\ Same8
    \/ part = "terminals" /\ part' = part /\ Shells!Next /\ Same11
    \/ part = "terminal" /\ part' = part /\ Screen!Next /\ Same8
    \/ part = "keys" /\ part' = part /\ Typing!Next /\ Same8

Spec == Init /\ [][Next]_vars

-----------------------------------------------------------------------------
\* Old data are restored over only by a move that could not read whose they
\* are, a restore finds the backup it is for, also in a move that resumes a
\* resumed one, a move that succeeded left nothing out; two redeploys never
\* work on one application, and none is left waiting for the other
\* (relocation/, redeploy/).
MovesHold ==
    /\ part = "relocation" => /\ Relocating!OldDataIsKept /\ Relocating!BackupIsKnown
                              /\ Relocating!SucceededIsComplete
    /\ part = "same machine" => RelocatingHere!OldDataIsKept
    /\ part = "resumed again" => /\ RelocatingAgain!OldDataIsKept /\ RelocatingAgain!BackupIsKnown
                                 /\ RelocatingAgain!SucceededIsComplete
    /\ part = "crossing" => Crossing!OneOnEach /\ Crossing!NobodyStuck

\* Live servers differ in name, a server that is ready answered with its
\* pinned key, two moves share no server and hold both of theirs, but for
\* those that a sweep or the cache robbed of a lock; discovery counts every
\* container once, calls a place stopped only if all of it is, lets the
\* answers decide between equals, finds the backups where they are written and
\* runs nothing others may write; applications differ in name and say why they
\* fail; no command is tried again while the last one still runs, but for one
\* that was fed or started late.
ServersHold ==
    /\ part = "servers" => ServerRows!UniqueNames /\ ServerRows!ReadyIsPinned
    /\ part = "sweep" => ServerSweep!UniqueNames /\ ServerSweep!WorkHoldsBoth
    /\ part = "server locks" => ServerMoves!OneMovePerServer /\ ServerMoves!WorkHoldsBoth
    /\ part = "locks lost" => ServerLocksLost!OneMovePerServer /\ ServerLocksLost!WorkHoldsBoth
    /\ part = "discovery" => /\ Discovering!ReplicasCounted /\ Discovering!StoppedMeansAll
                             /\ Discovering!AnswersDecide /\ Discovering!BackupsWhereWritten
                             /\ Discovering!CheckedAsFound
    /\ part = "discovery trust" => DiscoveringTrust!HostRunsTrusted
    /\ part = "applications" => TwoApplications!UniqueNames
    /\ part = "one application" => OneApplication!RuntimeComplete
    /\ part = "check" => CheckedApplication!ProblemsExplain
    /\ part = "command" => Running!OneAtATime
    /\ part = "command inside" => RunningInside!OneAtATime
    /\ part = "command stream" => RunningStream!SilenceNoticed

\* A backup is collected once, whatever breaks, and no more stay on the server
\* than are to be kept there; a sealed file is there and whole while its row is
\* alive, whoever chose the same name and died, unless a crash parted an
\* expired file of that place from its row; none is left without a row but by a
\* crash, and a plan's run has what it listed; but for plans saved over what
\* their editor had not read, the next run of an enabled plan lies on its beat,
\* one that keeps fewer was asked about, and plans share no folder; the times
\* keep the clock on the wall; one instance serves, and two ticks are an
\* interval apart (backups/, scheduler.py).
BackupsAreKept ==
    /\ part = "collection" => Collecting!CollectedOnce
    /\ part = "passphrases" => CollectingKeys!CollectedOnce
    /\ part = "on server" => CollectingFew!FewOnServer
    /\ part = "stored files" => /\ Storing!StoredIsWhole /\ Storing!NothingStray /\ Storing!CollectedOnce
                                /\ Storing!CollectedIsFaithful /\ Storing!RunsAreComplete
    /\ part = "stored crash" => /\ StoringCrash!StoredIsWhole /\ StoringCrash!NothingStray
                                /\ StoringCrash!RunsAreComplete
    /\ part = "stored half" => StoringHalf!StoredIsWhole /\ StoringHalf!NothingStray
    /\ part = "archives" => Archiving!StoredIsWhole /\ Archiving!NothingStray /\ Archiving!RunsAreComplete
    /\ part = "plans" => OnePlan!OnBeat /\ OnePlan!FewerIsAsked
    /\ part = "two editors" => PlanEditors!OnBeat /\ PlanEditors!FewerIsAsked
    /\ part = "plan names" => PlanNames!DistinctNames
    /\ part = "timing" => Timing!FirstAfter /\ Timing!KeepsWallClock /\ Timing!EveryInterval
    /\ part = "ticks" => Scheduling!OneServes
    /\ part = "slow ticks" => SchedulingSlow!Spaced

\* There is one master at most and, once there are accounts, one at least;
\* wrong passwords are bounded, the right one never counts; a code and a
\* recovery code let in once, and nobody without the password, a form sent
\* twice apart; a guarded file is downloaded no oftener than it was paid for
\* (accounts/).
SignInsHold ==
    /\ part = "setup" => AccountSetup!AtMostOneMaster
    /\ part = "hand over" => AccountHandOver!AtMostOneMaster /\ AccountHandOver!AlwaysAMaster
    /\ part = "orphans" => AccountOrphans!AtMostOneMaster
    /\ part = "roles" => AccountRoles!AtMostOneMaster
    /\ part = "master role" => AccountMaster!AtMostOneMaster
    /\ part = "attempts" => Limits!ChecksBounded /\ Limits!CountExact
    /\ part = "often" => LimitsRight!NeverLimited
    /\ part = "sign in" => SigningIn!PasswordFirst
    /\ part = "form twice" => SigningInAgain!PasswordFirst
    /\ part = "codes" => SigningInTwice!CodeOnce /\ SigningInTwice!RecoveryOnce
    /\ part = "tickets" => Downloads!OneDownload

\* The key at hand opens the data of the folder, and every folder that counts
\* has the key of its data, whatever crash cut an import short; a pinned key
\* and a key that was connected with were confirmed for that address, and with
\* one decider a key is decided and pinned once and pending ones are listed
\* (vault, key store, host keys).
SecretsHold ==
    /\ part = "data folder" => Folder!KeyOpensData /\ Folder!KeysKept
    /\ part = "imports" => FolderImports!KeysKept
    /\ part = "key file" => FolderFile!KeysKept
    /\ part = "host keys" => /\ KnownHosts!DecidedOnce /\ KnownHosts!PinnedOnce /\ KnownHosts!Listed
    /\ part = "deciders" => KnownHostsTwo!PinnedWasConfirmed /\ KnownHostsTwo!ConnectedWasConfirmed

\* A file on a server is never torn, a download is of one version; places of
\* terminals return and no more are open than may be, a terminal is revoked
\* for a change only or by the list of another browser; a tab is told what it missed, has the last output and
\* keys arrive once and in order (files, terminal/).
SessionsHold ==
    /\ part = "uploads" => Uploading!NeverTorn
    /\ part = "env inside" => ReplacingInside!NeverTorn
    /\ part = "reads" => Reading!DownloadIsOne
    /\ part = "terminals" => Shells!PlacesReturn /\ Shells!AtMost /\ Shells!RevokedForChange
    /\ part = "terminal" => Screen!Bounded /\ Screen!NothingUnseen /\ Screen!LastWordsGiven
    /\ part = "keys" => Typing!KeysOnce

\* What a step may never do: write over what the new server had; stop a
\* redeploy without what leads back, or revert to something else; write in a
\* rehearsal; remove a backup from the server before it is held, or the newest
\* by retention; change how an application runs without the password; make a
\* second first master, or lose the only one but to a stale change of role; let an old code in; delete or
\* half install a data folder; approve a key too late; replace a file that was
\* not asked for or not kept, or sweep a fresh upload; give a command up before
\* the server stopped it, or for silence that was not.
ManagerStepsHold ==
    [][/\ part = "relocation" => Relocating!NothingWrittenOver
       /\ part = "redeploy" => Redeploying!WayBack /\ Redeploying!RevertPutsBack
       /\ part = "deploy" => Deploying!RehearsalReads /\ Deploying!WayBack /\ Deploying!RevertPutsBack
       /\ part = "cut off" => CutOff!WayBack
       /\ part = "collection" => Collecting!RemovedWhenHeld /\ Collecting!NewestStays
       /\ part = "passphrases" => CollectingKeys!NewestStays
       /\ part = "applications" => TwoApplications!OthersAsked
       /\ part = "one application" => OneApplication!RunNeedsPassword /\ OneApplication!SetupEnds
       /\ part = "setup" => AccountSetup!FirstIsMaster /\ AccountSetup!OnlyFirstIsMaster
       /\ part = "hand over" => AccountHandOver!HandOverWorks
       /\ part = "orphans" => AccountOrphans!NotDemoted
       /\ part = "roles" => AccountRoles!FirstIsMaster /\ AccountRoles!OnlyFirstIsMaster
       /\ part = "master role" => AccountMaster!NotDemoted /\ AccountMaster!FirstIsMaster
       /\ part = "sign in" => SigningIn!EnrolledOnce
       /\ part = "codes" => SigningInTwice!OldCodesDead
       /\ part = "data folder" => Folder!NeverDeleted /\ Folder!NeverHalf
       /\ part = "imports" => FolderImports!NeverDeleted /\ FolderImports!NeverHalf
       /\ part = "host keys" => KnownHosts!ApprovedInTime
       /\ part = "uploads" => Uploading!NeverReplaces /\ Uploading!SweepSparesFresh
       /\ part = "env files" => ReplacingEnv!KeptBeforeReplaced
       /\ part = "env inside" => ReplacingInside!KeptBeforeReplaced
       /\ part = "command" => Running!ServerStopsFirst
       /\ part = "command inside" => RunningInside!ServerStopsFirst
       /\ part = "command stream" => RunningStream!NoFalseIdle]_vars
-----------------------------------------------------------------------------
\* What the documentation promises without a condition, on instances where the
\* steps of two actors cross.  One promise is put to the test after another: a
\* behaviour leaves a part only from a state that breaks its promise, and then
\* goes on in an initial state of the next part, so that the whole list is
\* walked through just if each promise can be broken.
Sets(v) ==
    /\ v1' = v[1] /\ v2' = v[2] /\ v3' = v[3] /\ v4' = v[4] /\ v5' = v[5] /\ v6' = v[6]
    /\ v7' = v[7] /\ v8' = v[8] /\ v9' = v[9] /\ v10' = v[10] /\ v11' = v[11] /\ v12' = v[12]

GuardingStart ==
    <<[k \in {"k1"} |-> Guarding!Unused], [q \in {"q1", "q2"} |-> Guarding!NoReq], {}, {}, FALSE, 0,
      [k \in {"k1"} |-> Never], {}, {}, {}, 0, 0>>
PurgingStart ==
    <<{}, {}, 0, {"p1", "p2"}, [p \in {"p1", "p2"} |-> Purging!NoPurge], {}, 0, FALSE, 0, 0, 0, 0>>
RelocatingStart ==
    <<[m \in 1 .. 3 |-> RelocatingAgain!NoMove],
      "shop" :> [folder |-> "none", extra |-> "none", site |-> "none", image |-> "none",
                 volume |-> "none", db |-> "none", up |-> "none", unit |-> "none",
                 row |-> FALSE, plans |-> 0, staged |-> "none"],
      {}, {}, 0, 0, 0, 0, 0, 0, 0, 0>>
ServersStart ==
    <<"web" :> ServerLocksLost!Created("n1", "k1") @@ "db" :> ServerLocksLost!Created("n2", "k1"),
      <<>>, [r \in {"r1", "r2"} |-> ServerLocksLost!Idle],
      [m \in {"m1", "m2"} |-> [status |-> "none", from |-> None, to |-> None, at |-> "none"]],
      [s \in {"web", "db"} |-> None], ServerLocksLost!NoJanitor, 0, 0, {}, 0, 0, 0>>
CommandStart == <<0, TRUE, 0, <<>>, Running!NoCall, "none", 0, 0, 0, 0, 0, 0>>
StoringStart ==
    <<[p \in StoringHalf!Places |-> StoringHalf!Nothing], <<>>,
      [w \in StoringHalf!Writers |-> StoringHalf!Idle], StoringHalf!NoJob,
      <<[size |-> 1, mtime |-> 1]>>, {}, StoringHalf!NoExpiry, {},
      [e \in StoringHalf!Events |-> 0], {}, 0, 0>>
PlansStart(plans) ==
    <<0, [p \in plans |-> PlanEditors!Unused], [e \in {"e1", "e2"} |-> PlanEditors!Idle], <<>>,
      NoRun, {}, {}, 0, 0, 0, 0, 0>>
AccountsStart ==
    LET all(v) == [n \in {"ann", "bob"} |-> v]
    IN <<all(FALSE), all("none"), all(FALSE), all(FALSE), [c \in {"c1", "c2"} |-> AccountMaster!Idle],
         Shell, FALSE, 0, 0, 0, 0, 0>>

Tests(p) == part = p /\ part' = p
Breaks(p, q) == part = p /\ part' = q
Begins(p, q) == part = p /\ part' = q /\ UNCHANGED <<v1, v2, v3, v4, v5, v6, v7, v8, v9, v10, v11, v12>>

PromiseInit == part = "flag" /\ Guarding!Init /\ Blank11

PromiseNext ==
    \/ Tests("flag") /\ Guarding!FlaggedNeverServes /\ Guarding!Next /\ Same11
    \/ Breaks("flag", "no flag") /\ ~Guarding!FlaggedNeverServes /\ Sets(GuardingStart)
    \/ Begins("no flag", "warning") /\ Guarding!Init /\ Blank11
    \/ Tests("warning") /\ Guarding!WarningNeverServes /\ Guarding!Next /\ Same11
    \/ Breaks("warning", "no warning") /\ ~Guarding!WarningNeverServes /\ Sets(GuardingStart)
    \/ Begins("no warning", "idle") /\ Guarding!Init /\ Blank11
    \/ Tests("idle") /\ Guarding!IdleAlwaysEnds /\ Guarding!Next /\ Same11
    \/ Breaks("idle", "no idle") /\ ~Guarding!IdleAlwaysEnds /\ Sets(PurgingStart)
    \/ Begins("no idle", "seen") /\ Purging!Init /\ Blank9
    \/ Tests("seen") /\ Purging!SeenOnceAlways /\ Purging!Next /\ Same9
    \/ Breaks("seen", "no seen") /\ ~Purging!SeenOnceAlways /\ Sets(RelocatingStart)
    \/ Begins("no seen", "old data") /\ RelocatingAgain!Init /\ Blank7
    \/ Tests("old data") /\ RelocatingAgain!OldDataAlwaysKept /\ RelocatingAgain!Next /\ Same7
    \/ Breaks("old data", "no old data") /\ ~RelocatingAgain!OldDataAlwaysKept /\ Sets(ServersStart)
    \/ Begins("no old data", "one move") /\ ServerLocksLost!Init /\ Blank10
    \/ Tests("one move") /\ ServerLocksLost!OneMoveAtATime /\ ServerLocksLost!Next /\ Same10
    \/ Breaks("one move", "no one move") /\ ~ServerLocksLost!OneMoveAtATime /\ Sets(CommandStart)
    \/ Begins("no one move", "one command") /\ Running!Init /\ Blank8
    \/ Tests("one command") /\ Running!AlwaysOneAtATime /\ Running!Next /\ Same8
    \/ Breaks("one command", "no one command") /\ ~Running!AlwaysOneAtATime /\ Sets(StoringStart)
    \/ Begins("no one command", "kept file") /\ StoringHalf!Init /\ Blank11
    \/ Tests("kept file") /\ StoringHalf!AliveIsWhole /\ StoringHalf!Next /\ Same11
    \/ Breaks("kept file", "no kept file") /\ ~StoringHalf!AliveIsWhole /\ Sets(PlansStart({"p1"}))
    \/ Begins("no kept file", "beat") /\ PlanEditors!Init /\ Blank8
    \/ Tests("beat") /\ PlanEditors!AlwaysOnBeat /\ PlanEditors!Next /\ Same8
    \/ Breaks("beat", "no beat") /\ ~PlanEditors!AlwaysOnBeat /\ Sets(PlansStart({"p1"}))
    \/ Begins("no beat", "fewer") /\ PlanEditors!Init /\ Blank8
    \/ Tests("fewer") /\ PlanEditors!FewerIsAlwaysAsked /\ PlanEditors!Next /\ Same8
    \/ Breaks("fewer", "no fewer") /\ ~PlanEditors!FewerIsAlwaysAsked /\ Sets(PlansStart({"p1", "p2"}))
    \/ Begins("no fewer", "plan folders") /\ PlanNames!Init /\ Blank8
    \/ Tests("plan folders") /\ PlanNames!AlwaysDistinctNames /\ PlanNames!Next /\ Same8
    \/ Breaks("plan folders", "no plan folders") /\ ~PlanNames!AlwaysDistinctNames /\ Sets(AccountsStart)
    \/ Begins("no plan folders", "one master") /\ AccountMaster!Init /\ Blank8
    \/ Tests("one master") /\ AccountMaster!Next /\ AccountMaster!NeverDemoted /\ Same8
    \/ Breaks("one master", "none left") /\ AccountMaster!Next /\ ~AccountMaster!NeverDemoted /\ Same8

PromiseSpec == PromiseInit /\ [][PromiseNext]_vars

\* At least one of these promises holds.
SomePromiseHolds == part # "none left"
=============================================================================
