------------------------------ MODULE Discovery ------------------------------
(***************************************************************************)
(* How the manager finds the places where a Django project runs            *)
(* (dbs/manager/applications/services/discovery_service.py, facts.py,      *)
(* deployment.py, paths.py, servers/services/pythons.py) and what the      *)
(* check of an application added from one of them reads again              *)
(* (application_service.py).                                               *)
(*                                                                         *)
(* The server is one record `world': its folders with their owners, its    *)
(* containers as `inspect' lists them, the Pythons that have django-dbs.   *)
(* It does not change during a search.  A path is the sequence of its      *)
(* names, <<>> the root or "none".  Every remote read goes through quiet:  *)
(* it may fail at any step, and then gives its default.  `ran' keeps each  *)
(* Python that was started on the server itself, with the folder it was    *)
(* started for.                                                            *)
(***************************************************************************)
EXTENDS Integers, FiniteSets, Sequences, SequencesExt, FiniteSetsExt, TLC

CONSTANTS
    Worlds,               \* the servers considered
    AnswerSets,           \* what the person said of the deployment
    Chosen,               \* the folder given
    Home,                 \* the home of the SSH user
    CANDIDATES_PROBED,
    CONTAINERS_INSPECTED,
    PROBES_PER_SEARCH,
    SERVICE_FILES_READ,
    MaxFailures           \* remote reads that fail during one search

VARIABLES
    pc,          \* the step of Discovery.run
    world,
    answers,
    failures,    \* reads that failed so far
    report,      \* the report's "trusted" and "candidates"
    listing,     \* folder_listing of the chosen folder
    neighbours,  \* Discovery.neighbours
    todo,        \* the matched containers not asked yet
    places,      \* the candidates before they are ranked
    ran,         \* <<python, folder>>: what was run on the server itself
    check        \* what the check of the application added found

vars == <<pc, world, answers, failures, report, listing, neighbours, todo,
          places, ran, check>>

Absent == <<>>
Root == 0
BARE == << <<"python3">>, <<"python">> >>
NoDbs == 0
MINIMUM_REMOTE == 2       \* 1 stands for a version before it

Dirname(path) == IF path = <<>> THEN path ELSE Front(path)
Inside(path, folder) == IsPrefix(folder, path)
\* list(dict.fromkeys(s)), by the key of each item
DedupBy(s, Key(_)) ==
    FoldLeft(LAMBDA kept, x : IF \E i \in DOMAIN kept : Key(kept[i]) = Key(x) THEN kept
                              ELSE Append(kept, x), <<>>, s)
Dedup(s) == DedupBy(s, LAMBDA x : x)

Capped(s, n) == SubSeq(s, 1, IF Len(s) < n THEN Len(s) ELSE n)

---------------------------------------------------------------------------
(* Trust in a folder.  `lost' is the set of reads that fail in this step.  *)

owners(lost) ==
    LET known == <<"realpath", Home>> \notin lost /\ <<"lstat", Home>> \notin lost IN
    [uids |-> {Root} \cup IF known THEN {world.entry[Home].uid} ELSE {},
     gids |-> {Root} \cup IF known THEN {world.entry[Home].gid} ELSE {}]

trusted(folder, allowed, lost) ==
    /\ folder \in DOMAIN world.entry
    /\ <<"lstat", folder>> \notin lost
    /\ LET e == world.entry[folder] IN
       /\ e.uid \in allowed.uids
       /\ ~e.others
       /\ (~e.group \/ e.gid \in allowed.gids)

trusted_with_parent(folder, lost) ==
    LET allowed == owners(lost) IN
    trusted(Dirname(folder), allowed, lost) /\ trusted(folder, allowed, lost)

---------------------------------------------------------------------------
(* Pythons.  A virtualenv is a folder, its Python is in its "bin".         *)

Python(venv) == venv \o <<"bin", "python">>

_trusted_venv(venv, allowed, lost) ==
    \A f \in {Dirname(venv), venv, Append(venv, "bin")} : trusted(f, allowed, lost)

\* _named_venvs and _marked_venvs: in the project, beside it, in ~/.virtualenvs
VenvsAround(project) ==
    SelectSeq(world.venvs, LAMBDA v :
        Dirname(v) \in {project, Dirname(project), Append(Home, ".virtualenvs")})

candidates(project, lost) ==
    LET usable == SelectSeq(VenvsAround(project),
                            LAMBDA v : _trusted_venv(v, owners(lost), lost))
    IN Dedup([i \in DOMAIN usable |-> Python(usable[i])] \o BARE)

container_pythons(c) ==
    Dedup(c.pythons
          \o (IF c.workdir = Absent THEN <<>> ELSE <<Python(Append(c.workdir, ".venv"))>>)
          \o << <<"opt", "venv", "bin", "python">> >> \o BARE)

_bounded(pythons) ==
    LET bare  == SelectSeq(pythons, LAMBDA p : p \in Range(BARE))
        venvs == SelectSeq(pythons, LAMBDA p : p \notin Range(BARE))
        most  == PROBES_PER_SEARCH - Len(bare)
    IN SubSeq(venvs, 1, IF most < Len(venvs) THEN most ELSE Len(venvs)) \o bare

VersionIn(has, python) == IF python \in DOMAIN has THEN has[python] ELSE NoDbs

\* the Pythons with_dbs starts, in order, up to the first with django-dbs
Tried(pythons, has) ==
    LET b == _bounded(pythons)
        hits == {i \in DOMAIN b : VersionIn(has, b[i]) # NoDbs}
    IN IF hits = {} THEN b ELSE SubSeq(b, 1, Min(hits))

with_dbs(pythons, has) ==
    LET t == Tried(pythons, has) IN
    IF VersionIn(has, Last(t)) = NoDbs
    THEN [found |-> FALSE, python |-> pythons[1], version |-> NoDbs]
    ELSE [found |-> TRUE, python |-> Last(t), version |-> VersionIn(has, Last(t))]

---------------------------------------------------------------------------
(* Paths of a container on the server: the longest mount that has a source *)

on_host_Longest(mounts, path) ==
    LET fit == {i \in DOMAIN mounts : mounts[i].source # Absent
                                      /\ Inside(path, mounts[i].destination)}
    IN CHOOSE i \in fit : \A j \in fit :
           \/ Len(mounts[i].destination) > Len(mounts[j].destination)
           \/ /\ Len(mounts[i].destination) = Len(mounts[j].destination)
              /\ i <= j

\* plausible bug: the first mount that fits
on_host_first(mounts, path) ==
    LET fit == {i \in DOMAIN mounts : mounts[i].source # Absent
                                      /\ Inside(path, mounts[i].destination)}
    IN IF fit = {} THEN Absent
       ELSE LET m == mounts[Min(fit)] IN
            m.source \o SubSeq(path, Len(m.destination) + 1, Len(path))

on_host(mounts, path) ==
    IF \A i \in DOMAIN mounts : mounts[i].source = Absent
                                \/ ~Inside(path, mounts[i].destination)
    THEN Absent
    ELSE LET m == mounts[on_host_Longest(mounts, path)] IN
         m.source \o SubSeq(path, Len(m.destination) + 1, Len(path))

translated(candidate, path) ==
    IF path = Absent THEN Absent
    ELSE IF candidate.kind = "host" THEN path
    ELSE on_host(candidate.mounts, path)

---------------------------------------------------------------------------
(* Containers                                                              *)

_label(row, name) == IF row.docker[name] # Absent THEN row.docker[name] ELSE row.podman[name]

summary(engine, row) ==
    [engine   |-> engine,
     name     |-> row.name,
     running  |-> row.running,
     project  |-> _label(row, "project"),
     service  |-> _label(row, "service"),
     dir      |-> _label(row, "working_dir"),
     workdir  |-> row.workdir,
     settings |-> row.settings = "valid",
     pythons  |-> row.pythons,
     mounts   |-> row.mounts,
     named    |-> row.named,
     has      |-> row.has,
     dbs      |-> row.dbs,
     replicas |-> 1]

listed_containers(engine, lost) ==
    IF {<<"ps", <<engine>>>>, <<"inspect", <<engine>>>>} \cap lost # {} THEN <<>>
    ELSE LET rows == Capped(world.containers[engine], CONTAINERS_INSPECTED)
         IN [i \in DOMAIN rows |-> summary(engine, rows[i])]

belongs(c, folder) ==
    \/ c.dir # Absent /\ Inside(c.dir, folder)
    \/ \E i \in DOMAIN c.mounts :
           /\ c.mounts[i].source # Absent
           /\ c.mounts[i].type \in {"bind", ""}
           /\ Inside(c.mounts[i].source, folder)

ReplicaKey(c) == IF c.service # Absent THEN <<<<c.engine>>, c.project, c.service>>
                 ELSE <<<<c.engine>>, c.name>>

replicas_joined(containers) ==
    LET ordered == SortSeq(containers, LAMBDA a, b :
                               \/ a.running /\ ~b.running
                               \/ a.running = b.running /\ a.name[1] < b.name[1])
        count(c) == Cardinality({i \in DOMAIN ordered : ReplicaKey(ordered[i]) = ReplicaKey(c)})
    IN DedupBy([i \in DOMAIN ordered |-> [ordered[i] EXCEPT !.replicas = count(ordered[i])]], ReplicaKey)

matched_containers(folder, rows) ==
    replicas_joined(SelectSeq(rows, LAMBDA c : c.named /\ belongs(c, folder)))

---------------------------------------------------------------------------
(* Facts                                                                   *)

LOCAL_HOSTS == {<<>>, <<0>>}     \* names are <<n>>; <<0>> stands for localhost

\* a database is [vendor, host]; the vendor "" is none
placement(database, services, containers) ==
    CASE database.vendor = ""                -> ""
      [] database.vendor = "sqlite"          -> "file"
      [] OTHER ->
         CASE database.host \in LOCAL_HOSTS  -> "host_package"
           [] database.host \in services     -> "compose_service"
           [] database.host \in containers   -> "companion_container"
           [] OTHER                          -> "remote"

PLACEMENT_ANSWERS ==
    [p \in {"", "file", "host_package", "compose_service", "companion_container", "remote"} |->
        CASE p = ""                -> ""
          [] p = "file"            -> "file"
          [] p = "compose_service" -> "compose"
          [] p = "remote"          -> "elsewhere"
          [] OTHER                 -> "this_server"]

env_source(kind, env) ==
    CASE \E i \in DOMAIN env : env[i].source = "compose" -> "compose_env_file"
      [] \A i \in DOMAIN env : env[i].source # "compose" ->
         IF \E i \in DOMAIN env : env[i].source = "dbs" /\ env[i].location = "container"
         THEN "image"
         ELSE IF env # <<>> THEN "folder_env"
         ELSE IF kind # "host" THEN "environment" ELSE ""

git_facts(folder) == folder # Absent /\ folder \in world.git

\* the unit, supervisor and site files, in the order of their folders
host_services == Capped(world.services, SERVICE_FILES_READ)

services_for(services, folder) ==
    DedupBy(SelectSeq(services, LAMBDA s : folder \in s.mentions), LAMBDA s : <<s.kind, s.name>>)

\* "" is not known
detected_profile(kind, engine, folder, env, database, place, services) ==
    LET kinds == {<<services[i].kind, services[i].scope>> : i \in DOMAIN services} IN
    [runs_in         |-> kind,
     engine          |-> engine,
     database        |-> database.vendor,
     database_runs   |-> PLACEMENT_ANSWERS[place],
     settings_from   |-> env_source(kind, env),
     source          |-> IF git_facts(folder) THEN "git"
                         ELSE IF kind = "host" THEN "copied" ELSE "",
     process_manager |-> IF <<"unit", "user">> \in kinds THEN "systemd_user"
                         ELSE IF <<"unit", "system">> \in kinds THEN "systemd"
                         ELSE IF <<"supervisor", "system">> \in kinds THEN "supervisor" ELSE "",
     web_server      |-> IF <<"site", "system">> \in kinds THEN "nginx" ELSE ""]

facts_for(candidate, database, projectServices, containers, services) ==
    detected_profile(candidate.kind, candidate.engine, candidate.project_dir,
                     candidate.env, database,
                     placement(database, projectServices, containers),
                     services_for(services, candidate.project_dir))

_comparable(value) == IF value = "mariadb" THEN "mysql" ELSE value

agrees(said, found, key) ==
    /\ key \in DOMAIN said /\ said[key] # "" /\ found[key] # ""
    /\ _comparable(said[key]) = _comparable(found[key])

mismatches(said, found) ==
    {key \in DOMAIN said : said[key] # "" /\ found[key] # "" /\ ~agrees(said, found, key)}

answer_bonus(said, found) ==
    (IF agrees(said, found, "runs_in") THEN 4 ELSE 0)
    + (IF agrees(said, found, "engine") THEN 1 ELSE 0)
    + (IF agrees(said, found, "database") THEN 1 ELSE 0)

---------------------------------------------------------------------------
(* Candidates                                                              *)

\* compose_env_files: what the compose files name, then the .env beside them
compose_env_files(folder, lost) ==
    (IF folder \in DOMAIN world.envFiles /\ <<"compose", folder>> \notin lost
     THEN world.envFiles[folder] ELSE <<>>)
    \o (IF Append(folder, ".env") \in world.files
           /\ <<"exists", Append(folder, ".env")>> \notin lost
        THEN <<Append(folder, ".env")>> ELSE <<>>)

ComposeEntries(paths) ==
    [i \in DOMAIN paths |-> [path |-> paths[i], location |-> "host", source |-> "compose"]]

unique_env(env) == DedupBy(env, LAMBDA e : <<e.path, <<e.location>>>>)

Problems(c) ==
    (IF c.running THEN {} ELSE {"container_not_running"})
    \cup (IF c.version = NoDbs THEN {"dbs_missing"}
          ELSE IF c.version < MINIMUM_REMOTE THEN {"dbs_too_old"} ELSE {})
    \cup (IF c.kind # "host" /\ c.backup # Absent /\ translated(c, c.backup) = Absent
          THEN {"backup_dir_not_mounted"} ELSE {})

scored(c) ==
    [c EXCEPT !.env = unique_env(c.env),
              !.onHost = translated(c, c.backup),
              !.problems = Problems(c),
              !.score = (IF c.version # NoDbs THEN 10 ELSE 0)
                        + (IF c.running THEN 3 ELSE 0)
                        + (IF c.settings THEN 2 ELSE 0)
                        + (IF c.kind # "host" THEN 1 ELSE 0)
                        - Cardinality(Problems(c))]

\* Discovery.ask_dbs: what `dbs connection --json' and the database probe say
ask_dbs(c, said, lost) ==
    IF <<"connection", <<c.name>>>> \in lost THEN c
    ELSE LET mapped == translated(c, said.env) IN
         [c EXCEPT
            !.settings = @ \/ said.settings,
            !.backup = said.backup,
            !.database = IF <<"shell", <<c.name>>>> \in lost THEN [vendor |-> "", host |-> <<>>]
                         ELSE said.database,
            !.env = IF said.env = Absent THEN @
                    ELSE <<IF c.kind # "host" /\ mapped = Absent
                           THEN [path |-> said.env, location |-> "container", source |-> "dbs"]
                           ELSE [path |-> mapped, location |-> "host", source |-> "dbs"]>> \o @]

Blank ==
    [kind |-> "host", name |-> "host", engine |-> "", project |-> Absent, service |-> Absent,
     container |-> Absent, replicas |-> 1, running |-> TRUE, project_dir |-> Absent,
     python |-> Absent, settings |-> FALSE, backup |-> Absent, mounts |-> <<>>, env |-> <<>>,
     version |-> NoDbs, database |-> [vendor |-> "", host |-> <<>>], declared |-> {},
     has |-> <<>>, onHost |-> Absent, problems |-> {}, score |-> 0, detected |-> <<>>,
     mismatches |-> {}]

Name(c) == c.engine \o ToString(c.name[1])

\* find_project: manage.py inside the container names the settings
find_project(c, lost) == <<"find", <<Name(c)>>>> \notin lost /\ c.dbs.manage

container_candidate(folder, c, lost) ==
    LET compose == c.service # Absent
        home    == IF c.dir # Absent THEN c.dir ELSE folder
        \* the chosen folder's entries first, then those it was started with
        env     == Dedup(compose_env_files(folder, lost)
                         \o IF compose THEN compose_env_files(home, lost) ELSE <<>>)
        base    == [Blank EXCEPT
                      !.kind = IF compose THEN "compose" ELSE "container",
                      !.name = Name(c),
                      !.engine = c.engine,
                      !.project = c.project, !.service = c.service,
                      !.container = IF compose THEN Absent ELSE c.name,
                      !.replicas = c.replicas, !.running = c.running,
                      !.project_dir = home, !.settings = c.settings,
                      !.mounts = c.mounts, !.env = ComposeEntries(env),
                      !.has = c.has,
                      !.declared = IF compose /\ home \in DOMAIN world.declared
                                   THEN world.declared[home] ELSE {}]
        usable  == with_dbs(container_pythons(c), c.has)
    IN IF ~c.running THEN scored(base)
       ELSE IF <<"probe", <<Name(c)>>>> \in lost \/ ~usable.found
       THEN scored([base EXCEPT !.python = container_pythons(c)[1]])
       ELSE scored(ask_dbs([base EXCEPT !.python = usable.python, !.version = usable.version,
                                        !.settings = @ \/ find_project(c, lost)],
                           c.dbs, lost))

\* nested_project: manage.py in a folder directly below
NestedIn(folder) == {f \in world.projects : Len(f) > 0 /\ Dirname(f) = folder}

HostProject(folder) ==
    IF listing.manage THEN folder
    ELSE IF NestedIn(folder) = {} THEN Absent
    ELSE CHOOSE f \in NestedIn(folder) : TRUE

HostRunnable(folder, project, lost) ==
    project = folder \/ trusted_with_parent(project, lost)

host_candidate(folder, project, lost) ==
    LET pythons == candidates(project, lost)
        usable  == IF HostRunnable(folder, project, lost)
                   THEN with_dbs(pythons, world.hostHas)
                   ELSE [found |-> FALSE, python |-> pythons[1], version |-> NoDbs]
        envs    == IF Append(project, ".env") \in world.files
                   THEN <<[path |-> Append(project, ".env"), location |-> "host",
                           source |-> "folder"]>> ELSE <<>>
        base    == [Blank EXCEPT !.project_dir = project, !.python = usable.python,
                                 !.version = usable.version, !.env = envs,
                                 !.has = world.hostHas,
                                 !.settings = world.hostSettings]
    IN scored(IF usable.found THEN ask_dbs(base, world.hostDbs, lost) ELSE base)

\* what host_candidate starts on the server itself
HostRuns(folder, project, lost) ==
    IF HostRunnable(folder, project, lost)
    THEN {<<p, project>> : p \in Range(Tried(candidates(project, lost), world.hostHas))}
    ELSE {}

with_facts(c) ==
    LET detected == facts_for(c, c.database,
            c.declared \cup {n.service : n \in {m \in Range(neighbours) :
                                                  c.project # Absent /\ m.project = c.project}},
            {n.name : n \in Range(neighbours)}, host_services)
    IN [c EXCEPT !.detected = detected,
                 !.mismatches = mismatches(answers, detected),
                 !.score = @ + answer_bonus(answers, detected)]

---------------------------------------------------------------------------
(* Discovery.run                                                           *)

\* a step loses at most one of the reads it makes
Losses(calls) == {{}} \cup IF failures < MaxFailures THEN {{c} : c \in calls} ELSE {}
Fail(lost) == failures' = failures + Cardinality(lost)

Init ==
    /\ world \in Worlds
    /\ answers \in AnswerSets
    /\ pc = "trust"
    /\ failures = 0
    /\ report = [trusted |-> FALSE, candidates |-> <<>>]
    /\ listing = [manage |-> FALSE]
    /\ neighbours = <<>> /\ todo = <<>> /\ places = <<>>
    /\ ran = {}
    /\ check = [done |-> FALSE]

\* realpath, trusted_with_parent, folder_listing
Trust ==
    /\ pc = "trust"
    /\ \E lost \in Losses({<<"chosen", Chosen>>, <<"realpath", Home>>, <<"listdir", Chosen>>}
                          \cup {<<"lstat", f>> : f \in {Home, Chosen, Dirname(Chosen)}}) :
        /\ Fail(lost)
        /\ IF <<"chosen", Chosen>> \in lost
           THEN pc' = "done" /\ UNCHANGED <<report, listing>>
           ELSE /\ report' = [report EXCEPT !.trusted = trusted_with_parent(Chosen, lost)]
                /\ listing' = [manage |-> Chosen \in world.projects
                                          /\ <<"listdir", Chosen>> \notin lost]
                /\ pc' = IF report'.trusted THEN "list" ELSE "done"
    /\ UNCHANGED <<world, answers, neighbours, todo, places, ran, check>>

\* engine_report of each engine, listed_containers, matched_containers
ListContainers ==
    /\ pc = "list"
    /\ \E lost \in Losses({<<call, <<e>>>> : call \in {"engine", "ps", "inspect"},
                                             e \in DOMAIN world.containers}) :
        /\ Fail(lost)
        /\ LET usable(e) == e \in world.usable /\ <<"engine", <<e>>>> \notin lost
               rows(e) == IF usable(e) THEN listed_containers(e, lost) ELSE <<>>
               matched(e) == matched_containers(Chosen, rows(e))
           IN /\ neighbours' = rows("docker") \o rows("podman")
              /\ todo' = Capped(matched("docker") \o matched("podman"), CANDIDATES_PROBED)
    /\ pc' = "containers"
    /\ UNCHANGED <<world, answers, report, listing, places, ran, check>>

\* container_candidate of the next container
AskContainer ==
    /\ pc = "containers" /\ todo # <<>>
    /\ LET c == Head(todo) IN
       \E lost \in Losses({<<call, <<Name(c)>>>> : call \in {"probe", "find", "connection", "shell"}}
                          \cup {<<"compose", c.dir>>, <<"exists", Append(Chosen, ".env")>>}) :
        /\ Fail(lost)
        /\ places' = Append(places, container_candidate(Chosen, c, lost))
    /\ todo' = Tail(todo)
    /\ UNCHANGED <<pc, world, answers, report, listing, neighbours, ran, check>>

\* host_candidate, when the folder holds the project or nothing else was found
AskHost ==
    /\ pc = "containers" /\ todo = <<>>
    /\ IF (listing.manage \/ places = <<>>) /\ HostProject(Chosen) # Absent
       THEN \E lost \in Losses({<<call, <<"host">>>> : call \in {"connection", "shell"}}
                               \cup {<<"lstat", f>> : f \in {Home, HostProject(Chosen)}}) :
               /\ Fail(lost)
               /\ places' = Append(places, host_candidate(Chosen, HostProject(Chosen), lost))
               /\ ran' = ran \cup HostRuns(Chosen, HostProject(Chosen), lost)
       ELSE UNCHANGED <<failures, places, ran>>
    /\ pc' = "rank"
    /\ UNCHANGED <<world, answers, report, listing, neighbours, todo, check>>

\* with_facts of each, best first
Rank ==
    /\ pc = "rank"
    /\ LET kept  == Capped(places, CANDIDATES_PROBED)
           facts == [i \in DOMAIN kept |-> [at |-> i, c |-> with_facts(kept[i])]]
           order == SortSeq(facts, LAMBDA a, b : \/ a.c.score > b.c.score
                                                 \/ a.c.score = b.c.score /\ a.at < b.at)
       IN report' = [report EXCEPT !.candidates = [i \in DOMAIN order |-> order[i].c]]
    /\ pc' = "done"
    /\ UNCHANGED <<world, answers, failures, listing, neighbours, todo, places, ran, check>>

---------------------------------------------------------------------------
(* An application is added from a candidate and checked                    *)

settings_of(c) ==
    [kind |-> c.kind, engine |-> c.engine, project |-> c.project, service |-> c.service,
     container |-> c.container, project_dir |-> c.project_dir,
     python |-> IF c.python = Absent THEN BARE[1] ELSE c.python,
     mounts |-> c.mounts, backup |-> c.backup,
     env |-> IF c.env = <<>> THEN Absent ELSE c.env[1].path,
     envInside |-> c.env # <<>> /\ c.env[1].location = "container"]

_env_entries(app) ==
    LET mapped == IF app.kind = "host" THEN app.env ELSE on_host(app.mounts, app.env)
        onHost == IF app.envInside THEN mapped ELSE app.env
        named  == IF app.kind = "compose" THEN compose_env_files(app.project_dir, {}) ELSE <<>>
    IN IF app.env = Absent THEN <<>>
       ELSE IF app.envInside /\ mapped = Absent
       THEN <<[path |-> app.env, location |-> "container", source |-> "dbs"]>>
       ELSE <<[path |-> app.env, location |-> "host",
               source |-> IF onHost \in Range(named) THEN "compose" ELSE "folder"]>>

\* _facts: a compose application is told its declared services only, a
\* container the names of its neighbours only
CheckFacts(app, c) ==
    facts_for([kind |-> app.kind, engine |-> app.engine, project_dir |-> app.project_dir,
               env |-> _env_entries(app)],
              IF VersionIn(c.has, app.python) = NoDbs THEN [vendor |-> "", host |-> <<>>]
              ELSE c.database,
              IF app.kind = "compose" THEN c.declared ELSE {},
              IF app.kind = "container" THEN {n.name : n \in Range(neighbours)} ELSE {},
              IF app.kind = "host" THEN host_services ELSE <<>>)

Check ==
    /\ pc = "done" /\ ~check.done
    /\ \E i \in DOMAIN report.candidates :
        LET c == report.candidates[i]
            app == settings_of(c)
        IN check' = [done |-> TRUE, of |-> i,
                     version |-> IF c.running THEN VersionIn(c.has, app.python) ELSE NoDbs,
                     detected |-> CheckFacts(app, c)]
    /\ UNCHANGED <<pc, world, answers, failures, report, listing, neighbours, todo, places, ran>>

Next == Trust \/ ListContainers \/ AskContainer \/ AskHost \/ Rank \/ Check

Spec == Init /\ [][Next]_vars

---------------------------------------------------------------------------
(* Properties                                                              *)

\* Whoever may write to a folder: not the home's account, root and its group.
WritableByOthers(folder) ==
    \/ folder \notin DOMAIN world.entry
    \/ LET e == world.entry[folder] IN
       \/ e.uid \notin {Root, world.entry[Home].uid}
       \/ e.others
       \/ e.group /\ e.gid \notin {Root, world.entry[Home].gid}

\* "A folder that another account can write to, or whose parent another
\* account can write to, runs nothing ... The same holds for a project folder
\* found below it": whatever reads failed, every Python that was started on the
\* server itself was started for a folder, and from a virtualenv, that no other
\* account can write to.
HostRunsTrusted ==
    \A r \in ran :
        /\ ~WritableByOthers(r[2]) /\ ~WritableByOthers(Dirname(r[2]))
        /\ (r[1] \in Range(BARE)
            \/ \A n \in 1 .. 3 : ~WritableByOthers(SubSeq(r[1], 1, Len(r[1]) - n)))

\* "Replicas of one Compose service are one application, counted": when the
\* ranking is done, no two places are the same service or container, and the
\* replicas of the places add up to the containers listed that belong to the
\* folder.
ReplicasCounted ==
    pc = "done" /\ Len(places) < CANDIDATES_PROBED =>
        LET found == {i \in DOMAIN places : places[i].kind # "host"}
            key(i) == <<<<places[i].engine>>, places[i].project, places[i].service,
                        places[i].container>>
        IN /\ \A i, j \in found : key(i) = key(j) => i = j
           /\ MapThenSumSet(LAMBDA i : places[i].replicas, found)
              = Cardinality({i \in DOMAIN neighbours :
                                neighbours[i].named /\ belongs(neighbours[i], Chosen)})

\* A replica that is stopped never hides one that runs: a place is reported as
\* stopped only when each of its containers is.
StoppedMeansAll ==
    \A i \in DOMAIN places :
        places[i].kind # "host" /\ ~places[i].running =>
            \A j \in DOMAIN neighbours :
                /\ neighbours[j].engine = places[i].engine
                /\ neighbours[j].named /\ belongs(neighbours[j], Chosen)
                /\ (IF places[i].kind = "compose"
                    THEN neighbours[j].project = places[i].project
                         /\ neighbours[j].service = places[i].service
                    ELSE neighbours[j].service = Absent
                         /\ neighbours[j].name = places[i].container)
                => ~neighbours[j].running

\* Between two places in the same condition (django-dbs, settings, running, as
\* many problems) the one that runs where the person said comes first.
AnswersDecide ==
    LET cs == report.candidates IN
    \A i, j \in DOMAIN cs :
        /\ agrees(answers, cs[i].detected, "runs_in")
        /\ ~agrees(answers, cs[j].detected, "runs_in")
        /\ (cs[i].version = NoDbs) = (cs[j].version = NoDbs)
        /\ cs[i].settings = cs[j].settings /\ cs[i].running = cs[j].running
        /\ Cardinality(cs[i].problems) = Cardinality(cs[j].problems)
        => i < j

\* The mount through which the container itself sees a path: the deepest one,
\* whether it has a source on the server or not.
MountSeen(mounts, path) ==
    LET fit == {i \in DOMAIN mounts : Inside(path, mounts[i].destination)} IN
    IF fit = {} THEN 0
    ELSE CHOOSE i \in fit : \A j \in fit :
             Len(mounts[i].destination) >= Len(mounts[j].destination)

\* "A path inside a container is mapped to the server through the container's
\* mounts, the longest match first ... A backup folder on no mount is
\* reported": the folder on the server where the manager looks for a backup is
\* the one the container writes it to, or the place has the problem.
BackupsWhereWritten ==
    \A i \in DOMAIN report.candidates :
        LET c == report.candidates[i]
            m == MountSeen(c.mounts, c.backup)
        IN c.kind # "host" /\ c.backup # Absent =>
            IF m = 0 \/ c.mounts[m].source = Absent
            THEN c.onHost = Absent /\ "backup_dir_not_mounted" \in c.problems
            ELSE c.onHost = c.mounts[m].source
                    \o SubSeq(c.backup, Len(c.mounts[m].destination) + 1, Len(c.backup))

\* An application added from a place is checked with the Python that answered
\* there: on a server that did not change, the check finds the same version.
CheckedAsFound ==
    check.done => LET c == report.candidates[check.of] IN
                  c.version # NoDbs => check.version = c.version

=============================================================================
