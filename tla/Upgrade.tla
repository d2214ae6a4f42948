------------------------------- MODULE Upgrade -------------------------------
(***************************************************************************)
(* dbs upgrade: the steps that check and fix a project, the release it may *)
(* install, and the conversion of old backups (dbs/upgrade.py, its command *)
(* and write_new of dbs/io.py).  A project is the set of the facts in it   *)
(* that a step looks for; commands run one after another or side by side.  *)
(***************************************************************************)
EXTENDS Naturals, Sequences, FiniteSets

CONSTANTS
    Projects,    \* the sets of facts that a project may start with
    Commands,    \* invocations of dbs upgrade
    Asks,        \* the options they may be given
    NoVersion,   \* no --to
    NotOne,      \* a --to that is no version number
    Old,         \* backups in the folder that this version did not write
    Copies,      \* 1 .. n: the numbers a conversion's name may carry
    Places,      \* where django-dbs may be installed: venv, system, checkout
    Versions,    \* releases: [major, minor, patch, pre], pre = 0 for a final one
    Links,       \* BOOLEAN: the folder's file system has hard links
    MaxCrashes   \* bound

VARIABLES
    facts,      \* what is to be found in the project
    cmd,        \* cmd[c]: an invocation
    disk,       \* disk[o][n]: the file at the n-th conversion name of the backup o
    reads,      \* reads[o]: whether the backup converts, is refused, or has no header
    installed, latest,   \* the release in the environment, and PyPI's newest
    place,      \* where django-dbs is installed
    crashes

vars == <<facts, cmd, disk, reads, installed, latest, place, crashes>>

Facts ==
    {"not_installed", "no_state", "no_graph", "unmigrated", "no_table", "schedule_on",
     "interval_setting", "command_mode", "off_mode", "unknown_mode", "uwsgi_no_threads",
     "no_folder", "folder_read_only", "module_missing", "extras_named", "no_admin",
     "guard_too_early", "no_guard", "proxies_number", "trusts_forwarded", "proxies_named",
     "excludes_restated", "no_passphrase", "file_roots", "restore_roots_empty", "path_map_bad",
     "path_map_outside", "kdf_too_high", "claude_folder", "ai_stale", "ai_unreadable",
     "client_config", "push_settings", "stored_targets", "keep_setting", "keep_row",
     "contrib_urls", "old_command", "old_partials", "jobs_inside", "limits_bad",
     "no_settings_module", "no_interpreter", "mysql", "packets_unread", "small_packets", "sqlite",
     "journal_unread", "in_memory", "not_wal", "deferred"}

Options ==
    [check : BOOLEAN, self : BOOLEAN, to : Versions \cup {NoVersion, NotOne}, offline : BOOLEAN,
     system : BOOLEAN, backups : {"none", "folder", "missing"}]

UpgradeAssumption ==
    /\ Copies \in SUBSET (Nat \ {0})
    /\ \A v \in Versions : {v.major, v.minor, v.patch} \subseteq Nat /\ v.pre \in 0 .. 9
    /\ Links \in BOOLEAN
    /\ Places \subseteq {"venv", "system", "checkout"}
    /\ MaxCrashes \in Nat
    /\ Asks \subseteq Options
    /\ \A F \in Projects : F \subseteq Facts

-----------------------------------------------------------------------------
(* The steps.  Each looks at the project and answers ok, warn or action. *)

Has(F, f) == f \in F
Warns(b) == IF b THEN "warn" ELSE "ok"
Acts(b) == IF b THEN "action" ELSE "ok"

InstalledApp(F) == Acts(Has(F, "not_installed"))
Migrations(F) ==
    IF Has(F, "no_state") \/ Has(F, "no_graph") THEN "warn"
    ELSE Acts(Has(F, "unmigrated") /\ ~ Has(F, "not_installed"))
ScheduleInDatabase(F) ==
    Warns(\/ Has(F, "no_state") \/ Has(F, "no_table")
          \/ ~ Has(F, "schedule_on") /\ (Has(F, "interval_setting") \/ Has(F, "command_mode")))
SchedulerMode(F) ==
    IF Has(F, "unknown_mode") THEN "action"
    ELSE Warns({"command_mode", "off_mode"} \cap F = {} /\ Has(F, "uwsgi_no_threads"))
BackupDirectory(F) == Warns(Has(F, "no_folder") \/ Has(F, "folder_read_only"))
Dependencies(F) == Acts(Has(F, "module_missing"))
RetiredExtras(F) == Warns(Has(F, "extras_named"))
AdminPanel(F) == Warns(Has(F, "no_admin"))
GuardMiddleware(F) ==
    Warns(Has(F, "guard_too_early") \/ (Has(F, "no_guard") /\ ~ Has(F, "no_admin")))
ForwardedFor(F) ==
    Warns(\/ Has(F, "proxies_number")
          \/ Has(F, "trusts_forwarded") /\ ~ Has(F, "proxies_named"))
ExcludeSemantics(F) == Warns(Has(F, "excludes_restated"))
Passphrase(F) == Acts(Has(F, "no_passphrase"))
RestoreRoots(F) == Warns(Has(F, "file_roots") /\ Has(F, "restore_roots_empty"))
Informs(F) == "ok"
RestorePathMap(F) == Warns(Has(F, "path_map_bad") \/ Has(F, "path_map_outside"))
BackupFormat(F) == Acts(Has(F, "kdf_too_high"))
AiInstructions(F) == Acts(Has(F, "claude_folder") /\ Has(F, "ai_stale"))
ClientRetired(F) == Warns(Has(F, "client_config"))
PulledBackups(F) ==
    Warns(Has(F, "push_settings") \/ (Has(F, "stored_targets") /\ ~ Has(F, "no_state")))
KeepAtMostFive(F) ==
    Warns(Has(F, "keep_setting") \/ (Has(F, "keep_row") /\ ~ Has(F, "no_state")))
AuditChain(F) == IF Has(F, "no_state") THEN "warn" ELSE Acts(Has(F, "unmigrated"))
ContribViewsRemoved(F) == Acts(Has(F, "contrib_urls"))
CommandNames(F) == Warns(Has(F, "old_command"))
LegacyPartials(F) == Warns(~ Has(F, "no_folder") /\ Has(F, "old_partials"))
PanelJobProcess(F) ==
    IF Has(F, "jobs_inside") THEN "ok"
    ELSE IF Has(F, "limits_bad") THEN "action"
    ELSE Warns(Has(F, "no_settings_module") \/ Has(F, "no_interpreter"))
MySQLReads(F) ==
    Warns(Has(F, "mysql") /\ {"no_state", "packets_unread", "small_packets"} \cap F # {})
SQLiteWrites(F) ==
    Warns(/\ Has(F, "sqlite")
          /\ \/ Has(F, "no_state") \/ Has(F, "journal_unread")
             \/ ~ Has(F, "in_memory") /\ (Has(F, "not_wal") \/ Has(F, "deferred")))

\* STEPS, in the order they run; the ones that only inform are one.
STEPS ==
    <<"app", "migrations", "schedule", "scheduler", "folder", "modules", "extras", "admin",
      "guard", "forwarded", "excludes", "passphrase", "roots", "informs", "paths", "format", "ai",
      "client", "pulled", "keep", "chain", "contrib", "names", "partials", "jobs", "mysql", "sqlite">>

Check(s, F) ==
    CASE s = "app" -> InstalledApp(F)          [] s = "migrations" -> Migrations(F)
      [] s = "schedule" -> ScheduleInDatabase(F) [] s = "scheduler" -> SchedulerMode(F)
      [] s = "folder" -> BackupDirectory(F)    [] s = "modules" -> Dependencies(F)
      [] s = "extras" -> RetiredExtras(F)      [] s = "admin" -> AdminPanel(F)
      [] s = "guard" -> GuardMiddleware(F)     [] s = "forwarded" -> ForwardedFor(F)
      [] s = "excludes" -> ExcludeSemantics(F) [] s = "passphrase" -> Passphrase(F)
      [] s = "roots" -> RestoreRoots(F)        [] s = "informs" -> Informs(F)
      [] s = "paths" -> RestorePathMap(F)      [] s = "format" -> BackupFormat(F)
      [] s = "ai" -> AiInstructions(F)         [] s = "client" -> ClientRetired(F)
      [] s = "pulled" -> PulledBackups(F)      [] s = "keep" -> KeepAtMostFive(F)
      [] s = "chain" -> AuditChain(F)          [] s = "contrib" -> ContribViewsRemoved(F)
      [] s = "names" -> CommandNames(F)        [] s = "partials" -> LegacyPartials(F)
      [] s = "jobs" -> PanelJobProcess(F)      [] s = "mysql" -> MySQLReads(F)
      [] s = "sqlite" -> SQLiteWrites(F)

\* A step whose check raises what it does not catch: the models of an app that is not
\* installed, and an instruction file that cannot be read.
Raises(s, F) ==
    \/ s = "schedule" /\ Has(F, "not_installed")
    \/ s = "ai" /\ Has(F, "claude_folder") /\ Has(F, "ai_unreadable")

Fixable == {"migrations", "ai", "chain"}

\* What migrate changes: it adds the schedule's columns, and its last migration, the one
\* that AuditChain asks for, lowers keep to 5 and drops the targets.
ByMigrate == {"no_table", "keep_row", "stored_targets"}
Fix(s, F) == IF s = "ai" THEN F \ {"ai_stale"} ELSE F \ (ByMigrate \cup {"unmigrated"})

\* A fix that raises halfway: the migrations before the one that failed are applied.
Halfway(s, F) == IF s = "ai" THEN {F} ELSE {F \ G : G \in SUBSET ByMigrate}
MayFix(s, F) == s = "ai" \/ ~ Has(F, "no_graph")

-----------------------------------------------------------------------------
(* Versions. *)

\* _as_numbers: the digits of a part run together, 0rc1 is 01.
AsNumbers(v) == <<v.major, v.minor, IF v.pre = 0 THEN v.patch ELSE v.patch * 10 + v.pre>>

Above(a, b) ==
    \/ a[1] > b[1]
    \/ a[1] = b[1] /\ a[2] > b[2]
    \/ a[1] = b[1] /\ a[2] = b[2] /\ a[3] > b[3]

\* Mutant: the parts are compared as text, where 10 comes before 9.
IsNewerAsText(v, w) ==
    Above(<<v.major, v.minor, v.patch % 10>>, <<w.major, w.minor, w.patch % 10>>)

IsNewer(v, w) == Above(AsNumbers(v), AsNumbers(w))

\* The order of releases: a candidate comes before its final release.
After(v, w) ==
    LET numbers(x) == <<x.major, x.minor, x.patch>>
    IN  \/ Above(numbers(v), numbers(w))
        \/ numbers(v) = numbers(w) /\ w.pre # 0 /\ (v.pre = 0 \/ v.pre > w.pre)

-----------------------------------------------------------------------------
\* gaveUp: a person accepted that backups stay unreadable; fixFailed: a fix raised;
\* mine: the release that the process has imported.
Fresh == [at |-> "ready", opt |-> <<>>, mine |-> <<>>, i |-> 1, found |-> <<>>, left |-> {},
          broken |-> {}, doing |-> <<>>, said |-> "nothing", fixFailed |-> FALSE,
          gaveUp |-> FALSE, ok |-> TRUE]

\* What a migration changes is there only while that migration is not applied.
Init ==
    /\ facts \in Projects
    /\ ByMigrate \cap facts # {} => "unmigrated" \in facts
    /\ Cardinality({"command_mode", "off_mode", "unknown_mode"} \cap facts) <= 1
    /\ cmd = [c \in Commands |-> Fresh]
    /\ disk \in [Old -> {[n \in Copies |-> IF n = 1 THEN s ELSE "none"] : s \in {"none", "foreign"}}]
    /\ reads \in [Old -> {"converts", "refused", "headless"}]
    /\ installed \in Versions /\ latest \in Versions
    /\ place \in Places
    /\ crashes = 0

At(c, s) == cmd[c].at = s
Set(c, r) == cmd' = [cmd EXCEPT ![c] = r]

\* CommandError, or an exception that nothing catches: the command ends with an error.
Fails(c) == Set(c, [cmd[c] EXCEPT !.at = "done", !.ok = FALSE])

\* handle, up to the steps: --to goes with --self.
Begin(c) ==
    /\ At(c, "ready")
    /\ \E o \in Asks :
         Set(c, IF o.to # NoVersion /\ ~ o.self
                THEN [Fresh EXCEPT !.at = "done", !.opt = o, !.ok = FALSE]
                ELSE [Fresh EXCEPT !.at = "steps", !.opt = o, !.mine = installed])
    /\ UNCHANGED <<facts, disk, reads, installed, latest, place, crashes>>

\* run_steps: one step; an action that can be fixed is, and a fix may fail.
Step(c) ==
    /\ At(c, "steps") /\ cmd[c].i <= Len(STEPS)
    /\ LET s == STEPS[cmd[c].i]
           level == Check(s, facts)
           next(l, failed) == Set(c, [cmd[c] EXCEPT !.i = @ + 1, !.found = Append(@, l),
                                                    !.fixFailed = @ \/ failed])
       IN  IF Raises(s, facts) THEN Fails(c) /\ UNCHANGED facts
           ELSE IF level = "action" /\ ~ cmd[c].opt.check /\ s \in Fixable
           THEN \/ MayFix(s, facts) /\ facts' = Fix(s, facts) /\ next("fixed", FALSE)
                \/ facts' \in Halfway(s, facts) /\ next("action", TRUE)
           ELSE next(level, FALSE) /\ UNCHANGED facts
    /\ UNCHANGED <<disk, reads, installed, latest, place, crashes>>

Stepped(c) == At(c, "steps") /\ cmd[c].i > Len(STEPS)
Updates(c) == cmd[c].opt.self /\ ~ cmd[c].opt.check

\* handle goes on to the backups when it is given a folder.
Onward(c, r) == Set(c, [r EXCEPT !.at = IF r.opt.backups = "none" THEN "end" ELSE "scan"])

\* _release: what it says of the newest release, when it asks and PyPI answers.
Release(c) ==
    /\ Stepped(c) /\ ~ Updates(c)
    /\ \E said \in IF cmd[c].opt.offline THEN {"nothing"}
                   ELSE {"unreached", IF IsNewer(latest, cmd[c].mine) THEN "newer" ELSE "latest"} :
         Onward(c, [cmd[c] EXCEPT !.said = said])
    /\ UNCHANGED <<facts, disk, reads, installed, latest, place, crashes>>

\* _target_version: the one that --to names, unless PyPI says that it does not have it, or
\* the newest, if PyPI answers.  <<>>: the command is refused.
Answers(v) == {<<v>>, <<>>}
TargetVersion(o) ==
    IF o.to = NotOne THEN {<<>>}
    ELSE IF o.to # NoVersion THEN IF o.offline THEN {<<o.to>>} ELSE Answers(o.to)
    ELSE IF o.offline THEN {<<>>} ELSE Answers(latest)

\* is_system_interpreter: what pip may change without being asked twice.
Changeable(c) == place = "venv" \/ cmd[c].opt.system

\* _self_update: pip replaces the release, once it is confirmed; a checkout is left alone,
\* and an interpreter outside a virtual environment unless it is asked for.
SelfUpdate(c) ==
    /\ Stepped(c) /\ Updates(c)
    /\ \E target \in TargetVersion(cmd[c].opt) :
         IF target = <<>> THEN Fails(c) /\ UNCHANGED installed
         ELSE IF target[1] = cmd[c].mine \/ place = "checkout"
         THEN Onward(c, cmd[c]) /\ UNCHANGED installed
         ELSE \/ /\ Changeable(c)
                 /\ installed' = target[1] /\ Onward(c, cmd[c])
              \/ Fails(c) /\ UNCHANGED installed
    /\ UNCHANGED <<facts, disk, reads, latest, place, crashes>>

\* existing_conversion: the first file along the names whose header is current; a file
\* that was only begun has none.
Existing(o) ==
    \E n \in Copies : disk[o][n] \in {"whole", "torn"} /\ \A k \in Copies : k < n => disk[o][k] # "none"

\* read_backup_states: the files of the folder without a header that can be read, the
\* files at the conversion names among them.
Headless ==
    {<<o, 0>> : o \in {x \in Old : reads[x] = "headless"}}
    \cup {<<o, n>> \in Old \X Copies : disk[o][n] \in {"foreign", "begun"}}
Stale == {o \in Old : reads[o] # "headless" /\ ~ Existing(o)}

\* _backups: reads the folder; with --check it stops there.
Scan(c) ==
    /\ At(c, "scan")
    /\ IF cmd[c].opt.backups = "missing" THEN Fails(c)
       ELSE Set(c, IF cmd[c].opt.check
                   THEN [cmd[c] EXCEPT !.at = "end", !.broken = Headless \cup {<<o, 0>> : o \in Stale}]
                   ELSE IF Stale = {} /\ Headless = {} THEN [cmd[c] EXCEPT !.at = "end"]
                   ELSE [cmd[c] EXCEPT !.at = "convert", !.left = Stale, !.broken = Headless])
    /\ UNCHANGED <<facts, disk, reads, installed, latest, place, crashes>>

Passed(c, o) == [cmd[c] EXCEPT !.at = "convert", !.left = @ \ {o}, !.doing = <<>>]
Reported(c, o) == [Passed(c, o) EXCEPT !.broken = @ \cup {<<o, 0>>}]

\* convert_backup, up to the verified partial: one that another command converted since is
\* left; one that does not convert, or cannot be written, is reported; without a
\* passphrase, or a backup to read, the command ends.
Convert(c) ==
    /\ At(c, "convert") /\ cmd[c].left # {}
    /\ \E o \in cmd[c].left :
         \/ Fails(c)
         \/ Set(c, IF Existing(o) THEN Passed(c, o)
                   ELSE IF reads[o] = "refused" THEN Reported(c, o)
                   ELSE [cmd[c] EXCEPT !.at = "claim", !.doing = <<o, 1>>])
         \/ ~ Existing(o) /\ Set(c, Reported(c, o))
    /\ UNCHANGED <<facts, disk, reads, installed, latest, place, crashes>>

Place(o, n, s) == disk' = [disk EXCEPT ![o][n] = s]

\* _claim: a link takes a name that nobody has; where it fails, the file is begun there,
\* unless that fails too.
Claim(c) ==
    /\ At(c, "claim")
    /\ LET o == cmd[c].doing[1]
           n == cmd[c].doing[2]
       IN  IF disk[o][n] # "none"
           THEN n + 1 \in Copies /\ Set(c, [cmd[c] EXCEPT !.doing = <<o, n + 1>>]) /\ UNCHANGED disk
           ELSE IF Links THEN Place(o, n, "whole") /\ Set(c, Passed(c, o))
           ELSE \/ Place(o, n, "begun") /\ Set(c, [cmd[c] EXCEPT !.at = "copy"])
                \/ Set(c, Reported(c, o)) /\ UNCHANGED disk
    /\ UNCHANGED <<facts, reads, installed, latest, place, crashes>>

\* _write_exclusive: the header goes first, then the copy is complete; a write that fails
\* removes the file.
Copy(c) ==
    /\ At(c, "copy")
    /\ LET o == cmd[c].doing[1]
           n == cmd[c].doing[2]
       IN  \/ disk[o][n] = "begun" /\ Place(o, n, "torn") /\ UNCHANGED cmd
           \/ disk[o][n] = "torn" /\ Place(o, n, "whole") /\ Set(c, Passed(c, o))
           \/ Place(o, n, "none") /\ Set(c, Reported(c, o))
    /\ UNCHANGED <<facts, reads, installed, latest, place, crashes>>

\* The end of _backups: a person at a terminal may accept the ones that cannot be read.
Abandon(c) ==
    /\ At(c, "convert") /\ cmd[c].left = {}
    /\ \/ cmd[c].broken # {} /\ Set(c, [cmd[c] EXCEPT !.at = "end", !.broken = {}, !.gaveUp = TRUE])
       \/ Set(c, [cmd[c] EXCEPT !.at = "end"])
    /\ UNCHANGED <<facts, disk, reads, installed, latest, place, crashes>>

\* handle, after the backups: what the command's exit status is made of.
Succeeds(c) ==
    /\ cmd[c].broken = {}
    /\ ~ (cmd[c].opt.check /\ \E i \in 1 .. Len(cmd[c].found) : cmd[c].found[i] = "action")

End(c) ==
    /\ At(c, "end")
    /\ Set(c, [cmd[c] EXCEPT !.at = "done", !.ok = Succeeds(c)])
    /\ UNCHANGED <<facts, disk, reads, installed, latest, place, crashes>>

\* The process is killed; mkstemp's partial is nobody's conversion.
Crash(c) ==
    /\ ~ At(c, "ready") /\ ~ At(c, "done") /\ crashes < MaxCrashes
    /\ crashes' = crashes + 1
    /\ Fails(c)
    /\ UNCHANGED <<facts, disk, reads, installed, latest, place>>

Next ==
    \E c \in Commands :
        Begin(c) \/ Step(c) \/ Release(c) \/ SelfUpdate(c) \/ Scan(c) \/ Convert(c) \/ Claim(c)
        \/ Copy(c) \/ Abandon(c) \/ End(c) \/ Crash(c)

Spec == Init /\ [][Next]_vars

-----------------------------------------------------------------------------
(* Properties. *)

Alone(c) == \A d \in Commands \ {c} : At(d, "ready")

\* One run whose fixes work is enough: what it reported is what the next one would find, nothing it
\* fixed undoes or uncovers a step that ran before it.
OneRunIsEnough ==
    \A c \in Commands : Alone(c) /\ cmd[c].at \in {"scan", "end"} /\ ~ cmd[c].fixFailed =>
        \A i \in 1 .. Len(STEPS) :
            LET now == Check(STEPS[i], facts)
            IN  IF cmd[c].found[i] = "fixed" THEN now = "ok" ELSE now = cmd[c].found[i]

\* --check is a forecast: it changes nothing, and where it comes to its end it exits zero only
\* where nothing needs action and every backup of the folder can be read or has a conversion;
\* warnings leave it passing.
CheckForecasts ==
    \A c \in Commands : cmd'[c] # cmd[c] /\ ~ At(c, "ready") /\ cmd[c].opt.check =>
        /\ UNCHANGED <<facts, disk, installed>>
        /\ At(c, "end") /\ crashes' = crashes /\ Alone(c) =>
             (cmd'[c].ok <=> /\ \A i \in 1 .. Len(STEPS) : Check(STEPS[i], facts) # "action"
                             /\ cmd[c].opt.backups = "folder" => Headless = {} /\ Stale = {})

\* After a run that exits zero without anything given up, every old backup of the folder
\* has a conversion beside it that is whole, whatever another run did or
\* however an earlier one was cut off.
ConvertedIsWhole ==
    \A c \in Commands :
        At(c, "done") /\ cmd[c].ok /\ ~ cmd[c].gaveUp /\ cmd[c].opt.backups = "folder" =>
            \A o \in Old : \E n \in Copies : disk[o][n] = "whole"

\* What one command wrote, no other replaces or removes.
ConversionsStay ==
    \A o \in Old, n \in Copies : disk[o][n] \in {"whole", "foreign"} => disk'[o][n] = disk[o][n]

\* The release that is said to be the latest is not older than the one PyPI names.
LatestIsLatest ==
    \A c \in Commands : cmd[c].said = "latest" => ~ After(latest, cmd[c].mine)
=============================================================================
