---------------------------- MODULE BackupFolder ----------------------------
(***************************************************************************)
(* The backups in DBS_BACKUP_DIR and the retention that prunes them        *)
(* (dbs/retention.py, the second half of dbs/schedule_runner.py, and dbs   *)
(* backup --stream).  Panel and scheduled backups are taken under the      *)
(* runner lease and prune with keep_newest; streams take no lease, run     *)
(* beside them and beside each other, and prune with keep_at_most.  The    *)
(* verdict on a file comes from the audit trail and may change while       *)
(* somebody prunes.  Positions in the code's sorted lists are counted as   *)
(* the number of newer backups.                                            *)
(***************************************************************************)
EXTENDS Naturals, FiniteSets

CONSTANTS
    Backups,         \* attempts at a backup, 1 .. n, in the order they begin
    Streams,         \* the ones of dbs backup --stream
    Unverified,      \* the streams with --no-verify
    Keep,            \* the schedule's keep
    Limit,           \* MAXIMUM_KEEP
    MaxBeside,       \* bound: backups that are being taken at the same time
    MaxValidations   \* bound: validations of a stored backup

FolderAssumption ==
    /\ Backups \in SUBSET (Nat \ {0})
    /\ Streams \subseteq Backups
    /\ Unverified \subseteq Streams
    /\ Limit \in Nat \ {0, 1}
    /\ Keep \in 1 .. Limit
    /\ MaxBeside \in Nat
    /\ MaxValidations \in Nat

VARIABLES
    job,        \* job[b]: where the process taking backup b is
    files,      \* the backups in the folder
    stamp,      \* stamp[b]: the time retention orders b by
    verdict,    \* verdict[b]: what the audit trail says of b's verification
    clock,      \* the last time that was handed out
    listed,     \* listed[b]: the names job b found in the folder
    doomed,     \* doomed[b]: what job b still has to remove
    checks,     \* validations so far
    disturbed   \* history: since b listed the folder something changed under it

vars == <<job, files, stamp, verdict, clock, listed, doomed, checks, disturbed>>

Steps == {"new", "write", "record", "finish", "list", "judge", "remove", "done", "dead"}
Pruning == {"judge", "remove"}

TypeOK ==
    /\ job \in [Backups -> Steps]
    /\ files \subseteq Backups
    /\ stamp \in [Backups -> Nat]
    /\ verdict \in [Backups -> {"passed", "failed", "unknown"}]
    /\ clock \in Nat
    /\ listed \in [Backups -> SUBSET Backups]
    /\ doomed \in [Backups -> SUBSET Backups]
    /\ checks \in 0 .. MaxValidations
    /\ disturbed \in [Backups -> BOOLEAN]

Init ==
    /\ job = [b \in Backups |-> "new"]
    /\ files = {}
    /\ stamp = [b \in Backups |-> 0]
    /\ verdict = [b \in Backups |-> "unknown"]
    /\ clock = 0
    /\ listed = [b \in Backups |-> {}]
    /\ doomed = [b \in Backups |-> {}]
    /\ checks = 0
    /\ disturbed = [b \in Backups |-> FALSE]

-----------------------------------------------------------------------------
(* The algorithms of retention.py, on the set S of stored backups. *)

Newer(c, b) == stamp[c] > stamp[b]
Position(S, b) == Cardinality({c \in S : Newer(c, b)})

Passed(S) == {b \in S : verdict[b] = "passed"}
Counted(S) == {b \in S : verdict[b] # "failed"}

\* Mutant: no backup is kept for having been verified.
VerifiedNone(S) == {}

\* The newest backup that passed, if there is one.
Verified(S) == {b \in Passed(S) : Position(Passed(S), b) = 0}

\* Mutant: a failed backup takes a place like any other.
StaleByPosition(S, keep) == {b \in S : Position(S, b) >= keep} \ Verified(S)

\* stale_stored_backups.
Stale(S, keep) ==
    LET kept == {b \in Counted(S) : Position(Counted(S), b) < keep} \cup Verified(S)
    IN  {b \in S \ kept : verdict[b] # "failed" \/ Position(S, b) >= keep}

\* Mutant: one too many stays.
StaleBeyondLess(S, keep, protect) == Stale(S, keep + 1) \ (protect \cup Verified(S))

\* Mutant: the backup just written is not protected.
StaleUnprotected(S, keep, protect) ==
    LET stale == Stale(S, keep) \ Verified(S)
        spare == (S \ stale) \ Verified(S)
        surplus == Cardinality(S \ stale) - keep
    IN  stale \cup {b \in spare : Cardinality({c \in spare : Newer(b, c)}) < surplus}

\* stale_beyond_limit: the oldest unprotected ones go too, until keep are left.
StaleBeyond(S, keep, protect) ==
    LET protected == protect \cup Verified(S)
        stale == Stale(S, keep) \ protected
        remaining == S \ stale
        spare == remaining \ protected
        surplus == Cardinality(remaining) - keep
    IN  stale \cup {b \in spare : Cardinality({c \in spare : Newer(b, c)}) < surplus}

-----------------------------------------------------------------------------
(* Taking a backup. *)

Goto(b, step) == job' = [job EXCEPT ![b] = step]

\* What changes the folder or a verdict disturbs everybody else who prunes.
Disturb(b) ==
    disturbed' = [p \in Backups |-> disturbed[p] \/ (p # b /\ job[p] \in Pruning)]

\* What a process knew ends with it.
Forget(b) ==
    /\ listed' = [listed EXCEPT ![b] = {}]
    /\ doomed' = [doomed EXCEPT ![b] = {}]
    /\ disturbed' = [disturbed EXCEPT ![b] = FALSE]

Alive(b) == job[b] \notin {"new", "done", "dead"}

\* The manifest carries the time the backup began; only streams run beside others.
Begin(b) ==
    /\ job[b] = "new"
    /\ \A c \in Backups : c < b => job[c] # "new"
    /\ Cardinality({c \in Backups : Alive(c)}) < MaxBeside
    /\ b \notin Streams => \A c \in Backups \ Streams : ~ Alive(c)
    /\ clock' = clock + 1
    /\ stamp' = [stamp EXCEPT ![b] = clock + 1]
    /\ Goto(b, "write")
    /\ UNCHANGED <<files, verdict, listed, doomed, checks, disturbed>>

\* The verified partial takes its name.
Publish(b) ==
    /\ job[b] = "write"
    /\ files' = files \cup {b}
    /\ Goto(b, "record")
    /\ Disturb(b)
    /\ UNCHANGED <<stamp, verdict, clock, listed, doomed, checks>>

\* record_backup
Record(b) ==
    /\ job[b] = "record"
    /\ clock' = clock + 1
    /\ stamp' = [stamp EXCEPT ![b] = clock + 1]
    /\ Goto(b, "finish")
    /\ Disturb(b)
    /\ UNCHANGED <<files, verdict, listed, doomed, checks>>

\* The event ends and says whether the backup was verified; the events are read
\* in the order in which they began, so a validation meanwhile comes after it.
Finish(b) ==
    /\ job[b] = "finish"
    /\ verdict' = IF b \in Unverified \/ verdict[b] # "unknown" THEN verdict
                  ELSE [verdict EXCEPT ![b] = "passed"]
    /\ Goto(b, "list")
    /\ Disturb(b)
    /\ UNCHANGED <<files, stamp, clock, listed, doomed, checks>>

\* The process dies, or its backup fails before it has a name.
Die(b) ==
    /\ Alive(b)
    /\ Goto(b, "dead")
    /\ Forget(b)
    /\ UNCHANGED <<files, stamp, verdict, clock, checks>>

-----------------------------------------------------------------------------
(* Pruning: stored_backups lists the folder and then asks the database, and  *)
(* remove_backups removes one file after the other, oldest first.            *)

List(b) ==
    /\ job[b] = "list"
    /\ listed' = [listed EXCEPT ![b] = files]
    /\ Goto(b, "judge")
    /\ UNCHANGED <<files, stamp, verdict, clock, doomed, checks, disturbed>>

\* keep_newest, or keep_at_most for a stream.
Judge(b) ==
    /\ job[b] = "judge"
    /\ LET stored == listed[b] \cap files
       IN  doomed' = [doomed EXCEPT ![b] =
                        IF b \in Streams THEN StaleBeyond(stored, Limit, {b})
                        ELSE Stale(stored, Keep)]
    /\ listed' = [listed EXCEPT ![b] = {}]
    /\ Goto(b, "remove")
    /\ UNCHANGED <<files, stamp, verdict, clock, checks, disturbed>>

Oldest(S) == CHOOSE b \in S : \A c \in S : ~ Newer(b, c)

\* A file that is gone or cannot be removed is passed over.
Remove(b) ==
    /\ job[b] = "remove" /\ doomed[b] # {}
    /\ doomed' = [doomed EXCEPT ![b] = @ \ {Oldest(@)}]
    /\ \/ /\ files' = files \ {Oldest(doomed[b])}
          /\ Disturb(b)
       \/ /\ disturbed' = [disturbed EXCEPT ![b] = TRUE]
          /\ UNCHANGED files
    /\ UNCHANGED <<job, stamp, verdict, clock, listed, checks>>

Pruned(b) ==
    /\ job[b] = "remove" /\ doomed[b] = {}
    /\ Goto(b, "done")
    /\ Forget(b)
    /\ UNCHANGED <<files, stamp, verdict, clock, checks>>

\* Somebody validates a stored backup in the panel: a verdict for or against it.
Validate(b) ==
    /\ b \in files
    /\ checks < MaxValidations
    /\ checks' = checks + 1
    /\ \E v \in {"passed", "failed"} : verdict' = [verdict EXCEPT ![b] = v]
    /\ disturbed' = [p \in Backups |-> disturbed[p] \/ job[p] \in Pruning]
    /\ UNCHANGED <<job, files, stamp, clock, listed, doomed>>

Take(b) == Begin(b) \/ Publish(b) \/ Record(b) \/ Finish(b) \/ Die(b)
Prune(b) == List(b) \/ Judge(b) \/ Remove(b) \/ Pruned(b)

Next == \E b \in Backups : Take(b) \/ Prune(b) \/ Validate(b)

Spec == Init /\ [][Next]_vars

-----------------------------------------------------------------------------
(* Properties *)

Removes(p, b) == job[p] = "remove" /\ doomed[p] # {} /\ b = Oldest(doomed[p]) /\ b \in files \ files'

(* "The newest backup that passed verification is always kept"               *)
(* (docs/panel.md): every prune under which nothing has changed since it     *)
(* listed the folder removes a verified backup only when a newer one stays,  *)
(* also when the prune dies halfway.                                         *)
SparesNewestVerified ==
    \A p, b \in Backups :
        Removes(p, b) /\ ~ disturbed[p] /\ verdict[b] = "passed" =>
            \E c \in Passed(files') : Newer(c, b)
NewestVerifiedKept == [][SparesNewestVerified]_vars

(* The same without that condition: whatever runs beside it, a prune leaves  *)
(* a folder that has a verified backup with one.                             *)
VerifiedAlwaysKept ==
    [][\A p, b \in Backups :
         Removes(p, b) /\ Passed(files) # {} => Passed(files) \ {b} # {}]_vars

(* "A backup that failed verification never takes one of the places"         *)
(* (docs/panel.md): a panel prune removes a backup that has not failed only  *)
(* when keep others that have not failed stay.                               *)
LeavesPlaces ==
    \A p \in Backups \ Streams : \A b \in Backups :
        Removes(p, b) /\ ~ disturbed[p] /\ verdict[b] # "failed" =>
            Cardinality(Counted(files')) >= Keep
PlacesAreKept == [][LeavesPlaces]_vars

(* "dbs backup --stream keeps at most five per prefix" (docs/panel.md): a    *)
(* stream's undisturbed prune ends with at most Limit files in the folder.   *)
EndsWithinLimit ==
    \A p \in Streams :
        job[p] = "remove" /\ job'[p] = "done" /\ ~ disturbed[p] => Cardinality(files) <= Limit
StreamLimit == [][EndsWithinLimit]_vars

(* The manager collects the server's copy of what it streamed: a stream does *)
(* not remove its own backup, also when other backups are newer.             *)
SparesItsOwn == \A p \in Streams : ~ Removes(p, p)
StreamKeepsItsOwn == [][SparesItsOwn]_vars

-----------------------------------------------------------------------------
(* The inductive invariant behind them, in named parts.                      *)

\* Only a backup that was written is in the folder, and there are finitely many.
FilesAreWritten == IsFiniteSet(files) /\ \A b \in files : job[b] \notin {"new", "write"}

\* Retention can tell any two backups apart by their times.
TimesDiffer ==
    /\ \A b \in Backups : IF job[b] = "new" THEN stamp[b] = 0 ELSE stamp[b] \in 1 .. clock
    /\ \A b, c \in Backups : job[b] # "new" /\ stamp[b] = stamp[c] => b = c

\* What an undisturbed job has listed is the folder.
ListIsCurrent == \A p \in Backups : job[p] = "judge" /\ ~ disturbed[p] => listed[p] = files

\* What job p leaves in the folder.
Left(p) == files \ doomed[p]

\* What job p will leave is what its kind of retention promises ...
Plan(p) ==
    /\ doomed[p] \subseteq files
    /\ \A b \in doomed[p] : verdict[b] = "passed" => \E c \in Passed(Left(p)) : Newer(c, b)
    /\ p \notin Streams /\ (\E b \in doomed[p] : verdict[b] # "failed")
         => Cardinality(Counted(Left(p))) >= Keep
    /\ p \in Streams => Cardinality(Left(p)) <= Limit

\* ... however far it has come, unless it was disturbed.
PlanHolds == \A p \in Backups : job[p] = "remove" /\ ~ disturbed[p] => Plan(p)

\* A stream has not marked its own backup.
OwnIsSpared == \A p \in Streams : job[p] = "remove" => p \notin doomed[p]

FolderInv == TypeOK /\ FilesAreWritten /\ TimesDiffer /\ ListIsCurrent /\ PlanHolds /\ OwnIsSpared
=============================================================================
