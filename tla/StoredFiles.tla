----------------------------- MODULE StoredFiles -----------------------------
(***************************************************************************)
(* The sealed files in the manager's store: uploads, which are requests,    *)
(* the archive and collect plans of BackupRunService, of which one runs at  *)
(* a time (ManagerJobs), and the expiry of what was deleted.  They all      *)
(* choose names in one folder of the application.  Partials (.part) are     *)
(* written by their own name and read by nobody, and are left out.          *)
(***************************************************************************)
EXTENDS Naturals, Sequences, FiniteSets

CONSTANTS
    Uploads,      \* requests that upload a file, under the name of what is collected
    Files,        \* numbers: the files of the server that match the plan's pattern
    Plan,         \* "collect" or "archive"
    Keep,         \* how many the plan keeps
    KeepRemote,   \* ... and how many archives stay on the server
    MaxPlaces,    \* bound: the ordinals of a name
    MaxRuns, MaxWrites, MaxFaults, MaxCrashes, MaxDeletes, MaxExpiries   \* bounds

StoredFilesAssumption ==
    /\ Files \subseteq Nat /\ Keep \in Nat \ {0} /\ KeepRemote \in Nat /\ MaxPlaces \in Nat
    /\ Plan \in {"collect", "archive"} /\ "job" \notin Uploads
    /\ {MaxRuns, MaxWrites, MaxFaults, MaxCrashes, MaxDeletes, MaxExpiries} \subseteq Nat

VARIABLES
    disk,      \* disk[p]: what the file at p holds
    row,       \* the rows of BackupFile, in the order they were created
    work,      \* work[w]: a thread that stores a file: the path, what it was asked for, what it sealed
    job,       \* the run of the plan: what it has listed and not looked at
    server,    \* server[f]: the size and the modification time of a file on the server
    remote,    \* the archives in the staging folder, by the run that made them
    expiring,  \* the rows remove_expired has listed, and the one whose file is gone, or 0
    left,      \* history: where a crash, or a server that was lost, may have left something
    count,     \* how often each bounded event has happened
    haunted    \* history: places whose file a crash has parted from its row, in the middle of an expiry

vars == <<disk, row, work, job, server, remote, expiring, left, count, haunted>>

Writers == Uploads \cup {"job"}
Events == {"run", "write", "fault", "crash", "delete", "expiry"}
Names == {0} \cup 1 .. MaxRuns      \* 0: the name of uploads and of what is collected; n: archive n
Places == Names \X (1 .. MaxPlaces)

Nothing == <<"nothing">>
Reserved == <<"reserved">>     \* the empty file that holds a name
Idle == [at |-> "idle", path |-> <<0, 1>>, item |-> Nothing, got |-> Nothing]
NoJob == [at |-> "idle", listed |-> {}, todo |-> {}]
NoExpiry == [rows |-> {}, gone |-> 0]

Init ==
    /\ disk = [p \in Places |-> Nothing]
    /\ row = <<>>
    /\ work = [w \in Writers |-> Idle]
    /\ job = NoJob
    /\ server = [f \in Files |-> [size |-> 1, mtime |-> 1]]
    /\ remote = {}
    /\ expiring = NoExpiry
    /\ left = {}
    /\ count = [e \in Events |-> 0]
    /\ haunted = {}

Bound(e) == CASE e = "run" -> MaxRuns [] e = "write" -> MaxWrites [] e = "fault" -> MaxFaults
              [] e = "crash" -> MaxCrashes [] e = "delete" -> MaxDeletes [] e = "expiry" -> MaxExpiries
Counted(e) == count[e] < Bound(e) /\ count' = [count EXCEPT ![e] = @ + 1]

At(w, s) == work[w].at = s
Goto(w, s) == work' = [work EXCEPT ![w].at = s]
Fill(p, content) == disk' = [disk EXCEPT ![p] = content]

-----------------------------------------------------------------------------
(* BackupStorage: a name, the file under it, its row. *)

Exists(p) == disk[p] # Nothing

\* unused_sealed_path, _unused_archive_name: the first ordinal under which there is no file now.
Unused(name) ==
    {<<name, n>> : n \in {n \in 1 .. MaxPlaces :
        ~ Exists(<<name, n>>) /\ \A m \in 1 .. n - 1 : Exists(<<name, m>>)}}

Choose(w, name, item) ==
    \E p \in Unused(name) : work' = [work EXCEPT ![w] = [at |-> "chosen", path |-> p, item |-> item, got |-> Nothing]]

\* writing: os.open(final, O_CREAT | O_EXCL), before the try that unlinks.
Reserve(w) ==
    /\ At(w, "chosen")
    /\ IF Exists(work[w].path)
       THEN Goto(w, "failed") /\ UNCHANGED disk
       ELSE Goto(w, "writing") /\ Fill(work[w].path, Reserved)
    /\ UNCHANGED <<row, job, server, remote, expiring, left, count, haunted>>

\* What the thread reads: an upload, an archive, or the file of the server as it is now.
Content(item) == IF item[1] = "file" THEN <<"file", item[2], server[item[2]]>> ELSE item

\* The partial is complete, and replaces the reservation.
Written(w) ==
    LET item == work[w].item
    IN  /\ At(w, "writing")
        /\ Fill(work[w].path, Content(item))
        /\ work' = [work EXCEPT ![w].got = Content(item),
               ![w].at = CASE item[1] = "archive" -> "prune"
                           [] item[1] = "file" /\ server[item[2]].size # item[3].size -> "drop"
                           [] OTHER -> "record"]
        /\ UNCHANGED <<row, job, server, remote, expiring, left, count, haunted>>

\* A disk that is full, a connection that is lost, an archive whose digest differs.
WriteFails(w) ==
    /\ At(w, "writing")
    /\ Counted("fault")
    /\ Fill(work[w].path, Nothing)
    /\ Goto(w, "failed")
    /\ UNCHANGED <<row, job, server, remote, expiring, left, haunted>>

\* The digest of the row is of what was sealed; the version is the one that was listed.
NewRow(w) ==
    [path |-> work[w].path, holds |-> work[w].got, of |-> work[w].item,
     deleted |-> FALSE, removed |-> FALSE]

\* unique_stored_path: one row per path among those that are not removed.
PathFree(p) == \A i \in DOMAIN row : row[i].path = p => row[i].removed

\* files.create; whatever it raises, the file goes.
Record(w) ==
    /\ At(w, "record")
    /\ IF PathFree(work[w].path)
       THEN row' = Append(row, NewRow(w)) /\ Goto(w, "stored")
       ELSE Goto(w, "undo") /\ UNCHANGED row
    /\ UNCHANGED <<disk, job, server, remote, expiring, left, count, haunted>>

RecordFails(w) ==
    /\ At(w, "record")
    /\ Counted("fault")
    /\ Goto(w, "undo")
    /\ UNCHANGED <<disk, row, job, server, remote, expiring, left, haunted>>

\* storage.remove, of a file that has no row.
Undo(w) ==
    /\ At(w, "undo")
    /\ Fill(work[w].path, Nothing)
    /\ Goto(w, "failed")
    /\ UNCHANGED <<row, job, server, remote, expiring, left, count, haunted>>

Store(w) == Reserve(w) \/ Written(w) \/ WriteFails(w) \/ Record(w) \/ RecordFails(w) \/ Undo(w)

\* BackupService.upload, of a name and a size that are allowed.
Upload(u) ==
    /\ At(u, "idle")
    /\ Choose(u, 0, <<"upload", u>>)
    /\ UNCHANGED <<disk, row, job, server, remote, expiring, left, count, haunted>>

-----------------------------------------------------------------------------
(* A run of the plan. *)

RowsOf(kind) == {i \in DOMAIN row : row[i].of[1] = kind}

\* collected_from: what the plan has ever recorded, deleted or not.
Seen == {row[i].of : i \in RowsOf("file")}

\* list_files: path, size and modification time of what matches the pattern.
Listed == {<<"file", f, server[f]>> : f \in Files}

\* What was listed and not seen is to be collected.
BeginCollect ==
    /\ Plan = "collect" /\ job.at = "idle"
    /\ Counted("run")
    /\ job' = [at |-> "collect", listed |-> Listed, todo |-> Listed \ Seen]
    /\ UNCHANGED <<disk, row, work, server, remote, expiring, left, haunted>>

\* The oldest first, then by name.
Oldest(x, S) == \A y \in S : x[3].mtime < y[3].mtime \/ (x[3].mtime = y[3].mtime /\ x[2] <= y[2])

CollectFile ==
    /\ job.at = "collect" /\ job.todo # {}
    /\ work["job"].at \in {"idle", "stored"}
    /\ \E item \in job.todo :
          Oldest(item, job.todo) /\ Choose("job", 0, item) /\ job' = [job EXCEPT !.todo = @ \ {item}]
    /\ UNCHANGED <<disk, row, server, remote, expiring, left, count, haunted>>

\* The file changed its size while it was read: it is skipped this time.
Drop ==
    /\ At("job", "drop")
    /\ Fill(work["job"].path, Nothing)
    /\ Goto("job", "stored")
    /\ UNCHANGED <<row, job, server, remote, expiring, left, count, haunted>>

\* tar on the server, into the staging folder.
BeginArchive ==
    /\ Plan = "archive" /\ job.at = "idle"
    /\ Counted("run")
    /\ remote' = remote \cup {count["run"] + 1}
    /\ job' = [NoJob EXCEPT !.at = "archive"]
    /\ Choose("job", count["run"] + 1, <<"archive", count["run"] + 1>>)
    /\ UNCHANGED <<disk, row, server, expiring, left, haunted>>

\* tar fails, and what it wrote is removed, unless the server is lost.
ArchiveFails ==
    /\ Plan = "archive" /\ job.at = "idle"
    /\ Counted("run")
    /\ remote' \in {remote, remote \cup {count["run"] + 1}}
    /\ UNCHANGED <<disk, row, work, job, server, expiring, left, haunted>>

\* prune: all but the newest KeepRemote, the oldest first.
Excess == {n \in remote : Cardinality({m \in remote : m > n}) >= KeepRemote}

Prune ==
    /\ At("job", "prune")
    /\ remote' = remote \ Excess
    /\ Goto("job", "record")
    /\ UNCHANGED <<disk, row, job, server, expiring, left, count, haunted>>

PruneFails ==
    /\ At("job", "prune")
    /\ Counted("fault")
    /\ \E n \in {0} \cup Excess : remote' = {m \in remote : m > n}
    /\ Goto("job", "undo")
    /\ UNCHANGED <<disk, row, job, server, expiring, left, haunted>>

Alive(i) == ~ row[i].deleted

\* alive_for_plan: the newest first, as rows are created.
Stale(kind) == {i \in RowsOf(kind) : Alive(i) /\ Cardinality({j \in RowsOf(kind) : Alive(j) /\ j > i}) >= Keep}

\* _retain, in one transaction, and the run is over.
Retain ==
    /\ job.at # "idle" /\ job.todo = {}
    /\ work["job"].at \in {"idle", "stored"}
    /\ job.at = "archive" => At("job", "stored")
    /\ LET stale == Stale(IF job.at = "collect" THEN "file" ELSE "archive")
       IN  row' = [i \in DOMAIN row |-> IF i \in stale THEN [row[i] EXCEPT !.deleted = TRUE] ELSE row[i]]
    /\ job' = NoJob
    /\ work' = [work EXCEPT !["job"] = Idle]
    /\ UNCHANGED <<disk, server, remote, expiring, left, count, haunted>>

\* Whatever the run raised is the outcome of the job; retention waits for a run that succeeds.
RunFails ==
    /\ At("job", "failed")
    /\ job' = NoJob
    /\ work' = [work EXCEPT !["job"] = Idle]
    /\ UNCHANGED <<disk, row, server, remote, expiring, left, count, haunted>>

Run == \/ BeginCollect \/ CollectFile \/ Drop \/ BeginArchive \/ ArchiveFails
       \/ Prune \/ PruneFails \/ Retain \/ RunFails

-----------------------------------------------------------------------------
(* Deletion and expiry; the server; a crash. *)

\* BackupService.delete: the row is marked and the file stays for the grace period.
Delete(i) ==
    /\ Alive(i)
    /\ Counted("delete")
    /\ row' = [row EXCEPT ![i].deleted = TRUE]
    /\ UNCHANGED <<disk, work, job, server, remote, expiring, left, haunted>>

\* remove_expired: deleted_before lists, then file after file, in an order that is left open.
BeginExpire ==
    /\ expiring = NoExpiry
    /\ Counted("expiry")
    /\ LET past == {i \in DOMAIN row : row[i].deleted /\ ~ row[i].removed}
       IN  past # {} /\ expiring' = [rows |-> past, gone |-> 0]
    /\ UNCHANGED <<disk, row, work, job, server, remote, left, haunted>>

ExpireFile ==
    /\ expiring.gone = 0
    /\ \E i \in expiring.rows : Fill(row[i].path, Nothing) /\ expiring' = [expiring EXCEPT !.gone = i]
    /\ UNCHANGED <<row, work, job, server, remote, left, count, haunted>>

ExpireRow ==
    /\ expiring.gone # 0
    /\ row' = [row EXCEPT ![expiring.gone].removed = TRUE]
    /\ expiring' = [rows |-> expiring.rows \ {expiring.gone}, gone |-> 0]
    /\ UNCHANGED <<disk, work, job, server, remote, left, count, haunted>>

\* Somebody writes a file of the server; its modification time moves.
Rewrite(f) ==
    /\ Counted("write")
    /\ \E size \in 1 .. 2 : server' = [server EXCEPT ![f] = [size |-> size, mtime |-> @.mtime + 1]]
    /\ UNCHANGED <<disk, row, work, job, remote, expiring, left, haunted>>

\* The process of the manager dies with every thread of it.
Crash ==
    /\ Counted("crash")
    /\ left' = left \cup {work[w].path : w \in {w \in Writers : work[w].at \in {"writing", "prune", "record", "undo", "drop"}}}
    /\ work' = [w \in Writers |-> IF w = "job" \/ At(w, "idle") THEN Idle ELSE [Idle EXCEPT !.at = "failed"]]
    /\ job' = NoJob /\ expiring' = NoExpiry
    /\ haunted' = haunted \cup (IF expiring.gone = 0 THEN {} ELSE {row[expiring.gone].path})
    /\ UNCHANGED <<disk, row, server, remote>>

Next ==
    \/ \E w \in Writers : Store(w)
    \/ \E u \in Uploads : Upload(u)
    \/ Run
    \/ \E i \in DOMAIN row : Delete(i)
    \/ BeginExpire \/ ExpireFile \/ ExpireRow
    \/ \E f \in Files : Rewrite(f)
    \/ Crash

Spec == Init /\ [][Next]_vars

-----------------------------------------------------------------------------
(* What must hold. *)

Whole(i) == disk[row[i].path] = row[i].holds

\* A backup that is not deleted has its file, as it was when its row was written: no other
\* thread that chose the same name, failed, cleaned up or expired has replaced or removed it.
\* Only where a crash has parted an expired file from its row may a later one be lost.
StoredIsWhole == \A i \in DOMAIN row : Alive(i) /\ row[i].path \notin haunted => Whole(i)

\* The same wherever the manager died: when the files deleted long ago leave the disk, what is
\* kept stays on it (tests/manager/backups/test_schedule.py).
AliveIsWhole == \A i \in DOMAIN row : Alive(i) => Whole(i)

\* A file of the store has a row, or a thread that will give it one or remove it: failed
\* uploads, dropped files and failed runs leave nothing behind; only a crash does.
NothingStray ==
    \A p \in Places : Exists(p) =>
        \/ ~ PathFree(p) \/ p \in left
        \/ \E w \in Writers : work[w].path = p /\ work[w].at \notin {"idle", "chosen", "failed", "stored"}

\* A version of a server's file is collected once, whether or not its row was deleted since.
CollectedOnce == \A i, j \in RowsOf("file") : row[i].of = row[j].of => i = j

\* Where the version a row names is still the one on the server, the row holds that content:
\* a file that changed between the listing and the read has another version now.
CollectedIsFaithful ==
    \A i \in RowsOf("file") :
        row[i].of = <<"file", row[i].of[2], server[row[i].of[2]]>> => row[i].holds = row[i].of

\* When a run of the plan succeeds, what the server held at its listing and still holds
\* has been collected.
ListedIsCollected ==
    job.at = "collect" /\ job.todo = {} /\ work["job"].at \in {"idle", "stored"} =>
        \A x \in job.listed : server[x[2]] = x[3] => x \in Seen

\* ... and no more archives are left on the server than the plan keeps.
FewOnServer == job.at = "archive" /\ At("job", "stored") => Cardinality(remote) <= KeepRemote

RunsAreComplete == ListedIsCollected /\ FewOnServer

-----------------------------------------------------------------------------
(* Why they hold: the inductive invariants. *)

Version == [size : 1 .. 2, mtime : Nat]
FileItem == {"file"} \X Files \X Version
Contents == {Nothing, Reserved} \cup ({"upload"} \X Uploads) \cup ({"archive"} \X Nat) \cup FileItem
Busy(w) == work[w].at \in {"writing", "prune", "drop", "record", "undo"}
Kept(i) == i \in DOMAIN row /\ ~ row[i].removed

Typed ==
    /\ disk \in [Places -> Contents]
    /\ row \in Seq([path : Places, holds : Contents, of : Contents, deleted : BOOLEAN, removed : BOOLEAN])
    /\ work \in [Writers -> [at : {"idle", "chosen", "writing", "prune", "drop", "record", "undo",
                                   "failed", "stored"},
                             path : Nat \X Nat, item : Contents, got : Contents]]
    /\ \A w \in Writers : Busy(w) \/ At(w, "chosen") =>
          work[w].path \in Places /\ work[w].item \notin {Nothing, Reserved}
    /\ job \in [at : {"idle", "collect", "archive"}, listed : SUBSET FileItem, todo : SUBSET FileItem]
    /\ server \in [Files -> Version] /\ count \in [Events -> Nat] /\ expiring.gone \in Nat
    /\ expiring = [rows |-> expiring.rows, gone |-> expiring.gone]

\* What is being expired was deleted, and its row is still there.
ExpiringDeleted ==
    /\ expiring.rows \subseteq {i \in DOMAIN row : row[i].deleted /\ ~ row[i].removed}
    /\ expiring.gone # 0 => expiring.gone \in expiring.rows
    /\ \A i \in DOMAIN row : row[i].removed => row[i].deleted
RowsApart == \A i, j \in DOMAIN row : Kept(i) /\ Kept(j) /\ row[i].path = row[j].path => i = j
\* The row whose file the expiry has removed explains no file any more.
FilesExplained ==
    \A p \in Places : Exists(p) =>
        \/ \E i \in DOMAIN row : Kept(i) /\ i # expiring.gone /\ row[i].path = p
        \/ p \in left
        \/ \E w \in Writers : Busy(w) /\ work[w].path = p
\* The thread of the plan rests between two runs.
JobRests == job.at = "idle" => At("job", "idle") /\ job = NoJob
StrayInv == Typed /\ JobRests /\ ExpiringDeleted /\ RowsApart /\ FilesExplained

\* Where no crash has parted a file from its row, a place belongs to one thread, or to one row.
OnePerPlace ==
    \A v, w \in Writers :
        Busy(v) /\ Busy(w) /\ work[v].path = work[w].path /\ work[v].path \notin haunted => v = w
WorkIsThere ==
    \A w \in Writers : Busy(w) /\ work[w].path \notin haunted =>
        /\ Exists(work[w].path)
        /\ ~ At(w, "writing") => disk[work[w].path] = work[w].got
KeptAreThere ==
    \A i \in DOMAIN row : Kept(i) /\ i # expiring.gone /\ row[i].path \notin haunted =>
        Exists(row[i].path) /\ Whole(i)
WorkApart ==
    \A w \in Writers, i \in DOMAIN row :
        Busy(w) /\ Kept(i) /\ work[w].path = row[i].path /\ row[i].path \notin haunted => i = expiring.gone
WholeInv == StrayInv /\ OnePerPlace /\ WorkIsThere /\ KeptAreThere /\ WorkApart

\* A version of a file is older than the one on the server, or is that one.
Old(x) == x[3].mtime < server[x[2]].mtime
Current(x) == x[3] = server[x[2]]
Working == Busy("job") \/ At("job", "chosen")
\* Only the thread of the plan reads from the server, and only an archive is followed by pruning.
ItemsFit ==
    /\ \A u \in Uploads : work[u].item[1] # "file"
    /\ At("job", "prune") => work["job"].item[1] = "archive"
    /\ At("job", "drop") => work["job"].item[1] = "file"
\* What is to be collected, or is being collected, has no row yet.
ToCollectIsNew ==
    /\ job.todo \cap Seen = {}
    /\ Working /\ work["job"].item \in FileItem => work["job"].item \notin Seen \cup job.todo
VersionsAge ==
    /\ \A x \in job.listed \cup job.todo : Old(x) \/ Current(x)
    /\ Working /\ work["job"].item \in FileItem => Old(work["job"].item) \/ Current(work["job"].item)
    /\ At("job", "drop") => Old(work["job"].item)
    /\ At("job", "record") /\ work["job"].item \in FileItem =>
          Old(work["job"].item) \/ work["job"].got = work["job"].item
    /\ \A i \in RowsOf("file") : Old(row[i].of) \/ row[i].holds = row[i].of
ListedIsGoing ==
    \A x \in job.listed :
        \/ x \in job.todo \cup Seen \/ Old(x)
        \/ work["job"].item = x /\ work["job"].at \notin {"idle", "stored"}
CollectInv ==
    /\ Typed /\ JobRests /\ ExpiringDeleted /\ ItemsFit /\ ToCollectIsNew /\ CollectedOnce /\ VersionsAge /\ ListedIsGoing

\* Once an archive is pruned for, few are left, until the run is over.
PrunedInv ==
    /\ remote \subseteq Nat /\ IsFiniteSet(remote)
    /\ job.at = "archive" /\ Working => work["job"].item[1] = "archive"
    /\ job.at = "archive" /\ work["job"].at \in {"record", "stored"} => Cardinality(remote) <= KeepRemote

=============================================================================
