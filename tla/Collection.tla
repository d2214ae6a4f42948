------------------------------ MODULE Collection ------------------------------
(***************************************************************************)
(* How DBS backups come from a server into the manager and leave it again:  *)
(* DbsRun (collect, stream, resume, register, release), the retention of    *)
(* BackupRunService, and verify, delete, undo and expiry of a stored file.  *)
(* The run holds the application's lock (ManagerJobs), so there is one at a *)
(* time; users, the expiry and the command on the server run beside it.     *)
(***************************************************************************)
EXTENDS Naturals, FiniteSets

CONSTANTS
    Backups,      \* 1 .. n: what the runs stream, in the order they begin
    Rows,         \* 1 .. m: rows of BackupFile, in the order they are created
    Clocks,       \* the moments a server's clock may show
    Passphrases,  \* what the application's passphrase may be
    HasFolder,    \* BOOLEAN: the manager knows the server's backup folder
    Keep, KeepRemote, QuarantineKeep,
    ServerLimit,  \* MAXIMUM_KEEP of dbs backup --stream on the server
    None,
    MaxCrashes, MaxDeletes, MaxUndos, MaxVerifies, MaxRekeys, MaxBreaks  \* bounds

CollectionAssumption ==
    /\ Backups \in SUBSET (Nat \ {0}) /\ Rows \in SUBSET (Nat \ {0}) /\ Clocks \subseteq Nat
    /\ HasFolder \in BOOLEAN
    /\ {Keep, ServerLimit} \subseteq Nat \ {0}
    /\ {KeepRemote, QuarantineKeep, MaxCrashes, MaxDeletes, MaxUndos, MaxVerifies, MaxRekeys,
        MaxBreaks} \subseteq Nat
    /\ None \notin Backups \cup Rows /\ None \notin Passphrases

VARIABLES
    srv,        \* srv[b]: the copy of b on the server
    moment,     \* moment[b]: the time in its name
    sealed,     \* sealed[b]: the passphrase it was written with
    row,        \* row[i]: a row of BackupFile, None before it exists
    stored,     \* the rows whose file is in the manager's folder
    passphrase, \* the application's
    run,        \* the run that holds the lock
    kept,       \* history: the backups a run reported as kept on the server
    verifying, undoing, expiring,
    count       \* how often each bounded event has happened

vars == <<srv, moment, sealed, row, stored, passphrase, run, kept, verifying, undoing,
          expiring, count>>
users == <<verifying, undoing, expiring>>

Arrivals == {"whole", "changed", "short"}
Resting == [at |-> "idle", b |-> None, todo |-> {}, got |-> None, arrived |-> None, next |-> "idle",
          key |-> None, copies |-> {}, listed |-> {}]
Events == {"crash", "delete", "undo", "verify", "rekey", "break"}

Init ==
    /\ srv = [b \in Backups |-> "none"]
    /\ moment = [b \in Backups |-> 0]
    /\ sealed = [b \in Backups |-> None]
    /\ row = [i \in Rows |-> None]
    /\ stored = {}
    /\ passphrase \in Passphrases
    /\ run = Resting
    /\ kept = {}
    /\ verifying = None /\ undoing = None /\ expiring = None
    /\ count = [e \in Events |-> 0]

Least(S) == CHOOSE x \in S : \A y \in S : x <= y
Count(e) == count' = [count EXCEPT ![e] = @ + 1]
Goto(s) == run' = [run EXCEPT !.at = s]

Exists(i) == row[i] # None
Alive(i) == Exists(i) /\ ~ row[i].deleted
Of(b) == {i \in Rows : Exists(i) /\ row[i].b = b}
Update(i, new) == row' = [row EXCEPT ![i] = new]

\* moment_of: the time in the name, then the order in which rows were created.
Later(i, j) ==
    \/ moment[row[i].b] > moment[row[j].b]
    \/ moment[row[i].b] = moment[row[j].b] /\ i > j
Place(S, i) == Cardinality({j \in S : Later(j, i)})

\* The rows and the files of the manager a new one may take.
Unused == {i \in Rows : ~ Exists(i) /\ i \notin stored}

\* validate_backup: its error correction still decrypts bytes that changed.
Decrypts(b, bytes, key) == bytes # "short" /\ sealed[b] = key

-----------------------------------------------------------------------------
(* A run: sweep and list, collect what waits. *)

\* storage.sweep_partials and the server's: a partial older than an hour goes.
Start ==
    /\ run.at = "idle"
    /\ run' = [Resting EXCEPT !.at = "listing", !.key = passphrase]
    /\ \E stale \in SUBSET {b \in Backups : srv[b] = "dead"} :
         srv' = [b \in Backups |-> IF b \in stale THEN "gone" ELSE srv[b]]
    /\ UNCHANGED <<moment, sealed, row, stored, passphrase, kept, users, count>>

\* waiting_backups: nothing where no folder is known.
Waiting == IF HasFolder THEN {b \in Backups : srv[b] = "whole"} ELSE {}

List ==
    /\ run.at = "listing"
    /\ run' = [run EXCEPT !.at = "collect", !.todo = Waiting]
    /\ UNCHANGED <<srv, moment, sealed, row, stored, passphrase, kept, users, count>>

\* The oldest first.
NextOf(S) == CHOOSE b \in S : \A c \in S : moment[b] < moment[c] \/ (moment[b] = moment[c] /\ b <= c)

\* recorded_at and _held: a row of that path with the same size and SHA-256, deleted or not.
Held(b) == \E i \in Of(b) : row[i].remote /\ row[i].bytes = "whole"

Skip ==
    /\ run.at = "collect" /\ run.todo # {}
    /\ LET b == NextOf(run.todo)
       IN  /\ Held(b) \/ srv[b] # "whole"     \* RemoteNotFound
           /\ run' = [run EXCEPT !.todo = @ \ {b}]
    /\ UNCHANGED <<srv, moment, sealed, row, stored, passphrase, kept, users, count>>

\* install: under a name of its own, never in place of another.
Installed(b, bytes, digest, next) ==
    /\ Unused # {}
    /\ LET i == Least(Unused)
       IN  /\ stored' = stored \cup {i}
           /\ run' = [run EXCEPT !.at = "record", !.b = b, !.todo = @ \ {b}, !.got = [i |-> i, bytes |-> bytes,
                                 digest |-> digest], !.next = next]
    /\ \/ bytes = "whole" /\ UNCHANGED count
       \/ bytes # "whole" /\ count["break"] < MaxBreaks /\ Count("break")
    /\ UNCHANGED <<srv, moment, sealed, row, passphrase, kept, users>>

\* _pull: no digest to compare with, the size and the decryption have to do.
Pull(bytes) ==
    /\ run.at = "collect" /\ run.todo # {}
    /\ ~ Held(NextOf(run.todo)) /\ srv[NextOf(run.todo)] = "whole"
    /\ Installed(NextOf(run.todo), bytes, FALSE, "collect")

\* _problem.
Problem(b, got, key) ==
    \/ got.bytes = "short"
    \/ got.digest /\ got.bytes = "changed"
    \/ ~ Decrypts(b, got.bytes, key)

\* _register and _record: quarantined or verified.
Record ==
    /\ run.at = "record"
    /\ LET bad == Problem(run.b, run.got, run.key)
           new == [b |-> run.b, bytes |-> run.got.bytes, valid |-> ~ bad, failure |-> bad,
                   remote |-> HasFolder, deleted |-> FALSE, removed |-> FALSE]
       IN  Update(run.got.i, new)
    /\ run' = [run EXCEPT !.at = run.next, !.b = None, !.got = None,
               !.arrived = IF run.next = "release" THEN run.got.i ELSE @]
    /\ UNCHANGED <<srv, moment, sealed, stored, passphrase, kept, users, count>>

\* The row was refused by the database: its file goes and the run fails.
RecordFails ==
    /\ run.at = "record"
    /\ stored' = stored \ {run.got.i}
    /\ run' = Resting
    /\ Count("crash") /\ count["crash"] < MaxCrashes
    /\ UNCHANGED <<srv, moment, sealed, row, passphrase, kept, users>>

Collected ==
    /\ run.at = "collect" /\ run.todo = {}
    /\ Goto("stream")
    /\ UNCHANGED <<srv, moment, sealed, row, stored, passphrase, kept, users, count>>

\* The connection or the command fails: the job fails.
Fails ==
    /\ run.at \in {"listing", "collect", "stream", "streaming", "resume", "release", "releasing"}
    /\ count["break"] < MaxBreaks /\ Count("break")
    /\ run' = Resting
    /\ UNCHANGED <<srv, moment, sealed, row, stored, passphrase, kept, users>>

-----------------------------------------------------------------------------
(* A fresh backup is streamed, and pulled where the stream breaks. *)

BeginStream ==
    /\ run.at = "stream"
    /\ \E b \in Backups, m \in Clocks :
         /\ srv[b] = "none" /\ \A c \in Backups : c < b => srv[c] # "none"
         /\ srv' = [srv EXCEPT ![b] = "writing"]
         /\ moment' = [moment EXCEPT ![b] = m]
         /\ sealed' = [sealed EXCEPT ![b] = run.key]
         /\ run' = [run EXCEPT !.at = "streaming", !.b = b]
    /\ UNCHANGED <<row, stored, passphrase, kept, users, count>>

\* The command refuses before it writes anything: a full disk, a database that is down.
Refused ==
    /\ run.at = "stream"
    /\ run' = Resting
    /\ UNCHANGED <<srv, moment, sealed, row, stored, passphrase, kept, users, count>>

\* dbs backup --stream ends on the server: the copy takes its name and
\* keep_at_most leaves the newest, the one just written among them.
Finish(b) ==
    /\ srv[b] = "writing"
    /\ LET others == {c \in Backups : srv[c] = "whole"}
           stale == {c \in others : Cardinality({d \in others : moment[d] > moment[c] \/
                                      (moment[d] = moment[c] /\ d > c)}) >= ServerLimit - 1}
       IN  srv' = [c \in Backups |-> IF c = b THEN "whole" ELSE IF c \in stale THEN "gone"
                                     ELSE srv[c]]
    /\ UNCHANGED <<moment, sealed, row, stored, passphrase, run, kept, users, count>>

\* It is killed, or its own verification fails and it discards the partial.
Dies(b) ==
    /\ srv[b] = "writing"
    /\ count["break"] < MaxBreaks /\ Count("break")
    /\ \E s \in {"dead", "gone"} : srv' = [srv EXCEPT ![b] = s]
    /\ UNCHANGED <<moment, sealed, row, stored, passphrase, run, kept, users>>

\* The summary arrived: its size and SHA-256 are compared.
Streamed(bytes) ==
    /\ run.at = "streaming" /\ srv[run.b] = "whole"
    /\ Installed(run.b, bytes, TRUE, "release")

\* The command ended without a summary: RemoteCommandFailed.
Ended ==
    /\ run.at = "streaming" /\ srv[run.b] \in {"dead", "gone"}
    /\ run' = Resting
    /\ UNCHANGED <<srv, moment, sealed, row, stored, passphrase, kept, users, count>>

\* StreamBroken without a folder or a name: nothing to resume from.
Kept ==
    /\ kept' = kept \cup {run.b}
    /\ run' = [run EXCEPT !.at = "retain", !.b = None]

Break ==
    /\ run.at = "streaming"
    /\ count["break"] < MaxBreaks /\ Count("break")
    /\ \/ HasFolder /\ Goto("resume") /\ UNCHANGED kept
       \/ Kept
    /\ UNCHANGED <<srv, moment, sealed, row, stored, passphrase, users>>

\* No reconnection in three attempts, or the partial stops growing.
GiveUp ==
    /\ run.at = "resume"
    /\ Kept
    /\ UNCHANGED <<srv, moment, sealed, row, stored, passphrase, users, count>>

\* _installed: the partial is gone, the backup is not recorded; the rest is pulled
\* and compared, and where it differs all of it is pulled again.
Resume(bytes) ==
    /\ run.at = "resume" /\ srv[run.b] = "whole"
    /\ ~ \E i \in Of(run.b) : row[i].remote
    /\ Installed(run.b, bytes, bytes = "whole", "release")

\* BackupLostOnServer.
Lost ==
    /\ run.at = "resume" /\ srv[run.b] = "gone"
    /\ run' = Resting
    /\ UNCHANGED <<srv, moment, sealed, row, stored, passphrase, kept, users, count>>

-----------------------------------------------------------------------------
(* The server's copies are removed, and old backups retired. *)

\* server_copies: verified, deleted or not.
Copies == {i \in Rows : Exists(i) /\ row[i].remote /\ row[i].valid}

Beyond(S) == {i \in S : Place(S, i) >= KeepRemote}

Release ==
    /\ run.at = "release"
    /\ run' = [run EXCEPT !.at = "releasing", !.copies = Beyond(Copies), !.listed = Waiting]
    /\ UNCHANGED <<srv, moment, sealed, row, stored, passphrase, kept, users, count>>

NextCopy == CHOOSE i \in run.copies : \A j \in run.copies : i = j \/ Later(i, j)

\* A copy that is not listed any more is forgotten; the others are removed first.
ReleaseNext ==
    /\ run.at = "releasing" /\ run.copies # {}
    /\ LET i == NextCopy
       IN  IF row[i].b \in run.listed
           THEN /\ srv' = [srv EXCEPT ![row[i].b] = "gone"]
                /\ run' = [run EXCEPT !.at = "removed"] /\ UNCHANGED row
           ELSE /\ Update(i, [row[i] EXCEPT !.remote = FALSE])
                /\ run' = [run EXCEPT !.copies = @ \ {i}] /\ UNCHANGED srv
    /\ UNCHANGED <<moment, sealed, stored, passphrase, kept, users, count>>

Removed ==
    /\ run.at = "removed"
    /\ Update(NextCopy, [row[NextCopy] EXCEPT !.remote = FALSE])
    /\ run' = [run EXCEPT !.at = "releasing", !.copies = @ \ {NextCopy}]
    /\ UNCHANGED <<srv, moment, sealed, stored, passphrase, kept, users, count>>

Released ==
    /\ run.at = "releasing" /\ run.copies = {}
    /\ Goto("retain")
    /\ UNCHANGED <<srv, moment, sealed, row, stored, passphrase, kept, users, count>>

Good == {i \in Rows : Alive(i) /\ row[i].valid}
Quarantined == {i \in Rows : Alive(i) /\ ~ row[i].valid /\ row[i].failure}

\* _retain_dbs: the backup that just arrived comes first, then the newest.
Stale ==
    LET first == Good \cap {run.arrived}
        room == Keep - Cardinality(first)
    IN  {i \in Good \ first : Place(Good \ first, i) >= room}
        \cup {i \in Quarantined : Place(Quarantined, i) >= QuarantineKeep}

Retain ==
    /\ run.at = "retain"
    /\ row' = [i \in Rows |-> IF i \in Stale THEN [row[i] EXCEPT !.deleted = TRUE] ELSE row[i]]
    /\ run' = Resting
    /\ UNCHANGED <<srv, moment, sealed, stored, passphrase, kept, users, count>>

-----------------------------------------------------------------------------
(* What users and the schedule do beside it. *)

\* verify: the verdict on the file, with the passphrase of now.
BeginVerify(i) ==
    /\ verifying = None /\ count["verify"] < MaxVerifies /\ Count("verify")
    /\ Alive(i) /\ i \in stored
    /\ verifying' = [i |-> i, valid |-> Decrypts(row[i].b, row[i].bytes, passphrase)]
    /\ UNCHANGED <<srv, moment, sealed, row, stored, passphrase, run, kept, undoing, expiring>>

Verify ==
    /\ verifying # None
    /\ Update(verifying.i, [row[verifying.i] EXCEPT !.valid = verifying.valid])
    /\ verifying' = None
    /\ UNCHANGED <<srv, moment, sealed, stored, passphrase, run, kept, undoing, expiring, count>>

Delete(i) ==
    /\ Alive(i) /\ count["delete"] < MaxDeletes /\ Count("delete")
    /\ Update(i, [row[i] EXCEPT !.deleted = TRUE])
    /\ UNCHANGED <<srv, moment, sealed, stored, passphrase, run, kept, users>>

\* undo_delete: the row and its file are looked at, then the row is written.
BeginUndo(i) ==
    /\ undoing = None /\ count["undo"] < MaxUndos /\ Count("undo")
    /\ Exists(i) /\ row[i].deleted /\ ~ row[i].removed /\ i \in stored
    /\ undoing' = i
    /\ UNCHANGED <<srv, moment, sealed, row, stored, passphrase, run, kept, verifying, expiring>>

Undo ==
    /\ undoing # None
    /\ Update(undoing, [row[undoing] EXCEPT !.deleted = FALSE])
    /\ undoing' = None
    /\ UNCHANGED <<srv, moment, sealed, stored, passphrase, run, kept, verifying, expiring, count>>

\* remove_expired: lists the deleted ones whose grace is over; for each, the
\* file goes first and the row is marked after.
BeginExpire ==
    /\ expiring = None
    /\ \E old \in SUBSET {i \in Rows : Exists(i) /\ row[i].deleted /\ ~ row[i].removed} :
         old # {} /\ expiring' = [left |-> old, gone |-> {}]
    /\ UNCHANGED <<srv, moment, sealed, row, stored, passphrase, run, kept, verifying, undoing, count>>

ExpireFile ==
    /\ expiring # None /\ expiring.gone = {} /\ expiring.left # {}
    /\ LET i == Least(expiring.left)
       IN  /\ stored' = stored \ {i}
           /\ expiring' = [left |-> expiring.left \ {i}, gone |-> {i}]
    /\ UNCHANGED <<srv, moment, sealed, row, passphrase, run, kept, verifying, undoing, count>>

ExpireRow ==
    /\ expiring # None /\ expiring.gone # {}
    /\ LET i == Least(expiring.gone)
       IN  Update(i, [row[i] EXCEPT !.removed = TRUE])
    /\ expiring' = IF expiring.left = {} THEN None ELSE [expiring EXCEPT !.gone = {}]
    /\ UNCHANGED <<srv, moment, sealed, stored, passphrase, run, kept, verifying, undoing, count>>

\* The application's passphrase is set, or captured from the server.
Rekey ==
    /\ count["rekey"] < MaxRekeys /\ Count("rekey")
    /\ \E k \in Passphrases \ {passphrase} : passphrase' = k
    /\ UNCHANGED <<srv, moment, sealed, row, stored, run, kept, users>>

\* The manager dies.  A file that was placed without its row stays behind.
Crash ==
    /\ count["crash"] < MaxCrashes /\ Count("crash")
    /\ run # Resting \/ expiring # None \/ undoing # None \/ verifying # None
    /\ run' = Resting /\ verifying' = None /\ undoing' = None /\ expiring' = None
    /\ UNCHANGED <<srv, moment, sealed, row, stored, passphrase, kept>>

-----------------------------------------------------------------------------
RunStep ==
    \/ Start \/ List \/ Skip \/ (\E bytes \in Arrivals : Pull(bytes)) \/ Record \/ RecordFails
    \/ Collected \/ Fails \/ BeginStream \/ Refused \/ (\E bytes \in Arrivals : Streamed(bytes))
    \/ Ended \/ Break \/ GiveUp \/ (\E bytes \in Arrivals : Resume(bytes)) \/ Lost
    \/ Release \/ ReleaseNext \/ Removed \/ Released \/ Retain
Beside ==
    \/ \E b \in Backups : Finish(b) \/ Dies(b)
    \/ \E i \in Rows : BeginVerify(i) \/ Delete(i) \/ BeginUndo(i)
    \/ Verify \/ Undo \/ BeginExpire \/ ExpireFile \/ ExpireRow \/ Rekey \/ Crash

Next == RunStep \/ Beside
Spec == Init /\ [][Next]_vars

-----------------------------------------------------------------------------
(* Properties. *)

\* A copy leaves the server only to the manager's own release, once its bytes are in the manager in
\* a form that decrypts with the passphrase it was written with, and are still
\* there unless someone deleted that backup; nobody's crash, retry or verification changes that.
RemovedWhenHeld ==
    \A b \in Backups : run.at = "releasing" /\ srv[b] = "whole" /\ srv'[b] = "gone" =>
      \E i \in Of(b) : row[i].bytes # "short" /\ (i \in stored \/ row[i].deleted)

\* The bytes of a backup are recorded once, however often a run is cut off between the
\* file, the row and the server's copy, and whether or not the row was deleted since.
CollectedOnce ==
    \A b \in Backups : Cardinality({i \in Of(b) : row[i].bytes = "whole"}) <= 1

\* Retention never retires the backup its run just brought, even from a server whose
\* clock was set back, nor the newest that passed verification: the one that no
\* other follows, neither in the time of its name nor in arrival.
NewestStays ==
    run.at = "retain" /\ run'.at = "idle" =>
      \A i \in Good :
         \/ i = run.arrived
         \/ \A j \in Good \ {i} : i > j /\ moment[row[i].b] >= moment[row[j].b]
         => ~ row'[i].deleted

\* At the end of a run that streamed a backup, no more than keep_remote copies that the
\* manager verified are left on the server.
FewOnServer ==
    run.at = "retain" /\ run.arrived # None =>
        Cardinality({b \in Backups : srv[b] = "whole" /\ \E i \in Of(b) : row[i].valid}) <= KeepRemote

=============================================================================
