------------------------------ MODULE Restore ------------------------------
(***************************************************************************)
(* Restoring a backup (dbs/engine/restore.py): the frames of the decrypted *)
(* payload are read in order (engine/frames.py), every file's target is    *)
(* planned before anything is written (dbs/files.py), files are staged     *)
(* beside their targets, rows load in one transaction (dbs/serialize.py),  *)
(* and the files are moved into place when the rows commit.  A dry run     *)
(* rehearses it.  An error or a crash may come at any step.                *)
(* Paths are sequences of names; a digest is the content it is of.         *)
(***************************************************************************)
EXTENDS Integers, Sequences, FiniteSets, SequencesExt, TLC

CONSTANTS
    Payloads,      \* the sequences of frames a backup may decrypt to
    Options,       \* the options of a restore
    Targets,       \* the databases and disks it may meet
    KnownModels,   \* the models of this project
    OwnOrder,      \* the same, parents before children
    WholeTables,   \* models whose ModelBackup selects the whole table
    Selected,      \* the keys the other ModelBackups select
    NaturalKeys,   \* natural keys this database has, and the ids they have here
    FileStorages,  \* file fields of this project, and their storage: "local" or "remote"
    Location,      \* the folder of the local storage
    Roots,         \* DBS_RESTORE_ROOTS
    PathMap,       \* DBS_RESTORE_PATH_MAP
    Links,         \* folders that are symbolic links, and where they lead
    Blocked,       \* targets that something other than a file holds, or that cannot be written
    MaxFaults      \* errors and crashes of one behaviour

VARIABLES
    pc, opt, payload,
    at,        \* frames read so far
    order, entries, placements, file,
    staged,    \* StagedFiles: pending, created
    db, tx, seq,      \* committed rows, the rows in the transaction, sequences
    disk, dirs, remote, temps,   \* files, folders, objects of the remote storage, staging files
    out, faults, first, forecast

vars == <<pc, opt, payload, at, order, entries, placements, file, staged,
          db, tx, seq, disk, dirs, remote, temps, out, faults, first, forecast>>

reading == <<at, order, entries, placements, file>>
target == <<db, seq, disk, dirs, remote, temps>>

Absent == "none"
NoRow == <<>>
ModelOf(key) == key[1]
Values(s) == {s[i] : i \in DOMAIN s}

-----------------------------------------------------------------------------
(* engine/frames.py: a payload is read in order. *)

Frame(i) == payload[i]
HasFrame == at < Len(payload)
NextKind == IF HasFrame THEN Frame(at + 1).kind ELSE Absent
Kinds == {"header", "manifest", "data", "end", "records", "trailer"}

\* A frame whose body fails its checks is one of an unknown kind.
Sound(i) == Frame(i).kind \in Kinds

\* The place of a label in the recorded order, the last where it stands twice.
Rank(label) == Max({0} \cup {i \in DOMAIN order : order[i] = label})

\* checked_records: of a known place in the order, never before the last.
InOrder(records, current) ==
    /\ \A i \in DOMAIN records : Rank(ModelOf(records[i].key)) # 0
    /\ \A i \in DOMAIN records :
           Rank(ModelOf(records[i].key)) >= IF i = 1 THEN current ELSE Rank(ModelOf(records[i - 1].key))

\* The frames of the file with this index: data, and then its end.
FileFrames(index) ==
    LET ends == {i \in at + 1 .. Len(payload) : Frame(i).kind # "data"}
    IN  IF ends = {} THEN <<>> ELSE SubSeq(payload, at + 1, Min(ends))

\* chunks and _finish: in the order of the manifest, and what the digest is of.
WholeFile(index) ==
    LET f == FileFrames(index)
    IN  /\ f # <<>> /\ Last(f).kind = "end" /\ Last(f).index = index
        /\ \A i \in 1 .. Len(f) - 1 : f[i].index = index
        /\ \/ Last(f).skipped
           \/ Last(f).digest = FlattenSeq([i \in 1 .. Len(f) - 1 |-> f[i].chunk])
FileSkipped(index) == Last(FileFrames(index)).skipped
FileContent(index) == Last(FileFrames(index)).digest

\* finish: nothing follows the trailer.
AtEnd == at + 1 = Len(payload) /\ NextKind = "trailer"

-----------------------------------------------------------------------------
(* dbs/files.py: where a file goes. *)

IsInside(path, root) == IsPrefix(root, path)
Longest(paths) == CHOOSE p \in paths : \A q \in paths : Len(q) <= Len(p)
Suffix(path, root) == SubSeq(path, Len(root) + 1, Len(path))

\* os.path.realpath.
RealPath(path) ==
    LET via == {l \in DOMAIN Links : IsInside(path, l)}
    IN  IF via = {} THEN path ELSE Links[Longest(via)] \o Suffix(path, Longest(via))

\* map_path: the longest old root that holds it.
MapPath(path) ==
    LET olds == {old \in DOMAIN PathMap : IsInside(path, old)}
    IN  IF olds = {} THEN path ELSE PathMap[Longest(olds)] \o Suffix(path, Longest(olds))

Refused(entry) == [entry |-> entry, ok |-> FALSE, target |-> <<>>, remote |-> FALSE, moved |-> <<>>]
Placed(entry, path) == [entry |-> entry, ok |-> TRUE, target |-> path, remote |-> FALSE, moved |-> <<>>]

\* _place_local and _obstacle: what it resolves to lies in a root, and nothing is in the way.
PlaceLocal(entry, path, roots) ==
    LET real == RealPath(path)
    IN  IF (\E r \in roots : IsInside(real, r)) /\ real \notin Blocked
        THEN Placed(entry, real) ELSE Refused(entry)

\* _place_storage.
PlaceStorage(entry) ==
    IF entry.field \notin DOMAIN FileStorages \/ Head(entry.name) = ".." THEN Refused(entry)
    ELSE IF FileStorages[entry.field] = "remote"
    THEN [Placed(entry, entry.name) EXCEPT !.remote = TRUE]
    ELSE PlaceLocal(entry, Location \o entry.name, {RealPath(Location)})

\* place_entry.
PlaceEntry(entry) ==
    IF entry.kind = "storage" THEN PlaceStorage(entry)
    ELSE IF entry.kind = "path"
    THEN LET mapped == MapPath(entry.name)
         IN  [PlaceLocal(entry, mapped, Roots) EXCEPT !.moved = IF mapped # entry.name THEN mapped ELSE <<>>]
    ELSE IF entry.kind = "root"
    THEN LET root == MapPath(entry.root)
         IN  IF IsInside(RealPath(root \o entry.name), RealPath(root))
             THEN PlaceLocal(entry, root \o entry.name, Roots) ELSE Refused(entry)
    ELSE Refused(entry)

\* plan_entries, plan_restore; a validation plans nothing.
Plan(found) == IF opt.files /\ opt.mode # "validate"
               THEN [i \in DOMAIN found |-> PlaceEntry(found[i])] ELSE <<>>
Problems(plan) == {i \in DOMAIN plan : ~ plan[i].ok}

-----------------------------------------------------------------------------
(* dbs/serialize.py: rows. *)

\* _moved_files and _point_rows: a row whose file moved names the new path.
Pointed(rec) ==
    LET moves == {i \in DOMAIN placements : /\ placements[i].ok /\ placements[i].moved # <<>>
                                            /\ placements[i].entry.row = rec.key}
    IN  IF moves = {} THEN rec
        ELSE [rec EXCEPT !.file = placements[Max(moves)].moved]

\* NaturalKeyResolver: a key that is missing here stops the restore, a member is left out.
Resolvable(rec) == rec.by = Absent \/ rec.by \in DOMAIN NaturalKeys
Resolved(rec) ==
    [rec EXCEPT !.by = IF rec.by = Absent THEN Absent ELSE NaturalKeys[rec.by],
                !.tags = {NaturalKeys[t] : t \in rec.tags \cap DOMAIN NaturalKeys}]

Carried(rec) == [val |-> rec.val, ref |-> rec.ref, by |-> rec.by, tags |-> rec.tags, file |-> rec.file]

\* existing_rows: asked once for a batch.
Existing(rows, records) == DOMAIN rows \cap {records[i].key : i \in DOMAIN records}

\* Mutant: an existing row is replaced.
SaveRowWhole(rows, existing, rec) ==
    IF ModelOf(rec.key) \notin KnownModels THEN rows
    ELSE (rec.key :> ([note |-> "default"] @@ Carried(rec))) @@ rows

\* RowLoader.save: an existing row takes only the carried fields, a new one defaults.
SaveRow(rows, existing, rec) ==
    IF ModelOf(rec.key) \notin KnownModels THEN rows
    ELSE LET note == IF rec.key \in existing THEN rows[rec.key].note ELSE "default"
         IN  (rec.key :> ([note |-> note] @@ Carried(rec))) @@ rows

\* decode_large_binaries and _deserialized may find a value they cannot read;
\* a record of a model this project does not have is left out unread.
Loadable(rec) == ModelOf(rec.key) \in KnownModels => ~ rec.bad /\ Resolvable(rec)
SaveAll(rows, records) ==
    FoldLeft(LAMBDA d, rec : SaveRow(d, Existing(rows, records), Resolved(Pointed(rec))),
             rows, SelectSeq(records, LAMBDA rec : ModelOf(rec.key) \in KnownModels))

\* check_constraints.
References(rows) ==
    \A k \in DOMAIN rows : rows[k].ref = NoRow \/ rows[k].ref \in DOMAIN rows

\* _flush_scopes and _flush_existing_rows: the rows the backup covers, here.
Flushed(rows, models) ==
    LET covered == {k \in DOMAIN rows : /\ ModelOf(k) \in models \cap KnownModels
                                        /\ ModelOf(k) \in WholeTables \/ k \in Selected}
    IN  [k \in DOMAIN rows \ covered |-> rows[k]]

\* _raise_postgresql_sequences: setval only when the next key is not above the highest.
NextKey(s) == IF s.called THEN s.last + 1 ELSE s.last
Highest(rows, m) == Max({0} \cup {k[2] : k \in {x \in DOMAIN rows : ModelOf(x) = m}})

RaiseSequences(rows, models) ==
    [m \in DOMAIN seq |-> IF m \in models /\ Highest(rows, m) > 0 /\ Highest(rows, m) >= NextKey(seq[m])
                          THEN [last |-> Highest(rows, m), called |-> TRUE] ELSE seq[m]]

-----------------------------------------------------------------------------
(* The steps of a restore, of a dry run and of a validation. *)

Gathered(kind, part(_)) ==
    FlattenSeq([i \in DOMAIN payload |-> IF Frame(i).kind = kind THEN part(Frame(i)) ELSE <<>>])
AllRecords == Gathered("records", LAMBDA f : f.rows)
AllEntries == Gathered("manifest", LAMBDA f : f.entries)
ModelsOf(records) == {ModelOf(records[i].key) : i \in DOMAIN records}

\* The models a flush covers: those of the order, or of the records and statistics.
Models == IF opt.v1 THEN ModelsOf(AllRecords) \cup DOMAIN Last(payload).models ELSE Values(order)

\* The models a loader saved rows of.
Saved == ModelsOf(AllRecords) \cap KnownModels

NewOut == [loaded |-> 0, written |-> 0, failed |-> 0, left |-> 0, files |-> 0, refused |-> 0,
           skipped |-> 0, why |-> Absent, through |-> FALSE]
NewStaged == [pending |-> <<>>, created |-> {}]
Raise(why) == pc' = "raise" /\ out' = [out EXCEPT !.why = why]
Dry == opt.mode = "dry"
Restoring == opt.mode = "restore"

\* open_reader, read_header.
ReadHeader ==
    /\ pc = "start" /\ ~ opt.v1
    /\ IF NextKind = "header"
       THEN /\ at' = at + 1 /\ order' = Frame(at + 1).order
            /\ pc' = "manifest" /\ UNCHANGED out
       ELSE Raise("malformed") /\ UNCHANGED <<at, order>>
    /\ UNCHANGED <<opt, payload, entries, placements, file, staged, tx, target, faults, first, forecast>>

\* A refused file stops a restore before anything is written; a dry run lists it.
GoOn(plan) ==
    IF Problems(plan) # {} /\ Restoring THEN Raise("refused")
    ELSE /\ pc' = "files"
         /\ out' = [out EXCEPT !.refused = Cardinality(Problems(plan)),
                               !.files = Len(plan) - Cardinality(Problems(plan))]

\* read_manifest, and the plan.
ReadManifest ==
    /\ pc = "manifest"
    /\ LET after == {i \in at + 1 .. Len(payload) : Frame(i).kind # "manifest"}
           stop == Min(after)
           found == FlattenSeq([i \in 1 .. stop - at - 1 |-> Frame(at + i).entries])
       IN  IF after = {} \/ ~ Sound(stop)
           THEN Raise("malformed") /\ UNCHANGED <<at, entries, placements, file>>
           ELSE /\ at' = stop - 1 /\ entries' = found /\ file' = 1
                /\ placements' = Plan(found)
                /\ GoOn(Plan(found))
    /\ UNCHANGED <<opt, payload, order, staged, tx, target, faults, first, forecast>>

\* A format 1 backup is read whole, and its digest is of the whole payload.
Chunks(n) == Gathered("data", LAMBDA f : IF f.index = n THEN f.chunk ELSE <<>>)
Written(p) == /\ p # <<>> /\ Head(p).kind = "header" /\ Last(p).kind = "trailer"
              /\ Head(p).hash = Tail(p)

\* place_file: every file is checked against its digest before any is staged.
Intact == \A i \in DOMAIN payload : Frame(i).kind = "end" => Frame(i).digest = Chunks(Frame(i).index)

\* Its validation ends with the digest; its files are in memory, and none is drained.
ReadV1 ==
    /\ pc = "start" /\ opt.v1
    /\ LET found == AllEntries
           plan == Plan(found)
       IN  IF ~ Written(payload) \/ (plan # <<>> /\ ~ Intact)
           THEN Raise("malformed") /\ UNCHANGED <<at, order, entries, placements, file>>
           ELSE /\ order' = Frame(1).order /\ entries' = found /\ placements' = plan
                /\ at' = Cardinality({i \in DOMAIN payload : Frame(i).kind \in {"header", "manifest"}})
                /\ file' = IF Restoring /\ plan # <<>> THEN 1 ELSE Len(found) + 1
                /\ IF opt.mode = "validate" THEN pc' = "done" /\ UNCHANGED out ELSE GoOn(plan)
    /\ UNCHANGED <<opt, payload, staged, tx, target, faults, first, forecast>>

\* _drain_files, and the files of a restore of rows only.
DrainFile ==
    /\ pc = "files" /\ file <= Len(entries)
    /\ ~ Restoring \/ placements = <<>>
    /\ IF WholeFile(file)
       THEN /\ at' = at + Len(FileFrames(file)) /\ file' = file + 1
            /\ out' = [out EXCEPT !.skipped = @ + IF FileSkipped(file) THEN 1 ELSE 0]
            /\ UNCHANGED pc
       ELSE Raise("malformed") /\ UNCHANGED <<at, file>>
    /\ UNCHANGED <<opt, payload, order, entries, placements, staged, tx, target, faults, first, forecast>>

\* Staging and _make_directories: missing folders are made, and a file beside the target.
Missing(path) == {SubSeq(path, 1, n) : n \in 1 .. Len(path) - 1} \ dirs
Temp(i) == [place |-> i, target |-> placements[i].target, remote |-> placements[i].remote]
BeginStaging ==
    /\ pc = "files" /\ file <= Len(entries) /\ Restoring /\ placements # <<>>
    /\ pc' = "write"
    /\ IF placements[file].remote THEN UNCHANGED <<dirs, temps, staged>>
       ELSE /\ dirs' = dirs \cup Missing(placements[file].target)
            /\ staged' = [staged EXCEPT !.created = @ \cup Missing(placements[file].target)]
            /\ temps' = temps \cup {Temp(file)}
    /\ UNCHANGED <<opt, payload, reading, tx, db, seq, disk, remote, out, faults, first, forecast>>

\* Staging.finish: a file for a remote storage becomes an object of it here.
SealedTemp == [temp |-> Temp(file), content |-> FileContent(file)]

\* _stage_files.
FinishStaging ==
    /\ pc = "write"
    /\ IF ~ WholeFile(file)
       THEN /\ Raise("malformed") /\ temps' = temps \ {Temp(file)} /\ UNCHANGED <<at, file, staged>>
       ELSE /\ at' = at + Len(FileFrames(file)) /\ file' = file + 1 /\ pc' = "files"
            /\ IF FileSkipped(file)
               THEN /\ temps' = temps \ {Temp(file)} /\ UNCHANGED staged
                    /\ out' = [out EXCEPT !.skipped = @ + 1]
               ELSE /\ temps' = temps \cup {Temp(file)} /\ UNCHANGED out
                    /\ staged' = [staged EXCEPT !.pending = Append(@, SealedTemp)]
    /\ UNCHANGED <<opt, payload, order, entries, placements, tx, db, seq, disk, dirs, remote,
                   faults, first, forecast>>

\* _load_stream, _rehearse_stream: the transaction, and the flush in it.
BeginLoad ==
    /\ pc = "files" /\ file > Len(entries) /\ opt.data /\ opt.mode # "validate"
    /\ tx' = IF opt.flush THEN Flushed(db, Models) ELSE db
    /\ pc' = "rows" /\ file' = 1
    /\ UNCHANGED <<opt, payload, at, order, entries, placements, staged, target, out, faults, first, forecast>>

\* _StreamedRows.load: one batch.
LoadBatch ==
    /\ pc = "rows" /\ ~ opt.v1 /\ NextKind = "records"
    /\ LET rows == Frame(at + 1).rows
           good == InOrder(rows, file)
           known == SelectSeq(rows, LAMBDA r : ModelOf(r.key) \in KnownModels)
       IN  IF good /\ (opt.mode = "validate" \/ \A i \in DOMAIN rows : Loadable(rows[i]))
           THEN /\ tx' = IF opt.mode = "validate" THEN tx ELSE SaveAll(tx, rows)
                /\ at' = at + 1
                /\ file' = IF rows = <<>> THEN file ELSE Rank(ModelOf(Last(rows).key))
                /\ out' = [out EXCEPT !.loaded = @ + IF opt.mode = "validate" THEN Len(rows) ELSE Len(known)]
                /\ UNCHANGED pc
           ELSE Raise(IF good THEN "row" ELSE "malformed") /\ UNCHANGED <<tx, at, file>>
    /\ UNCHANGED <<opt, payload, order, entries, placements, staged, target, faults, first, forecast>>

\* _StreamedRows.finish; a sequence that was raised stays so when the rows do not commit.
FinishLoad ==
    /\ pc = "rows" /\ ~ opt.v1 /\ NextKind # "records" /\ opt.mode # "validate"
    /\ IF ~ AtEnd THEN Raise("malformed") /\ UNCHANGED <<seq, at>>
       ELSE IF ~ References(tx) THEN Raise("constraint") /\ UNCHANGED <<seq, at>>
       ELSE /\ seq' = IF Dry THEN seq ELSE RaiseSequences(tx, Saved)
            /\ at' = at + 1 /\ pc' = "commit" /\ UNCHANGED out
    /\ UNCHANGED <<opt, payload, order, entries, placements, file, staged, tx, db, disk, dirs,
                   remote, temps, faults, first, forecast>>

\* ordered_records and _target_order: by the recorded order, or the project's own.
V1Records ==
    LET ranks == IF order = <<>> THEN OwnOrder ELSE order
        of(label) == SelectSeq(AllRecords, LAMBDA r : ModelOf(r.key) = label)
    IN  FlattenSeq([i \in DOMAIN ranks |-> of(ranks[i])])
        \o SelectSeq(AllRecords, LAMBDA r : ModelOf(r.key) \notin Values(ranks))

\* _load and _rehearse_load of a format 1 backup.
LoadV1 ==
    /\ pc = "rows" /\ opt.v1
    /\ LET rows == V1Records
           loaded == SaveAll(tx, rows)
       IN  IF \E i \in DOMAIN rows : ~ Loadable(rows[i]) THEN Raise("row") /\ UNCHANGED <<tx, seq>>
           ELSE IF ~ References(loaded) THEN Raise("constraint") /\ UNCHANGED <<tx, seq>>
           ELSE /\ tx' = loaded /\ pc' = "commit"
                /\ seq' = IF Dry THEN seq ELSE RaiseSequences(loaded, Saved)
                /\ out' = [out EXCEPT !.loaded = Cardinality({i \in DOMAIN rows :
                                                                 ModelOf(rows[i].key) \in KnownModels})]
    /\ UNCHANGED <<opt, payload, reading, staged, db, disk, dirs, remote, temps, faults, first, forecast>>

\* A restore without rows still reads the payload to its end.
SkipRows ==
    /\ pc = "files" /\ file > Len(entries) /\ ~ opt.data /\ opt.mode # "validate"
    /\ LET rows == {i \in at + 1 .. Len(payload) : \A j \in at + 1 .. i : Frame(j).kind = "records"}
           past == at + Cardinality(rows)
       IN  IF opt.v1 \/ (past + 1 = Len(payload) /\ Last(payload).kind = "trailer")
           THEN /\ pc' = IF Dry THEN "done" ELSE "publish"
                /\ out' = [out EXCEPT !.through = ~ Dry]
           ELSE Raise("malformed")
    /\ UNCHANGED <<opt, payload, reading, staged, tx, target, faults, first, forecast>>

\* _read_through.
BeginCheck ==
    /\ pc = "files" /\ file > Len(entries) /\ opt.mode = "validate"
    /\ pc' = "rows" /\ file' = 1
    /\ UNCHANGED <<opt, payload, at, order, entries, placements, staged, tx, target, out, faults, first, forecast>>

\* The counts of the trailer are those of the records and files.
Counted(records, models) ==
    \A m \in ModelsOf(records) \cup DOMAIN models :
        (IF m \in DOMAIN models THEN models[m] ELSE 0)
            = Cardinality({i \in DOMAIN records : ModelOf(records[i].key) = m})
FinishCheck ==
    /\ pc = "rows" /\ opt.mode = "validate" /\ NextKind # "records"
    /\ IF /\ AtEnd
          /\ Counted(AllRecords, Last(payload).models) /\ Last(payload).records = Len(AllRecords)
          /\ Last(payload).files = Len(entries) - out.skipped
       THEN pc' = "done" /\ UNCHANGED out
       ELSE Raise("malformed")
    /\ UNCHANGED <<opt, payload, reading, staged, tx, target, faults, first, forecast>>

\* The transaction commits, and on_commit publishes the files.
Commit ==
    /\ pc = "commit" /\ ~ Dry
    /\ pc' = "publish" /\ db' = tx /\ tx' = <<>>
    /\ out' = [out EXCEPT !.through = TRUE]
    /\ UNCHANGED <<opt, payload, reading, staged, seq, disk, dirs, remote, temps, faults, first, forecast>>

\* _DryRunRollback.
RollBack ==
    /\ pc = "commit" /\ Dry
    /\ pc' = "done" /\ tx' = <<>>
    /\ UNCHANGED <<opt, payload, reading, staged, target, out, faults, first, forecast>>

-----------------------------------------------------------------------------
(* StagedFiles.publish and discard. *)

Pending == Head(staged.pending)
Fails == faults < MaxFaults /\ faults' = faults + 1

\* A file that could not be moved is counted and discarded, and the next one is taken.
NextPending == staged' = [staged EXCEPT !.pending = Tail(@)]
Moved == temps' = temps \ {Pending.temp} /\ out' = [out EXCEPT !.written = @ + 1] /\ UNCHANGED faults
NotMoved ==
    /\ Fails
    /\ \E left \in IF Pending.temp.remote THEN {0, 1} ELSE {0} :
           /\ temps' = IF left = 1 THEN temps ELSE temps \ {Pending.temp}
           /\ out' = [out EXCEPT !.failed = @ + 1, !.left = @ + left]

\* os.replace.
PublishLocal ==
    /\ pc = "publish" /\ staged.pending # <<>> /\ ~ Pending.temp.remote
    /\ NextPending
    /\ \/ disk' = (Pending.temp.target :> Pending.content) @@ disk /\ Moved
       \/ UNCHANGED disk /\ NotMoved
    /\ UNCHANGED <<pc, opt, payload, reading, tx, db, seq, dirs, remote, first, forecast>>

\* A remote storage: the object is deleted, then saved anew from the staging object.
PublishDelete ==
    /\ pc = "publish" /\ staged.pending # <<>> /\ Pending.temp.remote
    /\ \/ /\ remote' = [n \in DOMAIN remote \ {Pending.temp.target} |-> remote[n]]
          /\ pc' = "save" /\ UNCHANGED <<staged, temps, out, faults>>
       \/ UNCHANGED <<pc, remote>> /\ NextPending /\ NotMoved
    /\ UNCHANGED <<opt, payload, reading, tx, db, seq, disk, dirs, first, forecast>>

\* The save may fail, or the deletion of the staging object after it.
PublishSave ==
    /\ pc = "save" /\ pc' = "publish" /\ NextPending
    /\ LET saved == (Pending.temp.target :> Pending.content) @@ remote
       IN  \/ remote' = saved /\ Moved
           \/ remote' \in {remote, saved} /\ NotMoved
    /\ UNCHANGED <<opt, payload, reading, tx, db, seq, disk, dirs, first, forecast>>

Published ==
    /\ pc = "publish" /\ staged.pending = <<>>
    /\ IF out.failed > 0 THEN Raise("unpublished") ELSE pc' = "done" /\ UNCHANGED out
    /\ UNCHANGED <<opt, payload, reading, staged, tx, target, faults, first, forecast>>

\* _discard: what a remote storage does not delete is left there, and only logged.
Discarding(gone, result) ==
    \/ temps' = temps \ gone /\ out' = result /\ UNCHANGED faults
    \/ \E t \in gone : /\ t.remote /\ Fails
                       /\ temps' = temps \ (gone \ {t})
                       /\ out' = [result EXCEPT !.left = @ + 1]

\* discard: staging files go, and the folders that were made and are empty.
Discard ==
    /\ pc = "raise" /\ pc' = "failed"
    /\ tx' = <<>>
    /\ Discarding({staged.pending[i].temp : i \in DOMAIN staged.pending}, out)
    /\ dirs' = dirs \ {d \in staged.created : ~ \E p \in DOMAIN disk : IsInside(p, d)}
    /\ staged' = NewStaged
    /\ UNCHANGED <<opt, payload, reading, db, seq, disk, remote, first, forecast>>

\* The disk or the database reports an error, and Staging.abort removes the file in hand.
Fault ==
    /\ Restoring /\ pc \in {"files", "write", "rows", "commit"} /\ Fails
    /\ temps' = IF pc = "write" THEN temps \ {Temp(file)} ELSE temps
    /\ Raise("fault")
    /\ UNCHANGED <<opt, payload, reading, staged, tx, db, seq, disk, dirs, remote, first, forecast>>

\* The process dies; its transaction goes with it.
Crash ==
    /\ Restoring /\ pc \in {"files", "write", "rows", "commit", "publish", "save"} /\ Fails
    /\ pc' = "crashed" /\ tx' = <<>>
    /\ UNCHANGED <<opt, payload, reading, staged, target, out, first, forecast>>

\* A restore follows its dry run, or a validation.
Again ==
    /\ pc \in {"done", "failed"} /\ ~ Restoring
    /\ forecast' = [mode |-> opt.mode, ok |-> pc = "done", loaded |-> out.loaded,
                    files |-> out.files, refused |-> out.refused, why |-> out.why]
    /\ opt' = [opt EXCEPT !.mode = "restore"]
    /\ pc' = "start" /\ at' = 0 /\ order' = <<>> /\ entries' = <<>>
    /\ placements' = <<>> /\ file' = 0 /\ out' = NewOut /\ staged' = NewStaged
    /\ UNCHANGED <<payload, tx, target, faults, first>>

-----------------------------------------------------------------------------

NoForecast == [mode |-> Absent, ok |-> FALSE, loaded |-> 0, files |-> 0, refused |-> 0, why |-> Absent]

Init ==
    /\ opt \in Options /\ payload \in Payloads
    /\ \E t \in Targets : /\ db = t.db /\ seq = t.seq /\ disk = t.disk /\ dirs = t.dirs /\ remote = t.remote
                          /\ first = t
    /\ temps = {} /\ tx = <<>> /\ staged = NewStaged
    /\ pc = "start" /\ at = 0 /\ order = <<>> /\ entries = <<>>
    /\ placements = <<>> /\ file = 0
    /\ out = NewOut /\ faults = 0 /\ forecast = NoForecast

Next ==
    \/ ReadHeader \/ ReadManifest \/ ReadV1 \/ DrainFile \/ BeginStaging \/ FinishStaging
    \/ BeginLoad \/ LoadBatch \/ FinishLoad \/ LoadV1 \/ SkipRows \/ BeginCheck \/ FinishCheck
    \/ Commit \/ RollBack \/ PublishLocal \/ PublishDelete \/ PublishSave \/ Published \/ Discard
    \/ Fault \/ Crash \/ Again

Spec == Init /\ [][Next]_vars

-----------------------------------------------------------------------------
(* Properties. *)

\* Rows and files change only when the whole payload was read and the rows
\* committed; a restore that failed before leaves no staging file and no folder
\* behind but an object its storage would not delete, and a dry run leaves the
\* sequences too.
UntouchedUntilCommit ==
    /\ ~ out.through => db = first.db /\ disk = first.disk /\ remote = first.remote
    /\ pc = "failed" /\ ~ out.through => dirs = first.dirs
    /\ pc \in {"done", "failed"} => /\ \A t \in temps : t.remote
                                    /\ Cardinality(temps) = out.left
    /\ ~ Restoring => seq = first.seq

\* What the writer writes: a header, manifests, the files in their order with
\* their digests, records in the recorded order, one trailer and no more.
KindRank == [header |-> 1, manifest |-> 2, data |-> 3, end |-> 3, records |-> 4, trailer |-> 5]
EndsBefore(p, i) == Cardinality({j \in 1 .. i - 1 : p[j].kind = "end"})
ContentOf(p, n) == LET e == CHOOSE i \in DOMAIN p : p[i].kind = "end" /\ p[i].index = n IN p[e].digest
SkippedOf(p, n) == LET e == CHOOSE i \in DOMAIN p : p[i].kind = "end" /\ p[i].index = n IN p[e].skipped
WellFormed(p) ==
    /\ \A i \in DOMAIN p : p[i].kind \in Kinds
    /\ \A i \in 1 .. Len(p) - 1 : KindRank[p[i].kind] <= KindRank[p[i + 1].kind]
    /\ \A k \in {"header", "trailer"} : Cardinality({i \in DOMAIN p : p[i].kind = k}) = 1
    /\ \A i \in DOMAIN p : p[i].kind \in {"data", "end"} => p[i].index = EndsBefore(p, i) + 1
    /\ EndsBefore(p, Len(p)) = Len(AllEntries)
    /\ \A i \in DOMAIN p : p[i].kind = "end" /\ ~ p[i].skipped =>
           p[i].digest = Chunks(p[i].index)
    /\ (opt.data /\ ~ opt.v1) =>
           /\ ModelsOf(AllRecords) \subseteq Values(p[1].order)
           /\ \A i, j \in DOMAIN AllRecords : i < j =>
                  Rank(ModelOf(AllRecords[i].key)) <= Rank(ModelOf(AllRecords[j].key))

\* Nothing is committed or moved into place from a payload that is cut,
\* reordered, repeated or does not match its digests.
OnlyWholePayloads == out.through => WellFormed(payload)

\* After a merge every row of the backup has the values the backup carries and
\* keeps the fields it leaves out, and every other row is as it was; after a
\* flush the covered rows are those of the backup.
Covered(k) == /\ ModelOf(k) \in Values(payload[1].order) \cup ModelsOf(AllRecords)
              /\ ModelOf(k) \in WholeTables \/ k \in Selected
Kept(k) == k \in DOMAIN first.db /\ ~ (opt.flush /\ Covered(k))
LastOf(k) == AllRecords[Max({i \in DOMAIN AllRecords : AllRecords[i].key = k})]
MergedFaithfully ==
    out.through /\ opt.data =>
        LET backed == {k \in {r.key : r \in Values(AllRecords)} : ModelOf(k) \in KnownModels}
        IN  /\ DOMAIN db = backed \cup {k \in DOMAIN first.db : Kept(k)}
            /\ \A k \in backed : /\ db[k].val = LastOf(k).val /\ db[k].ref = LastOf(k).ref
                                 /\ db[k].tags \subseteq {NaturalKeys[t] : t \in DOMAIN NaturalKeys}
                                 /\ db[k].note = IF Kept(k) THEN first.db[k].note ELSE "default"
            /\ \A k \in DOMAIN db \ backed : db[k] = first.db[k]

\* After a restore every reference finds its row, and the next key a sequence
\* gives is free.
KeysAndReferences ==
    out.through /\ opt.data =>
        /\ References(db)
        /\ \A k \in DOMAIN db : ModelOf(k) \in DOMAIN seq => k[2] < NextKey(seq[ModelOf(k)])

\* When a restore of rows and files reports success, the file each restored row
\* names holds what the backup holds of it, wherever its root was mapped to.
FileOf(entry, name) ==
    IF entry.kind = "path" THEN disk[RealPath(name)]
    ELSE IF FileStorages[entry.field] = "remote" THEN remote[name]
    ELSE disk[RealPath(Location \o name)]
RowsFindTheirFiles ==
    pc = "done" /\ Restoring /\ opt.data /\ opt.files =>
        \A n \in DOMAIN entries :
            entries[n].kind \in {"path", "storage"} /\ ~ SkippedOf(payload, n) /\ entries[n].row \in DOMAIN db =>
                FileOf(entries[n], db[entries[n].row].file) = ContentOf(payload, n)

\* Every file a restore writes lies in a restore root or in the storage's own
\* folder, through whatever links its path leads.
Confined ==
    \A p \in DOMAIN disk : p \notin DOMAIN first.disk \/ disk[p] # first.disk[p] =>
        \E r \in Roots \cup {RealPath(Location)} : IsInside(p, r)

\* What passed a dry run is restored unless the disk or the database fails, and
\* loads as many rows and writes as many files but those the backup left out;
\* what was validated is never found malformed.
RehearsalHolds ==
    Restoring /\ forecast.ok /\ pc \in {"done", "failed"} =>
        /\ forecast.mode = "validate" => out.why # "malformed"
        /\ forecast.mode = "dry" =>
               /\ out.why \in {Absent, "fault", "unpublished"} \cup (IF forecast.refused > 0 THEN {"refused"} ELSE {})
               /\ pc = "done" => /\ out.loaded = forecast.loaded
                                 /\ opt.files => out.written = forecast.files - out.skipped

=============================================================================
