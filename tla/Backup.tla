------------------------------- MODULE Backup -------------------------------
(***************************************************************************)
(* Taking a backup of a project in use (dbs/engine/backup.py): files are   *)
(* listed, then read; rows are paged by key and packed into frames         *)
(* (dbs/serialize.py); the container is written beside its name, verified  *)
(* and moved into place, while the project goes on writing rows and files. *)
(***************************************************************************)
EXTENDS Integers, Sequences, FiniteSets, SequencesExt, TLC

CONSTANTS
    Order,          \* the models of the plan, in their order
    Pinned,         \* the database reads from one snapshot
    Base,           \* the rows at the beginning: key -> row
    BaseFiles,      \* the files at the beginning: name -> chunks
    RootFiles,      \* the names that lie in a file root
    NewRows,        \* rows the project may insert
    Size,           \* Size[k]: bytes the row k serializes to
    Heavy,          \* models with fields that may be large
    RecordRows, Budget, Limit, FetchTarget,   \* RECORD_BATCH_ROWS, RECORD_BATCH_BYTES, MAX_FRAME_BYTES, FETCH_BYTES_TARGET
    ListedRows, ManifestBatch,
    AllowMissing, Verify,
    MaxWrites       \* what the project writes while the backup is taken

BackupAssumption ==
    /\ {RecordRows, Budget, Limit, FetchTarget, ListedRows, ManifestBatch} \subseteq Nat \ {0}
    /\ {Pinned, AllowMissing, Verify} \subseteq BOOLEAN

VARIABLES
    db, files,     \* of the project
    snap,          \* the rows the transaction reads, when it is pinned
    stayed,        \* keys that are there since the backup began
    pc, model, last, size, page, batch, count,
    sources, skipped, hand,
    payload, dest, bad, result, writes

vars == <<db, files, snap, stayed, pc, model, last, size, page, batch, count, sources, skipped,
          hand, payload, dest, bad, result, writes>>
project == <<db, files, snap, stayed, writes>>

Absent == "none"
NoRow == <<>>
NoFile == [payload |-> <<>>, bad |-> TRUE]
Lesser(a, b) == IF a < b THEN a ELSE b
Greater(a, b) == IF a > b THEN a ELSE b

\* read_from_one_snapshot.
View == IF Pinned THEN snap ELSE db
Emit(frames) == payload' = payload \o frames

\* Pages: the next rows by key, after the last.
RowsAfter(m, k) == {x \in DOMAIN View : x[1] = m /\ x[2] > k}
Page(m, k, n) ==
    LET keys == SortSeq(SetToSeq(RowsAfter(m, k)), LAMBDA a, b : a[2] < b[2])
    IN  SubSeq(keys, 1, Lesser(n, Len(keys)))

Raise(why) == pc' = "end" /\ result' = why

-----------------------------------------------------------------------------
(* Files are listed, and read later. *)

\* _write_path, _produce: the name is free; the transaction and its snapshot; the header.
Begin ==
    /\ pc = "start"
    /\ IF dest # NoFile THEN Raise("exists") /\ UNCHANGED <<snap, stayed, payload, model, last>>
       ELSE /\ pc' = "list" /\ model' = 1 /\ last' = 0 /\ UNCHANGED result
            /\ snap' = db /\ stayed' = DOMAIN db
            /\ Emit(<<[kind |-> "header", order |-> Order]>>)
    /\ UNCHANGED <<db, files, size, page, batch, count, sources, skipped, hand, dest, bad, writes>>

\* list_instance_files, list_root_files: a file that cannot be read is left out and named.
Probe(names) ==
    /\ sources' = sources \o SelectSeq(names, LAMBDA n : n \in DOMAIN files)
    /\ skipped' = skipped \o SelectSeq(names, LAMBDA n : n \notin DOMAIN files)
NextModel == model' = model + 1 /\ last' = 0

ListPage ==
    /\ pc = "list" /\ model <= Len(Order)
    /\ LET keys == Page(Order[model], last, ListedRows)
           named == SelectSeq(keys, LAMBDA k : View[k].file # Absent)
       IN  /\ Probe([i \in DOMAIN named |-> View[named[i]].file])
           /\ IF Len(keys) < ListedRows THEN NextModel
              ELSE last' = keys[Len(keys)][2] /\ UNCHANGED model
    /\ UNCHANGED <<project, pc, size, page, batch, count, hand, payload, dest, bad, result>>

ListRoots ==
    /\ pc = "list" /\ model > Len(Order)
    /\ sources' = sources \o SetToSeq(RootFiles \cap DOMAIN files)
    /\ pc' = "manifest"
    /\ UNCHANGED <<project, model, last, size, page, batch, count, skipped, hand, payload, dest, bad, result>>

\* The manifest, in batches; a missing file stops the backup unless it is allowed.
EmitManifest ==
    /\ pc = "manifest"
    /\ IF skipped # <<>> /\ ~ AllowMissing THEN Raise("missing") /\ UNCHANGED <<payload, hand>>
       ELSE /\ LET n == (Len(sources) + ManifestBatch - 1) \div ManifestBatch
               IN  Emit([b \in 1 .. n |-> [kind |-> "manifest",
                        names |-> SubSeq(sources, (b - 1) * ManifestBatch + 1,
                                         Lesser(b * ManifestBatch, Len(sources)))]])
            /\ pc' = "files" /\ hand' = [index |-> 1, open |-> FALSE, chunks |-> <<>>, read |-> <<>>]
            /\ UNCHANGED result
    /\ UNCHANGED <<project, model, last, size, page, batch, count, sources, skipped, dest, bad>>

\* A file that went since it was listed, or fails while it is read.
NextFile == hand' = [index |-> hand.index + 1, open |-> FALSE, chunks |-> <<>>, read |-> <<>>]

SkipFile ==
    /\ skipped' = Append(skipped, sources[hand.index])
    /\ IF AllowMissing
       THEN /\ Emit(<<[kind |-> "end", index |-> hand.index, digest |-> <<>>, skipped |-> TRUE]>>)
            /\ NextFile /\ UNCHANGED <<pc, result>>
       ELSE Raise("missing") /\ UNCHANGED <<payload, hand>>

\* open_source, open_regular.
OpenFile ==
    /\ pc = "files" /\ hand.index <= Len(sources) /\ ~ hand.open
    /\ IF sources[hand.index] \in DOMAIN files
       THEN /\ hand' = [hand EXCEPT !.open = TRUE, !.chunks = files[sources[hand.index]]]
            /\ UNCHANGED <<skipped, payload, pc, result>>
       ELSE SkipFile
    /\ UNCHANGED <<project, model, last, size, page, batch, count, sources, dest, bad>>

\* _emit_files: a chunk, or the end with the digest of what was read.
ReadChunk ==
    /\ pc = "files" /\ hand.open
    /\ \/ /\ Len(hand.read) < Len(hand.chunks)
          /\ LET chunk == hand.chunks[Len(hand.read) + 1]
             IN  /\ Emit(<<[kind |-> "data", index |-> hand.index, chunk |-> chunk]>>)
                 /\ hand' = [hand EXCEPT !.read = Append(@, chunk)]
          /\ UNCHANGED <<skipped, pc, result>>
       \/ /\ Len(hand.read) >= Len(hand.chunks)
          /\ Emit(<<[kind |-> "end", index |-> hand.index, digest |-> hand.read, skipped |-> FALSE]>>)
          /\ NextFile /\ UNCHANGED <<skipped, pc, result>>
       \/ Len(hand.read) = 1 /\ SkipFile
    /\ UNCHANGED <<project, model, last, size, page, batch, count, sources, dest, bad>>

FirstSize(m) == IF m \in Heavy THEN 1 ELSE RecordRows
BeginRows ==
    /\ pc = "files" /\ hand.index > Len(sources)
    /\ pc' = "fetch" /\ model' = 1 /\ last' = 0 /\ batch' = <<>> /\ size' = FirstSize(Order[1])
    /\ UNCHANGED <<project, page, count, sources, skipped, hand, payload, dest, bad, result>>

-----------------------------------------------------------------------------
(* Rows. *)

\* Pages.__iter__: at most size rows after the last key.
FetchPage ==
    /\ pc = "fetch" /\ model <= Len(Order)
    /\ page' = [keys |-> Page(Order[model], last, size), rows |-> [k \in DOMAIN View |-> View[k]], size |-> size]
    /\ pc' = "encode"
    /\ UNCHANGED <<project, model, last, size, batch, count, sources, skipped, hand, payload, dest, bad, result>>

Total(keys) == FoldLeft(LAMBDA n, k : n + Size[k], 0, keys)

\* Mutant: the brackets and commas of the frame are forgotten.
NoRoomBare(b, k) == b # <<>> /\ (Total(b) + Size[k] > Lesser(Budget, Limit) \/ Len(b) >= RecordRows)

\* serialize_batches: the row does not fit with the others, their commas and the brackets.
NoRoom(b, k) == b # <<>> /\ (Total(b) + Size[k] + Len(b) + 2 > Lesser(Budget, Limit) \/ Len(b) >= RecordRows)

\* prepare: the members of the page's rows, in a query of its own.
Record(k) == [key |-> k, ref |-> page.rows[k].ref, file |-> page.rows[k].file,
              tags |-> IF k \in DOMAIN View THEN View[k].tags ELSE {}]
Packed(keys) ==
    FoldLeft(LAMBDA s, k : IF NoRoom(s.batch, k)
                           THEN [frames |-> Append(s.frames, s.batch), batch |-> <<k>>]
                           ELSE [frames |-> s.frames, batch |-> Append(s.batch, k)],
             [frames |-> <<>>, batch |-> [i \in DOMAIN batch |-> batch[i].key]], keys)

\* Pages.measured: at most twice as many, and about as many bytes as the target.
Measured(keys) ==
    LET mean == Greater(1, Total(keys) \div Greater(1, Len(keys)))
    IN  Greater(1, Lesser(RecordRows, Lesser(size * 2, FetchTarget \div mean)))

\* A page that is not full is the last, by the size it was fetched with.
LastPage(keys, new) == Len(keys) < page.size

RecordsFrame(keys, all) ==
    [kind |-> "records", rows |-> [i \in DOMAIN keys |-> CHOOSE r \in all : r.key = keys[i]],
     bytes |-> Total(keys) + Len(keys) - 1 + 2]
Held == {batch[i] : i \in DOMAIN batch}

EncodePage ==
    /\ pc = "encode"
    /\ LET keys == page.keys
           all == Held \cup {Record(keys[i]) : i \in DOMAIN keys}
           packed == Packed(keys)
           rest == [i \in DOMAIN packed.batch |-> CHOOSE r \in all : r.key = packed.batch[i]]
       IN  IF \E i \in DOMAIN keys : Size[keys[i]] + 2 > Limit
           THEN Raise("too large") /\ UNCHANGED <<payload, batch, size, last, model, count>>
           ELSE /\ size' = IF keys = <<>> THEN size ELSE Measured(keys)
                /\ IF keys = <<>> \/ LastPage(keys, size')
                   THEN /\ Emit([i \in DOMAIN packed.frames |-> RecordsFrame(packed.frames[i], all)]
                                \o IF rest = <<>> THEN <<>> ELSE <<RecordsFrame(packed.batch, all)>>)
                        /\ batch' = <<>> /\ pc' = "next" /\ UNCHANGED last
                   ELSE /\ Emit([i \in DOMAIN packed.frames |-> RecordsFrame(packed.frames[i], all)])
                        /\ batch' = rest /\ last' = keys[Len(keys)][2] /\ pc' = "fetch"
                /\ count' = count + Len(keys)
                /\ UNCHANGED <<model, result>>
    /\ UNCHANGED <<project, page, sources, skipped, hand, dest, bad>>

\* _emit_records: the next model, then the trailer.
NextRows ==
    /\ pc = "next"
    /\ NextModel
    /\ IF model < Len(Order) THEN pc' = "fetch" /\ size' = FirstSize(Order[model + 1]) /\ UNCHANGED payload
       ELSE /\ pc' = "close" /\ UNCHANGED size
            /\ Emit(<<[kind |-> "trailer", records |-> count, skipped |-> skipped,
                       files |-> Cardinality({i \in DOMAIN payload : payload[i].kind = "end" /\ ~ payload[i].skipped})]>>)
    /\ UNCHANGED <<project, page, batch, count, sources, skipped, hand, dest, bad, result>>

-----------------------------------------------------------------------------
(* The file. *)

\* Mutant: the file is moved into place and then verified.
CloseFirst ==
    /\ pc = "close"
    /\ IF dest # NoFile THEN Raise("exists") /\ UNCHANGED dest
       ELSE /\ dest' = [payload |-> payload, bad |-> bad]
            /\ pc' = "end" /\ result' = IF Verify /\ bad THEN "corrupt" ELSE "ok"
    /\ UNCHANGED <<project, model, last, size, page, batch, count, sources, skipped, hand, payload, bad>>

\* create_new_file, _verify_after_write: verified beside its name, then linked there.
Close ==
    /\ pc = "close"
    /\ IF Verify /\ bad THEN Raise("corrupt") /\ UNCHANGED dest
       ELSE IF dest # NoFile THEN Raise("exists") /\ UNCHANGED dest
       ELSE pc' = "end" /\ result' = "ok" /\ dest' = [payload |-> payload, bad |-> bad]
    /\ UNCHANGED <<project, model, last, size, page, batch, count, sources, skipped, hand, payload, bad>>

\* The disk does not keep what was written.
Decay ==
    /\ pc = "close" /\ ~ bad /\ bad' = TRUE
    /\ UNCHANGED <<project, pc, model, last, size, page, batch, count, sources, skipped, hand, payload, dest, result>>

-----------------------------------------------------------------------------
(* The project goes on. *)

Writes == writes < MaxWrites /\ writes' = writes + 1
Referred(k) == \E x \in DOMAIN db : db[x].ref = k
Insert(k) ==
    /\ Writes /\ k \notin DOMAIN db
    /\ NewRows[k].ref = NoRow \/ NewRows[k].ref \in DOMAIN db
    /\ db' = db @@ (k :> NewRows[k])
    /\ UNCHANGED <<files, snap, stayed>>
Delete(k) ==
    /\ Writes /\ k \in DOMAIN db /\ ~ Referred(k)
    /\ db' = [x \in DOMAIN db \ {k} |-> db[x]]
    /\ stayed' = stayed \ {k}
    /\ UNCHANGED <<files, snap>>
RemoveFile(n) ==
    /\ Writes /\ n \in DOMAIN files
    /\ files' = [x \in DOMAIN files \ {n} |-> files[x]]
    /\ UNCHANGED <<db, snap, stayed>>
Project ==
    /\ pc # "end"
    /\ \/ \E k \in DOMAIN NewRows : Insert(k)
       \/ \E k \in DOMAIN db : Delete(k)
       \/ \E n \in DOMAIN files : RemoveFile(n)
    /\ UNCHANGED <<pc, model, last, size, page, batch, count, sources, skipped, hand, payload, dest, bad, result>>

\* Another process takes the name.
TakeName ==
    /\ pc # "end" /\ dest = NoFile /\ writes < MaxWrites /\ writes' = writes + 1
    /\ dest' = [payload |-> <<>>, bad |-> FALSE]
    /\ UNCHANGED <<db, files, snap, stayed, pc, model, last, size, page, batch, count, sources, skipped, hand,
                   payload, bad, result>>

Init ==
    /\ db = Base /\ files = BaseFiles /\ snap = <<>> /\ stayed = {}
    /\ pc = "start" /\ model = 1 /\ last = 0 /\ size = 1
    /\ page = [keys |-> <<>>, rows |-> <<>>, size |-> 0] /\ batch = <<>> /\ count = 0
    /\ sources = <<>> /\ skipped = <<>>
    /\ hand = [index |-> 1, open |-> FALSE, chunks |-> <<>>, read |-> <<>>]
    /\ payload = <<>> /\ dest = NoFile /\ bad = FALSE /\ result = Absent /\ writes = 0

Next ==
    \/ Begin \/ ListPage \/ ListRoots \/ EmitManifest \/ OpenFile \/ ReadChunk \/ BeginRows
    \/ FetchPage \/ EncodePage \/ NextRows \/ Close \/ Decay \/ Project \/ TakeName

Spec == Init /\ [][Next]_vars

-----------------------------------------------------------------------------
(* Properties. *)

Done == result = "ok"
Kind(k) == {i \in DOMAIN payload : payload[i].kind = k}
Rows == FlattenSeq([i \in DOMAIN payload |-> IF payload[i].kind = "records" THEN payload[i].rows ELSE <<>>])
RowKeys == {Rows[i].key : i \in DOMAIN Rows}

\* A backup holds no row twice, and every row that was there from its beginning
\* to its end, whatever is inserted and deleted meanwhile and however the size
\* of the pages changes; from one snapshot it holds exactly that.
RowsOnce ==
    /\ Cardinality(RowKeys) = Len(Rows)
    /\ Done => stayed \subseteq RowKeys
    /\ Done /\ Pinned => RowKeys = DOMAIN snap /\ \A i \in DOMAIN Rows : Rows[i].tags = snap[Rows[i].key].tags

\* A file that a row of the backup names is in the backup, or is told as left
\* out; without allow_missing_files nothing is left out of a backup that is written.
NamedFilesAreThere ==
    Done =>
        /\ AllowMissing \/ skipped = <<>>
        /\ Pinned => \A i \in DOMAIN Rows : Rows[i].file # Absent =>
               \/ \E s \in DOMAIN skipped : skipped[s] = Rows[i].file
               \/ \E e \in Kind("end") : ~ payload[e].skipped /\ sources[payload[e].index] = Rows[i].file

\* What is written is what the reader takes: the files in the manifest's order,
\* each with its end and the digest of its data, records in the models' order,
\* frames within the limit, and a trailer that counts them.
FrameRank == [header |-> 1, manifest |-> 2, data |-> 3, end |-> 3, records |-> 4, trailer |-> 5]
DataOf(n) == FlattenSeq([i \in DOMAIN payload |->
                 IF payload[i].kind = "data" /\ payload[i].index = n THEN <<payload[i].chunk>> ELSE <<>>])
Readable ==
    /\ \A i \in 1 .. Len(payload) - 1 : FrameRank[payload[i].kind] <= FrameRank[payload[i + 1].kind]
    /\ \A i \in Kind("records") : /\ payload[i].bytes <= Limit
                                  /\ payload[i].bytes <= Budget \/ Len(payload[i].rows) = 1
                                  /\ Len(payload[i].rows) \in 1 .. RecordRows
    /\ \A e \in Kind("end") : payload[e].skipped \/ payload[e].digest = DataOf(payload[e].index)
    /\ Done => /\ Cardinality(Kind("end")) = Len(sources)
               /\ FlattenSeq([i \in DOMAIN payload |-> IF payload[i].kind = "manifest" THEN payload[i].names ELSE <<>>])
                      = sources
               /\ payload[Len(payload)].records = Len(Rows)
               /\ \A i, j \in DOMAIN Rows : i < j => \E a, b \in DOMAIN Order :
                      a <= b /\ Order[a] = Rows[i].key[1] /\ Order[b] = Rows[j].key[1]

\* A file of that name is never replaced, and one that appears is whole and,
\* where it is verified, good.
NeverReplaced == /\ dest # NoFile => dest' = dest
                 /\ dest' # dest /\ dest' # NoFile /\ dest'.payload # <<>> =>
                        result' = "ok" /\ (Verify => ~ dest'.bad)
=============================================================================
