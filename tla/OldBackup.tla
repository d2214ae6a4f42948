----------------------------- MODULE OldBackup ------------------------------
(***************************************************************************)
(* A backup of the first format, which DBS reads and converts but no longer *)
(* writes.  Its container (container/format.py) is a header, two copies of  *)
(* the manifest, two copies of the payload, each in blocks of Reed-Solomon  *)
(* codewords whose hashes the manifest has (container/blocks.py), and the   *)
(* header again.  convert_v1 (engine/convert.py) writes what was read as a  *)
(* payload of the second format, in frames, and validates it.               *)
(* A symbol of a codeword is 0 as it was written, another number when it    *)
(* changed; a unit of the file is a header, a manifest or a block.          *)
(***************************************************************************)
EXTENDS Integers, Sequences, FiniteSets, SequencesExt, TLC

CONSTANTS
    Symbols, Nsym,    \* the length of a codeword, and how many of it are parity
    Words, Blocks,    \* codewords of a block, blocks of a copy
    Patterns,         \* what damage makes of a codeword
    MaxFaults,        \* damages of a behaviour
    Documents,        \* what the payload may hold: the order, the records and the files
    OwnOrder,         \* the models of this project, parents before children
    BatchRows,        \* RECORD_BATCH_ROWS
    FrameLimit,       \* MAX_FRAME_BYTES
    ManifestBatch, ChunkSize

OldAssumption ==
    /\ {Symbols, Words, Blocks, BatchRows, FrameLimit, ManifestBatch, ChunkSize} \subseteq Nat \ {0}
    /\ Nsym \in 0 .. Symbols - 1 /\ MaxFaults \in Nat
    /\ Patterns \subseteq [1 .. Symbols -> Nat]

VARIABLES
    file,     \* the container: its headers, manifests, copies, and the units that are left
    luck,     \* whether damage beyond the correction yields a wrong codeword, or an error
    pc,
    block,    \* blocks read so far
    report,   \* RepairReport
    doc,      \* the payload
    frames,   \* frames emitted so far
    batches,  \* batches of records that are still to be framed
    faults

vars == <<file, luck, pc, block, report, doc, frames, batches, faults>>
reading == <<pc, block, report, frames, batches>>

-----------------------------------------------------------------------------
(* container/format.py: where a container says what it is. *)

\* header, manifest, manifest, the blocks of both copies, header.
FullLength == 4 + 2 * Blocks
Complete(copy) == file.length >= 3 + copy * Blocks

\* _verified_v1: the header at the front or at the very end, and a manifest with its hash.
HeaderRead == (file.front /\ file.length >= 1) \/ (file.back /\ file.length = FullLength)
ManifestRead == \E m \in {1, 2} : file.manifest[m] /\ file.length >= m + 1

\* read_container: a copy that is cut is not used; without a whole one there is no reading.
Opens == HeaderRead /\ ManifestRead /\ (Complete(1) \/ Complete(2))
Copies == {copy \in {1, 2} : Complete(copy)}

-----------------------------------------------------------------------------
(* container/blocks.py: a block from two copies. *)

Data == 1 .. Symbols - Nsym
Intact(word) == \A i \in 1 .. Symbols : word[i] = 0
Changed(word) == {i \in 1 .. Symbols : word[i] # 0}

\* _decode_codeword, with the symbols that are known to be lost.
DecodeCodeword(word, erased) ==
    IF 2 * Cardinality(Changed(word) \ erased) + Cardinality(erased) <= Nsym THEN "right"
    ELSE IF luck THEN "wrong" ELSE "none"

\* _decode_block: the data as it stands, else each codeword corrected, with the hash of the block.
DecodesBlock(words) ==
    \/ \A w \in 1 .. Words : Changed(words[w]) \cap Data = {}
    \/ \A w \in 1 .. Words : DecodeCodeword(words[w], {}) = "right"

\* _rebuild_codeword: either copy alone, else both, which differ where one is wrong.
Differing(one, two) == {i \in 1 .. Symbols : one[i] # two[i]}
RebuildCodeword(one, two) ==
    LET lost == Differing(one, two)
        tries == <<DecodeCodeword(one, {}), DecodeCodeword(two, {})>> \o
                 IF lost = {} \/ Cardinality(lost) > Nsym THEN <<>>
                 ELSE <<DecodeCodeword(one, lost), DecodeCodeword(two, lost)>>
        found == SelectSeq(tries, LAMBDA t : t # "none")
    IN  IF found = <<>> THEN "none" ELSE Head(found)

\* _rebuild_from_both.
Rebuilds(b) ==
    /\ Copies = {1, 2}
    /\ \A w \in 1 .. Words : RebuildCodeword(file.copy[1][b][w], file.copy[2][b][w]) = "right"

NewReport == [direct |-> 0, corrected |-> 0, usedB |-> 0, merged |-> 0, failed |-> {}]
Healed == /\ report.failed = {}
          /\ report.corrected + report.usedB + report.merged > 0 \/ Cardinality(Copies) < 2

-----------------------------------------------------------------------------
(* Damage, before the backup is read. *)

Damaging(new) ==
    /\ pc = "stored" /\ faults < MaxFaults /\ faults' = faults + 1
    /\ new # file /\ file' = new
    /\ UNCHANGED <<luck, doc, reading>>

LoseHeader == Damaging([file EXCEPT !.front = FALSE]) \/ Damaging([file EXCEPT !.back = FALSE])
LoseManifest == \E m \in {1, 2} : Damaging([file EXCEPT !.manifest[m] = FALSE])
DamageWord == \E c \in {1, 2}, b \in 1 .. Blocks, w \in 1 .. Words, p \in Patterns :
                  Damaging([file EXCEPT !.copy[c][b][w] = p])
Truncate == \E n \in 0 .. file.length - 1 : Damaging([file EXCEPT !.length = n])

-----------------------------------------------------------------------------
(* _read_v1_payload. *)

Open ==
    /\ pc = "stored"
    /\ pc' = IF Opens THEN "repair" ELSE "unreadable"
    /\ UNCHANGED <<file, luck, block, report, doc, frames, batches, faults>>

\* repair_copies: the first copy that decodes; the second is looked at only then.
RepairBlock ==
    /\ pc = "repair" /\ block < Blocks
    /\ LET b == block + 1
           able == {c \in Copies : DecodesBlock(file.copy[c][b])}
           used == CHOOSE c \in able : \A o \in able : c <= o
           whole == \A w \in 1 .. Words : Intact(file.copy[used][b][w])
           b2 == IF used = 2 THEN 1 ELSE 0
       IN  /\ block' = b
           /\ report' = IF able # {}
                        THEN IF whole THEN [report EXCEPT !.usedB = @ + b2, !.direct = @ + 1]
                             ELSE [report EXCEPT !.usedB = @ + b2, !.corrected = @ + 1]
                        ELSE IF Rebuilds(b) THEN [report EXCEPT !.merged = @ + 1]
                        ELSE [report EXCEPT !.failed = @ \cup {b}]
    /\ UNCHANGED <<file, luck, pc, doc, frames, batches, faults>>

\* A block that failed ends the reading; the payload is decrypted and its hash compared.
Unpack ==
    /\ pc = "repair" /\ block = Blocks
    /\ pc' = IF report.failed = {} THEN "header" ELSE "beyond repair"
    /\ UNCHANGED <<file, luck, block, report, doc, frames, batches, faults>>

-----------------------------------------------------------------------------
(* engine/convert.py: the payload in frames. *)

Labels(records) == {records[i].model : i \in DOMAIN records}

\* ordered_records: by the recorded order, or the project's, and the rest last.
Ordered ==
    LET ranks == IF doc.order # <<>> THEN doc.order
                 ELSE SelectSeq(OwnOrder, LAMBDA m : m \in Labels(doc.records))
        of(m) == SelectSeq(doc.records, LAMBDA r : r.model = m)
    IN  FlattenSeq([i \in DOMAIN ranks |-> of(ranks[i])])
        \o SelectSeq(doc.records, LAMBDA r : ~ Contains(ranks, r.model))

\* _order: the recorded labels, and then those of the records as they come.
HeaderOrder ==
    FoldLeft(LAMBDA labels, r : IF Contains(labels, r.model) THEN labels ELSE Append(labels, r.model),
             doc.order, Ordered)

Emit(new) == frames' = frames \o new
Pieces(s, n) == [i \in 1 .. (Len(s) + n - 1) \div n |->
                    SubSeq(s, (i - 1) * n + 1, IF i * n > Len(s) THEN Len(s) ELSE i * n)]

EmitHeader ==
    /\ pc = "header" /\ pc' = "files"
    /\ LET manifests == Pieces([i \in DOMAIN doc.files |-> i], ManifestBatch)
       IN  Emit(<<[kind |-> "header", order |-> HeaderOrder]>>
                \o [i \in DOMAIN manifests |-> [kind |-> "manifest", entries |-> manifests[i]]])
    /\ UNCHANGED <<file, luck, block, report, doc, batches, faults>>

\* The files one after the other, each checked against its digest first.
NextFile == 1 + Cardinality({i \in DOMAIN frames : frames[i].kind = "end"})
EmitFile ==
    /\ pc = "files" /\ NextFile <= Len(doc.files)
    /\ LET f == doc.files[NextFile]
           chunks == Pieces(f.content, ChunkSize)
       IN  IF ~ f.sound THEN pc' = "failed" /\ UNCHANGED frames
           ELSE /\ Emit([i \in DOMAIN chunks |-> [kind |-> "data", index |-> NextFile, chunk |-> chunks[i]]]
                        \o <<[kind |-> "end", index |-> NextFile]>>)
                /\ UNCHANGED pc
    /\ UNCHANGED <<file, luck, block, report, doc, batches, faults>>

\* Batches of one model, of no more rows than a batch has.
Batched(records) ==
    FoldLeft(LAMBDA found, r :
                 IF found = <<>> \/ Head(Last(found)).model # r.model \/ Len(Last(found)) >= BatchRows
                 THEN Append(found, <<r>>)
                 ELSE Append(Front(found), Append(Last(found), r)),
             <<>>, records)
BeginRecords ==
    /\ pc = "files" /\ NextFile > Len(doc.files)
    /\ pc' = "records" /\ batches' = Batched(Ordered)
    /\ UNCHANGED <<file, luck, block, report, doc, frames, faults>>

\* _emit_records: a batch beyond the limit is halved; a row beyond it fails.
Weight(batch) == FoldLeft(LAMBDA sum, r : sum + r.size, 0, batch)
EmitBatch ==
    /\ pc = "records" /\ batches # <<>>
    /\ LET batch == Head(batches)
           middle == Len(batch) \div 2
       IN  IF Weight(batch) <= FrameLimit
           THEN /\ Emit(<<[kind |-> "records", rows |-> batch]>>)
                /\ batches' = Tail(batches) /\ UNCHANGED pc
           ELSE IF Len(batch) = 1 THEN pc' = "failed" /\ UNCHANGED <<frames, batches>>
           ELSE /\ batches' = <<SubSeq(batch, 1, middle), SubSeq(batch, middle + 1, Len(batch))>>
                              \o Tail(batches)
                /\ UNCHANGED <<pc, frames>>
    /\ UNCHANGED <<file, luck, block, report, doc, faults>>

EmitTrailer ==
    /\ pc = "records" /\ batches = <<>> /\ pc' = "validate"
    /\ Emit(<<[kind |-> "trailer", files |-> Len(doc.files),
               models |-> [m \in ToSet(HeaderOrder) |->
                              Len(SelectSeq(Ordered, LAMBDA r : r.model = m))]]>>)
    /\ UNCHANGED <<file, luck, block, report, doc, batches, faults>>

\* validate_backup: the reader takes no record out of the order of the header.
Emitted(kind, part(_)) ==
    FlattenSeq([i \in DOMAIN frames |-> IF frames[i].kind = kind THEN part(frames[i]) ELSE <<>>])
Rows == Emitted("records", LAMBDA f : f.rows)
Position(label) == CHOOSE i \in DOMAIN Head(frames).order : Head(frames).order[i] = label
Validate ==
    /\ pc = "validate"
    /\ pc' = IF \A i \in 1 .. Len(Rows) - 1 : Position(Rows[i].model) <= Position(Rows[i + 1].model)
             THEN "converted" ELSE "failed"
    /\ UNCHANGED <<file, luck, block, report, doc, frames, batches, faults>>

-----------------------------------------------------------------------------

Undamaged == [c \in {1, 2} |-> [b \in 1 .. Blocks |-> [w \in 1 .. Words |-> [i \in 1 .. Symbols |-> 0]]]]
Init ==
    /\ file = [front |-> TRUE, back |-> TRUE, manifest |-> <<TRUE, TRUE>>, copy |-> Undamaged,
               length |-> FullLength]
    /\ luck \in BOOLEAN /\ doc \in Documents
    /\ pc = "stored" /\ block = 0 /\ report = NewReport /\ frames = <<>> /\ batches = <<>>
    /\ faults = 0

Next ==
    \/ LoseHeader \/ LoseManifest \/ DamageWord \/ Truncate \/ Open \/ RepairBlock \/ Unpack
    \/ EmitHeader \/ EmitFile \/ BeginRecords \/ EmitBatch \/ EmitTrailer \/ Validate

Spec == Init /\ [][Next]_vars

-----------------------------------------------------------------------------
(* Properties. *)

\* One header, one manifest and one copy suffice.  A block is recovered from any
\* copy whose codewords are within the correction, and, while no damage decodes to a
\* wrong codeword, from both where each codeword is within it in one of them or the
\* damages of the two are few and never the same.
WithinCorrection(word) == 2 * Cardinality(Changed(word)) <= Nsym
Apart(one, two) == /\ Changed(one) \cup Changed(two) = Differing(one, two)
                   /\ Cardinality(Differing(one, two)) <= Nsym
Recoverable(b) ==
    \/ \E c \in Copies : \A w \in 1 .. Words : WithinCorrection(file.copy[c][b][w])
    \/ /\ Copies = {1, 2} /\ ~ luck
       /\ \A w \in 1 .. Words :
              LET one == file.copy[1][b][w]
                  two == file.copy[2][b][w]
              IN  WithinCorrection(one) \/ WithinCorrection(two) \/ Apart(one, two)
RecoverableIsRecovered ==
    /\ \A b \in report.failed : ~ Recoverable(b)
    /\ pc = "unreadable" => \/ ~ (file.manifest[1] \/ (file.manifest[2] /\ file.length >= 3))
                            \/ ~ file.front /\ (~ file.back \/ file.length < FullLength)
                            \/ file.length < 3 + Blocks

\* A backup read without a repair has a first copy as it was written and a second of its
\* full length; every block is counted once.
ReportIsTrue ==
    /\ pc \notin {"stored", "unreadable"} =>
           report.direct + report.corrected + report.merged + Cardinality(report.failed) = block
    /\ pc \notin {"stored", "unreadable", "repair", "beyond repair"} /\ ~ Healed =>
           file.length >= 3 + 2 * Blocks /\ file.copy[1] = Undamaged[1]

\* A conversion holds the records in the order a restore of the old backup loads
\* them, the bytes of every file and their counts, in frames of one model within the
\* limits of the reader.
ConvertedIsTheSame ==
    pc = "converted" =>
        /\ Rows = Ordered /\ Labels(Rows) \subseteq ToSet(Head(frames).order)
        /\ \A i \in DOMAIN doc.files :
               Emitted("data", LAMBDA f : IF f.index = i THEN f.chunk ELSE <<>>) = doc.files[i].content
        /\ Emitted("manifest", LAMBDA f : f.entries) = [i \in DOMAIN doc.files |-> i]
        /\ \A i \in DOMAIN frames : frames[i].kind = "records" =>
               /\ Cardinality(Labels(frames[i].rows)) = 1
               /\ Len(frames[i].rows) <= BatchRows /\ Weight(frames[i].rows) <= FrameLimit
        /\ \A m \in Labels(doc.records) :
               Last(frames).models[m] = Cardinality({i \in DOMAIN doc.records : doc.records[i].model = m})

\* What does not convert has a file that is not what its digest says, a row no frame
\* holds, or records of models without a place in the order that are not together.
SoundConverts ==
    pc = "failed" =>
        \/ \E i \in DOMAIN doc.files : ~ doc.files[i].sound
        \/ \E i \in DOMAIN doc.records : doc.records[i].size > FrameLimit
        \/ \E i, j, k \in DOMAIN doc.records :
               /\ i < j /\ j < k /\ doc.records[i].model = doc.records[k].model
               /\ doc.records[j].model # doc.records[i].model
               /\ ~ Contains(doc.order, doc.records[i].model)

=============================================================================
