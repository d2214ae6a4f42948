----------------------------- MODULE SealedFile -----------------------------
(***************************************************************************)
(* Files sealed by the manager's vault (seal_stream, open_stream and       *)
(* _records of dbs/manager/vault.py).  A file is a header, which wraps a   *)
(* key of its own, and a row of records of Chunk units and a tag each; the *)
(* last may be shorter.  The number of a record and whether it is the last *)
(* are in its nonce, never in the file: the reader finds both from where   *)
(* the file ends.                                                          *)
(*                                                                         *)
(* Encryption is ideal: a record opens only whole, with the file key, the  *)
(* nonce and the header it was sealed with.  Unit i of file f is <<f, i>>. *)
(***************************************************************************)
EXTENDS Integers, Sequences, SequencesExt

CONSTANTS
    Chunk,       \* CHUNK_BYTES
    MaxLength,   \* bound: length of a sealed file
    MaxFaults    \* bound: things that happen to the file once it is sealed

ChunkAssumption == Chunk \in Nat \ {0}

VARIABLES
    length,      \* length[f]: the content of files 1 and 2, which share contexts
    key,         \* the vault key in use: keys are numbered as they are rotated
    held,        \* the keys the vault still has
    file,        \* file[f]: [key, units], what is on disk
    index, pos,  \* the loop of seal_stream, on file 1, then 2; then of _records
    phase,       \* 1, 2: sealing that file; "kept"; "open"; "done"; "failed"
    context,     \* the context the reader gives is the one it was sealed for
    rest,        \* what the reader has still to read
    out,         \* what it gave so far
    faults

vars == <<length, key, held, file, index, pos, phase, context, rest, out, faults>>

\* A unit on disk: part u of the size + 1 units of a record (the last: its tag).
Unit(f, i, l, lo, hi, u) == [f |-> f, i |-> i, last |-> l, lo |-> lo, hi |-> hi, u |-> u]
Record(f, i, l, lo, hi) == [u \in 1 .. hi - lo + 2 |-> Unit(f, i, l, lo, hi, u)]
Junk == Unit(0, 0, FALSE, 1, 0, 1)

\* _read_full of the content from pos on: short only at its end
Taken(f, p) == IF length[f] - p < Chunk THEN length[f] - p ELSE Chunk

Init ==
    /\ length \in [1 .. 2 -> 0 .. MaxLength]
    /\ key = 1 /\ held = {1}
    /\ file = [f \in 1 .. 2 |-> [key |-> 0, units |-> <<>>]]
    /\ index = 0 /\ pos = 0 /\ phase = "1"
    /\ context = TRUE /\ rest = <<>> /\ out = <<>> /\ faults = 0

Sealing == IF phase = "1" THEN 1 ELSE 2

LastMark(last) == last

\* seal_stream: one record, the next chunk read before this one is written
SealRecord ==
    LET f == Sealing
        n == Taken(f, pos)
        last == Taken(f, pos + n) = 0
    IN /\ phase \in {"1", "2"}
       /\ file' = [file EXCEPT ![f].key = key,
                               ![f].units = @ \o Record(f, index, LastMark(last), pos + 1, pos + n)]
       /\ IF last
          THEN index' = 0 /\ pos' = 0 /\ phase' = IF phase = "1" THEN "2" ELSE "kept"
          ELSE index' = index + 1 /\ pos' = pos + n /\ phase' = phase
       /\ UNCHANGED <<length, key, held, context, rest, out, faults>>

\* _keys: SECRET_KEY first, then its fallbacks
_keys(kept) == kept \cup {key + 1}

\* SECRET_KEY is rotated; the keys before it stay as fallbacks, or are dropped
Rotate ==
    /\ phase = "kept" /\ key < 2
    /\ key' = key + 1
    /\ \E kept \in {held, {}} : held' = _keys(kept)
    /\ UNCHANGED <<length, file, index, pos, phase, context, rest, out, faults>>

Damaged(units) ==
    LET n == Len(units) IN
    {SubSeq(units, 1, a) : a \in 0 .. n}
    \cup {SubSeq(units, 1, a - 1) \o SubSeq(units, b + 1, n) : a \in 1 .. n, b \in 1 .. n}
    \cup {[units EXCEPT ![a] = Junk] : a \in 1 .. n}
    \cup {units \o SubSeq(file[2].units, a, b) : a \in 1 .. Len(file[2].units), b \in 1 .. Len(file[2].units)}
    \cup {SubSeq(units, c + 1, n) \o SubSeq(units, 1, c) : c \in 1 .. n}
    \cup {file[2].units}

\* cut short, a part lost or changed, the parts of another file put behind or
\* in its place, the records in another order: the header is the file's own
Damage ==
    /\ phase = "kept" /\ faults < MaxFaults
    /\ faults' = faults + 1
    /\ \E units \in Damaged(file[1].units) : file' = [file EXCEPT ![1].units = units]
    /\ UNCHANGED <<length, key, held, index, pos, phase, context, rest, out>>

\* open_stream: the key by its id, the file key under the context
Open ==
    /\ phase = "kept"
    /\ context' \in BOOLEAN
    /\ phase' = IF file[1].key \in held /\ context' THEN "open" ELSE "failed"
    /\ rest' = file[1].units
    /\ UNCHANGED <<length, key, held, file, index, pos, out, faults>>

RecordBytes == Chunk + 1

\* cipher.decrypt: the record is whole, of this file, and at its place
Opens(r, i, last) ==
    r # <<>> /\ r = Record(1, i, LastMark(last), r[1].lo, r[1].hi)

\* _records: one record, and whether something follows it
ReadRecord ==
    LET n == IF Len(rest) < RecordBytes THEN Len(rest) ELSE RecordBytes
        record == SubSeq(rest, 1, n)
        following == SubSeq(rest, n + 1, Len(rest))
        last == following = <<>>
    IN /\ phase = "open"
       /\ IF Opens(record, index, last)
          THEN /\ out' = out \o [u \in 1 .. record[1].hi - record[1].lo + 1 |-> record[1].lo + u - 1]
               /\ phase' = IF last THEN "done" ELSE "open"
          ELSE phase' = "failed" /\ UNCHANGED out
       /\ rest' = following
       /\ index' = index + 1
       /\ UNCHANGED <<length, key, held, file, pos, context, faults>>

Next == SealRecord \/ Rotate \/ Damage \/ Open \/ ReadRecord

Spec == Init /\ [][Next]_vars

---------------------------------------------------------------------------
(* Properties                                                              *)

Content == [u \in 1 .. length[1] |-> u]

\* A file that is read to its end gave exactly what was sealed: "altered,
\* reordered or cut short" is never taken for the file, wherever the cut is.
NeverWrong == phase = "done" => out = Content

\* What was given before the error is the beginning of the file: a record is
\* given out only at its own place.
PrefixOnly == IsPrefix(out, Content)

\* A file nothing happened to is read, whatever its length (empty, and a
\* multiple of the chunk), for as long as its key is held.
CleanIsRead ==
    phase = "failed" => faults > 0 \/ ~context \/ file[1].key \notin held
=============================================================================
