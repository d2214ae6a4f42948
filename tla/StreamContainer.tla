-------------------------- MODULE StreamContainer --------------------------
(***************************************************************************)
(* The format 2 container (dbs/container/stream.py, the repair of          *)
(* dbs/container/rs.py, dbs/crypto/chunked.py): a writer that stores every *)
(* block twice, damage to the file it wrote, and a reader that heals it.   *)
(*                                                                         *)
(* The file is a sequence of units: a header, the slots, two trailers and  *)
(* the header again.  Every unit has length one; a slot that a cut left    *)
(* only the beginning of is a stub.  A slot holds the block idx, encoded   *)
(* in Codewords; words[c][b] = 0 says that the byte b of codeword c is the *)
(* one written, any other number is a wrong byte.                          *)
(***************************************************************************)
EXTENDS Integers, Sequences, FiniteSets, SequencesExt

CONSTANTS
    Distance,     \* blocks between the two copies of a block
    Capacity,       \* plaintext bytes in a block
    BatchBlocks,    \* BATCH_BLOCKS * workers
    MaxBlocks,      \* MAX_BLOCKS
    Codewords,      \* 1 .. n, the codewords of a block
    Bytes,          \* the bytes of a codeword
    Nsym,           \* parity bytes of a codeword
    WriteSizes,     \* sizes of the pieces given to write
    MaxPayload,     \* bound: bytes written in all
    Damages,        \* what may happen to a slot: [words, tag]
    Faults,         \* the kinds of fault that may happen
    MaxFaults,      \* bound
    Modes,          \* how the file is read: "chunks", "spares", "verify"
    Passphrases     \* given to the reader: "right", "wrong", "none"

VARIABLES
    w,         \* the StreamWriter
    file,      \* the units in the file
    faults,    \* faults so far
    luck,      \* a codeword beyond the parity budget decodes, to wrong data
    r          \* the StreamReader

vars == <<w, file, faults, luck, r>>

\* layout_problem lets no other layout pass; its upper bounds are of no matter here.
LayoutAssumption ==
    /\ {Capacity, Distance, BatchBlocks, MaxBlocks} \subseteq Nat \ {0}
    /\ Nsym \in Nat \ {0, 1}
    /\ 1 \in Codewords /\ Cardinality(Bytes) > Nsym
    /\ WriteSizes \subseteq Nat

-----------------------------------------------------------------------------
(* Units. *)

Whole == [c \in Codewords |-> [b \in Bytes |-> 0]]
Slot(i, f, n) == [kind |-> "slot", idx |-> i, fin |-> f, len |-> n, own |-> TRUE,
                  words |-> Whole, tag |-> 0]
Junk == [Slot(-1, FALSE, 0) EXCEPT !.own = FALSE, !.tag = 3,
                                   !.words = [c \in Codewords |-> [b \in Bytes |-> 3]]]
Header == [kind |-> "header", fields |-> "sealed"]
Trailer(n, bytes, len) == [kind |-> "trailer", blocks |-> n, bytes |-> bytes, len |-> len]
NoTrailer == [kind |-> "none"]

\* The bytes at a unit's place; past the end there are none.
ReadAt(p) == IF p \in 1 .. Len(file) THEN file[p] ELSE NoTrailer

ContainerSize(n) == 2 * n + 4

\* StreamTrailer.open, with the arithmetic it checks.
TrailerOpens(t) ==
    /\ t.kind = "trailer"
    /\ t.blocks \in 1 .. MaxBlocks
    /\ t.len \in 0 .. Capacity
    /\ t.bytes = (t.blocks - 1) * Capacity + t.len

-----------------------------------------------------------------------------
(* The writer. *)

NewWriter == [state |-> "open", pending |-> 0, due |-> 0, batch |-> <<>>, window |-> <<>>,
              next |-> 0, bytes |-> 0]

\* write: a full chunk is held back until a byte follows it.
Write(n) ==
    /\ w.state = "open" /\ w.due = 0 /\ w.bytes + n <= MaxPayload
    /\ LET room == Capacity - w.pending
           top == IF w.pending > 0 /\ n > 0 THEN (IF room < n THEN room ELSE n) ELSE 0
           passed == w.pending > 0 /\ top < n /\ n > 0
           held == IF passed THEN 0 ELSE w.pending + top
           rest == n - top
           loops == IF rest > Capacity THEN (rest - 1) \div Capacity ELSE 0
       IN  w' = [w EXCEPT !.bytes = @ + n,
                          !.pending = held + rest - loops * Capacity,
                          !.due = loops + (IF passed THEN 1 ELSE 0)]
    /\ UNCHANGED <<file, faults, luck, r>>

\* _place: the slot, and the second copy of the block that leaves the window.
Place(s, slot) ==
    LET window == Append(s.window, slot)
    IN  IF Len(window) > Distance
        THEN [out |-> s.out \o <<slot, Head(window)>>, window |-> Tail(window)]
        ELSE [out |-> Append(s.out, slot), window |-> window]

\* _flush, _encode: the batch becomes slots; only the last of the stream is final.
Encoded(batch, first, final) ==
    [k \in 1 .. Len(batch) |-> Slot(first + k - 1, final /\ k = Len(batch), batch[k])]
Flushed(batch, final) == FoldLeft(Place, [out |-> file, window |-> w.window],
                                  Encoded(batch, w.next, final))

\* _emit: the sink takes what it is given, or fails on the way, which aborts the writer.
\* "unfinished" is an abort of close, which had the whole payload.
Emit(out, after, failed) ==
    \/ file' = out /\ w' = after
    \/ \E k \in Len(file) .. Len(out) - 1 :
         file' = SubSeq(out, 1, k) /\ w' = [w EXCEPT !.state = failed]

\* _queue: one full chunk; a full batch is flushed, or refused beyond MAX_BLOCKS.
Queue ==
    /\ w.state = "open" /\ w.due > 0
    /\ LET batch == Append(w.batch, Capacity)
       IN  IF Len(batch) < BatchBlocks
           THEN w' = [w EXCEPT !.due = @ - 1, !.batch = batch] /\ UNCHANGED file
           ELSE IF w.next + Len(batch) > MaxBlocks
           THEN w' = [w EXCEPT !.state = "aborted"] /\ UNCHANGED file
           ELSE LET s == Flushed(batch, FALSE)
                IN  Emit(s.out, [w EXCEPT !.due = @ - 1, !.batch = <<>>, !.window = s.window,
                                          !.next = @ + Len(batch)], "aborted")
    /\ UNCHANGED <<faults, luck, r>>

\* close: the last chunk, what the window holds, both trailers and the header.
Close ==
    /\ w.state = "open" /\ w.due = 0
    /\ LET batch == Append(w.batch, w.pending)
           s == Flushed(batch, TRUE)
           n == w.next + Len(batch)
           t == Trailer(n, w.bytes, w.pending)
       IN  IF n > MaxBlocks
           THEN w' = [w EXCEPT !.state = "aborted"] /\ UNCHANGED file
           ELSE Emit(s.out \o s.window \o <<t, t, Header>>,
                     [w EXCEPT !.state = "closed", !.batch = <<>>, !.window = <<>>, !.next = n],
                     "unfinished")
    /\ UNCHANGED <<faults, luck, r>>

\* abort, after an error where the payload comes from, or the process ends: the sink keeps
\* what it was given.
Abort ==
    /\ w.state = "open"
    /\ w' = [w EXCEPT !.state = "aborted"]
    /\ UNCHANGED <<file, faults, luck, r>>

-----------------------------------------------------------------------------
(* What may happen to the file. *)

Fault(kind) ==
    /\ w.state # "open" /\ r.phase = "closed" /\ kind \in Faults /\ faults < MaxFaults
    /\ faults' = faults + 1
    /\ UNCHANGED <<w, luck, r>>

Slots == {p \in 1 .. Len(file) : file[p].kind = "slot"}

Damage(p, d) == Fault("slot") /\ file' = [file EXCEPT ![p].words = d.words, ![p].tag = d.tag]
IsStub(u) == u.kind = "stub"
Lose(p) == Fault("unit") /\ ~ IsStub(file[p]) /\ file' = [file EXCEPT ![p] = Junk]
Truncate(n) == Fault("cut") /\ file' = SubSeq(file, 1, n)
TruncateInside(p) ==
    Fault("cut") /\ file' = Append(SubSeq(file, 1, p - 1), [file[p] EXCEPT !.kind = "stub"])
Extend == Fault("longer") /\ ~ IsStub(Last(file)) /\ file' = Append(file, Junk)
Swap(p, q) == Fault("swap") /\ file' = [file EXCEPT ![p] = file[q], ![q] = file[p]]
Foreign(p) == Fault("foreign") /\ file' = [file EXCEPT ![p].own = FALSE]
Reseal(p, f) == Fault("reseal") /\ file' = [file EXCEPT ![p].fields = f]

\* burst_tolerance: whole slots that a burst may be long.
BurstTolerance(n) ==
    LET distance == IF n > Distance THEN Distance ELSE n - 1
    IN  IF distance > 0 THEN distance ELSE 0

\* A burst touches one slot more than it is long; at either end it takes the metadata too.
Burst(p) ==
    /\ Fault("burst") /\ w.state = "closed"
    /\ LET n == w.next
           q == p + BurstTolerance(n)
           lost == {k \in 1 .. Len(file) :
                      \/ k - 1 \in p .. q
                      \/ p = 1 /\ k = 1
                      \/ q >= 2 * n /\ k > 2 * n + 1}
       IN  file' = [k \in 1 .. Len(file) |-> IF k \in lost THEN Junk ELSE file[k]]

-----------------------------------------------------------------------------
(* Reed-Solomon, dbs/container/rs.py. *)

Identity(slot) == [idx |-> slot.idx, fin |-> slot.fin, len |-> slot.len, own |-> slot.own]
Wrong == [idx |-> -2, fin |-> FALSE, len |-> 0, own |-> FALSE]

Consistent(slot, c) == slot.words[c] = Whole[c]

\* decode_codeword: right within the budget, an erasure costs half of an error.
DecodeCodeword(slot, c, erasures) ==
    LET errors == {b \in Bytes \ erasures : slot.words[c][b] # 0}
    IN  IF 2 * Cardinality(errors) + Cardinality(erasures) <= Nsym THEN {Identity(slot)}
        ELSE IF luck THEN {Wrong} ELSE {}

\* _decode_any: the first copy that decodes; else both, their differences erased.
DecodeAny(copies, c) ==
    LET plain == SelectInSeq(copies, LAMBDA s : DecodeCodeword(s, c, {}) # {})
        a == copies[1]
        b == copies[Len(copies)]
        differing == IF Identity(a) = Identity(b)
                     THEN {x \in Bytes : a.words[c][x] # b.words[c][x]} ELSE Bytes
        erased == SelectInSeq(copies, LAMBDA s : DecodeCodeword(s, c, differing) # {})
    IN  IF plain # 0
        THEN [from |-> plain, piece |-> DecodeCodeword(copies[plain], c, {})]
        ELSE IF Cardinality(differing) \in 1 .. Nsym /\ erased # 0
        THEN [from |-> erased, piece |-> DecodeCodeword(copies[erased], c, differing)]
        ELSE [from |-> 1, piece |-> {}]

\* repair_from_copies: every codeword from a copy in which it is consistent, or decoded.
Piece(copies, c) ==
    LET good == SelectInSeq(copies, LAMBDA s : Consistent(s, c))
    IN  IF good # 0 THEN [from |-> good, piece |-> {Identity(copies[good])}]
        ELSE DecodeAny(copies, c)

Pieces(copies) == IF copies = <<>> THEN <<>> ELSE [c \in Codewords |-> Piece(copies, c)]

RepairFromCopies(copies, pieces) ==
    [data |-> IF \A c \in Codewords : pieces[c].piece # {}
              THEN {[c \in Codewords |-> CHOOSE x \in pieces[c].piece : TRUE]} ELSE {},
     used |-> {pieces[c].from : c \in Codewords},
     decoded |-> \E c \in Codewords : \A k \in DOMAIN copies : ~ Consistent(copies[k], c)]

-----------------------------------------------------------------------------
(* The reader finds the header and the end. *)

NewReport == [direct |-> 0, corrected |-> 0, usedB |-> 0, merged |-> 0, copies |-> 2,
              failed |-> {}, spares |-> {}, meta |-> {}, unverified |-> {}, problems |-> {}]
NoReader == [phase |-> "closed", mode |-> "chunks", key |-> FALSE, count |-> 0,
             trailer |-> NoTrailer, pos |-> 0, waiting |-> <<>>, ready |-> <<>>,
             tags |-> {}, digest |-> TRUE, next |-> 0, out |-> <<>>, report |-> NewReport, result |-> "none"]

IsHeader(u) == u.kind = "header"

\* _locate_header: the front copy, or the back one; a copy that differs is damaged.
LocateHeader ==
    LET front == ReadAt(1)
        back == IF Len(file) >= 2 THEN ReadAt(Len(file)) ELSE Junk
        chosen == IF IsHeader(front) THEN front ELSE back
    IN  [header |-> chosen,
         meta |-> (IF front # chosen THEN {"front header"} ELSE {})
                  \cup (IF back # chosen THEN {"back header"} ELSE {})]

\* _read_trailers: two copies from start on, each checked; counts are the block counts that fit.
ReadTrailers(start, counts) ==
    LET found == [k \in 1 .. 2 |-> LET t == ReadAt(start + k)
                                   IN  IF start >= 1 /\ TrailerOpens(t) /\ t.blocks \in counts THEN t
                                       ELSE NoTrailer]
        k == SelectInSeq(found, LAMBDA t : t # NoTrailer)
    IN  IF k = 0 THEN [trailer |-> NoTrailer, meta |-> {}]
        ELSE [trailer |-> found[k],
              meta |-> {IF j = 1 THEN "trailer copy 1" ELSE "trailer copy 2" :
                         j \in {j \in 1 .. 2 : found[j] # found[k]}}]

FirstCopyPosition(i) == IF i < Distance THEN i ELSE 2 * i - Distance

\* _first_descriptors: the first codeword of a slot, or of a stub, says which block it is;
\* one that decodes to wrong data has bits set where a descriptor has none.
Descriptor(u) ==
    IF u.kind \in {"slot", "stub"} /\ 2 * Cardinality({b \in Bytes : u.words[1][b] # 0}) <= Nsym
    THEN u ELSE NoTrailer

\* _scan_block_count, a candidate: the final block, or a second copy where there is no first.
CountAt(i) ==
    LET p == FirstCopyPosition(i)
        d == Descriptor(ReadAt(p + 2))
        n == p - d.idx
    IN  IF d = NoTrailer THEN 0
        ELSE IF d.idx = i /\ d.fin THEN i + 1
        ELSE IF d.idx < i /\ n \in 1 .. i /\ d.idx >= n - Distance /\ d.idx < n THEN n
        ELSE 0

ScanBlockCount ==
    LET reached == {i \in 0 .. MaxBlocks - 1 : FirstCopyPosition(i) + 2 <= Len(file)}
        telling == {i \in reached : CountAt(i) # 0}
    IN  IF telling = {} THEN 0 ELSE CountAt(CHOOSE i \in telling : \A j \in telling : i <= j)

\* _locate_end: the trailers where the size puts them, else where the blocks end.
LocateEnd ==
    LET size == Len(file)
        atEnd == ReadTrailers(size - 3, {n \in 0 .. MaxBlocks : ContainerSize(n) = size})
        count == ScanBlockCount
        scanned == ReadTrailers(1 + 2 * count, {count})
    IN  IF atEnd.trailer # NoTrailer
        THEN [trailer |-> atEnd.trailer, count |-> atEnd.trailer.blocks, meta |-> atEnd.meta]
        ELSE IF scanned.trailer # NoTrailer
        THEN [trailer |-> scanned.trailer, count |-> count, meta |-> scanned.meta]
        ELSE [trailer |-> NoTrailer, count |-> count, meta |-> {"trailer (both copies)"}]

\* unwrap_key: the key was wrapped under the passphrase and the header's other fields.
UnwrapKey(pass, header) == pass = "right" /\ header.fields = "sealed"

\* StreamReader(source, passphrase); a header that asks too much of Argon2id is refused.
Open(pass, mode) ==
    /\ w.state # "open" /\ r.phase = "closed"
    /\ LET found == LocateHeader
           end == LocateEnd
           refused(why) == r' = [NoReader EXCEPT !.phase = "done", !.mode = mode, !.result = why]
       IN  IF ~ IsHeader(found.header) THEN refused("not a container")
           ELSE IF found.header.fields = "greedy" THEN refused("unusable header")
           ELSE IF pass # "none" /\ ~ UnwrapKey(pass, found.header) THEN refused("passphrase")
           ELSE IF end.count = 0 THEN refused("cut short")
           ELSE IF pass = "none" /\ mode # "verify" THEN refused("needs the passphrase")
           ELSE r' = [NoReader EXCEPT !.phase = "reading", !.mode = mode,
                        !.key = pass # "none", !.count = end.count, !.trailer = end.trailer,
                        !.report.meta = found.meta \cup end.meta]
    /\ UNCHANGED <<w, file, faults, luck>>

-----------------------------------------------------------------------------
(* The reader goes through the slots. *)

\* schedule: the order in which the copies lie, position by position.
Order(n) ==
    LET step(k) == (IF k < n THEN <<[idx |-> k, first |-> TRUE]>> ELSE <<>>)
                   \o (IF k >= Distance THEN <<[idx |-> k - Distance, first |-> FALSE]>>
                       ELSE <<>>)
    IN  FlattenSeq([k \in 1 .. n + Distance |-> step(k - 1)])

\* _chunk_len, of data that is all of one block.
ChunkLen(data, i) ==
    /\ data.idx = i
    /\ data.fin = (i = r.count - 1)
    /\ ~ data.fin => data.len = Capacity
    /\ data.fin /\ r.trailer # NoTrailer => data.len = r.trailer.len

Clean(u, i) ==
    /\ u.kind = "slot" /\ u.own /\ u.tag = 0
    /\ \A c \in Codewords : Consistent(u, c)
    /\ ChunkLen(u, i)

StoredTag(u) == <<Identity(u), u.tag>>

AsSlot(u) == IF u.kind = "slot" THEN u ELSE Junk

\* _repair: the second copy, or both together; what was decoded must match a stored tag.
Repair(i, copies, pieces, second, rep) ==
    LET result == RepairFromCopies(copies, pieces)
        data == CHOOSE x \in result.data : TRUE
        known == \E u \in Range(copies) :
                    u.own /\ u.tag = 0 /\ \A c \in Codewords : data[c] = Identity(u)
        twice == Len(copies) = 2 /\ StoredTag(copies[1]) = StoredTag(copies[2])
        onlyB == second # <<>> /\ result.used = {Len(copies)}
    IN  IF second # <<>> /\ Clean(second[1], i)
        THEN [block |-> Identity(second[1]), rep |-> [rep EXCEPT !.usedB = @ + 1]]
        ELSE IF \/ copies = <<>>
                \/ result.data = {}
                \/ ~ ChunkLen(data[1], i)
                \/ ~ known /\ (result.decoded \/ twice)
        THEN [block |-> NoTrailer, rep |-> [rep EXCEPT !.failed = @ \cup {i}]]
        ELSE [block |-> IF \A c \in Codewords : data[c] = data[1] THEN data[1] ELSE Wrong,
              rep |-> [rep EXCEPT
                         !.unverified = IF known THEN @ ELSE @ \cup {i},
                         !.merged = IF Cardinality(result.used) > 1 THEN @ + 1 ELSE @,
                         !.usedB = IF onlyB /\ Cardinality(result.used) = 1 THEN @ + 1 ELSE @,
                         !.corrected = IF \/ Cardinality(result.used) > 1
                                          \/ onlyB /\ ~ result.decoded THEN @ ELSE @ + 1]]

\* _resolved: one slot.  A first copy that is not clean waits for its second one.
ReadSlot ==
    /\ r.phase = "reading" /\ r.pos < 2 * r.count /\ r.next \notin DOMAIN r.ready
    /\ LET at == Order(r.count)[r.pos + 1]
           i == at.idx
           u == ReadAt(r.pos + 2)
           raw == IF r.pos + 2 <= Len(file) /\ ~ IsStub(u) THEN <<AsSlot(u)>> ELSE <<>>
           rep == IF raw = <<>> THEN [r.report EXCEPT !.copies = 1] ELSE r.report
           clean == raw # <<>> /\ Clean(raw[1], i)
           waits == i \in DOMAIN r.waiting
           copies == r.waiting[i] \o raw
           spare == raw # <<>> /\ Clean(raw[1], i)
           without == [k \in DOMAIN r.waiting \ {i} |-> r.waiting[k]]
           plus(f, v) == [k \in DOMAIN f \cup {i} |-> IF k = i THEN v ELSE f[k]]
       IN  \/ /\ at.first /\ clean
              /\ r' = [r EXCEPT !.pos = @ + 1, !.report = [rep EXCEPT !.direct = @ + 1],
                                !.ready = plus(@, Identity(u)),
                                !.tags = IF r.mode = "chunks" THEN @ ELSE @ \cup {i}]
           \/ /\ at.first /\ ~ clean
              /\ r' = [r EXCEPT !.pos = @ + 1, !.report = rep, !.waiting = plus(@, raw)]
           \/ /\ ~ at.first /\ waits
              /\ \E pieces \in {Pieces(copies)} :
                    LET fixed == Repair(i, copies, pieces, raw, rep)
                    IN  r' = [r EXCEPT !.pos = @ + 1, !.report = fixed.rep, !.waiting = without,
                                       !.ready = plus(@, fixed.block)]
           \/ /\ ~ at.first /\ ~ waits
              /\ r' = [r EXCEPT !.pos = @ + 1, !.tags = @ \ {i},
                                !.report = IF r.mode = "chunks" \/ spare THEN rep
                                           ELSE [rep EXCEPT !.spares = @ \cup {i}]]
    /\ UNCHANGED <<w, file, faults, luck>>

\* Mutant: a chunk is not authenticated.
CipherOpensAny(block, i, last) == TRUE

\* ChunkCipher.open: the chunk, under the nonce of its place and of the last one.
CipherOpens(block, i, last) ==
    block.own /\ block.idx = i /\ block.fin = (i = last)

\* chunks and verify, the next block in order.
Yield ==
    /\ r.phase = "reading" /\ r.next \in DOMAIN r.ready
    /\ LET i == r.next
           block == r.ready[i]
           opens == block # NoTrailer /\ CipherOpens(block, i, r.count - 1)
           s == [r EXCEPT !.next = @ + 1,
                          !.digest = @ /\ (block = NoTrailer \/ block.own),
                          !.ready = [k \in DOMAIN r.ready \ {i} |-> r.ready[k]]]
           failed == [s EXCEPT !.report.failed = @ \cup {i}]
           done == [s EXCEPT !.report.unverified = @ \ {i}]
       IN  r' = IF r.mode = "verify"
                THEN IF block = NoTrailer \/ ~ r.key THEN s ELSE IF opens THEN done ELSE failed
                ELSE IF opens THEN [done EXCEPT !.out = Append(@, block)]
                     ELSE [failed EXCEPT !.phase = "done", !.result = "corrupted"]
    /\ UNCHANGED <<w, file, faults, luck>>

\* _pass, the end: the digest over the tags settles what no stored tag could.
Finish ==
    /\ r.phase = "reading" /\ r.pos = 2 * r.count /\ r.next = r.count
    /\ LET old == r.report
           rep == IF r.trailer = NoTrailer \/ old.failed # {} THEN old
                  ELSE IF r.digest THEN [old EXCEPT !.unverified = {}]
                  ELSE IF old.unverified # {}
                  THEN [old EXCEPT !.failed = old.unverified, !.unverified = {}]
                  ELSE [old EXCEPT !.problems = {"digest"}]
       IN  r' = [r EXCEPT !.phase = "done", !.report = rep,
                          !.result = IF rep.failed = {} /\ rep.problems = {} THEN "ok"
                                     ELSE "corrupted"]
    /\ UNCHANGED <<w, file, faults, luck>>

\* FileSource.read_at: the file cannot be read any more.
ReadFails ==
    /\ r.phase = "reading"
    /\ r' = [r EXCEPT !.phase = "done", !.result = "unreadable"]
    /\ UNCHANGED <<w, file, faults, luck>>

-----------------------------------------------------------------------------

Init ==
    /\ w = NewWriter
    /\ file = <<Header>>
    /\ faults = 0
    /\ luck \in BOOLEAN
    /\ r = NoReader

Next ==
    \/ \E n \in WriteSizes : Write(n)
    \/ Queue \/ Close \/ Abort
    \/ \E p \in Slots, d \in Damages : Damage(p, d)
    \/ \E p \in 1 .. Len(file) : Lose(p)
    \/ \E n \in 1 .. Len(file) - 1 : Truncate(n)
    \/ \E p \in Slots : TruncateInside(p)
    \/ Extend
    \/ \E p, q \in Slots : p < q /\ Swap(p, q)
    \/ \E p \in Slots : Foreign(p)
    \/ \E p \in 1 .. Len(file), f \in {"altered", "greedy"} : IsHeader(file[p]) /\ Reseal(p, f)
    \/ \E p \in 1 .. 2 * w.next : Burst(p)
    \/ \E pass \in Passphrases, mode \in Modes : Open(pass, mode)
    \/ ReadSlot \/ Yield \/ Finish \/ ReadFails

Spec == Init /\ [][Next]_vars

-----------------------------------------------------------------------------
(* Properties. *)

\* The file that a payload of that many bytes has, by the reader's schedule.
BlocksOf(bytes) == IF bytes = 0 THEN 1 ELSE (bytes + Capacity - 1) \div Capacity
AsScheduled(bytes) ==
    LET n == BlocksOf(bytes)
        last == bytes - (n - 1) * Capacity
        t == Trailer(n, bytes, last)
        at(x) == Slot(x.idx, x.idx = n - 1, IF x.idx = n - 1 THEN last ELSE Capacity)
    IN  <<Header>> \o [k \in 1 .. 2 * n |-> at(Order(n)[k])] \o <<t, t, Header>>

\* The writer's window puts every copy where the reader's schedule looks for
\* it, however the payload was cut into pieces, and only an empty payload has
\* an empty last block.
FileIsAsScheduled == w.state = "closed" /\ faults = 0 => file = AsScheduled(w.bytes)

\* Neither side holds more than the interleave distance and a batch.
MemoryFlat ==
    /\ Len(w.window) <= Distance /\ Len(w.batch) < BatchBlocks
    /\ Cardinality(DOMAIN r.waiting \cup DOMAIN r.ready) <= Distance + 1
    /\ Cardinality(r.tags) <= Distance + 1

\* Whatever happened to the file, what a reader hands out is the beginning of
\* what was written, and all of it when it ends without an error; the wrong
\* passphrase or a header that was changed yields nothing.
NeverWrong ==
    /\ \A k \in DOMAIN r.out :
          r.out[k] = Identity(Slot(k - 1, k = BlocksOf(w.bytes),
                                   IF k = BlocksOf(w.bytes)
                                   THEN w.bytes - (k - 1) * Capacity ELSE Capacity))
    /\ r.result = "ok" /\ r.mode # "verify"
          => w.state \in {"closed", "unfinished"} /\ Len(r.out) = BlocksOf(w.bytes)
    /\ r.result = "ok" /\ r.key /\ r.mode = "verify" => w.state \in {"closed", "unfinished"}
    /\ r.out # <<>> => LocateHeader.header = Header

\* StreamRepairReport.healed.
Healed(rep) ==
    rep.corrected + rep.usedB + rep.merged > 0 \/ rep.copies < 2 \/ rep.spares # {} \/ rep.meta # {}

\* Every unit is lost, or the one that was written there, damaged or not.
Unmoved ==
    \A p \in DOMAIN file \cap DOMAIN AsScheduled(w.bytes) :
        LET u == AsScheduled(w.bytes)[p]
        IN  \/ file[p] \in {Junk, u}
            \/ {u.kind, file[p].kind} = {"slot"} /\ [u EXCEPT !.words = file[p].words, !.tag = file[p].tag] = file[p]

\* CLEAN is said only of a file that is, byte for byte, the one that was
\* written; without the passphrase, of what damage alone did to it.
CleanIsClean ==
    r.result = "ok" /\ r.mode # "chunks" /\ ~ Healed(r.report) /\ (r.key \/ Unmoved)
        => file = AsScheduled(w.bytes)

Copies(i) == {p \in Slots : p - 1 \in {k \in 1 .. 2 * w.next : Order(w.next)[k].idx = i}}
Errors(p, c) == {b \in Bytes : file[p].words[c][b] # 0}
Within(p, c) == 2 * Cardinality(Errors(p, c)) <= Nsym
Differing(p, q, c) == {b \in Bytes : file[p].words[c][b] # file[q].words[c][b]}

\* Every codeword survives in a copy, or the copies differ in few of its bytes
\* and agree on no wrong one; and a tag is left to check the outcome with, or
\* nothing had to be decoded.
Recoverable(i) ==
    LET P == Copies(i)
    IN  /\ \A c \in Codewords :
             \/ \E p \in P : Within(p, c)
             \/ \E p, q \in P : /\ p < q
                                /\ Cardinality(Differing(p, q, c)) <= Nsym
                                /\ Errors(p, c) \subseteq Differing(p, q, c)
        /\ \/ \E p \in P : file[p].tag = 0
           \/ /\ \A c \in Codewords : \E p \in P : Errors(p, c) = {}
              /\ \E p, q \in P : file[p].tag # file[q].tag

MetadataLeft == IsHeader(file[1]) \/ IsHeader(file[Len(file)])

\* The reader had the passphrase of the container, or did not need it, and could read the file.
Unlocked == r.result \notin {"needs the passphrase", "passphrase", "unreadable"}

\* Damage to the slots that leaves every block recoverable is healed, whichever
\* copies it hit, when a header is left.
RecoverableIsRecovered ==
    (/\ r.phase = "done" /\ w.state = "closed" /\ ~ luck /\ Unlocked
     /\ Len(file) = ContainerSize(w.next) /\ Unmoved /\ MetadataLeft
     /\ \E k \in {2, 3} : file[2 * w.next + k].kind = "trailer"
     /\ \A i \in 0 .. w.next - 1 : Recoverable(i))
        => r.result = "ok"

\* A burst no longer than the container says it tolerates is healed wherever it
\* falls, the metadata beside it included.
BurstIsHealed == r.phase = "done" /\ Unlocked /\ w.state = "closed" => r.result = "ok"

\* A file cut after the first copy of its last block is read to the end: its
\* block count comes from the blocks.
CutIsRead ==
    (/\ r.phase = "done" /\ w.state = "closed" /\ Unlocked
     /\ LET kept == IF IsStub(Last(file)) THEN Front(file) ELSE file
        IN  /\ IsPrefix(kept, AsScheduled(w.bytes))
            /\ Len(kept) >= FirstCopyPosition(w.next - 1) + 2)
        => r.result = "ok"
=============================================================================
