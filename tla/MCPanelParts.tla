---------------------------- MODULE MCPanelParts -----------------------------
(* The parts of the Django app and of the command line that work on their
   own, checked in one run.  A behaviour is a behaviour of one part, named by
   part, on one of its instances: the states of the run are the sum of the
   states of the parts, and the variables v1, v2, ... stand for the variables
   of that part. *)
EXTENDS Integers, Sequences, FiniteSets, TLC

CONSTANTS None, Never, Unreadable

VARIABLES
    part,   \* the part of the system this behaviour is of
    v1, v2, v3, v4, v5, v6, v7, v8, v9, v10, v11, v12, v13, v14, v15, v16,
    v17, v18, v19, v20   \* its variables, in its own order

vars == <<part, v1, v2, v3, v4, v5, v6, v7, v8, v9, v10, v11, v12, v13, v14, v15, v16, v17, v18, v19, v20>>

Nothing == "none"
NoRow == <<>>

\* Backup: shelves and the books on them, covers, and a file of a root.
S(n) == <<"shelf", n>>
B(n) == <<"book", n>>
Stored(ref, name, tags) == [ref |-> ref, file |-> name, tags |-> tags]
Library == S(1) :> Stored(NoRow, Nothing, {}) @@ S(3) :> Stored(NoRow, Nothing, {})
           @@ B(1) :> Stored(S(1), "c1", {"t"}) @@ B(2) :> Stored(S(3), Nothing, {})
           @@ B(4) :> Stored(NoRow, "c4", {})
Covers == ("c1" :> <<1, 2>>) @@ ("c4" :> <<3>>) @@ ("r" :> <<4>>)
Arrivals == S(2) :> Stored(NoRow, Nothing, {}) @@ B(3) :> Stored(S(2), "c4", {})
Small == [k \in {S(1), S(2), S(3), B(1), B(2), B(3), B(4)} |->
             IF k = B(1) THEN 5 ELSE IF k = B(2) THEN 4 ELSE 2]
Big == [Small EXCEPT ![B(3)] = 9]

\* ModelOrder: three models, any inheritance without a cycle.
Models == {"a", "b", "c"}
Acyclic(f) == ~ \E m \in Models : m \in f[m] \cup UNION {f[x] \cup UNION {f[y] : y \in f[x]} : x \in f[m]}
Inheritances == {f \in [Models -> SUBSET Models] : Acyclic(f)}
ForeignKeys == {f \in [Models -> SUBSET Models] :
                   Cardinality({e \in Models \X Models : e[2] \in f[e[1]]}) <= 3 /\ \A m \in {"b", "c"} : m \notin f[m]}

\* StreamContainer: damage to the codewords of a block, alone or with its tag.
Errs(D, v) == [b \in 0 .. 3 |-> IF b \in D THEN v ELSE 0]
Hit(one, two, tag) == [words |-> <<one, two>>, tag |-> tag]
SomeDamages ==
    {Hit(Errs({0, 1}, 1), Errs({}, 1), 0), Hit(Errs({}, 1), Errs({1, 2}, 1), 1),
     Hit(Errs({0, 1, 2, 3}, 1), Errs({0, 1, 2, 3}, 1), 1)}

\* Upgrade: what a project may still have to do, what is asked, and releases.
Facts ==
    {"not_installed", "no_state", "no_graph", "unmigrated", "no_table", "schedule_on",
     "interval_setting", "command_mode", "off_mode", "unknown_mode", "uwsgi_no_threads",
     "no_folder", "folder_read_only", "module_missing", "extras_named", "no_admin",
     "guard_too_early", "no_guard", "proxies_number", "trusts_forwarded", "proxies_named",
     "excludes_restated", "no_passphrase", "file_roots", "restore_roots_empty", "path_map_bad",
     "path_map_outside", "kdf_too_high", "claude_folder", "ai_stale", "ai_unreadable",
     "client_config", "push_settings", "stored_targets", "keep_setting", "keep_row",
     "contrib_urls", "old_command", "old_partials", "jobs_inside", "limits_bad",
     "no_settings_module", "no_interpreter", "mysql", "packets_unread", "small_packets", "sqlite",
     "journal_unread", "in_memory", "not_wal", "deferred"}
Pairs ==
    {{"claude_folder", "ai_stale"}, {"claude_folder", "ai_unreadable"}, {"mysql", "small_packets"},
     {"sqlite", "deferred"}, {"sqlite", "in_memory"}, {"file_roots", "restore_roots_empty"},
     {"trusts_forwarded", "proxies_named"}, {"unmigrated", "no_table", "keep_row", "stored_targets"}}
AnyFact == {{}} \cup {{f} : f \in Facts} \cup {{f, "unmigrated"} : f \in Facts} \cup Pairs
           \cup {p \cup {"unmigrated"} : p \in Pairs}
Asked(check, self, to, offline, system, backups) ==
    [check |-> check, self |-> self, to |-> to, offline |-> offline, system |-> system,
     backups |-> backups]
Plainly == {Asked(c, FALSE, None, TRUE, FALSE, b) : c \in BOOLEAN, b \in {"none", "missing"}}
ToConvert == {Asked(c, FALSE, None, TRUE, FALSE, "folder") : c \in BOOLEAN}
V(a, b, c, p) == [major |-> a, minor |-> b, patch |-> c, pre |-> p]
OneRelease == {V(0, 8, 0, 0)}
Finals == {V(0, 8, 9, 0), V(0, 8, 10, 0), V(0, 9, 0, 0), V(1, 0, 0, 0)}
ToUpdate ==
    {Asked(FALSE, TRUE, t, f, s, "none") : t \in Finals \cup {None, Unreadable}, f, s \in BOOLEAN}
    \cup {Asked(TRUE, s, t, FALSE, FALSE, "none") : s \in BOOLEAN, t \in {None} \cup Finals}

\* Restore: the files, the payloads, whole and damaged, and the projects they
\* are restored into.
Rec(key, val, ref, by, tags, name) ==
    [key |-> key, val |-> val, ref |-> ref, by |-> by, tags |-> tags, file |-> name, bad |-> FALSE]
Row(val, note, ref, name) ==
    [val |-> val, note |-> note, ref |-> ref, by |-> Nothing, tags |-> {}, file |-> name]


FileEntry(kind, field, row, root, name) ==
    [kind |-> kind, field |-> field, row |-> row, root |-> root, name |-> name]
OldCover == FileEntry("path", Nothing, B(1), <<>>, <<"old", "sub", "c1">>)
Cover == FileEntry("storage", "cover", B(2), <<>>, <<"c2">>)
Scan == FileEntry("storage", "scan", B(2), <<>>, <<"s2">>)
Loose == FileEntry("root", Nothing, <<>>, <<"srv">>, <<"deep", "r1">>)
Sly == FileEntry("storage", "cover", B(1), <<>>, <<"link", "p">>)
Lost == FileEntry("root", Nothing, <<>>, <<"srv">>, <<"lost">>)
Linked == FileEntry("root", Nothing, <<>>, <<"srv">>, <<"link", "r2">>)
Gone == FileEntry("storage", "picture", B(1), <<>>, <<"p">>)
Escaping == FileEntry("storage", "cover", B(1), <<>>, <<"..", "p">>)
Odd == FileEntry("device", Nothing, <<>>, <<>>, <<"p">>)
InTheWay == FileEntry("root", Nothing, <<>>, <<"srv">>, <<"taken">>)

Header(labels) == [kind |-> "header", order |-> labels, hash |-> <<>>]
Manifest(es) == [kind |-> "manifest", entries |-> es]
Data(n, chunk) == [kind |-> "data", index |-> n, chunk |-> chunk]
End(n, digest) == [kind |-> "end", index |-> n, digest |-> digest, skipped |-> FALSE]
Skip(n) == [kind |-> "end", index |-> n, digest |-> <<>>, skipped |-> TRUE]
Records(rs) == [kind |-> "records", rows |-> rs]
Trailer(models, records, files) ==
    [kind |-> "trailer", models |-> models, records |-> records, files |-> files]
Sealed(p) == [p EXCEPT ![1].hash = Tail(p)]

ShelfRecs == <<Rec(S(1), "new", NoRow, Nothing, {}, <<>>), Rec(S(3), "new", NoRow, Nothing, {}, <<>>)>>
BookRecs == <<Rec(B(1), "new", S(1), "k1", {"k1", "k9"}, <<"old", "sub", "c1">>),
              Rec(B(2), "new", S(3), Nothing, {}, <<"c2">>)>>

Plain == Sealed(<<Header(<<"shelf", "book">>), Manifest(<<OldCover>>), Manifest(<<Cover>>),
                  Data(1, <<1>>), Data(1, <<2>>), End(1, <<1, 2>>), Data(2, <<3>>), End(2, <<3>>),
                  Records(ShelfRecs), Records(BookRecs), Trailer([shelf |-> 2, book |-> 2], 4, 2)>>)
Mixed == Sealed(<<Header(<<"shelf", "lamp", "book">>), Manifest(<<Scan, Loose, Lost>>),
                  Data(1, <<1>>), End(1, <<1>>), Data(2, <<2>>), End(2, <<2>>), Data(3, <<3>>), Skip(3),
                  Records(<<ShelfRecs[1], Rec(<<"lamp", 1>>, "new", NoRow, Nothing, {}, <<>>)>>),
                  Records(<<Rec(B(2), "new", S(1), Nothing, {}, <<"s2">>)>>),
                  Trailer([shelf |-> 1, lamp |-> 1, book |-> 1], 3, 2)>>)
WithEntry(e) == Sealed(<<Header(<<"shelf">>), Manifest(<<e>>), Data(1, <<1>>), End(1, <<1>>),
                         Records(ShelfRecs), Trailer([shelf |-> 2], 2, 1)>>)
Unread == {Sealed(<<Header(<<"shelf", "book">>), Records(rs), Trailer([m \in {rs[1].key[1]} |-> 1], 1, 0)>>) :
              rs \in {<<Rec(B(1), "new", S(9), Nothing, {}, <<>>)>>,
                      <<Rec(B(1), "new", S(2), "k9", {}, <<>>)>>,
                      <<[ShelfRecs[1] EXCEPT !.bad = TRUE]>>,
                      <<Rec(B(2), "new", S(2), Nothing, {}, <<>>)>>}}
Empty == Sealed(<<Header(<<>>), Trailer(<<>>, 0, 0)>>)
Unordered == Sealed(<<Header(<<>>), Records(BookRecs \o ShelfRecs), Trailer([shelf |-> 2, book |-> 2], 4, 0)>>)

\* A payload that was cut, reordered, repeated or changed.
Drop(p, i) == SubSeq(p, 1, i - 1) \o SubSeq(p, i + 1, Len(p))
Twice(p, i) == SubSeq(p, 1, i) \o SubSeq(p, i, Len(p))
Swapped(p, i) == [p EXCEPT ![i] = p[i + 1], ![i + 1] = p[i]]
Changed(p, i) == IF p[i].kind = "data" THEN [p EXCEPT ![i].chunk = <<9>>]
                 ELSE [p EXCEPT ![i] = [kind |-> "unknown"]]
Damaged(p) == {Drop(p, i) : i \in DOMAIN p} \cup {Twice(p, i) : i \in DOMAIN p}
              \cup {Swapped(p, i) : i \in 1 .. Len(p) - 1} \cup {Changed(p, i) : i \in DOMAIN p}
              \cup {SubSeq(p, 1, i) : i \in 0 .. Len(p) - 1}

Whole == {Plain, Mixed, Empty} \cup Unread
          \cup {WithEntry(e) : e \in {Loose, Linked, Sly, Gone, Escaping, Odd, InTheWay}}
Broken == Damaged(Plain)
Old == {Plain, Unordered, Sealed(Changed(Plain, 4)), Drop(Plain, 9), WithEntry(Odd), WithEntry(Scan)}

Opts(modes, data, files, flush, old) ==
    [mode : modes, data : data, files : files, flush : flush, v1 : old]
Ways == Opts({"restore", "dry"}, BOOLEAN, BOOLEAN, BOOLEAN, {FALSE})
OldWays == Opts({"restore", "dry", "validate"}, BOOLEAN, BOOLEAN, BOOLEAN, {TRUE})
Reads == Opts({"restore", "validate"}, BOOLEAN, BOOLEAN, {FALSE}, {FALSE})

Counter(n, c) == [last |-> n, called |-> c]
Fresh == [db |-> <<>>, seq |-> [shelf |-> Counter(1, FALSE), book |-> Counter(1, FALSE)],
          disk |-> <<>>, dirs |-> {<<"srv">>, <<"media">>}, remote |-> <<>>]
Used == [db |-> S(1) :> Row("live", "kept", NoRow, <<>>) @@ S(2) :> Row("live", "kept", NoRow, <<>>)
               @@ S(4) :> Row("live", "kept", NoRow, <<>>)
               @@ B(1) :> Row("live", "kept", S(2), <<"c1">>) @@ B(3) :> Row("live", "kept", S(4), <<>>),
         seq |-> [shelf |-> Counter(4, TRUE), book |-> Counter(3, TRUE)],
         disk |-> (<<"media", "c2">> :> <<7>>) @@ (<<"out", "x">> :> <<8>>),
         dirs |-> {<<"srv">>, <<"media">>, <<"new">>, <<"out">>, <<"srv", "deep">>},
         remote |-> (<<"s2">> :> <<6>>)]
Mapping == (<<"old">> :> <<"out">>) @@ (<<"old", "sub">> :> <<"new">>)
SomeLinks == (<<"srv", "link">> :> <<"out">>) @@ (<<"media", "link">> :> <<"out">>)

\* A backup in one transaction, while rows and files come and go.
BackupPinned == INSTANCE Backup WITH
    Order <- <<"shelf", "book">>, Pinned <- TRUE, Base <- Library, BaseFiles <- Covers,
    RootFiles <- {"r"}, NewRows <- Arrivals, Size <- Small, Heavy <- {"book"}, RecordRows <- 2,
    Budget <- 9, Limit <- 10, FetchTarget <- 12, ListedRows <- 2, ManifestBatch <- 2,
    AllowMissing <- TRUE, Verify <- TRUE, MaxWrites <- 2,
    db <- v1, files <- v2, snap <- v3, stayed <- v4, pc <- v5, model <- v6, last <- v7, size <- v8,
    page <- v9, batch <- v10, count <- v11, sources <- v12, skipped <- v13, hand <- v14,
    payload <- v15, dest <- v16, bad <- v17, result <- v18, writes <- v19

\* A backup without a snapshot, with a row beyond the limit.
BackupLive == INSTANCE Backup WITH
    Order <- <<"shelf", "book">>, Pinned <- FALSE, Base <- Library, BaseFiles <- Covers,
    RootFiles <- {"r"}, NewRows <- Arrivals, Size <- Big, Heavy <- {"book"}, RecordRows <- 3,
    Budget <- 9, Limit <- 10, FetchTarget <- 12, ListedRows <- 2, ManifestBatch <- 2,
    AllowMissing <- TRUE, Verify <- FALSE, MaxWrites <- 2,
    db <- v1, files <- v2, snap <- v3, stayed <- v4, pc <- v5, model <- v6, last <- v7, size <- v8,
    page <- v9, batch <- v10, count <- v11, sources <- v12, skipped <- v13, hand <- v14,
    payload <- v15, dest <- v16, bad <- v17, result <- v18, writes <- v19

\* A backup that refuses missing files.
BackupStrict == INSTANCE Backup WITH
    Order <- <<"shelf", "book">>, Pinned <- TRUE, Base <- Library, BaseFiles <- Covers,
    RootFiles <- {"r"}, NewRows <- Arrivals, Size <- Small, Heavy <- {"book"}, RecordRows <- 2,
    Budget <- 9, Limit <- 10, FetchTarget <- 12, ListedRows <- 2, ManifestBatch <- 2,
    AllowMissing <- FALSE, Verify <- TRUE, MaxWrites <- 1,
    db <- v1, files <- v2, snap <- v3, stayed <- v4, pc <- v5, model <- v6, last <- v7, size <- v8,
    page <- v9, batch <- v10, count <- v11, sources <- v12, skipped <- v13, hand <- v14,
    payload <- v15, dest <- v16, bad <- v17, result <- v18, writes <- v19

\* The threads of a backup, each of which may fail.
PipelineBackup == INSTANCE Pipeline WITH
    Mode <- "backup", Compressing <- TRUE, Frames <- <<<<1>>, <<2>>>>, SegmentBytes <- 2,
    Capacity <- 2, HeldBytes <- 1, MayFail <- {"main", "compress", "encode", "sink", "deflate"},
    th <- v1, chan <- v2, waiters <- v3, stopped <- v4, failure <- v5, jobs <- v6, feed <- v7,
    out <- v8, sound <- v9, causes <- v10, result <- v11

\* The same without compression.
PipelinePlain == INSTANCE Pipeline WITH
    Mode <- "backup", Compressing <- FALSE, Frames <- <<<<1>>, <<2, 3>>>>, SegmentBytes <- 2,
    Capacity <- 2, HeldBytes <- 0, MayFail <- {"main", "sink"},
    th <- v1, chan <- v2, waiters <- v3, stopped <- v4, failure <- v5, jobs <- v6, feed <- v7,
    out <- v8, sound <- v9, causes <- v10, result <- v11

\* The threads of a restore.
PipelineRestore == INSTANCE Pipeline WITH
    Mode <- "restore", Compressing <- TRUE, Frames <- <<<<1>>, <<2, 3>>>>, SegmentBytes <- 2,
    Capacity <- 2, HeldBytes <- 1, MayFail <- {"main", "decode", "read"},
    th <- v1, chan <- v2, waiters <- v3, stopped <- v4, failure <- v5, jobs <- v6, feed <- v7,
    out <- v8, sound <- v9, causes <- v10, result <- v11

\* The order of the models of a backup, from any inheritance and references.
Ordering == INSTANCE ModelOrder WITH
    Listed <- <<"a", "b", "c">>, Parents <- Inheritances, References <- ForeignKeys,
    Requests <- {<<>>, <<"c", "a">>}, Proxies <- {}, Unmanaged <- {"b"}, Excluded <- {"a", "b"},
    Reincluded <- {"b"},
    parents <- v1, refs <- v2, chosen <- v3, configs <- v4, children <- v5, pending <- v6,
    remaining <- v7, sweep <- v8, progressed <- v9, ordered <- v10, pc <- v11

\* A container written in any pieces, and a burst of any length the layout
\* promises to heal.
StreamBurst == INSTANCE StreamContainer WITH
    Distance <- 2, Capacity <- 2, BatchBlocks <- 2, MaxBlocks <- 7, Codewords <- {1, 2},
    Bytes <- 0 .. 3, Nsym <- 2, WriteSizes <- {0, 1, 4, 7}, MaxPayload <- 14, Damages <- {},
    Faults <- {"burst"}, MaxFaults <- 1, Modes <- {"spares", "verify"}, Passphrases <- {"right"},
    w <- v1, file <- v2, faults <- v3, luck <- v4, r <- v5

\* Two faults of a container: damaged codewords, lost units, a cut or grown
\* file, blocks swapped, from another container or sealed anew.
StreamDamage == INSTANCE StreamContainer WITH
    Distance <- 2, Capacity <- 2, BatchBlocks <- 2, MaxBlocks <- 3, Codewords <- {1, 2},
    Bytes <- 0 .. 3, Nsym <- 2, WriteSizes <- {5}, MaxPayload <- 5, Damages <- SomeDamages,
    Faults <- {"slot", "unit", "cut", "longer", "swap", "foreign", "reseal"}, MaxFaults <- 2,
    Modes <- {"chunks"}, Passphrases <- {"right"},
    w <- v1, file <- v2, faults <- v3, luck <- v4, r <- v5

\* Two faults of a shorter one, read or verified.
StreamVerified == INSTANCE StreamContainer WITH
    Distance <- 2, Capacity <- 2, BatchBlocks <- 2, MaxBlocks <- 3, Codewords <- {1, 2},
    Bytes <- 0 .. 3, Nsym <- 2, WriteSizes <- {3}, MaxPayload <- 3, Damages <- SomeDamages,
    Faults <- {"slot", "unit", "cut", "longer", "swap", "foreign", "reseal"}, MaxFaults <- 2,
    Modes <- {"verify"}, Passphrases <- {"right"},
    w <- v1, file <- v2, faults <- v3, luck <- v4, r <- v5

\* One fault, with every passphrase, read or verified.
StreamLocked == INSTANCE StreamContainer WITH
    Distance <- 2, Capacity <- 2, BatchBlocks <- 2, MaxBlocks <- 3, Codewords <- {1, 2},
    Bytes <- 0 .. 3, Nsym <- 2, WriteSizes <- {5}, MaxPayload <- 5, Damages <- SomeDamages,
    Faults <- {"slot", "unit", "cut", "longer", "swap", "foreign", "reseal"}, MaxFaults <- 1,
    Modes <- {"chunks", "verify"}, Passphrases <- {"right", "wrong", "none"},
    w <- v1, file <- v2, faults <- v3, luck <- v4, r <- v5

\* A file of the vault, read back after damage and key rotation.
VaultFile == INSTANCE SealedFile WITH
    Chunk <- 2, MaxLength <- 3, MaxFaults <- 2,
    length <- v1, key <- v2, held <- v3, file <- v4, index <- v5, pos <- v6, phase <- v7,
    context <- v8, rest <- v9, out <- v10, faults <- v11

\* Restores of whole payloads, with a fault at any step.
RestoreWhole == INSTANCE Restore WITH
    Payloads <- Whole, Options <- Ways, Targets <- {Fresh, Used}, KnownModels <- {"shelf", "book"},
    OwnOrder <- <<"shelf", "book">>, WholeTables <- {"book"}, Selected <- {S(1), S(2)}, NaturalKeys <- "k1" :> "id1",
    FileStorages <- [cover |-> "local", scan |-> "remote"], Location <- <<"media">>,
    Roots <- {<<"srv">>, <<"new">>}, PathMap <- Mapping, Links <- SomeLinks,
    Blocked <- {<<"srv", "taken">>}, MaxFaults <- 1,
    pc <- v1, opt <- v2, payload <- v3, at <- v4, order <- v5, entries <- v6, placements <- v7,
    file <- v8, staged <- v9, db <- v10, tx <- v11, seq <- v12, disk <- v13, dirs <- v14,
    remote <- v15, temps <- v16, out <- v17, faults <- v18, first <- v19, forecast <- v20

\* Restores of damaged payloads.
RestoreBroken == INSTANCE Restore WITH
    Payloads <- Broken, Options <- Reads, Targets <- {Fresh, Used},
    KnownModels <- {"shelf", "book"}, OwnOrder <- <<"shelf", "book">>,
    WholeTables <- {"book"}, Selected <- {S(1), S(2)},
    NaturalKeys <- "k1" :> "id1", FileStorages <- [cover |-> "local", scan |-> "remote"],
    Location <- <<"media">>, Roots <- {<<"srv">>, <<"new">>}, PathMap <- Mapping,
    Links <- SomeLinks, Blocked <- {<<"srv", "taken">>}, MaxFaults <- 0,
    pc <- v1, opt <- v2, payload <- v3, at <- v4, order <- v5, entries <- v6, placements <- v7,
    file <- v8, staged <- v9, db <- v10, tx <- v11, seq <- v12, disk <- v13, dirs <- v14,
    remote <- v15, temps <- v16, out <- v17, faults <- v18, first <- v19, forecast <- v20

\* Restores of the first format.
RestoreOld == INSTANCE Restore WITH
    Payloads <- Old, Options <- OldWays, Targets <- {Fresh, Used}, KnownModels <- {"shelf", "book"},
    OwnOrder <- <<"shelf", "book">>, WholeTables <- {"book"}, Selected <- {S(1), S(2)}, NaturalKeys <- "k1" :> "id1",
    FileStorages <- [cover |-> "local", scan |-> "remote"], Location <- <<"media">>,
    Roots <- {<<"srv">>, <<"new">>}, PathMap <- Mapping, Links <- SomeLinks,
    Blocked <- {<<"srv", "taken">>}, MaxFaults <- 1,
    pc <- v1, opt <- v2, payload <- v3, at <- v4, order <- v5, entries <- v6, placements <- v7,
    file <- v8, staged <- v9, db <- v10, tx <- v11, seq <- v12, disk <- v13, dirs <- v14,
    remote <- v15, temps <- v16, out <- v17, faults <- v18, first <- v19, forecast <- v20

\* OldBackup: damage within the parity, to the data, beyond the correction in
\* two ways and everywhere; and what an old backup may hold.
OldWord(hit, v) == [i \in 1 .. 4 |-> IF i \in hit THEN v ELSE 0]
OldDamages == {OldWord({1}, 1), OldWord({3, 4}, 1), OldWord({1, 2}, 1), OldWord({1, 2}, 2),
               OldWord({1, 3}, 1), OldWord({1, 2, 3, 4}, 1)}
OldRow(model, size) == [model |-> model, size |-> size]
OldRows == <<OldRow("book", 2), OldRow("lamp", 2), OldRow("shelf", 1), OldRow("book", 3),
             OldRow("book", 1), OldRow("book", 1)>>
OldFiles == {<<[content |-> <<1, 2, 3>>, sound |-> TRUE], [content |-> <<>>, sound |-> TRUE],
                     [content |-> <<4>>, sound |-> TRUE]>>,
             <<[content |-> <<1>>, sound |-> TRUE], [content |-> <<2>>, sound |-> FALSE]>>}
OldRecords == {OldRows, Append(OldRows, OldRow("lamp", 1)), Append(OldRows, OldRow("shelf", 9)),
               <<OldRow("lamp", 1), OldRow("vase", 1), OldRow("lamp", 1)>>,
               [i \in 1 .. 5 |-> OldRow(IF i = 1 THEN "book" ELSE "shelf", 1)]}
OldDocuments == [order : {<<>>, <<"shelf", "book">>, <<"shelf", "lamp", "book", "vase">>},
                 records : OldRecords, files : OldFiles]
OldEmpty == {[order |-> <<>>, records |-> <<>>, files |-> <<>>]}

\* A container of the first format, damaged three times.
OldContainer == INSTANCE OldBackup WITH
    Symbols <- 4, Nsym <- 2, Words <- 2, Blocks <- 1, Patterns <- OldDamages, MaxFaults <- 3,
    Documents <- OldEmpty, OwnOrder <- <<"shelf", "book">>, BatchRows <- 3, FrameLimit <- 4,
    ManifestBatch <- 2, ChunkSize <- 2,
    file <- v1, luck <- v2, pc <- v3, block <- v4, report <- v5, doc <- v6, frames <- v7,
    batches <- v8, faults <- v9

\* The conversion of any of these, read after damage to one of two blocks.
OldContent == INSTANCE OldBackup WITH
    Symbols <- 4, Nsym <- 2, Words <- 1, Blocks <- 2, Patterns <- {OldWord({1, 2}, 1)},
    MaxFaults <- 1, Documents <- OldDocuments,
    OwnOrder <- <<"shelf", "book">>, BatchRows <- 3, FrameLimit <- 4,
    ManifestBatch <- 2, ChunkSize <- 2,
    file <- v1, luck <- v2, pc <- v3, block <- v4, report <- v5, doc <- v6, frames <- v7,
    batches <- v8, faults <- v9

\* dbs_upgrade on projects with one thing to do, or with one and no migrations.
UpgradeSteps == INSTANCE Upgrade WITH
    Projects <- AnyFact, Commands <- {"c1"}, Asks <- Plainly, NoVersion <- None,
    NotOne <- Unreadable, Old <- {}, Copies <- {1}, Places <- {"venv"},
    Versions <- OneRelease, Links <- TRUE, MaxCrashes <- 0,
    facts <- v1, cmd <- v2, disk <- v3, reads <- v4, installed <- v5, latest <- v6, place <- v7,
    crashes <- v8

\* Two commands converting a backup of the first format, and a crash.
UpgradeBackups == INSTANCE Upgrade WITH
    Projects <- {{}}, Commands <- {"c1", "c2"}, Asks <- ToConvert, NoVersion <- None,
    NotOne <- Unreadable, Old <- {"o1"}, Copies <- {1, 2}, Places <- {"venv"},
    Versions <- OneRelease, Links <- TRUE, MaxCrashes <- 1,
    facts <- v1, cmd <- v2, disk <- v3, reads <- v4, installed <- v5, latest <- v6, place <- v7,
    crashes <- v8

\* The same where the folder has no hard links, without a crash.
UpgradeNoLinks == INSTANCE Upgrade WITH
    Projects <- {{}}, Commands <- {"c1", "c2"}, Asks <- ToConvert, NoVersion <- None,
    NotOne <- Unreadable, Old <- {"o1"}, Copies <- {1, 2}, Places <- {"venv"},
    Versions <- OneRelease, Links <- FALSE, MaxCrashes <- 0,
    facts <- v1, cmd <- v2, disk <- v3, reads <- v4, installed <- v5, latest <- v6, place <- v7,
    crashes <- v8

\* The comparison of the installed release with the latest.
UpgradeRelease == INSTANCE Upgrade WITH
    Projects <- {{}}, Commands <- {"c1"}, Asks <- ToUpdate, NoVersion <- None,
    NotOne <- Unreadable, Old <- {}, Copies <- {1}, Places <- {"venv", "system", "checkout"},
    Versions <- Finals, Links <- TRUE, MaxCrashes <- 0,
    facts <- v1, cmd <- v2, disk <- v3, reads <- v4, installed <- v5, latest <- v6, place <- v7,
    crashes <- v8

\* Two sessions, a request of each at a time, two networks.
Guard == INSTANCE SessionGuard WITH
    Keys <- {"k1", "k2"}, Reqs <- {"q1", "q2"}, Nets <- {"n1", "n2"}, Agents <- {"a1"},
    Kinds <- {"destroy"}, Trusted <- {"n1"}, Expected <- {}, ModelScores <- {0, 85}, Travels <- {0},
    WarnAt <- 60, LogoutAt <- 85, LearningLogins <- 0, IdleTimeout <- 0, Resolution <- 1,
    Enforce <- TRUE, Many <- FALSE, MaxClock <- 0,
    ses <- v1, req <- v2, events <- v3, recent <- v4, locked <- v5, clock <- v6, real <- v7,
    warned <- v8, blocked <- v9, overtaken <- v10

\* The rules while the guard learns and only watches.
GuardRules == INSTANCE SessionGuard WITH
    Keys <- {"k1", "k2"}, Reqs <- {"q1"}, Nets <- {"n1", "n2"}, Agents <- {"a1"},
    Kinds <- {"destroy", "download", "poll"}, Trusted <- {}, Expected <- {"n1"},
    ModelScores <- {0, 60, 85}, Travels <- {0, 60}, WarnAt <- 60, LogoutAt <- 85,
    LearningLogins <- 2, IdleTimeout <- 0, Resolution <- 1, Enforce <- FALSE,
    Many <- FALSE, MaxClock <- 0,
    ses <- v1, req <- v2, events <- v3, recent <- v4, locked <- v5, clock <- v6, real <- v7,
    warned <- v8, blocked <- v9, overtaken <- v10

\* More requests than a new one is compared with, so that a network is forgotten.
GuardMany == INSTANCE SessionGuard WITH
    Keys <- {"k1", "k2"}, Reqs <- {"q1"}, Nets <- {"n1", "n2"}, Agents <- {"a1"},
    Kinds <- {"destroy", "view"}, Trusted <- {}, Expected <- {}, ModelScores <- {0}, Travels <- {0},
    WarnAt <- 60, LogoutAt <- 85, LearningLogins <- 0, IdleTimeout <- 0, Resolution <- 1,
    Enforce <- TRUE, Many <- TRUE, MaxClock <- 0,
    ses <- v1, req <- v2, events <- v3, recent <- v4, locked <- v5, clock <- v6, real <- v7,
    warned <- v8, blocked <- v9, overtaken <- v10

\* Two sessions, one request at a time: the flag, the warning and the idle time.
GuardOne == INSTANCE SessionGuard WITH
    Keys <- {"k1", "k2"}, Reqs <- {"q1"}, Nets <- {"n1"}, Agents <- {"a1"},
    Kinds <- {"write", "download", "poll"}, Trusted <- {}, Expected <- {}, ModelScores <- {0, 60},
    Travels <- {0}, WarnAt <- 60, LogoutAt <- 85, LearningLogins <- 0, IdleTimeout <- 2,
    Resolution <- 1, Enforce <- TRUE, Many <- FALSE, MaxClock <- 3,
    ses <- v1, req <- v2, events <- v3, recent <- v4, locked <- v5, clock <- v6, real <- v7,
    warned <- v8, blocked <- v9, overtaken <- v10

\* One session whose requests overlap.
GuardTwo == INSTANCE SessionGuard WITH
    Keys <- {"k1"}, Reqs <- {"q1", "q2"}, Nets <- {"n1"}, Agents <- {"a1"},
    Kinds <- {"write", "poll"}, Trusted <- {}, Expected <- {}, ModelScores <- {0, 60},
    Travels <- {0}, WarnAt <- 60, LogoutAt <- 85, LearningLogins <- 0, IdleTimeout <- 1,
    Resolution <- 1, Enforce <- TRUE, Many <- FALSE, MaxClock <- 2,
    ses <- v1, req <- v2, events <- v3, recent <- v4, locked <- v5, clock <- v6, real <- v7,
    warned <- v8, blocked <- v9, overtaken <- v10

\* Two users, forgotten while their models are fitted.
ModelForgets == INSTANCE GuardModel WITH
    Users <- {"u1", "u2"}, Reqs <- {"q1"}, Threads <- {"t1"}, MinRows <- 2, RefitEvents <- 2,
    MaxRows <- 3, MaxForgets <- 1, MaxFaults <- 0,
    rows <- v1, fits <- v2, refitting <- v3, generation <- v4, req <- v5, thread <- v6,
    forgets <- v7, faults <- v8

\* Two requests that may both start a refit, which may fail.
ModelRefits == INSTANCE GuardModel WITH
    Users <- {"u1"}, Reqs <- {"q1", "q2"}, Threads <- {"t1", "t2"}, MinRows <- 2, RefitEvents <- 2,
    MaxRows <- 3, MaxForgets <- 0, MaxFaults <- 1,
    rows <- v1, fits <- v2, refitting <- v3, generation <- v4, req <- v5, thread <- v6,
    forgets <- v7, faults <- v8

\* A model that serves while it is fitted again.
ModelServes == INSTANCE GuardModel WITH
    Users <- {"u1"}, Reqs <- {"q1"}, Threads <- {"t1", "t2"}, MinRows <- 2, RefitEvents <- 2,
    MaxRows <- 4, MaxForgets <- 1, MaxFaults <- 1,
    rows <- v1, fits <- v2, refitting <- v3, generation <- v4, req <- v5, thread <- v6,
    forgets <- v7, faults <- v8

\* The sessions counted while two processes purge old rows.
History == INSTANCE GuardHistory WITH
    Sessions <- {"k1", "k2", "k3"}, Procs <- {"p1", "p2"}, MaxFaults <- 1, MaxSeen <- 6,
    Returns <- FALSE,
    young <- v1, old <- v2, counter <- v3, due <- v4, purge <- v5, ever <- v6, faults <- v7,
    crossed <- v8

\* The same when a session may write again after its rows were purged.
HistoryBack == INSTANCE GuardHistory WITH
    Sessions <- {"k1", "k2"}, Procs <- {"p1", "p2"}, MaxFaults <- 1, MaxSeen <- 6, Returns <- TRUE,
    young <- v1, old <- v2, counter <- v3, due <- v4, purge <- v5, ever <- v6, faults <- v7,
    crossed <- v8

\* Requests through proxies, with forged headers.
Address == INSTANCE GuardAddress WITH
    Machines <- {"c1", "c2", "p1", "p2"}, Proxies <- {"p1", "p2"}, TrustHeader <- TRUE,
    MaxForged <- 2, MaxPath <- 4,
    path <- v1, hops <- v2

\* Three rows of the audit trail, finished and sealed by two processes.
Chain == INSTANCE AuditChain WITH
    NoOne <- "nobody", Events <- {1, 2, 3}, Procs <- {"p1", "p2"}, Batch <- 2, MaxEnded <- 2,
    MaxFails <- 1,
    status <- v1, data <- v2, index <- v3, hash <- v4, step <- v5, batch <- v6, lock <- v7,
    fails <- v8

\* Two panel backups and two streams, one of them without a verdict.
Folder == INSTANCE BackupFolder WITH
    Backups <- {1, 2, 3, 4}, Streams <- {2, 4}, Unverified <- {4}, Keep <- 2, Limit <- 2,
    MaxBeside <- 2, MaxValidations <- 0,
    job <- v1, files <- v2, stamp <- v3, verdict <- v4, clock <- v5, listed <- v6, doomed <- v7,
    checks <- v8, disturbed <- v9

\* Three backups that are validated again while they are pruned.
FolderChecked == INSTANCE BackupFolder WITH
    Backups <- {1, 2, 3}, Streams <- {2}, Unverified <- {}, Keep <- 2, Limit <- 2,
    MaxBeside <- 2, MaxValidations <- 1,
    job <- v1, files <- v2, stamp <- v3, verdict <- v4, clock <- v5, listed <- v6, doomed <- v7,
    checks <- v8, disturbed <- v9

\* Three workers that tick the schedule.
ThreeWorkers == INSTANCE ScheduleRunner WITH
    Workers <- {"w1", "w2", "w3"}, NoOne <- "nobody", Closed <- "closed", Interval <- 2,
    MaxClock <- 3, MaxDeaths <- 0, MaxEdits <- 0,
    row <- v1, clock <- v2, lock <- v3, step <- v4, now <- v5, forced <- v6, copy <- v7,
    form <- v8, deaths <- v9, edits <- v10, good <- v11, tries <- v12, touched <- v13,
    reset <- v14, setback <- v15

ASSUME PartsAssumption ==
    /\ BackupPinned!BackupAssumption /\ BackupLive!BackupAssumption
    /\ BackupStrict!BackupAssumption /\ PipelineBackup!PipelineAssumption
    /\ PipelinePlain!PipelineAssumption /\ PipelineRestore!PipelineAssumption
    /\ StreamBurst!LayoutAssumption /\ StreamDamage!LayoutAssumption
    /\ StreamVerified!LayoutAssumption /\ StreamLocked!LayoutAssumption
    /\ OldContainer!OldAssumption /\ OldContent!OldAssumption
    /\ VaultFile!ChunkAssumption /\ UpgradeSteps!UpgradeAssumption
    /\ UpgradeBackups!UpgradeAssumption /\ UpgradeNoLinks!UpgradeAssumption
    /\ UpgradeRelease!UpgradeAssumption /\ Guard!GuardAssumption
    /\ GuardRules!GuardAssumption /\ GuardMany!GuardAssumption
    /\ GuardOne!GuardAssumption /\ GuardTwo!GuardAssumption
    /\ ModelForgets!ModelAssumption /\ ModelRefits!ModelAssumption
    /\ ModelServes!ModelAssumption /\ History!HistoryAssumption
    /\ HistoryBack!HistoryAssumption /\ Address!AddressAssumption
    /\ Chain!ChainAssumption /\ Folder!FolderAssumption /\ FolderChecked!FolderAssumption
    /\ ThreeWorkers!ScheduleAssumption

-----------------------------------------------------------------------------
\* The variables a part does not have stay blank.
Blank20 == v20 = 0
Same20 == v20' = v20
Blank19 == v19 = 0 /\ Blank20
Same19 == v19' = v19 /\ Same20
Blank18 == v18 = 0 /\ Blank19
Same18 == v18' = v18 /\ Same19
Blank17 == v17 = 0 /\ Blank18
Same17 == v17' = v17 /\ Same18
Blank16 == v16 = 0 /\ Blank17
Same16 == v16' = v16 /\ Same17
Blank15 == v15 = 0 /\ Blank16
Same15 == v15' = v15 /\ Same16
Blank14 == v14 = 0 /\ Blank15
Same14 == v14' = v14 /\ Same15
Blank13 == v13 = 0 /\ Blank14
Same13 == v13' = v13 /\ Same14
Blank12 == v12 = 0 /\ Blank13
Same12 == v12' = v12 /\ Same13
Blank11 == v11 = 0 /\ Blank12
Same11 == v11' = v11 /\ Same12
Blank10 == v10 = 0 /\ Blank11
Same10 == v10' = v10 /\ Same11
Blank9 == v9 = 0 /\ Blank10
Same9 == v9' = v9 /\ Same10
Blank8 == v8 = 0 /\ Blank9
Same8 == v8' = v8 /\ Same9
Blank7 == v7 = 0 /\ Blank8
Same7 == v7' = v7 /\ Same8
Blank6 == v6 = 0 /\ Blank7
Same6 == v6' = v6 /\ Same7
Blank5 == v5 = 0 /\ Blank6
Same5 == v5' = v5 /\ Same6
Blank4 == v4 = 0 /\ Blank5
Same4 == v4' = v4 /\ Same5
Blank3 == v3 = 0 /\ Blank4
Same3 == v3' = v3 /\ Same4

Init ==
    \/ part = "backup" /\ BackupPinned!Init /\ Blank20
    \/ part = "live backup" /\ BackupLive!Init /\ Blank20
    \/ part = "strict backup" /\ BackupStrict!Init /\ Blank20
    \/ part = "pipeline" /\ PipelineBackup!Init /\ Blank12
    \/ part = "plain pipeline" /\ PipelinePlain!Init /\ Blank12
    \/ part = "restore pipeline" /\ PipelineRestore!Init /\ Blank12
    \/ part = "order" /\ Ordering!Init /\ Blank12
    \/ part = "burst" /\ StreamBurst!Init /\ Blank6
    \/ part = "damage" /\ StreamDamage!Init /\ Blank6
    \/ part = "verified container" /\ StreamVerified!Init /\ Blank6
    \/ part = "locked container" /\ StreamLocked!Init /\ Blank6
    \/ part = "sealed file" /\ VaultFile!Init /\ Blank12
    \/ part = "restore" /\ RestoreWhole!Init
    \/ part = "broken restore" /\ RestoreBroken!Init
    \/ part = "old restore" /\ RestoreOld!Init
    \/ part = "upgrade" /\ UpgradeSteps!Init /\ Blank9
    \/ part = "conversion" /\ UpgradeBackups!Init /\ Blank9
    \/ part = "conversion without links" /\ UpgradeNoLinks!Init /\ Blank9
    \/ part = "release" /\ UpgradeRelease!Init /\ Blank9
    \/ part = "old container" /\ OldContainer!Init /\ Blank10
    \/ part = "old content" /\ OldContent!Init /\ Blank10
    \/ part = "guard" /\ Guard!Init /\ Blank11
    \/ part = "guard rules" /\ GuardRules!Init /\ Blank11
    \/ part = "many requests" /\ GuardMany!Init /\ Blank11
    \/ part = "one request" /\ GuardOne!Init /\ Blank11
    \/ part = "overlapping requests" /\ GuardTwo!Init /\ Blank11
    \/ part = "model" /\ ModelForgets!Init /\ Blank9
    \/ part = "refits" /\ ModelRefits!Init /\ Blank9
    \/ part = "one refit" /\ ModelServes!Init /\ Blank9
    \/ part = "history" /\ History!Init /\ Blank9
    \/ part = "returning" /\ HistoryBack!Init /\ Blank9
    \/ part = "address" /\ Address!Init /\ Blank3
    \/ part = "audit chain" /\ Chain!Init /\ Blank9
    \/ part = "backup folder" /\ Folder!Init /\ Blank10
    \/ part = "validated folder" /\ FolderChecked!Init /\ Blank10
    \/ part = "three workers" /\ ThreeWorkers!Init /\ Blank16

Next ==
    \/ part = "backup" /\ part' = part /\ BackupPinned!Next /\ Same20
    \/ part = "live backup" /\ part' = part /\ BackupLive!Next /\ Same20
    \/ part = "strict backup" /\ part' = part /\ BackupStrict!Next /\ Same20
    \/ part = "pipeline" /\ part' = part /\ PipelineBackup!Next /\ Same12
    \/ part = "plain pipeline" /\ part' = part /\ PipelinePlain!Next /\ Same12
    \/ part = "restore pipeline" /\ part' = part /\ PipelineRestore!Next /\ Same12
    \/ part = "order" /\ part' = part /\ Ordering!Next /\ Same12
    \/ part = "burst" /\ part' = part /\ StreamBurst!Next /\ Same6
    \/ part = "damage" /\ part' = part /\ StreamDamage!Next /\ Same6
    \/ part = "verified container" /\ part' = part /\ StreamVerified!Next /\ Same6
    \/ part = "locked container" /\ part' = part /\ StreamLocked!Next /\ Same6
    \/ part = "sealed file" /\ part' = part /\ VaultFile!Next /\ Same12
    \/ part = "restore" /\ part' = part /\ RestoreWhole!Next
    \/ part = "broken restore" /\ part' = part /\ RestoreBroken!Next
    \/ part = "old restore" /\ part' = part /\ RestoreOld!Next
    \/ part = "upgrade" /\ part' = part /\ UpgradeSteps!Next /\ Same9
    \/ part = "conversion" /\ part' = part /\ UpgradeBackups!Next /\ Same9
    \/ part = "conversion without links" /\ part' = part /\ UpgradeNoLinks!Next /\ Same9
    \/ part = "release" /\ part' = part /\ UpgradeRelease!Next /\ Same9
    \/ part = "old container" /\ part' = part /\ OldContainer!Next /\ Same10
    \/ part = "old content" /\ part' = part /\ OldContent!Next /\ Same10
    \/ part = "guard" /\ part' = part /\ Guard!Next /\ Same11
    \/ part = "guard rules" /\ part' = part /\ GuardRules!Next /\ Same11
    \/ part = "many requests" /\ part' = part /\ GuardMany!Next /\ Same11
    \/ part = "one request" /\ part' = part /\ GuardOne!Next /\ Same11
    \/ part = "overlapping requests" /\ part' = part /\ GuardTwo!Next /\ Same11
    \/ part = "model" /\ part' = part /\ ModelForgets!Next /\ Same9
    \/ part = "refits" /\ part' = part /\ ModelRefits!Next /\ Same9
    \/ part = "one refit" /\ part' = part /\ ModelServes!Next /\ Same9
    \/ part = "history" /\ part' = part /\ History!Next /\ Same9
    \/ part = "returning" /\ part' = part /\ HistoryBack!Next /\ Same9
    \/ part = "address" /\ part' = part /\ Address!Next /\ Same3
    \/ part = "audit chain" /\ part' = part /\ Chain!Next /\ Same9
    \/ part = "backup folder" /\ part' = part /\ Folder!Next /\ Same10
    \/ part = "validated folder" /\ part' = part /\ FolderChecked!Next /\ Same10
    \/ part = "three workers" /\ part' = part /\ ThreeWorkers!Next /\ Same16

Spec == Init /\ [][Next]_vars

-----------------------------------------------------------------------------
\* A finished backup holds every row that was there throughout exactly once,
\* and with a snapshot exactly the rows of it, with their tags as of the
\* snapshot; every file its rows name is in it or counted as skipped, and
\* skipped files fail it unless they are allowed; frames come in the order the
\* reader expects and within the limits it refuses beyond (engine.py, the
\* paged reads, the late listing of files and the trailer).  Its models are
\* closed under inheritance, an ancestor precedes its descendants always, and
\* a model referred to precedes the one that refers to it unless a cycle of
\* references is in the way.
BackupsAreWhole ==
    /\ part = "backup" => BackupPinned!RowsOnce /\ BackupPinned!NamedFilesAreThere /\ BackupPinned!Readable
    /\ part = "live backup" => BackupLive!RowsOnce /\ BackupLive!Readable
    /\ part = "strict backup" => BackupStrict!RowsOnce /\ BackupStrict!NamedFilesAreThere
    /\ part = "order" => Ordering!AncestorsFirst /\ Ordering!ReferredFirst /\ Ordering!PlanIsClosed

\* The threads of a backup and of a restore pass on every byte in order, a
\* success means that no thread failed and that what was read is sound, the
\* first failure is the one told, no channel holds more than its bytes or one
\* item, and no state leaves a thread waiting with nobody to wake it
\* (pipeline.py: put, get, stop and the joins).
PipelinesDeliver ==
    /\ part = "pipeline" => /\ PipelineBackup!Delivered /\ PipelineBackup!CauseIsTold
                            /\ PipelineBackup!ChannelsBounded /\ PipelineBackup!NobodyStuck
    /\ part = "plain pipeline" => PipelinePlain!Delivered /\ PipelinePlain!NobodyStuck
    /\ part = "restore pipeline" => PipelineRestore!ErrorsSurface /\ PipelineRestore!NobodyStuck

\* The writer's file does not depend on how the payload was split and stays
\* flat in memory; a reader never gives a wrong byte, calls a file clean only
\* when it is, and recovers all damage within the correction, a burst within
\* the promised tolerance and a tail that was cut off; a sealed file gives a
\* prefix of its content or fails, and fails only for a reason.  A backup of the
\* first format is read from what either copy has left, and its conversion holds
\* what a restore of it would load.
ContainersAreRecovered ==
    /\ part = "burst" => StreamBurst!FileIsAsScheduled /\ StreamBurst!MemoryFlat /\ StreamBurst!BurstIsHealed
    /\ part = "damage" => /\ StreamDamage!RecoverableIsRecovered
                          /\ StreamDamage!CutIsRead /\ StreamDamage!NeverWrong
    /\ part = "verified container" => /\ StreamVerified!RecoverableIsRecovered
                                      /\ StreamVerified!CleanIsClean /\ StreamVerified!CutIsRead
                                      /\ StreamVerified!NeverWrong
    /\ part = "locked container" => /\ StreamLocked!RecoverableIsRecovered
                                    /\ StreamLocked!CleanIsClean /\ StreamLocked!NeverWrong
    /\ part = "old container" => OldContainer!RecoverableIsRecovered /\ OldContainer!ReportIsTrue
    /\ part = "old content" => /\ OldContent!ConvertedIsTheSame /\ OldContent!SoundConverts
                               /\ OldContent!ReportIsTrue
    /\ part = "sealed file" => VaultFile!NeverWrong /\ VaultFile!PrefixOnly /\ VaultFile!CleanIsRead

\* A restore that fails before its commit leaves the database, the files and
\* the folders as they were; one that goes through took a whole payload,
\* merged it without touching other rows, left no dangling reference and no
\* sequence behind its keys, put every file where its row names it and none
\* outside the roots; and a rehearsal that found nothing wrong is borne out.
RestoresAreExact ==
    /\ part = "restore" => /\ RestoreWhole!UntouchedUntilCommit /\ RestoreWhole!MergedFaithfully
                           /\ RestoreWhole!KeysAndReferences /\ RestoreWhole!RowsFindTheirFiles
                           /\ RestoreWhole!Confined /\ RestoreWhole!RehearsalHolds
    /\ part = "broken restore" => /\ RestoreBroken!OnlyWholePayloads /\ RestoreBroken!UntouchedUntilCommit
                                  /\ RestoreBroken!RehearsalHolds
    /\ part = "old restore" => /\ RestoreOld!UntouchedUntilCommit /\ RestoreOld!MergedFaithfully
                               /\ RestoreOld!KeysAndReferences

\* One run of dbs_upgrade leaves nothing that a second would fix, a command
\* that reports success has a whole conversion of every old backup, also
\* after a crash of another, and "latest" is said only of the latest release.
UpgradesHold ==
    /\ part = "upgrade" => UpgradeSteps!OneRunIsEnough
    /\ part = "conversion" => UpgradeBackups!ConvertedIsWhole
    /\ part = "release" => UpgradeRelease!LatestIsLatest

\* A block ends every session it covers; a flagged session is refused what
\* matters, and the idle limit ends the idle, unless a request that overlaps
\* saves the session as it was before the flag or the pause, and spares the
\* active; a warned request is refused, all but a download that only its
\* second score warns of; a forgotten user's model does not come back with a
\* fit that was under way, one refit runs per user; a session is counted once
\* although its rows are purged, unless two purges cross; the address is the
\* last one outside the proxies, whatever the header claims (guard/).
GuardsHold ==
    /\ part = "guard" => Guard!BlockEndsAll
    /\ part = "one request" => /\ GuardOne!FlaggedIsRefused /\ GuardOne!WarningRefuses
                               /\ GuardOne!IdleEnds /\ GuardOne!ActiveStays
    /\ part = "overlapping requests" => /\ GuardTwo!FlaggedIsRefused /\ GuardTwo!WarningRefuses
                                        /\ GuardTwo!IdleEnds /\ GuardTwo!ActiveStays
    /\ part = "model" => ModelForgets!ForgottenStays
    /\ part = "refits" => ModelRefits!OneRefit
    /\ part = "history" => History!SeenOnce
    /\ part = "address" => Address!Unforgeable

\* Sealers beside each other leave one chain of sealed rows, which holds a hash
\* of every row before (audit.py, seal_pending).
ChainIntact == part = "audit chain" => Chain!ChainIntact

\* A finished row stays unsealed only while somebody is still going to seal.
NothingForgotten == part = "audit chain" => Chain!NothingForgotten

\* A row that is sealed changes no more, not by progress or an interrupt either.
SealedRowsAreFinal == [][part = "audit chain" => Chain!KeepsSealedRows]_vars

\* A prune under which nothing changes never removes the newest verified
\* backup (dbs/retention.py).
NewestVerifiedKept ==
    [][/\ part = "backup folder" => Folder!SparesNewestVerified
       /\ part = "validated folder" => FolderChecked!SparesNewestVerified]_vars

\* A backup that failed its verification takes no place of a panel prune.
PlacesAreKept ==
    [][/\ part = "backup folder" => Folder!LeavesPlaces
       /\ part = "validated folder" => FolderChecked!LeavesPlaces]_vars

\* An undisturbed prune of a stream ends within the limit.
StreamLimit ==
    [][/\ part = "backup folder" => Folder!EndsWithinLimit
       /\ part = "validated folder" => FolderChecked!EndsWithinLimit]_vars

\* A stream does not remove its own backup.
StreamKeepsItsOwn ==
    [][/\ part = "backup folder" => Folder!SparesItsOwn
       /\ part = "validated folder" => FolderChecked!SparesItsOwn]_vars

\* What a step may never do: replace a file at a backup's destination or
\* publish one that is not verified; forecast a check that the run does not
\* bear out; touch a whole conversion; let a session destroy from a network
\* nobody was seen on; lose a model that serves; count fewer sessions unless
\* purges cross; let the schedule take two backups in one interval whose next
\* run was not brought forward.
PanelStepsHold ==
    [][/\ part = "backup" => BackupPinned!NeverReplaced
       /\ part = "upgrade" => UpgradeSteps!CheckForecasts
       /\ part = "conversion" => UpgradeBackups!ConversionsStay
       /\ part = "conversion without links" => UpgradeNoLinks!ConversionsStay
       /\ part = "guard" => Guard!DestroysFromKnown
       /\ part = "guard rules" => GuardRules!DestroysFromKnown
       /\ part = "many requests" => GuardMany!DestroysFromKnown
       /\ part = "one refit" => ModelServes!LastFitServes
       /\ part = "returning" => HistoryBack!SeenNeverFalls
       /\ part = "three workers" => ThreeWorkers!KeepsTheInterval]_vars
=============================================================================
