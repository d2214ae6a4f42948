----------------------------- MODULE DataFolder -----------------------------
(***************************************************************************)
(* The data folder of the manager, the sealing key of what is in it, and   *)
(* the import that replaces it (dbs/manager/keystore.py, paths.py,         *)
(* staging.py, transfer.py and the export and import of cli.py).           *)
(*                                                                         *)
(* A folder is what its database is sealed with and what its key file      *)
(* holds.  The key itself is in that file or in the system keychain, under *)
(* the path of the folder: moving the folder moves the file, not the       *)
(* keychain's entry.  A process may die between any two steps, and the     *)
(* keychain may stop to answer.  Keys are numbered in the order they are   *)
(* made; 0 is none.                                                        *)
(***************************************************************************)
EXTENDS Integers, FiniteSets, FiniteSetsExt

CONSTANTS
    Procs,        \* commands that may run at the same time
    Store,        \* DBS_MANAGER_KEY_STORE: "unset", "file" or "keychain"
    RingStates,   \* how the keychain may be: "works", "locked", "flaky", "none"
    MaxKeys,      \* bound: keys made
    MaxImports,   \* bound: imports, each with a stamp of its own
    MaxCrashes    \* bound: processes that die

DataFolderAssumption ==
    /\ Store \in {"unset", "file", "keychain"}
    /\ RingStates \subseteq {"works", "locked", "flaky", "none"}

VARIABLES
    folder,    \* folder[path]
    ring,      \* ring[path]: the key the keychain holds for the path, or 0
    state,     \* how the keychain is now
    proc,      \* proc[p]: what the command does next
    exports,   \* the export files written: [data, key]
    made, imports, crashes,
    started,   \* the last start got through
    wrong      \* some start went on with a key that does not open the data

vars == <<folder, ring, state, proc, exports, made, imports, crashes, started, wrong>>
counts == <<made, imports, crashes>>

Main == <<"main", 0>>
Stage(n) == <<"stage", n>>
Aside(n) == <<"aside", n>>
Paths == {Main} \cup {Stage(n) : n \in 1 .. MaxImports} \cup {Aside(n) : n \in 1 .. MaxImports}
Empty == -1                \* a key file without content
Missing == [there |-> FALSE, data |-> 0, file |-> 0, marker |-> FALSE]
Fresh == [Missing EXCEPT !.there = TRUE]
Idle == [at |-> "idle", for |-> "-", key |-> 0, stamp |-> 0, from |-> [data |-> 0, key |-> 0]]

Busy(p) == proc[p].at # "idle"
Goto(p, at) == proc' = [proc EXCEPT ![p].at = at]
With(p, at, key) == proc' = [proc EXCEPT ![p].at = at, ![p].key = key]
Leave(p) == proc' = [proc EXCEPT ![p] = Idle]

Init ==
    /\ folder = [f \in Paths |-> Missing]
    /\ ring = [f \in Paths |-> 0]
    /\ state \in RingStates
    /\ proc = [p \in Procs |-> Idle]
    \* an export of another computer
    /\ exports = {[data |-> 1, key |-> 1]}
    /\ made = 1 /\ imports = 0 /\ crashes = 0
    /\ started = FALSE /\ wrong = FALSE

-----------------------------------------------------------------------------

\* paths.finished_stage: the stages whose marker is there, of which the last
finished_stage(fs) == {n \in 1 .. MaxImports : fs[Stage(n)].there /\ fs[Stage(n)].marker}

\* paths.finish_interrupted_import
Finished(fs) ==
    IF fs[Main].there \/ finished_stage(fs) = {} THEN fs
    ELSE LET n == Max(finished_stage(fs)) IN
         [fs EXCEPT ![Main] = fs[Stage(n)], ![Stage(n)] = Missing]

\* cli.resolve, then the load of settings
Start(p, for) ==
    /\ ~Busy(p)
    /\ LET fs == Finished(folder) IN
       folder' = [fs EXCEPT ![Main].there = TRUE]
    /\ proc' = [proc EXCEPT ![p].at = "load", ![p].for = for]
    /\ UNCHANGED <<ring, state, exports, counts, started, wrong>>

\* paths.stored_key
stored_key == IF folder[Main].file = Empty THEN 0 ELSE folder[Main].file

Refused(p) ==
    /\ Leave(p)
    /\ started' = IF proc[p].for = "run" THEN FALSE ELSE started
    /\ UNCHANGED <<folder, ring, state, exports, counts, wrong>>

\* KeychainFailed inside load: the key file, unless there is none
RingFails(p) ==
    IF Store = "keychain" \/ stored_key = 0 THEN Refused(p)
    ELSE Goto(p, "read_key") /\ UNCHANGED <<folder, ring, state, exports, counts, started, wrong>>

\* keystore.load where no keychain is asked
LoadFile(p) ==
    /\ proc[p].at = "load" /\ folder[Main].there
    /\ Store = "file" \/ state = "none"
    /\ IF Store = "keychain" THEN Refused(p)
       ELSE Goto(p, "read_key") /\ UNCHANGED <<folder, ring, state, exports, counts, started, wrong>>

\* the two keys differ and no import explains it
Differ(held) == ring[Main] # 0 /\ ring[Main] # held /\ ~folder[Main].marker

\* _from_keychain up to its first write
LoadRing(p) ==
    /\ proc[p].at = "load" /\ folder[Main].there
    /\ Store # "file" /\ state # "none"
    /\ CASE state = "locked" -> RingFails(p)
         [] state # "locked" /\ stored_key = 0 /\ ring[Main] # 0 ->
              /\ With(p, "loaded", ring[Main])
              /\ UNCHANGED <<folder, ring, state, exports, counts, started, wrong>>
         [] state # "locked" /\ stored_key = 0 /\ ring[Main] = 0 ->
              /\ made < MaxKeys
              /\ made' = made + 1
              /\ With(p, "write", made + 1)
              /\ UNCHANGED <<folder, ring, state, exports, imports, crashes, started, wrong>>
         [] state # "locked" /\ stored_key # 0 /\ Differ(stored_key) -> Refused(p)
         [] state # "locked" /\ stored_key # 0 /\ ~Differ(stored_key) ->
              /\ With(p, IF ring[Main] = stored_key THEN "unlink" ELSE "write", stored_key)
              /\ UNCHANGED <<folder, ring, state, exports, counts, started, wrong>>

\* Keychain.write reads back what it wrote
Kept(p) == state = "works"

Write(p) ==
    /\ proc[p].at = "write"
    /\ IF Kept(p)
       THEN /\ ring' = IF state = "works" THEN [ring EXCEPT ![Main] = proc[p].key] ELSE ring
            /\ Goto(p, IF stored_key = 0 THEN "loaded" ELSE "unlink")
            /\ UNCHANGED <<folder, state, exports, counts, started, wrong>>
       ELSE RingFails(p)

\* the key file goes once the keychain has its key, then the import's marker
Unlink(p) ==
    /\ proc[p].at = "unlink"
    /\ folder' = [folder EXCEPT ![Main].file = 0]
    /\ Goto(p, "unmark")
    /\ UNCHANGED <<ring, state, exports, counts, started, wrong>>

Unmark(p) ==
    /\ proc[p].at = "unmark"
    /\ folder' = [folder EXCEPT ![Main].marker = FALSE]
    /\ Goto(p, "loaded")
    /\ UNCHANGED <<ring, state, exports, counts, started, wrong>>

\* paths.read_key: ensure_key creates the file, then writes it.  An empty key
\* stops the start.
ReadKey(p) ==
    /\ proc[p].at = "read_key" /\ folder[Main].there
    /\ CASE folder[Main].file = 0 ->
              /\ made < MaxKeys
              /\ folder' = [folder EXCEPT ![Main].file = Empty]
              /\ Goto(p, "fill")
              /\ UNCHANGED <<ring, state, exports, counts, started, wrong>>
         [] folder[Main].file = Empty -> Refused(p)
         [] folder[Main].file > 0 ->
              /\ With(p, "loaded", folder[Main].file)
              /\ UNCHANGED <<folder, ring, state, exports, counts, started, wrong>>

Fill(p) ==
    /\ proc[p].at = "fill" /\ made < MaxKeys
    /\ made' = made + 1
    /\ folder' = [folder EXCEPT ![Main].file = made + 1]
    /\ With(p, "loaded", made + 1)
    /\ UNCHANGED <<ring, state, exports, imports, crashes, started, wrong>>

-----------------------------------------------------------------------------
\* django_dbs run: the database of a new folder is sealed with the key
Run(p) ==
    /\ proc[p].at = "loaded" /\ proc[p].for = "run"
    /\ folder' = [folder EXCEPT ![Main].data = IF @ = 0 THEN proc[p].key ELSE @]
    /\ wrong' = (wrong \/ folder[Main].data \notin {0, proc[p].key})
    /\ started' = TRUE
    /\ Leave(p)
    /\ UNCHANGED <<ring, state, exports, counts>>

\* export_manager: key_folder gives the key file, or one with the key in use
Export(p) ==
    /\ proc[p].at = "loaded" /\ proc[p].for = "export"
    /\ exports' = IF folder[Main].data = 0 \/ Cardinality(exports) > 1 THEN exports
                  ELSE exports \cup {[data |-> folder[Main].data,
                                      key |-> IF folder[Main].file # 0 THEN folder[Main].file ELSE proc[p].key]}
    /\ Leave(p)
    /\ UNCHANGED <<folder, ring, state, counts, started, wrong>>

\* command_import; hold_installation loads the key of a folder with a database,
\* and asks before another key takes its place
Import(p, e) ==
    /\ ~Busy(p) /\ imports < MaxImports
    /\ imports' = imports + 1
    /\ folder' = Finished(folder)
    /\ proc' = [proc EXCEPT ![p] =
                  [at |-> IF Finished(folder)[Main].data # 0 THEN "load" ELSE "build",
                   for |-> "import", key |-> 0, stamp |-> imports + 1, from |-> e]]
    /\ UNCHANGED <<ring, state, exports, made, crashes, started, wrong>>

Held(p) ==
    /\ proc[p].at = "loaded" /\ proc[p].for = "import"
    /\ Goto(p, "build") \/ Leave(p)
    /\ UNCHANGED <<folder, ring, state, exports, counts, started, wrong>>

\* stage_import: a process of its own, whose key is in a file.  It makes the
\* folder and a key, restores the database, writes the key of the export over
\* its own and marks the stage.
Build(p) ==
    LET s == Stage(proc[p].stamp) IN
    /\ proc[p].at = "build" /\ made < MaxKeys
    /\ made' = made + 1
    /\ folder' = [folder EXCEPT ![s] = [Fresh EXCEPT !.file = made + 1]]
    /\ Goto(p, "restore")
    /\ UNCHANGED <<ring, state, exports, imports, crashes, started, wrong>>

Restore(p) ==
    LET s == Stage(proc[p].stamp) IN
    /\ proc[p].at = "restore"
    /\ folder' = [folder EXCEPT ![s].data = proc[p].from.data]
    /\ Goto(p, "roots")
    /\ UNCHANGED <<ring, state, exports, counts, started, wrong>>

Rooted(p) == proc[p].from.key

\* write_roots
WriteRoots(p) ==
    LET s == Stage(proc[p].stamp) IN
    /\ proc[p].at = "roots"
    /\ folder' = [folder EXCEPT ![s].file = Rooted(p)]
    /\ Goto(p, "mark")
    /\ UNCHANGED <<ring, state, exports, counts, started, wrong>>

Mark(p) ==
    LET s == Stage(proc[p].stamp) IN
    /\ proc[p].at = "mark"
    /\ folder' = [folder EXCEPT ![s].marker = TRUE]
    /\ Goto(p, "swap")
    /\ UNCHANGED <<ring, state, exports, counts, started, wrong>>

Removed(f) == Missing

\* the import did not finish: its stage is removed
BuildFails(p) ==
    /\ proc[p].at \in {"restore", "roots", "mark"}
    /\ folder' = [folder EXCEPT ![Stage(proc[p].stamp)] = Removed(@)]
    /\ Leave(p)
    /\ UNCHANGED <<ring, state, exports, counts, started, wrong>>

holds_nothing(f) == f.data = 0 /\ f.file = 0 /\ ~f.marker

\* swap_in until the folder is moved: an empty one is removed, another has its
\* key carried to the name it will have
Swap(p) ==
    /\ proc[p].at = "swap"
    /\ CASE folder[Main].there /\ holds_nothing(folder[Main]) ->
              folder' = [folder EXCEPT ![Main] = Missing] /\ Goto(p, "place")
         [] ~folder[Main].there -> Goto(p, "place") /\ UNCHANGED folder
         [] folder[Main].there /\ ~holds_nothing(folder[Main]) ->
              Goto(p, "carry") /\ UNCHANGED folder
    /\ UNCHANGED <<ring, state, exports, counts, started, wrong>>

\* keystore.carry: ring[Main] also under the new name
carried(n) == IF ring[Main] = 0 THEN ring ELSE [ring EXCEPT ![Aside(n)] = ring[Main]]

Carry(p) ==
    /\ proc[p].at = "carry"
    /\ CASE Store = "file" \/ state = "none" -> Goto(p, "aside") /\ UNCHANGED ring
         [] Store # "file" /\ (state = "works" \/ (state = "flaky" /\ ring[Main] = 0)) ->
              Goto(p, "aside") /\ ring' = carried(proc[p].stamp)
         [] Store # "file" /\ (state = "locked" \/ (state = "flaky" /\ ring[Main] # 0)) ->
              Leave(p) /\ UNCHANGED ring
    /\ UNCHANGED <<folder, state, exports, counts, started, wrong>>

MoveAside(p) ==
    /\ proc[p].at = "aside"
    /\ IF folder[Main].there
       THEN folder' = [folder EXCEPT ![Aside(proc[p].stamp)] = folder[Main], ![Main] = Missing]
       ELSE UNCHANGED folder
    /\ Goto(p, "place")
    /\ UNCHANGED <<ring, state, exports, counts, started, wrong>>

\* os.replace fails where the stage was moved already or the folder is back
Place(p) ==
    LET s == Stage(proc[p].stamp) IN
    /\ proc[p].at = "place"
    /\ IF folder[s].there /\ ~folder[Main].there
       THEN /\ folder' = [folder EXCEPT ![Main] = folder[s], ![s] = Missing]
            /\ proc' = [proc EXCEPT ![p].at = "load", ![p].for = "swap"]
       ELSE Leave(p) /\ UNCHANGED folder
    /\ UNCHANGED <<ring, state, exports, counts, started, wrong>>

\* swap_in ends: the marker is cleared
Swapped(p) ==
    /\ proc[p].at = "loaded" /\ proc[p].for = "swap"
    /\ folder' = [folder EXCEPT ![Main].marker = FALSE]
    /\ Leave(p)
    /\ UNCHANGED <<ring, state, exports, counts, started, wrong>>

-----------------------------------------------------------------------------
Crash(p) ==
    /\ Busy(p) /\ crashes < MaxCrashes
    /\ crashes' = crashes + 1
    /\ Leave(p)
    /\ UNCHANGED <<folder, ring, state, exports, made, imports, started, wrong>>

RingChanges ==
    /\ state' \in RingStates \ {state}
    /\ UNCHANGED <<folder, ring, proc, exports, counts, started, wrong>>

Step(p) ==
    \/ LoadFile(p) \/ LoadRing(p) \/ Write(p) \/ Unlink(p) \/ Unmark(p) \/ ReadKey(p) \/ Fill(p)
    \/ Run(p) \/ Export(p) \/ Held(p) \/ Build(p) \/ Restore(p) \/ WriteRoots(p) \/ Mark(p)
    \/ Swap(p) \/ Carry(p) \/ MoveAside(p) \/ Place(p) \/ Swapped(p)

Next ==
    \/ \E p \in Procs : Step(p) \/ BuildFails(p) \/ Crash(p) \/ Start(p, "run") \/ Start(p, "export")
    \/ \E p \in Procs, e \in exports : Import(p, e)
    \/ RingChanges

Spec == Init /\ [][Next]_vars

---------------------------------------------------------------------------
(* Properties                                                              *)

\* "The manager never makes a new key when the keychain does not answer": a
\* start that gets through on a folder with sealed data has the key it was
\* sealed with.
KeyOpensData == ~wrong

\* Wherever an installation is (in place, aside, or staged and marked), its
\* key is in its own key file or in the keychain under its own path, at every
\* moment: a crash between any two steps of a load or a swap loses no key.
KeysKept ==
    \A f \in Paths :
        folder[f].data # 0 /\ (f \in {Main} \cup {Aside(n) : n \in 1 .. MaxImports} \/ folder[f].marker) =>
            folder[f].data \in {folder[f].file, ring[f]}

Installed(k) == \E f \in Paths \ {Stage(n) : n \in 1 .. MaxImports} : folder[f].data = k

\* "Moved aside, never deleted": an installation that was in the data folder
\* is in one folder or another for ever.
NeverDeleted ==
    \A k \in 1 .. made : Installed(k) =>
        \E f \in Paths : folder'[f].data = k

\* "An import that stops never leaves half of one": a database that appears in
\* the data folder with the folder itself is that of a stage marked complete.
NeverHalf ==
    ~folder[Main].there /\ folder'[Main].data # 0 =>
      \E n \in 1 .. MaxImports : folder[Stage(n)].marker /\ folder'[Main] = folder[Stage(n)]

=============================================================================
