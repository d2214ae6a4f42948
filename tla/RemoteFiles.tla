----------------------------- MODULE RemoteFiles -----------------------------
(* Files on a server that several requests of the manager, and the server's    *)
(* own users, change at once over SFTP: uploads that never replace, .env       *)
(* versions pushed over the file that is there, deletions, downloads, and the  *)
(* sweep of what a lost connection left behind. Every SFTP call is a step.     *)
EXTENDS Naturals, FiniteSets

CONSTANTS Clients,    \* requests of the manager, each with its own connection
          Ops,        \* what they do: "upload", "push", "replace", "pull", "delete", "download"
          Size,       \* pieces of a source
          Inside,     \* the .env is inside a container: a program there writes it
          MaxFaults,  \* failures and lost connections in a behaviour
          MaxEdits,   \* changes by the server's own users
          None

FilesAssumption == Size \in Nat \ {0} /\ MaxFaults \in Nat /\ MaxEdits \in Nat

VARIABLES file,       \* the file under its name: [of, n], or None
          part,       \* [Clients -> partial file]: [there, n, old]
          req,        \* [Clients -> request]
          versions,   \* the contents of the .env versions the manager keeps, and the newest
          faults, edits

vars == <<file, part, req, versions, faults, edits>>

Free == [op |-> "idle", at |-> "-", sent |-> 0, seen |-> None, edited |-> FALSE,
         got |-> {}, res |-> "-"]
NoPart == [there |-> FALSE, n |-> 0, old |-> FALSE]
Content(c, n) == [of |-> c, n |-> n]
At(c, op, at) == req[c].op = op /\ req[c].at = at
Go(c, at) == req' = [req EXCEPT ![c].at = at]
End(c, res) == [req EXCEPT ![c] = [Free EXCEPT !.res = res]]
Discarded(c) == part' = [part EXCEPT ![c] = NoPart]

-----------------------------------------------------------------------------
Begin(c, op) ==
    /\ req[c].op = "idle" /\ op \in Ops
    /\ ~part[c].there
    /\ req' = [req EXCEPT ![c] =
                 [Free EXCEPT !.op = op,
                              !.at = CASE op = "upload" -> "look" [] op = "push" -> "open"
                                       [] op = "replace" -> IF Inside THEN "read" ELSE "envstat"
                                       [] op = "pull" -> "read" [] OTHER -> "stat"]]
    /\ UNCHANGED <<file, part, versions, faults, edits>>

(* write_new looks for the name before it sends anything, and once more      *)
(* before it renames.                                                        *)
Look(c) ==
    /\ At(c, "upload", "look")
    /\ IF file # None THEN req' = End(c, "exists") ELSE Go(c, "open")
    /\ UNCHANGED <<file, part, versions, faults, edits>>

(* _replace_on_host asks for the .env before it reads it: one that is there   *)
(* is kept as a version before it is replaced, and one that went away        *)
(* between the two fails the push. In a container the two are one call. A    *)
(* pull only reads and keeps.                                                *)
EnvStat(c) ==
    /\ At(c, "replace", "envstat")
    /\ req' = [req EXCEPT ![c].at = IF file = None THEN "open" ELSE "read",
                          ![c].edited = FALSE]
    /\ UNCHANGED <<file, part, versions, faults, edits>>
ReadCurrent(c) ==
    /\ req[c].op \in {"replace", "pull"} /\ req[c].at = "read"
    /\ req' = IF file # None
              THEN [req EXCEPT ![c].at = "keep", ![c].seen = file.of, ![c].edited = FALSE]
              ELSE IF Inside /\ req[c].op = "replace"
              THEN [req EXCEPT ![c].at = "open", ![c].edited = FALSE]
              ELSE End(c, "missing")
    /\ UNCHANGED <<file, part, versions, faults, edits>>

(* _keep: a content that the newest version already has is not stored again. *)
Stored(content) == [all |-> versions.all \cup {content}, newest |-> content]
Kept(content) == IF versions.newest = content THEN versions ELSE Stored(content)
Keep(c) ==
    /\ req[c].op \in {"replace", "pull"} /\ req[c].at = "keep"
    /\ versions' = Kept(req[c].seen)
    /\ IF req[c].op = "pull" THEN req' = End(c, "ok") ELSE Go(c, "open")
    /\ UNCHANGED <<file, part, faults, edits>>

OpenPartial(c) ==
    /\ req[c].op \in {"upload", "push", "replace"} /\ req[c].at = "open"
    /\ part' = [part EXCEPT ![c] = [NoPart EXCEPT !.there = TRUE]]
    /\ Go(c, "write")
    /\ UNCHANGED <<file, versions, faults, edits>>

(* A piece is sent; the server may not keep it.                              *)
WritePiece(c) ==
    /\ req[c].at = "write" /\ req[c].sent < Size
    /\ req' = [req EXCEPT ![c].sent = @ + 1]
    /\ \/ part' = [part EXCEPT ![c].n = IF part[c].there THEN @ + 1 ELSE @, ![c].old = FALSE]
          /\ UNCHANGED faults
       \/ faults < MaxFaults /\ faults' = faults + 1 /\ UNCHANGED part
    /\ UNCHANGED <<file, versions, edits>>

(* _write_whole: what the server kept is compared with what was sent. putfo  *)
(* of the transports does the same.                                          *)
KeptWhole(c) == part[c].n = req[c].sent
Written(c) ==
    /\ req[c].at = "write" /\ req[c].sent = Size
    /\ IF part[c].there /\ KeptWhole(c)
       THEN Go(c, IF req[c].op = "replace" THEN "rename" ELSE "again") /\ UNCHANGED part
       ELSE req' = End(c, "failed") /\ Discarded(c)
    /\ UNCHANGED <<file, versions, faults, edits>>

LookAgain(c) ==
    /\ req[c].op \in {"upload", "push"} /\ req[c].at = "again"
    /\ IF file # None THEN req' = End(c, "exists") /\ Discarded(c)
       ELSE Go(c, "rename") /\ UNCHANGED part
    /\ UNCHANGED <<file, versions, faults, edits>>

(* rename of SFTP refuses a name that is taken; a partial that was swept is  *)
(* not there to rename.                                                      *)
RenameNewOver(c) ==
    /\ req[c].op \in {"upload", "push"} /\ req[c].at = "rename"
    /\ file' = IF part[c].there THEN Content(c, part[c].n) ELSE file
    /\ req' = End(c, "ok") /\ Discarded(c)
    /\ UNCHANGED <<versions, faults, edits>>
RenameNew(c) ==
    /\ req[c].op \in {"upload", "push"} /\ req[c].at = "rename"
    /\ LET ok == part[c].there /\ file = None IN
       /\ file' = IF ok THEN Content(c, part[c].n) ELSE file
       /\ req' = End(c, IF ok THEN "ok" ELSE IF file # None THEN "exists" ELSE "failed")
    /\ Discarded(c)
    /\ UNCHANGED <<versions, faults, edits>>

(* posix_rename, and os.replace inside a container.                          *)
Replace(c) ==
    /\ At(c, "replace", "rename")
    /\ IF part[c].there
       THEN file' = Content(c, part[c].n) /\ Go(c, "store")
       ELSE req' = End(c, "failed") /\ UNCHANGED file
    /\ Discarded(c)
    /\ UNCHANGED <<versions, faults, edits>>
Store(c) ==
    /\ At(c, "replace", "store")
    /\ versions' = Stored(c)
    /\ req' = End(c, "ok")
    /\ UNCHANGED <<file, part, faults, edits>>

-----------------------------------------------------------------------------
(* delete: what is there is asked for, then removed.                         *)
DeleteStat(c) ==
    /\ At(c, "delete", "stat")
    /\ IF file = None THEN req' = End(c, "missing") ELSE Go(c, "remove")
    /\ UNCHANGED <<file, part, versions, faults, edits>>
Delete(c) ==
    /\ At(c, "delete", "remove")
    /\ file' = None
    /\ req' = End(c, IF file = None THEN "missing" ELSE "ok")
    /\ UNCHANGED <<part, versions, faults, edits>>

(* download: its size is asked for, it is opened, and read by windows. The   *)
(* open handle goes on reading the file it opened.                           *)
DownloadStat(c) ==
    /\ At(c, "download", "stat")
    /\ IF file = None THEN req' = End(c, "missing") ELSE Go(c, "openfile")
    /\ UNCHANGED <<file, part, versions, faults, edits>>
DownloadOpen(c) ==
    /\ At(c, "download", "openfile")
    /\ IF file = None THEN req' = End(c, "missing")
       ELSE req' = [req EXCEPT ![c].at = "window", ![c].seen = file.of]
    /\ UNCHANGED <<file, part, versions, faults, edits>>
Window(c) ==
    /\ At(c, "download", "window") /\ req[c].sent < Size
    /\ req' = [req EXCEPT ![c].sent = @ + 1, ![c].got = @ \cup {req[c].seen}]
    /\ UNCHANGED <<file, part, versions, faults, edits>>
DownloadEnd(c) ==
    /\ At(c, "download", "window") /\ req[c].sent = Size
    /\ req' = [req EXCEPT ![c] = [Free EXCEPT !.res = "ok"]]
    /\ UNCHANGED <<file, part, versions, faults, edits>>

-----------------------------------------------------------------------------
(* A call fails on a connection that answers: the partial is removed.        *)
Fail(c) ==
    /\ req[c].op # "idle" /\ faults < MaxFaults
    /\ faults' = faults + 1
    /\ req' = End(c, "failed") /\ Discarded(c)
    /\ UNCHANGED <<file, versions, edits>>

(* The connection is lost, or the manager is killed: the partial stays. The  *)
(* program in the container sees the end of its input: it removes its        *)
(* partial, unless all of it had arrived, when it goes on to rename.         *)
Lose(c) ==
    /\ req[c].op # "idle" /\ faults < MaxFaults
    /\ faults' = faults + 1
    /\ req' = End(c, "failed")
    /\ IF ~(Inside /\ req[c].op = "replace") THEN UNCHANGED <<file, part>>
       ELSE IF part[c].there /\ part[c].n = Size
       THEN file' = Content(c, Size) /\ Discarded(c)
       ELSE Discarded(c) /\ UNCHANGED file
    /\ UNCHANGED <<versions, edits>>

(* An hour without a write; and the sweep, which any later push or backup    *)
(* begins with, of what is that old.                                         *)
Age(c) == /\ part[c].there /\ ~part[c].old
          /\ part' = [part EXCEPT ![c].old = TRUE]
          /\ UNCHANGED <<file, req, versions, faults, edits>>
Stale(c) == part[c].there /\ part[c].old
Sweep(c) == /\ Stale(c) /\ Discarded(c)
            /\ UNCHANGED <<file, req, versions, faults, edits>>

(* The server's own users write and remove the file. An edit has a content   *)
(* of its own, and those who read before it have not seen it.                *)
Edit == /\ edits < MaxEdits /\ edits' = edits + 1
        /\ \/ file' = Content(<<"edit", edits>>, Size)
           \/ file # None /\ file' = None
        /\ req' = [c \in Clients |-> [req[c] EXCEPT !.edited = TRUE]]
        /\ UNCHANGED <<part, versions, faults>>

Init ==
    /\ file \in {None, Content(<<"edit", MaxEdits>>, Size)}
    /\ part = [c \in Clients |-> NoPart]
    /\ req = [c \in Clients |-> Free]
    /\ versions = [all |-> {}, newest |-> None] /\ faults = 0 /\ edits = 0

Step(c) ==
    \/ Look(c) \/ EnvStat(c) \/ ReadCurrent(c) \/ Keep(c) \/ OpenPartial(c) \/ WritePiece(c) \/ Written(c)
    \/ LookAgain(c) \/ RenameNew(c) \/ Replace(c) \/ Store(c)
    \/ DeleteStat(c) \/ Delete(c)
    \/ DownloadStat(c) \/ DownloadOpen(c) \/ Window(c) \/ DownloadEnd(c)

Next == \/ \E c \in Clients: \/ \E op \in Ops: Begin(c, op)
                             \/ Step(c) \/ Fail(c) \/ Lose(c) \/ Age(c) \/ Sweep(c)
        \/ Edit

Spec == Init /\ [][Next]_vars

-----------------------------------------------------------------------------
(* Nobody ever sees half a file under its name: neither a lost connection    *)
(* nor a server that kept fewer bytes than it was sent leaves one.           *)
NeverTorn == file # None => file.n = Size

(* An upload never replaces: a file that is there goes away only by a        *)
(* deletion, a push of a .env version, or the hand of the server's users.    *)
NeverReplaces ==
    (file # None /\ file' # file) =>
       \/ edits' # edits
       \/ \E c \in Clients: req[c].op \in {"delete", "replace"} /\ req'[c] # req[c]

(* A .env that a push replaces is among the kept versions, unless someone    *)
(* changed it on the server after the push had read it (another push puts    *)
(* there what a kept version holds).                                         *)
KeptBeforeReplaced ==
    \A c \in Clients: (/\ req[c].op = "replace" /\ req'[c] # req[c] /\ edits' = edits
                       /\ file # None /\ file' # file)
       => \/ file.of \in versions.all
          \/ file.of \in Clients \/ req[c].edited

(* What a download sends comes from one file, even when it is replaced,      *)
(* deleted or edited under the same name meanwhile.                          *)
DownloadIsOne == \A c \in Clients: Cardinality(req[c].got) <= 1

(* The sweep takes nothing that a request has written in the last hour.      *)
SweepSparesFresh ==
    \A c \in Clients: (part[c].there /\ ~part[c].old /\ ~part'[c].there)
                         => req'[c] # req[c]
=============================================================================
