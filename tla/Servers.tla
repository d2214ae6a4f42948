-------------------------------- MODULE Servers --------------------------------
(***************************************************************************)
(* The rows of servers and applications, and the moves that hold servers:   *)
(* ServerService, the application's create and delete, RelocationService's  *)
(* queue and ServerMoveLock, with its sweep.  A request reads and validates *)
(* first and writes later, after a password or a connection; between the    *)
(* two, other requests come and go.                                         *)
(***************************************************************************)
EXTENDS Naturals, FiniteSets

CONSTANTS
    Server, Names, HostKeys, Apps, Requests, Moves,
    Machine,     \* Machine[s]: the address of the machine that s names
    Presents,    \* Presents[x]: the host key that the machine x presents
    None,
    Ops,         \* the requests that users make in this model
    Sweeps,      \* BOOLEAN: the sweep of abandoned locks is due
    Expiry,      \* BOOLEAN: a move may outlast BACKUP_TASK_TIME_LIMIT
    MaxCrashes,  \* bound: deaths of the manager
    MaxRequests  \* bound: requests in all

ServersAssumption ==
    /\ None \notin Server \cup Names \cup HostKeys \cup Apps \cup Moves
    /\ Machine \in [Server -> DOMAIN Presents]
    /\ \A x \in DOMAIN Presents : Presents[x] \in HostKeys
    /\ {Sweeps, Expiry} \subseteq BOOLEAN
    /\ {MaxCrashes, MaxRequests} \subseteq Nat

VARIABLES
    row,      \* row[s]: the server's row
    home,     \* home[a]: the server of a live application, or None
    req,      \* req[r]: what a request has read and is about to write
    move,     \* move[m]: the row of a move's job and its pool thread
    lock,     \* lock[s]: the move whose id is in the cache for s
    janitor,  \* release_abandoned_locks
    crashes, requests,
    robbed      \* history: moves under way that lost a lock before they let it go

vars == <<row, home, req, move, lock, janitor, crashes, requests, robbed>>

Methods == {"key", "password"}
NoRow == [live |-> FALSE, new |-> TRUE, name |-> None, method |-> "key", holds |-> {},
          pin |-> None, check |-> "unknown", seen |-> None]
Idle == [op |-> "idle"]
NoJanitor == [step |-> "idle", boot |-> FALSE, unfinished |-> {}, left |-> {}]

\* A row as ServerService.create saves it.
Created(n, k) == [live |-> TRUE, new |-> FALSE, name |-> n, method |-> "key",
                  holds |-> {"key"}, pin |-> k, check |-> "unknown", seen |-> None]

Init ==
    /\ \E there \in SUBSET Server, name \in [Server -> Names] :
         /\ there # {} /\ \A s, t \in there : s # t => name[s] # name[t]
         /\ \A s \in Server \ there : name[s] = CHOOSE n \in Names : TRUE
         /\ row = [s \in Server |-> IF s \in there THEN Created(name[s], Presents[Machine[s]])
                                   ELSE NoRow]
    /\ home = [a \in Apps |-> None]
    /\ req = [r \in Requests |-> Idle]
    /\ move = [m \in Moves |-> [status |-> "none", from |-> None, to |-> None, at |-> "none"]]
    /\ lock = [s \in Server |-> None]
    /\ janitor = NoJanitor
    /\ crashes = 0 /\ requests = 0 /\ robbed = {}

-----------------------------------------------------------------------------
(* Requests.  Begins(r, q): request r has read what it needs and holds q.     *)

Live(s) == row[s].live
NameInUse(n, but) == \E s \in Server \ {but} : Live(s) /\ row[s].name = n
On(s) == {a \in Apps : home[a] = s}
Held(s) == lock[s] # None

Begins(r, q) ==
    /\ req[r] = Idle
    /\ requests < MaxRequests
    /\ q.op \in Ops
    /\ req' = [req EXCEPT ![r] = q]
    /\ requests' = requests + 1
    /\ UNCHANGED <<row, home, move, lock, janitor, crashes, robbed>>

Ends(r) == req' = [req EXCEPT ![r] = Idle] /\ UNCHANGED <<move, lock, janitor, crashes, requests, robbed>>
Writes(r, s, to) == Ends(r) /\ row' = [row EXCEPT ![s] = to] /\ UNCHANGED home

\* create: the name is free as far as the request can see.
BeginCreate(r, s, n, k) ==
    /\ row[s].new /\ ~ NameInUse(n, s)
    /\ Begins(r, [op |-> "create", s |-> s, n |-> n, k |-> k])

\* create: the unique constraint of the table decides, and _saved reports it.
Create(r) ==
    LET q == req[r] IN
    /\ q.op = "create"
    /\ Writes(r, q.s, IF NameInUse(q.n, q.s) \/ ~ row[q.s].new THEN row[q.s] ELSE Created(q.n, q.k))

\* update of the name.
BeginRename(r, s, n) ==
    /\ Live(s) /\ ~ NameInUse(n, s)
    /\ Begins(r, [op |-> "rename", s |-> s, n |-> n])

\* update, _saved: the columns that changed are written, even if the row was
\* removed meanwhile; among live rows the name is unique.
Rename(r) ==
    LET q == req[r] IN
    /\ q.op = "rename"
    /\ Writes(r, q.s, IF Live(q.s) /\ NameInUse(q.n, q.s) THEN row[q.s]
                      ELSE [row[q.s] EXCEPT !.name = q.n])

\* _credentials: a credential for the method is given, or the row has it.
BeginSignIn(r, s, m, given) ==
    /\ Live(s)
    /\ given \/ m \in row[s].holds
    /\ Begins(r, [op |-> "signin", s |-> s, m |-> m, given |-> given])

\* update of the sign-in: the other method's credential is dropped.
SignIn(r) ==
    LET q == req[r] IN
    /\ q.op = "signin"
    /\ Writes(r, q.s, [row[q.s] EXCEPT !.method = q.m,
                         !.holds = IF q.given THEN {q.m} ELSE @ \cap {q.m}])

BeginRepin(r, s, k) == Live(s) /\ Begins(r, [op |-> "repin", s |-> s, k |-> k])

\* repin: what the check has found no longer holds.
Repin(r) ==
    LET q == req[r] IN
    /\ q.op = "repin"
    /\ Writes(r, q.s, [row[q.s] EXCEPT !.pin = q.k, !.check = "unknown", !.seen = None])

\* connect, with the host key that the request has read.
Connects(pin, s) == pin = Presents[Machine[s]]

\* check reads the row and connects.
BeginCheck(r, s) ==
    /\ Live(s)
    /\ Begins(r, [op |-> "check", s |-> s, pin |-> row[s].pin])

\* check: the outcome is recorded; seen is the host key it was found with.
Check(r) ==
    LET q == req[r] IN
    /\ q.op = "check"
    /\ Writes(r, q.s, IF Connects(q.pin, q.s)
                      THEN [row[q.s] EXCEPT !.check = "ok", !.seen = q.pin]
                      ELSE [row[q.s] EXCEPT !.check = "failed", !.seen = q.pin])

\* delete: no application and no move, when it looks.
BeginDelete(r, s) ==
    /\ Live(s)
    /\ On(s) = {} /\ ~ Held(s)
    /\ Begins(r, [op |-> "delete", s |-> s])

\* delete, once the password is confirmed.
Delete(r) == req[r].op = "delete" /\ Writes(r, req[r].s, [row[req[r].s] EXCEPT !.live = FALSE])

\* merge: two rows of one machine.
BeginMerge(r, s, t) ==
    /\ s # t /\ Live(s) /\ Live(t)
    /\ Machine[s] = Machine[t] /\ row[s].pin = row[t].pin
    /\ Begins(r, [op |-> "merge", s |-> s, t |-> t])

\* merge, in one transaction; no lock is asked for.
Merge(r) ==
    LET q == req[r] IN
    /\ q.op = "merge"
    /\ home' = [a \in Apps |-> IF home[a] = q.s THEN q.t ELSE home[a]]
    /\ row' = [row EXCEPT ![q.s].live = FALSE]
    /\ Ends(r)

\* ApplicationService.create reads the server ...
BeginAddApp(r, a, s) ==
    /\ Live(s) /\ home[a] = None
    /\ Begins(r, [op |-> "addapp", a |-> a, s |-> s])

\* ... and saves the application later.
AddApp(r) ==
    /\ req[r].op = "addapp"
    /\ home' = IF home[req[r].a] = None THEN [home EXCEPT ![req[r].a] = req[r].s] ELSE home
    /\ UNCHANGED row
    /\ Ends(r)

\* ApplicationService.delete
RemoveApp(a) ==
    /\ home[a] # None /\ requests < MaxRequests
    /\ home' = [home EXCEPT ![a] = None]
    /\ requests' = requests + 1
    /\ UNCHANGED <<row, req, move, lock, janitor, crashes, robbed>>

-----------------------------------------------------------------------------
(* Moves. *)

\* RelocationService.start reads both servers.
BeginMove(r, m, s, t) ==
    /\ s # t /\ Live(s) /\ Live(t)
    /\ move[m].status = "none"
    /\ \A q \in Requests : req[q].op = "move" => req[q].m # m
    /\ Begins(r, [op |-> "move", m |-> m, s |-> s, t |-> t])

\* ServerMoveLock.acquire: all or none.
Acquire(s, t) == ~ Held(s) /\ ~ Held(t)

\* _queue: the job's row and its locks, in one transaction.
QueueMove(r) ==
    LET q == req[r] IN
    /\ q.op = "move"
    /\ IF Acquire(q.s, q.t)
       THEN /\ lock' = [lock EXCEPT ![q.s] = q.m, ![q.t] = q.m]
            /\ move' = [move EXCEPT ![q.m] = [status |-> "queued", from |-> q.s, to |-> q.t,
                                              at |-> "pool"]]
       ELSE UNCHANGED <<lock, move>>
    /\ req' = [req EXCEPT ![r] = Idle]
    /\ UNCHANGED <<row, home, janitor, crashes, requests, robbed>>

MoveStep(m, status, at) ==
    /\ move' = [move EXCEPT ![m].status = status, ![m].at = at]
    /\ UNCHANGED <<row, home, req, janitor, crashes, requests, robbed>>

\* run: started, unless somebody has ended its row; then _let_go.
StartMove(m) ==
    /\ move[m].at = "pool"
    /\ IF move[m].status = "queued" THEN MoveStep(m, "running", "work")
                                    ELSE MoveStep(m, move[m].status, "release")
    /\ UNCHANGED lock

\* run: succeed or fail.
EndMove(m) ==
    /\ move[m].at = "work"
    /\ MoveStep(m, "ended", "release")
    /\ UNCHANGED lock

\* ServerMoveLock.release: only what the move still holds.
Release(m) ==
    /\ move[m].at = "release"
    /\ MoveStep(m, move[m].status, "none")
    /\ lock' = [s \in Server |-> IF lock[s] = m THEN None ELSE lock[s]]

\* The cache forgets a lock after BACKUP_TASK_TIME_LIMIT, which a running
\* move renews for its lease and not for its locks.
Expire(m) ==
    /\ Expiry
    /\ move[m].at \in {"pool", "work"}
    /\ lock' = [s \in Server |-> IF lock[s] = m THEN None ELSE lock[s]]
    /\ robbed' = robbed \cup {m}
    /\ UNCHANGED <<row, home, req, move, janitor, crashes, requests>>

\* The manager dies with its threads and requests; the next one interrupts
\* what is unfinished before it serves.
Crash ==
    /\ crashes < MaxCrashes
    /\ crashes' = crashes + 1
    /\ req' = [r \in Requests |-> Idle]
    /\ move' = [m \in Moves |-> [move[m] EXCEPT !.at = "none",
                   !.status = IF @ \in {"queued", "running"} THEN "ended" ELSE @]]
    /\ janitor' = [NoJanitor EXCEPT !.step = "read", !.boot = TRUE]
    /\ UNCHANGED <<row, home, lock, requests, robbed>>

Unfinished == {m \in Moves : move[m].status \in {"queued", "running"}}

\* sweep, every quarter of an hour.
SweepBegins ==
    /\ Sweeps
    /\ janitor = NoJanitor
    /\ janitor' = [NoJanitor EXCEPT !.step = "read"]
    /\ UNCHANGED <<row, home, req, move, lock, crashes, requests, robbed>>

\* release_abandoned_locks reads the unfinished jobs once ...
ReadUnfinished ==
    /\ janitor.step = "read"
    /\ janitor' = [janitor EXCEPT !.step = "scan", !.unfinished = Unfinished, !.left = Server]
    /\ UNCHANGED <<row, home, req, move, lock, crashes, requests, robbed>>

Abandoned(s) == Held(s) /\ lock[s] \notin janitor.unfinished

\* ... and release_abandoned deletes the locks of all others.
Scan(s) ==
    /\ janitor.step = "scan" /\ s \in janitor.left
    /\ lock' = IF Abandoned(s) THEN [lock EXCEPT ![s] = None] ELSE lock
    /\ robbed' = IF Abandoned(s) /\ move[lock[s]].at # "none" THEN robbed \cup {lock[s]} ELSE robbed
    /\ janitor' = IF janitor.left = {s} THEN NoJanitor ELSE [janitor EXCEPT !.left = @ \ {s}]
    /\ UNCHANGED <<row, home, req, move, crashes, requests>>

Serving == ~ janitor.boot

Begin(r) ==
    /\ Serving
    /\ \/ \E s \in Server, n \in Names, k \in HostKeys : BeginCreate(r, s, n, k)
       \/ \E s \in Server, n \in Names : BeginRename(r, s, n)
       \/ \E s \in Server, m \in Methods, given \in BOOLEAN : BeginSignIn(r, s, m, given)
       \/ \E s \in Server, k \in HostKeys : BeginRepin(r, s, k)
       \/ \E s \in Server : BeginCheck(r, s) \/ BeginDelete(r, s)
       \/ \E s, t \in Server : BeginMerge(r, s, t)
       \/ \E a \in Apps, s \in Server : BeginAddApp(r, a, s)
       \/ \E m \in Moves, s, t \in Server : BeginMove(r, m, s, t)

End(r) == \/ Create(r) \/ Rename(r) \/ SignIn(r) \/ Repin(r) \/ Check(r) \/ Delete(r)
          \/ Merge(r) \/ AddApp(r) \/ QueueMove(r)

Pool(m) == StartMove(m) \/ EndMove(m) \/ Release(m)
Janitor == ReadUnfinished \/ \E s \in Server : Scan(s)

Next ==
    \/ \E r \in Requests : Begin(r) \/ End(r)
    \/ \E a \in Apps : RemoveApp(a)
    \/ \E m \in Moves : Pool(m) \/ Expire(m)
    \/ SweepBegins \/ Janitor \/ Crash

Spec == Init /\ [][Next]_vars

-----------------------------------------------------------------------------

(* No two live servers have one name, whatever requests overlap.              *)
UniqueNames == \A s, t \in Server : Live(s) /\ Live(t) /\ s # t => row[s].name # row[t].name

(* A server that a check found ready presented the host key it was checked    *)
(* with: nothing is signed in to under a key that was not pinned.             *)
ReadyIsPinned == \A s \in Server : row[s].check = "ok" => row[s].seen = Presents[Machine[s]]

Clash(m, n) ==
    /\ m # n /\ move[m].at = "work" /\ move[n].at = "work"
    /\ {move[m].from, move[m].to} \cap {move[n].from, move[n].to} # {}

(* Two moves at work share no server, unless one of them lost a lock to the   *)
(* sweep or to the cache before it let go.                                    *)
OneMovePerServer == \A m, n \in Moves : Clash(m, n) => {m, n} \cap robbed # {}

(* "Only one move runs on a server at a time" (docs/deploy-and-move.md),      *)
(* however long it runs and whatever is swept meanwhile.                      *)
OneMoveAtATime == \A m, n \in Moves : ~ Clash(m, n)

(* A move at work holds both of its servers until it lets go itself, unless   *)
(* it lost them so.                                                           *)
WorkHoldsBoth ==
    \A m \in Moves \ robbed :
        move[m].at = "work" => lock[move[m].from] = m /\ lock[move[m].to] = m

-----------------------------------------------------------------------------
(* Why they hold: the inductive invariants. *)

ServerRow == [live : BOOLEAN, new : BOOLEAN, name : Names \cup {None}, method : Methods,
              holds : SUBSET Methods, pin : HostKeys \cup {None},
              check : {"unknown", "ok", "failed"}, seen : HostKeys \cup {None}]

(* What a request has in hand is of one of the kinds that Begin lists.        *)
Request ==
    {Idle} \cup [op : {"create"}, s : Server, n : Names, k : HostKeys]
    \cup [op : {"rename"}, s : Server, n : Names]
    \cup [op : {"signin"}, s : Server, m : Methods, given : BOOLEAN]
    \cup [op : {"repin"}, s : Server, k : HostKeys]
    \cup [op : {"check"}, s : Server, pin : HostKeys \cup {None}]
    \cup [op : {"delete"}, s : Server]
    \cup [op : {"merge"}, s : Server, t : Server]
    \cup [op : {"addapp"}, a : Apps, s : Server]
    \cup [op : {"move"}, m : Moves, s : Server, t : Server]
RowsTyped == row \in [Server -> ServerRow] /\ req \in [Requests -> Request]
RowsInv == RowsTyped /\ UniqueNames /\ ReadyIsPinned

(* A move that is asked for is nobody else's and has not begun.               *)
AskedOnce ==
    \A r \in Requests : req[r].op = "move" =>
        /\ move[req[r].m].status = "none"
        /\ \A q \in Requests : req[q].op = "move" /\ req[q].m = req[r].m => q = r
(* From the queue to its release, a move has the locks of both its servers,   *)
(* unless it was robbed of them.                                              *)
MovesHold ==
    \A m \in Moves : move[m].at # "none" =>
        /\ {move[m].from, move[m].to} \subseteq Server
        /\ m \in robbed \/ (lock[move[m].from] = m /\ lock[move[m].to] = m)
MoveInv ==
    /\ RowsTyped
    /\ lock \in [Server -> Moves \cup {None}]
    /\ move \in [Moves -> [status : {"none", "queued", "running", "ended"}, from : Server \cup {None},
                            to : Server \cup {None}, at : {"none", "pool", "work", "release"}]]
    /\ janitor \in [step : {"idle", "read", "scan"}, boot : BOOLEAN, unfinished : SUBSET Moves,
                    left : SUBSET Server]
    /\ \A m \in Moves : move[m].status = "none" => move[m].at = "none"
    /\ AskedOnce /\ MovesHold

=============================================================================
