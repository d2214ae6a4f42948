------------------------------- MODULE Accounts -------------------------------
(* The accounts of the manager: the setup of the first one, and what the       *)
(* master account and the command line do to the others. A request checks the  *)
(* role of who asks, reads the rows it needs and writes in a transaction, and  *)
(* no lock spans the three: other requests run in between. Only the setup page *)
(* holds a lease, which ends by itself when its holder stalls.                 *)
EXTENDS Naturals, FiniteSets, TLC

CONSTANTS Names,      \* usernames
          Clients,    \* requests in flight: browser tabs and commands
          Ops,        \* the operations of this instance
          Given,      \* the roles that are asked for
          Orphans,    \* users that exist without an account at the start
          Shell       \* who asks from a terminal: no user, every capability

AccountsAssumption ==
    Orphans \subseteq Names /\ Given \subseteq {"admin", "operator", "viewer", "master"} /\ Shell \notin Names

VARIABLES user,       \* [Names -> BOOLEAN]: the user exists
          role,       \* [Names -> role of the account row, or "none"]
          active,     \* [Names -> BOOLEAN]: is_active
          change,     \* [Names -> BOOLEAN]: password_change_required
          req,        \* [Clients -> request]
          lease,      \* client holding the setup lease, or Shell
          token       \* the setup token is on disk

vars == <<user, role, active, change, req, lease, token>>

Assignable == {"admin", "operator", "viewer"}
Idle == [op |-> "idle", at |-> "-", by |-> Shell, to |-> Shell, role |-> "none",
         on |-> FALSE, cur |-> Shell, first |-> FALSE, was |-> "none"]

-----------------------------------------------------------------------------
(* What the requests read.                                                   *)
AnyExist == \E n \in Names: user[n]
RoleOf(n) == IF ~user[n] \/ ~active[n] THEN "none"
             ELSE IF role[n] = "none" THEN "viewer" ELSE role[n]
Required(n) == IF n = Shell THEN TRUE ELSE RoleOf(n) = "master"
Master == {n \in Names: role[n] = "master"}
(* _other: the account is there, is not the master's and not one's own.      *)
Other(q) == role[q.to] \notin {"none", "master"} /\ q.to # q.by
(* The unique constraint on the master role, at the end of each statement.   *)
OneMaster(r) == Cardinality({n \in Names: r[n] = "master"}) <= 1

Leave(c) == req' = [req EXCEPT ![c] = Idle]
Refuse(c) == Leave(c) /\ UNCHANGED <<user, role, active, change, lease, token>>
Rows == <<user, role, active, change>>

-----------------------------------------------------------------------------
(* requires(ACCOUNTS_MANAGE): every operation but the setup.                 *)
Ask(c, op, by, to, r) ==
    /\ req[c] = Idle
    /\ op \in Ops \ {"setup", "run"}
    /\ Required(by)
    /\ op = "hand" => by # Shell
    /\ op = "make" => by = Shell
    /\ r = "none" <=> op \notin {"create", "role"}
    /\ req' = [req EXCEPT ![c] = [Idle EXCEPT !.op = op, !.at = "asked", !.by = by,
                                              !.to = to, !.role = r]]
    /\ UNCHANGED <<user, role, active, change, lease, token>>

Proceed(c, q) == /\ req' = [req EXCEPT ![c] = [q EXCEPT !.at = "read"]]
                 /\ UNCHANGED <<user, role, active, change, lease, token>>

ReadCreate(c) ==
    LET q == req[c] IN
    /\ q.op = "create" /\ q.at = "asked"
    /\ IF user[q.to] \/ (AnyExist /\ q.role \notin Assignable)
       THEN Refuse(c)
       ELSE Proceed(c, [q EXCEPT !.first = ~AnyExist])
ReadRole(c) ==
    LET q == req[c] IN
    /\ q.op = "role" /\ q.at = "asked"
    /\ IF ~Other(q) \/ q.role \notin Assignable \/ role[q.to] = q.role
       THEN Refuse(c) ELSE Proceed(c, [q EXCEPT !.was = role[q.to]])

ReadActive(c, on) ==
    LET q == req[c] IN
    /\ q.op = "active" /\ q.at = "asked"
    /\ IF ~Other(q) \/ active[q.to] = on
       THEN Refuse(c) ELSE Proceed(c, [q EXCEPT !.on = on])

ReadExpire(c) ==
    LET q == req[c] IN
    /\ q.op = "expire" /\ q.at = "asked"
    /\ IF Other(q) THEN Proceed(c, q) ELSE Refuse(c)

(* hand_over: the password and a current code are asked for again.           *)
ReadHand(c) ==
    LET q == req[c] IN
    /\ q.op = "hand" /\ q.at = "asked"
    /\ \/ Other(q) /\ active[q.to] /\ Proceed(c, [q EXCEPT !.cur = q.by])
       \/ Refuse(c)

ReadMake(c) ==
    LET q == req[c] IN
    /\ q.op = "make" /\ q.at = "asked"
    /\ IF role[q.to] = "none" \/ q.to \in Master \/ ~active[q.to]
       THEN Refuse(c)
       ELSE \E m \in IF Master = {} THEN {Shell} ELSE Master:
                Proceed(c, [q EXCEPT !.cur = m])

-----------------------------------------------------------------------------
(* The transactions. One that breaks a constraint changes nothing.           *)
Saved(c, r) == /\ role' = IF OneMaster(r) THEN r ELSE role
               /\ Leave(c)

WriteCreate(c) ==
    LET q == req[c]
        r == [role EXCEPT ![q.to] = IF q.first THEN "master" ELSE q.role]
        ok == ~user[q.to] /\ OneMaster(r) IN
    /\ q.op = "create" /\ q.at = "read"
    /\ role' = IF ok THEN r ELSE role
    /\ user' = IF ok THEN [user EXCEPT ![q.to] = TRUE] ELSE user
    /\ active' = IF ok THEN [active EXCEPT ![q.to] = TRUE] ELSE active
    /\ change' = IF ok THEN [change EXCEPT ![q.to] = ~q.first] ELSE change
    /\ Leave(c)
    /\ UNCHANGED <<lease, token>>

WriteRole(c) ==
    LET q == req[c] IN
    /\ q.op = "role" /\ q.at = "read"
    /\ Saved(c, [role EXCEPT ![q.to] = q.role])
    /\ UNCHANGED <<user, active, change, lease, token>>

WriteActive(c) ==
    LET q == req[c] IN
    /\ q.op = "active" /\ q.at = "read"
    /\ active' = [active EXCEPT ![q.to] = q.on]
    /\ Leave(c)
    /\ UNCHANGED <<user, role, change, lease, token>>

WriteExpire(c) ==
    LET q == req[c] IN
    /\ q.op = "expire" /\ q.at = "read"
    /\ change' = [change EXCEPT ![q.to] = TRUE]
    /\ Leave(c)
    /\ UNCHANGED <<user, role, active, lease, token>>

(* AccountRepository.hand_over: the old master first, so that the constraint *)
(* holds after each of the two statements.                                   *)
HandedOver(q) == IF q.cur = Shell THEN <<[role EXCEPT ![q.to] = "master"]>>
                 ELSE LET down == [role EXCEPT ![q.cur] = "admin"] IN
                      <<down, [down EXCEPT ![q.to] = "master"]>>
WriteHand(c) ==
    LET q == req[c] s == HandedOver(q) IN
    /\ q.op \in {"hand", "make"} /\ q.at = "read"
    /\ role' = IF \A i \in DOMAIN s: OneMaster(s[i]) THEN s[Cardinality(DOMAIN s)] ELSE role
    /\ Leave(c)
    /\ UNCHANGED <<user, active, change, lease, token>>

-----------------------------------------------------------------------------
(* The list of accounts gives a viewer's account to users without one.       *)
AdoptOrphans ==
    /\ "list" \in Ops
    /\ \E n \in Names: user[n] /\ role[n] = "none"
    /\ role' = [n \in Names |-> IF user[n] /\ role[n] = "none" THEN "viewer" ELSE role[n]]
    /\ UNCHANGED <<user, active, change, req, lease, token>>

(* django_dbs run prints the setup link when there is no user: the question  *)
(* and the token are two steps.                                              *)
RunAsks(c) ==
    /\ req[c] = Idle /\ "run" \in Ops /\ ~AnyExist
    /\ req' = [req EXCEPT ![c] = [Idle EXCEPT !.op = "run", !.at = "run"]]
    /\ UNCHANGED <<Rows, lease, token>>
WriteToken(c) ==
    /\ req[c].at = "run"
    /\ token' = TRUE
    /\ Leave(c)
    /\ UNCHANGED <<Rows, lease>>

(* SetupService.complete.                                                    *)
Setup(c, n) ==
    /\ req[c] = Idle /\ "setup" \in Ops
    /\ req' = [req EXCEPT ![c] = [Idle EXCEPT !.op = "setup", !.at = "lease", !.to = n]]
    /\ UNCHANGED <<Rows, lease, token>>
Take(c) ==
    /\ req[c].at = "lease"
    /\ \/ lease = Shell /\ lease' = c
          /\ req' = [req EXCEPT ![c].at = "held"]
       \/ lease # Shell /\ Leave(c) /\ UNCHANGED lease
    /\ UNCHANGED <<Rows, token>>
Released(c) == lease' = IF lease = c THEN Shell ELSE lease
SetupCheck(c) ==
    /\ req[c].at = "held"
    /\ \/ AnyExist /\ Leave(c) /\ Released(c)
       \/ ~AnyExist /\ Leave(c) /\ Released(c)      \* a wrong token, a refused password
       \/ ~AnyExist /\ token /\ UNCHANGED lease
          /\ req' = [req EXCEPT ![c].at = "read"]
    /\ UNCHANGED <<Rows, token>>
SetupCreate(c) ==
    LET q == req[c] r == [role EXCEPT ![q.to] = "master"]
        ok == ~user[q.to] /\ OneMaster(r) IN
    /\ q.op = "setup" /\ q.at = "read"
    /\ user' = IF ok THEN [user EXCEPT ![q.to] = TRUE] ELSE user
    /\ role' = IF ok THEN r ELSE role
    /\ active' = IF ok THEN [active EXCEPT ![q.to] = TRUE] ELSE active
    /\ Released(c)
    /\ req' = [req EXCEPT ![c] = IF ok THEN [q EXCEPT !.at = "made"] ELSE Idle]
    /\ UNCHANGED <<change, token>>
RemoveToken(c) ==
    /\ req[c].at = "made"
    /\ token' = FALSE
    /\ Leave(c)
    /\ UNCHANGED <<Rows, lease>>

(* The lease of a setup that stalls for its 90 seconds, and a manager killed *)
(* in the middle of a request: the request is gone, its lease is not.        *)
LeaseExpires == /\ lease # Shell
                /\ lease' = Shell
                /\ UNCHANGED <<Rows, req, token>>
Crash(c) == /\ req[c] # Idle
            /\ Leave(c)
            /\ UNCHANGED <<Rows, lease, token>>

-----------------------------------------------------------------------------
Init ==
    /\ user = [n \in Names |-> n \in Orphans]
    /\ role = [n \in Names |-> "none"]
    /\ active = [n \in Names |-> n \in Orphans]
    /\ change = [n \in Names |-> FALSE]
    /\ req = [c \in Clients |-> Idle]
    /\ lease = Shell
    /\ token = FALSE

Step(c) ==
    \/ ReadCreate(c) \/ ReadRole(c) \/ ReadExpire(c) \/ ReadHand(c) \/ ReadMake(c)
    \/ \E on \in BOOLEAN: ReadActive(c, on)
    \/ WriteCreate(c) \/ WriteRole(c) \/ WriteActive(c) \/ WriteExpire(c) \/ WriteHand(c)
    \/ WriteToken(c) \/ Take(c) \/ SetupCheck(c) \/ SetupCreate(c) \/ RemoveToken(c)

Next ==
    \/ \E c \in Clients, op \in Ops, by \in Names \cup {Shell}, to \in Names, r \in Given \cup {"none"}:
          Ask(c, op, by, to, r)
    \/ \E c \in Clients: Step(c) \/ RunAsks(c) \/ Crash(c)
    \/ \E c \in Clients, n \in Names: Setup(c, n)
    \/ AdoptOrphans
    \/ LeaseExpires

Spec == Init /\ [][Next]_vars

-----------------------------------------------------------------------------

(* Whatever setups, commands and hand-overs run at once, no two accounts are *)
(* the master, and who has the role has a user.                              *)
AtMostOneMaster == Cardinality(Master) <= 1 /\ \A n \in Master: user[n]

Created(n) == ~user[n] /\ user'[n]

(* The first account is the master and every later one is not, even when two *)
(* were both told that there is none yet, unless the master was lost.        *)
FirstIsMaster ==
    \A n \in Names: Created(n) =>
       /\ ~AnyExist => role'[n] = "master"
       /\ role'[n] = "master" => Master = {}

(* Where nobody changes roles, no later account is the master at all.        *)
OnlyFirstIsMaster == \A n \in Names: Created(n) /\ role'[n] = "master" => ~AnyExist

(* Setups and hand-overs leave no moment without a master: once there is an  *)
(* account, there is a master.                                               *)
AlwaysAMaster == (\E n \in Names: role[n] # "none") => Master # {}

Demoted(n) == role'[n] # "master" /\ \A m \in Names: role'[m] # "master"
Stale(c) == WriteRole(c) /\ req[c].was \notin {"none", "master"}

(* A master loses the role in the step that gives it to another account, or  *)
(* to a change of role that read the account before it became the master.    *)
NotDemoted ==
    \A n \in Master: Demoted(n) => \E c \in Clients: Stale(c) /\ req[c].to = n

(* "It cannot be demoted or switched off" (docs/manager.md): no step leaves  *)
(* the manager without the master it had.                                    *)
NeverDemoted == \A n \in Master: ~Demoted(n)

(* Giving the role away works: a hand-over whose master is still the master *)
(* is not refused by the constraint, and ends with its successor.            *)
HandOverWorks ==
    \A c \in Clients: (WriteHand(c) /\ req[c].cur \in Master)
                      => role'[req[c].to] = "master"

-----------------------------------------------------------------------------
(* Why they hold: the inductive invariants.                                  *)

Roles == Assignable \cup {"none", "master"}
Request == [op : Ops \cup {"idle", "setup", "run"},
            at : {"-", "asked", "read", "run", "lease", "held", "made"},
            by : Names \cup {Shell}, to : Names \cup {Shell}, role : Roles, on : BOOLEAN,
            cur : Names \cup {Shell}, first : BOOLEAN, was : Roles]
Typed == /\ role \in [Names -> Roles] /\ user \in [Names -> BOOLEAN]
         /\ req \in [Clients -> Request]

HasRole(n) == n \in Names /\ role[n] # "none"
RolesHaveUsers == \A n \in Names: role[n] # "none" => user[n]
OnlyMaster == \A m, n \in Master: m = n
(* What a request has read of other accounts: that they are there.           *)
ReadAreThere ==
    \A c \in Clients: LET q == req[c] IN
        /\ q.op = "hand" => HasRole(q.by)
        /\ q.at = "read" /\ q.op \in {"role", "hand", "make"} => HasRole(q.to)
        /\ q.at = "read" /\ q.op \in {"hand", "make"} => q.cur = Shell \/ HasRole(q.cur)
(* The roles that a request may write, and the names it writes about.        *)
ReadAreAssignable ==
    \A c \in Clients: LET q == req[c] IN
        /\ q.at # "-" /\ q.at # "run" => q.to \in Names
        /\ q.at \in {"lease", "held"} => q.op = "setup"
        /\ q.at = "read" /\ q.op = "role" => q.role \in Assignable
        /\ q.at = "read" /\ q.op = "create" /\ ~q.first => q.role \in Assignable
MasterInv == Typed /\ RolesHaveUsers /\ OnlyMaster /\ ReadAreThere /\ ReadAreAssignable

(* One that is not the first was told so by an account that stays.           *)
LaterSawOne == \A c \in Clients:
    req[c].op = "create" /\ req[c].at = "read" /\ ~req[c].first => AnyExist
(* A change of role is not refused only where it read another role.          *)
ReadAnother == \A c \in Clients:
    req[c].op = "role" /\ req[c].at = "read" => req[c].was \notin {"none", "master"}
FirstInv == MasterInv /\ LaterSawOne /\ ReadAnother

=============================================================================
