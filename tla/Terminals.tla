------------------------------ MODULE Terminals ------------------------------
(* Which terminals the manager has open, for whom, and until when: opening one  *)
(* reserves its place, connects and only then adds it; meanwhile accounts       *)
(* change, browsers sign out or list their terminals, the sweep runs, and the   *)
(* manager stops.                                                               *)
EXTENDS Integers, FiniteSets

CONSTANTS Users, Browsers,   \* a browser is one signed-in session of its user
          UserOf,            \* [Browsers -> Users]
          Terms,             \* terminals that are opened in a behaviour
          MaxOpen, PerAccount,
          MaxChanges,        \* changes of a password or a role
          MaxFaults,         \* audit rows that the database refuses
          Listing,           \* browsers that show the list of terminals
          None

TerminalsAssumption == /\ MaxOpen \in Nat \ {0} /\ PerAccount \in Nat \ {0}
                              /\ UserOf \in [Browsers -> Users]

VARIABLES account,   \* [Users -> [allowed, version]]: version changes with password and role
          signedIn,  \* browsers whose session is valid
          opening,   \* [Browsers -> the request that opens a terminal]
          reserved,  \* [Users -> places held by requests]
          term,      \* [Terms -> terminal]
          stopped,   \* stop_terminals has run
          changes, faults, leaked,
          closer     \* history: the browser whose list closed a terminal

vars == <<account, signedIn, opening, reserved, term, stopped, changes, faults, leaked, closer>>

Unused == [st |-> "unused", key |-> None, version |-> 0, reason |-> "-"]
NoRequest == [at |-> "idle", version |-> 0]
Open(t) == term[t].st = "open"
Mine(u) == {t \in Terms: Open(t) /\ UserOf[term[t].key] = u}

Pending == Cardinality({b \in Browsers: opening[b].at # "idle"})

-----------------------------------------------------------------------------
(* reserve counts the terminals that are open and the requests under way.      *)
RoomOpenOnly(u) == Cardinality({t \in Terms: Open(t)}) < MaxOpen /\ Cardinality(Mine(u)) < PerAccount
Room(u) == /\ Cardinality({t \in Terms: Open(t)}) + Pending < MaxOpen
           /\ Cardinality(Mine(u)) + reserved[u] < PerAccount
Reserve(b) ==
    LET u == UserOf[b] IN
    /\ ~stopped /\ b \in signedIn /\ opening[b].at = "idle"
    /\ account[u].allowed /\ Room(u)
    /\ Cardinality({t \in Terms: term[t].st = "unused"}) > Pending
    /\ reserved' = [reserved EXCEPT ![u] = @ + 1]
    /\ opening' = [opening EXCEPT ![b] = [at |-> "connecting", version |-> account[u].version]]
    /\ UNCHANGED <<account, signedIn, term, stopped, changes, faults, leaked, closer>>

Unreserved(b) == reserved' = [reserved EXCEPT ![UserOf[b]] = @ - 1]

(* The connection and its shell open, or fail and are closed.                  *)
Connect(b) ==
    /\ opening[b].at = "connecting"
    /\ opening' = [opening EXCEPT ![b].at = "connected"]
    /\ UNCHANGED <<account, signedIn, reserved, term, stopped, changes, faults, leaked, closer>>
ConnectFails(b) ==
    /\ opening[b].at = "connecting"
    /\ opening' = [opening EXCEPT ![b] = NoRequest] /\ Unreserved(b)
    /\ UNCHANGED <<account, signedIn, term, stopped, changes, faults, leaked, closer>>
(* The row of the audit trail is not written: the connection is past the part  *)
(* of open that closes it.                                                     *)
RecordFails(b) ==
    /\ opening[b].at = "connected" /\ faults < MaxFaults
    /\ faults' = faults + 1 /\ leaked' = leaked + 1
    /\ opening' = [opening EXCEPT ![b] = NoRequest] /\ Unreserved(b)
    /\ UNCHANGED <<account, signedIn, term, stopped, changes, closer>>

(* add, and then the place is given back. The owner is what the request knew   *)
(* when it began.                                                              *)
OwnerVersion(b) == opening[b].version
Add(b) ==
    /\ opening[b].at = "connected"
    /\ LET t == CHOOSE t \in Terms: term[t].st = "unused" /\ \A o \in Terms: o < t => term[o].st # "unused" IN
       term' = [term EXCEPT ![t] = [st |-> "open", key |-> b, version |-> OwnerVersion(b),
                                    reason |-> "-"]]
    /\ opening' = [opening EXCEPT ![b].at = "added"]
    /\ UNCHANGED <<account, signedIn, reserved, stopped, changes, faults, leaked, closer>>
Release(b) ==
    /\ opening[b].at = "added"
    /\ opening' = [opening EXCEPT ![b] = NoRequest] /\ Unreserved(b)
    /\ UNCHANGED <<account, signedIn, term, stopped, changes, faults, leaked, closer>>

-----------------------------------------------------------------------------
Finished(which, reason) == [t \in Terms |-> IF t \in which /\ Open(t)
                                            THEN [term[t] EXCEPT !.st = "closed", !.reason = reason]
                                            ELSE term[t]]

(* still_allowed: the account as it was when the terminal was opened.          *)
StillAllowed(t) == LET u == account[UserOf[term[t].key]]
                   IN  u.allowed /\ u.version = term[t].version

(* list, and get for any single request: a terminal of the same account that   *)
(* another browser opened is closed as well.                                   *)
List(b) ==
    /\ ~stopped /\ b \in signedIn \cap Listing
    /\ LET gone == {t \in Mine(UserOf[b]): ~StillAllowed(t) \/ term[t].key # b} IN
       /\ gone # {} /\ term' = Finished(gone, "revoked")
       /\ closer' = [t \in Terms |-> IF t \in gone THEN b ELSE closer[t]]
    /\ UNCHANGED <<account, signedIn, opening, reserved, stopped, changes, faults, leaked>>
CloseIt(b, t) ==
    /\ ~stopped /\ b \in signedIn /\ Open(t) /\ term[t].key = b /\ StillAllowed(t)
    /\ term' = Finished({t}, "closed")
    /\ UNCHANGED <<account, signedIn, opening, reserved, stopped, changes, faults, leaked, closer>>

(* sweep_terminals: nobody polls a terminal whose browser is signed out.       *)
Sweep(t) ==
    /\ ~stopped /\ Open(t)
    /\ \/ ~StillAllowed(t) /\ term' = Finished({t}, "revoked")
       \/ /\ StillAllowed(t) /\ term[t].key \notin signedIn
          /\ term' = Finished({t}, "unpolled")
    /\ UNCHANGED <<account, signedIn, opening, reserved, stopped, changes, faults, leaked, closer>>
Overdue(t) ==
    /\ ~stopped /\ Open(t) /\ StillAllowed(t)
    /\ \E reason \in {"idle", "lifetime"}: term' = Finished({t}, reason)
    /\ UNCHANGED <<account, signedIn, opening, reserved, stopped, changes, faults, leaked, closer>>

(* close_signed_out.                                                           *)
SignOut(b) ==
    /\ ~stopped /\ b \in signedIn
    /\ signedIn' = signedIn \ {b}
    /\ term' = Finished({t \in Terms: term[t].key = b}, "signed out")
    /\ UNCHANGED <<account, opening, reserved, stopped, changes, faults, leaked, closer>>

(* A password or a role is changed, or the account is switched off.            *)
ChangeAccount(u) ==
    /\ ~stopped /\ changes < MaxChanges /\ changes' = changes + 1
    /\ \E allowed \in BOOLEAN:
          account' = [account EXCEPT ![u] = [allowed |-> allowed, version |-> @.version + 1]]
    /\ UNCHANGED <<signedIn, opening, reserved, term, stopped, faults, leaked, closer>>

Stop ==
    /\ ~stopped /\ stopped' = TRUE
    /\ term' = Finished(Terms, "stopped")
    /\ opening' = [b \in Browsers |-> NoRequest] /\ reserved' = [u \in Users |-> 0]
    /\ leaked' = 0
    /\ UNCHANGED <<account, signedIn, changes, faults, closer>>

Init ==
    /\ account = [u \in Users |-> [allowed |-> TRUE, version |-> 0]]
    /\ signedIn = Browsers
    /\ opening = [b \in Browsers |-> NoRequest]
    /\ reserved = [u \in Users |-> 0]
    /\ term = [t \in Terms |-> Unused]
    /\ closer = [t \in Terms |-> None]
    /\ stopped = FALSE /\ changes = 0 /\ faults = 0 /\ leaked = 0

Next ==
    \/ \E b \in Browsers: \/ Reserve(b) \/ Connect(b) \/ ConnectFails(b) \/ RecordFails(b)
                          \/ Add(b) \/ Release(b) \/ List(b) \/ SignOut(b)
                          \/ \E t \in Terms: CloseIt(b, t)
    \/ \E t \in Terms: Sweep(t) \/ Overdue(t)
    \/ \E u \in Users: ChangeAccount(u)
    \/ Stop

Spec == Init /\ [][Next]_vars

-----------------------------------------------------------------------------
(* The places reserved are those of requests under way, so that none is lost   *)
(* to a request that failed.                                                   *)
PlacesReturn == \A u \in Users:
    reserved[u] = Cardinality({b \in Browsers: UserOf[b] = u /\ opening[b].at # "idle"})

Shells(bs) == Cardinality({t \in Terms: Open(t) /\ term[t].key \in bs})
                + Cardinality({b \in bs: opening[b].at = "connected"})
(* However requests overtake each other, no more shells are open on the        *)
(* servers than the limits of the manager and of the account.                  *)
AtMost == /\ Shells(Browsers) + leaked <= MaxOpen
          /\ \A u \in Users: Shells({b \in Browsers: UserOf[b] = u}) <= PerAccount

Changed(t) == account[UserOf[term[t].key]].version > term[t].version
ClosedElsewhere(t) == /\ closer[t] \in Browsers \ {term[t].key}
                      /\ UserOf[closer[t]] = UserOf[term[t].key]

(* A terminal is closed as revoked only when its account changed, or by the    *)
(* list of another browser of that account.                                    *)
RevokedForChange == \A t \in Terms:
    term[t].reason = "revoked" => Changed(t) \/ ClosedElsewhere(t)

-----------------------------------------------------------------------------
(* Why they hold: the inductive invariants. *)

Reasons == {"-", "revoked", "closed", "unpolled", "idle", "lifetime", "signed out", "stopped"}
TypeOK ==
    /\ account \in [Users -> [allowed: BOOLEAN, version: Nat]]
    /\ signedIn \subseteq Browsers
    /\ opening \in [Browsers -> [at: {"idle", "connecting", "connected", "added"}, version: Nat]]
    /\ reserved \in [Users -> Int]
    /\ term \in [Terms -> [st: {"unused", "open", "closed"}, key: Browsers \cup {None}, version: Nat,
                           reason: Reasons]]
    /\ \A t \in Terms: Open(t) => term[t].key \in Browsers
    /\ closer \in [Terms -> Browsers \cup {None}]
    /\ {faults, leaked} \subseteq Nat

(* A request that has not added its terminal yet counts beside those that are  *)
(* open; a place is held until the terminal is added, so that the sum stays.   *)
AtWork(b) == opening[b].at \in {"connecting", "connected"}
Opened == {t \in Terms: Open(t)}
LimitsInv ==
    /\ PlacesReturn
    /\ Cardinality(Opened) + Cardinality({b \in Browsers: AtWork(b)}) <= MaxOpen
    /\ \A u \in Users: Cardinality(Mine(u)) + Cardinality({b \in Browsers: AtWork(b) /\ UserOf[b] = u})
                         <= PerAccount

(* What an account may was read when its version was, or it has changed since. *)
Known(u, version) == /\ version <= account[u].version
                     /\ version = account[u].version => account[u].allowed
RevokedInv ==
    /\ RevokedForChange
    /\ \A t \in Terms: Open(t) => Known(UserOf[term[t].key], term[t].version)
    /\ \A b \in Browsers: opening[b].at # "idle" => Known(UserOf[b], opening[b].version)
=============================================================================
