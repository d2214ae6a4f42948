------------------------------- MODULE Tickets -------------------------------
(***************************************************************************)
(* Downloads that need the account's password: sealed backups              *)
(* (dbs/manager/backups/services/backup_service.py) and env files          *)
(* (dbs/manager/files/services/file_service.py).  The browser gives the    *)
(* password once for a ticket (dbs/manager/common/tickets.py), then asks   *)
(* for the file with it.  A ticket is an entry of the manager's cache:     *)
(* redeem reads it, then deletes it, and only the delete that found it     *)
(* counts.                                                                 *)
(***************************************************************************)
EXTENDS Naturals, Sequences, FiniteSets, FiniteSetTheorems, TLAPS

CONSTANTS
    Users, Requests,
    Files,       \* what may be downloaded
    Named,       \* files whose name says that they are guarded: _names_env, sealed
    Guarded,     \* files that hold something guarded: _holds_env, sealed
    MaxIssued,   \* bound: tickets issued
    MaxAsked     \* bound: downloads asked for

TicketsAssumption ==
    /\ Named \subseteq Guarded /\ Guarded \subseteq Files
    /\ IsFiniteSet(Requests) /\ MaxIssued \in Nat

VARIABLES
    ticket,      \* ticket[t]: its holder <<user, file>>, or Gone
    issued,      \* tickets issued so far: the next token
    missing,     \* files that are not there when they are opened
    req,         \* req[r]: a download between two steps
    paid,        \* paid[u, f]: right passwords given for the file
    served,      \* served[u, f]: downloads of the file
    asked        \* downloads asked for

vars == <<ticket, issued, missing, req, paid, served, asked>>

Gone == <<>>
Tokens == 1 .. MaxIssued
Holders == Users \X Files
Idle == [at |-> "idle"]

Init ==
    /\ ticket = [t \in Tokens |-> Gone]
    /\ issued = 0
    /\ missing = {}
    /\ req = [r \in Requests |-> Idle]
    /\ paid = [h \in Holders |-> 0]
    /\ served = [h \in Holders |-> 0]
    /\ asked = 0

_holder(u, f) == <<u, f>>

\* download_ticket with the right password; a wrong one changes nothing.  A ticket is issued for any path
\* of an application, but not for a backup that is not sealed.
DownloadTicket(u, f) ==
    /\ issued < MaxIssued
    /\ issued' = issued + 1
    /\ ticket' = [ticket EXCEPT ![issued + 1] = _holder(u, f)]
    /\ paid' = [paid EXCEPT ![<<u, f>>] = @ + 1]
    /\ UNCHANGED <<missing, req, served, asked>>

\* the seconds of LIFETIME_SECONDS go by
Expire(t) ==
    /\ ticket[t] # Gone
    /\ ticket' = [ticket EXCEPT ![t] = Gone]
    /\ UNCHANGED <<issued, missing, req, paid, served, asked>>

Go(r, at) == req' = [req EXCEPT ![r].at = at]
Leave(r) == req' = [req EXCEPT ![r] = Idle]

\* download: a file whose name is guarded needs a ticket or a password at once
Download(r, u, f, t, password) ==
    /\ req[r] = Idle /\ asked < MaxAsked
    /\ asked' = asked + 1
    /\ f \in Named => t # 0 \/ password
    /\ req' = [req EXCEPT ![r] = [at |-> IF f \in Guarded THEN "get" ELSE "open",
                                  u |-> u, f |-> f, t |-> t, password |-> password]]
    /\ UNCHANGED <<ticket, issued, missing, paid, served>>

\* redeem: cache.get(key) == _holder(user, subject)
Matches(q) == ticket[q.t] = _holder(q.u, q.f)

Get(r) ==
    LET q == req[r] IN
    /\ q.at = "get" /\ q.t # 0 /\ Matches(q)
    /\ Go(r, "delete")
    /\ UNCHANGED <<ticket, issued, missing, paid, served, asked>>

\* _unlock without a ticket that matches: the password, if it was given
Confirm(r) ==
    LET q == req[r] IN
    /\ q.at = "get" /\ ~(q.t # 0 /\ Matches(q))
    /\ IF q.password
       THEN /\ Go(r, "open")
            /\ paid' = [paid EXCEPT ![<<q.u, q.f>>] = @ + 1]
       ELSE Leave(r) /\ UNCHANGED paid
    /\ UNCHANGED <<ticket, issued, missing, served, asked>>

\* bool(cache.delete(key)): another request may have taken it, or its time is up
Deleted(q) == ticket[q.t] # Gone

Delete(r) ==
    LET q == req[r] IN
    /\ q.at = "delete"
    /\ IF Deleted(q)
       THEN Go(r, "open") /\ UNCHANGED paid
       ELSE IF q.password
       THEN Go(r, "open") /\ paid' = [paid EXCEPT ![<<q.u, q.f>>] = @ + 1]
       ELSE Leave(r) /\ UNCHANGED paid
    /\ ticket' = [ticket EXCEPT ![q.t] = Gone]
    /\ UNCHANGED <<issued, missing, served, asked>>

\* the file is opened and sent; a backup whose file is gone is refused, its
\* ticket spent
Open(r) ==
    LET q == req[r] IN
    /\ q.at = "open"
    /\ served' = IF q.f \in missing THEN served ELSE [served EXCEPT ![<<q.u, q.f>>] = @ + 1]
    /\ Leave(r)
    /\ UNCHANGED <<ticket, issued, missing, paid, asked>>

\* the file is removed from where it was, or put there
Moved(f) ==
    /\ missing' = IF f \in missing THEN missing \ {f} ELSE missing \cup {f}
    /\ UNCHANGED <<ticket, issued, req, paid, served, asked>>

Next ==
    \/ \E u \in Users, f \in Files : DownloadTicket(u, f)
    \/ \E t \in Tokens : Expire(t)
    \/ \E r \in Requests, u \in Users, f \in Files, t \in 0 .. issued, p \in BOOLEAN :
          Download(r, u, f, t, p)
    \/ \E r \in Requests : Get(r) \/ Confirm(r) \/ Delete(r) \/ Open(r)
    \/ \E f \in Files : Moved(f)

Spec == Init /\ [][Next]_vars

---------------------------------------------------------------------------
(* Properties                                                              *)

\* "The password buys one download through a ticket": however requests with
\* the same ticket overlap and whenever it expires, an account downloads a
\* guarded file no oftener than it gave its password for that file.
OneDownload == \A h \in Users \X Guarded : served[h] <= paid[h]

---------------------------------------------------------------------------
(* Theorems                                                                *)

Asked == [at : {"get", "delete", "open"}, u : Users, f : Files, t : Nat, password : BOOLEAN]

TypeOK ==
    /\ ticket \in [Tokens -> Holders \cup {Gone}]
    /\ issued \in 0 .. MaxIssued
    /\ req \in [Requests -> Asked \cup {Idle}]
    /\ paid \in [Holders -> Nat]
    /\ served \in [Holders -> Nat]

Opened(h) == {r \in Requests : req[r] \in Asked /\ req[r].at = "open" /\ <<req[r].u, req[r].f>> = h}
Live(h) == {t \in Tokens : ticket[t] = h}

\* a password that was given is a ticket that is left, a download that may go on
\* or one that was served; a ticket that was found is that one or gone
PaidInv ==
    /\ TypeOK
    /\ \A t \in Tokens : t > issued => ticket[t] = Gone
    /\ \A r \in Requests : req[r] \in Asked => req[r].t <= issued
    /\ \A r \in Requests : req[r] \in Asked /\ req[r].at = "delete" =>
           req[r].t \in Tokens /\ ticket[req[r].t] \in {<<req[r].u, req[r].f>>, Gone}
    /\ \A h \in Users \X Guarded :
           served[h] + Cardinality(Opened(h)) + Cardinality(Live(h)) <= paid[h]

(* Counting: a set that gains at most one element, or loses one.             *)
LEMMA Counts ==
    ASSUME NEW S, IsFiniteSet(S), NEW T, NEW x
    PROVE  /\ Cardinality(S) \in Nat
           /\ T \subseteq S \cup {x} => IsFiniteSet(T) /\ Cardinality(T) <= Cardinality(S) + 1
           /\ T \subseteq S => IsFiniteSet(T) /\ Cardinality(T) <= Cardinality(S)
           /\ x \in S /\ T \subseteq S \ {x} => IsFiniteSet(T) /\ Cardinality(T) <= Cardinality(S) - 1
<1>1. Cardinality(S) \in Nat
  BY FS_CardinalityType
<1>2. /\ IsFiniteSet(S \cup {x}) /\ Cardinality(S \cup {x}) \in Nat
      /\ Cardinality(S \cup {x}) <= Cardinality(S) + 1
  BY <1>1, FS_AddElement, FS_CardinalityType
<1>3. x \in S => /\ IsFiniteSet(S \ {x}) /\ Cardinality(S \ {x}) \in Nat
                 /\ Cardinality(S \ {x}) = Cardinality(S) - 1
  BY <1>1, FS_RemoveElement, FS_CardinalityType
<1>4. T \subseteq S \cup {x} => IsFiniteSet(T) /\ Cardinality(T) <= Cardinality(S) + 1
  <2>1. ASSUME T \subseteq S \cup {x}
        PROVE  /\ IsFiniteSet(T) /\ Cardinality(T) \in Nat
               /\ Cardinality(T) <= Cardinality(S \cup {x})
    BY <1>2, <2>1, FS_Subset, FS_CardinalityType
  <2> QED
    BY <1>1, <1>2, <2>1
<1>5. T \subseteq S => IsFiniteSet(T) /\ Cardinality(T) <= Cardinality(S)
  BY FS_Subset
<1>6. x \in S /\ T \subseteq S \ {x} => IsFiniteSet(T) /\ Cardinality(T) <= Cardinality(S) - 1
  <2>1. ASSUME x \in S, T \subseteq S \ {x}
        PROVE  IsFiniteSet(T) /\ Cardinality(T) <= Cardinality(S \ {x})
    BY <1>3, <2>1, FS_Subset
  <2> QED
    BY <1>3, <2>1
<1> QED
  BY <1>1, <1>4, <1>5, <1>6

LEMMA FiniteSides ==
    ASSUME TicketsAssumption, NEW h
    PROVE  /\ IsFiniteSet(Opened(h)) /\ Cardinality(Opened(h)) \in Nat
           /\ IsFiniteSet(Live(h)) /\ Cardinality(Live(h)) \in Nat
<1>1. IsFiniteSet(Tokens)
  BY FS_Interval DEF TicketsAssumption, Tokens
<1> QED
  BY <1>1, FS_Subset, FS_CardinalityType DEF TicketsAssumption, Opened, Live

LEMMA HoldersAreNotGone == ASSUME NEW h \in Users \X Guarded PROVE h # Gone
<1>1. PICK u \in Users, f \in Guarded : h = <<u, f>>
  OBVIOUS
<1>2. Len(<<u, f>>) = 2 /\ Len(<<>>) = 0
  OBVIOUS
<1> QED
  BY <1>1, <1>2 DEF Gone

(* What a step of the request r does to the downloads that may go on.        *)
LEMMA OpenedAfter ==
    ASSUME TypeOK, NEW r \in Requests, NEW x, req' = [req EXCEPT ![r] = x], NEW h
    PROVE  /\ Opened(h)' \subseteq Opened(h) \cup {r}
           /\ ~ (x \in Asked /\ x.at = "open" /\ <<x.u, x.f>> = h) => Opened(h)' \subseteq Opened(h) \ {r}
BY DEF TypeOK, Opened

(* A ticket that is issued is paid for.                                      *)
LEMMA Issues ==
    ASSUME TicketsAssumption, PaidInv, TypeOK', NEW u \in Users, NEW f \in Files, DownloadTicket(u, f)
    PROVE  PaidInv'
<1>1. /\ issued + 1 \in Tokens /\ issued' = issued + 1 /\ ticket' = [ticket EXCEPT ![issued + 1] = <<u, f>>]
      /\ paid' = [paid EXCEPT ![<<u, f>>] = @ + 1] /\ req' = req /\ served' = served
  BY DEF DownloadTicket, _holder, Tokens, PaidInv, TypeOK, TicketsAssumption
<1>2. \A t \in Tokens : t > issued' => ticket'[t] = Gone
  BY <1>1 DEF PaidInv, TypeOK, Tokens
<1>3. ASSUME NEW r \in Requests, req'[r] \in Asked PROVE req'[r].t <= issued'
  BY <1>1, <1>3 DEF PaidInv, TypeOK, Asked
<1>4. ASSUME NEW r \in Requests, req'[r] \in Asked, req'[r].at = "delete"
      PROVE  req'[r].t \in Tokens /\ ticket'[req'[r].t] \in {<<req'[r].u, req'[r].f>>, Gone}
  <2>1. req[r].t <= issued /\ req[r].t \in Tokens /\ req[r].t # issued + 1
    BY <1>1, <1>4 DEF PaidInv, TypeOK, Tokens
  <2> QED
    BY <1>1, <1>4, <2>1 DEF PaidInv, TypeOK
<1>5. ASSUME NEW h \in Users \X Guarded
      PROVE  served'[h] + Cardinality(Opened(h)') + Cardinality(Live(h)') <= paid'[h]
  <2>1. /\ h \in Holders /\ served[h] \in Nat /\ paid[h] \in Nat
        /\ served[h] + Cardinality(Opened(h)) + Cardinality(Live(h)) <= paid[h]
    BY DEF PaidInv, TypeOK, Holders, TicketsAssumption
  <2>2. Opened(h)' = Opened(h)
    BY <1>1 DEF Opened
  <2>3. CASE h = <<u, f>>
    <3>1. Live(h)' \subseteq Live(h) \cup {issued + 1}
      BY <1>1 DEF Live, PaidInv, TypeOK
    <3>2. Cardinality(Live(h)') <= Cardinality(Live(h)) + 1 /\ Cardinality(Live(h)') \in Nat
      BY <3>1, FiniteSides, Counts
    <3> QED
      BY <1>1, <2>1, <2>2, <2>3, <3>2, FiniteSides DEF PaidInv, TypeOK
  <2>4. CASE h # <<u, f>>
    <3>1. Live(h)' \subseteq Live(h)
      BY <1>1, <2>4 DEF Live, PaidInv, TypeOK
    <3>2. Cardinality(Live(h)') <= Cardinality(Live(h)) /\ Cardinality(Live(h)') \in Nat
      BY <3>1, FiniteSides, Counts
    <3> QED
      BY <1>1, <2>1, <2>2, <2>4, <3>2, FiniteSides DEF PaidInv, TypeOK
  <2> QED
    BY <2>3, <2>4
<1> QED
  BY <1>2, <1>3, <1>4, <1>5 DEF PaidInv

(* A step of a request that spends at most its own ticket: what is left to   *)
(* show is that the books balance.                                           *)
LEMMA Balanced ==
    ASSUME TicketsAssumption, PaidInv, NEW r \in Requests, NEW x \in Asked \cup {Idle},
           req' = [req EXCEPT ![r] = x], issued' = issued,
           paid' \in [Holders -> Nat], served' \in [Holders -> Nat],
           ticket' \in [Tokens -> Holders \cup {Gone}],
           \A t \in Tokens : ticket'[t] \in {ticket[t], Gone},
           x \in Asked => x.t <= issued,
           x \in Asked /\ x.at = "delete" => x.t \in Tokens /\ ticket[x.t] \in {<<x.u, x.f>>, Gone},
           \A h \in Users \X Guarded :
               served'[h] + Cardinality(Opened(h)') + Cardinality(Live(h)') <= paid'[h]
    PROVE  PaidInv'
<1>1. TypeOK'
  BY DEF PaidInv, TypeOK
<1>2. \A t \in Tokens : t > issued' => ticket'[t] = Gone
  BY DEF PaidInv
<1>3. req'[r] = x /\ \A s \in Requests \ {r} : req'[s] = req[s]
  BY DEF PaidInv, TypeOK
<1>4. \A s \in Requests : req'[s] \in Asked => req'[s].t <= issued'
  BY <1>3 DEF PaidInv
<1>5. ASSUME NEW s \in Requests, req'[s] \in Asked, req'[s].at = "delete"
      PROVE  req'[s].t \in Tokens /\ ticket'[req'[s].t] \in {<<req'[s].u, req'[s].f>>, Gone}
  <2>1. req'[s].t \in Tokens /\ ticket[req'[s].t] \in {<<req'[s].u, req'[s].f>>, Gone}
    BY <1>3, <1>5 DEF PaidInv
  <2> QED
    BY <2>1
<1> QED
  BY <1>1, <1>2, <1>4, <1>5 DEF PaidInv

(* A step that lets the request r go on to the file f of the account u after *)
(* the password, or lets it go with nothing.                                 *)
LEMMA Pays ==
    ASSUME TicketsAssumption, PaidInv, NEW r \in Requests, req[r] \in Asked, req[r].at \in {"get", "delete"},
           UNCHANGED <<issued, served>>,
           ticket' \in [Tokens -> Holders \cup {Gone}],
           \A t \in Tokens : ticket'[t] \in {ticket[t], Gone},
           \/ /\ req' = [req EXCEPT ![r] = [req[r] EXCEPT !.at = "open"]]
              /\ paid' = [paid EXCEPT ![<<req[r].u, req[r].f>>] = @ + 1]
           \/ req' = [req EXCEPT ![r] = Idle] /\ paid' = paid
    PROVE  PaidInv'
<1> DEFINE q == req[r]
           g == <<q.u, q.f>>
<1>1. g \in Holders /\ q.t \in Nat /\ q.t <= issued
  BY DEF Asked, Holders, PaidInv
<1>2. paid' \in [Holders -> Nat] /\ \A h \in Holders : paid'[h] \in Nat /\ paid[h] \in Nat
  BY <1>1 DEF PaidInv, TypeOK
<1>3. PICK x \in Asked \cup {Idle} :
          /\ req' = [req EXCEPT ![r] = x]
          /\ x \in Asked => x.at = "open" /\ x.t = q.t
          /\ \/ x = [q EXCEPT !.at = "open"] /\ x \in Asked /\ <<x.u, x.f>> = g /\ paid' = [paid EXCEPT ![g] = @ + 1]
             \/ x = Idle /\ x \notin Asked /\ paid' = paid
  <2>1. Idle \notin Asked
    BY DEF Idle, Asked
  <2>2. /\ [q EXCEPT !.at = "open"] \in Asked /\ [q EXCEPT !.at = "open"].at = "open"
        /\ [q EXCEPT !.at = "open"].t = q.t /\ [q EXCEPT !.at = "open"].u = q.u
        /\ [q EXCEPT !.at = "open"].f = q.f
    BY DEF Asked
  <2> QED
    BY <2>1, <2>2
<1>4. ASSUME NEW h \in Users \X Guarded
      PROVE  served'[h] + Cardinality(Opened(h)') + Cardinality(Live(h)') <= paid'[h]
  <2>1. /\ h \in Holders /\ served[h] \in Nat /\ paid[h] \in Nat
        /\ served[h] + Cardinality(Opened(h)) + Cardinality(Live(h)) <= paid[h]
    BY DEF PaidInv, TypeOK, Holders, TicketsAssumption
  <2>2. Live(h)' \subseteq Live(h)
    <3>1. h # Gone
      BY HoldersAreNotGone
    <3> QED
      BY <3>1 DEF Live
  <2>3. Cardinality(Live(h)') <= Cardinality(Live(h)) /\ Cardinality(Live(h)') \in Nat
    BY <2>2, FiniteSides, Counts
  <2>4. CASE h = g /\ x \in Asked
    <3>1. Opened(h)' \subseteq Opened(h) \cup {r}
      BY <1>3, OpenedAfter DEF PaidInv
    <3>2. Cardinality(Opened(h)') <= Cardinality(Opened(h)) + 1 /\ Cardinality(Opened(h)') \in Nat
      BY <3>1, FiniteSides, Counts
    <3>3. paid'[h] = paid[h] + 1
      BY <1>1, <1>3, <2>1, <2>4 DEF PaidInv, TypeOK
    <3> QED
      BY <2>1, <2>3, <3>2, <3>3, FiniteSides
  <2>5. CASE ~ (h = g /\ x \in Asked)
    <3>1. Opened(h)' \subseteq Opened(h)
      <4>1. ~ (x \in Asked /\ x.at = "open" /\ <<x.u, x.f>> = h)
        BY <1>3, <2>5
      <4>2. TypeOK /\ req' = [req EXCEPT ![r] = x]
        BY <1>3 DEF PaidInv
      <4> QED
        BY <4>1, <4>2, OpenedAfter
    <3>2. Cardinality(Opened(h)') <= Cardinality(Opened(h)) /\ Cardinality(Opened(h)') \in Nat
      BY <3>1, FiniteSides, Counts
    <3>3. paid'[h] = paid[h]
      BY <1>1, <1>3, <2>1, <2>5 DEF PaidInv, TypeOK
    <3> QED
      BY <2>1, <2>3, <3>2, <3>3, FiniteSides
  <2> QED
    BY <2>4, <2>5
<1>5. x \in Asked => x.t <= issued /\ x.at # "delete"
  BY <1>1, <1>3
<1>6. served' \in [Holders -> Nat]
  BY DEF PaidInv, TypeOK
<1> QED
  BY <1>2, <1>3, <1>4, <1>5, <1>6, Balanced

(* The delete that found the ticket turns it into one download.              *)
LEMMA Spends ==
    ASSUME TicketsAssumption, PaidInv, NEW r \in Requests, Delete(r), Deleted(req[r])
    PROVE  PaidInv'
<1> DEFINE q == req[r]
           g == <<q.u, q.f>>
           x == [q EXCEPT !.at = "open"]
<1>1. /\ q \in Asked /\ q.at = "delete" /\ q.t \in Tokens /\ ticket[q.t] = g /\ q.t <= issued
      /\ g \in Holders
  <2>1. q.at = "delete" /\ q \in Asked /\ ticket[q.t] # Gone
    BY DEF Delete, Deleted, PaidInv, TypeOK, Idle
  <2> QED
    BY <2>1 DEF PaidInv, Asked, Holders
<1>2. x \in Asked /\ x.at = "open" /\ x.t = q.t /\ x.u = q.u /\ x.f = q.f
  BY <1>1 DEF Asked
<1>3. /\ req' = [req EXCEPT ![r] = x] /\ ticket' = [ticket EXCEPT ![q.t] = Gone]
      /\ UNCHANGED <<issued, paid, served>>
  BY DEF Delete, Go
<1> HIDE DEF x, q
<1>4. ASSUME NEW h \in Users \X Guarded
      PROVE  served'[h] + Cardinality(Opened(h)') + Cardinality(Live(h)') <= paid'[h]
  <2>1. /\ h \in Holders /\ served[h] \in Nat /\ paid[h] \in Nat /\ h # Gone
        /\ served[h] + Cardinality(Opened(h)) + Cardinality(Live(h)) <= paid[h]
    BY HoldersAreNotGone DEF PaidInv, TypeOK, Holders, TicketsAssumption
  <2>2. TypeOK /\ served'[h] = served[h] /\ paid'[h] = paid[h]
    BY <1>3 DEF PaidInv
  <2>3. CASE h = g
    <3>1. Opened(h)' \subseteq Opened(h) \cup {r}
      BY <1>3, <2>2, OpenedAfter
    <3>2. Cardinality(Opened(h)') <= Cardinality(Opened(h)) + 1 /\ Cardinality(Opened(h)') \in Nat
      BY <3>1, FiniteSides, Counts
    <3>3. q.t \in Live(h) /\ Live(h)' \subseteq Live(h) \ {q.t}
      BY <1>1, <1>3, <2>1, <2>2, <2>3 DEF Live, TypeOK
    <3>4. Cardinality(Live(h)') <= Cardinality(Live(h)) - 1 /\ Cardinality(Live(h)') \in Nat
      BY <3>3, FiniteSides, Counts
    <3> QED
      BY <2>1, <2>2, <3>2, <3>4, FiniteSides
  <2>4. CASE h # g
    <3>1. Opened(h)' \subseteq Opened(h)
      <4>1. <<x.u, x.f>> # h
        BY <1>2, <2>4
      <4> QED
        BY <1>3, <2>2, <4>1, OpenedAfter
    <3>2. Cardinality(Opened(h)') <= Cardinality(Opened(h)) /\ Cardinality(Opened(h)') \in Nat
      BY <3>1, FiniteSides, Counts
    <3>3. Live(h)' \subseteq Live(h)
      BY <1>1, <1>3, <2>1, <2>2 DEF Live, TypeOK
    <3>4. Cardinality(Live(h)') <= Cardinality(Live(h)) /\ Cardinality(Live(h)') \in Nat
      BY <3>3, FiniteSides, Counts
    <3> QED
      BY <2>1, <2>2, <3>2, <3>4, FiniteSides
  <2> QED
    BY <2>3, <2>4
<1>5. /\ paid' \in [Holders -> Nat] /\ served' \in [Holders -> Nat]
      /\ ticket' \in [Tokens -> Holders \cup {Gone}]
      /\ \A t \in Tokens : ticket'[t] \in {ticket[t], Gone}
  BY <1>3 DEF PaidInv, TypeOK
<1>6. x.t <= issued /\ x.at # "delete" /\ issued' = issued
  BY <1>1, <1>2, <1>3
<1> QED
  BY <1>2, <1>3, <1>4, <1>5, <1>6, Balanced

(* A download begins without being open, unless nothing in the file is       *)
(* guarded; one that matched a ticket is about to delete it.                 *)
LEMMA Begins ==
    ASSUME TicketsAssumption, PaidInv, NEW r \in Requests,
           \/ \E u \in Users, f \in Files, t \in 0 .. issued, p \in BOOLEAN : Download(r, u, f, t, p)
           \/ Get(r)
    PROVE  PaidInv'
<1>1. UNCHANGED <<ticket, issued, paid, served>>
  BY DEF Download, Get
<1>2. PICK x \in Asked : /\ req' = [req EXCEPT ![r] = x] /\ x.t <= issued
                         /\ x.at = "open" => x.f \notin Guarded
                         /\ x.at = "delete" => x.t \in Tokens /\ ticket[x.t] = <<x.u, x.f>>
  <2>1. ASSUME NEW u \in Users, NEW f \in Files, NEW t \in 0 .. issued, NEW p \in BOOLEAN,
               Download(r, u, f, t, p)
        PROVE  \E x \in Asked : /\ req' = [req EXCEPT ![r] = x] /\ x.t <= issued
                                /\ x.at = "open" => x.f \notin Guarded
                                /\ x.at = "delete" => x.t \in Tokens /\ ticket[x.t] = <<x.u, x.f>>
    <3> DEFINE x == [at |-> IF f \in Guarded THEN "get" ELSE "open",
                     u |-> u, f |-> f, t |-> t, password |-> p]
    <3>1. x \in Asked /\ x.t <= issued /\ x.at # "delete" /\ (x.at = "open" => x.f \notin Guarded)
      BY DEF PaidInv, TypeOK, Asked
    <3>2. req' = [req EXCEPT ![r] = x]
      BY <2>1 DEF Download
    <3> QED
      BY <3>1, <3>2
  <2>2. ASSUME Get(r)
        PROVE  \E x \in Asked : /\ req' = [req EXCEPT ![r] = x] /\ x.t <= issued
                                /\ x.at = "open" => x.f \notin Guarded
                                /\ x.at = "delete" => x.t \in Tokens /\ ticket[x.t] = <<x.u, x.f>>
    <3> DEFINE x == [req[r] EXCEPT !.at = "delete"]
    <3>1. req[r] \in Asked /\ req[r].t # 0 /\ ticket[req[r].t] = <<req[r].u, req[r].f>>
      BY <2>2 DEF Get, Matches, _holder, PaidInv, TypeOK, Idle
    <3>2. req[r].t \in Nat /\ req[r].t <= issued
      BY <3>1 DEF PaidInv, Asked
    <3>3. /\ x \in Asked /\ x.at = "delete" /\ x.t = req[r].t
          /\ x.u = req[r].u /\ x.f = req[r].f
      BY <3>1 DEF Asked
    <3>4. req' = [req EXCEPT ![r] = x]
      BY <2>2 DEF Get, Go
    <3>5. req[r].t \in Tokens
      BY <3>1, <3>2 DEF PaidInv, TypeOK, Tokens, TicketsAssumption
    <3> QED
      BY <3>1, <3>2, <3>3, <3>4, <3>5
  <2> QED
    BY <2>1, <2>2
<1>3. ASSUME NEW h \in Users \X Guarded
      PROVE  served'[h] + Cardinality(Opened(h)') + Cardinality(Live(h)') <= paid'[h]
  <2>1. /\ h \in Holders /\ served[h] \in Nat /\ paid[h] \in Nat
        /\ served[h] + Cardinality(Opened(h)) + Cardinality(Live(h)) <= paid[h]
    BY DEF PaidInv, TypeOK, Holders, TicketsAssumption
  <2>2. ~ (x.at = "open" /\ <<x.u, x.f>> = h)
    BY <1>2
  <2>3. Opened(h)' \subseteq Opened(h)
    BY <1>2, <2>2, OpenedAfter DEF PaidInv
  <2>4. Cardinality(Opened(h)') <= Cardinality(Opened(h)) /\ Cardinality(Opened(h)') \in Nat
    BY <2>3, FiniteSides, Counts
  <2>5. Live(h)' = Live(h)
    BY <1>1 DEF Live
  <2> QED
    BY <1>1, <2>1, <2>4, <2>5, FiniteSides
<1>4. /\ paid' \in [Holders -> Nat] /\ served' \in [Holders -> Nat]
      /\ ticket' \in [Tokens -> Holders \cup {Gone}]
      /\ \A t \in Tokens : ticket'[t] \in {ticket[t], Gone}
  BY <1>1 DEF PaidInv, TypeOK
<1> QED
  BY <1>1, <1>2, <1>3, <1>4, Balanced

(* An open download is served once, or refused.                              *)
LEMMA Serves ==
    ASSUME TicketsAssumption, PaidInv, NEW r \in Requests, Open(r)
    PROVE  PaidInv'
<1> DEFINE g == <<req[r].u, req[r].f>>
<1>1. req[r] \in Asked /\ req[r].at = "open" /\ g \in Holders
  <2>1. req[r] \in Asked /\ req[r].at = "open"
    BY DEF Open, PaidInv, TypeOK, Idle
  <2> QED
    BY <2>1 DEF Asked, Holders
<1>2. /\ req' = [req EXCEPT ![r] = Idle] /\ UNCHANGED <<ticket, issued, paid>>
      /\ served' = served \/ served' = [served EXCEPT ![g] = @ + 1]
  BY DEF Open, Leave
<1>3. Idle \notin Asked
  BY DEF Idle, Asked
<1>4. /\ served' \in [Holders -> Nat] /\ paid' \in [Holders -> Nat]
      /\ \A h \in Holders : served'[h] <= served[h] + 1 /\ (h # g => served'[h] = served[h])
  BY <1>1, <1>2 DEF PaidInv, TypeOK
<1>5. ASSUME NEW h \in Users \X Guarded
      PROVE  served'[h] + Cardinality(Opened(h)') + Cardinality(Live(h)') <= paid'[h]
  <2>1. /\ h \in Holders /\ served[h] \in Nat /\ paid[h] \in Nat /\ served'[h] \in Nat
        /\ served[h] + Cardinality(Opened(h)) + Cardinality(Live(h)) <= paid[h]
    BY <1>4 DEF PaidInv, TypeOK, Holders, TicketsAssumption
  <2>2. Opened(h)' \subseteq Opened(h) \ {r}
    BY <1>2, <1>3, OpenedAfter DEF PaidInv
  <2>3. Live(h)' = Live(h) /\ paid'[h] = paid[h]
    BY <1>2 DEF Live
  <2>4. CASE h = g
    <3>1. r \in Opened(h)
      BY <1>1, <2>4 DEF Opened
    <3>2. Cardinality(Opened(h)') <= Cardinality(Opened(h)) - 1 /\ Cardinality(Opened(h)') \in Nat
      BY <2>2, <3>1, FiniteSides, Counts
    <3> QED
      BY <1>4, <2>1, <2>3, <3>2, FiniteSides
  <2>5. CASE h # g
    <3>1. Cardinality(Opened(h)') <= Cardinality(Opened(h)) /\ Cardinality(Opened(h)') \in Nat
      BY <2>2, FiniteSides, Counts
    <3> QED
      BY <1>4, <2>1, <2>3, <2>5, <3>1, FiniteSides
  <2> QED
    BY <2>4, <2>5
<1>6. /\ ticket' \in [Tokens -> Holders \cup {Gone}]
      /\ \A t \in Tokens : ticket'[t] \in {ticket[t], Gone}
  BY <1>2 DEF PaidInv, TypeOK
<1> QED
  BY <1>2, <1>3, <1>4, <1>5, <1>6, Balanced

(* A ticket whose time is up is paid for and never served.                   *)
LEMMA Expires ==
    ASSUME TicketsAssumption, PaidInv, NEW t \in Tokens, Expire(t)
    PROVE  PaidInv'
<1>1. ticket' = [ticket EXCEPT ![t] = Gone] /\ UNCHANGED <<issued, req, paid, served>>
  BY DEF Expire
<1>2. /\ ticket' \in [Tokens -> Holders \cup {Gone}]
      /\ \A s \in Tokens : ticket'[s] \in {ticket[s], Gone}
  BY <1>1 DEF PaidInv, TypeOK
<1>3. ASSUME NEW h \in Users \X Guarded
      PROVE  served'[h] + Cardinality(Opened(h)') + Cardinality(Live(h)') <= paid'[h]
  <2>1. /\ h \in Holders /\ served[h] \in Nat /\ paid[h] \in Nat
        /\ served[h] + Cardinality(Opened(h)) + Cardinality(Live(h)) <= paid[h]
    BY DEF PaidInv, TypeOK, Holders, TicketsAssumption
  <2>2. Opened(h)' = Opened(h)
    BY <1>1 DEF Opened
  <2>3. Live(h)' \subseteq Live(h)
    BY <1>2, HoldersAreNotGone DEF Live
  <2>4. Cardinality(Live(h)') <= Cardinality(Live(h)) /\ Cardinality(Live(h)') \in Nat
    BY <2>3, FiniteSides, Counts
  <2> QED
    BY <1>1, <2>1, <2>2, <2>4, FiniteSides
<1> QED
  BY <1>1, <1>2, <1>3 DEF PaidInv, TypeOK

LEMMA PaidStep == ASSUME TicketsAssumption, PaidInv, [Next]_vars PROVE PaidInv'
<1>1. ASSUME NEW u \in Users, NEW f \in Files, DownloadTicket(u, f) PROVE PaidInv'
  <2>1. TypeOK'
    BY <1>1 DEF DownloadTicket, _holder, PaidInv, TypeOK, Tokens, Holders, TicketsAssumption
  <2> QED
    BY <1>1, <2>1, Issues
<1>2. ASSUME NEW t \in Tokens, Expire(t) PROVE PaidInv'
  BY <1>2, Expires
<1>3. ASSUME NEW r \in Requests,
             \/ \E u \in Users, f \in Files, t \in 0 .. issued, p \in BOOLEAN : Download(r, u, f, t, p)
             \/ Get(r)
      PROVE  PaidInv'
  BY <1>3, Begins
<1>4. ASSUME NEW r \in Requests, Confirm(r) PROVE PaidInv'
  <2>1. /\ req[r] \in Asked /\ req[r].at = "get" /\ UNCHANGED <<ticket, issued, served>>
    BY <1>4 DEF Confirm, PaidInv, TypeOK, Idle
  <2>2. \/ /\ req' = [req EXCEPT ![r] = [req[r] EXCEPT !.at = "open"]]
           /\ paid' = [paid EXCEPT ![<<req[r].u, req[r].f>>] = @ + 1]
        \/ req' = [req EXCEPT ![r] = Idle] /\ paid' = paid
    BY <1>4 DEF Confirm, Go, Leave
  <2> QED
    BY <2>1, <2>2, Pays DEF PaidInv, TypeOK
<1>5. ASSUME NEW r \in Requests, Delete(r) PROVE PaidInv'
  <2>1. CASE Deleted(req[r])
    BY <1>5, <2>1, Spends
  <2>2. CASE ~ Deleted(req[r])
    <3>1. req[r] \in Asked /\ req[r].at = "delete" /\ UNCHANGED <<issued, served>>
      BY <1>5 DEF Delete, PaidInv, TypeOK, Idle
    <3>2. \/ /\ req' = [req EXCEPT ![r] = [req[r] EXCEPT !.at = "open"]]
             /\ paid' = [paid EXCEPT ![<<req[r].u, req[r].f>>] = @ + 1]
          \/ req' = [req EXCEPT ![r] = Idle] /\ paid' = paid
      BY <1>5, <2>2, Zenon DEF Delete, Go, Leave
    <3>3. ticket' = [ticket EXCEPT ![req[r].t] = Gone]
      BY <1>5 DEF Delete
    <3>4. /\ ticket' \in [Tokens -> Holders \cup {Gone}]
          /\ \A t \in Tokens : ticket'[t] \in {ticket[t], Gone}
      BY <3>1, <3>3 DEF PaidInv, TypeOK
    <3> QED
      BY <3>1, <3>2, <3>4, Pays
  <2> QED
    BY <2>1, <2>2
<1>6. ASSUME NEW r \in Requests, Open(r) PROVE PaidInv'
  BY <1>6, Serves
<1>7. CASE UNCHANGED <<ticket, issued, req, paid, served>>
  BY <1>7 DEF PaidInv, TypeOK, Opened, Live
<1>8. ASSUME NEW f \in Files, Moved(f) PROVE UNCHANGED <<ticket, issued, req, paid, served>>
  BY <1>8 DEF Moved
<1> QED
  BY <1>1, <1>2, <1>3, <1>4, <1>5, <1>6, <1>7, <1>8 DEF Next, vars

(* However many requests use a ticket, in whatever order they read and       *)
(* delete it and whenever it expires, an account downloads a guarded file no *)
(* oftener than it gave its password for it.                                 *)
THEOREM OneDownloadAlways == ASSUME TicketsAssumption PROVE Spec => []OneDownload
<1>1. Init => PaidInv
  <2> SUFFICES ASSUME Init PROVE PaidInv
    OBVIOUS
  <2>1. TypeOK
    BY DEF Init, TypeOK, Tokens, TicketsAssumption
  <2>2. \A r \in Requests : req[r] \notin Asked
    BY DEF Init, Idle, Asked
  <2>3. ASSUME NEW h \in Users \X Guarded
        PROVE  served[h] + Cardinality(Opened(h)) + Cardinality(Live(h)) <= paid[h]
    <3>1. Opened(h) = {}
      BY <2>2 DEF Opened
    <3>2. Live(h) = {}
      BY HoldersAreNotGone DEF Init, Live
    <3>3. h \in Holders
      BY DEF Holders, TicketsAssumption
    <3> QED
      BY <3>1, <3>2, <3>3, FS_EmptySet DEF Init
  <2> QED
    BY <2>1, <2>2, <2>3 DEF Init, PaidInv
<1>2. PaidInv => OneDownload
  <2> SUFFICES ASSUME PaidInv, NEW h \in Users \X Guarded PROVE served[h] <= paid[h]
    BY DEF OneDownload
  <2>1. served[h] \in Nat /\ paid[h] \in Nat
    BY DEF PaidInv, TypeOK, Holders, TicketsAssumption
  <2> QED
    BY <2>1, FiniteSides DEF PaidInv
<1> QED
  BY <1>1, <1>2, PaidStep, PTL DEF Spec
=============================================================================
