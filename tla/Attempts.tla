------------------------------ MODULE Attempts ------------------------------
(***************************************************************************)
(* How failed sign-ins are counted and slowed down (SignInService.password *)
(* in dbs/manager/accounts/services/sign_in_service.py and                 *)
(* dbs/manager/accounts/throttle.py).  One username, signing in from the   *)
(* addresses of Addresses.                                                 *)
(*                                                                         *)
(* The counts are in the manager's cache, a table of its database          *)
(* (settings.CACHES: DatabaseCache).  cache.add, set and delete are atomic *)
(* there; incr and decr read the value, then set it, so they take two      *)
(* steps here.  A count may expire between any two steps.                  *)
(***************************************************************************)
EXTENDS Integers, Sequences

CONSTANTS
    Requests,       \* requests that may run at the same time
    Addresses,
    Passwords,      \* what may be typed: "right", "wrong"
    PerUser,        \* AUTH_FAILURES_PER_USER
    PerAddress,     \* AUTH_FAILURES_PER_ADDRESS
    MaxAttempts,    \* bound on the attempts of a behaviour
    MaxExpiries     \* bound on the counts that expire

LimitsAssumption == PerUser \in Nat \ {0} /\ PerAddress \in Nat \ {0}

VARIABLES
    count,     \* count[k]: a count in the cache, or Gone
    waiting,   \* the name is slowed down: throttle.waiting
    known,     \* the addresses throttle.remember keeps
    req,       \* req[r]: what the request does next
    tried,     \* wrong passwords checked since the count of their pair began
    attempts, expiries

vars == <<count, waiting, known, req, tried, attempts, expiries>>

Gone == -1
Pair(a) == <<"pair", a>>
ByAddress(a) == <<"address", a>>
ByName == <<"name", "">>
Keys == {Pair(a) : a \in Addresses} \cup {ByAddress(a) : a \in Addresses} \cup {ByName}
Limit(k) == IF k[1] = "address" THEN PerAddress ELSE PerUser

Idle == [pc |-> "idle"]
Running(r) == req[r].pc # "idle"
Go(r, fields) == req' = [req EXCEPT ![r] = fields]

\* A program is the sequence of cache operations a request still has to make:
\* <<op, key>>.  incr is "add", "read+", "set"; decr is "read-", "set".
Count(k) == << <<"add", k>>, <<"read+", k>>, <<"set", k>> >>
GiveBack(k) == << <<"read-", k>>, <<"set", k>> >>

Init ==
    /\ count = [k \in Keys |-> Gone]
    /\ waiting = FALSE
    /\ known = {}
    /\ req = [r \in Requests |-> Idle]
    /\ tried = [a \in Addresses |-> 0]
    /\ attempts = 0
    /\ expiries = 0

\* SignInService.password up to counted: a name that waits is refused unless
\* the address is known
Begin(r, a) ==
    /\ ~Running(r) /\ attempts < MaxAttempts
    /\ (a \in known \/ ~waiting)
    /\ attempts' = attempts + 1
    /\ \E typed \in Passwords :
        Go(r, [pc |-> "count", at |-> a, typed |-> typed, value |-> 0, over |-> FALSE,
               todo |-> Count(Pair(a)) \o Count(ByAddress(a))])
    /\ UNCHANGED <<count, waiting, known, tried, expiries>>

\* throttle._count and given_back, one cache operation at a time
CacheAdd(r) ==
    /\ Running(r) /\ req[r].todo # <<>> /\ Head(req[r].todo)[1] = "add"
    /\ LET k == Head(req[r].todo)[2] IN
       count' = [count EXCEPT ![k] = IF @ = Gone THEN 0 ELSE @]
    /\ Go(r, [req[r] EXCEPT !.todo = Tail(@)])
    /\ UNCHANGED <<waiting, known, tried, attempts, expiries>>

CacheRead(r) ==
    /\ Running(r) /\ req[r].todo # <<>> /\ Head(req[r].todo)[1] \in {"read+", "read-"}
    /\ LET op == Head(req[r].todo)[1]
           k == Head(req[r].todo)[2]
       IN IF op = "read+"
          \* a count that is gone by now is set to 1
          THEN Go(r, [req[r] EXCEPT !.todo = Tail(@),
                                    !.value = IF count[k] = Gone THEN 1 ELSE count[k] + 1])
          \* ... and is not given back
          ELSE Go(r, IF count[k] = Gone THEN [req[r] EXCEPT !.todo = Tail(Tail(@))]
                     ELSE [req[r] EXCEPT !.todo = Tail(@), !.value = count[k] - 1])
    /\ UNCHANGED <<count, waiting, known, tried, attempts, expiries>>

CacheSet(r) ==
    /\ Running(r) /\ req[r].todo # <<>> /\ Head(req[r].todo)[1] = "set"
    /\ LET k == Head(req[r].todo)[2] IN
       /\ count' = [count EXCEPT ![k] = req[r].value]
       /\ Go(r, [req[r] EXCEPT !.todo = Tail(@),
                               !.over = @ \/ (req[r].pc = "count" /\ req[r].value > Limit(k))])
    /\ UNCHANGED <<waiting, known, tried, attempts, expiries>>

Over(r) == req[r].over

RefusedTodo(r) == GiveBack(Pair(req[r].at)) \o GiveBack(ByAddress(req[r].at))

\* counted was False: given_back, then _refuse
Refuse(r) ==
    /\ req[r].pc = "count" /\ req[r].todo = <<>> /\ Over(r)
    /\ Go(r, [req[r] EXCEPT !.pc = "refused", !.todo = RefusedTodo(r)])
    /\ UNCHANGED <<count, waiting, known, tried, attempts, expiries>>

\* authenticate, and slowed for the name of a wrong password
CheckWrong(r) ==
    /\ req[r].pc = "count" /\ req[r].todo = <<>> /\ ~Over(r)
    /\ req[r].typed = "wrong"
    /\ tried' = [tried EXCEPT ![req[r].at] = @ + 1]
    /\ Go(r, [req[r] EXCEPT !.pc = "wrong", !.todo = Count(ByName)])
    /\ UNCHANGED <<count, waiting, known, attempts, expiries>>

RightTodo(r) == GiveBack(ByAddress(req[r].at))

\* authenticate; the pair is cleared, the address given back its count.  The
\* second factor follows (module SignIn); it ends with unslowed and remember.
CheckRight(r) ==
    /\ req[r].pc = "count" /\ req[r].todo = <<>> /\ ~Over(r)
    /\ req[r].typed = "right"
    /\ count' = [count EXCEPT ![Pair(req[r].at)] = Gone]
    /\ tried' = [tried EXCEPT ![req[r].at] = 0]
    /\ Go(r, [req[r] EXCEPT !.pc = "right", !.todo = RightTodo(r)])
    /\ UNCHANGED <<waiting, known, attempts, expiries>>

Remembered(r) == known \cup {req[r].at}

\* slowed for a wrong password; unslowed and remember for who signed in
End(r) ==
    /\ req[r].pc \in {"refused", "wrong", "right"} /\ req[r].todo = <<>>
    /\ CASE req[r].pc = "wrong" ->
              /\ waiting' = (waiting \/ req[r].value > PerUser)
              /\ UNCHANGED <<count, known>>
         [] req[r].pc = "right" ->
              /\ waiting' = FALSE
              /\ known' = Remembered(r)
              /\ count' = [count EXCEPT ![ByName] = Gone]
         [] req[r].pc = "refused" -> UNCHANGED <<count, waiting, known>>
    /\ Go(r, Idle)
    /\ UNCHANGED <<tried, attempts, expiries>>

\* the seconds of throttle.slowed go by
WaitOver ==
    /\ waiting
    /\ waiting' = FALSE
    /\ UNCHANGED <<count, known, req, tried, attempts, expiries>>

\* a count is left alone for its window
Expire(k) ==
    /\ count[k] # Gone /\ expiries < MaxExpiries
    /\ count' = [count EXCEPT ![k] = Gone]
    /\ tried' = [a \in Addresses |-> IF k = Pair(a) THEN 0 ELSE tried[a]]
    /\ expiries' = expiries + 1
    /\ UNCHANGED <<waiting, known, req, attempts>>

Step(r) == \/ \E a \in Addresses : Begin(r, a)
           \/ CacheAdd(r) \/ CacheRead(r) \/ CacheSet(r)
           \/ Refuse(r) \/ CheckWrong(r) \/ CheckRight(r) \/ End(r)

Next == (\E r \in Requests : Step(r)) \/ WaitOver \/ (\E k \in Keys : Expire(k))

Spec == Init /\ [][Next]_vars

---------------------------------------------------------------------------
(* Properties                                                              *)

Quiet == \A r \in Requests : ~Running(r)

\* "An attempt is counted before its password is checked": while requests do
\* not overlap, no more wrong passwords of one name and address are checked
\* than the limit until the count expires or is cleared; a count that expires
\* between the add and the read of an attempt lets one more through.
ChecksBounded == \A a \in Addresses : tried[a] <= PerUser + expiries

\* The count of an address is exactly the wrong passwords it had checked: one
\* that signs in, and "an attempt refused unchecked", leave nothing behind.
CountExact ==
    Quiet => \A a \in Addresses : count[ByAddress(a)] # Gone /\ expiries = 0 =>
                 count[ByAddress(a)] >= 0 /\ count[ByAddress(a)] <= PerAddress
                 /\ (count[Pair(a)] # Gone => count[Pair(a)] = tried[a])

\* "Signing in often from one address is never limited": when nobody typed a
\* wrong password, nothing stays counted against the address.
NeverLimited == Quiet => \A a \in Addresses : count[ByAddress(a)] <= 0

=============================================================================
