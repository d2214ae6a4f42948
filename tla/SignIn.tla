-------------------------------- MODULE SignIn --------------------------------
(***************************************************************************)
(* The second step of signing in (second_factor, enrollment and enroll of  *)
(* dbs/manager/accounts/services/sign_in_service.py) for one account, from *)
(* several browsers.  The password and its throttling are in module        *)
(* Attempts; here Password is what password ends with when it was right.   *)
(*                                                                         *)
(* A request reads the session and the account once, when it begins; what  *)
(* it writes to the account are single conditional updates or one          *)
(* transaction; its session is saved when it ends.  A session whose key    *)
(* was cycled meanwhile is not saved (Django's SessionInterrupted).        *)
(***************************************************************************)
EXTENDS Integers, Sequences

CONSTANTS
    Browsers, Requests,
    Ops,             \* what requests do: "code", "recovery", "show", "enroll"
    Enrolled,        \* BOOLEAN: the account has a second factor at the start
    RECOVERY_CODES,  \* codes of a set
    Pending,         \* AUTH_PENDING_SECONDS, in steps of the one-time codes
    MaxNow, MaxRequests, MaxSets   \* bounds

SignInAssumption ==
    /\ Ops \subseteq {"code", "recovery", "show", "enroll"}
    /\ RECOVERY_CODES \in Nat \ {0}

VARIABLES
    now,        \* the current step of the one-time codes
    acct,       \* [active, secret (0: none), last (NoStep or a step), codes (unused)]
    sess,       \* sess[b]: the session of the browser
    req,        \* req[r]
    secrets, sets,      \* secrets and sets of recovery codes made so far
    accepted, used,     \* one-time and recovery codes accepted, in order
    passwords, signIns, \* per browser: right passwords, completed sign-ins
    requests,
    again       \* history: per browser, sign-ins from a session that had changed its key meanwhile

vars == <<now, acct, sess, req, secrets, sets, accepted, used, passwords, signIns, requests, again>>
History == <<accepted, used, passwords, signIns, again>>

NoStep == -1
DRIFT_STEPS == 1
Idle == [at |-> "idle"]
Busy(r) == req[r].at # "idle"
CodesOf(g) == {<<g, i>> : i \in 1 .. RECOVERY_CODES}
has_two_factor(a) == a.secret # 0
Clean(s) == [s EXCEPT !.user = FALSE, !.since = 0, !.held = 0]

Init ==
    /\ now = 1
    /\ acct = [active |-> TRUE, secret |-> IF Enrolled THEN 1 ELSE 0, last |-> NoStep,
               codes |-> IF Enrolled THEN CodesOf(1) ELSE {}]
    /\ sess = [b \in Browsers |-> [key |-> 0, user |-> FALSE, since |-> 0, held |-> 0, signed |-> FALSE]]
    /\ req = [r \in Requests |-> Idle]
    /\ secrets = IF Enrolled THEN 1 ELSE 0
    /\ sets = IF Enrolled THEN 1 ELSE 0
    /\ accepted = <<>> /\ used = <<>>
    /\ passwords = [b \in Browsers |-> 0] /\ signIns = [b \in Browsers |-> 0]
    /\ again = [b \in Browsers |-> 0]
    /\ requests = 0

\* begin after a right password: logout of who was signed in, PendingSignIn.begin
Password(b) ==
    /\ acct.active /\ requests < MaxRequests
    /\ requests' = requests + 1
    /\ passwords' = [passwords EXCEPT ![b] = @ + 1]
    /\ sess' = [sess EXCEPT ![b] = [key |-> @.key + 1, user |-> TRUE, since |-> now,
                                    held |-> 0, signed |-> FALSE]]
    /\ UNCHANGED <<now, acct, req, secrets, sets, accepted, used, signIns, again>>

\* AccountService.sign_out
SignOut(b) ==
    /\ sess[b].signed
    /\ sess' = [sess EXCEPT ![b] = [Clean(sess[b]) EXCEPT !.key = sess[b].key + 1, !.signed = FALSE]]
    /\ UNCHANGED <<now, acct, req, secrets, sets, History, requests>>

\* PendingSignIn.user
Waiting(b) == sess[b].user /\ now - sess[b].since <= Pending /\ acct.active

\* ... which forgets a sign-in that is not there, too old, or of an account
\* switched off
Expired(b) ==
    /\ ~Waiting(b) /\ sess[b].user
    /\ sess' = [sess EXCEPT ![b] = Clean(@)]
    /\ UNCHANGED <<now, acct, req, secrets, sets, History, requests>>

MayAsk(op, b) ==
    /\ op \in {"code", "recovery"} => has_two_factor(acct)
    /\ op \in {"show", "enroll"} => ~has_two_factor(acct)
    /\ op = "enroll" => sess[b].held # 0

\* What a person types: a code of any secret shown so far, or a recovery code
\* of any set given so far.
Typed(op) ==
    CASE op \in {"code", "enroll"} -> (1 .. secrets) \X (now - 1 .. now + 1)
      [] op = "recovery" -> UNION {CodesOf(g) : g \in 1 .. sets}
      [] op = "show" -> {<<0, 0>>}

\* second_factor, enrollment and enroll until the code is checked
Ask(r, b, op) ==
    /\ ~Busy(r) /\ requests < MaxRequests
    /\ Waiting(b) /\ MayAsk(op, b)
    /\ \E x \in Typed(op) :
        req' = [req EXCEPT ![r] = [at |-> op, b |-> b, s |-> sess[b], a |-> acct, x |-> x]]
    /\ requests' = requests + 1
    /\ UNCHANGED <<now, acct, sess, secrets, sets, History>>

\* totp.matching_step: the step of a typed code of the secret, or NoStep
matching_step(secret, x, after) ==
    IF /\ x[1] = secret
       /\ x[2] \in now - DRIFT_STEPS .. now + DRIFT_STEPS
       /\ x[2] > after
    THEN x[2] ELSE NoStep

\* plausible bug: the step is compared with the account the request read only
claim_step_read(step) == TRUE

\* claim_step: UPDATE ... WHERE totp_last_step IS NULL OR totp_last_step < step
claim_step(step) == acct.last = NoStep \/ acct.last < step

Accept(r) == req' = [req EXCEPT ![r] = [at |-> "accepted", b |-> req[r].b, s |-> req[r].s]]

\* TwoFactorService.verify
Verify(r) ==
    /\ req[r].at = "code"
    /\ LET step == matching_step(req[r].a.secret, req[r].x, req[r].a.last) IN
       /\ step # NoStep /\ claim_step(step)
       /\ acct' = [acct EXCEPT !.last = step]
    /\ accepted' = Append(accepted, req[r].x)
    /\ Accept(r)
    /\ UNCHANGED <<now, sess, secrets, sets, used, passwords, signIns, requests, again>>

unused(x) == x \in acct.codes

\* AccountRepository.use_recovery_code
UseRecovery(r) ==
    /\ req[r].at = "recovery"
    /\ unused(req[r].x)
    /\ acct' = [acct EXCEPT !.codes = @ \ {req[r].x}]
    /\ used' = Append(used, req[r].x)
    /\ Accept(r)
    /\ UNCHANGED <<now, sess, secrets, sets, accepted, passwords, signIns, requests, again>>

\* the code was not accepted, the account is as it was
Refuse(r) ==
    /\ \/ req[r].at = "code"
          /\ LET step == matching_step(req[r].a.secret, req[r].x, req[r].a.last) IN
             step = NoStep \/ ~claim_step(step)
       \/ req[r].at = "recovery" /\ ~unused(req[r].x)
       \/ req[r].at = "enroll" /\ matching_step(req[r].s.held, req[r].x, NoStep) = NoStep
    /\ req' = [req EXCEPT ![r] = Idle]
    /\ UNCHANGED <<now, acct, sess, secrets, sets, History, requests>>

\* SignInService.enrollment: the secret the session holds, or a new one, which
\* it then holds if its key is still the session's
Show(r) ==
    /\ req[r].at = "show"
    /\ LET s == req[r].s
           b == req[r].b
           secret == IF s.held # 0 THEN s.held ELSE secrets + 1
       IN /\ secrets' = IF s.held # 0 THEN secrets ELSE secret
          /\ sess' = IF sess[b].key = s.key THEN [sess EXCEPT ![b] = [s EXCEPT !.held = secret]] ELSE sess
    /\ req' = [req EXCEPT ![r] = Idle]
    /\ UNCHANGED <<now, acct, sets, History, requests>>

\* replace_recovery_codes
replaced(g) == CodesOf(g)

\* TwoFactorService.enroll: one transaction
Enroll(r) ==
    /\ req[r].at = "enroll"
    /\ LET step == matching_step(req[r].s.held, req[r].x, NoStep) IN
       /\ step # NoStep
       /\ acct' = [acct EXCEPT !.secret = req[r].s.held, !.last = step, !.codes = replaced(sets + 1)]
    /\ sets' = sets + 1
    /\ accepted' = Append(accepted, req[r].x)
    /\ Accept(r)
    /\ UNCHANGED <<now, sess, secrets, used, passwords, signIns, requests, again>>

Ended(s) == Clean(s)

\* SignInService._complete: pending.end and login, which cycles the key
Complete(r) ==
    /\ req[r].at = "accepted"
    /\ LET b == req[r].b IN
       /\ sess' = [sess EXCEPT ![b] = [Ended(req[r].s) EXCEPT !.key = sess[b].key + 1, !.signed = TRUE]]
       /\ signIns' = [signIns EXCEPT ![b] = @ + 1]
       /\ again' = IF sess[b].key = req[r].s.key THEN again ELSE [again EXCEPT ![b] = @ + 1]
    /\ req' = [req EXCEPT ![r] = Idle]
    /\ UNCHANGED <<now, acct, secrets, sets, accepted, used, passwords, requests>>

\* AccountService.new_recovery_codes, its password confirmed
NewCodes(b) ==
    /\ sess[b].signed /\ acct.active /\ sets < MaxSets
    /\ acct' = [acct EXCEPT !.codes = replaced(sets + 1)]
    /\ sets' = sets + 1
    /\ UNCHANGED <<now, sess, req, secrets, History, requests>>

\* reset_two_factor by the master: forget_two_factor, and set_active
Reset ==
    /\ "enroll" \in Ops /\ has_two_factor(acct)
    /\ acct' = [acct EXCEPT !.secret = 0, !.last = NoStep, !.codes = {}]
    /\ UNCHANGED <<now, sess, req, secrets, sets, History, requests>>

SetActive ==
    /\ acct' = [acct EXCEPT !.active = ~@]
    /\ UNCHANGED <<now, sess, req, secrets, sets, History, requests>>

Tick ==
    /\ now < MaxNow
    /\ now' = now + 1
    /\ UNCHANGED <<acct, sess, req, secrets, sets, History, requests>>

Next ==
    \/ \E b \in Browsers : Password(b) \/ SignOut(b) \/ Expired(b) \/ NewCodes(b)
    \/ \E r \in Requests, b \in Browsers, op \in Ops : Ask(r, b, op)
    \/ \E r \in Requests : Verify(r) \/ UseRecovery(r) \/ Refuse(r) \/ Show(r) \/ Enroll(r) \/ Complete(r)
    \/ Reset \/ SetActive \/ Tick

Spec == Init /\ [][Next]_vars

---------------------------------------------------------------------------
(* Properties                                                              *)

Distinct(s) == \A i, j \in DOMAIN s : s[i] = s[j] => i = j

\* "A code is accepted once": whatever overlaps, no one-time code is accepted
\* twice for the account it is of.
CodeOnce == Distinct(accepted)

\* "A recovery code signs in once", however many requests bring it.
RecoveryOnce == Distinct(used)

\* "New recovery codes ... replace the old ones": a recovery code that is
\* accepted is one of the last set given.
OldCodesDead == used' # used => used'[Len(used')][1] = sets

\* "An enrolled account cannot enroll again": the secret of an enrolled
\* account is forgotten by a reset, never replaced by another.
EnrolledOnce == has_two_factor(acct) => acct'.secret \in {0, acct.secret}

\* "A code without a password first is refused": one browser never completes
\* more sign-ins than it gave right passwords, not counting those of a form
\* sent twice, whose session another request has signed in or out meanwhile.
PasswordFirst == \A b \in Browsers : signIns[b] <= passwords[b] + again[b]

---------------------------------------------------------------------------
(* Why they hold: the inductive invariants                                 *)

\* The second factor is enrolled or reset while nobody else is signing in.
Calm ==
    /\ \A r \in Requests : Enroll(r) => \A q \in Requests : Busy(q) => q = r
    /\ Reset => \A q \in Requests : ~Busy(q)

AccountRow == [active : BOOLEAN, secret : Nat, last : Nat \cup {NoStep}, codes : SUBSET (Nat \X Nat)]
Session == [key : Nat, user : BOOLEAN, since : Nat, held : Nat, signed : BOOLEAN]
Asking == [at : {"code", "recovery", "show", "enroll"}, b : Browsers, s : Session, a : AccountRow,
           x : Nat \X Int]
Accepted == [at : {"accepted"}, b : Browsers, s : Session]

TypeOK ==
    /\ {now, secrets, sets} \subseteq Nat
    /\ acct \in AccountRow
    /\ sess \in [Browsers -> Session]
    /\ req \in [Requests -> {Idle} \cup Asking \cup Accepted]
    /\ accepted \in Seq(Nat \X Int) /\ used \in Seq(Nat \X Nat)
    /\ passwords \in [Browsers -> Nat] /\ signIns \in [Browsers -> Nat]
    /\ again \in [Browsers -> Nat]

\* The unused codes are of the last set, and none of them has been used.
RecoveryInv ==
    /\ acct.codes \subseteq CodesOf(sets)
    /\ \A i \in DOMAIN used : used[i] \notin acct.codes /\ used[i][1] <= sets
    /\ RecoveryOnce

\* A browser that may go on has a right password that no sign-in used up.
SameSession(r, b) == Busy(r) /\ req[r].b = b /\ req[r].s.key = sess[b].key
Waits(b) == sess[b].user \/ \E r \in Requests : SameSession(r, b)
PasswordInv ==
    /\ PasswordFirst
    /\ \A r \in Requests : Busy(r) => req[r].s.key <= sess[req[r].b].key
    /\ \A b \in Browsers : Waits(b) => signIns[b] < passwords[b] + again[b]

\* The secrets that are the account's or have been, and those that a browser
\* holds, in its session or in a request that may still enroll with it.
Spent == ({acct.secret} \cup {accepted[i][1] : i \in DOMAIN accepted}) \ {0}
Asks(r) == req[r].at \in {"show", "enroll"}
AskedBy(b) == {r \in Requests : Asks(r) /\ req[r].b = b}
Holds(b) == ({sess[b].held} \cup {req[r].s.held : r \in AskedBy(b)}) \ {0}
Completes(b) == \E r \in Requests : req[r].at = "accepted" /\ req[r].b = b

\* A secret is made once, for one browser.
MadeOnce ==
    /\ Spent \subseteq 1 .. secrets
    /\ \A b \in Browsers : \A h \in Holds(b) :
          h \in 1 .. secrets /\ \A c \in Browsers : h \in Holds(c) => b = c

\* One that was the account's is held no more, but by who is about to complete.
SpentIsGone ==
    /\ \A b \in Browsers : sess[b].held \in Spent => sess[b].held = acct.secret /\ Completes(b)
    /\ \A r \in Requests : Asks(r) => req[r].s.held \notin Spent

\* What a request has read of the account is still so.
ReadsHold ==
    /\ \A r \in Requests : Asks(r) => acct.secret = 0
    /\ \A r \in Requests : req[r].at = "code" => req[r].a.secret = acct.secret /\ acct.secret # 0
    /\ \A r \in Requests : req[r].at = "enroll" => req[r].s.held # 0

\* The steps of the account's secret that were accepted are behind.
StepsBehind ==
    /\ acct.secret = 0 => acct.last = NoStep
    /\ \A i \in DOMAIN accepted :
          /\ accepted[i][1] # 0 /\ accepted[i][2] >= 0
          /\ accepted[i][1] = acct.secret => accepted[i][2] <= acct.last

CodeInv == MadeOnce /\ SpentIsGone /\ ReadsHold /\ StepsBehind /\ CodeOnce
=============================================================================
