---------------------------- MODULE SessionGuard ----------------------------
(* The session guard around the admin, for one superuser: the middleware's     *)
(* checks, the score of a request from where it comes and what it does, what a *)
(* verdict does to the session and the account, and sessions that are loaded   *)
(* when a request begins and saved when it ends. Scores are in hundredths.     *)
EXTENDS Naturals, FiniteSets

CONSTANTS Keys,          \* session keys
          Reqs,          \* requests under way at once
          Nets, Agents,  \* networks and browsers that requests come from
          Kinds,         \* what requests do, of AllKinds
          Trusted,       \* trusted networks
          Expected,      \* expected networks; none means any
          ModelScores,   \* what the detector may answer
          Travels,       \* rule score of the speed since the last sighting
          WarnAt, LogoutAt, LearningLogins, IdleTimeout,  \* SecurityPolicy
          Resolution,    \* ACTIVITY_RESOLUTION_SECONDS, in ticks
          Enforce,       \* DBS_ANOMALY_ENFORCE
          Many,          \* there are more requests than a new one is compared with
          MaxClock,
          Never          \* no time yet

AllKinds == {"view", "write", "destroy", "download", "poll"}

GuardAssumption ==
    /\ Kinds \subseteq AllKinds /\ Trusted \subseteq Nets /\ Expected \subseteq Nets
    /\ WarnAt \in Nat /\ LogoutAt \in Nat /\ WarnAt <= LogoutAt
    /\ IdleTimeout \in Nat /\ Resolution \in Nat /\ MaxClock \in Nat /\ Enforce \in BOOLEAN /\ Many \in BOOLEAN

VARIABLES ses,     \* [Keys -> session row: [st, flagged, last, started]]
          req,     \* [Reqs -> request]
          events,  \* SessionEvent rows: [key, net, agent, verdict]
          recent,  \* those among the last ones that a request is compared with
          locked,  \* there is a Lockout
          clock,
          real,    \* [Keys -> when the person last did something]
          warned,  \* sessions with an answered request that raised a warning
          blocked, \* sessions that were live when the account was last blocked
          overtaken \* history: sessions saved by a request over a save made since it loaded them

vars == <<ses, req, events, recent, locked, clock, real, warned, blocked, overtaken>>

Fresh == [flagged |-> FALSE, last |-> Never, started |-> FALSE]
Unused == [st |-> "unused", data |-> Fresh]
NoReq == [at |-> "idle"]
Live(k) == ses[k].st = "live"

-----------------------------------------------------------------------------
(* _restricted: a change, or a copy of the data.                               *)
Restricted(kind) == kind \in {"write", "destroy", "download"}

(* observe_request: what another session, not blocked, has shown before, among *)
(* the last requests.                                                          *)
Established(k) == {e \in recent: e.key # k /\ e.verdict # "block"}
NewNet(k, net) == net \notin {e.net: e \in Established(k)}
NewAgent(k, agent) == agent \notin {e.agent: e \in Established(k)}

If(condition, weight) == IF condition THEN weight ELSE 0
Least(a, b) == IF a < b THEN a ELSE b

(* rule_score, and evaluate's own rule for the expected networks.              *)
RuleScore(k, net, agent, kind, travel) ==
    LET rules == Least(100, If(NewNet(k, net), 35) + If(NewAgent(k, agent), 20) + travel
                              + If(kind = "destroy" /\ NewNet(k, net), 30))
    IN  Least(100, rules + If(Expected # {} /\ net \notin Expected, 20))

(* _still_learning: the model is muted, the rules are not.                     *)
StillLearning == Cardinality({e.key: e \in events}) < LearningLogins
Score(rules, model) == IF StillLearning \/ model < rules THEN rules ELSE model

Level(score, net) ==
    CASE net \in Trusted -> "ok"
      [] ~Enforce /\ net \notin Trusted -> IF score < WarnAt THEN "ok" ELSE "warn"
      [] Enforce /\ net \notin Trusted -> IF score >= LogoutAt THEN "block"
                                          ELSE IF score >= WarnAt THEN "warn" ELSE "ok"

Verdicts(r) == {Level(Score(RuleScore(r.key, r.net, r.agent, r.kind, travel), model), r.net):
                  travel \in IF r.kind = "poll" THEN Travels ELSE {0}, model \in ModelScores}

(* _record.                                                                    *)
Recorded(r, level) ==
    LET event == [key |-> r.key, net |-> r.net, agent |-> r.agent, verdict |-> level]
    IN  events' = events \cup {event} /\ recent' = recent \cup {event}

(* terminate, and logout of the one session.                                   *)
End(gone) == [k \in Keys |-> IF k \in gone /\ Live(k) THEN [ses[k] EXCEPT !.st = "gone"]
                             ELSE ses[k]]
TerminateOne(k) == End({k})
Terminate(k) == End(Keys)

-----------------------------------------------------------------------------
(* Signing in: a new session, or the same one under a new key, not flagged; a  *)
(* browser that signs in again does nothing else meanwhile.                    *)
SignIn(k) ==
    /\ ses[k].st = "unused"
    /\ \/ /\ ses' = [ses EXCEPT ![k] = [st |-> "live", data |-> Fresh]]
          /\ UNCHANGED real
       \/ \E o \in Keys:
             /\ Live(o) /\ ses[o].data.flagged
             /\ \A q \in Reqs: req[q].at # "idle" => req[q].key # o
             /\ ses' = [ses EXCEPT ![o].st = "gone",
                                   ![k] = [st |-> "live",
                                           data |-> [ses[o].data EXCEPT !.flagged = FALSE]]]
             /\ real' = [real EXCEPT ![k] = real[o]]
    /\ UNCHANGED <<req, events, recent, locked, clock, warned, blocked, overtaken>>

(* idle_expired and mark_active, on the data the request has loaded.           *)
IdleExpired(last) == IdleTimeout # 0 /\ last # Never /\ clock - last > IdleTimeout
MarkActive(data, kind) ==
    [data EXCEPT !.started = TRUE,
                 !.last = IF kind = "poll" THEN @
                          ELSE IF @ = Never \/ clock - @ >= Resolution THEN clock ELSE @]

(* A request begins: the session is loaded, and the middleware's checks that   *)
(* need no score are made. The guard's own page is only looked at for being    *)
(* locked out and idle.                                                        *)
Gap(k) == IF real[k] = Never THEN Never ELSE clock - real[k]
Stopped(r, why) == [at |-> "stopped", key |-> r.key, why |-> why,
                    gap |-> Gap(r.key), lost |-> r.lost]
Begin(q) ==
    /\ req[q].at = "idle"
    /\ \E k \in Keys, net \in Nets, agent \in Agents, kind \in Kinds:
       LET data == MarkActive(ses[k].data, kind)
           r == [at |-> "scoring", key |-> k, net |-> net, agent |-> agent, kind |-> kind,
                 data |-> data, modified |-> data # ses[k].data, told |-> k \in warned,
                 raised |-> FALSE, gap |-> Gap(k), lost |-> k \in overtaken, behind |-> FALSE]
           why == CASE locked -> "locked out"
                    [] ~locked /\ IdleExpired(ses[k].data.last) -> "idle"
                    [] ~locked /\ ~IdleExpired(ses[k].data.last)
                         /\ Restricted(kind) /\ ses[k].data.flagged -> "flagged"
                    [] OTHER -> "-"
       IN  /\ Live(k)
           /\ IF why = "-"
              THEN /\ req' = [req EXCEPT ![q] = r]
                   /\ real' = IF kind = "poll" THEN real ELSE [real EXCEPT ![k] = clock]
                   /\ UNCHANGED ses
              ELSE /\ req' = [req EXCEPT ![q] = Stopped(r, why)]
                   /\ ses' = TerminateOne(k) /\ UNCHANGED real
    /\ UNCHANGED <<events, recent, locked, clock, warned, blocked, overtaken>>

MarkForReauthentication(r, level) == [r EXCEPT !.raised = @ \/ level = "warn",
                                               !.data.flagged = @ \/ level = "warn",
                                               !.modified = @ \/ level = "warn"]

(* evaluate and apply: a block locks the account out and ends its sessions; a  *)
(* warning flags the session's data and refuses a restricted request.          *)
Applied(q, r, level, next) ==
    /\ Recorded(r, level)
    /\ IF level = "block"
       THEN /\ locked' = TRUE /\ ses' = Terminate(r.key)
            /\ blocked' = {k \in Keys: Live(k)}
            /\ req' = [req EXCEPT ![q] = Stopped(r, "blocked")]
       ELSE /\ UNCHANGED <<locked, blocked>>
            /\ IF level = "warn" /\ next = "serving" /\ Restricted(r.kind)
               THEN ses' = TerminateOne(r.key)
                    /\ req' = [req EXCEPT ![q] = Stopped(r, "flagged")]
               ELSE /\ UNCHANGED ses
                    /\ req' = [req EXCEPT ![q] = [MarkForReauthentication(r, level) EXCEPT !.at = next]]
Evaluate(q) ==
    /\ req[q].at = "scoring"
    /\ \E level \in Verdicts(req[q]): Applied(q, req[q], level, "serving")
    /\ UNCHANGED <<clock, real, warned, overtaken>>

(* The view: a download is scored a second time, and only a block stops it.    *)
Serve(q) ==
    /\ req[q].at = "serving"
    /\ IF req[q].kind = "download"
       THEN \E level \in Verdicts(req[q]): Applied(q, req[q], level, "served")
       ELSE req' = [req EXCEPT ![q].at = "served"] /\ UNCHANGED <<ses, events, recent, locked, blocked>>
    /\ UNCHANGED <<clock, real, warned, overtaken>>

(* The session is saved whole when the request changed it, unless its row is   *)
(* gone; the warning is then part of it. Whoever loaded it before is behind.   *)
Saves(q) == req[q].modified /\ Live(req[q].key)
LeavesBehind(q) == [o \in Reqs |->
    CASE o = q -> NoReq
      [] o # q /\ req[o].at \in {"scoring", "serving", "served"} /\ req[o].key = req[q].key /\ Saves(q)
           -> [req[o] EXCEPT !.behind = TRUE]
      [] OTHER -> req[o]]
Save(q) ==
    /\ req[q].at = "served"
    /\ LET k == req[q].key IN
       /\ ses' = IF Saves(q) THEN [ses EXCEPT ![k].data = req[q].data] ELSE ses
       /\ warned' = IF req[q].raised THEN warned \cup {k} ELSE warned
       /\ overtaken' = IF Saves(q) /\ req[q].behind THEN overtaken \cup {k} ELSE overtaken
    /\ req' = LeavesBehind(q)
    /\ UNCHANGED <<events, recent, locked, clock, real, blocked>>
Answered(q) ==
    /\ req[q].at = "stopped"
    /\ req' = [req EXCEPT ![q] = NoReq]
    /\ UNCHANGED <<ses, events, recent, locked, clock, real, warned, blocked, overtaken>>

(* dbs security unlock and reset-baseline.                                     *)
Unlock ==
    /\ locked /\ locked' = FALSE
    /\ UNCHANGED <<ses, req, events, recent, clock, real, warned, blocked, overtaken>>
ResetBaseline ==
    /\ events # {} /\ events' = {} /\ recent' = {}
    /\ UNCHANGED <<ses, req, locked, clock, real, warned, blocked, overtaken>>

(* A request that so many others have followed that none is compared with it.  *)
FallsBehind(e) ==
    /\ Many /\ e \in recent /\ recent # {e}
    /\ recent' = recent \ {e}
    /\ UNCHANGED <<ses, req, events, locked, clock, real, warned, blocked, overtaken>>

(* A tick is long beside a request.                                            *)
Tick ==
    /\ \A q \in Reqs: req[q].at = "idle"
    /\ clock < MaxClock /\ clock' = clock + 1
    /\ UNCHANGED <<ses, req, events, recent, locked, real, warned, blocked, overtaken>>

Init ==
    /\ ses = [k \in Keys |-> Unused] /\ req = [q \in Reqs |-> NoReq]
    /\ events = {} /\ recent = {} /\ locked = FALSE /\ clock = 0
    /\ real = [k \in Keys |-> Never] /\ warned = {} /\ blocked = {} /\ overtaken = {}

Next ==
    \/ \E k \in Keys: SignIn(k)
    \/ \E q \in Reqs: Begin(q) \/ Evaluate(q) \/ Serve(q) \/ Save(q) \/ Answered(q)
    \/ \E e \in recent: FallsBehind(e)
    \/ Unlock \/ ResetBaseline \/ Tick

Spec == Init /\ [][Next]_vars

-----------------------------------------------------------------------------

Matters(kind) == kind \notin {"view", "poll"}

(* Once a warning has been answered, the session makes no change and takes no  *)
(* copy before it signs in again, unless a request that loaded the session     *)
(* before has saved it over the flag.                                          *)
FlaggedIsRefused == \A q \in Reqs:
    (req[q].at = "served" /\ Matters(req[q].kind) /\ req[q].told) => req[q].lost

(* "Every change anywhere in the admin, and every download or export, is       *)
(* refused and ends the session" (docs/session-guard.md), whatever overlaps.   *)
FlaggedNeverServes == \A q \in Reqs:
    (req[q].at = "served" /\ Matters(req[q].kind)) => ~req[q].told

(* A request that raises a warning itself is not carried out either; only a    *)
(* download whose second score warns is.                                       *)
WarningRefuses == \A q \in Reqs:
    (req[q].at \in {"serving", "served"} /\ Matters(req[q].kind) /\ req[q].raised)
        => req[q].at = "served" /\ req[q].kind = "download"

(* The same of every request, downloads included.                              *)
WarningNeverServes == \A q \in Reqs:
    (req[q].at = "served" /\ Matters(req[q].kind)) => ~req[q].raised

(* A session cannot vouch for its own network: what destroys is only done from *)
(* a trusted one or one where another session was not blocked.                 *)
DestroysFromKnown == \A q \in Reqs:
 (req[q].at = "scoring" /\ req'[q].at = "serving" /\ req[q].kind = "destroy")
    => req[q].net \in Trusted \/ \E e \in events:
          e.net = req[q].net /\ e.key # req[q].key /\ e.verdict # "block"

(* A block ends every session the account had, also those with requests under  *)
(* way: none of them is saved back.                                            *)
BlockEndsAll == locked => \A k \in blocked: ~Live(k)

(* A page left open, which only polls, does not keep its session: nothing is   *)
(* served longer than the timeout after the person last did something, unless  *)
(* a request that overlapped has saved the session without that.               *)
ServedLate(q) ==
    req[q].at = "served" /\ IdleTimeout # 0 /\ req[q].gap # Never /\ req[q].gap > IdleTimeout
IdleEnds == \A q \in Reqs: ServedLate(q) => req[q].lost

(* "A session idle in the admin for longer than the level's idle timeout is    *)
(* ended on its next request" (docs/session-guard.md), whatever overlaps.      *)
IdleAlwaysEnds == \A q \in Reqs: ~ServedLate(q)

(* Nor is a session ended as idle much earlier than the timeout.               *)
ActiveStays == \A q \in Reqs:
    (req[q].at = "stopped" /\ req[q].why = "idle" /\ req[q].gap # Never)
        => req[q].gap + Resolution > IdleTimeout \/ req[q].lost
=============================================================================
