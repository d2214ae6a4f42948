----------------------------- MODULE GuardModel -----------------------------
(* The personal models of the session guard in one process: requests that     *)
(* score with the last fit and ask for a new one when it is due, and the      *)
(* background threads that refit, beside commands that forget what was        *)
(* learned. A fit is known by how often its account had been forgotten when   *)
(* its rows were read.                                                         *)
EXTENDS Naturals, FiniteSets

CONSTANTS Users, Reqs, Threads,
          MinRows,      \* DBS_ANOMALY_MIN_ROWS
          RefitEvents,  \* REFIT_EVENTS
          MaxRows,      \* events an account makes
          MaxForgets, MaxFaults,
          None

ModelAssumption == /\ MinRows \in Nat \ {0} /\ RefitEvents \in Nat \ {0}
                          /\ MaxRows >= MinRows /\ MaxForgets \in Nat /\ MaxFaults \in Nat

VARIABLES rows,       \* [Users -> events recorded; the newest has that number]
          fits,       \* _fits: [Users -> PersonalFit or None]
          refitting,  \* _refitting
          generation, \* _generation
          req,        \* [Reqs -> a request in personal_model]
          thread,     \* [Threads -> refit thread]
          forgets,    \* [Users -> times forgotten]
          faults

vars == <<rows, fits, refitting, generation, req, thread, forgets, faults>>

Least(a, b) == IF a < b THEN a ELSE b
PersonalFit(model, newest, count) ==
    [model |-> model, newest |-> newest, rows |-> count, aged |-> FALSE, scored |-> 0]

(* A request is recorded after it is scored.                                   *)
Idle == [at |-> "idle"]

-----------------------------------------------------------------------------
(* _due.                                                                       *)
Due(fit, newest) ==
    /\ newest # 0
    /\ IF fit = None THEN TRUE
       ELSE /\ newest # fit.newest
            /\ \/ fit.aged
               \/ IF fit.model = None THEN fit.rows + fit.scored >= MinRows
                  ELSE fit.scored >= RefitEvents

(* personal_model: the newest row is read, and then the fit under the lock.    *)
Newest(q) ==
    /\ req[q].at = "idle"
    /\ \E u \in Users: req' = [req EXCEPT ![q] = [at |-> "newest", user |-> u, newest |-> rows[u]]]
    /\ UNCHANGED <<rows, fits, refitting, generation, thread, forgets, faults>>
Scored(fit) == IF fit = None THEN None
               ELSE [fit EXCEPT !.scored = Least(@ + 1, MinRows + RefitEvents)]
PersonalModel(q) ==
    /\ req[q].at = "newest"
    /\ LET u == req[q].user
           fit == Scored(fits[u])
       IN  /\ fits' = [fits EXCEPT ![u] = fit]
           /\ req' = [req EXCEPT ![q] =
                        [at |-> IF ~Due(fit, req[q].newest) THEN "record"
                                ELSE IF fit # None /\ fit.model # None THEN "request" ELSE "count",
                         user |-> u, newest |-> req[q].newest, rows |-> 0]]
    /\ UNCHANGED <<rows, refitting, generation, thread, forgets, faults>>

(* _ready_to_fit: the rows are counted, and too few are noted.                 *)
Count(q) ==
    /\ req[q].at = "count"
    /\ req' = [req EXCEPT ![q].rows = rows[req[q].user],
                          ![q].at = IF rows[req[q].user] >= MinRows THEN "request" ELSE "note"]
    /\ UNCHANGED <<rows, fits, refitting, generation, thread, forgets, faults>>
Note(q) ==
    /\ req[q].at = "note"
    /\ fits' = [fits EXCEPT ![req[q].user] = PersonalFit(None, req[q].newest, req[q].rows)]
    /\ req' = [req EXCEPT ![q].at = "record"]
    /\ UNCHANGED <<rows, refitting, generation, thread, forgets, faults>>

(* request_refit: one thread for an account, which knows the generation.       *)
MayRefit(u) == u \notin refitting
RequestRefit(q) ==
    /\ req[q].at = "request"
    /\ LET u == req[q].user IN
       IF ~MayRefit(u) THEN UNCHANGED <<refitting, thread, faults>>
       ELSE \/ /\ \E t \in Threads:
                    /\ thread[t].at = "idle"
                    /\ thread' = [thread EXCEPT ![t] = [at |-> "reading", user |-> u,
                                                        generation |-> generation, fit |-> None]]
               /\ refitting' = refitting \cup {u} /\ UNCHANGED faults
            \/ /\ faults < MaxFaults /\ faults' = faults + 1
               /\ UNCHANGED <<refitting, thread>>
    /\ req' = [req EXCEPT ![q].at = "record"]
    /\ UNCHANGED <<rows, fits, generation, forgets>>
Record(q) ==
    /\ req[q].at = "record"
    /\ rows' = [rows EXCEPT ![req[q].user] = Least(@ + 1, MaxRows)]
    /\ req' = [req EXCEPT ![q] = Idle]
    /\ UNCHANGED <<fits, refitting, generation, thread, forgets, faults>>

-----------------------------------------------------------------------------
(* refit: _fit reads the rows and fits, or fails; the result is kept unless    *)
(* something was forgotten since the thread was asked for.                     *)
Fit(u) == PersonalFit(IF rows[u] < MinRows THEN None ELSE forgets[u], rows[u], rows[u])
ReadRows(t) ==
    /\ thread[t].at = "reading"
    /\ \/ thread' = [thread EXCEPT ![t].at = "fitted", ![t].fit = Fit(thread[t].user)]
          /\ UNCHANGED faults
       \/ /\ faults < MaxFaults /\ faults' = faults + 1
          /\ thread' = [thread EXCEPT ![t].at = "fitted"]
    /\ UNCHANGED <<rows, fits, refitting, generation, req, forgets>>
Current(t) == thread[t].generation = generation
Kept(t) ==
    LET old == fits[thread[t].user] IN
    IF thread[t].fit # None THEN thread[t].fit
    ELSE IF old = None THEN PersonalFit(None, None, 0)
    ELSE [old EXCEPT !.aged = FALSE, !.scored = 0]
Install(t) ==
    /\ thread[t].at = "fitted"
    /\ refitting' = refitting \ {thread[t].user}
    /\ fits' = IF Current(t) THEN [fits EXCEPT ![thread[t].user] = Kept(t)] ELSE fits
    /\ thread' = [thread EXCEPT ![t] = Idle]
    /\ UNCHANGED <<rows, generation, req, forgets, faults>>

(* forget, of one account or of all.                                           *)
Forget ==
    /\ generation < MaxForgets
    /\ \E us \in {{u}: u \in Users} \cup {Users}:
          /\ fits' = [u \in Users |-> IF u \in us THEN None ELSE fits[u]]
          /\ refitting' = refitting \ us
          /\ forgets' = [u \in Users |-> IF u \in us THEN forgets[u] + 1 ELSE forgets[u]]
    /\ generation' = generation + 1
    /\ UNCHANGED <<rows, req, thread, faults>>

(* REFIT_SECONDS pass since a fit.                                             *)
Age(u) ==
    /\ fits[u] # None /\ ~fits[u].aged
    /\ fits' = [fits EXCEPT ![u].aged = TRUE]
    /\ UNCHANGED <<rows, refitting, generation, req, thread, forgets, faults>>

Init ==
    /\ rows = [u \in Users |-> 0] /\ fits = [u \in Users |-> None] /\ refitting = {}
    /\ generation = 0 /\ req = [q \in Reqs |-> Idle] /\ thread = [t \in Threads |-> Idle]
    /\ forgets = [u \in Users |-> 0] /\ faults = 0

Request(q) == Newest(q) \/ PersonalModel(q) \/ Count(q) \/ Note(q) \/ RequestRefit(q) \/ Record(q)
Refit(t) == ReadRows(t) \/ Install(t)
Next ==
    \/ \E q \in Reqs: Request(q)
    \/ \E t \in Threads: Refit(t)
    \/ Forget \/ \E u \in Users: Age(u)

Spec == Init /\ [][Next]_vars

-----------------------------------------------------------------------------
(* A model that was being fitted when its account was forgotten never serves.  *)
ForgottenStays == \A u \in Users:
    (fits[u] # None /\ fits[u].model # None) => fits[u].model = forgets[u]

(* A burst of requests refits an account once at a time.                       *)
OneRefit == \A u \in Users:
    Cardinality({t \in Threads: thread[t].at # "idle" /\ thread[t].user = u}) <= 1

(* The last fit serves until the next one: only forgetting takes it away.      *)
LastFitServes == \A u \in Users:
 (fits[u] # None /\ fits[u].model # None /\ forgets'[u] = forgets[u])
    => fits'[u] # None /\ fits'[u].model # None
=============================================================================
