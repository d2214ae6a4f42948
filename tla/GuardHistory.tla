---------------------------- MODULE GuardHistory ----------------------------
(* The telemetry of the session guard, for one account: the requests recorded  *)
(* for each of its sessions, how many sessions have been seen, and the daily   *)
(* purge, which every worker process starts on its own.                        *)
EXTENDS Naturals, FiniteSets

CONSTANTS Sessions, Procs,
          MaxFaults,  \* purges that fail
          MaxSeen,    \* sessions counted in a behaviour
          Returns     \* a session may come back after the whole retention

HistoryAssumption == MaxFaults \in Nat /\ MaxSeen \in Nat /\ Returns \in BOOLEAN

VARIABLES young, old,  \* sessions with rows after, before the cutoff
          counter,     \* the row that carries the sessions of purged rows
          due,         \* processes whose last purge is a day ago
          purge,       \* [Procs -> a purge under way]
          ever,        \* sessions there have been
          faults,
          crossed      \* history: a purge was written while another was under way

vars == <<young, old, counter, due, purge, ever, faults, crossed>>

NoPurge == [at |-> "idle"]

(* sessions_seen.                                                              *)
SessionsSeen == Cardinality(young \cup old) + counter

Request(k) ==
    /\ k \notin young /\ (k \in ever => Returns) /\ SessionsSeen < MaxSeen
    /\ young' = young \cup {k} /\ ever' = ever \cup {k}
    /\ UNCHANGED <<old, counter, due, purge, faults, crossed>>
(* Rows grow older than the cutoff, which a purge fixes when it begins.        *)
Grow(k) ==
    /\ \A p \in Procs: purge[p].at = "idle"
    /\ k \in young /\ old' = old \cup {k}
    /\ \E still \in BOOLEAN: young' = IF still THEN young ELSE young \ {k}
    /\ UNCHANGED <<counter, due, purge, ever, faults, crossed>>
DayPasses(p) ==
    /\ p \notin due /\ purge[p].at = "idle"
    /\ due' = due \cup {p}
    /\ UNCHANGED <<young, old, counter, purge, ever, faults, crossed>>

(* purge_if_due and _carry_session_counts: the sessions that end are read,     *)
(* then the counter; both are written with the deletion.                       *)
Ended == Cardinality(old \ young)
PurgeIfDue(p) ==
    /\ p \in due /\ purge[p].at = "idle"
    /\ due' = due \ {p}
    /\ purge' = [purge EXCEPT ![p] = [at |-> "counted", ended |-> Ended]]
    /\ UNCHANGED <<young, old, counter, ever, faults, crossed>>
ReadCounter(p) ==
    /\ purge[p].at = "counted"
    /\ purge' = [purge EXCEPT ![p] = [at |-> "read", sum |-> counter + purge[p].ended,
                                      write |-> purge[p].ended # 0]]
    /\ UNCHANGED <<young, old, counter, due, ever, faults, crossed>>
AddSessions(p) == IF purge[p].write THEN purge[p].sum ELSE counter
CommitPurge(p) ==
    /\ purge[p].at = "read"
    /\ counter' = AddSessions(p)
    /\ old' = {}
    /\ crossed' = (crossed \/ \E q \in Procs \ {p}: purge[q].at # "idle")
    /\ purge' = [purge EXCEPT ![p] = NoPurge]
    /\ UNCHANGED <<young, due, ever, faults>>
(* A purge that fails is undone, and the next is a day later.                  *)
PurgeFails(p) ==
    /\ purge[p].at \in {"counted", "read"} /\ faults < MaxFaults
    /\ faults' = faults + 1
    /\ purge' = [purge EXCEPT ![p] = NoPurge]
    /\ UNCHANGED <<young, old, counter, due, ever, crossed>>

Init ==
    /\ young = {} /\ old = {} /\ counter = 0 /\ due = Procs
    /\ purge = [p \in Procs |-> NoPurge] /\ ever = {} /\ faults = 0
    /\ crossed = FALSE

Step(p) == DayPasses(p) \/ PurgeIfDue(p) \/ ReadCounter(p) \/ CommitPurge(p)
Next ==
    \/ \E k \in Sessions: Request(k) \/ Grow(k)
    \/ \E p \in Procs: Step(p) \/ PurgeFails(p)

Spec == Init /\ [][Next]_vars

-----------------------------------------------------------------------------
(* Purging neither loses a session nor counts one twice, also one whose rows   *)
(* lie on both sides of the cutoff, unless two processes purge at once.        *)
SeenOnce == crossed \/ SessionsSeen = Cardinality(ever)

(* The same however many workers purge: "test_a_session_that_spans_the_cutoff_ *)
(* is_counted_once" (tests/test_guard_learning.py:157).                        *)
SeenOnceAlways == SessionsSeen = Cardinality(ever)

(* An account that has learned does not return to learning, unless purges      *)
(* cross.                                                                      *)
SeenNeverFalls == crossed' \/ SessionsSeen' >= SessionsSeen

=============================================================================
