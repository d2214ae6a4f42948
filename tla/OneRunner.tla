------------------------------ MODULE OneRunner ------------------------------
(***************************************************************************)
(* What the panel's jobs promise together, without leases, processes or    *)
(* files: at most one job runs, an outcome is written once, only the       *)
(* running job can succeed, and only a job that no longer runs can be      *)
(* ended by somebody else.  PanelJobs implements it.                       *)
(***************************************************************************)
CONSTANTS Jobs, NoOne

VARIABLES
    running,   \* the job that runs, or NoOne
    outcome    \* outcome[j]: none, open, succeeded or failed

Init ==
    /\ running = NoOne
    /\ outcome = [j \in Jobs |-> "none"]

Start(j) ==
    /\ running = NoOne
    /\ running' = j
    /\ UNCHANGED outcome

Stop(j) ==
    /\ running = j
    /\ running' = NoOne
    /\ UNCHANGED outcome

\* A job that cannot begin, or cannot be handed over, stops as it fails.
Refuse(j) ==
    /\ running = j
    /\ running' = NoOne
    /\ outcome[j] \in {"none", "open"}
    /\ outcome' = [outcome EXCEPT ![j] = "failed"]

Open(j) ==
    /\ running = j
    /\ outcome[j] = "none"
    /\ outcome' = [outcome EXCEPT ![j] = "open"]
    /\ UNCHANGED running

Close(j) ==
    /\ running = j
    /\ outcome[j] = "open"
    /\ \E status \in {"succeeded", "failed"} : outcome' = [outcome EXCEPT ![j] = status]
    /\ UNCHANGED running

\* Jobs that stopped with their outcome open are failed by others.
Abandon(stopped) ==
    /\ stopped # {}
    /\ \A j \in stopped : outcome[j] = "open" /\ running # j
    /\ outcome' = [j \in Jobs |-> IF j \in stopped THEN "failed" ELSE outcome[j]]
    /\ UNCHANGED running

Next ==
    \/ \E j \in Jobs : Start(j) \/ Stop(j) \/ Refuse(j) \/ Open(j) \/ Close(j)
    \/ \E stopped \in SUBSET Jobs : Abandon(stopped)

Spec == Init /\ [][Next]_<<running, outcome>>
=============================================================================
