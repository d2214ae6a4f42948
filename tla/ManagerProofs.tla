--------------------------- MODULE ManagerProofs ----------------------------
(* Proofs about the manager: its jobs (ManagerJobs, extended here) for every *)
(* set of jobs and applications, every time limit and any number of          *)
(* instances; and, as instances with a name of their own, the parts that     *)
(* work on their own.  A constant or a variable below stands for the one of  *)
(* that name in whichever part a theorem is about.                           *)
EXTENDS ManagerJobs, FiniteSetTheorems, FiniteSets, Integers, Sequences, WellFoundedInduction, TLAPS

CONSTANTS
    Names, Clients, Ops, Given, Orphans, Shell,
    Uploads, Files, Plan, Keep, KeepRemote, MaxPlaces, MaxRuns, MaxWrites,
    MaxFaults, MaxCrashes, MaxDeletes, MaxExpiries,
    Server, HostKeys, Requests, Moves, Machine, Presents, None, Sweeps,
    Expiry, MaxRequests,
    Browsers, Enrolled, RECOVERY_CODES, Pending, MaxNow, MaxSets,
    Users, UserOf, Terms, MaxOpen, PerAccount, MaxChanges, Listing,
    Schedulers, Nobody, LeaseSeconds, Interval, InTime, MaxTime

VARIABLES
    user, role, active, change, req, token,
    disk, row, work, job, remote, expiring, left, count,
    home, move, crashes, requests,
    now, acct, sess, secrets, sets, accepted, used, passwords, signIns,
    account, signedIn, opening, reserved, term, stopped, changes, faults,
    leaked, haunted, robbed, again, closer,
    proc, found, tick, due, claims

-----------------------------------------------------------------------------
(* Jobs: locks, leases and recovery.                                         *)

(* No step of a job, an instance or the janitor runs a thread without a row, *)
(* or closes a job whose row is not finished.                                *)
LEMMA RowStep ==
    ASSUME JobInv, [Next]_vars
    PROVE  QueuedHaveRows' /\ ClosingHaveEnded'
<1> DEFINE Kept == QueuedHaveRows' /\ ClosingHaveEnded'
<1>a. /\ event \in [Jobs -> Statuses]
      /\ step \in [Jobs -> Steps]
      /\ QueuedHaveRows
      /\ ClosingHaveEnded
  BY DEF JobInv, TypeOK
<1> USE <1>a DEF Statuses, Steps, UNFINISHED, FINISHED, Threads, QueuedHaveRows, ClosingHaveEnded, Closing
<1>1. ASSUME NEW j \in Jobs, Request(j) PROVE Kept
  BY <1>1 DEF Request, Create, Goto
<1>2. ASSUME NEW j \in Jobs, Dispatch(j) PROVE Kept
  BY <1>2 DEF Dispatch, Create, Goto
<1>3. ASSUME NEW j \in Jobs, DispatchLocks(j) PROVE Kept
  <2>1. \/ step' = [step EXCEPT ![j] = "send"] /\ event' = event
        \/ /\ step' = [step EXCEPT ![j] = "remember"]
           /\ event' = [event EXCEPT ![j] = IF @ \in UNFINISHED THEN "failed" ELSE @]
    BY <1>3 DEF DispatchLocks, Close, Goto
  <2>2. event[j] # "none" /\ step[j] = "lock"
    BY <1>3 DEF DispatchLocks
  <2> QED
    BY <2>1, <2>2
<1>4. ASSUME NEW j \in Jobs, Send(j) PROVE Kept
  BY <1>4 DEF Send, Goto
<1>5. ASSUME NEW j \in Jobs, SendFails(j) PROVE Kept
  BY <1>5 DEF SendFails, Close, Goto
<1>6. ASSUME NEW j \in Jobs, Begin(j) PROVE Kept
  BY <1>6 DEF Begin, Goto
<1>7. ASSUME NEW j \in Jobs, TakeLease(j) PROVE Kept
  BY <1>7 DEF TakeLease, Goto
<1>8. ASSUME NEW j \in Jobs, Hold(j) PROVE Kept
  <2>1. \/ step' = [step EXCEPT ![j] = "work"] /\ event' = event
        \/ /\ step' = [step EXCEPT ![j] = "release"]
           /\ event' = [event EXCEPT ![j] = IF @ \in UNFINISHED THEN "failed" ELSE @]
    BY <1>8 DEF Hold, Close, Goto
  <2>2. event[j] # "none" /\ step[j] = "hold"
    BY <1>8 DEF Hold
  <2> QED
    BY <2>1, <2>2
<1>9. ASSUME NEW j \in Jobs, Finish(j) PROVE Kept
  <2>1. PICK status \in {"succeeded", "failed"} :
          event' = [event EXCEPT ![j] = IF @ \in UNFINISHED THEN status ELSE @]
    BY <1>9 DEF Finish, Close
  <2>2. step[j] = "work" /\ step' = [step EXCEPT ![j] = "release"]
    BY <1>9 DEF Finish, Goto
  <2> QED
    BY <2>1, <2>2
<1>10. ASSUME NEW j \in Jobs, ReleaseReads(j) PROVE Kept
  BY <1>10 DEF ReleaseReads, Released, Goto
<1>11. ASSUME NEW j \in Jobs, ReleaseDeletes(j) PROVE Kept
  BY <1>11 DEF ReleaseDeletes, Released, Goto
<1>12. ASSUME NEW j \in Jobs, Remember(j) PROVE Kept
  BY <1>12 DEF Remember, Goto
<1>13. ASSUME NEW i \in Instances, Crash(i) PROVE Kept
  BY <1>13 DEF Crash, Busy
<1>14. ASSUME NEW i \in Instances, Exit(i) PROVE Kept
  BY <1>14 DEF Exit
<1>15. ASSUME Stop PROVE Kept
  BY <1>15 DEF Stop
<1>16. ASSUME Restart PROVE Kept
  BY <1>16 DEF Restart
<1>17. ASSUME SweepBegins PROVE Kept
  BY <1>17 DEF SweepBegins
<1>18. ASSUME RecoverReads PROVE Kept
  BY <1>18 DEF RecoverReads
<1>19. ASSUME RecoverInterrupts PROVE Kept
  <2>1. PICK S : Interrupted(S)
    BY <1>19 DEF RecoverInterrupts
  <2> QED
    BY <1>19, <2>1 DEF RecoverInterrupts, Interrupted
<1>20. ASSUME SweepInterrupts PROVE Kept
  <2>1. PICK S : Interrupted(S)
    BY <1>20 DEF SweepInterrupts
  <2> QED
    BY <1>20, <2>1 DEF SweepInterrupts, Interrupted
<1>21. ASSUME ReadUnfinished PROVE Kept
  BY <1>21 DEF ReadUnfinished
<1>22. ASSUME NEW a \in Apps, Scan(a) PROVE Kept
  BY <1>22 DEF Scan
<1>23. ASSUME JanitorDeletes PROVE Kept
  BY <1>23 DEF JanitorDeletes
<1>24. ASSUME JanitorEnds PROVE Kept
  BY <1>24 DEF JanitorEnds
<1>25. ASSUME Tick PROVE Kept
  BY <1>25 DEF Tick
<1>26. CASE UNCHANGED vars
  BY <1>26 DEF vars
<1> QED
  BY <1>1, <1>2, <1>3, <1>4, <1>5, <1>6, <1>7, <1>8, <1>9, <1>10, <1>11, <1>12, <1>13,
     <1>14, <1>15, <1>16, <1>17, <1>18, <1>19, <1>20, <1>21, <1>22, <1>23, <1>24, <1>25, <1>26
     DEF Next, Queue, Run, Janitor

(* No step leaves the types.  Remember shows the plan the status of a row,   *)
(* which ClosingHaveEnded says is a finished one.                            *)
LEMMA TypeStep ==
    ASSUME JobInv, [Next]_vars
    PROVE  TypeOK'
<1>a. TypeOK
  BY DEF JobInv
<1>b. /\ Free \in Locks
      /\ \A j \in Jobs : [job |-> j, left |-> Limit] \in Locks
      /\ \A j \in Jobs : AppOf[j] \in Apps
      /\ 0 \in 0 .. Limit /\ Limit \in 0 .. Limit /\ 0 \in 0 .. Stale
  BY ManagerAssumption DEF Free, Locks, Stale
<1>c. /\ \A s \in UNFINISHED \cup FINISHED : s \in Statuses
      /\ Threads \subseteq Steps /\ "over" \in Steps /\ "dead" \in Steps
  BY DEF Statuses, Steps
<1>d. Idle \in Janitors
  BY DEF Idle, Janitors
<1> USE <1>a, <1>b, <1>c DEF TypeOK
<1>1. ASSUME NEW j \in Jobs, Request(j) PROVE TypeOK'
  <2>1. owner' \in [Jobs -> 0 .. MaxStarts]
    BY <1>1, ManagerAssumption DEF Request, Create, Servers, Instances
  <2> QED
    BY <1>1, <2>1 DEF Request, Create, Locked, Goto, UNFINISHED, Threads
<1>2. ASSUME NEW j \in Jobs, Dispatch(j) PROVE TypeOK'
  <2>1. owner' \in [Jobs -> 0 .. MaxStarts]
    BY <1>2, ManagerAssumption DEF Dispatch, Create, Servers, Instances
  <2> QED
    BY <1>2, <2>1 DEF Dispatch, Create, Goto, UNFINISHED, Threads
<1>3. ASSUME NEW j \in Jobs, DispatchLocks(j) PROVE TypeOK'
  <2>1. event' \in [Jobs -> Statuses]
    BY <1>3 DEF DispatchLocks, Close, FINISHED
  <2>2. step' \in [Jobs -> Steps]
    BY <1>3 DEF DispatchLocks, Goto, Threads
  <2> QED
    BY <1>3, <2>1, <2>2 DEF DispatchLocks, Locked, Close
<1>4. ASSUME NEW j \in Jobs, Send(j) PROVE TypeOK'
  BY <1>4 DEF Send, Goto, Threads
<1>5. ASSUME NEW j \in Jobs, SendFails(j) PROVE TypeOK'
  <2>1. event' \in [Jobs -> Statuses]
    BY <1>5 DEF SendFails, Close, FINISHED
  <2>2. step' \in [Jobs -> Steps]
    BY <1>5 DEF SendFails, Goto, Threads
  <2> QED
    BY <1>5, <2>1, <2>2 DEF SendFails, Close
<1>6. ASSUME NEW j \in Jobs, Begin(j) PROVE TypeOK'
  BY <1>6 DEF Begin, Goto, UNFINISHED, Threads
<1>7. ASSUME NEW j \in Jobs, TakeLease(j) PROVE TypeOK'
  BY <1>7 DEF TakeLease, Goto, Threads
<1>8. ASSUME NEW j \in Jobs, Hold(j) PROVE TypeOK'
  <2>1. event' \in [Jobs -> Statuses]
    BY <1>8 DEF Hold, Close, FINISHED
  <2>2. step' \in [Jobs -> Steps]
    BY <1>8 DEF Hold, Goto, Threads
  <2> QED
    BY <1>8, <2>1, <2>2 DEF Hold, Locked, Close
<1>9. ASSUME NEW j \in Jobs, Finish(j) PROVE TypeOK'
  <2>1. event' \in [Jobs -> Statuses]
    BY <1>9 DEF Finish, Close, FINISHED
  <2>2. step' \in [Jobs -> Steps]
    BY <1>9 DEF Finish, Goto, Threads
  <2> QED
    BY <1>9, <2>1, <2>2 DEF Finish, Close
<1>10. ASSUME NEW j \in Jobs, ReleaseReads(j) PROVE TypeOK'
  BY <1>10 DEF ReleaseReads, Released, Goto, Threads
<1>11. ASSUME NEW j \in Jobs, ReleaseDeletes(j) PROVE TypeOK'
  BY <1>11 DEF ReleaseDeletes, Released, Goto, Threads
<1>12. ASSUME NEW j \in Jobs, Remember(j) PROVE TypeOK'
  <2>1. event[j] \in FINISHED
    BY <1>12 DEF Remember, JobInv, ClosingHaveEnded, Closing
  <2> QED
    BY <1>12, <2>1 DEF Remember, Goto
<1>13. ASSUME NEW i \in Instances, Crash(i) PROVE TypeOK'
  <2>1. step' \in [Jobs -> Steps]
    BY <1>13 DEF Crash
  <2>2. server' \in Servers
    BY <1>13 DEF Crash, Servers
  <2> QED
    BY <1>13, <1>d, <2>1, <2>2 DEF Crash
<1>14. ASSUME NEW i \in Instances, Exit(i) PROVE TypeOK'
  BY <1>14 DEF Exit
<1>15. ASSUME Stop PROVE TypeOK'
  <2>1. server' \in Servers
    BY <1>15 DEF Stop, Servers
  <2> QED
    BY <1>15, <2>1 DEF Stop
<1>16. ASSUME Restart PROVE TypeOK'
  <2>1. server' \in Servers
    <3>1. server.inst + 1 \in Instances
      BY <1>16, ManagerAssumption DEF Restart, Servers, Instances
    <3> QED
      BY <1>16, <3>1 DEF Restart, Servers
  <2>2. janitor' \in Janitors
    BY <1>16, <1>d DEF Restart, Janitors
  <2> QED
    BY <1>16, <2>1, <2>2 DEF Restart
<1>17. ASSUME SweepBegins PROVE TypeOK'
  <2>1. janitor' \in Janitors
    BY <1>17 DEF SweepBegins, Janitors
  <2> QED
    BY <1>17, <2>1 DEF SweepBegins
<1>18. ASSUME RecoverReads PROVE TypeOK'
  <2>1. PICK known \in BOOLEAN :
          janitor' = [janitor EXCEPT !.step = "interrupt", !.keep = LiveLeases(known),
                                     !.spared = {j \in Jobs : Working(j)}]
    BY <1>18 DEF RecoverReads
  <2>2. LiveLeases(known) \subseteq Jobs /\ {j \in Jobs : Working(j)} \subseteq Jobs
    BY DEF LiveLeases
  <2>3. janitor' \in Janitors
    BY <2>1, <2>2 DEF Janitors
  <2> QED
    BY <1>18, <2>3 DEF RecoverReads
<1>19. ASSUME RecoverInterrupts PROVE TypeOK'
  <2>1. PICK S : Interrupted(S)
    BY <1>19 DEF RecoverInterrupts
  <2>2. event' \in [Jobs -> Statuses] /\ since' \in [Jobs -> 0 .. Stale]
    BY <2>1 DEF Interrupted, FINISHED
  <2>3. janitor' \in Janitors
    BY <1>19, <1>d DEF RecoverInterrupts, Janitors
  <2> QED
    BY <1>19, <2>2, <2>3 DEF RecoverInterrupts
<1>20. ASSUME SweepInterrupts PROVE TypeOK'
  <2>1. PICK S : Interrupted(S)
    BY <1>20 DEF SweepInterrupts
  <2>2. event' \in [Jobs -> Statuses] /\ since' \in [Jobs -> 0 .. Stale]
    BY <2>1 DEF Interrupted, FINISHED
  <2>3. janitor' \in Janitors
    BY <1>20, <1>d DEF SweepInterrupts, Janitors
  <2> QED
    BY <1>20, <2>2, <2>3 DEF SweepInterrupts
<1>21. ASSUME ReadUnfinished PROVE TypeOK'
  <2>1. janitor' \in Janitors
    BY <1>21, <1>d DEF ReadUnfinished, Janitors
  <2> QED
    BY <1>21, <2>1 DEF ReadUnfinished
<1>22. ASSUME NEW a \in Apps, Scan(a) PROVE TypeOK'
  <2>1. janitor' \in Janitors
    BY <1>22 DEF Scan, Janitors
  <2> QED
    BY <1>22, <2>1 DEF Scan
<1>23. ASSUME JanitorDeletes PROVE TypeOK'
  <2>1. janitor' \in Janitors
    BY <1>23 DEF JanitorDeletes, Janitors
  <2>2. lock' = [lock EXCEPT ![janitor.victim] = Free]
    BY <1>23 DEF JanitorDeletes
  <2>3. swept' \in [Apps -> BOOLEAN]
    BY <1>23 DEF JanitorDeletes
  <2> QED
    BY <1>23, <2>1, <2>2, <2>3 DEF JanitorDeletes
<1>24. ASSUME JanitorEnds PROVE TypeOK'
  <2>1. server' \in Servers
    BY <1>24 DEF JanitorEnds, Servers
  <2> QED
    BY <1>24, <1>d, <2>1 DEF JanitorEnds
<1>25. ASSUME Tick PROVE TypeOK'
  <2>1. ASSUME NEW a \in Apps
        PROVE  (IF lock[a].left > 1 THEN [lock[a] EXCEPT !.left = @ - 1] ELSE Free) \in Locks
    <3>1. lock[a].left \in 0 .. Limit
      BY DEF Locks
    <3>2. CASE lock[a].left > 1
      <4>1. lock[a].left - 1 \in 0 .. Limit
        BY <3>1, <3>2, ManagerAssumption
      <4> QED
        BY <3>2, <4>1 DEF Locks
    <3> QED
      BY <3>2
  <2>2. ASSUME NEW j \in Jobs PROVE Less(lease[j]) \in 0 .. Limit
    BY ManagerAssumption DEF Less
  <2>3. ASSUME NEW j \in Jobs
        PROVE  (IF event[j] \in UNFINISHED /\ since[j] < Stale THEN since[j] + 1 ELSE since[j])
                   \in 0 .. Stale
    <3>1. since[j] \in 0 .. Stale /\ Stale \in Nat
      BY ManagerAssumption DEF Stale
    <3> QED
      BY <3>1
  <2> QED
    BY <1>25, <2>1, <2>2, <2>3 DEF Tick
<1>26. CASE UNCHANGED vars
  BY <1>26 DEF vars
<1> QED
  BY <1>1, <1>2, <1>3, <1>4, <1>5, <1>6, <1>7, <1>8, <1>9, <1>10, <1>11, <1>12, <1>13,
     <1>14, <1>15, <1>16, <1>17, <1>18, <1>19, <1>20, <1>21, <1>22, <1>23, <1>24, <1>25, <1>26
     DEF Next, Queue, Run, Janitor

(* Every reachable state has the types of TypeOK.                            *)
THEOREM TypeCorrect == Spec => []TypeOK
<1>1. Init => JobInv
  BY ManagerAssumption
     DEF Init, JobInv, TypeOK, Instances, UNFINISHED, FINISHED, Threads, Stale, Statuses, Steps, Locks, Servers, Janitors, Free, Idle, QueuedHaveRows, ClosingHaveEnded, Closing
<1>2. JobInv /\ [Next]_vars => JobInv'
  BY TypeStep, RowStep DEF JobInv
<1>3. JobInv => TypeOK
  BY DEF JobInv
<1> QED
  BY <1>1, <1>2, <1>3, PTL DEF Spec

(* A step takes a lock from a job that works, or that is about to delete it, *)
(* only in the janitor's delete, which leaves a trace.                       *)
LEMMA HolderStep ==
    ASSUME JobInv, HoldersHold, [Next]_vars
    PROVE  HoldersHold'
<1>a. /\ step \in [Jobs -> Steps]
      /\ lock \in [Apps -> Locks]
      /\ swept \in [Apps -> BOOLEAN]
      /\ NoJob \notin Jobs
      /\ AppOf \in [Jobs -> Apps]
  BY ManagerAssumption DEF JobInv, TypeOK
<1> USE <1>a DEF HoldersHold, Steps, Threads, Locks, vars
<1>1. ASSUME NEW j \in Jobs, Request(j) PROVE HoldersHold'
  BY <1>1 DEF Request, Create, Acquire, Locked, Serving, Goto
<1>2. ASSUME NEW j \in Jobs, Dispatch(j) PROVE HoldersHold'
  BY <1>2 DEF Dispatch, Create, Serving, Goto
<1>3. ASSUME NEW j \in Jobs, DispatchLocks(j) PROVE HoldersHold'
  <2>1. PICK settling \in BOOLEAN :
          IF Acquire(j, settling)
          THEN lock' = Locked(j) /\ Goto(j, "send")
          ELSE Goto(j, "remember") /\ UNCHANGED lock
    BY <1>3 DEF DispatchLocks
  <2>2. CASE Acquire(j, settling)
    <3>1. /\ lock[AppOf[j]].job = NoJob
          /\ lock' = [lock EXCEPT ![AppOf[j]] = [job |-> j, left |-> Limit]]
          /\ step' = [step EXCEPT ![j] = "send"]
          /\ swept' = swept
      BY <1>3, <2>1, <2>2 DEF DispatchLocks, Acquire, Locked, Goto
    <3> QED
      BY <3>1
  <2>3. CASE ~ Acquire(j, settling)
    BY <1>3, <2>1, <2>3 DEF DispatchLocks, Goto
  <2> QED
    BY <2>2, <2>3
<1>4. ASSUME NEW j \in Jobs, Send(j) PROVE HoldersHold'
  BY <1>4 DEF Send, Goto
<1>5. ASSUME NEW j \in Jobs, SendFails(j) PROVE HoldersHold'
  BY <1>5 DEF SendFails, Close, Goto
<1>6. ASSUME NEW j \in Jobs, Begin(j) PROVE HoldersHold'
  BY <1>6 DEF Begin, Goto
<1>7. ASSUME NEW j \in Jobs, TakeLease(j) PROVE HoldersHold'
  BY <1>7 DEF TakeLease, Goto
<1>8. ASSUME NEW j \in Jobs, Hold(j) PROVE HoldersHold'
  BY <1>8 DEF Hold, Acquire, Locked, Close, Goto
<1>9. ASSUME NEW j \in Jobs, Finish(j) PROVE HoldersHold'
  BY <1>9 DEF Finish, Close, Goto
<1>10. ASSUME NEW j \in Jobs, ReleaseReads(j) PROVE HoldersHold'
  BY <1>10 DEF ReleaseReads, Released, Goto
<1>11. ASSUME NEW j \in Jobs, ReleaseDeletes(j) PROVE HoldersHold'
  BY <1>11 DEF ReleaseDeletes, Released, Free, Goto
<1>12. ASSUME NEW j \in Jobs, Remember(j) PROVE HoldersHold'
  BY <1>12 DEF Remember, Goto
<1>13. ASSUME NEW i \in Instances, Crash(i) PROVE HoldersHold'
  BY <1>13 DEF Crash, Busy, Idle
<1>14. ASSUME NEW i \in Instances, Exit(i) PROVE HoldersHold'
  BY <1>14 DEF Exit
<1>15. ASSUME Stop PROVE HoldersHold'
  BY <1>15 DEF Stop
<1>16. ASSUME Restart PROVE HoldersHold'
  BY <1>16 DEF Restart, Idle
<1>17. ASSUME SweepBegins PROVE HoldersHold'
  BY <1>17 DEF SweepBegins
<1>18. ASSUME RecoverReads PROVE HoldersHold'
  BY <1>18 DEF RecoverReads, LiveLeases, Working
<1>19. ASSUME RecoverInterrupts PROVE HoldersHold'
  BY <1>19 DEF RecoverInterrupts, Interrupted, Idle
<1>20. ASSUME SweepInterrupts PROVE HoldersHold'
  BY <1>20 DEF SweepInterrupts, Interrupted, Idle
<1>21. ASSUME ReadUnfinished PROVE HoldersHold'
  BY <1>21 DEF ReadUnfinished, Idle
<1>22. ASSUME NEW a \in Apps, Scan(a) PROVE HoldersHold'
  BY <1>22 DEF Scan, Abandoned
<1>23. ASSUME JanitorDeletes PROVE HoldersHold'
  <2> SUFFICES ASSUME NEW j \in Jobs, step[j] \in {"work", "delete", "undelete"}
               PROVE  lock'[AppOf[j]].job = j \/ swept'[AppOf[j]]
    BY <1>23 DEF JanitorDeletes
  <2>1. CASE janitor.victim # AppOf[j]
    BY <1>23, <2>1 DEF JanitorDeletes
  <2>2. CASE janitor.victim = AppOf[j]
    <3>1. swept'[AppOf[j]] = (swept[AppOf[j]] \/ StillWanted(AppOf[j]))
      BY <1>23, <2>2 DEF JanitorDeletes
    <3>2. CASE lock[AppOf[j]].job = j
      BY <3>1, <3>2 DEF StillWanted, Busy
    <3> QED
      BY <3>1, <3>2
  <2> QED
    BY <2>1, <2>2
<1>24. ASSUME JanitorEnds PROVE HoldersHold'
  BY <1>24 DEF JanitorEnds, Idle
<1>25. ASSUME Tick PROVE HoldersHold'
  BY <1>25 DEF Tick, Less, Free, Prompt, Busy
<1>26. CASE UNCHANGED vars
  BY <1>26
<1> QED
  BY <1>1, <1>2, <1>3, <1>4, <1>5, <1>6, <1>7, <1>8, <1>9, <1>10, <1>11, <1>12, <1>13, <1>14, <1>15, <1>16, <1>17, <1>18, <1>19, <1>20, <1>21, <1>22, <1>23, <1>24, <1>25, <1>26
     DEF Next, Queue, Run, Janitor

(* A job that works has its application's lock unless the janitor freed it,  *)
(* however many jobs, applications, crashes and restarts there are.          *)
THEOREM WorkersHoldTheLockAlways == Spec => []WorkersHoldTheLock
<1>1. Init => LockInv
  BY ManagerAssumption
     DEF Init, LockInv, JobInv, HoldersHold, TypeOK, Instances, UNFINISHED, FINISHED, Threads, Stale, Statuses, Steps, Locks, Servers, Janitors, Free, Idle, QueuedHaveRows,
         ClosingHaveEnded, Closing
<1>2. LockInv /\ [Next]_vars => LockInv'
  BY TypeStep, RowStep, HolderStep DEF LockInv, JobInv
<1>3. LockInv => WorkersHoldTheLock
  BY DEF LockInv, HoldersHold, WorkersHoldTheLock, Working
<1> QED
  BY <1>1, <1>2, <1>3, PTL DEF Spec

-----------------------------------------------------------------------------
(* Once a thread is through with its job the row has an outcome that nobody  *)
(* changes, and the lock is given back on every path to that end.            *)
LEMMA FreeStep ==
    ASSUME FreeInv, [Next]_vars
    PROVE  /\ WaitingAreUnfinished' /\ OverHaveEnded'
           /\ LocklessHoldNothing' /\ EndedJobsFreeTheirLock'
<1> DEFINE Kept == /\ WaitingAreUnfinished' /\ OverHaveEnded'
                   /\ LocklessHoldNothing' /\ EndedJobsFreeTheirLock'
<1>a. /\ event \in [Jobs -> Statuses]
      /\ step \in [Jobs -> Steps]
      /\ lock \in [Apps -> Locks]
      /\ QueuedHaveRows /\ ClosingHaveEnded
      /\ WaitingAreUnfinished /\ OverHaveEnded
      /\ LocklessHoldNothing /\ EndedJobsFreeTheirLock
      /\ NoJob \notin Jobs
      /\ AppOf \in [Jobs -> Apps]
  BY ManagerAssumption DEF FreeInv, JobInv, TypeOK
<1> USE <1>a
    DEF Statuses, Steps, UNFINISHED, FINISHED, Threads, Locks, QueuedHaveRows,
        ClosingHaveEnded, Closing, WaitingAreUnfinished, OverHaveEnded,
        LocklessHoldNothing, EndedJobsFreeTheirLock
<1>1. ASSUME NEW j \in Jobs, Request(j) PROVE Kept
  BY <1>1 DEF Request, Create, Acquire, Locked, Serving, Goto
<1>2. ASSUME NEW j \in Jobs, Dispatch(j) PROVE Kept
  BY <1>2 DEF Dispatch, Create, Serving, Goto
<1>3. ASSUME NEW j \in Jobs, DispatchLocks(j) PROVE Kept
  <2>1. PICK settling \in BOOLEAN :
          IF Acquire(j, settling)
          THEN lock' = Locked(j) /\ Goto(j, "send") /\ UNCHANGED event
          ELSE Close(j, "failed") /\ Goto(j, "remember") /\ UNCHANGED lock
    BY <1>3 DEF DispatchLocks
  <2>2. step[j] = "lock" /\ event[j] \in UNFINISHED \cup {"interrupted"}
    BY <1>3 DEF DispatchLocks
  <2>3. CASE Acquire(j, settling)
    <3>1. /\ lock' = [lock EXCEPT ![AppOf[j]] = [job |-> j, left |-> Limit]]
          /\ step' = [step EXCEPT ![j] = "send"] /\ event' = event
      BY <2>1, <2>3 DEF Locked, Goto
    <3> QED
      BY <3>1, <2>2
  <2>4. CASE ~ Acquire(j, settling)
    <3>1. /\ event' = [event EXCEPT ![j] = IF @ \in UNFINISHED THEN "failed" ELSE @]
          /\ step' = [step EXCEPT ![j] = "remember"] /\ lock' = lock
      BY <2>1, <2>4 DEF Close, Goto
    <3> QED
      BY <3>1, <2>2
  <2> QED
    BY <2>3, <2>4
<1>4. ASSUME NEW j \in Jobs, Send(j) PROVE Kept
  BY <1>4 DEF Send, Goto
<1>5. ASSUME NEW j \in Jobs, SendFails(j) PROVE Kept
  BY <1>5 DEF SendFails, Close, Goto
<1>6. ASSUME NEW j \in Jobs, Begin(j) PROVE Kept
  BY <1>6 DEF Begin, Goto
<1>7. ASSUME NEW j \in Jobs, TakeLease(j) PROVE Kept
  BY <1>7 DEF TakeLease, Goto
<1>8. ASSUME NEW j \in Jobs, Hold(j) PROVE Kept
  <2>1. step[j] = "hold"
    BY <1>8 DEF Hold
  <2>2. \/ /\ lock' = [lock EXCEPT ![AppOf[j]] = [job |-> j, left |-> Limit]]
           /\ step' = [step EXCEPT ![j] = "work"] /\ event' = event
        \/ /\ step' = [step EXCEPT ![j] = "work"] /\ UNCHANGED <<event, lock>>
        \/ /\ event' = [event EXCEPT ![j] = IF @ \in UNFINISHED THEN "failed" ELSE @]
           /\ step' = [step EXCEPT ![j] = "release"] /\ lock' = lock
    BY <1>8 DEF Hold, Locked, Close, Goto
  <2>3. WaitingAreUnfinished' /\ OverHaveEnded'
    BY <2>1, <2>2
  <2>4. LocklessHoldNothing'
    BY <2>1, <2>2
  <2>5. EndedJobsFreeTheirLock'
    BY <2>1, <2>2
  <2> QED
    BY <2>3, <2>4, <2>5
<1>9. ASSUME NEW j \in Jobs, Finish(j) PROVE Kept
  BY <1>9 DEF Finish, Close, Goto
<1>10. ASSUME NEW j \in Jobs, ReleaseReads(j) PROVE Kept
  BY <1>10 DEF ReleaseReads, Released, Goto
<1>11. ASSUME NEW j \in Jobs, ReleaseDeletes(j) PROVE Kept
  BY <1>11 DEF ReleaseDeletes, Released, Free, Goto
<1>12. ASSUME NEW j \in Jobs, Remember(j) PROVE Kept
  BY <1>12 DEF Remember, Goto
<1>13. ASSUME NEW i \in Instances, Crash(i) PROVE Kept
  BY <1>13 DEF Crash, Busy
<1>14. ASSUME NEW i \in Instances, Exit(i) PROVE Kept
  BY <1>14 DEF Exit
<1>15. ASSUME Stop PROVE Kept
  BY <1>15 DEF Stop
<1>16. ASSUME Restart PROVE Kept
  BY <1>16 DEF Restart
<1>17. ASSUME SweepBegins PROVE Kept
  BY <1>17 DEF SweepBegins
<1>18. ASSUME RecoverReads PROVE Kept
  BY <1>18 DEF RecoverReads
<1>19. ASSUME RecoverInterrupts PROVE Kept
  BY <1>19 DEF RecoverInterrupts, Interrupted
<1>20. ASSUME SweepInterrupts PROVE Kept
  BY <1>20 DEF SweepInterrupts, Interrupted
<1>21. ASSUME ReadUnfinished PROVE Kept
  BY <1>21 DEF ReadUnfinished
<1>22. ASSUME NEW a \in Apps, Scan(a) PROVE Kept
  BY <1>22 DEF Scan
<1>23. ASSUME JanitorDeletes PROVE Kept
  BY <1>23 DEF JanitorDeletes, Free
<1>24. ASSUME JanitorEnds PROVE Kept
  BY <1>24 DEF JanitorEnds
<1>25. ASSUME Tick PROVE Kept
  BY <1>25 DEF Tick, Free
<1>26. CASE UNCHANGED vars
  BY <1>26 DEF vars
<1> QED
  BY <1>1, <1>2, <1>3, <1>4, <1>5, <1>6, <1>7, <1>8, <1>9, <1>10, <1>11, <1>12, <1>13,
     <1>14, <1>15, <1>16, <1>17, <1>18, <1>19, <1>20, <1>21, <1>22, <1>23, <1>24, <1>25, <1>26
     DEF Next, Queue, Run, Janitor

(* A job that its own thread brought to an end has given its application's   *)
(* lock back, unless it was interrupted while it waited in the pool.         *)
THEOREM EndedJobsFreeTheirLockAlways == Spec => []EndedJobsFreeTheirLock
<1>1. Init => FreeInv
  BY ManagerAssumption
     DEF Init, FreeInv, JobInv, TypeOK, Instances, UNFINISHED, FINISHED, Threads, Stale,
         Statuses, Steps, Locks, Servers, Janitors, Free, Idle, QueuedHaveRows,
         ClosingHaveEnded, Closing, WaitingAreUnfinished, OverHaveEnded,
         LocklessHoldNothing, EndedJobsFreeTheirLock
<1>2. FreeInv /\ [Next]_vars => FreeInv'
  BY TypeStep, RowStep, FreeStep DEF FreeInv, JobInv
<1>3. FreeInv => EndedJobsFreeTheirLock
  BY DEF FreeInv
<1> QED
  BY <1>1, <1>2, <1>3, PTL DEF Spec

-----------------------------------------------------------------------------
(* A thread keeps its process, its lease and its youth as long as it lives,  *)
(* and recover() goes on with what it has read.                              *)
LEMMA LivingStep ==
    ASSUME LivingInv, [Next]_vars
    PROVE  /\ BusyAreAlive' /\ ServerIsAlive' /\ JanitorServes' /\ WorkersAreLeased'
           /\ NewAreUnwritten' /\ BusyAreYoung' /\ SparedAreKept'
<1> DEFINE Kept == /\ BusyAreAlive' /\ ServerIsAlive' /\ JanitorServes' /\ WorkersAreLeased'
                   /\ NewAreUnwritten' /\ BusyAreYoung' /\ SparedAreKept'
<1>a. /\ event \in [Jobs -> Statuses]
      /\ step \in [Jobs -> Steps]
      /\ owner \in [Jobs -> 0 .. MaxStarts]
      /\ lease \in [Jobs -> 0 .. Limit]
      /\ since \in [Jobs -> 0 .. Stale]
      /\ alive \in [Instances -> BOOLEAN]
      /\ server \in Servers
      /\ janitor \in Janitors
      /\ QueuedHaveRows
      /\ BusyAreAlive /\ ServerIsAlive /\ JanitorServes /\ WorkersAreLeased
      /\ NewAreUnwritten /\ BusyAreYoung /\ SparedAreKept
      /\ Limit \in Nat \ {0, 1} /\ Slack \in Nat \ {0} /\ MaxStarts \in Nat \ {0}
  BY ManagerAssumption DEF LivingInv, JobInv, TypeOK
<1> USE <1>a
    DEF Statuses, Steps, UNFINISHED, FINISHED, Threads, Servers, Janitors, Instances, Stale,
        QueuedHaveRows, Busy, BusyAreAlive, ServerIsAlive, JanitorServes, WorkersAreLeased,
        NewAreUnwritten, BusyAreYoung, SparedAreKept
<1>1. ASSUME NEW j \in Jobs, Request(j) PROVE Kept
  BY <1>1 DEF Request, Create, Serving, Goto
<1>2. ASSUME NEW j \in Jobs, Dispatch(j) PROVE Kept
  BY <1>2 DEF Dispatch, Create, Serving, Goto
<1>3. ASSUME NEW j \in Jobs, DispatchLocks(j) PROVE Kept
  <2>1. /\ step[j] = "lock"
        /\ UNCHANGED <<owner, lease, alive, server, janitor>>
        /\ \/ step' = [step EXCEPT ![j] = "send"] /\ UNCHANGED <<event, since>>
           \/ /\ event' = [event EXCEPT ![j] = IF @ \in UNFINISHED THEN "failed" ELSE @]
              /\ since' = [since EXCEPT ![j] = 0]
              /\ step' = [step EXCEPT ![j] = "remember"]
    BY <1>3 DEF DispatchLocks, Close, Goto
  <2>2. BusyAreAlive' /\ ServerIsAlive' /\ JanitorServes' /\ SparedAreKept'
    BY <2>1
  <2>3. WorkersAreLeased'
    BY <2>1
  <2>5. NewAreUnwritten'
    BY <2>1
  <2>4. ASSUME NEW i \in Jobs, step'[i] \in Threads PROVE since'[i] <= Limit
    <3>1. CASE i = j
      BY <2>1, <3>1
    <3>2. CASE i # j
      <4>1. step'[i] = step[i] /\ since'[i] = since[i]
        BY <2>1, <3>2
      <4> QED
        BY <2>4, <4>1
    <3> QED
      BY <3>1, <3>2
  <2> QED
    BY <2>2, <2>3, <2>4, <2>5
<1>4. ASSUME NEW j \in Jobs, Send(j) PROVE Kept
  BY <1>4 DEF Send, Goto
<1>5. ASSUME NEW j \in Jobs, SendFails(j) PROVE Kept
  BY <1>5 DEF SendFails, Close, Goto
<1>6. ASSUME NEW j \in Jobs, Begin(j) PROVE Kept
  BY <1>6 DEF Begin, Goto
<1>7. ASSUME NEW j \in Jobs, TakeLease(j) PROVE Kept
  BY <1>7 DEF TakeLease, Goto
<1>8. ASSUME NEW j \in Jobs, Hold(j) PROVE Kept
  <2>1. /\ step[j] = "hold"
        /\ UNCHANGED <<owner, alive, server, janitor>>
        /\ \/ step' = [step EXCEPT ![j] = "work"] /\ UNCHANGED <<event, lease, since>>
           \/ /\ event' = [event EXCEPT ![j] = IF @ \in UNFINISHED THEN "failed" ELSE @]
              /\ since' = [since EXCEPT ![j] = 0]
              /\ lease' = [lease EXCEPT ![j] = 0]
              /\ step' = [step EXCEPT ![j] = "release"]
    BY <1>8 DEF Hold, Close, Goto
  <2>2. BusyAreAlive' /\ ServerIsAlive' /\ JanitorServes' /\ SparedAreKept'
    BY <2>1
  <2>3. WorkersAreLeased'
    BY <2>1
  <2>5. NewAreUnwritten'
    BY <2>1
  <2>4. ASSUME NEW i \in Jobs, step'[i] \in Threads PROVE since'[i] <= Limit
    <3>1. CASE i = j
      BY <2>1, <3>1
    <3>2. CASE i # j
      <4>1. step'[i] = step[i] /\ since'[i] = since[i]
        BY <2>1, <3>2
      <4> QED
        BY <2>4, <4>1
    <3> QED
      BY <3>1, <3>2
  <2> QED
    BY <2>2, <2>3, <2>4, <2>5
<1>9. ASSUME NEW j \in Jobs, Finish(j) PROVE Kept
  BY <1>9 DEF Finish, Close, Goto
<1>10. ASSUME NEW j \in Jobs, ReleaseReads(j) PROVE Kept
  BY <1>10 DEF ReleaseReads, Released, Goto
<1>11. ASSUME NEW j \in Jobs, ReleaseDeletes(j) PROVE Kept
  BY <1>11 DEF ReleaseDeletes, Released, Goto
<1>12. ASSUME NEW j \in Jobs, Remember(j) PROVE Kept
  BY <1>12 DEF Remember, Goto
<1>13. ASSUME NEW i \in Instances, Crash(i) PROVE Kept
  BY <1>13 DEF Crash, Idle
<1>14. ASSUME NEW i \in Instances, Exit(i) PROVE Kept
  BY <1>14 DEF Exit
<1>15. ASSUME Stop PROVE Kept
  BY <1>15 DEF Stop, Idle
<1>16. ASSUME Restart PROVE Kept
  BY <1>16 DEF Restart, Idle
<1>17. ASSUME SweepBegins PROVE Kept
  BY <1>17 DEF SweepBegins, Serving
<1>18. ASSUME RecoverReads PROVE Kept
  BY <1>18 DEF RecoverReads, LiveLeases, Working
<1>19. ASSUME RecoverInterrupts PROVE Kept
  BY <1>19 DEF RecoverInterrupts, Interrupted, Idle
<1>20. ASSUME SweepInterrupts PROVE Kept
  BY <1>20 DEF SweepInterrupts, Interrupted, Idle
<1>21. ASSUME ReadUnfinished PROVE Kept
  BY <1>21 DEF ReadUnfinished, Idle
<1>22. ASSUME NEW a \in Apps, Scan(a) PROVE Kept
  BY <1>22 DEF Scan
<1>23. ASSUME JanitorDeletes PROVE Kept
  BY <1>23 DEF JanitorDeletes
<1>24. ASSUME JanitorEnds PROVE Kept
  BY <1>24 DEF JanitorEnds, Idle
<1>25. ASSUME Tick PROVE Kept
  BY <1>25 DEF Tick, Prompt, Less
<1>26. CASE UNCHANGED vars
  BY <1>26 DEF vars
<1> QED
  BY <1>1, <1>2, <1>3, <1>4, <1>5, <1>6, <1>7, <1>8, <1>9, <1>10, <1>11, <1>12, <1>13,
     <1>14, <1>15, <1>16, <1>17, <1>18, <1>19, <1>20, <1>21, <1>22, <1>23, <1>24, <1>25, <1>26
     DEF Next, Queue, Run, Janitor

(* recover() never ends the row of a job that was working when it looked,    *)
(* and a sweep never ends one that has a live thread, for any time limit and *)
(* any slack above it.                                                       *)
THEOREM TheLivingAreSparedAlways == Spec => TheLivingAreSpared
<1> DEFINE Spared == \A j \in Jobs :
                       event[j] \in UNFINISHED /\ event'[j] = "interrupted" =>
                          /\ j \notin janitor.spared
                          /\ janitor.step = "stale" => ~ Busy(j)
<1>1. Init => LivingInv
  <2> SUFFICES ASSUME Init PROVE LivingInv
    OBVIOUS
  <2>1. JobInv
    BY ManagerAssumption
       DEF Init, JobInv, TypeOK, Instances, UNFINISHED, FINISHED, Threads, Stale,
           Statuses, Steps, Locks, Servers, Janitors, Free, Idle, QueuedHaveRows,
           ClosingHaveEnded, Closing
  <2>2. BusyAreAlive /\ WorkersAreLeased /\ NewAreUnwritten /\ BusyAreYoung
    BY DEF Init, Busy, Threads, BusyAreAlive, WorkersAreLeased, NewAreUnwritten, BusyAreYoung
  <2>3. 1 \in Instances
    BY ManagerAssumption DEF Instances
  <2>4. ServerIsAlive /\ JanitorServes /\ SparedAreKept
    BY <2>3 DEF Init, Idle, ServerIsAlive, JanitorServes, SparedAreKept
  <2> QED
    BY <2>1, <2>2, <2>4 DEF LivingInv
<1>2. LivingInv /\ [Next]_vars => LivingInv'
  BY TypeStep, RowStep, LivingStep DEF LivingInv, JobInv
<1>3. ASSUME LivingInv, [Next]_vars PROVE Spared
  <2>a. /\ event \in [Jobs -> Statuses]
        /\ since \in [Jobs -> 0 .. Stale]
        /\ janitor \in Janitors
        /\ BusyAreYoung /\ SparedAreKept
        /\ Limit \in Nat /\ Slack \in Nat \ {0}
    BY <1>3, ManagerAssumption DEF LivingInv, JobInv, TypeOK
  <2>1. CASE RecoverInterrupts
    BY <2>1, <2>a DEF RecoverInterrupts, Interrupted, SparedAreKept, UNFINISHED
  <2>2. CASE SweepInterrupts
    <3>1. janitor.step = "stale" /\ janitor.spared = {}
      BY <2>2, <2>a DEF SweepInterrupts, SparedAreKept
    <3>2. ASSUME NEW j \in Jobs, event[j] \in UNFINISHED, event'[j] = "interrupted"
          PROVE  ~ Busy(j)
      <4>1. since[j] = Limit + Slack + 1
        BY <2>2, <2>a, <3>2 DEF SweepInterrupts, Interrupted, UNFINISHED, Stale
      <4>2. ~ since[j] <= Limit
        BY <4>1, <2>a
      <4> QED
        BY <4>2, <2>a DEF BusyAreYoung
    <3> QED
      BY <3>1, <3>2
  <2>3. ASSUME ~ RecoverInterrupts, ~ SweepInterrupts,
               NEW j \in Jobs, event[j] \in UNFINISHED
        PROVE  event'[j] # "interrupted"
    BY <1>3, <2>3, <2>a
       DEF Next, Queue, Run, Janitor, vars, UNFINISHED, Statuses, FINISHED, Close,
           Request, Dispatch, Create, DispatchLocks, Send, SendFails, Begin, TakeLease,
           Hold, Finish, ReleaseReads, ReleaseDeletes, Remember, Crash, Exit, Stop,
           Restart, SweepBegins, RecoverReads, ReadUnfinished, Scan, JanitorDeletes,
           JanitorEnds, Tick
  <2> QED
    BY <2>1, <2>2, <2>3
<1>4. LivingInv /\ [Next]_vars => [Spared]_vars
  BY <1>3
<1> QED
  BY <1>1, <1>2, <1>4, PTL DEF Spec, TheLivingAreSpared

-----------------------------------------------------------------------------
(* Accounts: one master at most, the first account, who is not demoted.       *)

People == INSTANCE Accounts

\* An instance's Cardinality is the library's.
LEMMA PeopleCount == ASSUME NEW S PROVE People!Cardinality(S) = Cardinality(S)
BY DEF People!Cardinality, Cardinality

LEMMA OnlyOne ==
    ASSUME NEW S, IsFiniteSet(S), Cardinality(S) <= 1
    PROVE  \A x, y \in S : x = y
<1> SUFFICES ASSUME NEW x \in S, NEW y \in S, x # y PROVE FALSE
  OBVIOUS
<1>1. Cardinality({x, y}) = 2
  <2>1. IsFiniteSet({x}) /\ Cardinality({x}) = 1
    BY FS_Singleton
  <2>2. {x} \cup {y} = {x, y} /\ y \notin {x}
    OBVIOUS
  <2>3. Cardinality({x} \cup {y}) = Cardinality({x}) + 1
    BY <2>1, <2>2, FS_AddElement
  <2> QED
    BY <2>1, <2>2, <2>3
<1>2. Cardinality({x, y}) <= Cardinality(S)
  <2>1. {x, y} \subseteq S
    OBVIOUS
  <2> QED
    BY <2>1, FS_Subset
<1>3. Cardinality(S) \in Nat
  BY FS_CardinalityType
<1> QED
  BY <1>1, <1>2, <1>3

LEMMA AtMostOne ==
    ASSUME NEW S, \A x, y \in S : x = y
    PROVE  IsFiniteSet(S) /\ Cardinality(S) <= 1
<1>1. CASE S = {}
  BY <1>1, FS_EmptySet
<1>2. CASE S # {}
  <2>1. PICK x : S = {x}
    BY <1>2
  <2>2. IsFiniteSet({x}) /\ Cardinality({x}) = 1
    BY FS_Singleton
  <2> QED
    BY <2>1, <2>2
<1> QED
  BY <1>1, <1>2

\* the transaction's check leaves one master at most
LEMMA SavedOnlyMaster ==
    ASSUME People!OnlyMaster, NEW r, NEW n, 
           \A m \in Names : r[m] = "master" => role[m] = "master" \/ m = n,
           People!OneMaster(r)
    PROVE  \A x, y \in {m \in Names : r[m] = "master"} : x = y
<1> DEFINE M == {m \in Names : r[m] = "master"}
<1>1. IsFiniteSet(People!Master)
  BY AtMostOne DEF People!OnlyMaster
<1>2. IsFiniteSet(People!Master \cup {n})
  BY <1>1, FS_AddElement
<1>3. M \subseteq People!Master \cup {n}
  BY DEF People!Master
<1>4. IsFiniteSet(M)
  BY <1>2, <1>3, FS_Subset
<1>5. Cardinality(M) <= 1
  BY PeopleCount DEF People!OneMaster
<1> HIDE DEF M
<1>6. \A x, y \in M : x = y
  BY <1>4, <1>5, OnlyOne
<1> QED
  BY <1>6 DEF M

\* What a change to one request and to the roles has to keep for the others.
LEMMA RequestChanged ==
    ASSUME People!MasterInv, NEW c \in Clients, NEW q \in People!Request,
           req' = [req EXCEPT ![c] = q],
           role' \in [Names -> People!Roles], user' \in [Names -> BOOLEAN],
           \A n \in Names : role[n] # "none" => role'[n] # "none",
           q.op = "hand" => q.by \in Names /\ role'[q.by] # "none",
           q.at = "read" /\ q.op \in {"role", "hand", "make"} =>
               q.to \in Names /\ role'[q.to] # "none",
           q.at = "read" /\ q.op \in {"hand", "make"} =>
               q.cur = Shell \/ (q.cur \in Names /\ role'[q.cur] # "none"),
           q.at # "-" /\ q.at # "run" => q.to \in Names,
           q.at \in {"lease", "held"} => q.op = "setup",
           q.at = "read" /\ q.op = "role" => q.role \in People!Assignable,
           q.at = "read" /\ q.op = "create" /\ ~q.first => q.role \in People!Assignable
    PROVE  People!Typed' /\ People!ReadAreThere' /\ People!ReadAreAssignable'
<1> USE DEF People!MasterInv
<1>1. req \in [Clients -> People!Request]
  BY DEF People!Typed
<1>2. req'[c] = q /\ \A d \in Clients \ {c} : req'[d] = req[d]
  BY <1>1
<1>3. People!Typed'
  BY <1>1 DEF People!Typed
<1>4. People!ReadAreThere'
  <2> SUFFICES ASSUME NEW d \in Clients
               PROVE  /\ req'[d].op = "hand" => (req'[d].by \in Names /\ role'[req'[d].by] # "none")
                      /\ req'[d].at = "read" /\ req'[d].op \in {"role", "hand", "make"} =>
                             (req'[d].to \in Names /\ role'[req'[d].to] # "none")
                      /\ req'[d].at = "read" /\ req'[d].op \in {"hand", "make"} =>
                             req'[d].cur = Shell \/ (req'[d].cur \in Names /\ role'[req'[d].cur] # "none")
    BY DEF People!ReadAreThere, People!HasRole
  <2> QED
    BY <1>2 DEF People!ReadAreThere, People!HasRole
<1>5. People!ReadAreAssignable'
  BY <1>2 DEF People!ReadAreAssignable
<1> QED
  BY <1>3, <1>4, <1>5

\* A request that only reads.
LEMMA RequestMoves ==
    ASSUME People!MasterInv, NEW c \in Clients, NEW q \in People!Request,
           req' = [req EXCEPT ![c] = q], UNCHANGED <<user, role>>,
           q.op = "hand" => q.by \in Names /\ role[q.by] # "none",
           q.at = "read" /\ q.op \in {"role", "hand", "make"} =>
               q.to \in Names /\ role[q.to] # "none",
           q.at = "read" /\ q.op \in {"hand", "make"} =>
               q.cur = Shell \/ (q.cur \in Names /\ role[q.cur] # "none"),
           q.at # "-" /\ q.at # "run" => q.to \in Names,
           q.at \in {"lease", "held"} => q.op = "setup",
           q.at = "read" /\ q.op = "role" => q.role \in People!Assignable,
           q.at = "read" /\ q.op = "create" /\ ~q.first => q.role \in People!Assignable
    PROVE  People!MasterInv'
<1>1. /\ role' = role /\ user' = user
      /\ role \in [Names -> People!Roles] /\ user \in [Names -> BOOLEAN]
  BY DEF People!MasterInv, People!Typed
<1>2. People!Typed' /\ People!ReadAreThere' /\ People!ReadAreAssignable'
  BY <1>1, RequestChanged
<1>3. People!RolesHaveUsers' /\ People!OnlyMaster'
  BY <1>1 DEF People!MasterInv, People!RolesHaveUsers, People!OnlyMaster, People!Master
<1> QED
  BY <1>2, <1>3 DEF People!MasterInv

\* A request that is over.
LEMMA RequestLeaves ==
    ASSUME People!MasterInv, NEW c \in Clients, People!Leave(c),
           role' \in [Names -> People!Roles], user' \in [Names -> BOOLEAN],
           \A n \in Names : role[n] # "none" => role'[n] # "none",
           People!RolesHaveUsers', People!OnlyMaster'
    PROVE  People!MasterInv'
<1>1. /\ People!Idle \in People!Request
      /\ People!Idle.op = "idle" /\ People!Idle.at = "-"
  BY DEF People!Idle, People!Request, People!Roles
<1>2. req' = [req EXCEPT ![c] = People!Idle]
  BY DEF People!Leave
<1>3. People!Typed' /\ People!ReadAreThere' /\ People!ReadAreAssignable'
  BY <1>1, <1>2, RequestChanged
<1> QED
  BY <1>3 DEF People!MasterInv

LEMMA RequestEnds ==
    ASSUME People!MasterInv, NEW c \in Clients, People!Leave(c), UNCHANGED <<user, role>>
    PROVE  People!MasterInv'
<1>1. /\ role' = role /\ user' = user
      /\ role \in [Names -> People!Roles] /\ user \in [Names -> BOOLEAN]
  BY DEF People!MasterInv, People!Typed
<1>2. People!RolesHaveUsers' /\ People!OnlyMaster'
  BY <1>1 DEF People!MasterInv, People!RolesHaveUsers, People!OnlyMaster, People!Master
<1> QED
  BY <1>1, <1>2, RequestLeaves

\* Reading and checking.
LEMMA ReadStep ==
    ASSUME People!AccountsAssumption, People!MasterInv, NEW c \in Clients,
           \/ People!ReadCreate(c) \/ People!ReadRole(c) \/ People!ReadExpire(c)
           \/ People!ReadHand(c) \/ People!ReadMake(c)
           \/ \E on \in BOOLEAN : People!ReadActive(c, on)
    PROVE  People!MasterInv'
<1> DEFINE q == req[c]
<1>0. /\ q \in People!Request
      /\ q.at = "asked" => q.to \in Names
      /\ q.op = "hand" => q.by \in Names /\ role[q.by] # "none"
  BY DEF People!MasterInv, People!Typed, People!ReadAreThere, People!ReadAreAssignable, People!HasRole
<1>1. ASSUME People!Refuse(c) PROVE People!MasterInv'
  BY <1>1, RequestEnds DEF People!Refuse
<1>2. ASSUME NEW p \in People!Request, People!Proceed(c, p), p.to \in Names,
             p.op = "hand" => p.by \in Names /\ role[p.by] # "none",
             p.op \in {"role", "hand", "make"} => role[p.to] # "none",
             p.op \in {"hand", "make"} => p.cur = Shell \/ (p.cur \in Names /\ role[p.cur] # "none"),
             p.op = "role" => p.role \in People!Assignable,
             p.op = "create" /\ ~p.first => p.role \in People!Assignable
      PROVE  People!MasterInv'
  <2> DEFINE r == [p EXCEPT !.at = "read"]
  <2>1. /\ r \in People!Request /\ r.op = p.op /\ r.by = p.by /\ r.to = p.to /\ r.cur = p.cur
        /\ r.role = p.role /\ r.first = p.first /\ r.at = "read"
    BY <1>2 DEF People!Request
  <2>2. req' = [req EXCEPT ![c] = r] /\ UNCHANGED <<user, role>>
    BY <1>2 DEF People!Proceed
  <2> HIDE DEF r
  <2> QED
    BY <1>2, <2>1, <2>2, RequestMoves
<1>3. ASSUME People!ReadCreate(c) PROVE People!MasterInv'
  <2>1. q.op = "create" /\ q.at = "asked"
    BY <1>3 DEF People!ReadCreate
  <2>2. \/ People!Refuse(c)
        \/ /\ People!Proceed(c, [q EXCEPT !.first = ~People!AnyExist])
           /\ People!AnyExist => q.role \in People!Assignable
    BY <1>3 DEF People!ReadCreate
  <2> DEFINE p == [q EXCEPT !.first = ~People!AnyExist]
  <2>3. People!AnyExist \in BOOLEAN
    BY DEF People!AnyExist
  <2>4. /\ p \in People!Request /\ p.op = "create" /\ p.to = q.to /\ p.role = q.role
        /\ p.first = ~People!AnyExist
    BY <1>0, <2>1, <2>3 DEF People!Request
  <2> HIDE DEF p
  <2> QED
    BY <1>0, <1>1, <1>2, <2>1, <2>2, <2>4 DEF p
<1>4. ASSUME People!ReadRole(c) PROVE People!MasterInv'
  <2> DEFINE p == [q EXCEPT !.was = role[q.to]]
  <2>1. /\ q.op = "role" /\ q.at = "asked"
        /\ \/ People!Refuse(c)
           \/ People!Proceed(c, p) /\ q.role \in People!Assignable /\ role[q.to] # "none"
    BY <1>4 DEF People!ReadRole, People!Other
  <2>2. role[q.to] \in People!Roles
    BY <1>0, <2>1 DEF People!MasterInv, People!Typed
  <2>3. p \in People!Request /\ p.op = "role" /\ p.to = q.to /\ p.role = q.role
    BY <1>0, <2>1, <2>2 DEF People!Request
  <2> HIDE DEF p
  <2> QED
    BY <1>0, <1>1, <1>2, <2>1, <2>3
<1>5. ASSUME People!ReadExpire(c) PROVE People!MasterInv'
  <2>1. /\ q.op = "expire" /\ q.at = "asked"
        /\ People!Refuse(c) \/ People!Proceed(c, q)
    BY <1>5 DEF People!ReadExpire
  <2> QED
    BY <1>0, <1>1, <1>2, <2>1
<1>6. ASSUME NEW on \in BOOLEAN, People!ReadActive(c, on) PROVE People!MasterInv'
  <2> DEFINE p == [q EXCEPT !.on = on]
  <2>1. /\ q.op = "active" /\ q.at = "asked"
        /\ People!Refuse(c) \/ People!Proceed(c, p)
    BY <1>6 DEF People!ReadActive
  <2>2. p \in People!Request /\ p.op = "active" /\ p.to = q.to
    BY <1>0, <2>1 DEF People!Request
  <2> HIDE DEF p
  <2> QED
    BY <1>0, <1>1, <1>2, <2>1, <2>2
<1>7. ASSUME People!ReadHand(c) PROVE People!MasterInv'
  <2> DEFINE p == [q EXCEPT !.cur = q.by]
  <2>1. /\ q.op = "hand" /\ q.at = "asked"
        /\ \/ People!Refuse(c)
           \/ People!Proceed(c, p) /\ role[q.to] # "none"
    BY <1>7 DEF People!ReadHand, People!Other
  <2>2. p \in People!Request /\ p.op = "hand" /\ p.to = q.to /\ p.by = q.by /\ p.cur = q.by
    BY <1>0, <2>1 DEF People!Request
  <2> HIDE DEF p
  <2> QED
    BY <1>0, <1>1, <1>2, <2>1, <2>2
<1>8. ASSUME People!ReadMake(c) PROVE People!MasterInv'
  <2>1. /\ q.op = "make" /\ q.at = "asked"
        /\ \/ People!Refuse(c)
           \/ /\ role[q.to] # "none"
              /\ \E m \in IF People!Master = {} THEN {Shell} ELSE People!Master :
                    People!Proceed(c, [q EXCEPT !.cur = m])
    BY <1>8 DEF People!ReadMake
  <2>2. ASSUME NEW m \in IF People!Master = {} THEN {Shell} ELSE People!Master,
               People!Proceed(c, [q EXCEPT !.cur = m]), role[q.to] # "none"
        PROVE  People!MasterInv'
    <3> DEFINE p == [q EXCEPT !.cur = m]
    <3>1. m = Shell \/ (m \in Names /\ role[m] # "none")
      BY <2>2 DEF People!Master
    <3>2. p \in People!Request /\ p.op = "make" /\ p.to = q.to /\ p.cur = m
      BY <1>0, <2>1, <3>1 DEF People!Request
    <3> HIDE DEF p
    <3> QED
      BY <1>0, <1>2, <2>1, <2>2, <3>1, <3>2 DEF p
  <2> QED
    BY <1>1, <2>1, <2>2
<1> QED
  BY <1>3, <1>4, <1>5, <1>6, <1>7, <1>8

\* A transaction that the constraint lets through, or that changes nothing.
LEMMA RolesSaved ==
    ASSUME People!MasterInv, NEW n \in Names, NEW x \in People!Roles, x # "none",
           \/ UNCHANGED <<role, user>>
           \/ /\ role' = [role EXCEPT ![n] = x] /\ People!OneMaster([role EXCEPT ![n] = x])
              /\ user' \in [Names -> BOOLEAN] /\ user'[n]
              /\ \A m \in Names : user[m] => user'[m]
    PROVE  /\ role' \in [Names -> People!Roles] /\ user' \in [Names -> BOOLEAN]
           /\ \A m \in Names : role[m] # "none" => role'[m] # "none"
           /\ People!RolesHaveUsers' /\ People!OnlyMaster'
<1>1. role \in [Names -> People!Roles] /\ user \in [Names -> BOOLEAN]
  BY DEF People!MasterInv, People!Typed
<1>2. CASE UNCHANGED <<role, user>>
  BY <1>1, <1>2 DEF People!MasterInv, People!RolesHaveUsers, People!OnlyMaster, People!Master
<1>3. CASE /\ role' = [role EXCEPT ![n] = x] /\ People!OneMaster([role EXCEPT ![n] = x])
           /\ user' \in [Names -> BOOLEAN] /\ user'[n]
           /\ \A m \in Names : user[m] => user'[m]
  <2>1. role' \in [Names -> People!Roles] /\ \A m \in Names \ {n} : role'[m] = role[m]
    BY <1>1, <1>3
  <2>2. role'[n] = x
    BY <1>1, <1>3
  <2>3. People!RolesHaveUsers'
    BY <1>3, <2>1, <2>2 DEF People!MasterInv, People!RolesHaveUsers
  <2>4. People!OneMaster(role')
    BY <1>3
  <2>5. People!OnlyMaster
    BY DEF People!MasterInv
  <2> DEFINE r == role'
  <2>6. \A m \in Names : r[m] = "master" => role[m] = "master" \/ m = n
    BY <2>1
  <2>7. People!OneMaster(r)
    BY <2>4
  <2> HIDE DEF r
  <2>8. \A a, b \in {m \in Names : r[m] = "master"} : a = b
    BY <2>5, <2>6, <2>7, SavedOnlyMaster
  <2>9. People!OnlyMaster'
    BY <2>8 DEF r, People!OnlyMaster, People!Master
  <2>10. \A m \in Names : role[m] # "none" => role'[m] # "none"
    <3> SUFFICES ASSUME NEW m \in Names, role[m] # "none" PROVE role'[m] # "none"
      OBVIOUS
    <3>1. CASE m = n
      BY <2>2, <3>1
    <3>2. CASE m # n
      BY <2>1, <3>2
    <3> QED
      BY <3>1, <3>2
  <2> QED
    BY <1>3, <2>1, <2>3, <2>9, <2>10
<1> QED
  BY <1>2, <1>3

\* A hand-over takes the role from one and gives it to the other, or does neither.
LEMMA HandStep ==
    ASSUME People!AccountsAssumption, People!MasterInv, NEW c \in Clients, People!WriteHand(c)
    PROVE  /\ People!MasterInv'
           /\ \A n \in Names : role[n] # "none" => role'[n] # "none"
           /\ role' # role => role'[req[c].to] = "master" /\ req[c].to \in Names
           /\ req[c].cur \in People!Master => role'[req[c].to] = "master"
<1> DEFINE q == req[c]
           down == [role EXCEPT ![q.cur] = "admin"]
           alone == [role EXCEPT ![q.to] = "master"]
           both == [down EXCEPT ![q.to] = "master"]
<1>1. /\ role \in [Names -> People!Roles] /\ user \in [Names -> BOOLEAN]
      /\ People!OnlyMaster
  BY DEF People!MasterInv, People!Typed
<1>2. /\ q.at = "read" /\ q.op \in {"hand", "make"}
      /\ People!Leave(c) /\ user' = user
  BY DEF People!WriteHand
<1>3. /\ q.to \in Names /\ role[q.to] # "none" /\ user[q.to]
      /\ q.cur = Shell \/ (q.cur \in Names /\ role[q.cur] # "none")
      /\ Shell \notin Names
  BY <1>2 DEF People!MasterInv, People!ReadAreThere, People!HasRole, People!RolesHaveUsers,
              People!AccountsAssumption
<1>4. /\ alone \in [Names -> People!Roles] /\ alone[q.to] = "master"
      /\ \A m \in Names \ {q.to} : alone[m] = role[m]
  BY <1>1, <1>3 DEF People!Roles
<1>5. ASSUME q.cur # Shell
      PROVE  /\ down \in [Names -> People!Roles] /\ down[q.cur] = "admin"
             /\ \A m \in Names \ {q.cur} : down[m] = role[m]
             /\ both \in [Names -> People!Roles] /\ both[q.to] = "master"
             /\ \A m \in Names \ {q.to} : both[m] = down[m]
  <2>1. /\ down \in [Names -> People!Roles] /\ down[q.cur] = "admin"
        /\ \A m \in Names \ {q.cur} : down[m] = role[m]
    BY <1>1, <1>3, <1>5 DEF People!Roles, People!Assignable
  <2> HIDE DEF down
  <2> QED
    BY <1>3, <2>1 DEF People!Roles
<1>6. /\ q.cur = Shell =>
            role' = IF People!OneMaster(alone) THEN alone ELSE role
      /\ q.cur # Shell =>
            role' = IF People!OneMaster(down) /\ People!OneMaster(both) THEN both ELSE role
  <2>1. /\ Cardinality(DOMAIN <<alone>>) = 1
        /\ Cardinality(DOMAIN <<down, both>>) = 2
    <3>1. DOMAIN <<alone>> = 1 .. 1 /\ DOMAIN <<down, both>> = 1 .. 2
      OBVIOUS
    <3>2. 1 .. 1 = {1} /\ 1 .. 2 = {1} \cup {2} /\ 2 \notin {1}
      OBVIOUS
    <3>3. IsFiniteSet({1}) /\ Cardinality({1}) = 1
      BY FS_Singleton
    <3>4. Cardinality({1} \cup {2}) = Cardinality({1}) + 1
      BY <3>2, <3>3, FS_AddElement
    <3> HIDE DEF down, alone, both
    <3> QED
      BY <3>1, <3>2, <3>3, <3>4
  <2>2. role' = IF \A i \in DOMAIN People!HandedOver(q) : People!OneMaster(People!HandedOver(q)[i])
                THEN People!HandedOver(q)[Cardinality(DOMAIN People!HandedOver(q))] ELSE role
    BY PeopleCount DEF People!WriteHand
  <2>3. /\ q.cur = Shell => People!HandedOver(q) = <<alone>>
        /\ q.cur # Shell => People!HandedOver(q) = <<down, both>>
    BY DEF People!HandedOver
  <2> HIDE DEF down, alone, both
  <2>4. CASE q.cur = Shell
    <3>1. People!HandedOver(q) = <<alone>>
      BY <2>3, <2>4
    <3> QED
      BY <2>1, <2>2, <2>4, <3>1
  <2>5. CASE q.cur # Shell
    <3>1. People!HandedOver(q) = <<down, both>>
      BY <2>3, <2>5
    <3> QED
      BY <2>1, <2>2, <2>5, <3>1
  <2> QED
    BY <2>4, <2>5
<1>7. \/ role' = role
      \/ /\ role' \in [Names -> People!Roles] /\ role'[q.to] = "master" /\ People!OneMaster(role')
         /\ \A m \in Names \ {q.to, q.cur} : role'[m] = role[m]
         /\ q.cur \in Names \ {q.to} => role'[q.cur] = "admin"
  <2> HIDE DEF down, alone, both
  <2> QED
    BY <1>3, <1>4, <1>5, <1>6
<1>8. People!MasterInv' /\ \A n \in Names : role[n] # "none" => role'[n] # "none"
  <2>1. /\ role' \in [Names -> People!Roles] /\ user' \in [Names -> BOOLEAN]
        /\ \A m \in Names : role[m] # "none" => role'[m] # "none"
        /\ People!RolesHaveUsers'
    BY <1>1, <1>2, <1>3, <1>7 DEF People!MasterInv, People!RolesHaveUsers
  <2>2. People!OnlyMaster'
    <3> DEFINE r == role'
    <3>1. CASE role' = role
      BY <3>1 DEF People!MasterInv, People!OnlyMaster, People!Master
    <3>2. CASE role' # role
      <4>1. \A m \in Names : r[m] = "master" => role[m] = "master" \/ m = q.to
        BY <1>7, <3>2
      <4>2. People!OneMaster(r)
        BY <1>7, <3>2
      <4> HIDE DEF r
      <4>3. \A a, b \in {m \in Names : r[m] = "master"} : a = b
        BY <1>1, <4>1, <4>2, SavedOnlyMaster
      <4> QED
        BY <4>3 DEF r, People!OnlyMaster, People!Master
    <3> QED
      BY <3>1, <3>2
  <2> QED
    BY <1>2, <2>1, <2>2, RequestLeaves
<1>9. role' # role => role'[q.to] = "master" /\ q.to \in Names
  BY <1>3, <1>7
<1>10. ASSUME q.cur \in People!Master PROVE role'[q.to] = "master"
  <2>1. q.cur \in Names /\ role[q.cur] = "master" /\ q.cur # Shell
    BY <1>3, <1>10 DEF People!Master
  <2>2. \A m \in Names : role[m] = "master" => m = q.cur
    BY <1>1, <2>1 DEF People!OnlyMaster, People!Master
  <2> HIDE DEF down, both
  <2>3. {m \in Names : down[m] = "master"} = {}
    BY <1>5, <2>1, <2>2
  <2>4. {m \in Names : both[m] = "master"} = {q.to}
    BY <1>3, <1>5, <2>1, <2>3
  <2>5. People!OneMaster(down) /\ People!OneMaster(both)
    <3>1. Cardinality({}) = 0 /\ Cardinality({q.to}) = 1
      BY FS_EmptySet, FS_Singleton
    <3>2. People!Cardinality({}) = 0 /\ People!Cardinality({q.to}) = 1
      BY <3>1, PeopleCount
    <3>3. People!OneMaster(down)
      BY <2>3, <3>2 DEF People!OneMaster
    <3>4. People!OneMaster(both)
      BY <2>4, <3>2 DEF People!OneMaster
    <3> QED
      BY <3>3, <3>4
  <2> QED
    BY <1>5, <1>6, <2>1, <2>5
<1> QED
  BY <1>8, <1>9, <1>10

\* Saving a role, of one account.
LEMMA WriteStep ==
    ASSUME People!AccountsAssumption, People!MasterInv, NEW c \in Clients,
           People!WriteCreate(c) \/ People!WriteRole(c)
    PROVE  People!MasterInv'
<1> DEFINE q == req[c]
<1>0. /\ q \in People!Request /\ role \in [Names -> People!Roles] /\ user \in [Names -> BOOLEAN]
      /\ \A x \in People!Roles : x \in People!Assignable \/ x = "master" => x # "none"
      /\ People!Assignable \subseteq People!Roles /\ "master" \in People!Roles
  BY DEF People!MasterInv, People!Typed, People!Assignable, People!Roles
<1>1. CASE People!WriteCreate(c)
  <2> DEFINE x == IF q.first THEN "master" ELSE q.role
             r == [role EXCEPT ![q.to] = x]
  <2>1. /\ q.op = "create" /\ q.at = "read" /\ People!Leave(c)
        /\ role' = IF ~user[q.to] /\ People!OneMaster(r) THEN r ELSE role
        /\ user' = IF ~user[q.to] /\ People!OneMaster(r) THEN [user EXCEPT ![q.to] = TRUE] ELSE user
    BY <1>1 DEF People!WriteCreate
  <2>2. /\ q.to \in Names
        /\ ~q.first => q.role \in People!Assignable
    BY <2>1 DEF People!MasterInv, People!ReadAreAssignable
  <2>3. x \in People!Roles /\ x # "none"
    BY <1>0, <2>2
  <2> HIDE DEF x
  <2>4. \/ UNCHANGED <<role, user>>
        \/ /\ role' = r /\ People!OneMaster(r)
           /\ user' \in [Names -> BOOLEAN] /\ user'[q.to] /\ \A m \in Names : user[m] => user'[m]
    BY <1>0, <2>1, <2>2
  <2>5. /\ role' \in [Names -> People!Roles] /\ user' \in [Names -> BOOLEAN]
        /\ \A m \in Names : role[m] # "none" => role'[m] # "none"
        /\ People!RolesHaveUsers' /\ People!OnlyMaster'
    BY <2>2, <2>3, <2>4, RolesSaved
  <2> QED
    BY <2>1, <2>5, RequestLeaves
<1>2. CASE People!WriteRole(c)
  <2> DEFINE r == [role EXCEPT ![q.to] = q.role]
  <2>1. /\ q.op = "role" /\ q.at = "read" /\ People!Leave(c) /\ user' = user
        /\ role' = IF People!OneMaster(r) THEN r ELSE role
    BY <1>2 DEF People!WriteRole, People!Saved
  <2>2. q.to \in Names /\ q.role \in People!Assignable /\ role[q.to] # "none" /\ user[q.to]
    BY <2>1 DEF People!MasterInv, People!ReadAreAssignable, People!ReadAreThere, People!HasRole,
                People!RolesHaveUsers
  <2>3. q.role \in People!Roles /\ q.role # "none"
    BY <1>0, <2>2
  <2>4. \/ UNCHANGED <<role, user>>
        \/ /\ role' = r /\ People!OneMaster(r)
           /\ user' \in [Names -> BOOLEAN] /\ user'[q.to] /\ \A m \in Names : user[m] => user'[m]
    BY <1>0, <2>1, <2>2
  <2>5. /\ role' \in [Names -> People!Roles] /\ user' \in [Names -> BOOLEAN]
        /\ \A m \in Names : role[m] # "none" => role'[m] # "none"
        /\ People!RolesHaveUsers' /\ People!OnlyMaster'
    BY <2>2, <2>3, <2>4, RolesSaved
  <2> QED
    BY <2>1, <2>5, RequestLeaves
<1> QED
  BY <1>1, <1>2

\* A user without an account gets a viewer's: no one becomes the master.
LEMMA AdoptStep ==
    ASSUME People!MasterInv, People!AdoptOrphans
    PROVE  People!MasterInv' /\ People!Master' = People!Master
<1>1. /\ role \in [Names -> People!Roles] /\ user \in [Names -> BOOLEAN] /\ user' = user /\ req' = req
      /\ role' = [n \in Names |-> IF user[n] /\ role[n] = "none" THEN "viewer" ELSE role[n]]
      /\ "viewer" \in People!Roles
  BY DEF People!MasterInv, People!Typed, People!AdoptOrphans, People!Roles, People!Assignable
<1>2. role' \in [Names -> People!Roles]
  BY <1>1
<1>3. \A n \in Names : /\ role[n] # "none" => role'[n] = role[n]
                       /\ role[n] = "none" => role'[n] # "master"
                       /\ role'[n] # "none" => user'[n]
  BY <1>1 DEF People!MasterInv, People!RolesHaveUsers
<1>4. People!Master' = People!Master
  BY <1>3 DEF People!Master
<1>5. People!Typed' /\ People!RolesHaveUsers' /\ People!OnlyMaster'
  BY <1>1, <1>2, <1>3, <1>4 DEF People!MasterInv, People!Typed, People!RolesHaveUsers, People!OnlyMaster
<1>6. People!ReadAreThere'
  BY <1>1, <1>3 DEF People!MasterInv, People!ReadAreThere, People!HasRole
<1>7. People!ReadAreAssignable'
  BY <1>1 DEF People!MasterInv, People!ReadAreAssignable
<1> QED
  BY <1>4, <1>5, <1>6, <1>7 DEF People!MasterInv

\* The setup page.
LEMMA SetupStep ==
    ASSUME People!AccountsAssumption, People!MasterInv, NEW c \in Clients,
           \/ People!Take(c) \/ People!SetupCheck(c) \/ People!SetupCreate(c)
           \/ \E n \in Names : People!Setup(c, n)
    PROVE  People!MasterInv'
<1> DEFINE q == req[c]
<1>0. /\ q \in People!Request /\ role \in [Names -> People!Roles] /\ user \in [Names -> BOOLEAN]
      /\ q.at # "-" /\ q.at # "run" => q.to \in Names
      /\ q.op = "hand" => q.by \in Names /\ role[q.by] # "none"
      /\ req \in [Clients -> People!Request]
      /\ "master" \in People!Roles
  BY DEF People!MasterInv, People!Typed, People!ReadAreAssignable, People!ReadAreThere, People!HasRole,
         People!Roles
<1>1. ASSUME NEW p \in People!Request, req' = [req EXCEPT ![c] = p], UNCHANGED <<user, role>>,
             p.op = "setup", p.to \in Names
      PROVE  People!MasterInv'
  BY <1>1, RequestMoves
<1>2. CASE People!Take(c)
  <2> DEFINE p == [q EXCEPT !.at = "held"]
  <2>1. /\ q.at = "lease" /\ UNCHANGED <<user, role>>
        /\ req' = [req EXCEPT ![c] = p] \/ People!Leave(c)
    BY <1>0, <1>2 DEF People!Take, People!Rows
  <2>2. q.op = "setup" /\ q.to \in Names
    BY <1>0, <2>1 DEF People!MasterInv, People!ReadAreAssignable
  <2>3. p \in People!Request /\ p.op = "setup" /\ p.to = q.to
    BY <1>0, <2>2 DEF People!Request
  <2> HIDE DEF p
  <2> QED
    BY <1>1, <2>1, <2>2, <2>3, RequestEnds
<1>3. CASE People!SetupCheck(c)
  <2> DEFINE p == [q EXCEPT !.at = "read"]
  <2>1. /\ q.at = "held" /\ UNCHANGED <<user, role>>
        /\ req' = [req EXCEPT ![c] = p] \/ People!Leave(c)
    BY <1>0, <1>3 DEF People!SetupCheck, People!Rows
  <2>2. q.op = "setup" /\ q.to \in Names
    BY <1>0, <2>1 DEF People!MasterInv, People!ReadAreAssignable
  <2>3. p \in People!Request /\ p.op = "setup" /\ p.to = q.to
    BY <1>0, <2>2 DEF People!Request
  <2> HIDE DEF p
  <2> QED
    BY <1>1, <2>1, <2>2, <2>3, RequestEnds
<1>4. CASE People!SetupCreate(c)
  <2> DEFINE p == [q EXCEPT !.at = "made"]
             r == [role EXCEPT ![q.to] = "master"]
  <2>1. q.op = "setup" /\ q.at = "read" /\ q.to \in Names
    BY <1>0, <1>4 DEF People!SetupCreate
  <2>2. /\ role' = IF ~user[q.to] /\ People!OneMaster(r) THEN r ELSE role
        /\ user' = IF ~user[q.to] /\ People!OneMaster(r) THEN [user EXCEPT ![q.to] = TRUE] ELSE user
        /\ req' = [req EXCEPT ![c] = p] \/ People!Leave(c)
    BY <1>4 DEF People!SetupCreate, People!Leave
  <2>3. p \in People!Request /\ p.op = "setup" /\ p.at = "made" /\ p.to = q.to
    BY <1>0, <2>1 DEF People!Request
  <2> HIDE DEF p
  <2>4. \/ UNCHANGED <<role, user>>
        \/ /\ role' = r /\ People!OneMaster(r)
           /\ user' \in [Names -> BOOLEAN] /\ user'[q.to] /\ \A m \in Names : user[m] => user'[m]
    BY <1>0, <2>1, <2>2
  <2>5. /\ role' \in [Names -> People!Roles] /\ user' \in [Names -> BOOLEAN]
        /\ \A m \in Names : role[m] # "none" => role'[m] # "none"
        /\ People!RolesHaveUsers' /\ People!OnlyMaster'
    BY <1>0, <2>1, <2>4, RolesSaved
  <2>6. CASE req' = [req EXCEPT ![c] = p]
    <3>1. People!Typed' /\ People!ReadAreThere' /\ People!ReadAreAssignable'
      BY <2>1, <2>3, <2>5, <2>6, RequestChanged
    <3> QED
      BY <2>5, <3>1 DEF People!MasterInv
  <2>7. CASE People!Leave(c)
    BY <2>5, <2>7, RequestLeaves
  <2> QED
    BY <2>2, <2>6, <2>7
<1>5. ASSUME NEW n \in Names, People!Setup(c, n) PROVE People!MasterInv'
  <2> DEFINE p == [People!Idle EXCEPT !.op = "setup", !.at = "lease", !.to = n]
  <2>1. p \in People!Request /\ p.op = "setup" /\ p.to = n
    BY DEF People!Idle, People!Request, People!Roles
  <2>2. req' = [req EXCEPT ![c] = p] /\ UNCHANGED <<user, role>>
    BY <1>5 DEF People!Setup, People!Rows
  <2> HIDE DEF p
  <2> QED
    BY <1>1, <2>1, <2>2
<1> QED
  BY <1>2, <1>3, <1>4, <1>5

\* Asking for something.
LEMMA AskStep ==
    ASSUME People!AccountsAssumption, People!MasterInv, NEW c \in Clients,
           \/ People!RunAsks(c)
           \/ \E op \in Ops, by \in Names \cup {Shell}, to \in Names, r \in Given \cup {"none"} :
                 People!Ask(c, op, by, to, r)
    PROVE  People!MasterInv'
<1>1. CASE People!RunAsks(c)
  <2> DEFINE p == [People!Idle EXCEPT !.op = "run", !.at = "run"]
  <2>1. p \in People!Request /\ p.op = "run" /\ p.at = "run"
    BY DEF People!Idle, People!Request, People!Roles
  <2>2. req' = [req EXCEPT ![c] = p] /\ UNCHANGED <<user, role>>
    BY <1>1 DEF People!RunAsks, People!Rows
  <2> HIDE DEF p
  <2> QED
    BY <2>1, <2>2, RequestMoves
<1>2. ASSUME NEW op \in Ops, NEW by \in Names \cup {Shell}, NEW to \in Names,
             NEW r \in Given \cup {"none"}, People!Ask(c, op, by, to, r)
      PROVE  People!MasterInv'
  <2> DEFINE p == [People!Idle EXCEPT !.op = op, !.at = "asked", !.by = by, !.to = to, !.role = r]
  <2>1. /\ op = "hand" => by \in Names /\ role[by] # "none"
        /\ req' = [req EXCEPT ![c] = p] /\ UNCHANGED <<user, role>>
    BY <1>2 DEF People!Ask, People!Required, People!RoleOf
  <2>2. r \in People!Roles
    BY DEF People!AccountsAssumption, People!Roles, People!Assignable
  <2>3. /\ p \in People!Request /\ p.op = op /\ p.at = "asked" /\ p.by = by /\ p.to = to
    BY <2>2 DEF People!Idle, People!Request, People!Roles
  <2> HIDE DEF p
  <2> QED
    BY <2>1, <2>3, RequestMoves
<1> QED
  BY <1>1, <1>2

LEMMA MasterInvStarts == ASSUME People!AccountsAssumption, People!Init PROVE People!MasterInv
<1>1. People!Idle \in People!Request /\ People!Idle.op = "idle" /\ People!Idle.at = "-"
  BY DEF People!Idle, People!Request, People!Roles
<1>2. /\ role = [n \in Names |-> "none"] /\ user \in [Names -> BOOLEAN]
      /\ req = [c \in Clients |-> People!Idle] /\ "none" \in People!Roles
  BY DEF People!Init, People!Roles
<1> HIDE DEF People!Idle
<1>3. People!Typed
  BY <1>1, <1>2 DEF People!Typed
<1>4. People!RolesHaveUsers /\ People!OnlyMaster
  BY <1>2 DEF People!RolesHaveUsers, People!OnlyMaster, People!Master
<1>5. People!ReadAreThere /\ People!ReadAreAssignable
  BY <1>1, <1>2 DEF People!ReadAreThere, People!ReadAreAssignable
<1> QED
  BY <1>3, <1>4, <1>5 DEF People!MasterInv

LEMMA MasterInvStays ==
    ASSUME People!AccountsAssumption, People!MasterInv, [People!Next]_(People!vars)
    PROVE  People!MasterInv'
<1>1. ASSUME NEW c \in Clients, People!Step(c) PROVE People!MasterInv'
  <2>1. CASE \/ People!ReadCreate(c) \/ People!ReadRole(c) \/ People!ReadExpire(c)
             \/ People!ReadHand(c) \/ People!ReadMake(c)
             \/ \E on \in BOOLEAN : People!ReadActive(c, on)
    BY <2>1, ReadStep
  <2>2. CASE People!WriteCreate(c) \/ People!WriteRole(c)
    BY <2>2, WriteStep
  <2>3. CASE People!WriteHand(c)
    BY <2>3, HandStep
  <2>4. CASE People!WriteActive(c) \/ People!WriteExpire(c) \/ People!WriteToken(c) \/ People!RemoveToken(c)
    <3>1. People!Leave(c) /\ UNCHANGED <<user, role>>
      BY <2>4 DEF People!WriteActive, People!WriteExpire, People!WriteToken, People!RemoveToken, People!Rows
    <3> QED
      BY <3>1, RequestEnds
  <2>5. CASE People!Take(c) \/ People!SetupCheck(c) \/ People!SetupCreate(c)
    BY <2>5, SetupStep
  <2> QED
    BY <1>1, <2>1, <2>2, <2>3, <2>4, <2>5 DEF People!Step
<1>2. ASSUME NEW c \in Clients, People!Crash(c) PROVE People!MasterInv'
  <2>1. People!Leave(c) /\ UNCHANGED <<user, role>>
    BY <1>2 DEF People!Crash, People!Rows
  <2> QED
    BY <2>1, RequestEnds
<1>3. CASE UNCHANGED <<user, role, req>>
  BY <1>3 DEF People!MasterInv, People!Typed, People!RolesHaveUsers, People!OnlyMaster, People!Master,
              People!ReadAreThere, People!ReadAreAssignable, People!HasRole
<1>4. CASE People!LeaseExpires \/ UNCHANGED People!vars
  <2>1. UNCHANGED <<user, role, req>>
    BY <1>4 DEF People!LeaseExpires, People!Rows, People!vars
  <2> QED
    BY <1>3, <2>1
<1> QED
  BY <1>1, <1>2, <1>4, AskStep, SetupStep, AdoptStep DEF People!Next

\* What the invariant says of the master role.
LEMMA OneMasterHeld == ASSUME People!MasterInv PROVE People!AtMostOneMaster
<1>1. \A m, n \in People!Master : m = n
  BY DEF People!MasterInv, People!OnlyMaster
<1>2. Cardinality(People!Master) <= 1
  BY <1>1, AtMostOne
<1>3. People!Cardinality(People!Master) <= 1
  BY <1>2, PeopleCount
<1>4. \A n \in People!Master : user[n]
  BY DEF People!MasterInv, People!RolesHaveUsers, People!Master
<1> QED
  BY <1>3, <1>4 DEF People!AtMostOneMaster

\* There is one master at most, however many requests to set up, add, remove, promote and
\* hand over are under way, whatever the shell adopts, and wherever each of them dies.
THEOREM AtMostOneMasterAlways ==
    ASSUME People!AccountsAssumption PROVE People!Spec => []People!AtMostOneMaster
<1>1. People!Init => People!MasterInv
  BY MasterInvStarts
<1>2. People!MasterInv /\ [People!Next]_(People!vars) => People!MasterInv'
  BY MasterInvStays
<1>3. People!MasterInv => People!AtMostOneMaster
  BY OneMasterHeld
<1> QED
  BY <1>1, <1>2, <1>3, PTL DEF People!Spec

\* A hand-over that succeeds leaves the account it names as the master, in the same step.
THEOREM HandOverWorksAlways ==
    ASSUME People!AccountsAssumption PROVE People!Spec => [][People!HandOverWorks]_(People!vars)
<1>1. People!Init => People!MasterInv
  BY MasterInvStarts
<1>2. People!MasterInv /\ [People!Next]_(People!vars) => People!MasterInv'
  BY MasterInvStays
<1>3. People!MasterInv => People!HandOverWorks
  BY HandStep DEF People!HandOverWorks
<1> QED
  BY <1>1, <1>2, <1>3, PTL DEF People!Spec

\* What a request has to keep beside MasterInv.
LEMMA FirstKept ==
    ASSUME People!FirstInv, People!MasterInv', NEW c \in Clients,
           NEW q \in People!Request, req' = [req EXCEPT ![c] = q],
           \A n \in Names : user[n] => user'[n],
           q.op = "create" /\ q.at = "read" /\ ~q.first => People!AnyExist,
           q.op = "role" /\ q.at = "read" => q.was \notin {"none", "master"}
    PROVE  People!FirstInv'
<1>1. req \in [Clients -> People!Request]
  BY DEF People!FirstInv, People!MasterInv, People!Typed
<1>2. req'[c] = q /\ \A d \in Clients \ {c} : req'[d] = req[d]
  BY <1>1
<1>3. People!AnyExist => People!AnyExist'
  BY DEF People!AnyExist
<1>4. People!LaterSawOne'
  BY <1>2, <1>3 DEF People!FirstInv, People!LaterSawOne
<1>5. People!ReadAnother'
  BY <1>2 DEF People!FirstInv, People!ReadAnother
<1> QED
  BY <1>4, <1>5 DEF People!FirstInv

\* A request that writes neither a user nor a role.
LEMMA FirstKeptByReading ==
    ASSUME People!FirstInv, People!MasterInv', NEW c \in Clients,
           NEW q \in People!Request, req' = [req EXCEPT ![c] = q], UNCHANGED <<user, role>>,
           q.op = "create" /\ q.at = "read" /\ ~q.first => People!AnyExist,
           q.op = "role" /\ q.at = "read" => q.was \notin {"none", "master"}
    PROVE  People!FirstInv'
BY FirstKept

LEMMA FirstKeptByLeaving ==
    ASSUME People!FirstInv, People!MasterInv', NEW c \in Clients, People!Leave(c),
           \A n \in Names : user[n] => user'[n]
    PROVE  People!FirstInv'
<1>1. /\ People!Idle \in People!Request /\ People!Idle.op = "idle" /\ People!Idle.at = "-"
      /\ req' = [req EXCEPT ![c] = People!Idle]
  BY DEF People!Idle, People!Request, People!Roles, People!Leave
<1> QED
  BY <1>1, FirstKept

\* A master who keeps the role, and one whose role somebody else has, are not demoted.
LEMMA StillAMaster ==
    ASSUME \A n \in Names : role[n] = "master" => \E m \in Names : role'[m] = "master"
    PROVE  People!NotDemoted
BY DEF People!NotDemoted, People!Demoted, People!Master

\* An account is saved under a name that no user had: it is the first and the master, or
\* there are others; and it is the master only where there is none.
LEMMA FirstKeptByCreating ==
    ASSUME People!FirstInv, People!MasterInv', NEW c \in Clients,
           NEW q \in People!Request, req' = [req EXCEPT ![c] = q], q.at # "read",
           NEW n \in Names, NEW x \in People!Roles, ~user[n],
           x # "master" => People!AnyExist,
           role' = [role EXCEPT ![n] = x], user' = [user EXCEPT ![n] = TRUE],
           People!OneMaster([role EXCEPT ![n] = x])
    PROVE  People!FirstInv' /\ People!FirstIsMaster /\ People!NotDemoted
<1>1. /\ role \in [Names -> People!Roles] /\ user \in [Names -> BOOLEAN]
      /\ People!OnlyMaster /\ \A m \in Names : role[m] # "none" => user[m]
  BY DEF People!FirstInv, People!MasterInv, People!Typed, People!RolesHaveUsers
<1>2. /\ role'[n] = x /\ user'[n] /\ \A m \in Names \ {n} : role'[m] = role[m] /\ user'[m] = user[m]
  BY <1>1
<1>3. \A m \in Names : user[m] => user'[m]
  BY <1>2
<1>4. People!FirstInv'
  BY <1>3, FirstKept
<1>5. ASSUME x = "master", NEW m \in Names, role[m] = "master" PROVE FALSE
  <2> DEFINE r == role'
  <2>1. m # n /\ r[m] = "master" /\ r[n] = "master"
    BY <1>1, <1>2, <1>5
  <2>2. People!OneMaster(r) /\ \A k \in Names : r[k] = "master" => role[k] = "master" \/ k = n
    BY <1>2
  <2> HIDE DEF r
  <2>3. \A a, b \in {k \in Names : r[k] = "master"} : a = b
    BY <1>1, <2>2, SavedOnlyMaster
  <2> QED
    BY <2>1, <2>3
<1>6. People!FirstIsMaster
  <2> SUFFICES ASSUME NEW m \in Names, ~user[m], user'[m]
               PROVE  /\ ~People!AnyExist => role'[m] = "master"
                      /\ role'[m] = "master" => People!Master = {}
    BY DEF People!FirstIsMaster, People!Created
  <2>1. m = n
    BY <1>2
  <2> QED
    BY <1>2, <1>5, <2>1 DEF People!Master
<1>7. \A m \in Names : role[m] = "master" => role'[m] = "master"
  BY <1>1, <1>2
<1>8. People!NotDemoted
  BY <1>7, StillAMaster
<1> QED
  BY <1>4, <1>6, <1>8

\* Each step keeps the invariant, tells the first account from the later ones, and demotes
\* a master only by a change of role that read the account before.
LEMMA FirstStays ==
    ASSUME People!AccountsAssumption, People!FirstInv, [People!Next]_(People!vars)
    PROVE  People!FirstInv' /\ People!FirstIsMaster /\ People!NotDemoted
<1> DEFINE Good == People!FirstInv' /\ People!FirstIsMaster /\ People!NotDemoted
<1>1. People!MasterInv /\ People!MasterInv'
  BY MasterInvStays DEF People!FirstInv
<1>2. /\ role \in [Names -> People!Roles] /\ user \in [Names -> BOOLEAN]
      /\ req \in [Clients -> People!Request]
  BY <1>1 DEF People!MasterInv, People!Typed
<1>3. ASSUME UNCHANGED user, People!FirstInv',
             \A n \in Names : role[n] = "master" => \E m \in Names : role'[m] = "master"
      PROVE  Good
  BY <1>3, StillAMaster DEF People!FirstIsMaster, People!Created
<1>4. ASSUME NEW c \in Clients, People!Leave(c), UNCHANGED <<user, role>> PROVE Good
  BY <1>1, <1>3, <1>4, FirstKeptByLeaving
<1>5. ASSUME NEW c \in Clients, NEW q \in People!Request, req' = [req EXCEPT ![c] = q],
             UNCHANGED <<user, role>>,
             q.op = "create" /\ q.at = "read" /\ ~q.first => People!AnyExist,
             q.op = "role" /\ q.at = "read" => q.was \notin {"none", "master"}
      PROVE  Good
  BY <1>1, <1>3, <1>5, FirstKeptByReading
<1> HIDE DEF Good
<1>6. ASSUME NEW c \in Clients, People!ReadCreate(c) PROVE Good
  <2> DEFINE q == req[c]
             p == [[q EXCEPT !.first = ~People!AnyExist] EXCEPT !.at = "read"]
  <2>1. /\ UNCHANGED <<user, role>>
        /\ People!Leave(c) \/ req' = [req EXCEPT ![c] = p]
        /\ q.op = "create"
    BY <1>6 DEF People!ReadCreate, People!Refuse, People!Proceed
  <2>2. p \in People!Request /\ p.op = "create" /\ p.first = ~People!AnyExist
    BY <1>2, <2>1 DEF People!Request, People!AnyExist
  <2> HIDE DEF p
  <2> QED
    BY <1>4, <1>5, <2>1, <2>2
<1>7. ASSUME NEW c \in Clients, People!ReadRole(c) PROVE Good
  <2> DEFINE q == req[c]
             p == [[q EXCEPT !.was = role[q.to]] EXCEPT !.at = "read"]
  <2>1. /\ UNCHANGED <<user, role>>
        /\ \/ People!Leave(c)
           \/ req' = [req EXCEPT ![c] = p] /\ role[q.to] \notin {"none", "master"}
        /\ q.op = "role" /\ q.at = "asked"
    BY <1>7 DEF People!ReadRole, People!Refuse, People!Proceed, People!Other
  <2>2. q.to \in Names
    BY <1>1, <2>1 DEF People!MasterInv, People!ReadAreAssignable
  <2>3. p \in People!Request /\ p.op = "role" /\ p.was = role[q.to]
    BY <1>2, <2>1, <2>2 DEF People!Request
  <2> HIDE DEF p
  <2> QED
    BY <1>4, <1>5, <2>1, <2>3
<1>8. ASSUME NEW c \in Clients, NEW p, req' = [req EXCEPT ![c] = p], UNCHANGED <<user, role>>,
             p.op \notin {"create", "role"} \/ p.at # "read"
      PROVE  Good
  <2>1. p \in People!Request
    BY <1>1, <1>2, <1>8 DEF People!MasterInv, People!Typed
  <2> QED
    BY <1>5, <1>8, <2>1
<1>9. ASSUME NEW c \in Clients,
             \/ People!ReadExpire(c) \/ People!ReadHand(c) \/ People!ReadMake(c)
             \/ \E on \in BOOLEAN : People!ReadActive(c, on)
      PROVE  Good
  <2> DEFINE q == req[c]
  <2>1. CASE People!ReadExpire(c)
    <3>1. /\ q.op = "expire" /\ UNCHANGED <<user, role>>
          /\ People!Leave(c) \/ req' = [req EXCEPT ![c] = [q EXCEPT !.at = "read"]]
      BY <2>1 DEF People!ReadExpire, People!Refuse, People!Proceed
    <3>2. [q EXCEPT !.at = "read"].op = "expire"
      BY <1>2, <3>1 DEF People!Request
    <3> QED
      BY <1>4, <1>8, <3>1, <3>2
  <2>2. CASE People!ReadHand(c)
    <3> DEFINE p == [[q EXCEPT !.cur = q.by] EXCEPT !.at = "read"]
    <3>1. /\ q.op = "hand" /\ UNCHANGED <<user, role>>
          /\ People!Leave(c) \/ req' = [req EXCEPT ![c] = p]
      BY <2>2 DEF People!ReadHand, People!Refuse, People!Proceed
    <3>2. p.op = "hand"
      BY <1>2, <3>1 DEF People!Request
    <3> HIDE DEF p
    <3> QED
      BY <1>4, <1>8, <3>1, <3>2
  <2>3. CASE People!ReadMake(c)
    <3>1. /\ q.op = "make" /\ UNCHANGED <<user, role>>
          /\ \/ People!Leave(c)
             \/ \E m : req' = [req EXCEPT ![c] = [[q EXCEPT !.cur = m] EXCEPT !.at = "read"]]
      BY <2>3 DEF People!ReadMake, People!Refuse, People!Proceed
    <3>2. \A m : [[q EXCEPT !.cur = m] EXCEPT !.at = "read"].op = "make"
      BY <1>2, <3>1 DEF People!Request
    <3> QED
      BY <1>4, <1>8, <3>1, <3>2
  <2>4. ASSUME NEW on \in BOOLEAN, People!ReadActive(c, on) PROVE Good
    <3> DEFINE p == [[q EXCEPT !.on = on] EXCEPT !.at = "read"]
    <3>1. /\ q.op = "active" /\ UNCHANGED <<user, role>>
          /\ People!Leave(c) \/ req' = [req EXCEPT ![c] = p]
      BY <2>4 DEF People!ReadActive, People!Refuse, People!Proceed
    <3>2. p.op = "active"
      BY <1>2, <3>1 DEF People!Request
    <3> HIDE DEF p
    <3> QED
      BY <1>4, <1>8, <3>1, <3>2
  <2> QED
    BY <1>9, <2>1, <2>2, <2>3, <2>4
<1>10. ASSUME NEW c \in Clients, People!Take(c) \/ People!SetupCheck(c) PROVE Good
  <2> DEFINE q == req[c]
  <2>1. /\ q.at \in {"lease", "held"} /\ UNCHANGED <<user, role>>
        /\ \/ People!Leave(c)
           \/ req' = [req EXCEPT ![c] = [q EXCEPT !.at = "held"]]
           \/ req' = [req EXCEPT ![c] = [q EXCEPT !.at = "read"]]
    BY <1>2, <1>10 DEF People!Take, People!SetupCheck, People!Rows
  <2>2. q.op = "setup"
    BY <1>1, <2>1 DEF People!MasterInv, People!ReadAreAssignable
  <2>3. [q EXCEPT !.at = "held"].op = "setup" /\ [q EXCEPT !.at = "read"].op = "setup"
    BY <1>2, <2>2 DEF People!Request
  <2> QED
    BY <1>4, <1>8, <2>1, <2>3
<1>11. ASSUME NEW c \in Clients,
              \/ People!RunAsks(c)
              \/ \E n \in Names : People!Setup(c, n)
              \/ \E op \in Ops, by \in Names \cup {Shell}, to \in Names, r \in Given \cup {"none"} :
                   People!Ask(c, op, by, to, r)
      PROVE  Good
  <2>1. CASE People!RunAsks(c)
    <3> DEFINE p == [People!Idle EXCEPT !.op = "run", !.at = "run"]
    <3>1. p.at = "run" /\ req' = [req EXCEPT ![c] = p] /\ UNCHANGED <<user, role>>
      BY <2>1 DEF People!RunAsks, People!Rows, People!Idle
    <3> HIDE DEF p
    <3> QED
      BY <1>8, <3>1
  <2>2. ASSUME NEW n \in Names, People!Setup(c, n) PROVE Good
    <3> DEFINE p == [People!Idle EXCEPT !.op = "setup", !.at = "lease", !.to = n]
    <3>1. p.at = "lease" /\ req' = [req EXCEPT ![c] = p] /\ UNCHANGED <<user, role>>
      BY <2>2 DEF People!Setup, People!Rows, People!Idle
    <3> HIDE DEF p
    <3> QED
      BY <1>8, <3>1
  <2>3. ASSUME NEW op \in Ops, NEW by \in Names \cup {Shell}, NEW to \in Names,
               NEW r \in Given \cup {"none"}, People!Ask(c, op, by, to, r)
        PROVE  Good
    <3> DEFINE p == [People!Idle EXCEPT !.op = op, !.at = "asked", !.by = by, !.to = to, !.role = r]
    <3>1. p.at = "asked" /\ req' = [req EXCEPT ![c] = p] /\ UNCHANGED <<user, role>>
      BY <2>3 DEF People!Ask, People!Idle
    <3> HIDE DEF p
    <3> QED
      BY <1>8, <3>1
  <2> QED
    BY <1>11, <2>1, <2>2, <2>3
<1>12. ASSUME NEW c \in Clients, People!WriteCreate(c) PROVE Good
  <2> DEFINE q == req[c]
             x == IF q.first THEN "master" ELSE q.role
             r == [role EXCEPT ![q.to] = x]
  <2>1. /\ q.op = "create" /\ q.at = "read" /\ req' = [req EXCEPT ![c] = People!Idle]
        /\ role' = IF ~user[q.to] /\ People!OneMaster(r) THEN r ELSE role
        /\ user' = IF ~user[q.to] /\ People!OneMaster(r) THEN [user EXCEPT ![q.to] = TRUE] ELSE user
    BY <1>12 DEF People!WriteCreate, People!Leave
  <2>2. /\ q.to \in Names
        /\ ~q.first => q.role \in People!Assignable
        /\ ~q.first => People!AnyExist
    BY <1>1, <2>1 DEF People!MasterInv, People!ReadAreAssignable, People!FirstInv, People!LaterSawOne
  <2>3. x \in People!Roles /\ (x # "master" => People!AnyExist)
    BY <2>2 DEF People!Roles, People!Assignable
  <2>4. People!Idle \in People!Request /\ People!Idle.at = "-"
    BY DEF People!Idle, People!Request, People!Roles
  <2> HIDE DEF x
  <2>5. CASE ~user[q.to] /\ People!OneMaster(r)
    BY <1>1, <2>1, <2>2, <2>3, <2>4, <2>5, FirstKeptByCreating DEF Good
  <2>6. CASE ~(~user[q.to] /\ People!OneMaster(r))
    BY <1>4, <2>1, <2>6 DEF People!Leave
  <2> QED
    BY <2>5, <2>6
<1>13. ASSUME NEW c \in Clients, People!SetupCreate(c) PROVE Good
  <2> DEFINE q == req[c]
             p == [q EXCEPT !.at = "made"]
             r == [role EXCEPT ![q.to] = "master"]
             ok == ~user[q.to] /\ People!OneMaster(r)
  <2>1. /\ q.op = "setup" /\ q.at = "read"
        /\ role' = IF ok THEN r ELSE role
        /\ user' = IF ok THEN [user EXCEPT ![q.to] = TRUE] ELSE user
        /\ req' = [req EXCEPT ![c] = IF ok THEN p ELSE People!Idle]
    BY <1>13 DEF People!SetupCreate
  <2>2. q.to \in Names /\ "master" \in People!Roles
    BY <1>1, <2>1 DEF People!MasterInv, People!ReadAreAssignable, People!Roles
  <2>3. p \in People!Request /\ p.at = "made"
    BY <1>2 DEF People!Request
  <2> HIDE DEF p
  <2>4. CASE ok
    BY <1>1, <2>1, <2>2, <2>3, <2>4, FirstKeptByCreating DEF Good
  <2>5. CASE ~ok
    <3>1. UNCHANGED <<user, role>> /\ People!Leave(c)
      BY <2>1, <2>5 DEF People!Leave
    <3> QED
      BY <1>4, <3>1
  <2> QED
    BY <2>4, <2>5
<1>14. ASSUME NEW c \in Clients, People!WriteRole(c) PROVE Good
  <2> DEFINE q == req[c]
             r == [role EXCEPT ![q.to] = q.role]
  <2>1. /\ q.op = "role" /\ q.at = "read" /\ People!Leave(c) /\ user' = user
        /\ role' = IF People!OneMaster(r) THEN r ELSE role
    BY <1>14 DEF People!WriteRole, People!Saved
  <2>2. People!Stale(c)
    BY <1>14, <2>1 DEF People!Stale, People!FirstInv, People!ReadAnother
  <2>3. \A m \in Names : m # q.to => role'[m] = role[m]
    BY <1>2, <2>1
  <2>4. People!NotDemoted
    BY <2>2, <2>3 DEF People!NotDemoted, People!Demoted, People!Master
  <2>5. People!FirstInv'
    BY <1>1, <2>1, FirstKeptByLeaving
  <2> QED
    BY <2>1, <2>4, <2>5 DEF Good, People!FirstIsMaster, People!Created
<1>15. ASSUME NEW c \in Clients, People!WriteHand(c) PROVE Good
  <2> DEFINE q == req[c]
  <2>1. user' = user /\ People!Leave(c)
    BY <1>15 DEF People!WriteHand
  <2>2. role' # role => role'[q.to] = "master" /\ q.to \in Names
    BY <1>1, <1>15, HandStep
  <2>3. People!FirstInv'
    BY <1>1, <2>1, FirstKeptByLeaving
  <2>4. \A n \in Names : role[n] = "master" => \E m \in Names : role'[m] = "master"
    BY <2>2
  <2> QED
    BY <1>3, <2>1, <2>3, <2>4
<1>16. ASSUME NEW c \in Clients,
              \/ People!WriteActive(c) \/ People!WriteExpire(c) \/ People!WriteToken(c)
              \/ People!RemoveToken(c) \/ People!Crash(c)
       PROVE  Good
  <2>1. People!Leave(c) /\ UNCHANGED <<user, role>>
    BY <1>16 DEF People!WriteActive, People!WriteExpire, People!WriteToken, People!RemoveToken,
                 People!Crash, People!Rows
  <2> QED
    BY <1>4, <2>1
<1>17. ASSUME UNCHANGED <<user, req>>, \A n \in Names : role[n] = "master" => role'[n] = "master"
       PROVE  Good
  <2>1. People!LaterSawOne' /\ People!ReadAnother'
    BY <1>17 DEF People!FirstInv, People!LaterSawOne, People!ReadAnother, People!AnyExist
  <2>2. People!FirstInv'
    BY <1>1, <2>1 DEF People!FirstInv
  <2> QED
    BY <1>3, <1>17, <2>2
<1>18. ASSUME People!AdoptOrphans \/ People!LeaseExpires \/ UNCHANGED People!vars PROVE Good
  <2>1. CASE People!AdoptOrphans
    BY <1>17, <2>1 DEF People!AdoptOrphans
  <2>2. CASE People!LeaseExpires \/ UNCHANGED People!vars
    BY <1>17, <2>2 DEF People!LeaseExpires, People!Rows, People!vars
  <2> QED
    BY <1>18, <2>1, <2>2
<1>19. ASSUME NEW c \in Clients, People!Step(c) PROVE Good
  BY <1>6, <1>7, <1>9, <1>10, <1>12, <1>13, <1>14, <1>15, <1>16, <1>19 DEF People!Step
<1>20. Good
  <2>1. ASSUME \E c \in Clients : People!Step(c) \/ People!RunAsks(c) \/ People!Crash(c) PROVE Good
    BY <1>11, <1>16, <1>19, <2>1
  <2>2. ASSUME \E c \in Clients, n \in Names : People!Setup(c, n) PROVE Good
    BY <1>11, <2>2
  <2>3. ASSUME \E c \in Clients, op \in Ops, by \in Names \cup {Shell}, to \in Names,
                  r \in Given \cup {"none"} : People!Ask(c, op, by, to, r)
        PROVE  Good
    BY <1>11, <2>3
  <2>4. ASSUME People!Next PROVE Good
    BY <1>18, <2>1, <2>2, <2>3, <2>4 DEF People!Next
  <2> QED
    BY <1>18, <2>4
<1> QED
  BY <1>20 DEF Good

LEMMA FirstStarts == ASSUME People!AccountsAssumption, People!Init PROVE People!FirstInv
<1>1. People!MasterInv
  BY MasterInvStarts
<1>2. People!Idle.op = "idle"
  BY DEF People!Idle
<1>3. req = [c \in Clients |-> People!Idle]
  BY DEF People!Init
<1>4. People!LaterSawOne /\ People!ReadAnother
  BY <1>2, <1>3 DEF People!LaterSawOne, People!ReadAnother
<1> QED
  BY <1>1, <1>4 DEF People!FirstInv

\* Of the requests that are told there is no account yet, whatever else runs beside them,
\* only the first to save gets the master's: an account that is created while there are
\* others is the master only where the manager has lost the one it had.
THEOREM FirstIsMasterAlways ==
    ASSUME People!AccountsAssumption PROVE People!Spec => [][People!FirstIsMaster]_(People!vars)
<1>1. People!Init => People!FirstInv
  BY FirstStarts
<1>2. People!FirstInv /\ [People!Next]_(People!vars) => People!FirstInv' /\ People!FirstIsMaster
  BY FirstStays
<1> QED
  BY <1>1, <1>2, PTL DEF People!Spec

\* ... and it loses it in one way only: by a change of role, saved after the account became
\* the master, that had read it before. Nothing else that is asked, at once or one after
\* another, takes the role from the master without giving it to somebody.
THEOREM NotDemotedAlways ==
    ASSUME People!AccountsAssumption PROVE People!Spec => [][People!NotDemoted]_(People!vars)
<1>1. People!Init => People!FirstInv
  BY FirstStarts
<1>2. People!FirstInv /\ [People!Next]_(People!vars) => People!FirstInv' /\ People!NotDemoted
  BY FirstStays
<1> QED
  BY <1>1, <1>2, PTL DEF People!Spec

-----------------------------------------------------------------------------
(* Stored files: nothing stray, whole while alive, collected once.             *)

Stored == INSTANCE StoredFiles

StoreSteps == {"idle", "chosen", "writing", "prune", "drop", "record", "undo", "failed", "stored"}

LEMMA NatMin == ASSUME NEW T \in SUBSET Nat, T # {} PROVE \E x \in T : \A y \in T : x <= y
<1>1. PICK x \in T : \A y \in T : ~ (<<y, x>> \in OpToRel(<, Nat))
  BY NatLessThanWellFounded, WFMin
<1>2. OpToRel(<, Nat) = {p \in Nat \X Nat : p[1] < p[2]}
  BY DEF OpToRel
<1>3. \A y \in T : ~ (y < x)
  BY <1>1, <1>2
<1> QED
  BY <1>3

LEMMA ContentIsThere ==
    ASSUME Stored!Typed, NEW x \in Stored!Contents, x # Stored!Nothing, x # Stored!Reserved
    PROVE  /\ Stored!Content(x) \in Stored!Contents
           /\ Stored!Content(x) # Stored!Nothing /\ Stored!Content(x) # Stored!Reserved
<1>1. CASE x[1] = "file"
  <2>1. x \in Stored!FileItem
    BY <1>1 DEF Stored!Contents, Stored!Nothing, Stored!Reserved, Stored!FileItem
  <2>2. x[2] \in Files /\ server[x[2]] \in Stored!Version
    BY <2>1 DEF Stored!FileItem, Stored!Typed
  <2>3. <<"file", x[2], server[x[2]]>> \in Stored!FileItem
    BY <2>2 DEF Stored!FileItem
  <2>4. /\ <<"file", x[2], server[x[2]]>> # Stored!Nothing
        /\ <<"file", x[2], server[x[2]]>> # Stored!Reserved
    BY DEF Stored!Nothing, Stored!Reserved
  <2> QED
    BY <1>1, <2>3, <2>4 DEF Stored!Content, Stored!Contents
<1>2. CASE x[1] # "file"
  BY <1>2 DEF Stored!Content
<1> QED
  BY <1>1, <1>2

Worker == [at : StoreSteps, path : Nat \X Nat, item : Stored!Contents, got : Stored!Contents]
BusyAt == {"writing", "prune", "drop", "record", "undo"}
StoredRow == [path : Stored!Places, holds : Stored!Contents, of : Stored!Contents,
              deleted : BOOLEAN, removed : BOOLEAN]
Paths == {work[w].path : w \in {v \in Stored!Writers : Stored!Busy(v)}}

LEMMA TypedParts ==
    ASSUME Stored!Typed
    PROVE  /\ disk \in [Stored!Places -> Stored!Contents] /\ row \in Seq(StoredRow)
           /\ work \in [Stored!Writers -> Worker]
           /\ expiring.gone \in Nat
           /\ Stored!Nothing \in Stored!Contents /\ Stored!Reserved \in Stored!Contents
           /\ Stored!Nothing # Stored!Reserved
           /\ Stored!Places \subseteq Nat \X Nat
           /\ "job" \in Stored!Writers
BY DEF Stored!Typed, StoredRow, Worker, StoreSteps, Stored!Contents, Stored!Nothing, Stored!Reserved,
       Stored!Places, Stored!Names, Stored!Writers

\* One thread goes on: what the others have stays.
LEMMA Moved ==
    ASSUME Stored!Typed, NEW w \in Stored!Writers, NEW s \in StoreSteps, Stored!Goto(w, s)
    PROVE  /\ work' \in [Stored!Writers -> Worker]
           /\ work'[w].at = s /\ work'[w].path = work[w].path
           /\ work'[w].item = work[w].item /\ work'[w].got = work[w].got
           /\ \A v \in Stored!Writers \ {w} : work'[v] = work[v]
<1>1. work \in [Stored!Writers -> Worker]
  BY TypedParts
<1>2. work' = [work EXCEPT ![w] = [work[w] EXCEPT !.at = s]]
  BY DEF Stored!Goto
<1>3. [work[w] EXCEPT !.at = s] \in Worker
  BY <1>1 DEF Worker
<1> QED
  BY <1>1, <1>2, <1>3 DEF Worker

\* What a step has to keep for every file to be explained: it fills one place at most.
LEMMA Explained ==
    ASSUME Stored!StrayInv, Stored!Typed', Stored!JobRests', Stored!ExpiringDeleted', Stored!RowsApart',
           \A p \in Stored!Places : disk'[p] # Stored!Nothing =>
               \/ disk[p] # Stored!Nothing
               \/ \E w \in Stored!Writers : Stored!Busy(w)' /\ work'[w].path = p,
           left \subseteq left',
           \A w \in Stored!Writers : Stored!Busy(w) =>
               \/ Stored!Busy(w)' /\ work'[w].path = work[w].path
               \/ disk'[work[w].path] = Stored!Nothing
               \/ work[w].path \in left'
               \/ \E i \in DOMAIN row' : Stored!Kept(i)' /\ i # expiring'.gone /\ row'[i].path = work[w].path,
           \A i \in DOMAIN row : Stored!Kept(i) /\ i # expiring.gone =>
               \/ i \in DOMAIN row' /\ Stored!Kept(i)' /\ i # expiring'.gone /\ row'[i].path = row[i].path
               \/ disk'[row[i].path] = Stored!Nothing
    PROVE  Stored!StrayInv'
<1>1. Stored!FilesExplained'
  <2> SUFFICES ASSUME NEW p \in Stored!Places, disk'[p] # Stored!Nothing
               PROVE  \/ \E i \in DOMAIN row' : Stored!Kept(i)' /\ i # expiring'.gone /\ row'[i].path = p
                      \/ p \in left'
                      \/ \E w \in Stored!Writers : Stored!Busy(w)' /\ work'[w].path = p
    BY DEF Stored!FilesExplained, Stored!Exists, Stored!Kept, Stored!Busy, Stored!Places, Stored!Names
  <2>1. CASE disk[p] # Stored!Nothing
    <3>1. \/ \E i \in DOMAIN row : Stored!Kept(i) /\ i # expiring.gone /\ row[i].path = p
          \/ p \in left
          \/ \E w \in Stored!Writers : Stored!Busy(w) /\ work[w].path = p
      BY <2>1 DEF Stored!StrayInv, Stored!FilesExplained, Stored!Exists
    <3> QED
      BY <2>1, <3>1
  <2> QED
    BY <2>1
<1> QED
  BY <1>1 DEF Stored!StrayInv


\* The steps of a thread that stores a file.
Fills(w, x) == disk' = [disk EXCEPT ![work[w].path] = x]
Goes(w, from, to) == work[w].at \in from /\ work'[w].at \in to
StoreEffects(w) ==
    /\ UNCHANGED <<job, server, remote, expiring, left>>
    /\ work' \in [Stored!Writers -> Worker]
    /\ \A v \in Stored!Writers \ {w} : work'[v] = work[v]
    /\ work'[w].path = work[w].path /\ work'[w].item = work[w].item
    /\ work[w].path \in Stored!Places /\ work[w].item \notin {Stored!Nothing, Stored!Reserved}
    /\ \/ /\ Goes(w, {"chosen"}, {"failed"}) /\ UNCHANGED <<disk, row>>
          /\ work'[w].got = work[w].got
       \/ /\ Goes(w, {"chosen"}, {"writing"}) /\ disk[work[w].path] = Stored!Nothing
          /\ Fills(w, Stored!Reserved) /\ UNCHANGED row
       \/ /\ Goes(w, {"writing"}, {"prune", "drop", "record"})
          /\ Fills(w, Stored!Content(work[w].item)) /\ work'[w].got = Stored!Content(work[w].item)
          /\ work'[w].at = CASE work[w].item[1] = "archive" -> "prune"
                             [] work[w].item[1] = "file" /\ server[work[w].item[2]].size # work[w].item[3].size
                                 -> "drop"
                             [] OTHER -> "record"
          /\ UNCHANGED row
       \/ /\ Goes(w, {"writing", "undo"}, {"failed"}) /\ Fills(w, Stored!Nothing) /\ UNCHANGED row
       \/ /\ Goes(w, {"record"}, {"stored"}) /\ Stored!PathFree(work[w].path)
          /\ row' = Append(row, Stored!NewRow(w)) /\ UNCHANGED disk
       \/ /\ Goes(w, {"record"}, {"undo"}) /\ UNCHANGED <<disk, row>>
          /\ work'[w].got = work[w].got

LEMMA StoreDoes ==
    ASSUME Stored!Typed, NEW w \in Stored!Writers, Stored!Store(w)
    PROVE  StoreEffects(w) /\ count' \in [Stored!Events -> Nat]
<1>1. /\ work \in [Stored!Writers -> Worker]
      /\ Stored!Busy(w) \/ Stored!At(w, "chosen") =>
            work[w].path \in Stored!Places /\ work[w].item \notin {Stored!Nothing, Stored!Reserved}
      /\ count \in [Stored!Events -> Nat] /\ "fault" \in Stored!Events
  BY TypedParts DEF Stored!Typed, Stored!Events
<1> USE DEF StoreEffects, Fills, Goes, Stored!At, Stored!Busy
<1>2. CASE Stored!Reserve(w)
  <2>1. \/ Stored!Goto(w, "failed") /\ UNCHANGED disk
        \/ Stored!Goto(w, "writing") /\ Fills(w, Stored!Reserved) /\ disk[work[w].path] = Stored!Nothing
    BY <1>2 DEF Stored!Reserve, Stored!Fill, Stored!Exists
  <2>2. work[w].at = "chosen" /\ UNCHANGED <<row, job, server, remote, expiring, left, count>>
    BY <1>2 DEF Stored!Reserve
  <2>3. CASE Stored!Goto(w, "failed") /\ UNCHANGED disk
    <3>1. "failed" \in StoreSteps
      BY DEF StoreSteps
    <3> QED
      BY <1>1, <2>2, <2>3, <3>1, Moved
  <2>4. CASE Stored!Goto(w, "writing") /\ Fills(w, Stored!Reserved) /\ disk[work[w].path] = Stored!Nothing
    <3>1. "writing" \in StoreSteps
      BY DEF StoreSteps
    <3> QED
      BY <1>1, <2>2, <2>4, <3>1, Moved
  <2> QED
    BY <2>1, <2>3, <2>4
<1>3. CASE Stored!Written(w)
  <2> DEFINE x == work[w].item
             at == CASE x[1] = "archive" -> "prune"
                     [] x[1] = "file" /\ server[x[2]].size # x[3].size -> "drop"
                     [] OTHER -> "record"
             r == [work[w] EXCEPT !.got = Stored!Content(x), !.at = at]
  <2>1. /\ work[w].at = "writing" /\ Fills(w, Stored!Content(x))
        /\ work' = [work EXCEPT ![w].got = Stored!Content(x), ![w].at = at]
        /\ UNCHANGED <<row, job, server, remote, expiring, left, count>>
    BY <1>3 DEF Stored!Written, Stored!Fill
  <2>2. x \in Stored!Contents /\ Stored!Content(x) \in Stored!Contents
    <3>1. x \in Stored!Contents
      BY <1>1 DEF Worker
    <3> QED
      BY <1>1, <2>1, <3>1, ContentIsThere
  <2>3. at \in {"prune", "drop", "record"}
    OBVIOUS
  <2> HIDE DEF at
  <2>4. /\ r \in Worker /\ r.at = at /\ r.path = work[w].path /\ r.item = x /\ r.got = Stored!Content(x)
    BY <1>1, <2>2, <2>3 DEF Worker, StoreSteps
  <2>5. work' = [work EXCEPT ![w] = r]
    BY <1>1, <2>1 DEF Worker
  <2> HIDE DEF r
  <2>6. work' \in [Stored!Writers -> Worker] /\ work'[w] = r /\ \A v \in Stored!Writers \ {w} : work'[v] = work[v]
    BY <1>1, <2>4, <2>5
  <2> QED
    BY <1>1, <2>1, <2>3, <2>4, <2>6 DEF at
<1>4. CASE Stored!WriteFails(w) \/ Stored!Undo(w)
  <2>1. /\ work[w].at \in {"writing", "undo"} /\ Fills(w, Stored!Nothing) /\ Stored!Goto(w, "failed")
        /\ UNCHANGED <<row, job, server, remote, expiring, left>> /\ count' \in [Stored!Events -> Nat]
    BY <1>1, <1>4 DEF Stored!WriteFails, Stored!Undo, Stored!Fill, Stored!Counted
  <2>2. "failed" \in StoreSteps
    BY DEF StoreSteps
  <2> QED
    BY <1>1, <2>1, <2>2, Moved
<1>5. CASE Stored!Record(w)
  <2>1. /\ work[w].at = "record"
        /\ \/ Stored!PathFree(work[w].path) /\ row' = Append(row, Stored!NewRow(w)) /\ Stored!Goto(w, "stored")
           \/ Stored!Goto(w, "undo") /\ UNCHANGED row
        /\ UNCHANGED <<disk, job, server, remote, expiring, left, count>>
    BY <1>5 DEF Stored!Record
  <2>2. "stored" \in StoreSteps /\ "undo" \in StoreSteps
    BY DEF StoreSteps
  <2>3. CASE Stored!PathFree(work[w].path) /\ row' = Append(row, Stored!NewRow(w)) /\ Stored!Goto(w, "stored")
    BY <1>1, <2>1, <2>2, <2>3, Moved
  <2>4. CASE Stored!Goto(w, "undo") /\ UNCHANGED row
    BY <1>1, <2>1, <2>2, <2>4, Moved
  <2> QED
    BY <2>1, <2>3, <2>4
<1>6. CASE Stored!RecordFails(w)
  <2>1. /\ work[w].at = "record" /\ Stored!Goto(w, "undo")
        /\ UNCHANGED <<disk, row, job, server, remote, expiring, left>> /\ count' \in [Stored!Events -> Nat]
    BY <1>1, <1>6 DEF Stored!RecordFails, Stored!Counted
  <2>2. "undo" \in StoreSteps
    BY DEF StoreSteps
  <2> QED
    BY <1>1, <2>1, <2>2, Moved
<1> QED
  BY <1>2, <1>3, <1>4, <1>5, <1>6 DEF Stored!Store

\* A row that is saved.
LEMMA RowSaved ==
    ASSUME Stored!Typed, NEW w \in Stored!Writers, row' = Append(row, Stored!NewRow(w)),
           work[w].path \in Stored!Places
    PROVE  /\ row' \in Seq(StoredRow) /\ DOMAIN row' = DOMAIN row \cup {Len(row) + 1}
           /\ Len(row) + 1 \notin DOMAIN row
           /\ \A i \in DOMAIN row : row'[i] = row[i]
           /\ row'[Len(row) + 1] = Stored!NewRow(w)
<1>1. row \in Seq(StoredRow) /\ work[w] \in Worker
  BY TypedParts
<1>2. Stored!NewRow(w) \in StoredRow
  BY <1>1 DEF Stored!NewRow, StoredRow, Worker
<1> HIDE DEF StoredRow
<1> QED
  BY <1>1, <1>2

LEMMA StoreTyped ==
    ASSUME Stored!Typed, NEW w \in Stored!Writers, Stored!Store(w)
    PROVE  Stored!Typed'
<1>0. StoreEffects(w) /\ count' \in [Stored!Events -> Nat]
  BY StoreDoes
<1>1. /\ disk \in [Stored!Places -> Stored!Contents] /\ row \in Seq(StoredRow)
      /\ work \in [Stored!Writers -> Worker]
      /\ Stored!Nothing \in Stored!Contents /\ Stored!Reserved \in Stored!Contents
  BY TypedParts
<1>2. /\ \A v \in Stored!Writers : Stored!Busy(v) \/ Stored!At(v, "chosen") =>
            work[v].path \in Stored!Places /\ work[v].item \notin {Stored!Nothing, Stored!Reserved}
      /\ server \in [Files -> Stored!Version] /\ count \in [Stored!Events -> Nat]
      /\ expiring.gone \in Nat /\ expiring = [rows |-> expiring.rows, gone |-> expiring.gone]
  BY DEF Stored!Typed
<1>3. \A v \in Stored!Writers : (Stored!Busy(v) \/ Stored!At(v, "chosen"))' =>
            work'[v].path \in Stored!Places /\ work'[v].item \notin {Stored!Nothing, Stored!Reserved}
  BY <1>0, <1>2 DEF StoreEffects, Stored!Busy, Stored!At
<1>4. disk' \in [Stored!Places -> Stored!Contents]
  <2>1. work[w].item \in Stored!Contents
    BY <1>1 DEF Worker
  <2>2. Stored!Content(work[w].item) \in Stored!Contents
    BY <1>0, <2>1, ContentIsThere DEF StoreEffects
  <2> QED
    BY <1>0, <1>1, <2>2 DEF StoreEffects, Fills
<1>5. row' \in Seq(StoredRow)
  BY <1>0, <1>1, RowSaved DEF StoreEffects
<1> QED
  BY <1>0, <1>2, <1>3, <1>4, <1>5 DEF Stored!Typed, StoreEffects, Worker, StoredRow, StoreSteps, Stored!Places, Stored!Names,
        Stored!Writers, Stored!Events

\* A thread chooses a place that is free now.
LEMMA ChooseDoes ==
    ASSUME Stored!Typed, NEW w \in Stored!Writers, NEW name \in Stored!Names,
           NEW item \in Stored!Contents, item \notin {Stored!Nothing, Stored!Reserved},
           Stored!Choose(w, name, item)
    PROVE  /\ work' \in [Stored!Writers -> Worker]
           /\ work'[w].at = "chosen" /\ work'[w].path \in Stored!Places /\ work'[w].item = item
           /\ \A v \in Stored!Writers \ {w} : work'[v] = work[v]
<1>1. PICK p \in Stored!Unused(name) :
        work' = [work EXCEPT ![w] = [at |-> "chosen", path |-> p, item |-> item, got |-> Stored!Nothing]]
  BY DEF Stored!Choose
<1>2. p \in Stored!Places
  <2>1. PICK n \in 1 .. MaxPlaces : p = <<name, n>>
    BY DEF Stored!Unused
  <2> QED
    BY <2>1 DEF Stored!Places
<1>3. /\ work \in [Stored!Writers -> Worker] /\ Stored!Nothing \in Stored!Contents
      /\ p \in Nat \X Nat
  BY <1>2, TypedParts
<1> DEFINE r == [at |-> "chosen", path |-> p, item |-> item, got |-> Stored!Nothing]
<1>4. r \in Worker /\ r.at = "chosen" /\ r.path = p /\ r.item = item
  BY <1>3 DEF Worker, StoreSteps
<1> HIDE DEF r
<1>5. work' = [work EXCEPT ![w] = r]
  BY <1>1 DEF r
<1> QED
  BY <1>2, <1>3, <1>4, <1>5

\* The steps of the run of a plan.
LEMMA RunTyped ==
    ASSUME Stored!StoredFilesAssumption, Stored!Typed, Stored!Run PROVE Stored!Typed'
<1> DEFINE W == Stored!Writers
<1>1. /\ disk \in [Stored!Places -> Stored!Contents] /\ row \in Seq(StoredRow)
      /\ work \in [W -> Worker] /\ "job" \in W
      /\ Stored!Nothing \in Stored!Contents /\ Stored!Reserved \in Stored!Contents
  BY TypedParts
<1>2. /\ \A v \in W : Stored!Busy(v) \/ Stored!At(v, "chosen") =>
            work[v].path \in Stored!Places /\ work[v].item \notin {Stored!Nothing, Stored!Reserved}
      /\ server \in [Files -> Stored!Version] /\ count \in [Stored!Events -> Nat]
      /\ job \in [at : {"idle", "collect", "archive"}, listed : SUBSET Stored!FileItem,
                  todo : SUBSET Stored!FileItem]
      /\ expiring.gone \in Nat /\ expiring = [rows |-> expiring.rows, gone |-> expiring.gone]
      /\ "run" \in Stored!Events /\ "fault" \in Stored!Events
  BY DEF Stored!Typed, Stored!Events
<1>3. ASSUME disk' \in [Stored!Places -> Stored!Contents], row' \in Seq(StoredRow),
             work' \in [W -> Worker], \A v \in W \ {"job"} : work'[v] = work[v],
             (Stored!Busy("job") \/ Stored!At("job", "chosen"))' =>
                work'["job"].path \in Stored!Places /\ work'["job"].item \notin {Stored!Nothing, Stored!Reserved},
             job' \in [at : {"idle", "collect", "archive"}, listed : SUBSET Stored!FileItem,
                       todo : SUBSET Stored!FileItem],
             UNCHANGED <<server, expiring>>, count' \in [Stored!Events -> Nat]
      PROVE  Stored!Typed'
  <2>1. \A v \in W : (Stored!Busy(v) \/ Stored!At(v, "chosen"))' =>
            work'[v].path \in Stored!Places /\ work'[v].item \notin {Stored!Nothing, Stored!Reserved}
    <3> SUFFICES ASSUME NEW v \in W, (Stored!Busy(v) \/ Stored!At(v, "chosen"))'
                 PROVE  work'[v].path \in Stored!Places /\ work'[v].item \notin {Stored!Nothing, Stored!Reserved}
      OBVIOUS
    <3>1. CASE v = "job"
      BY <1>3, <3>1
    <3>2. CASE v # "job"
      BY <1>2, <1>3, <3>2 DEF Stored!Busy, Stored!At
    <3> QED
      BY <3>1, <3>2
  <2>2. /\ server' \in [Files -> Stored!Version] /\ expiring'.gone \in Nat
        /\ expiring' = [rows |-> expiring'.rows, gone |-> expiring'.gone]
    BY <1>2, <1>3
  <2> QED
    BY <1>3, <2>1, <2>2 DEF Stored!Typed, Worker, StoredRow, StoreSteps, Stored!Places, Stored!Names, Stored!Writers,
                            Stored!Events
<1>4. \A x \in Stored!FileItem : x \in Stored!Contents /\ x \notin {Stored!Nothing, Stored!Reserved}
  BY DEF Stored!FileItem, Stored!Contents, Stored!Nothing, Stored!Reserved
<1>5. ASSUME UNCHANGED <<disk, row, work>>,
             job' \in [at : {"idle", "collect", "archive"}, listed : SUBSET Stored!FileItem,
                       todo : SUBSET Stored!FileItem],
             UNCHANGED <<server, expiring>>, count' \in [Stored!Events -> Nat]
      PROVE  Stored!Typed'
  BY <1>1, <1>2, <1>3, <1>5 DEF Stored!Busy, Stored!At
<1>6. Stored!Counted("run") \/ Stored!Counted("fault") => count' \in [Stored!Events -> Nat]
  BY <1>2 DEF Stored!Counted
<1>7. CASE Stored!BeginCollect
  <2>1. Stored!Listed \subseteq Stored!FileItem
    BY <1>2 DEF Stored!Listed, Stored!FileItem
  <2>2. /\ job' = [at |-> "collect", listed |-> Stored!Listed, todo |-> Stored!Listed \ Stored!Seen]
        /\ UNCHANGED <<disk, row, work, server, expiring>> /\ Stored!Counted("run")
    BY <1>7 DEF Stored!BeginCollect
  <2>3. job' \in [at : {"idle", "collect", "archive"}, listed : SUBSET Stored!FileItem,
                  todo : SUBSET Stored!FileItem]
    BY <2>1, <2>2
  <2> QED
    BY <1>5, <1>6, <2>2, <2>3
<1>8. CASE Stored!CollectFile
  <2>1. PICK item \in job.todo : Stored!Choose("job", 0, item) /\ job' = [job EXCEPT !.todo = @ \ {item}]
    BY <1>8 DEF Stored!CollectFile
  <2>2. UNCHANGED <<disk, row, server, expiring, count>>
    BY <1>8 DEF Stored!CollectFile
  <2>3. item \in Stored!FileItem /\ 0 \in Stored!Names
    BY <1>2 DEF Stored!Names
  <2>4. job' \in [at : {"idle", "collect", "archive"}, listed : SUBSET Stored!FileItem,
                  todo : SUBSET Stored!FileItem]
    BY <1>2, <2>1
  <2>5. /\ work' \in [W -> Worker] /\ work'["job"].path \in Stored!Places /\ work'["job"].item = item
        /\ \A v \in W \ {"job"} : work'[v] = work[v]
    BY <1>1, <1>4, <2>1, <2>3, ChooseDoes
  <2> QED
    BY <1>1, <1>2, <1>3, <1>4, <2>2, <2>3, <2>4, <2>5
<1>9. CASE Stored!BeginArchive
  <2> DEFINE n == count["run"] + 1
  <2>1. /\ n \in Stored!Names /\ n \in Nat
    BY <1>2, <1>9 DEF Stored!BeginArchive, Stored!Counted, Stored!Bound, Stored!Names, Stored!StoredFilesAssumption
  <2>2. /\ Stored!Choose("job", n, <<"archive", n>>) /\ UNCHANGED <<disk, row, server, expiring>>
        /\ job' = [Stored!NoJob EXCEPT !.at = "archive"] /\ Stored!Counted("run")
    BY <1>9 DEF Stored!BeginArchive
  <2>3. <<"archive", n>> \in Stored!Contents /\ <<"archive", n>> \notin {Stored!Nothing, Stored!Reserved}
    BY <2>1 DEF Stored!Contents, Stored!Nothing, Stored!Reserved
  <2>4. job' \in [at : {"idle", "collect", "archive"}, listed : SUBSET Stored!FileItem,
                  todo : SUBSET Stored!FileItem]
    BY <2>2 DEF Stored!NoJob
  <2> HIDE DEF n
  <2>5. /\ work' \in [W -> Worker] /\ work'["job"].path \in Stored!Places
        /\ work'["job"].item = <<"archive", n>>
        /\ \A v \in W \ {"job"} : work'[v] = work[v]
    BY <1>1, <2>1, <2>2, <2>3, ChooseDoes
  <2> QED
    BY <1>1, <1>2, <1>3, <1>6, <2>2, <2>3, <2>4, <2>5
<1>10. CASE Stored!ArchiveFails
  BY <1>2, <1>5, <1>6, <1>10 DEF Stored!ArchiveFails
<1>11. ASSUME NEW s \in StoreSteps, Stored!Goto("job", s), Stored!Busy("job"),
              disk' \in [Stored!Places -> Stored!Contents], UNCHANGED <<row, job, server, expiring>>,
              count' \in [Stored!Events -> Nat]
       PROVE  Stored!Typed'
  BY <1>1, <1>2, <1>3, <1>11, Moved
<1>12. CASE Stored!Drop \/ Stored!Prune \/ Stored!PruneFails
  <2>1. PICK s \in StoreSteps : Stored!Goto("job", s)
    BY <1>12 DEF Stored!Drop, Stored!Prune, Stored!PruneFails, StoreSteps
  <2>2. disk' = disk \/ disk' = [disk EXCEPT ![work["job"].path] = Stored!Nothing]
    BY <1>12 DEF Stored!Drop, Stored!Prune, Stored!PruneFails, Stored!Fill
  <2>3. Stored!Busy("job") /\ UNCHANGED <<row, job, server, expiring>>
    BY <1>12 DEF Stored!Drop, Stored!Prune, Stored!PruneFails, Stored!Busy, Stored!At
  <2>4. count' \in [Stored!Events -> Nat]
    BY <1>2, <1>6, <1>12 DEF Stored!Drop, Stored!Prune, Stored!PruneFails
  <2>5. disk' \in [Stored!Places -> Stored!Contents]
    BY <1>1, <2>2
  <2> QED
    BY <1>11, <2>1, <2>3, <2>4, <2>5
<1>13. CASE Stored!Retain \/ Stored!RunFails
  <2>1. Stored!Idle \in Worker /\ Stored!Idle.at = "idle"
    BY <1>1 DEF Stored!Idle, Worker, StoreSteps
  <2>2. /\ job' = Stored!NoJob /\ work' = [work EXCEPT !["job"] = Stored!Idle]
        /\ UNCHANGED <<disk, server, expiring, count>>
    BY <1>13 DEF Stored!Retain, Stored!RunFails
  <2>3. job' \in [at : {"idle", "collect", "archive"}, listed : SUBSET Stored!FileItem,
                  todo : SUBSET Stored!FileItem]
    BY <2>2 DEF Stored!NoJob
  <2>4. row' \in Seq(StoredRow)
    <3>1. CASE Stored!RunFails
      BY <1>1, <3>1 DEF Stored!RunFails
    <3>2. CASE Stored!Retain
      <4>1. PICK stale : row' = [i \in DOMAIN row |->
                             IF i \in stale THEN [row[i] EXCEPT !.deleted = TRUE] ELSE row[i]]
        BY <3>2 DEF Stored!Retain
      <4>2. \A i \in DOMAIN row : row[i] \in StoredRow /\ [row[i] EXCEPT !.deleted = TRUE] \in StoredRow
        <5>1. \A i \in DOMAIN row : row[i] \in StoredRow
          BY <1>1
        <5>2. \A x \in StoredRow : [x EXCEPT !.deleted = TRUE] \in StoredRow
          BY DEF StoredRow
        <5> QED
          BY <5>1, <5>2
      <4> HIDE DEF StoredRow
      <4> QED
        BY <1>1, <4>1, <4>2
    <3> QED
      BY <1>13, <3>1, <3>2
  <2> HIDE DEF Stored!Idle
  <2>5. work' \in [W -> Worker] /\ work'["job"].at = "idle" /\ \A v \in W \ {"job"} : work'[v] = work[v]
    BY <1>1, <2>1, <2>2
  <2> QED
    BY <1>1, <1>2, <1>3, <2>2, <2>3, <2>4, <2>5 DEF Stored!Busy, Stored!At
<1> QED
  BY <1>7, <1>8, <1>9, <1>10, <1>12, <1>13 DEF Stored!Run

\* The other steps, and what they leave as it was.
LEMMA OtherTyped ==
    ASSUME Stored!StoredFilesAssumption, Stored!Typed, Stored!ExpiringDeleted,
           \/ \E u \in Uploads : Stored!Upload(u)
           \/ \E i \in DOMAIN row : Stored!Delete(i)
           \/ Stored!BeginExpire \/ Stored!ExpireFile \/ Stored!ExpireRow
           \/ \E f \in Files : Stored!Rewrite(f)
           \/ Stored!Crash
    PROVE  Stored!Typed'
<1> DEFINE W == Stored!Writers
           JobType == [at : {"idle", "collect", "archive"}, listed : SUBSET Stored!FileItem,
                       todo : SUBSET Stored!FileItem]
<1>1. /\ disk \in [Stored!Places -> Stored!Contents] /\ row \in Seq(StoredRow)
      /\ work \in [W -> Worker] /\ "job" \in W /\ Uploads \subseteq W
      /\ Stored!Nothing \in Stored!Contents /\ Stored!Reserved \in Stored!Contents
  BY TypedParts DEF Stored!Writers
<1>2. /\ \A v \in W : Stored!Busy(v) \/ Stored!At(v, "chosen") =>
            work[v].path \in Stored!Places /\ work[v].item \notin {Stored!Nothing, Stored!Reserved}
      /\ server \in [Files -> Stored!Version] /\ count \in [Stored!Events -> Nat]
      /\ job \in JobType
      /\ expiring.gone \in Nat /\ expiring = [rows |-> expiring.rows, gone |-> expiring.gone]
      /\ \A i \in DOMAIN row : i \in Nat
      /\ "delete" \in Stored!Events /\ "expiry" \in Stored!Events /\ "write" \in Stored!Events
      /\ "crash" \in Stored!Events
  BY <1>1 DEF Stored!Typed, Stored!Events
<1>3. ASSUME disk' \in [Stored!Places -> Stored!Contents], row' \in Seq(StoredRow),
             work' \in [W -> Worker],
             \A v \in W : (Stored!Busy(v) \/ Stored!At(v, "chosen"))' =>
                work'[v].path \in Stored!Places /\ work'[v].item \notin {Stored!Nothing, Stored!Reserved},
             job' \in JobType, server' \in [Files -> Stored!Version],
             expiring'.gone \in Nat, expiring' = [rows |-> expiring'.rows, gone |-> expiring'.gone],
             count' \in [Stored!Events -> Nat]
      PROVE  Stored!Typed'
  BY <1>3 DEF Stored!Typed, Worker, StoredRow, StoreSteps, Stored!Places, Stored!Names, Stored!Writers, Stored!Events
<1>4. ASSUME UNCHANGED work
      PROVE  \A v \in W : (Stored!Busy(v) \/ Stored!At(v, "chosen"))' =>
                work'[v].path \in Stored!Places /\ work'[v].item \notin {Stored!Nothing, Stored!Reserved}
  BY <1>2, <1>4 DEF Stored!Busy, Stored!At
<1>5. \A e \in Stored!Events : Stored!Counted(e) => count' \in [Stored!Events -> Nat]
  BY <1>2 DEF Stored!Counted
<1> HIDE DEF JobType
<1>6. ASSUME NEW u \in Uploads, Stored!Upload(u) PROVE Stored!Typed'
  <2>1. /\ Stored!Choose(u, 0, <<"upload", u>>)
        /\ UNCHANGED <<disk, row, job, server, remote, expiring, left, count>>
    BY <1>6 DEF Stored!Upload
  <2>2. /\ <<"upload", u>> \in Stored!Contents /\ <<"upload", u>> \notin {Stored!Nothing, Stored!Reserved}
        /\ 0 \in Stored!Names /\ u \in W
    BY <1>1 DEF Stored!Contents, Stored!Nothing, Stored!Reserved, Stored!Names
  <2>3. /\ work' \in [W -> Worker] /\ work'[u].path \in Stored!Places /\ work'[u].item = <<"upload", u>>
        /\ \A v \in W \ {u} : work'[v] = work[v]
    BY <2>1, <2>2, ChooseDoes
  <2>4. \A v \in W : (Stored!Busy(v) \/ Stored!At(v, "chosen"))' =>
            work'[v].path \in Stored!Places /\ work'[v].item \notin {Stored!Nothing, Stored!Reserved}
    <3> SUFFICES ASSUME NEW v \in W, (Stored!Busy(v) \/ Stored!At(v, "chosen"))'
                 PROVE  work'[v].path \in Stored!Places /\ work'[v].item \notin {Stored!Nothing, Stored!Reserved}
      OBVIOUS
    <3>1. CASE v = u
      BY <2>2, <2>3, <3>1
    <3>2. CASE v # u
      BY <1>2, <2>3, <3>2 DEF Stored!Busy, Stored!At
    <3> QED
      BY <3>1, <3>2
  <2> QED
    BY <1>1, <1>2, <1>3, <2>1, <2>3, <2>4
<1>7. \A x \in StoredRow : /\ [x EXCEPT !.deleted = TRUE] \in StoredRow
                           /\ [x EXCEPT !.removed = TRUE] \in StoredRow
  BY DEF StoredRow
<1> HIDE DEF StoredRow
<1>14. \A i \in DOMAIN row : row[i] \in StoredRow
  BY <1>1
<1>8. ASSUME NEW i \in DOMAIN row, Stored!Delete(i) PROVE Stored!Typed'
  <2>1. row' = [row EXCEPT ![i] = [row[i] EXCEPT !.deleted = TRUE]]
    BY <1>8 DEF Stored!Delete
  <2>2. [row[i] EXCEPT !.deleted = TRUE] \in StoredRow
    BY <1>7, <1>14
  <2>3. row' \in Seq(StoredRow)
    BY <1>1, <2>1, <2>2
  <2>4. UNCHANGED <<disk, work, job, server, expiring>> /\ Stored!Counted("delete")
    BY <1>8 DEF Stored!Delete
  <2> QED
    BY <1>1, <1>2, <1>3, <1>4, <1>5, <2>3, <2>4
<1>9. CASE Stored!BeginExpire
  <2>1. /\ UNCHANGED <<disk, row, work, job, server>> /\ Stored!Counted("expiry")
        /\ \E past : expiring' = [rows |-> past, gone |-> 0]
    BY <1>9 DEF Stored!BeginExpire
  <2> QED
    BY <1>1, <1>2, <1>3, <1>4, <1>5, <2>1
<1>10. CASE Stored!ExpireFile
  <2>1. PICK i \in expiring.rows : Stored!Fill(row[i].path, Stored!Nothing) /\ expiring' = [expiring EXCEPT !.gone = i]
    BY <1>10 DEF Stored!ExpireFile
  <2>2. UNCHANGED <<row, work, job, server, count>>
    BY <1>10 DEF Stored!ExpireFile
  <2>3. disk' \in [Stored!Places -> Stored!Contents]
    BY <1>1, <2>1 DEF Stored!Fill
  <2>4. expiring'.gone \in Nat /\ expiring' = [rows |-> expiring'.rows, gone |-> expiring'.gone]
    <3>1. i \in Nat
      BY <1>2 DEF Stored!ExpiringDeleted
    <3> QED
      BY <1>2, <2>1, <3>1
  <2> QED
    BY <1>1, <1>2, <1>3, <1>4, <2>2, <2>3, <2>4
<1>11. CASE Stored!ExpireRow
  <2>1. /\ row' = [row EXCEPT ![expiring.gone] = [row[expiring.gone] EXCEPT !.removed = TRUE]]
        /\ expiring' = [rows |-> expiring.rows \ {expiring.gone}, gone |-> 0]
        /\ UNCHANGED <<disk, work, job, server, count>>
        /\ expiring.gone \in DOMAIN row
    BY <1>11 DEF Stored!ExpireRow, Stored!ExpiringDeleted
  <2>2. [row[expiring.gone] EXCEPT !.removed = TRUE] \in StoredRow
    BY <1>7, <1>14, <2>1
  <2>3. row' \in Seq(StoredRow)
    BY <1>1, <2>1, <2>2
  <2> QED
    BY <1>1, <1>2, <1>3, <1>4, <2>1, <2>3
<1>12. ASSUME NEW f \in Files, Stored!Rewrite(f) PROVE Stored!Typed'
  <2>1. PICK size \in 1 .. 2 : server' = [server EXCEPT ![f] = [size |-> size, mtime |-> server[f].mtime + 1]]
    BY <1>12 DEF Stored!Rewrite
  <2>2. [size |-> size, mtime |-> server[f].mtime + 1] \in Stored!Version
    BY <1>2 DEF Stored!Version
  <2>3. server' \in [Files -> Stored!Version]
    BY <1>2, <2>1, <2>2
  <2>4. UNCHANGED <<disk, row, work, job, expiring>> /\ Stored!Counted("write")
    BY <1>12 DEF Stored!Rewrite
  <2> QED
    BY <1>1, <1>2, <1>3, <1>4, <1>5, <2>3, <2>4
<1>13. CASE Stored!Crash
  <2>1. /\ work' = [w \in W |-> IF w = "job" \/ Stored!At(w, "idle") THEN Stored!Idle
                                ELSE [Stored!Idle EXCEPT !.at = "failed"]]
        /\ job' = Stored!NoJob /\ expiring' = Stored!NoExpiry
        /\ UNCHANGED <<disk, row, server>> /\ Stored!Counted("crash")
    BY <1>13 DEF Stored!Crash
  <2>2. /\ Stored!Idle \in Worker /\ [Stored!Idle EXCEPT !.at = "failed"] \in Worker
        /\ Stored!Idle.at = "idle" /\ [Stored!Idle EXCEPT !.at = "failed"].at = "failed"
    BY <1>1 DEF Stored!Idle, Worker, StoreSteps
  <2> HIDE DEF Stored!Idle
  <2>3. work' \in [W -> Worker] /\ \A v \in W : work'[v].at \in {"idle", "failed"}
    BY <2>1, <2>2
  <2>4. job' \in JobType
    BY <2>1 DEF JobType, Stored!NoJob
  <2>5. expiring'.gone \in Nat /\ expiring' = [rows |-> expiring'.rows, gone |-> expiring'.gone]
    BY <2>1 DEF Stored!NoExpiry
  <2>6. \A v \in W : ~ (Stored!Busy(v) \/ Stored!At(v, "chosen"))'
    BY <2>3 DEF Stored!Busy, Stored!At
  <2> QED
    BY <1>1, <1>2, <1>3, <1>5, <2>1, <2>3, <2>4, <2>5, <2>6
<1> QED
  BY <1>6, <1>8, <1>9, <1>10, <1>11, <1>12, <1>13

LEMMA TypedStays ==
    ASSUME Stored!StoredFilesAssumption, Stored!Typed, Stored!ExpiringDeleted, [Stored!Next]_(Stored!vars)
    PROVE  Stored!Typed'
<1>1. CASE UNCHANGED Stored!vars
  BY <1>1 DEF Stored!vars, Stored!Typed, Stored!Places, Stored!Names, Stored!Writers, Stored!Busy, Stored!At,
              Stored!Events
<1>2. CASE Stored!Next
  BY <1>2, StoreTyped, RunTyped, OtherTyped DEF Stored!Next
<1> QED
  BY <1>1, <1>2

\* What the steps do to the rows.
RowEffects ==
    \/ UNCHANGED row
    \/ \E w \in Stored!Writers :
          Goes(w, {"record"}, {"stored"}) /\ Stored!PathFree(work[w].path) /\ row' = Append(row, Stored!NewRow(w))
    \/ DOMAIN row' = DOMAIN row /\ \E S : \A i \in DOMAIN row :
          row'[i] = IF i \in S THEN [row[i] EXCEPT !.deleted = TRUE] ELSE row[i]
    \/ Stored!ExpireRow
LEMMA RowsDo ==
    ASSUME Stored!StoredFilesAssumption, Stored!Typed, Stored!ExpiringDeleted, [Stored!Next]_(Stored!vars)
    PROVE  RowEffects
<1>0. row \in Seq(StoredRow)
  BY TypedParts
<1>1. ASSUME NEW w \in Stored!Writers, Stored!Store(w) PROVE RowEffects
  BY <1>1, StoreDoes DEF StoreEffects, RowEffects
<1>2. ASSUME NEW i \in DOMAIN row, Stored!Delete(i) PROVE RowEffects
  <2>1. row' = [row EXCEPT ![i] = [row[i] EXCEPT !.deleted = TRUE]]
    BY <1>2 DEF Stored!Delete
  <2>2. DOMAIN row' = DOMAIN row /\ \A k \in DOMAIN row :
            row'[k] = IF k \in {i} THEN [row[k] EXCEPT !.deleted = TRUE] ELSE row[k]
    BY <1>0, <2>1
  <2> QED
    BY <2>2 DEF RowEffects
<1>3. CASE Stored!Retain
  <2>1. PICK S : row' = [i \in DOMAIN row |-> IF i \in S THEN [row[i] EXCEPT !.deleted = TRUE] ELSE row[i]]
    BY <1>3 DEF Stored!Retain
  <2> QED
    BY <2>1 DEF RowEffects
<1>4. CASE \/ UNCHANGED Stored!vars
           \/ Stored!BeginCollect \/ Stored!CollectFile \/ Stored!Drop \/ Stored!BeginArchive
           \/ Stored!ArchiveFails \/ Stored!Prune \/ Stored!PruneFails \/ Stored!RunFails
           \/ \E u \in Uploads : Stored!Upload(u)
           \/ Stored!BeginExpire \/ Stored!ExpireFile
           \/ \E f \in Files : Stored!Rewrite(f)
           \/ Stored!Crash
  <2>1. UNCHANGED row
    BY <1>4 DEF Stored!vars, Stored!BeginCollect, Stored!CollectFile, Stored!Drop, Stored!BeginArchive,
                Stored!ArchiveFails, Stored!Prune, Stored!PruneFails, Stored!RunFails, Stored!Upload,
                Stored!BeginExpire, Stored!ExpireFile, Stored!Rewrite, Stored!Crash
  <2> QED
    BY <2>1 DEF RowEffects
<1>5. CASE Stored!ExpireRow
  BY <1>5 DEF RowEffects
<1> QED
  BY <1>1, <1>2, <1>3, <1>4, <1>5 DEF Stored!Next, Stored!Run

LEMMA RowsKeep ==
    ASSUME Stored!StoredFilesAssumption, Stored!Typed, Stored!ExpiringDeleted, [Stored!Next]_(Stored!vars)
    PROVE  /\ \A i \in DOMAIN row :
                 /\ i \in DOMAIN row'
                 /\ row'[i].path = row[i].path /\ row'[i].holds = row[i].holds /\ row'[i].of = row[i].of
                 /\ row[i].deleted => row'[i].deleted
                 /\ row'[i].removed <=> row[i].removed \/ (Stored!ExpireRow /\ i = expiring.gone)
           /\ \A i \in DOMAIN row' \ DOMAIN row : \E w \in Stored!Writers :
                 /\ Goes(w, {"record"}, {"stored"}) /\ Stored!PathFree(work[w].path)
                 /\ row'[i] = Stored!NewRow(w) /\ row' = Append(row, Stored!NewRow(w))
           /\ \A i, k \in DOMAIN row' \ DOMAIN row : i = k
<1> DEFINE Kept == /\ \A i \in DOMAIN row :
                         /\ i \in DOMAIN row'
                         /\ row'[i].path = row[i].path /\ row'[i].holds = row[i].holds /\ row'[i].of = row[i].of
                         /\ row[i].deleted => row'[i].deleted
                         /\ row'[i].removed <=> row[i].removed \/ (Stored!ExpireRow /\ i = expiring.gone)
                   /\ \A i \in DOMAIN row' \ DOMAIN row : \E w \in Stored!Writers :
                         /\ Goes(w, {"record"}, {"stored"}) /\ Stored!PathFree(work[w].path)
                         /\ row'[i] = Stored!NewRow(w) /\ row' = Append(row, Stored!NewRow(w))
                   /\ \A i, k \in DOMAIN row' \ DOMAIN row : i = k
<1>0. /\ row \in Seq(StoredRow) /\ \A i \in DOMAIN row : row[i] \in StoredRow
  <2>1. row \in Seq(StoredRow)
    BY TypedParts
  <2> HIDE DEF StoredRow
  <2> QED
    BY <2>1
<1>1. ASSUME Stored!ExpireRow PROVE Kept
  <2>1. row' = [row EXCEPT ![expiring.gone] = [row[expiring.gone] EXCEPT !.removed = TRUE]]
    BY <1>1 DEF Stored!ExpireRow
  <2>2. \A x \in StoredRow : /\ [x EXCEPT !.removed = TRUE].path = x.path
                             /\ [x EXCEPT !.removed = TRUE].holds = x.holds
                             /\ [x EXCEPT !.removed = TRUE].of = x.of
                             /\ [x EXCEPT !.removed = TRUE].deleted = x.deleted
                             /\ [x EXCEPT !.removed = TRUE].removed = TRUE
    BY DEF StoredRow
  <2>3. DOMAIN row' = DOMAIN row
    BY <1>0, <2>1
  <2>4. ASSUME NEW i \in DOMAIN row
        PROVE  /\ row'[i].path = row[i].path /\ row'[i].holds = row[i].holds /\ row'[i].of = row[i].of
               /\ row'[i].deleted = row[i].deleted
               /\ row'[i].removed <=> row[i].removed \/ i = expiring.gone
    <3>1. row'[i] = IF i = expiring.gone THEN [row[i] EXCEPT !.removed = TRUE] ELSE row[i]
      BY <1>0, <2>1
    <3>2. row[i] \in StoredRow
      BY <1>0
    <3>3. CASE i = expiring.gone
      BY <2>2, <3>1, <3>2, <3>3
    <3>4. CASE i # expiring.gone
      BY <3>1, <3>4
    <3> QED
      BY <3>3, <3>4
  <2> QED
    BY <1>1, <2>3, <2>4
<1>2. ASSUME ~ Stored!ExpireRow PROVE Kept
  <2>1. CASE UNCHANGED row
    BY <1>2, <2>1
  <2>2. ASSUME NEW w \in Stored!Writers, Goes(w, {"record"}, {"stored"}), Stored!PathFree(work[w].path),
               row' = Append(row, Stored!NewRow(w))
        PROVE  Kept
    <3>1. work[w].path \in Stored!Places
      BY <2>2 DEF Goes, Stored!Typed, Stored!Busy
    <3>2. /\ DOMAIN row' = DOMAIN row \cup {Len(row) + 1}
          /\ \A i \in DOMAIN row : row'[i] = row[i]
          /\ row'[Len(row) + 1] = Stored!NewRow(w)
      BY <2>2, <3>1, RowSaved
    <3> QED
      BY <1>2, <2>2, <3>2
  <2>3. ASSUME NEW S, DOMAIN row' = DOMAIN row,
               \A i \in DOMAIN row : row'[i] = IF i \in S THEN [row[i] EXCEPT !.deleted = TRUE] ELSE row[i]
        PROVE  Kept
    <3>1. \A x \in StoredRow : /\ [x EXCEPT !.deleted = TRUE].path = x.path
                               /\ [x EXCEPT !.deleted = TRUE].holds = x.holds
                               /\ [x EXCEPT !.deleted = TRUE].of = x.of
                               /\ [x EXCEPT !.deleted = TRUE].deleted = TRUE
                               /\ [x EXCEPT !.deleted = TRUE].removed = x.removed
      BY DEF StoredRow
    <3>2. ASSUME NEW i \in DOMAIN row
          PROVE  /\ row'[i].path = row[i].path /\ row'[i].holds = row[i].holds /\ row'[i].of = row[i].of
                 /\ row[i].deleted => row'[i].deleted
                 /\ row'[i].removed <=> row[i].removed
      <4>1. row'[i] = IF i \in S THEN [row[i] EXCEPT !.deleted = TRUE] ELSE row[i]
        BY <2>3
      <4>2. row[i] \in StoredRow
        BY <1>0
      <4>3. CASE i \in S
        BY <3>1, <4>1, <4>2, <4>3
      <4>4. CASE i \notin S
        BY <4>1, <4>4
      <4> QED
        BY <4>3, <4>4
    <3> QED
      BY <1>2, <2>3, <3>2
  <2> QED
    BY <1>2, <2>1, <2>2, <2>3, RowsDo DEF RowEffects
<1> HIDE DEF Kept
<1>3. Kept
  BY <1>1, <1>2
<1> QED
  BY <1>3 DEF Kept

LEMMA RowsStayApart ==
    ASSUME Stored!StoredFilesAssumption, Stored!Typed, Stored!ExpiringDeleted, Stored!RowsApart,
           [Stored!Next]_(Stored!vars)
    PROVE  Stored!RowsApart'
<1> SUFFICES ASSUME NEW i \in DOMAIN row', NEW k \in DOMAIN row', ~ row'[i].removed, ~ row'[k].removed,
                    row'[i].path = row'[k].path
             PROVE  i = k
  BY DEF Stored!RowsApart, Stored!Kept
<1>1. CASE i \in DOMAIN row /\ k \in DOMAIN row
  BY <1>1, RowsKeep DEF Stored!RowsApart, Stored!Kept
<1>2. ASSUME NEW m \in DOMAIN row, NEW n \in DOMAIN row' \ DOMAIN row, ~ row'[m].removed,
             row'[m].path = row'[n].path
      PROVE  FALSE
  <2>1. PICK w \in Stored!Writers : Stored!PathFree(work[w].path) /\ row'[n] = Stored!NewRow(w)
    BY <1>2, RowsKeep
  <2>2. row'[n].path = work[w].path
    BY <2>1 DEF Stored!NewRow
  <2>3. row[m].path = work[w].path /\ ~ row[m].removed
    BY <1>2, <2>2, RowsKeep
  <2> QED
    BY <2>1, <2>3 DEF Stored!PathFree
<1>3. CASE i \notin DOMAIN row /\ k \notin DOMAIN row
  BY <1>3, RowsKeep
<1> QED
  BY <1>1, <1>2, <1>3

LEMMA ExpiringStaysDeleted ==
    ASSUME Stored!StoredFilesAssumption, Stored!Typed, Stored!ExpiringDeleted, [Stored!Next]_(Stored!vars)
    PROVE  Stored!ExpiringDeleted'
<1>1. /\ \A i \in DOMAIN row : i \in DOMAIN row' /\ (row[i].deleted => row'[i].deleted)
                               /\ (row'[i].removed <=> row[i].removed \/ (Stored!ExpireRow /\ i = expiring.gone))
      /\ \A i \in DOMAIN row' \ DOMAIN row : ~ row'[i].removed
  <2>1. \A w \in Stored!Writers : ~ Stored!NewRow(w).removed
    BY DEF Stored!NewRow
  <2> QED
    BY <2>1, RowsKeep
<1>2. \A i \in DOMAIN row' : row'[i].removed => row'[i].deleted
  BY <1>1 DEF Stored!ExpiringDeleted, Stored!ExpireRow
<1>3. /\ expiring'.rows \subseteq {i \in DOMAIN row' : row'[i].deleted /\ ~ row'[i].removed}
      /\ expiring'.gone # 0 => expiring'.gone \in expiring'.rows
  <2>1. CASE Stored!ExpireRow
    <3>1. expiring'.rows = expiring.rows \ {expiring.gone} /\ expiring'.gone = 0
      BY <2>1 DEF Stored!ExpireRow
    <3> QED
      BY <1>1, <3>1 DEF Stored!ExpiringDeleted
  <2>2. CASE Stored!BeginExpire
    <3>1. /\ expiring'.rows = {i \in DOMAIN row : row[i].deleted /\ ~ row[i].removed}
          /\ expiring'.gone = 0 /\ UNCHANGED row
      BY <2>2 DEF Stored!BeginExpire
    <3> QED
      BY <3>1
  <2>3. CASE Stored!ExpireFile
    <3>1. PICK i \in expiring.rows : expiring' = [expiring EXCEPT !.gone = i]
      BY <2>3 DEF Stored!ExpireFile
    <3>2. expiring'.rows = expiring.rows /\ expiring'.gone = i /\ row' = row
      BY <2>3, <3>1 DEF Stored!ExpireFile, Stored!Typed
    <3> QED
      BY <3>2 DEF Stored!ExpiringDeleted
  <2>4. CASE Stored!Crash
    BY <2>4 DEF Stored!Crash, Stored!NoExpiry
  <2>5. CASE UNCHANGED expiring /\ ~ Stored!ExpireRow
    BY <1>1, <2>5 DEF Stored!ExpiringDeleted
  <2>6. \/ UNCHANGED expiring
        \/ Stored!ExpireRow \/ Stored!BeginExpire \/ Stored!ExpireFile \/ Stored!Crash
    <3>1. ASSUME NEW w \in Stored!Writers, Stored!Store(w) PROVE UNCHANGED expiring
      BY <3>1, StoreDoes DEF StoreEffects
    <3>2. ASSUME Stored!Run PROVE UNCHANGED expiring
      BY <3>2 DEF Stored!Run, Stored!BeginCollect, Stored!CollectFile, Stored!Drop, Stored!BeginArchive,
                  Stored!ArchiveFails, Stored!Prune, Stored!PruneFails, Stored!RunFails, Stored!Retain
    <3> QED
      BY <3>1, <3>2 DEF Stored!Next, Stored!vars, Stored!Upload, Stored!Delete, Stored!Rewrite
  <2> QED
    BY <2>1, <2>2, <2>3, <2>4, <2>5, <2>6
<1> QED
  BY <1>2, <1>3 DEF Stored!ExpiringDeleted

LEMMA ExpiringDoes ==
    ASSUME Stored!Typed, [Stored!Next]_(Stored!vars)
    PROVE  \/ UNCHANGED expiring
           \/ Stored!ExpireRow \/ Stored!BeginExpire \/ Stored!ExpireFile \/ Stored!Crash
<1>1. ASSUME NEW w \in Stored!Writers, Stored!Store(w) PROVE UNCHANGED expiring
  BY <1>1, StoreDoes DEF StoreEffects
<1>2. ASSUME Stored!Run PROVE UNCHANGED expiring
  BY <1>2 DEF Stored!Run, Stored!BeginCollect, Stored!CollectFile, Stored!Drop, Stored!BeginArchive,
              Stored!ArchiveFails, Stored!Prune, Stored!PruneFails, Stored!RunFails, Stored!Retain
<1> QED
  BY <1>1, <1>2 DEF Stored!Next, Stored!vars, Stored!Upload, Stored!Delete, Stored!Rewrite

\* A row that has its file has it still, unless the expiry has just removed it.
LEMMA RowsExplain ==
    ASSUME Stored!StoredFilesAssumption, Stored!Typed, Stored!ExpiringDeleted, [Stored!Next]_(Stored!vars),
           NEW i \in DOMAIN row, Stored!Kept(i), i # expiring.gone
    PROVE  /\ i \in DOMAIN row' /\ Stored!Kept(i)' /\ row'[i].path = row[i].path /\ row'[i].holds = row[i].holds
           /\ \/ i # expiring'.gone
              \/ Stored!ExpireFile /\ i = expiring'.gone /\ disk'[row[i].path] = Stored!Nothing
<1>1. i \in DOMAIN row' /\ Stored!Kept(i)' /\ row'[i].path = row[i].path /\ row'[i].holds = row[i].holds
  BY RowsKeep DEF Stored!Kept
<1>2. /\ row \in Seq(StoredRow) /\ row[i] \in StoredRow /\ disk \in [Stored!Places -> Stored!Contents]
      /\ i # 0
  <2>1. row \in Seq(StoredRow)
    BY TypedParts
  <2> HIDE DEF StoredRow
  <2> QED
    BY <2>1, TypedParts
<1>3. CASE Stored!ExpireRow \/ Stored!BeginExpire \/ Stored!Crash
  BY <1>1, <1>2, <1>3 DEF Stored!ExpireRow, Stored!BeginExpire, Stored!Crash, Stored!NoExpiry
<1>4. CASE Stored!ExpireFile
  <2>1. PICK k \in expiring.rows : Stored!Fill(row[k].path, Stored!Nothing) /\ expiring' = [expiring EXCEPT !.gone = k]
    BY <1>4 DEF Stored!ExpireFile
  <2>2. expiring'.gone = k
    BY <2>1 DEF Stored!Typed
  <2>3. row[i].path \in Stored!Places
    BY <1>2 DEF StoredRow
  <2> QED
    BY <1>1, <1>2, <1>4, <2>1, <2>2, <2>3 DEF Stored!Fill
<1>5. CASE UNCHANGED expiring
  BY <1>1, <1>5
<1> QED
  BY <1>3, <1>4, <1>5, ExpiringDoes

\* Where the files are and who works on them, step by step.
PlacesEffects ==
    /\ \A p \in Stored!Places : disk'[p] # Stored!Nothing =>
          \/ disk[p] # Stored!Nothing
          \/ \E w \in Stored!Writers : Stored!Busy(w)' /\ work'[w].path = p
    /\ left \subseteq left'
    /\ \A w \in Stored!Writers : Stored!Busy(w) =>
          \/ Stored!Busy(w)' /\ work'[w].path = work[w].path
          \/ disk'[work[w].path] = Stored!Nothing
          \/ work[w].path \in left'
          \/ Goes(w, {"record"}, {"stored"}) /\ row' = Append(row, Stored!NewRow(w)) /\ UNCHANGED expiring

LEMMA PlacesDo ==
    ASSUME Stored!StoredFilesAssumption, Stored!Typed, Stored!ExpiringDeleted, Stored!JobRests, [Stored!Next]_(Stored!vars)
    PROVE  PlacesEffects
<1>0. /\ disk \in [Stored!Places -> Stored!Contents] /\ work \in [Stored!Writers -> Worker]
      /\ "job" \in Stored!Writers
  BY TypedParts
<1>1. ASSUME UNCHANGED <<disk, work, left>> PROVE PlacesEffects
  BY <1>1 DEF PlacesEffects, Stored!Busy
<1>2. ASSUME NEW w \in Stored!Writers, Stored!Store(w) PROVE PlacesEffects
  BY <1>0, <1>2, StoreDoes DEF StoreEffects, PlacesEffects, Goes, Fills, Stored!Busy
<1>3. ASSUME NEW w \in Stored!Writers, ~ Stored!Busy(w), \A v \in Stored!Writers \ {w} : work'[v] = work[v],
             UNCHANGED <<disk, left>>
      PROVE  PlacesEffects
  BY <1>3 DEF PlacesEffects, Stored!Busy
<1>4. CASE Stored!Drop
  <2>1. /\ \A v \in Stored!Writers \ {"job"} : work'[v] = work[v]
        /\ disk' = [disk EXCEPT ![work["job"].path] = Stored!Nothing] /\ left' = left
        /\ Stored!Busy("job")
    BY <1>0, <1>4 DEF Stored!Drop, Stored!Goto, Stored!Fill, Stored!Busy, Stored!At
  <2>2. work["job"].path \in Stored!Places
    BY <1>0, <2>1 DEF Stored!Typed
  <2> QED
    BY <1>0, <2>1, <2>2 DEF PlacesEffects, Stored!Busy
<1>5. CASE Stored!Prune \/ Stored!PruneFails
  <2>1. PICK s \in {"record", "undo"} : Stored!Goto("job", s)
    BY <1>5 DEF Stored!Prune, Stored!PruneFails
  <2>2. /\ \A v \in Stored!Writers \ {"job"} : work'[v] = work[v]
        /\ work'["job"].at = s /\ work'["job"].path = work["job"].path
    BY <1>0, <2>1, Moved DEF StoreSteps
  <2>3. UNCHANGED <<disk, left>>
    BY <1>5 DEF Stored!Prune, Stored!PruneFails
  <2> QED
    BY <1>0, <2>2, <2>3 DEF PlacesEffects, Stored!Busy
<1>6. ASSUME NEW w \in Stored!Writers, NEW name, NEW item, Stored!Choose(w, name, item), ~ Stored!Busy(w),
             UNCHANGED <<disk, left>>
      PROVE  PlacesEffects
  <2>1. \A v \in Stored!Writers \ {w} : work'[v] = work[v]
    BY <1>0, <1>6 DEF Stored!Choose
  <2> QED
    BY <1>3, <1>6, <2>1
<1>7. CASE Stored!CollectFile \/ Stored!BeginArchive
  <2>1. \E name, item : Stored!Choose("job", name, item)
    BY <1>7 DEF Stored!CollectFile, Stored!BeginArchive
  <2>2. UNCHANGED <<disk, left>> /\ work["job"].at \in {"idle", "stored"}
    BY <1>7 DEF Stored!CollectFile, Stored!BeginArchive, Stored!JobRests, Stored!At
  <2>3. ~ Stored!Busy("job")
    BY <2>2 DEF Stored!Busy
  <2> QED
    BY <1>0, <1>6, <2>1, <2>2, <2>3
<1>12. ASSUME NEW u \in Uploads, Stored!Upload(u) PROVE PlacesEffects
  <2>1. /\ Stored!Choose(u, 0, <<"upload", u>>) /\ UNCHANGED <<disk, left>> /\ ~ Stored!Busy(u)
        /\ u \in Stored!Writers
    BY <1>12 DEF Stored!Upload, Stored!At, Stored!Busy, Stored!Writers
  <2> QED
    BY <1>6, <2>1
<1>8. CASE Stored!Retain \/ Stored!RunFails
  <2>1. /\ work' = [work EXCEPT !["job"] = Stored!Idle] /\ UNCHANGED <<disk, left>>
        /\ work["job"].at \in {"idle", "stored", "failed"}
    BY <1>8 DEF Stored!Retain, Stored!RunFails, Stored!At
  <2>2. ~ Stored!Busy("job") /\ \A v \in Stored!Writers \ {"job"} : work'[v] = work[v]
    BY <1>0, <2>1 DEF Stored!Busy
  <2> QED
    BY <1>0, <1>3, <2>1, <2>2
<1>9. CASE Stored!Crash
  <2>1. /\ UNCHANGED disk
        /\ left' = left \cup {work[w].path : w \in {v \in Stored!Writers : Stored!Busy(v)}}
    BY <1>9 DEF Stored!Crash, Stored!Busy
  <2> QED
    BY <2>1 DEF PlacesEffects
<1>10. CASE Stored!ExpireFile
  <2>1. PICK i \in DOMAIN row : disk' = [disk EXCEPT ![row[i].path] = Stored!Nothing]
    BY <1>10 DEF Stored!ExpireFile, Stored!Fill, Stored!ExpiringDeleted
  <2>2. UNCHANGED <<work, left>>
    BY <1>10 DEF Stored!ExpireFile
  <2> QED
    BY <1>0, <2>1, <2>2 DEF PlacesEffects, Stored!Busy
<1>11. CASE \/ UNCHANGED Stored!vars \/ Stored!BeginCollect \/ Stored!ArchiveFails
            \/ \E i \in DOMAIN row : Stored!Delete(i)
            \/ Stored!BeginExpire \/ Stored!ExpireRow
            \/ \E f \in Files : Stored!Rewrite(f)
  BY <1>1, <1>11 DEF Stored!vars, Stored!BeginCollect, Stored!ArchiveFails, Stored!Delete, Stored!BeginExpire,
                     Stored!ExpireRow, Stored!Rewrite
<1> QED
  BY <1>2, <1>4, <1>5, <1>7, <1>8, <1>9, <1>10, <1>11, <1>12 DEF Stored!Next, Stored!Run

LEMMA JobStillRests ==
    ASSUME Stored!StoredFilesAssumption, Stored!Typed, Stored!JobRests, [Stored!Next]_(Stored!vars)
    PROVE  Stored!JobRests'
<1>0. work \in [Stored!Writers -> Worker] /\ "job" \in Stored!Writers
  BY TypedParts
<1>1. CASE job'.at # "idle"
  BY <1>1 DEF Stored!JobRests
<1>2. CASE Stored!Retain \/ Stored!RunFails \/ Stored!Crash
  <2>1. job' = Stored!NoJob /\ work'["job"] = Stored!Idle
    BY <1>0, <1>2 DEF Stored!Retain, Stored!RunFails, Stored!Crash
  <2> QED
    BY <2>1 DEF Stored!JobRests, Stored!At, Stored!Idle
<1>3. CASE UNCHANGED job /\ work'["job"] = work["job"]
  BY <1>3 DEF Stored!JobRests, Stored!At
<1>4. ASSUME NEW w \in Stored!Writers, Stored!Store(w) PROVE Stored!JobRests'
  <2>1. UNCHANGED job /\ (w = "job" => ~ Stored!At("job", "idle")) /\ (w # "job" => work'["job"] = work["job"])
    BY <1>0, <1>4, StoreDoes DEF StoreEffects, Goes, Stored!At
  <2> QED
    BY <2>1 DEF Stored!JobRests, Stored!At
<1>5. CASE Stored!CollectFile \/ Stored!BeginCollect \/ Stored!BeginArchive
  <2>1. job'.at # "idle"
    BY <1>5 DEF Stored!CollectFile, Stored!BeginCollect, Stored!BeginArchive, Stored!NoJob, Stored!Typed
  <2> QED
    BY <1>1, <2>1
<1>6. CASE Stored!Drop \/ Stored!Prune \/ Stored!PruneFails
  <2>1. UNCHANGED job /\ ~ Stored!At("job", "idle")
    BY <1>6 DEF Stored!Drop, Stored!Prune, Stored!PruneFails, Stored!At
  <2> QED
    BY <2>1 DEF Stored!JobRests, Stored!At
<1>7. CASE \/ UNCHANGED Stored!vars \/ Stored!ArchiveFails
           \/ \E i \in DOMAIN row : Stored!Delete(i)
           \/ Stored!BeginExpire \/ Stored!ExpireFile \/ Stored!ExpireRow
           \/ \E f \in Files : Stored!Rewrite(f)
  BY <1>3, <1>7 DEF Stored!vars, Stored!ArchiveFails, Stored!Delete, Stored!BeginExpire, Stored!ExpireFile,
                     Stored!ExpireRow, Stored!Rewrite
<1>8. ASSUME NEW u \in Uploads, Stored!Upload(u) PROVE Stored!JobRests'
  <2>1. UNCHANGED job
    BY <1>8 DEF Stored!Upload
  <2>2. u # "job"
    BY DEF Stored!StoredFilesAssumption
  <2> QED
    BY <1>0, <1>3, <1>8, <2>1, <2>2 DEF Stored!Upload, Stored!Choose
<1> QED
  BY <1>2, <1>4, <1>5, <1>6, <1>7, <1>8 DEF Stored!Next, Stored!Run

LEMMA StrayStays ==
    ASSUME Stored!StoredFilesAssumption, Stored!StrayInv, [Stored!Next]_(Stored!vars)
    PROVE  Stored!StrayInv'
<1>0. Stored!Typed /\ Stored!ExpiringDeleted /\ Stored!JobRests /\ Stored!RowsApart
  BY DEF Stored!StrayInv
<1>1. Stored!Typed' /\ Stored!ExpiringDeleted' /\ Stored!JobRests' /\ Stored!RowsApart'
  BY <1>0, TypedStays, ExpiringStaysDeleted, JobStillRests, RowsStayApart
<1>2. PlacesEffects
  BY <1>0, PlacesDo
<1>3. ASSUME NEW w \in Stored!Writers, Goes(w, {"record"}, {"stored"}), row' = Append(row, Stored!NewRow(w)),
             UNCHANGED expiring
      PROVE  \E i \in DOMAIN row' : Stored!Kept(i)' /\ i # expiring'.gone /\ row'[i].path = work[w].path
  <2>1. work[w].path \in Stored!Places
    BY <1>0, <1>3 DEF Goes, Stored!Typed, Stored!Busy
  <2>2. /\ DOMAIN row' = DOMAIN row \cup {Len(row) + 1}
        /\ Len(row) + 1 \notin DOMAIN row
        /\ row'[Len(row) + 1].path = work[w].path /\ ~ row'[Len(row) + 1].removed
    BY <1>0, <1>3, <2>1, RowSaved DEF Stored!NewRow
  <2>3. expiring.gone # Len(row) + 1
    <3>1. row \in Seq(StoredRow)
      BY <1>0, TypedParts
    <3> HIDE DEF StoredRow
    <3>2. Len(row) + 1 # 0
      BY <3>1
    <3> QED
      BY <1>0, <2>2, <3>2 DEF Stored!ExpiringDeleted
  <2> QED
    BY <1>3, <2>2, <2>3 DEF Stored!Kept
<1>4. \A i \in DOMAIN row : Stored!Kept(i) /\ i # expiring.gone =>
               \/ i \in DOMAIN row' /\ Stored!Kept(i)' /\ i # expiring'.gone /\ row'[i].path = row[i].path
               \/ disk'[row[i].path] = Stored!Nothing
  BY <1>0, RowsExplain
<1>5. \A w \in Stored!Writers : Stored!Busy(w) =>
               \/ Stored!Busy(w)' /\ work'[w].path = work[w].path
               \/ disk'[work[w].path] = Stored!Nothing
               \/ work[w].path \in left'
               \/ \E i \in DOMAIN row' : Stored!Kept(i)' /\ i # expiring'.gone /\ row'[i].path = work[w].path
  BY <1>2, <1>3 DEF PlacesEffects
<1> QED
  BY <1>1, <1>2, <1>4, <1>5, Explained DEF PlacesEffects

LEMMA StrayStarts == ASSUME Stored!StoredFilesAssumption, Stored!Init PROVE Stored!StrayInv
<1>1. /\ disk = [p \in Stored!Places |-> Stored!Nothing] /\ row = <<>>
      /\ work = [w \in Stored!Writers |-> Stored!Idle] /\ job = Stored!NoJob
      /\ server = [f \in Files |-> [size |-> 1, mtime |-> 1]]
      /\ expiring = Stored!NoExpiry /\ count = [e \in Stored!Events |-> 0]
  BY DEF Stored!Init
<1>2. /\ Stored!Nothing \in Stored!Contents /\ Stored!Idle.at = "idle"
      /\ Stored!Idle \in Worker
  BY DEF Stored!Contents, Stored!Idle, Worker, StoreSteps
<1>3. [size |-> 1, mtime |-> 1] \in Stored!Version
  BY DEF Stored!Version
<1>4. /\ Stored!NoJob \in [at : {"idle", "collect", "archive"}, listed : SUBSET Stored!FileItem,
                          todo : SUBSET Stored!FileItem]
      /\ expiring = [rows |-> expiring.rows, gone |-> expiring.gone]
      /\ expiring.rows = {} /\ expiring.gone = 0
  BY <1>1 DEF Stored!NoJob, Stored!NoExpiry
<1> HIDE DEF Stored!Idle
<1>5. work \in [Stored!Writers -> Worker] /\ \A w \in Stored!Writers : work[w].at = "idle"
  BY <1>1, <1>2
<1>6. row \in Seq(StoredRow)
  BY <1>1
<1>7. Stored!Typed
  BY <1>1, <1>2, <1>3, <1>4, <1>5, <1>6 DEF Stored!Typed, Worker, StoreSteps, StoredRow, Stored!Busy, Stored!At
<1>8. Stored!JobRests /\ Stored!ExpiringDeleted /\ Stored!RowsApart
  BY <1>1, <1>4, <1>5, TypedParts DEF Stored!JobRests, Stored!ExpiringDeleted, Stored!RowsApart, Stored!Kept,
     Stored!At, Stored!Writers
<1>9. Stored!FilesExplained
  BY <1>1 DEF Stored!FilesExplained, Stored!Exists
<1> QED
  BY <1>7, <1>8, <1>9 DEF Stored!StrayInv

\* A file of the store has a row, or a thread that will give it one or remove it, or a crash
\* has left it: whatever fails, whoever chooses the same name, however the expiry goes.
THEOREM NothingStrayAlways ==
    ASSUME Stored!StoredFilesAssumption PROVE Stored!Spec => []Stored!NothingStray
<1>1. Stored!Init => Stored!StrayInv
  BY StrayStarts
<1>2. Stored!StrayInv /\ [Stored!Next]_(Stored!vars) => Stored!StrayInv'
  BY StrayStays
<1>3. Stored!StrayInv => Stored!NothingStray
  <2> SUFFICES ASSUME Stored!StrayInv, NEW p \in Stored!Places, Stored!Exists(p), Stored!PathFree(p), p \notin left
               PROVE  \E w \in Stored!Writers :
                         work[w].path = p /\ work[w].at \notin {"idle", "chosen", "failed", "stored"}
    BY DEF Stored!NothingStray
  <2>1. \A i \in DOMAIN row : ~ (Stored!Kept(i) /\ row[i].path = p)
    BY DEF Stored!PathFree, Stored!Kept
  <2>2. PICK w \in Stored!Writers : Stored!Busy(w) /\ work[w].path = p
    BY <2>1 DEF Stored!StrayInv, Stored!FilesExplained
  <2> QED
    BY <2>2 DEF Stored!Busy
<1> QED
  BY <1>1, <1>2, <1>3, PTL DEF Stored!Spec

\* Every place that no crash haunts belongs to one thread or to one row, whose file is there: a
\* step that fills no place.
LEMMA WholeQuiet ==
    ASSUME Stored!WholeInv, Stored!StrayInv', UNCHANGED disk, haunted \subseteq haunted',
           expiring.gone # 0 /\ expiring.gone \in DOMAIN row =>
              expiring'.gone = expiring.gone \/ row[expiring.gone].path \in haunted',
           \A i \in DOMAIN row : i # 0,
           DOMAIN row' = DOMAIN row,
           \A i \in DOMAIN row : /\ row'[i].path = row[i].path /\ row'[i].holds = row[i].holds
                                 /\ row'[i].removed = row[i].removed,
           \A w \in Stored!Writers : Stored!Busy(w)' =>
              /\ Stored!Busy(w) /\ work'[w].path = work[w].path /\ work'[w].got = work[w].got
              /\ Stored!At(w, "writing") => Stored!At(w, "writing")'
    PROVE  Stored!WholeInv'
<1>1. Stored!OnePerPlace'
  BY DEF Stored!WholeInv, Stored!OnePerPlace
<1>2. Stored!WorkIsThere'
  BY DEF Stored!WholeInv, Stored!WorkIsThere, Stored!Exists
<1>3. Stored!KeptAreThere'
  BY DEF Stored!WholeInv, Stored!KeptAreThere, Stored!Kept, Stored!Exists, Stored!Whole
<1>4. Stored!WorkApart'
  BY DEF Stored!WholeInv, Stored!WorkApart, Stored!Kept
<1> QED
  BY <1>1, <1>2, <1>3, <1>4 DEF Stored!WholeInv

\* ... and one that fills the place of a thread, or frees it.
LEMMA WholeFilled ==
    ASSUME Stored!WholeInv, Stored!StrayInv', NEW w \in Stored!Writers, NEW x,
           disk' = [disk EXCEPT ![work[w].path] = x], UNCHANGED <<row, expiring, haunted>>,
           work[w].path \in Stored!Places,
           Stored!Busy(w) \/ disk[work[w].path] = Stored!Nothing,
           \A v \in Stored!Writers \ {w} : work'[v] = work[v],
           Stored!Busy(w)' => /\ work'[w].path = work[w].path /\ x # Stored!Nothing
                              /\ ~ Stored!At(w, "writing")' => work'[w].got = x
    PROVE  Stored!WholeInv'
<1> DEFINE p == work[w].path
<1>0. /\ disk \in [Stored!Places -> Stored!Contents] /\ row \in Seq(StoredRow)
      /\ \A i \in DOMAIN row : row[i].path \in Stored!Places
      /\ \A v \in Stored!Writers : Stored!Busy(v) => work[v].path \in Stored!Places
      /\ Stored!OnePerPlace /\ Stored!WorkIsThere /\ Stored!KeptAreThere /\ Stored!WorkApart
  <2>1. row \in Seq(StoredRow) /\ disk \in [Stored!Places -> Stored!Contents]
    BY TypedParts DEF Stored!WholeInv, Stored!StrayInv
  <2>2. \A y \in StoredRow : y.path \in Stored!Places
    BY DEF StoredRow
  <2>3. \A v \in Stored!Writers : Stored!Busy(v) => work[v].path \in Stored!Places
    BY DEF Stored!WholeInv, Stored!StrayInv, Stored!Typed
  <2> HIDE DEF StoredRow
  <2> QED
    BY <2>1, <2>2, <2>3 DEF Stored!WholeInv
<1>1. \A v \in Stored!Writers \ {w} : Stored!Busy(v) /\ p \notin haunted => work[v].path # p
  BY <1>0 DEF Stored!OnePerPlace, Stored!WorkIsThere, Stored!Exists
<1>2. \A i \in DOMAIN row : Stored!Kept(i) /\ i # expiring.gone /\ p \notin haunted => row[i].path # p
  BY <1>0 DEF Stored!WorkApart, Stored!KeptAreThere, Stored!Exists
<1>3. \A v \in Stored!Writers \ {w} : Stored!Busy(v)' <=> Stored!Busy(v)
  BY DEF Stored!Busy
<1>4. Stored!OnePerPlace'
  BY <1>0, <1>1, <1>3 DEF Stored!OnePerPlace
<1>5. Stored!WorkIsThere'
  <2> SUFFICES ASSUME NEW v \in Stored!Writers, Stored!Busy(v)', work'[v].path \notin haunted
               PROVE  /\ disk'[work'[v].path] # Stored!Nothing
                      /\ ~ Stored!At(v, "writing")' => disk'[work'[v].path] = work'[v].got
    BY DEF Stored!WorkIsThere, Stored!Exists
  <2>1. CASE v = w
    BY <1>0, <2>1
  <2>2. CASE v # w
    <3>1. Stored!Busy(v) /\ work'[v] = work[v] /\ work[v].path # p /\ work[v].path \in Stored!Places
      BY <1>0, <1>1, <1>3, <2>2
    <3> QED
      BY <1>0, <3>1 DEF Stored!WorkIsThere, Stored!Exists, Stored!At
  <2> QED
    BY <2>1, <2>2
<1>6. Stored!KeptAreThere'
  BY <1>0, <1>2 DEF Stored!KeptAreThere, Stored!Kept, Stored!Exists, Stored!Whole
<1>7. Stored!WorkApart'
  <2> SUFFICES ASSUME NEW v \in Stored!Writers, NEW i \in DOMAIN row, Stored!Busy(v)', Stored!Kept(i),
                      work'[v].path = row[i].path, row[i].path \notin haunted
               PROVE  i = expiring.gone
    BY DEF Stored!WorkApart, Stored!Kept
  <2>1. CASE v = w
    BY <1>2, <2>1
  <2>2. CASE v # w
    BY <1>0, <1>3, <2>2 DEF Stored!WorkApart
  <2> QED
    BY <2>1, <2>2
<1> QED
  BY <1>4, <1>5, <1>6, <1>7 DEF Stored!WholeInv

LEMMA WholeStore ==
    ASSUME Stored!WholeInv, Stored!StrayInv', NEW w \in Stored!Writers, Stored!Store(w)
    PROVE  Stored!WholeInv'
<1>0. /\ Stored!Typed /\ row \in Seq(StoredRow) /\ Stored!Nothing # Stored!Reserved
      /\ work \in [Stored!Writers -> Worker]
  BY TypedParts DEF Stored!WholeInv, Stored!StrayInv
<1>1. /\ UNCHANGED <<expiring, haunted>> /\ \A i \in DOMAIN row : i # 0
      /\ \A v \in Stored!Writers \ {w} : work'[v] = work[v]
      /\ work'[w].path = work[w].path
      /\ work[w].path \in Stored!Places /\ work[w].item \notin {Stored!Nothing, Stored!Reserved}
  <2>1. UNCHANGED haunted
    BY DEF Stored!Store, Stored!Reserve, Stored!Written, Stored!WriteFails, Stored!Record,
           Stored!RecordFails, Stored!Undo
  <2>2. \A i \in DOMAIN row : i # 0
    BY <1>0
  <2> QED
    BY <1>0, <2>1, <2>2, StoreDoes DEF StoreEffects
<1>2. CASE UNCHANGED <<disk, row>> /\ work'[w].got = work[w].got /\ ~ Stored!At(w, "writing")
           /\ (Stored!Busy(w)' => Stored!Busy(w))
  <2>1. \A v \in Stored!Writers : Stored!Busy(v)' =>
              /\ Stored!Busy(v) /\ work'[v].path = work[v].path /\ work'[v].got = work[v].got
              /\ Stored!At(v, "writing") => Stored!At(v, "writing")'
    BY <1>1, <1>2 DEF Stored!Busy, Stored!At
  <2> QED
    BY <1>1, <1>2, <2>1, WholeQuiet
<1>3. CASE /\ Goes(w, {"chosen"}, {"writing"}) /\ disk[work[w].path] = Stored!Nothing
           /\ Fills(w, Stored!Reserved) /\ UNCHANGED row
  BY <1>0, <1>1, <1>3, WholeFilled DEF Goes, Fills, Stored!At
<1>4. CASE /\ Goes(w, {"writing"}, {"prune", "drop", "record"})
           /\ Fills(w, Stored!Content(work[w].item)) /\ work'[w].got = Stored!Content(work[w].item)
           /\ UNCHANGED row
  <2>1. work[w].item \in Stored!Contents
    BY <1>0 DEF Worker
  <2>2. Stored!Content(work[w].item) # Stored!Nothing
    BY <1>0, <1>1, <2>1, ContentIsThere
  <2>3. Stored!Busy(w)
    BY <1>4 DEF Goes, Stored!Busy
  <2> QED
    BY <1>1, <1>4, <2>2, <2>3, WholeFilled DEF Fills
<1>5. CASE Goes(w, {"writing", "undo"}, {"failed"}) /\ Fills(w, Stored!Nothing) /\ UNCHANGED row
  <2>1. Stored!Busy(w) /\ ~ Stored!Busy(w)'
    BY <1>5 DEF Goes, Stored!Busy
  <2> QED
    BY <1>1, <1>5, <2>1, WholeFilled DEF Fills
<1>6. CASE /\ Goes(w, {"record"}, {"stored"}) /\ Stored!PathFree(work[w].path)
           /\ row' = Append(row, Stored!NewRow(w)) /\ UNCHANGED disk
  <2> DEFINE n == Len(row) + 1
  <2>1. /\ DOMAIN row' = DOMAIN row \cup {n}
        /\ \A i \in DOMAIN row : row'[i] = row[i]
        /\ row'[n].path = work[w].path /\ row'[n].holds = work[w].got
    BY <1>0, <1>1, <1>6, RowSaved DEF Stored!NewRow
  <2> HIDE DEF n
  <2>2. /\ Stored!Busy(w) /\ ~ Stored!Busy(w)' /\ ~ Stored!At(w, "writing")
        /\ \A v \in Stored!Writers \ {w} : Stored!Busy(v)' <=> Stored!Busy(v)
    BY <1>1, <1>6 DEF Goes, Stored!Busy, Stored!At
  <2>3. work[w].path \notin haunted =>
            disk[work[w].path] # Stored!Nothing /\ disk[work[w].path] = work[w].got
    BY <2>2 DEF Stored!WholeInv, Stored!WorkIsThere, Stored!Exists
  <2>4. \A v \in Stored!Writers \ {w} :
            Stored!Busy(v) /\ work[v].path \notin haunted => work[v].path # work[w].path
    BY <2>2 DEF Stored!WholeInv, Stored!OnePerPlace
  <2>5. Stored!OnePerPlace'
    BY <1>1, <2>2 DEF Stored!WholeInv, Stored!OnePerPlace
  <2>6. Stored!WorkIsThere'
    BY <1>1, <1>6, <2>2 DEF Stored!WholeInv, Stored!WorkIsThere, Stored!Exists, Stored!At
  <2>7. Stored!KeptAreThere'
    BY <1>1, <1>6, <2>1, <2>3 DEF Stored!WholeInv, Stored!KeptAreThere, Stored!Exists, Stored!Kept, Stored!Whole
  <2>8. Stored!WorkApart'
    BY <1>1, <2>1, <2>2, <2>4 DEF Stored!WholeInv, Stored!WorkApart, Stored!Kept
  <2> QED
    BY <2>5, <2>6, <2>7, <2>8 DEF Stored!WholeInv
<1> QED
  <2>1. StoreEffects(w)
    BY <1>0, StoreDoes
  <2>2. Goes(w, {"chosen"}, {"failed"}) \/ Goes(w, {"record"}, {"undo"}) =>
            ~ Stored!At(w, "writing") /\ (Stored!Busy(w)' => Stored!Busy(w))
    BY DEF Goes, Stored!At, Stored!Busy
  <2> QED
    BY <1>2, <1>3, <1>4, <1>5, <1>6, <2>1, <2>2 DEF StoreEffects

\* A crash between the two steps of the expiry haunts the place of the file that is gone.
LEMMA WholeStays ==
    ASSUME Stored!StoredFilesAssumption, Stored!WholeInv, [Stored!Next]_(Stored!vars)
    PROVE  Stored!WholeInv'
<1>0. /\ Stored!Typed /\ Stored!ExpiringDeleted /\ Stored!JobRests /\ Stored!RowsApart
      /\ Stored!StrayInv' /\ Stored!WholeInv
      /\ "job" \in Stored!Writers /\ work \in [Stored!Writers -> Worker]
      /\ disk \in [Stored!Places -> Stored!Contents]
  BY StrayStays, TypedParts DEF Stored!WholeInv, Stored!StrayInv
<1>1. /\ row \in Seq(StoredRow) /\ \A i \in DOMAIN row : row[i] \in StoredRow /\ i # 0
      /\ \A i \in DOMAIN row : row[i].path \in Stored!Places
  <2>1. row \in Seq(StoredRow)
    BY <1>0, TypedParts
  <2>2. \A x \in StoredRow : x.path \in Stored!Places
    BY DEF StoredRow
  <2> HIDE DEF StoredRow
  <2> QED
    BY <2>1, <2>2
<1>2. ASSUME NEW w \in Stored!Writers, Stored!Store(w) PROVE Stored!WholeInv'
  BY <1>0, <1>2, WholeStore
<1>3. ASSUME NEW w \in Stored!Writers, UNCHANGED <<disk, haunted>>, expiring'.gone = expiring.gone,
             \/ UNCHANGED row
             \/ Stored!Retain \/ \E i \in DOMAIN row : Stored!Delete(i),
             \A v \in Stored!Writers \ {w} : work'[v] = work[v],
             Stored!Busy(w)' => /\ Stored!Busy(w) /\ work'[w].path = work[w].path
                                /\ work'[w].got = work[w].got
                                /\ Stored!At(w, "writing") => Stored!At(w, "writing")'
      PROVE  Stored!WholeInv'
  <2>1. \A v \in Stored!Writers : Stored!Busy(v)' =>
              /\ Stored!Busy(v) /\ work'[v].path = work[v].path /\ work'[v].got = work[v].got
              /\ Stored!At(v, "writing") => Stored!At(v, "writing")'
    BY <1>3 DEF Stored!Busy, Stored!At
  <2>2. /\ DOMAIN row' = DOMAIN row
        /\ \A i \in DOMAIN row : /\ row'[i].path = row[i].path /\ row'[i].holds = row[i].holds
                                 /\ row'[i].removed = row[i].removed
    <3>1. CASE UNCHANGED row
      BY <3>1
    <3>2. \A x \in StoredRow : /\ [x EXCEPT !.deleted = TRUE].path = x.path
                               /\ [x EXCEPT !.deleted = TRUE].holds = x.holds
                               /\ [x EXCEPT !.deleted = TRUE].removed = x.removed
      BY DEF StoredRow
    <3>3. ASSUME NEW S, DOMAIN row' = DOMAIN row,
                 \A i \in DOMAIN row : row'[i] = IF i \in S THEN [row[i] EXCEPT !.deleted = TRUE] ELSE row[i]
          PROVE  \A i \in DOMAIN row : /\ row'[i].path = row[i].path /\ row'[i].holds = row[i].holds
                                       /\ row'[i].removed = row[i].removed
      BY <1>1, <3>2, <3>3
    <3>4. CASE Stored!Retain
      <4>1. PICK S : row' = [i \in DOMAIN row |-> IF i \in S THEN [row[i] EXCEPT !.deleted = TRUE] ELSE row[i]]
        BY <3>4 DEF Stored!Retain
      <4> QED
        BY <3>3, <4>1
    <3>5. ASSUME NEW i \in DOMAIN row, Stored!Delete(i)
          PROVE  /\ DOMAIN row' = DOMAIN row
                 /\ \A k \in DOMAIN row : /\ row'[k].path = row[k].path /\ row'[k].holds = row[k].holds
                                          /\ row'[k].removed = row[k].removed
      <4>1. row' = [row EXCEPT ![i] = [row[i] EXCEPT !.deleted = TRUE]]
        BY <3>5 DEF Stored!Delete
      <4>2. DOMAIN row' = DOMAIN row /\ \A k \in DOMAIN row :
                row'[k] = IF k \in {i} THEN [row[k] EXCEPT !.deleted = TRUE] ELSE row[k]
        BY <1>1, <4>1
      <4> QED
        BY <3>3, <4>2
    <3> QED
      BY <1>3, <3>1, <3>4, <3>5
  <2> QED
    BY <1>0, <1>1, <1>3, <2>1, <2>2, WholeQuiet
<1>4. ASSUME UNCHANGED <<disk, row, work, haunted>>, expiring'.gone = expiring.gone PROVE Stored!WholeInv'
  <2>1. \A v \in Stored!Writers : Stored!Busy(v)' =>
              /\ Stored!Busy(v) /\ work'[v].path = work[v].path /\ work'[v].got = work[v].got
              /\ Stored!At(v, "writing") => Stored!At(v, "writing")'
    BY <1>4 DEF Stored!Busy, Stored!At
  <2> QED
    BY <1>0, <1>1, <1>4, <2>1, WholeQuiet
<1>5. CASE Stored!Drop
  <2>1. /\ Stored!Busy("job") /\ disk' = [disk EXCEPT ![work["job"].path] = Stored!Nothing]
        /\ UNCHANGED <<row, expiring, haunted>> /\ Stored!Goto("job", "stored")
    BY <1>5 DEF Stored!Drop, Stored!Fill, Stored!Busy, Stored!At
  <2>2. work["job"].path \in Stored!Places
    BY <1>0, <2>1 DEF Stored!Typed
  <2>3. (\A v \in Stored!Writers \ {"job"} : work'[v] = work[v]) /\ ~ Stored!Busy("job")'
    BY <1>0, <2>1, Moved DEF StoreSteps, Stored!Busy
  <2> QED
    BY <1>0, <2>1, <2>2, <2>3, WholeFilled
<1>6. CASE Stored!Prune \/ Stored!PruneFails
  <2>1. PICK s \in {"record", "undo"} : Stored!Goto("job", s)
    BY <1>6 DEF Stored!Prune, Stored!PruneFails
  <2>2. UNCHANGED <<disk, row, expiring, haunted>> /\ work["job"].at = "prune"
    BY <1>6 DEF Stored!Prune, Stored!PruneFails, Stored!At
  <2>3. /\ \A v \in Stored!Writers \ {"job"} : work'[v] = work[v]
        /\ work'["job"].path = work["job"].path /\ work'["job"].got = work["job"].got
    BY <1>0, <2>1, Moved DEF StoreSteps
  <2>4. Stored!Busy("job") /\ ~ Stored!At("job", "writing")
    BY <2>2 DEF Stored!Busy, Stored!At
  <2> QED
    BY <1>0, <1>3, <2>2, <2>3, <2>4
<1>7. ASSUME NEW w \in Stored!Writers, NEW name, NEW item, Stored!Choose(w, name, item),
             UNCHANGED <<disk, row, expiring, haunted>>
      PROVE  Stored!WholeInv'
  <2>1. (\A v \in Stored!Writers \ {w} : work'[v] = work[v]) /\ work'[w].at = "chosen"
    BY <1>0, <1>7 DEF Stored!Choose
  <2>2. ~ Stored!Busy(w)'
    BY <2>1 DEF Stored!Busy
  <2> QED
    BY <1>3, <1>7, <2>1, <2>2
<1>8. CASE Stored!CollectFile \/ Stored!BeginArchive
  <2>1. (\E name, item : Stored!Choose("job", name, item)) /\ UNCHANGED <<disk, row, expiring, haunted>>
    BY <1>8 DEF Stored!CollectFile, Stored!BeginArchive
  <2> QED
    BY <1>0, <1>7, <2>1
<1>9. ASSUME NEW u \in Uploads, Stored!Upload(u) PROVE Stored!WholeInv'
  <2>1. /\ Stored!Choose(u, 0, <<"upload", u>>) /\ UNCHANGED <<disk, row, expiring, haunted>> /\ u \in Stored!Writers
    BY <1>9 DEF Stored!Upload, Stored!Writers
  <2> QED
    BY <1>7, <2>1
<1>10. CASE Stored!Retain \/ Stored!RunFails
  <2>1. /\ UNCHANGED <<disk, expiring, haunted>> /\ work' = [work EXCEPT !["job"] = Stored!Idle]
        /\ UNCHANGED row \/ Stored!Retain
    BY <1>10 DEF Stored!Retain, Stored!RunFails
  <2>2. (\A v \in Stored!Writers \ {"job"} : work'[v] = work[v]) /\ ~ Stored!Busy("job")'
    BY <1>0, <2>1 DEF Stored!Busy, Stored!Idle
  <2> QED
    BY <1>0, <1>3, <2>1, <2>2
<1>11. ASSUME NEW i \in DOMAIN row, Stored!Delete(i) PROVE Stored!WholeInv'
  <2>1. UNCHANGED <<disk, work, expiring, haunted>>
    BY <1>11 DEF Stored!Delete
  <2>2. Stored!Busy("job")' => /\ Stored!Busy("job") /\ work'["job"].path = work["job"].path
                               /\ work'["job"].got = work["job"].got
                               /\ Stored!At("job", "writing") => Stored!At("job", "writing")'
    BY <2>1 DEF Stored!Busy, Stored!At
  <2>3. \A v \in Stored!Writers \ {"job"} : work'[v] = work[v]
    BY <2>1
  <2> QED
    BY <1>0, <1>3, <1>11, <2>1, <2>2, <2>3
<1>12. CASE Stored!Crash
  <2>1. /\ UNCHANGED <<disk, row>> /\ expiring'.gone = 0
        /\ \A w \in Stored!Writers : work'[w].at \in {"idle", "failed"}
    BY <1>12 DEF Stored!Crash, Stored!NoExpiry, Stored!Idle
  <2>2. /\ haunted \subseteq haunted'
        /\ expiring.gone # 0 => row[expiring.gone].path \in haunted'
    BY <1>12 DEF Stored!Crash
  <2>3. \A w \in Stored!Writers : ~ Stored!Busy(w)'
    BY <2>1 DEF Stored!Busy
  <2> QED
    BY <1>0, <1>1, <2>1, <2>2, <2>3, WholeQuiet
<1>13. CASE \/ UNCHANGED Stored!vars \/ Stored!BeginCollect \/ Stored!ArchiveFails \/ Stored!BeginExpire
            \/ \E f \in Files : Stored!Rewrite(f)
  <2>1. UNCHANGED <<disk, row, work, haunted>> /\ expiring'.gone = expiring.gone
    BY <1>13 DEF Stored!vars, Stored!BeginCollect, Stored!ArchiveFails, Stored!BeginExpire, Stored!Rewrite,
                 Stored!NoExpiry
  <2> QED
    BY <1>4, <2>1
<1>14. CASE Stored!ExpireFile
  <2>1. PICK i \in expiring.rows : /\ disk' = [disk EXCEPT ![row[i].path] = Stored!Nothing]
                                   /\ expiring' = [expiring EXCEPT !.gone = i]
    BY <1>14 DEF Stored!ExpireFile, Stored!Fill
  <2>2. /\ UNCHANGED <<row, work, haunted>> /\ expiring.gone = 0 /\ expiring = [rows |-> expiring.rows, gone |-> expiring.gone]
        /\ i \in DOMAIN row /\ i # 0 /\ ~ row[i].removed
    BY <1>0, <1>1, <1>14, <2>1 DEF Stored!ExpireFile, Stored!ExpiringDeleted, Stored!Typed
  <2>3. expiring'.gone = i
    BY <2>1, <2>2
  <2>4. \A p \in Stored!Places : p # row[i].path => disk'[p] = disk[p]
    BY <1>0, <2>1
  <2>5. \A w \in Stored!Writers : Stored!Busy(w) /\ work[w].path \notin haunted =>
            work[w].path # row[i].path /\ work[w].path \in Stored!Places
    BY <1>0, <2>2 DEF Stored!WholeInv, Stored!WorkApart, Stored!Kept, Stored!Typed
  <2>6. \A k \in DOMAIN row : Stored!Kept(k) /\ k # i => row[k].path # row[i].path
    BY <1>0, <2>2 DEF Stored!RowsApart, Stored!Kept
  <2>7. Stored!OnePerPlace'
    BY <1>0, <2>2 DEF Stored!WholeInv, Stored!OnePerPlace, Stored!Busy
  <2>8. Stored!WorkIsThere'
    BY <1>0, <2>2, <2>4, <2>5 DEF Stored!WholeInv, Stored!WorkIsThere, Stored!Busy, Stored!Exists, Stored!At
  <2>9. Stored!KeptAreThere'
    BY <1>0, <1>1, <2>2, <2>3, <2>4, <2>6
       DEF Stored!WholeInv, Stored!KeptAreThere, Stored!Kept, Stored!Exists, Stored!Whole
  <2>10. Stored!WorkApart'
    BY <1>0, <1>1, <2>2, <2>3, <2>5 DEF Stored!WholeInv, Stored!WorkApart, Stored!Kept, Stored!Busy
  <2> QED
    BY <1>0, <2>7, <2>8, <2>9, <2>10 DEF Stored!WholeInv
<1>15. CASE Stored!ExpireRow
  <2> DEFINE g == expiring.gone
  <2>1. /\ UNCHANGED <<disk, work, haunted>> /\ g # 0 /\ expiring'.gone = 0
        /\ row' = [row EXCEPT ![g].removed = TRUE]
    BY <1>15 DEF Stored!ExpireRow
  <2>2. g \in DOMAIN row
    BY <1>0, <2>1 DEF Stored!ExpiringDeleted
  <2>3. /\ DOMAIN row' = DOMAIN row /\ row'[g].removed
        /\ \A k \in DOMAIN row : /\ row'[k].path = row[k].path /\ row'[k].holds = row[k].holds
                                 /\ k # g => row'[k] = row[k]
    <3>1. \A x \in StoredRow : /\ [x EXCEPT !.removed = TRUE].path = x.path
                               /\ [x EXCEPT !.removed = TRUE].holds = x.holds
                               /\ [x EXCEPT !.removed = TRUE].removed
      BY DEF StoredRow
    <3>2. DOMAIN row' = DOMAIN row /\ \A k \in DOMAIN row :
              row'[k] = IF k = g THEN [row[k] EXCEPT !.removed = TRUE] ELSE row[k]
      BY <1>1, <2>1, <2>2
    <3> HIDE DEF g
    <3> QED
      BY <1>1, <2>2, <3>1, <3>2
  <2>4. \A k \in DOMAIN row : Stored!Kept(k)' => Stored!Kept(k) /\ k # g
    BY <2>3 DEF Stored!Kept
  <2>5. Stored!OnePerPlace' /\ Stored!WorkIsThere'
    BY <1>0, <2>1 DEF Stored!WholeInv, Stored!OnePerPlace, Stored!WorkIsThere, Stored!Busy, Stored!Exists, Stored!At
  <2>6. Stored!KeptAreThere'
    BY <1>0, <2>1, <2>3, <2>4 DEF Stored!WholeInv, Stored!KeptAreThere, Stored!Exists, Stored!Whole
  <2>7. Stored!WorkApart'
    BY <1>0, <2>1, <2>3, <2>4 DEF Stored!WholeInv, Stored!WorkApart, Stored!Busy
  <2> QED
    BY <1>0, <2>5, <2>6, <2>7 DEF Stored!WholeInv
<1> QED
  BY <1>2, <1>5, <1>6, <1>8, <1>9, <1>10, <1>11, <1>12, <1>13, <1>14, <1>15 DEF Stored!Next, Stored!Run

\* What the invariant says of a backup that is not deleted.
LEMMA WholeIsWhole ==
    ASSUME Stored!WholeInv
    PROVE  Stored!StoredIsWhole
<1> SUFFICES ASSUME NEW i \in DOMAIN row, ~ row[i].deleted, row[i].path \notin haunted
             PROVE  Stored!Whole(i)
  BY DEF Stored!StoredIsWhole, Stored!Alive
<1>1. ~ row[i].removed /\ (expiring.gone # 0 => i # expiring.gone)
  BY DEF Stored!WholeInv, Stored!StrayInv, Stored!ExpiringDeleted
<1>2. row \in Seq(StoredRow)
  BY TypedParts DEF Stored!WholeInv, Stored!StrayInv
<1>3. i # 0
  BY <1>2
<1> QED
  BY <1>1, <1>3 DEF Stored!WholeInv, Stored!KeptAreThere, Stored!Kept

LEMMA WholeStarts ==
    ASSUME Stored!StoredFilesAssumption, Stored!Init
    PROVE  Stored!WholeInv
<1>1. Stored!StrayInv
  BY StrayStarts
<1>2. /\ \A w \in Stored!Writers : ~ Stored!Busy(w)
      /\ DOMAIN row = {}
  BY DEF Stored!Init, Stored!Busy, Stored!Idle
<1> QED
  BY <1>1, <1>2 DEF Stored!WholeInv, Stored!OnePerPlace, Stored!WorkIsThere, Stored!KeptAreThere, Stored!WorkApart

\* A backup that is not deleted has its file as it was recorded, for any uploads, plans,
\* faults, deletions, expiries and crashes, but under a name that is haunted: where the
\* manager died between the unlinking of an expired file and the saving of its row, the next
\* expiry unlinks whatever has taken that name since. No other name is ever lost.
THEOREM StoredIsWholeAlways ==
    ASSUME Stored!StoredFilesAssumption PROVE Stored!Spec => []Stored!StoredIsWhole
<1>1. Stored!Init => Stored!WholeInv
  BY WholeStarts
<1>2. Stored!WholeInv /\ [Stored!Next]_(Stored!vars) => Stored!WholeInv'
  BY WholeStays
<1>3. Stored!WholeInv => Stored!StoredIsWhole
  BY WholeIsWhole
<1> QED
  BY <1>1, <1>2, <1>3, PTL DEF Stored!Spec

-----------------------------------------------------------------------------
(* What a run of the plan collects. *)

\* A version stays, or a newer one is written.
LEMMA VersionsDo ==
    ASSUME Stored!StoredFilesAssumption, Stored!Typed, [Stored!Next]_(Stored!vars),
           NEW x \in Stored!FileItem
    PROVE  /\ Stored!Old(x) => x[3].mtime < server'[x[2]].mtime
           /\ Stored!Old(x) \/ Stored!Current(x) => x[3].mtime < server'[x[2]].mtime \/ x[3] = server'[x[2]]
<1>1. x[2] \in Files /\ x[3] \in Stored!Version /\ server \in [Files -> Stored!Version]
  BY DEF Stored!FileItem, Stored!Typed
<1>2. CASE UNCHANGED server
  BY <1>2 DEF Stored!Old, Stored!Current
<1>3. ASSUME NEW f \in Files, Stored!Rewrite(f)
      PROVE  /\ Stored!Old(x) => x[3].mtime < server'[x[2]].mtime
             /\ Stored!Old(x) \/ Stored!Current(x) => x[3].mtime < server'[x[2]].mtime \/ x[3] = server'[x[2]]
  <2>1. PICK size \in 1 .. 2 : server' = [server EXCEPT ![f] = [size |-> size, mtime |-> server[f].mtime + 1]]
    BY <1>3 DEF Stored!Rewrite
  <2>2. CASE x[2] = f
    <3>1. server'[x[2]].mtime = server[f].mtime + 1 /\ server[f].mtime \in Nat /\ x[3].mtime \in Nat
      BY <1>1, <2>1, <2>2 DEF Stored!Version
    <3> QED
      BY <2>2, <3>1 DEF Stored!Old, Stored!Current
  <2>3. CASE x[2] # f
    BY <1>1, <2>1, <2>3 DEF Stored!Old, Stored!Current
  <2> QED
    BY <2>2, <2>3
<1>4. UNCHANGED server \/ \E f \in Files : Stored!Rewrite(f)
  <2>1. ASSUME NEW w \in Stored!Writers, Stored!Store(w) PROVE UNCHANGED server
    BY <2>1, StoreDoes DEF StoreEffects
  <2>2. CASE Stored!Run
    BY <2>2 DEF Stored!Run, Stored!BeginCollect, Stored!CollectFile, Stored!Drop, Stored!BeginArchive,
                Stored!ArchiveFails, Stored!Prune, Stored!PruneFails, Stored!Retain, Stored!RunFails
  <2>3. CASE \/ UNCHANGED Stored!vars \/ \E u \in Uploads : Stored!Upload(u)
             \/ \E i \in DOMAIN row : Stored!Delete(i)
             \/ Stored!BeginExpire \/ Stored!ExpireFile \/ Stored!ExpireRow \/ Stored!Crash
    BY <2>3 DEF Stored!vars, Stored!Upload, Stored!Delete, Stored!BeginExpire, Stored!ExpireFile, Stored!ExpireRow,
                Stored!Crash
  <2> QED
    BY <2>1, <2>2, <2>3 DEF Stored!Next
<1> QED
  BY <1>2, <1>3, <1>4

\* A row of the server's files comes from the plan's thread, when it has recorded one.
Recorded == work["job"].at = "record" /\ work'["job"].at = "stored" /\ work["job"].item[1] = "file"
LEMMA SeenDoes ==
    ASSUME Stored!StoredFilesAssumption, Stored!Typed, Stored!ExpiringDeleted, Stored!ItemsFit,
           [Stored!Next]_(Stored!vars)
    PROVE  /\ \A i \in Stored!RowsOf("file") :
                 i \in Stored!RowsOf("file")' /\ row'[i].of = row[i].of /\ row'[i].holds = row[i].holds
           /\ \A i \in Stored!RowsOf("file")' \ Stored!RowsOf("file") :
                 /\ Recorded /\ row'[i].of = work["job"].item /\ row'[i].holds = work["job"].got
                 /\ Stored!Seen' = Stored!Seen \cup {work["job"].item}
           /\ \A i, k \in Stored!RowsOf("file")' \ Stored!RowsOf("file") : i = k
           /\ Stored!Seen \subseteq Stored!Seen'
           /\ Stored!Seen' = Stored!Seen \/ (Recorded /\ Stored!Seen' = Stored!Seen \cup {work["job"].item})
<1>1. /\ \A i \in DOMAIN row : i \in DOMAIN row' /\ row'[i].holds = row[i].holds /\ row'[i].of = row[i].of
      /\ \A i \in DOMAIN row' \ DOMAIN row : \E w \in Stored!Writers :
            Goes(w, {"record"}, {"stored"}) /\ row'[i] = Stored!NewRow(w)
      /\ \A i, k \in DOMAIN row' \ DOMAIN row : i = k
  BY RowsKeep
<1>2. \A i \in Stored!RowsOf("file") :
         i \in Stored!RowsOf("file")' /\ row'[i].of = row[i].of /\ row'[i].holds = row[i].holds
  BY <1>1 DEF Stored!RowsOf
<1>3. \A i \in Stored!RowsOf("file")' \ Stored!RowsOf("file") :
         Recorded /\ row'[i].of = work["job"].item /\ row'[i].holds = work["job"].got
  <2> SUFFICES ASSUME NEW i \in DOMAIN row', row'[i].of[1] = "file", i \notin Stored!RowsOf("file")
               PROVE  Recorded /\ row'[i].of = work["job"].item /\ row'[i].holds = work["job"].got
    BY DEF Stored!RowsOf
  <2>1. i \notin DOMAIN row
    BY <1>1 DEF Stored!RowsOf
  <2>2. PICK w \in Stored!Writers : Goes(w, {"record"}, {"stored"}) /\ row'[i] = Stored!NewRow(w)
    BY <1>1, <2>1
  <2>3. row'[i].of = work[w].item /\ row'[i].holds = work[w].got
    BY <2>2 DEF Stored!NewRow
  <2>4. w = "job"
    BY <2>3 DEF Stored!ItemsFit, Stored!Writers
  <2> QED
    BY <2>2, <2>3, <2>4 DEF Recorded, Goes
<1>4. \A i, k \in Stored!RowsOf("file")' \ Stored!RowsOf("file") : i = k
  BY <1>1 DEF Stored!RowsOf
<1>5. Stored!Seen \subseteq Stored!Seen'
  BY <1>2 DEF Stored!Seen
<1>6. CASE Stored!RowsOf("file")' \subseteq Stored!RowsOf("file")
  BY <1>2, <1>4, <1>5, <1>6 DEF Stored!Seen
<1>7. ASSUME NEW n \in Stored!RowsOf("file")' \ Stored!RowsOf("file")
      PROVE  Stored!Seen' = Stored!Seen \cup {work["job"].item}
  <2>1. \A i \in Stored!RowsOf("file")' : i \in Stored!RowsOf("file") \/ i = n
    BY <1>4, <1>7
  <2> QED
    BY <1>2, <1>3, <2>1 DEF Stored!Seen
<1> QED
  BY <1>2, <1>3, <1>4, <1>5, <1>6, <1>7

\* What the rows of the server's files hold.
RowsAge == \A i \in Stored!RowsOf("file") : Stored!Old(row[i].of) \/ row[i].holds = row[i].of
LEMMA FileRowsKeep ==
    ASSUME Stored!StoredFilesAssumption, Stored!CollectInv, [Stored!Next]_(Stored!vars)
    PROVE  Stored!CollectedOnce' /\ RowsAge'
<1> DEFINE R == Stored!RowsOf("file")
<1>0. /\ Stored!Typed /\ Stored!ExpiringDeleted /\ Stored!ItemsFit /\ Stored!ToCollectIsNew
      /\ Stored!CollectedOnce /\ Stored!VersionsAge /\ RowsAge
  BY DEF Stored!CollectInv, Stored!VersionsAge, RowsAge
<1>1. /\ \A i \in R : i \in R' /\ row'[i].of = row[i].of /\ row'[i].holds = row[i].holds
      /\ \A i \in R' \ R :
            Recorded /\ row'[i].of = work["job"].item /\ row'[i].holds = work["job"].got
      /\ \A i, k \in R' \ R : i = k
  BY <1>0, SeenDoes
<1>2. \A i \in R : row[i].of \in Stored!FileItem /\ row[i].of \in Stored!Seen
  <2>1. \A i \in DOMAIN row : row[i].of \in Stored!Contents
    <3>1. row \in Seq(StoredRow)
      BY <1>0, TypedParts
    <3>2. \A x \in StoredRow : x.of \in Stored!Contents
      BY DEF StoredRow
    <3> HIDE DEF StoredRow
    <3> QED
      BY <3>1, <3>2
  <2> QED
    BY <2>1 DEF Stored!RowsOf, Stored!Seen, Stored!Contents, Stored!FileItem, Stored!Nothing, Stored!Reserved
<1>3. Recorded => /\ work["job"].item \in Stored!FileItem /\ work["job"].item \notin Stored!Seen
                  /\ Stored!Old(work["job"].item) \/ work["job"].got = work["job"].item
  <2> SUFFICES ASSUME Recorded
               PROVE  /\ work["job"].item \in Stored!FileItem /\ work["job"].item \notin Stored!Seen
                      /\ Stored!Old(work["job"].item) \/ work["job"].got = work["job"].item
    OBVIOUS
  <2>1. work["job"].item \in Stored!Contents
    BY <1>0, TypedParts DEF Worker
  <2>2. work["job"].item \in Stored!FileItem
    BY <2>1 DEF Recorded, Stored!Contents, Stored!FileItem, Stored!Nothing, Stored!Reserved
  <2>3. Stored!Working /\ Stored!At("job", "record")
    BY DEF Recorded, Stored!Working, Stored!Busy, Stored!At
  <2> QED
    BY <1>0, <2>2, <2>3 DEF Stored!ToCollectIsNew, Stored!VersionsAge
<1>4. \A x \in Stored!FileItem : Stored!Old(x) => x[3].mtime < server'[x[2]].mtime
  BY <1>0, VersionsDo
<1> HIDE DEF R
<1>5. \A i, k \in R' : row'[i].of = row'[k].of => i = k
  <2>1. \A i, k \in R : row[i].of = row[k].of => i = k
    BY <1>0 DEF Stored!CollectedOnce, R
  <2> QED
    BY <1>1, <1>2, <1>3, <2>1
<1>6. \A i \in R' : row'[i].of[3].mtime < server'[row'[i].of[2]].mtime \/ row'[i].holds = row'[i].of
  <2>1. ASSUME NEW i \in R
        PROVE  row'[i].of[3].mtime < server'[row'[i].of[2]].mtime \/ row'[i].holds = row'[i].of
    <3>1. Stored!Old(row[i].of) \/ row[i].holds = row[i].of
      BY <1>0 DEF RowsAge, R
    <3> QED
      BY <1>1, <1>2, <1>4, <3>1
  <2>2. ASSUME NEW i \in R' \ R
        PROVE  row'[i].of[3].mtime < server'[row'[i].of[2]].mtime \/ row'[i].holds = row'[i].of
    BY <1>1, <1>3, <1>4, <2>2
  <2> QED
    BY <2>1, <2>2
<1> QED
  BY <1>5, <1>6 DEF Stored!CollectedOnce, RowsAge, Stored!Old, R

\* What the plan's thread has to keep when it, its job or the versions change.
Fresh(x) == x[3].mtime < server'[x[2]].mtime \/ x[3] = server'[x[2]]
LEMMA CollectKept ==
    ASSUME Stored!StoredFilesAssumption, Stored!CollectInv, [Stored!Next]_(Stored!vars),
           Stored!ItemsFit',
           job'.todo \cap Stored!Seen' = {},
           \A x \in job'.listed \cup job'.todo : Fresh(x),
           work'["job"].at \in {"chosen", "writing", "prune", "drop", "record", "undo"} /\
               work'["job"].item \in Stored!FileItem =>
                   work'["job"].item \notin Stored!Seen' \cup job'.todo /\ Fresh(work'["job"].item),
           work'["job"].at = "drop" =>
               work'["job"].item[3].mtime < server'[work'["job"].item[2]].mtime,
           work'["job"].at = "record" /\ work'["job"].item \in Stored!FileItem =>
               \/ work'["job"].item[3].mtime < server'[work'["job"].item[2]].mtime
               \/ work'["job"].got = work'["job"].item,
           \A x \in job'.listed :
               \/ x \in job'.todo \cup Stored!Seen' \/ x[3].mtime < server'[x[2]].mtime
               \/ work'["job"].item = x /\ work'["job"].at \notin {"idle", "stored"}
    PROVE  Stored!CollectInv'
<1>1. Stored!CollectedOnce' /\ RowsAge'
  BY FileRowsKeep
<1>2. Stored!Typed' /\ Stored!JobRests' /\ Stored!ExpiringDeleted'
  BY TypedStays, JobStillRests, ExpiringStaysDeleted DEF Stored!CollectInv
<1>3. Stored!ToCollectIsNew'
  BY DEF Stored!ToCollectIsNew, Stored!Working, Stored!Busy, Stored!At, Stored!FileItem, Stored!Version
<1>4. Stored!VersionsAge'
  BY <1>1 DEF Stored!VersionsAge, RowsAge, Stored!Working, Stored!Busy, Stored!At, Stored!Old, Stored!Current, Fresh,
              Stored!FileItem, Stored!Version
<1>5. Stored!ListedIsGoing'
  BY DEF Stored!ListedIsGoing, Stored!Old
<1> QED
  BY <1>1, <1>2, <1>3, <1>4, <1>5 DEF Stored!CollectInv

LEMMA CollectStays ==
    ASSUME Stored!StoredFilesAssumption, Stored!CollectInv, [Stored!Next]_(Stored!vars)
    PROVE  Stored!CollectInv'
<1> DEFINE J == work["job"]
           FI == Stored!FileItem
<1>0. /\ Stored!Typed /\ Stored!JobRests /\ Stored!ExpiringDeleted /\ Stored!ItemsFit /\ Stored!ToCollectIsNew
      /\ Stored!CollectedOnce /\ Stored!VersionsAge /\ Stored!ListedIsGoing
      /\ "job" \in Stored!Writers /\ work \in [Stored!Writers -> Worker] /\ work' \in [Stored!Writers -> Worker]
      /\ \A u \in Uploads : u \in Stored!Writers /\ u # "job"
  <2>1. Stored!Typed'
    BY TypedStays DEF Stored!CollectInv
  <2>2. work' \in [Stored!Writers -> Worker]
    BY <2>1 DEF Stored!Typed, Worker, StoreSteps, Stored!Writers
  <2> QED
    BY <2>2, TypedParts DEF Stored!CollectInv, Stored!Writers, Stored!StoredFilesAssumption
<1>1. /\ Stored!Seen \subseteq Stored!Seen'
      /\ Stored!Seen' = Stored!Seen \/ (Recorded /\ Stored!Seen' = Stored!Seen \cup {J.item})
  BY <1>0, SeenDoes
<1>2. \A x \in FI : /\ Stored!Old(x) => x[3].mtime < server'[x[2]].mtime
                    /\ Stored!Old(x) \/ Stored!Current(x) => Fresh(x)
  BY <1>0, VersionsDo DEF Fresh
<1>3. /\ job.listed \subseteq FI /\ job.todo \subseteq FI
      /\ \A x \in job.listed \cup job.todo : Fresh(x)
      /\ \A x \in job.listed : x[3].mtime < server[x[2]].mtime => x[3].mtime < server'[x[2]].mtime
  <2>1. job.listed \subseteq FI /\ job.todo \subseteq FI
    BY <1>0 DEF Stored!Typed
  <2> QED
    BY <1>0, <1>2, <2>1 DEF Stored!VersionsAge, Stored!Old
<1>4. J.item[1] = "file" => J.item \in FI
  <2>1. J.item \in Stored!Contents
    BY <1>0 DEF Worker
  <2> QED
    BY <2>1 DEF Stored!Contents, Stored!FileItem, Stored!Nothing, Stored!Reserved
<1>5. /\ J.at \in {"chosen", "writing", "prune", "drop", "record", "undo"} /\ J.item \in FI =>
            J.item \notin Stored!Seen \cup job.todo /\ Fresh(J.item)
      /\ J.at = "drop" => J.item \in FI /\ J.item[3].mtime < server'[J.item[2]].mtime
      /\ J.at = "record" /\ J.item \in FI => J.item[3].mtime < server'[J.item[2]].mtime \/ J.got = J.item
  <2>1. Stored!Working <=> J.at \in {"chosen", "writing", "prune", "drop", "record", "undo"}
    BY DEF Stored!Working, Stored!Busy, Stored!At
  <2>2. J.at = "drop" => J.item \in FI
    BY <1>0, <1>4 DEF Stored!ItemsFit, Stored!At
  <2> QED
    BY <1>0, <1>2, <2>1, <2>2 DEF Stored!ToCollectIsNew, Stored!VersionsAge, Stored!At
<1>6. \A x \in job.listed :
         \/ x \in job.todo \cup Stored!Seen' \/ x[3].mtime < server'[x[2]].mtime
         \/ J.item = x /\ J.at \notin {"idle", "stored"}
  BY <1>0, <1>1, <1>3 DEF Stored!ListedIsGoing, Stored!Old
<1>7. \A x \in FI : x[1] = "file"
  BY DEF Stored!FileItem
<1> HIDE DEF J, FI
\* The job and its thread stay.
<1>8. ASSUME UNCHANGED job, work'["job"] = work["job"], \A u \in Uploads : work'[u].item[1] # "file"
      PROVE  Stored!CollectInv'
  <2>1. Stored!Seen' = Stored!Seen
    BY <1>1, <1>8 DEF Recorded
  <2>2. Stored!ItemsFit'
    BY <1>0, <1>8 DEF Stored!ItemsFit, Stored!At
  <2>3. job'.todo \cap Stored!Seen' = {}
    BY <1>0, <1>8, <2>1 DEF Stored!ToCollectIsNew
  <2> QED
    BY <1>3, <1>5, <1>6, <1>8, <2>1, <2>2, <2>3, CollectKept DEF J, FI
\* The run is over.
<1>9. ASSUME job' = Stored!NoJob, work'["job"] = Stored!Idle, \A u \in Uploads : work'[u].item[1] # "file"
      PROVE  Stored!CollectInv'
  <2>1. job'.listed = {} /\ job'.todo = {} /\ work'["job"].at = "idle"
    BY <1>9 DEF Stored!NoJob, Stored!Idle
  <2>2. Stored!ItemsFit'
    BY <1>9, <2>1 DEF Stored!ItemsFit, Stored!At
  <2> QED
    BY <2>1, <2>2, CollectKept
\* The plan's thread goes on with what it is at.
<1>10. ASSUME UNCHANGED job, UNCHANGED server, \A u \in Uploads : work'[u] = work[u],
              work'["job"].item = J.item, J.at \notin {"idle", "stored"},
              work'["job"].at = "prune" => J.item[1] = "archive",
              work'["job"].at = "drop" => J.item \in FI /\ J.item[3].mtime < server[J.item[2]].mtime,
              work'["job"].at = "record" /\ J.item \in FI =>
                  J.item[3].mtime < server[J.item[2]].mtime \/ work'["job"].got = J.item,
              work'["job"].at # "idle",
              work'["job"].at = "stored" =>
                  J.at = "drop" \/ Stored!Seen' = Stored!Seen \cup {J.item} \/ J.item \notin FI,
              work'["job"].at \in {"chosen", "writing", "prune", "drop", "record", "undo"} =>
                  J.at \in {"chosen", "writing", "prune", "drop", "record", "undo"}
       PROVE  Stored!CollectInv'
  <2>1. Stored!ItemsFit'
    BY <1>0, <1>7, <1>10 DEF Stored!ItemsFit, Stored!At
  <2>2. job'.todo \cap Stored!Seen' = {}
    <3>1. Recorded => J.item \in FI /\ J.at = "record"
      BY <1>4 DEF Recorded, J
    <3> QED
      BY <1>0, <1>1, <1>5, <1>10, <3>1 DEF Stored!ToCollectIsNew
  <2>3. work'["job"].at # "stored" => Stored!Seen' = Stored!Seen
    BY <1>1 DEF Recorded
  <2>4. \A x \in job'.listed :
           \/ x \in job'.todo \cup Stored!Seen' \/ x[3].mtime < server'[x[2]].mtime
           \/ work'["job"].item = x /\ work'["job"].at \notin {"idle", "stored"}
    BY <1>3, <1>5, <1>6, <1>10 DEF J
  <2> QED
    BY <1>3, <1>5, <1>10, <2>1, <2>2, <2>3, <2>4, CollectKept DEF FI
<1>11. ASSUME Stored!Store("job") PROVE Stored!CollectInv'
  <2>1. StoreEffects("job")
    BY <1>0, <1>11, StoreDoes
  <2>2. UNCHANGED <<job, server>> /\ (\A u \in Uploads : work'[u] = work[u]) /\ work'["job"].item = J.item
    BY <1>0, <2>1 DEF StoreEffects, J
  <2>3. ASSUME Goes("job", {"chosen", "writing", "record", "undo"}, {"failed", "writing", "undo"})
        PROVE  Stored!CollectInv'
    BY <1>10, <2>2, <2>3 DEF Goes, J
  <2>4. ASSUME Goes("job", {"writing"}, {"prune", "drop", "record"}),
               work'["job"].got = Stored!Content(J.item),
               work'["job"].at = CASE J.item[1] = "archive" -> "prune"
                             [] J.item[1] = "file" /\ server[J.item[2]].size # J.item[3].size -> "drop"
                             [] OTHER -> "record"
        PROVE  Stored!CollectInv'
    <3>1. J.at = "writing" /\ work'["job"].at \in {"prune", "drop", "record"}
      BY <2>4 DEF Goes, J
    <3>2. work'["job"].at = "prune" => J.item[1] = "archive"
      BY <2>4
    <3>3. J.item \in FI => J.item[3].mtime < server[J.item[2]].mtime \/ J.item[3] = server[J.item[2]]
      BY <1>5, <2>2, <3>1 DEF Fresh
    <3>4. ASSUME work'["job"].at = "drop"
          PROVE  J.item \in FI /\ J.item[3].mtime < server[J.item[2]].mtime
      <4>1. J.item[1] = "file" /\ server[J.item[2]].size # J.item[3].size
        BY <2>4, <3>4
      <4> QED
        BY <1>4, <3>3, <4>1
    <3>5. ASSUME J.item \in FI
          PROVE  J.item[3].mtime < server[J.item[2]].mtime \/ work'["job"].got = J.item
      <4>1. J.item[1] = "file" /\ J.item = <<"file", J.item[2], J.item[3]>>
        BY <3>5 DEF FI, Stored!FileItem
      <4> QED
        BY <2>4, <3>3, <3>5, <4>1 DEF Stored!Content
    <3> QED
      BY <1>10, <2>2, <3>1, <3>2, <3>4, <3>5
  <2>5. ASSUME Goes("job", {"record"}, {"stored"}), row' = Append(row, Stored!NewRow("job"))
        PROVE  Stored!CollectInv'
    <3>1. J.at = "record" /\ work'["job"].at = "stored"
      BY <2>5 DEF Goes, J
    <3>2. ASSUME J.item \in FI PROVE Stored!Seen' = Stored!Seen \cup {J.item}
      <4> DEFINE n == Len(row) + 1
      <4>1. J.item[1] = "file" /\ work["job"].path \in Stored!Places
        BY <1>7, <2>1, <3>2 DEF StoreEffects
      <4>2. n \in DOMAIN row' /\ row'[n] = Stored!NewRow("job") /\ n \notin DOMAIN row
        BY <1>0, <2>5, <4>1, RowSaved
      <4>3. row'[n].of = J.item
        BY <4>2 DEF Stored!NewRow, J
      <4>4. n \in Stored!RowsOf("file")' /\ n \notin Stored!RowsOf("file")
        BY <4>1, <4>2, <4>3 DEF Stored!RowsOf
      <4> HIDE DEF n
      <4> QED
        BY <1>0, <4>4, SeenDoes DEF J
    <3> QED
      BY <1>10, <2>2, <3>1, <3>2
  <2> QED
    BY <2>1, <2>3, <2>4, <2>5 DEF StoreEffects, Goes, J
<1>12. ASSUME NEW u \in Uploads, Stored!Store(u) PROVE Stored!CollectInv'
  <2>1. StoreEffects(u) /\ u \in Stored!Writers /\ "job" \in Stored!Writers \ {u}
    BY <1>0, <1>12, StoreDoes
  <2>2. \A v \in Uploads : work'[v].item = work[v].item
    BY <1>0, <2>1 DEF StoreEffects
  <2>3. UNCHANGED job /\ work'["job"] = work["job"]
    BY <2>1 DEF StoreEffects
  <2> QED
    BY <1>0, <1>8, <2>2, <2>3 DEF Stored!ItemsFit
<1>13. ASSUME NEW u \in Uploads, Stored!Upload(u) PROVE Stored!CollectInv'
  <2>1. PICK p : work' = [work EXCEPT ![u] = [at |-> "chosen", path |-> p, item |-> <<"upload", u>>,
                                               got |-> Stored!Nothing]]
    BY <1>13 DEF Stored!Upload, Stored!Choose
  <2>2. UNCHANGED job /\ work'["job"] = work["job"] /\ work'[u].item = <<"upload", u>>
    BY <1>0, <1>13, <2>1 DEF Stored!Upload
  <2>3. \A v \in Uploads : work'[v].item[1] # "file"
    BY <1>0, <2>1, <2>2 DEF Stored!ItemsFit
  <2> QED
    BY <1>8, <2>2, <2>3
<1>14. CASE Stored!BeginCollect
  <2>1. /\ job' = [at |-> "collect", listed |-> Stored!Listed, todo |-> Stored!Listed \ Stored!Seen]
        /\ UNCHANGED <<work, server>> /\ work["job"].at = "idle"
    BY <1>0, <1>14 DEF Stored!BeginCollect, Stored!JobRests, Stored!At
  <2>2. Stored!Seen' = Stored!Seen
    BY <1>1, <2>1 DEF Recorded
  <2>3. \A x \in Stored!Listed : x[3] = server[x[2]]
    BY DEF Stored!Listed
  <2>4. Stored!ItemsFit'
    BY <1>0, <2>1 DEF Stored!ItemsFit, Stored!At
  <2> QED
    BY <2>1, <2>2, <2>3, <2>4, CollectKept DEF Fresh
<1>15. CASE Stored!CollectFile
  <2>1. PICK item \in job.todo : Stored!Choose("job", 0, item) /\ job' = [job EXCEPT !.todo = @ \ {item}]
    BY <1>15 DEF Stored!CollectFile
  <2>2. /\ UNCHANGED server /\ job.at = "collect" /\ job'.listed = job.listed /\ job'.todo = job.todo \ {item}
        /\ J.at \in {"idle", "stored"}
    BY <1>0, <1>15, <2>1 DEF Stored!CollectFile, Stored!Typed, J
  <2>3. /\ work'["job"].at = "chosen" /\ work'["job"].item = item
        /\ \A u \in Uploads : work'[u] = work[u]
    <3>1. PICK p : work' = [work EXCEPT !["job"] = [at |-> "chosen", path |-> p, item |-> item,
                                                     got |-> Stored!Nothing]]
      BY <2>1 DEF Stored!Choose
    <3> QED
      BY <1>0, <3>1
  <2>4. Stored!Seen' = Stored!Seen
    BY <1>1, <2>3 DEF Recorded
  <2>5. Stored!ItemsFit'
    BY <1>0, <2>3 DEF Stored!ItemsFit, Stored!At
  <2>6. item \notin Stored!Seen /\ job'.todo \cap Stored!Seen' = {}
    BY <1>0, <2>2, <2>4 DEF Stored!ToCollectIsNew
  <2> QED
    BY <1>3, <1>6, <2>1, <2>2, <2>3, <2>4, <2>5, <2>6, CollectKept
<1>16. CASE Stored!BeginArchive
  <2> DEFINE n == count["run"] + 1
  <2>1. PICK p : work' = [work EXCEPT !["job"] = [at |-> "chosen", path |-> p, item |-> <<"archive", n>>,
                                                   got |-> Stored!Nothing]]
    BY <1>16 DEF Stored!BeginArchive, Stored!Choose
  <2>2. /\ work'["job"].at = "chosen" /\ work'["job"].item = <<"archive", n>>
        /\ \A u \in Uploads : work'[u] = work[u]
    BY <1>0, <2>1
  <2>3. job'.listed = {} /\ job'.todo = {}
    BY <1>16 DEF Stored!BeginArchive, Stored!NoJob
  <2>4. work'["job"].item \notin Stored!FileItem
    BY <1>7, <2>2 DEF FI
  <2>5. Stored!ItemsFit'
    BY <1>0, <2>2 DEF Stored!ItemsFit, Stored!At
  <2> QED
    BY <2>2, <2>3, <2>4, <2>5, CollectKept
<1>17. CASE Stored!Drop \/ Stored!Prune \/ Stored!PruneFails
  <2>1. PICK s \in {"stored", "record", "undo"} :
            /\ Stored!Goto("job", s) /\ UNCHANGED <<job, server>>
            /\ J.at \in {"drop", "prune"} /\ (s = "stored" => J.at = "drop") /\ (s = "record" => J.at = "prune")
    BY <1>17 DEF Stored!Drop, Stored!Prune, Stored!PruneFails, Stored!At, J
  <2>2. /\ work'["job"].at = s /\ work'["job"].item = J.item
        /\ \A u \in Uploads : work'[u] = work[u]
    BY <1>0, <2>1, Moved DEF StoreSteps, J
  <2>3. J.at = "prune" => J.item \notin FI
    BY <1>0, <1>7 DEF Stored!ItemsFit, Stored!At, J
  <2> QED
    BY <1>10, <2>1, <2>2, <2>3
<1>18. CASE Stored!Retain \/ Stored!RunFails \/ Stored!Crash
  <2>1. job' = Stored!NoJob /\ work'["job"] = Stored!Idle
    BY <1>0, <1>18 DEF Stored!Retain, Stored!RunFails, Stored!Crash
  <2>2. \A u \in Uploads : work'[u].item = work[u].item \/ work'[u].item = <<"nothing">>
    BY <1>0, <1>18 DEF Stored!Retain, Stored!RunFails, Stored!Crash, Stored!Idle, Stored!Nothing
  <2> QED
    BY <1>0, <1>9, <2>1, <2>2 DEF Stored!ItemsFit
<1>19. CASE \/ UNCHANGED Stored!vars \/ Stored!ArchiveFails
            \/ \E i \in DOMAIN row : Stored!Delete(i)
            \/ Stored!BeginExpire \/ Stored!ExpireFile \/ Stored!ExpireRow
            \/ \E f \in Files : Stored!Rewrite(f)
  <2>1. UNCHANGED <<job, work>>
    BY <1>19 DEF Stored!vars, Stored!ArchiveFails, Stored!Delete, Stored!BeginExpire, Stored!ExpireFile,
                       Stored!ExpireRow, Stored!Rewrite
  <2> QED
    BY <1>0, <1>8, <2>1 DEF Stored!ItemsFit
<1>20. ASSUME NEW w \in Stored!Writers, Stored!Store(w) PROVE Stored!CollectInv'
  BY <1>11, <1>12, <1>20 DEF Stored!Writers
<1> QED
  BY <1>13, <1>14, <1>15, <1>16, <1>17, <1>18, <1>19, <1>20 DEF Stored!Next, Stored!Run

LEMMA CollectStarts ==
    ASSUME Stored!StoredFilesAssumption, Stored!Init
    PROVE  Stored!CollectInv
<1>1. Stored!Typed /\ Stored!JobRests /\ Stored!ExpiringDeleted
  BY StrayStarts DEF Stored!StrayInv
<1>2. /\ work["job"] = Stored!Idle /\ Stored!Idle.at = "idle" /\ DOMAIN row = {}
      /\ job.listed = {} /\ job.todo = {}
      /\ \A u \in Uploads : work[u].item = <<"nothing">>
  BY DEF Stored!Init, Stored!Idle, Stored!NoJob, Stored!Writers, Stored!Nothing
<1>3. Stored!RowsOf("file") = {}
  BY <1>2 DEF Stored!RowsOf
<1>4. ~ Stored!Working /\ ~ Stored!At("job", "drop") /\ ~ Stored!At("job", "prune") /\ ~ Stored!At("job", "record")
  BY <1>2 DEF Stored!Working, Stored!Busy, Stored!At
<1>5. Stored!ItemsFit
  BY <1>2, <1>4 DEF Stored!ItemsFit
<1>6. Stored!ToCollectIsNew /\ Stored!CollectedOnce /\ Stored!VersionsAge /\ Stored!ListedIsGoing
  BY <1>2, <1>3, <1>4 DEF Stored!ToCollectIsNew, Stored!CollectedOnce, Stored!VersionsAge, Stored!ListedIsGoing
<1> QED
  BY <1>1, <1>5, <1>6 DEF Stored!CollectInv

\* What the invariant says of what is collected.
LEMMA CollectSays ==
    ASSUME Stored!CollectInv
    PROVE  Stored!CollectedOnce /\ Stored!CollectedIsFaithful /\ Stored!ListedIsCollected
<1>1. Stored!CollectedOnce
  BY DEF Stored!CollectInv
<1>2. \A x \in Stored!FileItem : x[3] = server[x[2]] => ~ Stored!Old(x)
  <2>1. \A x \in Stored!FileItem : x[3].mtime \in Nat
    BY DEF Stored!FileItem, Stored!Version
  <2> QED
    BY <2>1 DEF Stored!Old
<1>3. Stored!CollectedIsFaithful
  <2> SUFFICES ASSUME NEW i \in Stored!RowsOf("file"), row[i].of = <<"file", row[i].of[2], server[row[i].of[2]]>>
               PROVE  row[i].holds = row[i].of
    BY DEF Stored!CollectedIsFaithful
  <2>1. row[i].of \in Stored!Contents
    <3>1. row \in Seq(StoredRow)
      BY TypedParts DEF Stored!CollectInv
    <3>2. \A x \in StoredRow : x.of \in Stored!Contents
      BY DEF StoredRow
    <3> HIDE DEF StoredRow
    <3> QED
      BY <3>1, <3>2 DEF Stored!RowsOf
  <2>2. row[i].of \in Stored!FileItem
    BY <2>1 DEF Stored!RowsOf, Stored!Contents, Stored!FileItem, Stored!Nothing, Stored!Reserved
  <2>3. row[i].of[3] = server[row[i].of[2]]
    <3> DEFINE x == row[i].of
    <3>1. x = <<"file", x[2], server[x[2]]>>
      OBVIOUS
    <3> HIDE DEF x
    <3>2. x[3] = server[x[2]]
      BY <3>1
    <3> QED
      BY <3>2 DEF x
  <2> QED
    BY <1>2, <2>2, <2>3 DEF Stored!CollectInv, Stored!VersionsAge
<1>4. Stored!ListedIsCollected
  <2> SUFFICES ASSUME job.todo = {}, work["job"].at \in {"idle", "stored"}, NEW x \in job.listed,
                      server[x[2]] = x[3]
               PROVE  x \in Stored!Seen
    BY DEF Stored!ListedIsCollected
  <2>1. x \in Stored!FileItem
    BY DEF Stored!CollectInv, Stored!Typed
  <2> QED
    BY <1>2, <2>1 DEF Stored!CollectInv, Stored!ListedIsGoing
<1> QED
  BY <1>1, <1>3, <1>4

\* A version of a server's file is collected once, and what is recorded under it is that
\* version while the server still has it, however often it is written while it is read.
THEOREM CollectedFaithfullyOnceAlways ==
    ASSUME Stored!StoredFilesAssumption
    PROVE  Stored!Spec => [](Stored!CollectedOnce /\ Stored!CollectedIsFaithful)
<1>1. Stored!Init => Stored!CollectInv
  BY CollectStarts
<1>2. Stored!CollectInv /\ [Stored!Next]_(Stored!vars) => Stored!CollectInv'
  BY CollectStays
<1>3. Stored!CollectInv => Stored!CollectedOnce /\ Stored!CollectedIsFaithful
  BY CollectSays
<1> QED
  BY <1>1, <1>2, <1>3, PTL DEF Stored!Spec

-----------------------------------------------------------------------------
(* How many archives stay on the server. *)

LEMMA SizesAreSizes ==
    /\ \A S : Stored!Cardinality(S) = Cardinality(S)
    /\ \A S : Stored!IsFiniteSet(S) <=> IsFiniteSet(S)
BY DEF Stored!Cardinality, Cardinality, Stored!IsFiniteSet, IsFiniteSet

\* All but the newest: no more than KeepRemote stay.
LEMMA FewStay ==
    ASSUME KeepRemote \in Nat, remote \subseteq Nat, IsFiniteSet(remote)
    PROVE  Cardinality(remote \ Stored!Excess) <= KeepRemote
<1> DEFINE K == remote \ Stored!Excess
           Above(n) == {m \in remote : m > n}
<1>1. \A n \in K : Cardinality(Above(n)) < KeepRemote
  <2> SUFFICES ASSUME NEW n \in K PROVE Cardinality(Above(n)) < KeepRemote
    OBVIOUS
  <2>1. ~ (Cardinality(Above(n)) >= KeepRemote)
    BY SizesAreSizes DEF Stored!Excess
  <2>2. Cardinality(Above(n)) \in Nat
    BY FS_Subset, FS_CardinalityType
  <2> HIDE DEF Above
  <2> QED
    BY <2>1, <2>2
<1>2. K \subseteq Nat /\ IsFiniteSet(K)
  BY FS_Subset
<1>3. CASE K = {}
  BY <1>3, FS_EmptySet
<1>4. CASE K # {}
  <2> HIDE DEF K
  <2>1. PICK n \in K : \A k \in K : n <= k
    BY <1>2, <1>4, NatMin
  <2>2. K \ {n} \subseteq Above(n)
    BY <1>2, <2>1 DEF K
  <2>3. IsFiniteSet(Above(n))
    BY FS_Subset
  <2>4. Cardinality(K \ {n}) <= Cardinality(Above(n))
    BY <2>2, <2>3, FS_Subset
  <2>5. Cardinality(K \ {n}) = Cardinality(K) - 1
    BY <1>2, <2>1, FS_RemoveElement
  <2>6. Cardinality(K) \in Nat /\ Cardinality(Above(n)) \in Nat /\ Cardinality(Above(n)) < KeepRemote
    BY <1>1, <1>2, <2>1, <2>3, FS_CardinalityType
  <2> HIDE DEF Above
  <2>7. Cardinality(K) <= KeepRemote
    BY <2>4, <2>5, <2>6
  <2> QED
    BY <2>7 DEF K
<1> QED
  BY <1>3, <1>4

LEMMA PrunedStays ==
    ASSUME Stored!StoredFilesAssumption, Stored!Typed, Stored!JobRests, Stored!ItemsFit, Stored!PrunedInv,
           [Stored!Next]_(Stored!vars)
    PROVE  Stored!PrunedInv'
<1> DEFINE J == work["job"]
           AtWork == {"chosen", "writing", "prune", "drop", "record", "undo"}
<1>0. /\ "job" \in Stored!Writers /\ work \in [Stored!Writers -> Worker] /\ KeepRemote \in Nat
      /\ \A u \in Uploads : u \in Stored!Writers /\ u # "job"
      /\ count["run"] \in Nat
  BY TypedParts DEF Stored!Writers, Stored!StoredFilesAssumption, Stored!Typed, Stored!Events
<1>1. /\ remote \subseteq Nat /\ IsFiniteSet(remote)
      /\ job.at = "archive" /\ J.at \in AtWork => J.item[1] = "archive"
      /\ job.at = "archive" /\ J.at \in {"record", "stored"} => Cardinality(remote) <= KeepRemote
  BY SizesAreSizes DEF Stored!PrunedInv, Stored!Working, Stored!Busy, Stored!At
<1>2. ASSUME remote' \subseteq Nat, IsFiniteSet(remote'),
             job'.at = "archive" /\ work'["job"].at \in AtWork => work'["job"].item[1] = "archive",
             job'.at = "archive" /\ work'["job"].at \in {"record", "stored"} => Cardinality(remote') <= KeepRemote
      PROVE  Stored!PrunedInv'
  BY <1>2, SizesAreSizes DEF Stored!PrunedInv, Stored!Working, Stored!Busy, Stored!At
<1> HIDE DEF J, AtWork
<1>3. ASSUME UNCHANGED remote, job'.at # "archive" PROVE Stored!PrunedInv'
  BY <1>1, <1>2, <1>3
<1>4. ASSUME UNCHANGED <<remote, job>>, work'["job"] = work["job"] PROVE Stored!PrunedInv'
  BY <1>1, <1>2, <1>4 DEF J
<1>5. ASSUME NEW w \in Stored!Writers, Stored!Store(w) PROVE Stored!PrunedInv'
  <2>1. StoreEffects(w)
    BY <1>5, StoreDoes DEF Stored!Typed
  <2>2. CASE w # "job"
    BY <1>0, <1>4, <2>1, <2>2 DEF StoreEffects
  <2>3. CASE w = "job"
    <3>1. UNCHANGED <<remote, job>> /\ work'["job"].item = J.item /\ J.at \in AtWork
      BY <2>1, <2>3 DEF StoreEffects, Goes, J, AtWork
    <3>2. work'["job"].at \in {"record", "stored"} /\ J.item[1] = "archive" => J.at = "record"
      BY <2>1, <2>3 DEF StoreEffects, Goes, J
    <3> QED
      BY <1>1, <1>2, <3>1, <3>2
  <2> QED
    BY <2>2, <2>3
<1>6. CASE Stored!Prune
  <2>1. remote' = remote \ Stored!Excess /\ Stored!Goto("job", "record") /\ UNCHANGED job /\ J.at = "prune"
    BY <1>6 DEF Stored!Prune, Stored!At, J
  <2>2. work'["job"].item = J.item
    BY <1>0, <2>1, Moved DEF StoreSteps, J
  <2>3. Cardinality(remote') <= KeepRemote
    BY <1>0, <1>1, <2>1, FewStay
  <2>4. remote' \subseteq Nat /\ IsFiniteSet(remote')
    BY <1>1, <2>1, FS_Subset
  <2>5. J.at \in AtWork
    BY <2>1 DEF AtWork
  <2> QED
    BY <1>1, <1>2, <2>1, <2>2, <2>3, <2>4, <2>5
<1>7. CASE Stored!PruneFails
  <2>1. /\ remote' \subseteq remote /\ Stored!Goto("job", "undo") /\ UNCHANGED job /\ J.at = "prune"
    BY <1>7 DEF Stored!PruneFails, Stored!At, J
  <2>2. work'["job"].item = J.item /\ work'["job"].at = "undo"
    BY <1>0, <2>1, Moved DEF StoreSteps, J
  <2>3. remote' \subseteq Nat /\ IsFiniteSet(remote')
    BY <1>1, <2>1, FS_Subset
  <2>4. J.at \in AtWork
    BY <2>1 DEF AtWork
  <2> QED
    BY <1>1, <1>2, <2>1, <2>2, <2>3, <2>4
<1>8. ASSUME NEW n \in Nat, remote' \in {remote, remote \cup {n}}
      PROVE  remote' \subseteq Nat /\ IsFiniteSet(remote')
  BY <1>1, <1>8, FS_AddElement
<1>9. CASE Stored!BeginArchive
  <2> DEFINE n == count["run"] + 1
  <2>1. PICK p : work' = [work EXCEPT !["job"] = [at |-> "chosen", path |-> p, item |-> <<"archive", n>>,
                                                   got |-> Stored!Nothing]]
    BY <1>9 DEF Stored!BeginArchive, Stored!Choose
  <2>2. work'["job"].at = "chosen" /\ work'["job"].item = <<"archive", n>>
    BY <1>0, <2>1
  <2>3. n \in Nat /\ remote' \in {remote, remote \cup {n}}
    BY <1>0, <1>9 DEF Stored!BeginArchive
  <2>4. work'["job"].item[1] = "archive"
    BY <2>2
  <2> HIDE DEF n
  <2> QED
    BY <1>2, <1>8, <2>2, <2>3, <2>4
<1>10. CASE Stored!ArchiveFails
  <2>1. /\ remote' \in {remote, remote \cup {count["run"] + 1}} /\ count["run"] + 1 \in Nat
        /\ UNCHANGED job /\ job.at = "idle"
    BY <1>0, <1>10 DEF Stored!ArchiveFails
  <2> QED
    BY <1>2, <1>8, <2>1
<1>11. CASE Stored!BeginCollect \/ Stored!CollectFile \/ Stored!Retain \/ Stored!RunFails \/ Stored!Crash
  <2>1. UNCHANGED remote /\ job'.at # "archive"
    BY <1>11 DEF Stored!BeginCollect, Stored!CollectFile, Stored!Retain, Stored!RunFails, Stored!Crash,
                 Stored!NoJob, Stored!Typed
  <2> QED
    BY <1>3, <2>1
<1>12. CASE Stored!Drop
  <2>1. Stored!Goto("job", "stored") /\ UNCHANGED <<job, remote>> /\ J.at = "drop"
    BY <1>12 DEF Stored!Drop, Stored!At, J
  <2>2. job.at # "archive"
    <3>1. J.item[1] = "file" /\ J.at \in AtWork
      BY <2>1 DEF Stored!ItemsFit, Stored!At, J, AtWork
    <3> QED
      BY <1>1, <3>1
  <2> QED
    BY <1>3, <2>1, <2>2
<1>13. CASE \/ UNCHANGED Stored!vars \/ \E i \in DOMAIN row : Stored!Delete(i)
            \/ Stored!BeginExpire \/ Stored!ExpireFile \/ Stored!ExpireRow
            \/ \E f \in Files : Stored!Rewrite(f)
  <2>1. UNCHANGED <<job, work, remote>>
    BY <1>13 DEF Stored!vars, Stored!Delete, Stored!BeginExpire, Stored!ExpireFile, Stored!ExpireRow, Stored!Rewrite
  <2> QED
    BY <1>4, <2>1
<1>14. ASSUME NEW u \in Uploads, Stored!Upload(u) PROVE Stored!PrunedInv'
  <2>1. UNCHANGED <<job, remote>> /\ work'["job"] = work["job"]
    BY <1>0, <1>14 DEF Stored!Upload, Stored!Choose
  <2> QED
    BY <1>4, <2>1
<1> QED
  BY <1>5, <1>6, <1>7, <1>9, <1>10, <1>11, <1>12, <1>13, <1>14 DEF Stored!Next, Stored!Run

\* When a run of a plan has succeeded, it has collected what it listed and the server still
\* holds, and leaves no more archives there than the plan keeps, for any such number.
THEOREM RunsAreCompleteAlways ==
    ASSUME Stored!StoredFilesAssumption PROVE Stored!Spec => []Stored!RunsAreComplete
<1>1. Stored!Init => Stored!CollectInv /\ Stored!PrunedInv
  <2> SUFFICES ASSUME Stored!Init PROVE Stored!PrunedInv
    BY CollectStarts
  <2>1. remote = {} /\ job.at = "idle"
    BY DEF Stored!Init, Stored!NoJob
  <2> QED
    BY <2>1, FS_EmptySet, SizesAreSizes DEF Stored!PrunedInv
<1>2. (Stored!CollectInv /\ Stored!PrunedInv) /\ [Stored!Next]_(Stored!vars)
          => (Stored!CollectInv /\ Stored!PrunedInv)'
  BY CollectStays, PrunedStays DEF Stored!CollectInv
<1>3. Stored!CollectInv /\ Stored!PrunedInv => Stored!RunsAreComplete
  BY CollectSays DEF Stored!PrunedInv, Stored!RunsAreComplete, Stored!FewOnServer, Stored!At
<1> QED
  BY <1>1, <1>2, <1>3, PTL DEF Stored!Spec

-----------------------------------------------------------------------------
(* Servers: names and keys, one move of an address, work that holds both locks. *)

Hosts == INSTANCE Servers

\* What a request begins with, and which request it is.
LEMMA RequestBegins ==
    ASSUME NEW r \in Requests, Hosts!RowsTyped, Hosts!Begin(r)
    PROVE  /\ req' \in [Requests -> Hosts!Request] /\ req[r] = Hosts!Idle
           /\ \A q \in Requests \ {r} : req'[q] = req[q]
           /\ UNCHANGED <<row, home, move, lock, janitor, crashes, robbed>>
           /\ ~ janitor.boot
           /\ req'[r].op = "move" =>
                 /\ move[req'[r].m].status = "none" /\ req'[r].s # req'[r].t
                 /\ \A q \in Requests : req[q].op = "move" => req[q].m # req'[r].m
<1> DEFINE Good(q) ==
        /\ q \in Hosts!Request
        /\ q.op = "move" => /\ move[q.m].status = "none" /\ q.s # q.t
                            /\ \A p \in Requests : req[p].op = "move" => req[p].m # q.m
<1>0. ASSUME NEW q \in Hosts!Request, Hosts!Begins(r, q)
      PROVE  /\ req' \in [Requests -> Hosts!Request] /\ req'[r] = q /\ req[r] = Hosts!Idle
             /\ \A p \in Requests \ {r} : req'[p] = req[p]
             /\ UNCHANGED <<row, home, move, lock, janitor, crashes, robbed>>
  <2>1. req \in [Requests -> Hosts!Request]
    BY DEF Hosts!RowsTyped
  <2> HIDE DEF Hosts!Request, Hosts!Idle
  <2> QED
    BY <1>0, <2>1 DEF Hosts!Begins
<1>1. \E q : Hosts!Begins(r, q) /\ Good(q)
  <2>1. ASSUME NEW s \in Server, NEW n \in Names, NEW k \in HostKeys, Hosts!BeginCreate(r, s, n, k)
        PROVE  \E q : Hosts!Begins(r, q) /\ Good(q)
    <3> DEFINE q == [op |-> "create", s |-> s, n |-> n, k |-> k]
    <3>1. Hosts!Begins(r, q)
      BY <2>1 DEF Hosts!BeginCreate
    <3>2. Good(q)
      BY DEF Hosts!Request
    <3> QED
      BY <3>1, <3>2
  <2>2. ASSUME NEW s \in Server, NEW n \in Names, Hosts!BeginRename(r, s, n)
        PROVE  \E q : Hosts!Begins(r, q) /\ Good(q)
    <3> DEFINE q == [op |-> "rename", s |-> s, n |-> n]
    <3>1. Hosts!Begins(r, q)
      BY <2>2 DEF Hosts!BeginRename
    <3>2. Good(q)
      BY DEF Hosts!Request
    <3> QED
      BY <3>1, <3>2
  <2>3. ASSUME NEW s \in Server, NEW m \in Hosts!Methods, NEW given \in BOOLEAN, Hosts!BeginSignIn(r, s, m, given)
        PROVE  \E q : Hosts!Begins(r, q) /\ Good(q)
    <3> DEFINE q == [op |-> "signin", s |-> s, m |-> m, given |-> given]
    <3>1. Hosts!Begins(r, q)
      BY <2>3 DEF Hosts!BeginSignIn
    <3>2. Good(q)
      BY DEF Hosts!Request
    <3> QED
      BY <3>1, <3>2
  <2>4. ASSUME NEW s \in Server, NEW k \in HostKeys, Hosts!BeginRepin(r, s, k)
        PROVE  \E q : Hosts!Begins(r, q) /\ Good(q)
    <3> DEFINE q == [op |-> "repin", s |-> s, k |-> k]
    <3>1. Hosts!Begins(r, q)
      BY <2>4 DEF Hosts!BeginRepin
    <3>2. Good(q)
      BY DEF Hosts!Request
    <3> QED
      BY <3>1, <3>2
  <2>5. ASSUME NEW s \in Server, Hosts!BeginCheck(r, s)
        PROVE  \E q : Hosts!Begins(r, q) /\ Good(q)
    <3> DEFINE q == [op |-> "check", s |-> s, pin |-> row[s].pin]
    <3>1. Hosts!Begins(r, q)
      BY <2>5 DEF Hosts!BeginCheck
    <3>2. Good(q)
      BY DEF Hosts!Request, Hosts!RowsTyped, Hosts!ServerRow
    <3> QED
      BY <3>1, <3>2
  <2>6. ASSUME NEW s \in Server, Hosts!BeginDelete(r, s)
        PROVE  \E q : Hosts!Begins(r, q) /\ Good(q)
    <3> DEFINE q == [op |-> "delete", s |-> s]
    <3>1. Hosts!Begins(r, q)
      BY <2>6 DEF Hosts!BeginDelete
    <3>2. Good(q)
      BY DEF Hosts!Request
    <3> QED
      BY <3>1, <3>2
  <2>7. ASSUME NEW s \in Server, NEW t \in Server, Hosts!BeginMerge(r, s, t)
        PROVE  \E q : Hosts!Begins(r, q) /\ Good(q)
    <3> DEFINE q == [op |-> "merge", s |-> s, t |-> t]
    <3>1. Hosts!Begins(r, q)
      BY <2>7 DEF Hosts!BeginMerge
    <3>2. Good(q)
      BY DEF Hosts!Request
    <3> QED
      BY <3>1, <3>2
  <2>8. ASSUME NEW a \in Apps, NEW s \in Server, Hosts!BeginAddApp(r, a, s)
        PROVE  \E q : Hosts!Begins(r, q) /\ Good(q)
    <3> DEFINE q == [op |-> "addapp", a |-> a, s |-> s]
    <3>1. Hosts!Begins(r, q)
      BY <2>8 DEF Hosts!BeginAddApp
    <3>2. Good(q)
      BY DEF Hosts!Request
    <3> QED
      BY <3>1, <3>2
  <2>9. ASSUME NEW m \in Moves, NEW s \in Server, NEW t \in Server, Hosts!BeginMove(r, m, s, t)
        PROVE  \E q : Hosts!Begins(r, q) /\ Good(q)
    <3> DEFINE q == [op |-> "move", m |-> m, s |-> s, t |-> t]
    <3>1. Hosts!Begins(r, q)
      BY <2>9 DEF Hosts!BeginMove
    <3>2. Good(q)
      BY <2>9 DEF Hosts!Request, Hosts!BeginMove
    <3> QED
      BY <3>1, <3>2
  <2> HIDE DEF Good
  <2> QED
    BY <2>1, <2>2, <2>3, <2>4, <2>5, <2>6, <2>7, <2>8, <2>9 DEF Hosts!Begin
<1> QED
  <2>1. PICK q : Hosts!Begins(r, q) /\ Good(q)
    BY <1>1
  <2>2. ~ janitor.boot
    BY DEF Hosts!Begin, Hosts!Serving
  <2> HIDE DEF Hosts!Request, Hosts!Idle
  <2> QED
    BY <1>0, <2>1, <2>2

\* A request that ends writes one row, keeps the others and begins no other request.
LEMMA RequestEndsRows ==
    ASSUME NEW r \in Requests, Hosts!ServersAssumption, Hosts!RowsInv,
           Hosts!End(r)
    PROVE  Hosts!RowsInv'
<1> DEFINE q == req[r]
<1>0. /\ row \in [Server -> Hosts!ServerRow] /\ req \in [Requests -> Hosts!Request] /\ q \in Hosts!Request
      /\ Hosts!UniqueNames /\ Hosts!ReadyIsPinned
  BY DEF Hosts!RowsInv, Hosts!RowsTyped
<1>1. ASSUME req' = [req EXCEPT ![r] = Hosts!Idle] PROVE req' \in [Requests -> Hosts!Request]
  BY <1>0, <1>1 DEF Hosts!Request
<1>2. ASSUME NEW s \in Server, NEW new \in Hosts!ServerRow, Hosts!Writes(r, s, new),
             new.check = "ok" => new.seen = Presents[Machine[s]],
             new.live => \A t \in Server \ {s} : row[t].live => row[t].name # new.name
      PROVE  Hosts!RowsInv'
  <2>1. /\ req' = [req EXCEPT ![r] = Hosts!Idle] /\ row' = [row EXCEPT ![s] = new]
    BY <1>2 DEF Hosts!Writes, Hosts!Ends
  <2> HIDE DEF Hosts!ServerRow, Hosts!Idle
  <2>2. row' \in [Server -> Hosts!ServerRow] /\ row'[s] = new /\ \A t \in Server \ {s} : row'[t] = row[t]
    BY <1>0, <2>1
  <2>3. Hosts!UniqueNames'
    BY <1>0, <1>2, <2>2 DEF Hosts!UniqueNames, Hosts!Live
  <2>4. Hosts!ReadyIsPinned'
    BY <1>0, <1>2, <2>2 DEF Hosts!ReadyIsPinned
  <2> QED
    BY <1>1, <2>1, <2>2, <2>3, <2>4 DEF Hosts!RowsInv, Hosts!RowsTyped
\* Writing the row back as it was, or without what makes a name or a check count.
<1>3. ASSUME NEW s \in Server, NEW new \in Hosts!ServerRow, Hosts!Writes(r, s, new),
             new.check = row[s].check /\ new.seen = row[s].seen,
             new.live => row[s].live /\ new.name = row[s].name
      PROVE  Hosts!RowsInv'
  BY <1>0, <1>2, <1>3 DEF Hosts!UniqueNames, Hosts!ReadyIsPinned, Hosts!Live
<1>4. CASE Hosts!Create(r)
  <2>1. q.s \in Server /\ q.n \in Names /\ q.k \in HostKeys
    BY <1>0, <1>4 DEF Hosts!Create, Hosts!Request, Hosts!Idle
  <2>2. row[q.s] \in Hosts!ServerRow
    BY <1>0, <2>1
  <2>3. CASE Hosts!NameInUse(q.n, q.s) \/ ~ row[q.s].new
    BY <1>3, <1>4, <2>1, <2>2, <2>3 DEF Hosts!Create
  <2>4. CASE ~ Hosts!NameInUse(q.n, q.s) /\ row[q.s].new
    <3>1. Hosts!Created(q.n, q.k) \in Hosts!ServerRow /\ Hosts!Created(q.n, q.k).check # "ok"
          /\ Hosts!Created(q.n, q.k).name = q.n
      BY <2>1 DEF Hosts!Created, Hosts!ServerRow, Hosts!Methods
    <3>2. Hosts!Writes(r, q.s, Hosts!Created(q.n, q.k))
      BY <1>4, <2>4 DEF Hosts!Create
    <3>3. \A t \in Server \ {q.s} : row[t].live => row[t].name # q.n
      BY <2>4 DEF Hosts!NameInUse, Hosts!Live
    <3> HIDE DEF q
    <3> QED
      BY <1>2, <2>1, <3>1, <3>2, <3>3
  <2> QED
    BY <2>3, <2>4
<1>5. CASE Hosts!Rename(r)
  <2>1. q.s \in Server /\ q.n \in Names
    BY <1>0, <1>5 DEF Hosts!Rename, Hosts!Request, Hosts!Idle
  <2>2. row[q.s] \in Hosts!ServerRow
    BY <1>0, <2>1
  <2>3. CASE Hosts!Live(q.s) /\ Hosts!NameInUse(q.n, q.s)
    BY <1>3, <1>5, <2>1, <2>2, <2>3 DEF Hosts!Rename
  <2>4. CASE ~ (Hosts!Live(q.s) /\ Hosts!NameInUse(q.n, q.s))
    <3> DEFINE new == [row[q.s] EXCEPT !.name = q.n]
    <3>1. /\ new \in Hosts!ServerRow /\ new.check = row[q.s].check /\ new.seen = row[q.s].seen
          /\ new.name = q.n /\ new.live = row[q.s].live
      BY <2>1, <2>2 DEF Hosts!ServerRow
    <3>2. Hosts!Writes(r, q.s, new)
      BY <1>5, <2>4 DEF Hosts!Rename
    <3>3. row[q.s].live => \A t \in Server \ {q.s} : row[t].live => row[t].name # q.n
      BY <2>4 DEF Hosts!NameInUse, Hosts!Live
    <3>4. new.check = "ok" => new.seen = Presents[Machine[q.s]]
      BY <1>0, <2>1, <3>1 DEF Hosts!ReadyIsPinned
    <3> HIDE DEF q, new
    <3> QED
      BY <1>2, <2>1, <3>1, <3>2, <3>3, <3>4
  <2> QED
    BY <2>3, <2>4
<1>6. CASE Hosts!SignIn(r)
  <2>1. q.s \in Server /\ q.m \in Hosts!Methods
    BY <1>0, <1>6 DEF Hosts!SignIn, Hosts!Request, Hosts!Idle
  <2>2. row[q.s] \in Hosts!ServerRow
    BY <1>0, <2>1
  <2> DEFINE new == [row[q.s] EXCEPT !.method = q.m, !.holds = IF q.given THEN {q.m} ELSE @ \cap {q.m}]
  <2>3. /\ new \in Hosts!ServerRow /\ new.check = row[q.s].check /\ new.seen = row[q.s].seen
        /\ new.name = row[q.s].name /\ new.live = row[q.s].live
    BY <2>1, <2>2 DEF Hosts!ServerRow
  <2>4. Hosts!Writes(r, q.s, new)
    BY <1>6 DEF Hosts!SignIn
  <2> HIDE DEF q, new
  <2> QED
    BY <1>3, <2>1, <2>3, <2>4
<1>7. CASE Hosts!Repin(r)
  <2>1. q.s \in Server /\ q.k \in HostKeys
    BY <1>0, <1>7 DEF Hosts!Repin, Hosts!Request, Hosts!Idle
  <2>2. row[q.s] \in Hosts!ServerRow
    BY <1>0, <2>1
  <2> DEFINE new == [row[q.s] EXCEPT !.pin = q.k, !.check = "unknown", !.seen = None]
  <2>3. /\ new \in Hosts!ServerRow /\ new.check # "ok"
        /\ new.name = row[q.s].name /\ new.live = row[q.s].live
    BY <2>1, <2>2 DEF Hosts!ServerRow
  <2>4. Hosts!Writes(r, q.s, new)
    BY <1>7 DEF Hosts!Repin
  <2>5. row[q.s].live => \A t \in Server \ {q.s} : row[t].live => row[t].name # row[q.s].name
    BY <1>0, <2>1 DEF Hosts!UniqueNames, Hosts!Live
  <2> HIDE DEF q, new
  <2> QED
    BY <1>2, <2>1, <2>3, <2>4, <2>5
<1>8. CASE Hosts!Check(r)
  <2>1. q.s \in Server /\ q.pin \in HostKeys \cup {None}
    BY <1>0, <1>8 DEF Hosts!Check, Hosts!Request, Hosts!Idle
  <2>2. row[q.s] \in Hosts!ServerRow
    BY <1>0, <2>1
  <2> DEFINE new == IF Hosts!Connects(q.pin, q.s) THEN [row[q.s] EXCEPT !.check = "ok", !.seen = q.pin]
                    ELSE [row[q.s] EXCEPT !.check = "failed", !.seen = q.pin]
  <2>3. /\ new \in Hosts!ServerRow
        /\ new.name = row[q.s].name /\ new.live = row[q.s].live
    BY <2>1, <2>2 DEF Hosts!ServerRow
  <2>4. new.check = "ok" => new.seen = Presents[Machine[q.s]]
    BY <2>1, <2>2 DEF Hosts!ServerRow, Hosts!Connects
  <2>5. Hosts!Writes(r, q.s, new)
    BY <1>8 DEF Hosts!Check
  <2>6. row[q.s].live => \A t \in Server \ {q.s} : row[t].live => row[t].name # row[q.s].name
    BY <1>0, <2>1 DEF Hosts!UniqueNames, Hosts!Live
  <2> HIDE DEF q, new
  <2> QED
    BY <1>2, <2>1, <2>3, <2>4, <2>5, <2>6
<1>9. ASSUME NEW s \in Server, row' = [row EXCEPT ![s].live = FALSE], req' = [req EXCEPT ![r] = Hosts!Idle]
      PROVE  Hosts!RowsInv'
  <2>1. row[s] \in Hosts!ServerRow
    BY <1>0
  <2> DEFINE new == [row[s] EXCEPT !.live = FALSE]
  <2>2. /\ new \in Hosts!ServerRow /\ new.check = row[s].check /\ new.seen = row[s].seen /\ ~ new.live
    BY <2>1 DEF Hosts!ServerRow
  <2>3. row' = [row EXCEPT ![s] = new]
    BY <1>9
  <2> HIDE DEF new
  <2> HIDE DEF Hosts!ServerRow, Hosts!Idle
  <2>4. row' \in [Server -> Hosts!ServerRow] /\ row'[s] = new /\ \A t \in Server \ {s} : row'[t] = row[t]
    BY <1>0, <2>2, <2>3
  <2>5. Hosts!UniqueNames' /\ Hosts!ReadyIsPinned'
    BY <1>0, <2>2, <2>4 DEF Hosts!UniqueNames, Hosts!ReadyIsPinned, Hosts!Live
  <2> QED
    BY <1>1, <1>9, <2>4, <2>5 DEF Hosts!RowsInv, Hosts!RowsTyped
<1>10. CASE Hosts!Delete(r)
  <2>1. q.s \in Server
    BY <1>0, <1>10 DEF Hosts!Delete, Hosts!Request, Hosts!Idle
  <2>2. row' = [row EXCEPT ![q.s].live = FALSE] /\ req' = [req EXCEPT ![r] = Hosts!Idle]
    BY <1>10 DEF Hosts!Delete, Hosts!Writes, Hosts!Ends
  <2> QED
    BY <1>9, <2>1, <2>2
<1>11. CASE Hosts!Merge(r)
  <2>1. q.s \in Server
    BY <1>0, <1>11 DEF Hosts!Merge, Hosts!Request, Hosts!Idle
  <2>2. row' = [row EXCEPT ![q.s].live = FALSE] /\ req' = [req EXCEPT ![r] = Hosts!Idle]
    BY <1>11 DEF Hosts!Merge, Hosts!Ends
  <2> QED
    BY <1>9, <2>1, <2>2
<1>12. CASE Hosts!AddApp(r) \/ Hosts!QueueMove(r)
  <2>1. UNCHANGED row /\ req' = [req EXCEPT ![r] = Hosts!Idle]
    BY <1>12 DEF Hosts!AddApp, Hosts!QueueMove, Hosts!Ends
  <2> QED
    BY <1>0, <1>1, <2>1 DEF Hosts!RowsInv, Hosts!RowsTyped, Hosts!UniqueNames, Hosts!ReadyIsPinned, Hosts!Live
<1> QED
  BY <1>4, <1>5, <1>6, <1>7, <1>8, <1>10, <1>11, <1>12 DEF Hosts!End

LEMMA RowsStay ==
    ASSUME Hosts!ServersAssumption, Hosts!RowsInv, [Hosts!Next]_(Hosts!vars)
    PROVE  Hosts!RowsInv'
<1>1. ASSUME UNCHANGED row, req' \in [Requests -> Hosts!Request] PROVE Hosts!RowsInv'
  BY <1>1 DEF Hosts!RowsInv, Hosts!RowsTyped, Hosts!UniqueNames, Hosts!ReadyIsPinned, Hosts!Live
<1>2. ASSUME UNCHANGED <<row, req>> PROVE Hosts!RowsInv'
  BY <1>1, <1>2 DEF Hosts!RowsInv, Hosts!RowsTyped
<1>3. ASSUME NEW r \in Requests, Hosts!Begin(r) PROVE Hosts!RowsInv'
  BY <1>1, <1>3, RequestBegins DEF Hosts!RowsInv
<1>4. CASE Hosts!Crash
  <2>1. UNCHANGED row /\ req' = [r \in Requests |-> Hosts!Idle]
    BY <1>4 DEF Hosts!Crash
  <2> QED
    BY <1>1, <2>1 DEF Hosts!Request
<1>5. CASE \/ \E a \in Apps : Hosts!RemoveApp(a)
           \/ \E m \in Moves : Hosts!Pool(m) \/ Hosts!Expire(m)
           \/ Hosts!SweepBegins \/ Hosts!Janitor \/ UNCHANGED Hosts!vars
  BY <1>2, <1>5 DEF Hosts!RemoveApp, Hosts!Pool, Hosts!StartMove, Hosts!EndMove, Hosts!Release, Hosts!MoveStep,
        Hosts!Expire, Hosts!SweepBegins, Hosts!Janitor, Hosts!ReadUnfinished, Hosts!Scan, Hosts!vars
<1> QED
  BY <1>3, <1>4, <1>5, RequestEndsRows DEF Hosts!Next

LEMMA RowsStart == ASSUME Hosts!ServersAssumption, Hosts!Init PROVE Hosts!RowsInv
<1>1. PICK there \in SUBSET Server, name \in [Server -> Names] :
         /\ \A s, t \in there : s # t => name[s] # name[t]
         /\ row = [s \in Server |-> IF s \in there THEN Hosts!Created(name[s], Presents[Machine[s]])
                                   ELSE Hosts!NoRow]
  BY DEF Hosts!Init
<1>2. \A s \in Server : Presents[Machine[s]] \in HostKeys /\ name[s] \in Names
  BY DEF Hosts!ServersAssumption
<1>3. Hosts!NoRow \in Hosts!ServerRow /\ ~ Hosts!NoRow.live /\ Hosts!NoRow.check # "ok"
  BY DEF Hosts!NoRow, Hosts!ServerRow, Hosts!Methods
<1>4. \A n \in Names, k \in HostKeys :
         /\ Hosts!Created(n, k) \in Hosts!ServerRow /\ Hosts!Created(n, k).name = n
         /\ Hosts!Created(n, k).check # "ok"
  BY DEF Hosts!Created, Hosts!ServerRow, Hosts!Methods
<1>5. req \in [Requests -> Hosts!Request]
  BY DEF Hosts!Init, Hosts!Request
<1> HIDE DEF Hosts!ServerRow
<1>6. row \in [Server -> Hosts!ServerRow]
  BY <1>1, <1>2, <1>3, <1>4
<1>7. \A s \in Server : row[s].check # "ok" /\ (row[s].live => s \in there /\ row[s].name = name[s])
  BY <1>1, <1>2, <1>3, <1>4
<1> QED
  BY <1>1, <1>5, <1>6, <1>7 DEF Hosts!RowsInv, Hosts!RowsTyped, Hosts!UniqueNames, Hosts!ReadyIsPinned, Hosts!Live

\* Live servers differ in name and a server that is ready answered with its pinned key, for
\* any number of requests whose reads and writes lie apart, and any crash between them.
THEOREM NamesAndPinsAlways ==
    ASSUME Hosts!ServersAssumption
    PROVE  Hosts!Spec => [](Hosts!UniqueNames /\ Hosts!ReadyIsPinned)
<1>1. Hosts!Init => Hosts!RowsInv
  BY RowsStart
<1>2. Hosts!RowsInv /\ [Hosts!Next]_(Hosts!vars) => Hosts!RowsInv'
  BY RowsStay
<1>3. Hosts!RowsInv => Hosts!UniqueNames /\ Hosts!ReadyIsPinned
  BY DEF Hosts!RowsInv
<1> QED
  BY <1>1, <1>2, <1>3, PTL DEF Hosts!Spec

\* What a request ends with, for the moves: only the queue touches a lock.
LEMMA RequestEndsMoves ==
    ASSUME NEW r \in Requests, Hosts!RowsTyped, Hosts!End(r)
    PROVE  /\ req' = [req EXCEPT ![r] = Hosts!Idle] /\ UNCHANGED <<janitor, robbed>>
           /\ req[r] # Hosts!Idle
           /\ Hosts!QueueMove(r) \/ UNCHANGED <<move, lock>>
<1>1. req[r].op # "idle" => req[r] # Hosts!Idle
  BY DEF Hosts!Idle
<1>2. req[r].op \in {"create", "rename", "signin", "repin", "check", "delete", "merge", "addapp", "move"}
  BY DEF Hosts!End, Hosts!Create, Hosts!Rename, Hosts!SignIn, Hosts!Repin, Hosts!Check, Hosts!Delete,
         Hosts!Merge, Hosts!AddApp, Hosts!QueueMove
<1>3. CASE Hosts!QueueMove(r)
  BY <1>1, <1>2, <1>3 DEF Hosts!QueueMove
<1>4. CASE ~ Hosts!QueueMove(r)
  <2>1. Hosts!Ends(r)
    BY <1>4 DEF Hosts!End, Hosts!Create, Hosts!Rename, Hosts!SignIn, Hosts!Repin, Hosts!Check, Hosts!Delete,
           Hosts!Merge, Hosts!AddApp, Hosts!Writes
  <2> QED
    BY <1>1, <1>2, <2>1 DEF Hosts!Ends
<1> QED
  BY <1>3, <1>4

\* A move is queued with the locks that nobody had.
LEMMA QueueKeepsMoves ==
    ASSUME NEW r \in Requests, Hosts!ServersAssumption, Hosts!MoveInv, Hosts!QueueMove(r)
    PROVE  Hosts!MoveInv'
<1> DEFINE q == req[r]
           MoveRow == [status : {"none", "queued", "running", "ended"}, from : Server \cup {None},
                       to : Server \cup {None}, at : {"none", "pool", "work", "release"}]
<1>0. /\ req \in [Requests -> Hosts!Request] /\ q \in Hosts!Request /\ q.op = "move"
      /\ lock \in [Server -> Moves \cup {None}] /\ move \in [Moves -> MoveRow]
      /\ UNCHANGED <<row, janitor, robbed>> /\ req' = [req EXCEPT ![r] = Hosts!Idle]
  BY DEF Hosts!MoveInv, Hosts!RowsTyped, Hosts!QueueMove
<1>1. q.m \in Moves /\ q.s \in Server /\ q.t \in Server
  BY <1>0 DEF Hosts!Request, Hosts!Idle
<1>2. /\ req' \in [Requests -> Hosts!Request] /\ req'[r] = Hosts!Idle
      /\ \A p \in Requests \ {r} : req'[p] = req[p]
  BY <1>0 DEF Hosts!Request
<1>4. /\ move[q.m].status = "none"
      /\ \A p \in Requests \ {r} : req[p].op = "move" => req[p].m # q.m
      /\ move[q.m].at = "none"
  BY <1>0, <1>1 DEF Hosts!MoveInv, Hosts!AskedOnce
<1>5. CASE Hosts!Acquire(q.s, q.t)
  <2> DEFINE new == [status |-> "queued", from |-> q.s, to |-> q.t, at |-> "pool"]
  <2>1. /\ lock' = [lock EXCEPT ![q.s] = q.m, ![q.t] = q.m] /\ move' = [move EXCEPT ![q.m] = new]
        /\ lock[q.s] = None /\ lock[q.t] = None
    BY <1>0, <1>5 DEF Hosts!QueueMove, Hosts!Acquire, Hosts!Held
  <2>2. new \in MoveRow /\ new.status = "queued" /\ new.from = q.s /\ new.to = q.t /\ new.at = "pool"
    BY <1>1
  <2> HIDE DEF MoveRow, new
  <2>3. /\ lock' \in [Server -> Moves \cup {None}] /\ lock'[q.s] = q.m /\ lock'[q.t] = q.m
        /\ \A s \in Server \ {q.s, q.t} : lock'[s] = lock[s]
    BY <1>0, <1>1, <2>1
  <2>4. move' \in [Moves -> MoveRow] /\ move'[q.m] = new /\ \A m \in Moves \ {q.m} : move'[m] = move[m]
    BY <1>0, <1>1, <2>1, <2>2
  <2>6. Hosts!AskedOnce'
    <3>1. Hosts!Idle.op # "move"
      BY DEF Hosts!Idle
    <3>2. \A p \in Requests : req[p].op = "move" => req[p].m \in Moves
      BY <1>0 DEF Hosts!Request, Hosts!Idle
    <3> HIDE DEF q
    <3> QED
      BY <1>2, <1>4, <2>4, <3>1, <3>2 DEF Hosts!MoveInv, Hosts!AskedOnce
  <2>7. Hosts!MovesHold'
    <3> SUFFICES ASSUME NEW m \in Moves, move'[m].at # "none"
                 PROVE  /\ {move'[m].from, move'[m].to} \subseteq Server
                        /\ m \in robbed \/ (lock'[move'[m].from] = m /\ lock'[move'[m].to] = m)
      BY <1>0 DEF Hosts!MovesHold
    <3>1. CASE m = q.m
      BY <1>1, <2>2, <2>3, <2>4, <3>1
    <3>2. CASE m # q.m
      <4>1. /\ {move[m].from, move[m].to} \subseteq Server /\ move'[m] = move[m]
            /\ m \in robbed \/ (lock[move[m].from] = m /\ lock[move[m].to] = m)
        BY <2>4, <3>2 DEF Hosts!MoveInv, Hosts!MovesHold
      <4>2. m # None
        BY DEF Hosts!ServersAssumption
      <4> HIDE DEF q
      <4> QED
        BY <2>1, <2>3, <4>1, <4>2
    <3> QED
      BY <3>1, <3>2
  <2>8. \A m \in Moves : move'[m].status = "none" => move'[m].at = "none"
    BY <2>2, <2>4 DEF Hosts!MoveInv
  <2> QED
    BY <1>0, <1>2, <2>3, <2>4, <2>6, <2>7, <2>8 DEF Hosts!MoveInv, Hosts!RowsTyped, MoveRow
<1>6. CASE ~ Hosts!Acquire(q.s, q.t)
  <2>1. UNCHANGED <<move, lock>>
    BY <1>6 DEF Hosts!QueueMove
  <2>2. Hosts!AskedOnce'
    <3>1. Hosts!Idle.op # "move"
      BY DEF Hosts!Idle
    <3> QED
      BY <1>2, <2>1, <3>1 DEF Hosts!MoveInv, Hosts!AskedOnce
  <2> QED
    BY <1>0, <1>2, <2>1, <2>2 DEF Hosts!MoveInv, Hosts!RowsTyped, Hosts!MovesHold
<1> QED
  BY <1>5, <1>6

\* Every step keeps the locks with the moves that were given them.
LEMMA MovesStay ==
    ASSUME Hosts!ServersAssumption, Hosts!RowsInv, Hosts!MoveInv, [Hosts!Next]_(Hosts!vars)
    PROVE  Hosts!MoveInv'
<1> DEFINE MoveRow == [status : {"none", "queued", "running", "ended"}, from : Server \cup {None},
                       to : Server \cup {None}, at : {"none", "pool", "work", "release"}]
           Broom == [step : {"idle", "read", "scan"}, boot : BOOLEAN, unfinished : SUBSET Moves,
                     left : SUBSET Server]
<1>0. /\ lock \in [Server -> Moves \cup {None}] /\ move \in [Moves -> MoveRow] /\ janitor \in Broom
      /\ \A m \in Moves : move[m].status = "none" => move[m].at = "none"
      /\ Hosts!RowsTyped /\ Hosts!AskedOnce /\ Hosts!MovesHold
  BY DEF Hosts!MoveInv
<1>1. Hosts!RowsTyped'
  BY RowsStay DEF Hosts!RowsInv
<1>2. Hosts!Idle.op # "move"
  BY DEF Hosts!Idle
<1>3. ASSUME NEW r \in Requests, Hosts!Begin(r) PROVE Hosts!MoveInv'
  <2>1. /\ req[r] = Hosts!Idle /\ \A q \in Requests \ {r} : req'[q] = req[q]
        /\ UNCHANGED <<move, lock, janitor, robbed>>
        /\ req'[r].op = "move" =>
              /\ move[req'[r].m].status = "none"
              /\ \A q \in Requests : req[q].op = "move" => req[q].m # req'[r].m
    BY <1>0, <1>3, RequestBegins
  <2>2. Hosts!AskedOnce'
    BY <1>0, <1>2, <2>1 DEF Hosts!AskedOnce
  <2> QED
    BY <1>0, <1>1, <2>1, <2>2 DEF Hosts!MoveInv, Hosts!MovesHold
<1>4. ASSUME NEW r \in Requests, Hosts!End(r) PROVE Hosts!MoveInv'
  <2>1. CASE Hosts!QueueMove(r)
    BY <2>1, QueueKeepsMoves
  <2>2. CASE ~ Hosts!QueueMove(r)
    <3>1. /\ req' = [req EXCEPT ![r] = Hosts!Idle] /\ UNCHANGED <<janitor, move, lock, robbed>>
          /\ req[r] # Hosts!Idle /\ req \in [Requests -> Hosts!Request]
      BY <1>0, <1>4, <2>2, RequestEndsMoves DEF Hosts!RowsTyped
    <3> HIDE DEF Hosts!Idle, Hosts!Request
    <3>2. \A p \in Requests : p # r => req'[p] = req[p]
      BY <3>1
    <3>3. req'[r] = Hosts!Idle
      BY <3>1
    <3>4. Hosts!AskedOnce'
      BY <1>0, <1>2, <3>1, <3>2, <3>3 DEF Hosts!AskedOnce
    <3> QED
      BY <1>0, <1>1, <3>1, <3>4 DEF Hosts!MoveInv, Hosts!MovesHold
  <2> QED
    BY <2>1, <2>2
<1>5. CASE UNCHANGED <<req, move, lock, janitor, robbed>>
  BY <1>0, <1>1, <1>5 DEF Hosts!MoveInv, Hosts!AskedOnce, Hosts!MovesHold
\* A move that goes on keeps its servers, and its locks unless it lets go of them.
<1>6. ASSUME NEW m \in Moves, NEW status \in {"running", "ended", move[m].status},
             NEW at \in {"none", "work", "release"},
             Hosts!MoveStep(m, status, at), move[m].at # "none",
             lock' = [s \in Server |-> IF at = "none" /\ lock[s] = m THEN None ELSE lock[s]]
      PROVE  Hosts!MoveInv'
  <2> DEFINE new == [move[m] EXCEPT !.status = status, !.at = at]
  <2>1. /\ move' = [move EXCEPT ![m] = new] /\ UNCHANGED <<req, janitor, robbed>>
    BY <1>0, <1>6 DEF Hosts!MoveStep
  <2>2. /\ new \in MoveRow /\ new.status = status /\ new.at = at
        /\ new.from = move[m].from /\ new.to = move[m].to
        /\ move[m].status # "none"
    BY <1>0, <1>6
  <2> HIDE DEF MoveRow, new
  <2>3. move' \in [Moves -> MoveRow] /\ move'[m] = new /\ \A n \in Moves \ {m} : move'[n] = move[n]
    BY <1>0, <2>1, <2>2
  <2>6. Hosts!AskedOnce'
    <3>1. \A r \in Requests : req[r].op = "move" => req[r].m \in Moves
      BY <1>0 DEF Hosts!RowsTyped, Hosts!Request, Hosts!Idle
    <3> QED
      BY <1>0, <2>1, <2>2, <2>3, <3>1 DEF Hosts!AskedOnce
  <2>7. lock' \in [Server -> Moves \cup {None}] /\ \A s \in Server : lock[s] # m => lock'[s] = lock[s]
    BY <1>0, <1>6
  <2>8. Hosts!MovesHold'
    <3> SUFFICES ASSUME NEW n \in Moves, move'[n].at # "none"
                 PROVE  /\ {move'[n].from, move'[n].to} \subseteq Server
                        /\ n \in robbed \/ (lock'[move'[n].from] = n /\ lock'[move'[n].to] = n)
      BY <2>1 DEF Hosts!MovesHold
    <3>1. CASE n # m
      BY <1>0, <2>3, <2>7, <3>1 DEF Hosts!MovesHold
    <3>2. CASE n = m
      BY <1>0, <1>6, <2>2, <2>3, <3>2 DEF Hosts!MovesHold
    <3> QED
      BY <3>1, <3>2
  <2>9. \A n \in Moves : move'[n].status = "none" => move'[n].at = "none"
    BY <1>0, <1>6, <2>2, <2>3
  <2> QED
    BY <1>1, <1>0, <2>1, <2>3, <2>6, <2>7, <2>8, <2>9 DEF Hosts!MoveInv, MoveRow
<1>7. ASSUME NEW m \in Moves, Hosts!Pool(m) PROVE Hosts!MoveInv'
  <2>1. CASE Hosts!StartMove(m)
    <3>1. /\ lock' = [s \in Server |-> lock[s]]
          /\ Hosts!MoveStep(m, "running", "work") \/ Hosts!MoveStep(m, move[m].status, "release")
          /\ move[m].at # "none"
      BY <1>0, <2>1 DEF Hosts!StartMove
    <3> HIDE DEF MoveRow
    <3> QED
      BY <1>6, <3>1
  <2>2. CASE Hosts!EndMove(m)
    <3>1. /\ lock' = [s \in Server |-> lock[s]] /\ Hosts!MoveStep(m, "ended", "release")
          /\ move[m].at # "none"
      BY <1>0, <2>2 DEF Hosts!EndMove
    <3> HIDE DEF MoveRow
    <3> QED
      BY <1>6, <3>1
  <2>3. CASE Hosts!Release(m)
    <3>1. /\ lock' = [s \in Server |-> IF lock[s] = m THEN None ELSE lock[s]]
          /\ Hosts!MoveStep(m, move[m].status, "none") /\ move[m].at # "none"
      BY <2>3 DEF Hosts!Release
    <3> HIDE DEF MoveRow
    <3> QED
      BY <1>6, <3>1
  <2> QED
    BY <1>7, <2>1, <2>2, <2>3 DEF Hosts!Pool
<1>8. CASE Hosts!Crash
  <2>1. /\ req' = [r \in Requests |-> Hosts!Idle] /\ UNCHANGED <<lock, robbed>>
        /\ move' = [m \in Moves |-> [move[m] EXCEPT !.at = "none",
                       !.status = IF @ \in {"queued", "running"} THEN "ended" ELSE @]]
        /\ janitor' = [Hosts!NoJanitor EXCEPT !.step = "read", !.boot = TRUE]
    BY <1>8 DEF Hosts!Crash
  <2>2. janitor' \in Broom
    BY <2>1 DEF Hosts!NoJanitor
  <2>3. move' \in [Moves -> MoveRow] /\ \A m \in Moves : move'[m].at = "none"
    <3>1. \A m \in Moves : move[m] \in MoveRow
      BY <1>0
    <3>2. ASSUME NEW m \in Moves
          PROVE  /\ [move[m] EXCEPT !.at = "none",
                        !.status = IF @ \in {"queued", "running"} THEN "ended" ELSE @] \in MoveRow
                 /\ [move[m] EXCEPT !.at = "none",
                        !.status = IF @ \in {"queued", "running"} THEN "ended" ELSE @].at = "none"
      BY <3>1
    <3> HIDE DEF MoveRow
    <3> QED
      BY <2>1, <3>2
  <2>4. Hosts!AskedOnce' /\ Hosts!MovesHold'
    <3> HIDE DEF Hosts!Idle
    <3> QED
      BY <1>2, <2>1, <2>3 DEF Hosts!AskedOnce, Hosts!MovesHold
  <2> QED
    BY <1>0, <1>1, <2>1, <2>2, <2>3, <2>4 DEF Hosts!MoveInv
\* A move that the cache forgets is robbed of its locks, the others keep theirs.
<1>9. ASSUME NEW m \in Moves, Hosts!Expire(m) PROVE Hosts!MoveInv'
  <2>1. /\ lock' = [s \in Server |-> IF lock[s] = m THEN None ELSE lock[s]]
        /\ robbed' = robbed \cup {m} /\ UNCHANGED <<req, move, janitor>>
    BY <1>9 DEF Hosts!Expire
  <2>2. lock' \in [Server -> Moves \cup {None}] /\ \A s \in Server : lock[s] # m => lock'[s] = lock[s]
    BY <1>0, <2>1
  <2>3. Hosts!MovesHold'
    BY <1>0, <2>1, <2>2 DEF Hosts!MovesHold
  <2> QED
    BY <1>0, <1>1, <2>1, <2>2, <2>3 DEF Hosts!MoveInv, Hosts!AskedOnce
<1>11. CASE Hosts!SweepBegins \/ Hosts!ReadUnfinished
  <2>1. janitor' \in Broom /\ UNCHANGED <<req, move, lock, robbed>>
    BY <1>0, <1>11 DEF Hosts!SweepBegins, Hosts!ReadUnfinished, Hosts!NoJanitor, Hosts!Unfinished
  <2> QED
    BY <1>0, <1>1, <2>1 DEF Hosts!MoveInv, Hosts!AskedOnce, Hosts!MovesHold
\* The sweep robs a move that is under way when it frees a lock of it.
<1>12. ASSUME NEW s \in Server, Hosts!Scan(s) PROVE Hosts!MoveInv'
  <2>1. /\ UNCHANGED <<req, move>>
        /\ lock' = IF Hosts!Abandoned(s) THEN [lock EXCEPT ![s] = None] ELSE lock
        /\ robbed' = IF Hosts!Abandoned(s) /\ move[lock[s]].at # "none"
                     THEN robbed \cup {lock[s]} ELSE robbed
    BY <1>12 DEF Hosts!Scan
  <2>2. janitor' \in Broom
    BY <1>0, <1>12 DEF Hosts!Scan, Hosts!NoJanitor
  <2>3. /\ lock' \in [Server -> Moves \cup {None}]
        /\ \A t \in Server : t # s => lock'[t] = lock[t]
        /\ \A m \in Moves : lock[s] = m /\ move[m].at # "none" => m \in robbed' \/ lock'[s] = m
        /\ robbed \subseteq robbed'
    BY <1>0, <2>1
  <2>4. Hosts!MovesHold'
    BY <1>0, <2>1, <2>3 DEF Hosts!MovesHold
  <2> QED
    BY <1>0, <1>1, <2>1, <2>2, <2>3, <2>4 DEF Hosts!MoveInv, Hosts!AskedOnce
<1>10. CASE (\E a \in Apps : Hosts!RemoveApp(a)) \/ UNCHANGED Hosts!vars
  BY <1>5, <1>10 DEF Hosts!RemoveApp, Hosts!vars
<1> QED
  BY <1>3, <1>4, <1>7, <1>8, <1>9, <1>10, <1>11, <1>12 DEF Hosts!Next, Hosts!Janitor

LEMMA MovesStart == ASSUME Hosts!ServersAssumption, Hosts!Init PROVE Hosts!MoveInv
<1>1. Hosts!RowsTyped
  BY RowsStart DEF Hosts!RowsInv
<1>2. /\ req = [r \in Requests |-> Hosts!Idle] /\ lock = [s \in Server |-> None]
      /\ move = [m \in Moves |-> [status |-> "none", from |-> None, to |-> None, at |-> "none"]]
      /\ janitor = Hosts!NoJanitor
  BY DEF Hosts!Init
<1> QED
  BY <1>1, <1>2 DEF Hosts!MoveInv, Hosts!AskedOnce, Hosts!MovesHold, Hosts!NoJanitor, Hosts!Idle

\* A move at work holds both of its servers, and of two at work that share one at least
\* one was robbed of a lock while it was under way: by a sweep that had read the unfinished
\* jobs before it was queued, or by the cache, which forgets a lock after the time limit.
\* Nothing else lets two moves meet, for any number of requests, moves, sweeps and crashes.
THEOREM OneMoveAlways ==
    ASSUME Hosts!ServersAssumption
    PROVE  Hosts!Spec => [](Hosts!OneMovePerServer /\ Hosts!WorkHoldsBoth)
<1>1. Hosts!Init => Hosts!RowsInv /\ Hosts!MoveInv
  BY RowsStart, MovesStart
<1>2. Hosts!RowsInv /\ Hosts!MoveInv /\ [Hosts!Next]_(Hosts!vars) => (Hosts!RowsInv /\ Hosts!MoveInv)'
  BY RowsStay, MovesStay
<1>3. Hosts!MoveInv => Hosts!OneMovePerServer /\ Hosts!WorkHoldsBoth
  BY DEF Hosts!MoveInv, Hosts!MovesHold, Hosts!OneMovePerServer, Hosts!WorkHoldsBoth, Hosts!Clash
<1> QED
  BY <1>1, <1>2, <1>3, PTL DEF Hosts!Spec

-----------------------------------------------------------------------------
(* Sign-in: a recovery code once, the password first, a code once.             *)

SignsIn == INSTANCE SignIn

\* What is appended to a list and was not there leaves it without repeats.
LEMMA AppendOnce ==
    ASSUME NEW S, NEW s \in Seq(S), NEW x \in S,
           SignsIn!Distinct(s), \A i \in DOMAIN s : s[i] # x
    PROVE  SignsIn!Distinct(Append(s, x))
<1>1. /\ DOMAIN s = 1 .. Len(s) /\ DOMAIN Append(s, x) = 1 .. Len(s) + 1
      /\ Append(s, x)[Len(s) + 1] = x /\ \A i \in 1 .. Len(s) : Append(s, x)[i] = s[i]
      /\ Len(s) \in Nat
  OBVIOUS
<1> QED
  BY <1>1 DEF SignsIn!Distinct

LEMMA AppendHas ==
    ASSUME NEW S, NEW s \in Seq(S), NEW x \in S
    PROVE  /\ Append(s, x) \in Seq(S)
           /\ \A i \in DOMAIN Append(s, x) : Append(s, x)[i] = x \/ \E j \in DOMAIN s : Append(s, x)[i] = s[j]
<1>1. /\ DOMAIN s = 1 .. Len(s) /\ DOMAIN Append(s, x) = 1 .. Len(s) + 1
      /\ Append(s, x)[Len(s) + 1] = x /\ \A i \in 1 .. Len(s) : Append(s, x)[i] = s[i]
      /\ Len(s) \in Nat /\ Append(s, x) \in Seq(S)
  OBVIOUS
<1> QED
  BY <1>1

\* What a request that is not idle has read.
LEMMA RequestReads ==
    ASSUME SignsIn!TypeOK, NEW r \in Requests
    PROVE  /\ req[r].at \in {"code", "recovery", "show", "enroll"} =>
                 /\ req[r] \in SignsIn!Asking
                 /\ req[r].b \in Browsers /\ req[r].s \in SignsIn!Session /\ req[r].a \in SignsIn!AccountRow
                 /\ req[r].x \in Nat \X Int
           /\ req[r].at = "accepted" =>
                 req[r] \in SignsIn!Accepted /\ req[r].b \in Browsers /\ req[r].s \in SignsIn!Session
<1>1. req[r] \in {SignsIn!Idle} \cup SignsIn!Asking \cup SignsIn!Accepted
  BY DEF SignsIn!TypeOK
<1>2. CASE req[r] = SignsIn!Idle
  BY <1>2 DEF SignsIn!Idle
<1>3. CASE req[r] \in SignsIn!Asking
  BY <1>3 DEF SignsIn!Asking
<1>4. CASE req[r] \in SignsIn!Accepted
  BY <1>4 DEF SignsIn!Accepted
<1> QED
  BY <1>1, <1>2, <1>3, <1>4

\* A step that matches is one that was typed, and a time.
LEMMA Matches ==
    ASSUME SignsIn!TypeOK, NEW x \in Nat \X Int, NEW secret, NEW after,
           SignsIn!matching_step(secret, x, after) # SignsIn!NoStep
    PROVE  /\ SignsIn!matching_step(secret, x, after) = x[2] /\ x[1] = secret /\ x[2] \in Nat /\ x[2] > after
<1>1. now \in Nat
  BY DEF SignsIn!TypeOK
<1> QED
  BY <1>1 DEF SignsIn!matching_step, SignsIn!NoStep, SignsIn!DRIFT_STEPS

LEMMA SignInTypesStay ==
    ASSUME SignsIn!SignInAssumption, SignsIn!TypeOK, [SignsIn!Next]_(SignsIn!vars)
    PROVE  SignsIn!TypeOK'
<1> DEFINE S == SignsIn!Session
           A == SignsIn!AccountRow
           R == {SignsIn!Idle} \cup SignsIn!Asking \cup SignsIn!Accepted
<1>0. /\ now \in Nat /\ secrets \in Nat /\ sets \in Nat /\ acct \in A
      /\ sess \in [Browsers -> S] /\ req \in [Requests -> R]
      /\ accepted \in Seq(Nat \X Int) /\ used \in Seq(Nat \X Nat)
      /\ passwords \in [Browsers -> Nat] /\ signIns \in [Browsers -> Nat]
      /\ again \in [Browsers -> Nat]
  BY DEF SignsIn!TypeOK
<1> DEFINE T == /\ now' \in Nat /\ secrets' \in Nat /\ sets' \in Nat /\ acct' \in A
                /\ sess' \in [Browsers -> S] /\ req' \in [Requests -> R]
                /\ accepted' \in Seq(Nat \X Int) /\ used' \in Seq(Nat \X Nat)
                /\ passwords' \in [Browsers -> Nat] /\ signIns' \in [Browsers -> Nat]
                /\ again' \in [Browsers -> Nat]
<1> SUFFICES T
  BY DEF SignsIn!TypeOK
<1>1. \A g \in Nat : SignsIn!CodesOf(g) \in SUBSET (Nat \X Nat)
  BY DEF SignsIn!CodesOf, SignsIn!SignInAssumption
<1>2. ASSUME NEW s \in S PROVE SignsIn!Clean(s) \in S
  BY <1>2 DEF SignsIn!Clean, SignsIn!Session
<1>20. ASSUME NEW s \in S, NEW k \in Nat, NEW y \in BOOLEAN
       PROVE  [s EXCEPT !.key = k, !.signed = y] \in S
  BY DEF SignsIn!Session
<1>3. SignsIn!Idle \in R
  OBVIOUS
<1>4. ASSUME NEW r \in Requests, req[r].at \in {"code", "recovery", "enroll"}, SignsIn!Accept(r)
      PROVE  req' \in [Requests -> R]
  <2> DEFINE q == [at |-> "accepted", b |-> req[r].b, s |-> req[r].s]
  <2>1. q \in R
    BY <1>4, RequestReads DEF SignsIn!Accepted
  <2>2. req' = [req EXCEPT ![r] = q]
    BY <1>4 DEF SignsIn!Accept
  <2> HIDE DEF q, R
  <2> QED
    BY <1>0, <2>1, <2>2
<1>5. ASSUME NEW b \in Browsers, SignsIn!Password(b) PROVE T
  <2> DEFINE s == [key |-> sess[b].key + 1, user |-> TRUE, since |-> now, held |-> 0, signed |-> FALSE]
  <2>1. s \in S
    BY <1>0 DEF SignsIn!Session
  <2>2. /\ sess' = [sess EXCEPT ![b] = s] /\ passwords' = [passwords EXCEPT ![b] = @ + 1]
        /\ UNCHANGED <<now, acct, req, secrets, sets, accepted, used, signIns, again>>
    BY <1>5 DEF SignsIn!Password
  <2> HIDE DEF s, S, A, R
  <2> QED
    BY <1>0, <2>1, <2>2
<1>6. ASSUME NEW b \in Browsers, SignsIn!SignOut(b) PROVE T
  <2> DEFINE c == SignsIn!Clean(sess[b])
             s == [c EXCEPT !.key = sess[b].key + 1, !.signed = FALSE]
  <2>1. s \in S
    <3>1. c \in S /\ sess[b].key + 1 \in Nat
      BY <1>0, <1>2 DEF SignsIn!Session
    <3> HIDE DEF c, S
    <3> QED
      BY <1>20, <3>1
  <2>2. /\ sess' = [sess EXCEPT ![b] = s]
        /\ UNCHANGED <<now, acct, req, secrets, sets, accepted, used, passwords, signIns, again>>
    BY <1>6 DEF SignsIn!SignOut, SignsIn!History
  <2> HIDE DEF s, S, A, R
  <2> QED
    BY <1>0, <2>1, <2>2
<1>7. ASSUME NEW b \in Browsers, SignsIn!Expired(b) PROVE T
  <2>1. /\ sess' = [sess EXCEPT ![b] = SignsIn!Clean(sess[b])]
        /\ UNCHANGED <<now, acct, req, secrets, sets, accepted, used, passwords, signIns, again>>
    BY <1>7 DEF SignsIn!Expired, SignsIn!History
  <2> HIDE DEF S, A, R
  <2> QED
    BY <1>0, <1>2, <2>1
<1>8. ASSUME NEW a \in A, acct' = a, sets' \in Nat,
             UNCHANGED <<now, sess, req, secrets, accepted, used, passwords, signIns, again>>
      PROVE  T
  <2> HIDE DEF S, A, R
  <2> QED
    BY <1>0, <1>8
<1>9. ASSUME NEW b \in Browsers, SignsIn!NewCodes(b) PROVE T
  <2> DEFINE codes == SignsIn!CodesOf(sets + 1)
             a == [acct EXCEPT !.codes = codes]
  <2>1. a \in A
    <3>1. codes \in SUBSET (Nat \X Nat)
      BY <1>0, <1>1
    <3> HIDE DEF codes
    <3> QED
      BY <1>0, <3>1 DEF SignsIn!AccountRow
  <2>2. /\ acct' = a /\ sets' = sets + 1
        /\ UNCHANGED <<now, sess, req, secrets, accepted, used, passwords, signIns, again>>
    BY <1>9 DEF SignsIn!NewCodes, SignsIn!replaced, SignsIn!History
  <2> HIDE DEF A
  <2> QED
    BY <1>0, <1>8, <2>1, <2>2
<1>10. CASE SignsIn!Reset
  <2> DEFINE a == [acct EXCEPT !.secret = 0, !.last = SignsIn!NoStep, !.codes = {}]
  <2>1. a \in A
    BY <1>0 DEF SignsIn!AccountRow
  <2>2. /\ acct' = a /\ sets' = sets
        /\ UNCHANGED <<now, sess, req, secrets, accepted, used, passwords, signIns, again>>
    BY <1>10 DEF SignsIn!Reset, SignsIn!History
  <2> HIDE DEF A
  <2> QED
    BY <1>0, <1>8, <2>1, <2>2
<1>11. CASE SignsIn!SetActive
  <2> DEFINE a == [acct EXCEPT !.active = ~@]
  <2>1. a \in A
    BY <1>0 DEF SignsIn!AccountRow
  <2>2. /\ acct' = a /\ sets' = sets
        /\ UNCHANGED <<now, sess, req, secrets, accepted, used, passwords, signIns, again>>
    BY <1>11 DEF SignsIn!SetActive, SignsIn!History
  <2> HIDE DEF A
  <2> QED
    BY <1>0, <1>8, <2>1, <2>2
<1>12. CASE SignsIn!Tick \/ UNCHANGED SignsIn!vars
  <2>1. /\ now' \in Nat
        /\ UNCHANGED <<acct, sess, req, secrets, sets, accepted, used, passwords, signIns, again>>
    BY <1>0, <1>12 DEF SignsIn!Tick, SignsIn!vars, SignsIn!History
  <2> HIDE DEF S, A, R
  <2> QED
    BY <1>0, <2>1
<1>13. ASSUME NEW r \in Requests, NEW b \in Browsers, NEW op \in Ops, SignsIn!Ask(r, b, op) PROVE T
  <2>1. PICK x \in SignsIn!Typed(op) :
           req' = [req EXCEPT ![r] = [at |-> op, b |-> b, s |-> sess[b], a |-> acct, x |-> x]]
    BY <1>13 DEF SignsIn!Ask
  <2>2. op \in {"code", "recovery", "show", "enroll"}
    BY DEF SignsIn!SignInAssumption
  <2>3. x \in Nat \X Int
    <3>1. 1 .. secrets \subseteq Nat /\ now - 1 .. now + 1 \subseteq Int /\ <<0, 0>> \in Nat \X Int
      BY <1>0
    <3>2. CASE op \in {"code", "enroll"}
      BY <3>1, <3>2 DEF SignsIn!Typed
    <3>3. CASE op = "recovery"
      <4>1. PICK g \in 1 .. sets : x \in SignsIn!CodesOf(g)
        BY <3>3 DEF SignsIn!Typed
      <4> QED
        BY <1>0, <1>1, <4>1
    <3>4. CASE op = "show"
      BY <3>1, <3>4 DEF SignsIn!Typed
    <3> QED
      BY <2>2, <3>2, <3>3, <3>4
  <2> DEFINE q == [at |-> op, b |-> b, s |-> sess[b], a |-> acct, x |-> x]
  <2>4. q \in R
    BY <1>0, <2>2, <2>3 DEF SignsIn!Asking
  <2>5. UNCHANGED <<now, acct, sess, secrets, sets, accepted, used, passwords, signIns, again>>
    BY <1>13 DEF SignsIn!Ask, SignsIn!History
  <2>6. req' = [req EXCEPT ![r] = q]
    BY <2>1
  <2> HIDE DEF q, S, A, R
  <2> QED
    BY <1>0, <2>4, <2>5, <2>6
<1>14. ASSUME NEW r \in Requests, SignsIn!Verify(r) PROVE T
  <2> DEFINE matched == SignsIn!matching_step(req[r].a.secret, req[r].x, req[r].a.last)
             a == [acct EXCEPT !.last = matched]
  <2>1. /\ req[r].at = "code" /\ matched # SignsIn!NoStep /\ acct' = a
        /\ accepted' = Append(accepted, req[r].x) /\ SignsIn!Accept(r)
        /\ UNCHANGED <<now, sess, secrets, sets, used, passwords, signIns, again>>
    BY <1>14 DEF SignsIn!Verify
  <2>2. req[r].x \in Nat \X Int
    BY <2>1, RequestReads
  <2>3. matched \in Nat
    BY <2>1, <2>2, Matches
  <2>4. a \in A
    <3> HIDE DEF matched
    <3> QED
      BY <1>0, <2>3 DEF SignsIn!AccountRow
  <2>5. accepted' \in Seq(Nat \X Int)
    BY <1>0, <2>1, <2>2, AppendHas
  <2>6. req' \in [Requests -> R]
    BY <1>4, <2>1
  <2> HIDE DEF a, S, A, R
  <2> QED
    BY <1>0, <2>1, <2>4, <2>5, <2>6
<1>15. ASSUME NEW r \in Requests, SignsIn!UseRecovery(r) PROVE T
  <2> DEFINE a == [acct EXCEPT !.codes = @ \ {req[r].x}]
  <2>1. /\ req[r].at = "recovery" /\ req[r].x \in acct.codes /\ acct' = a
        /\ used' = Append(used, req[r].x) /\ SignsIn!Accept(r)
        /\ UNCHANGED <<now, sess, secrets, sets, accepted, passwords, signIns, again>>
    BY <1>15 DEF SignsIn!UseRecovery, SignsIn!unused
  <2>2. a \in A /\ req[r].x \in Nat \X Nat
    BY <1>0, <2>1 DEF SignsIn!AccountRow
  <2>3. used' \in Seq(Nat \X Nat)
    BY <1>0, <2>1, <2>2, AppendHas
  <2>4. req' \in [Requests -> R]
    BY <1>4, <2>1
  <2> HIDE DEF a, S, A, R
  <2> QED
    BY <1>0, <2>1, <2>2, <2>3, <2>4
<1>16. ASSUME NEW r \in Requests, SignsIn!Refuse(r) PROVE T
  <2>1. /\ req' = [req EXCEPT ![r] = SignsIn!Idle]
        /\ UNCHANGED <<now, acct, sess, secrets, sets, accepted, used, passwords, signIns, again>>
    BY <1>16 DEF SignsIn!Refuse, SignsIn!History
  <2> HIDE DEF S, A, R
  <2> QED
    BY <1>0, <1>3, <2>1
<1>17. ASSUME NEW r \in Requests, SignsIn!Show(r) PROVE T
  <2>1. /\ req[r].at = "show" /\ req' = [req EXCEPT ![r] = SignsIn!Idle]
        /\ secrets' = IF req[r].s.held # 0 THEN secrets ELSE secrets + 1
        /\ \/ sess' = sess
           \/ sess' = [sess EXCEPT ![req[r].b] = [req[r].s EXCEPT !.held =
                          IF req[r].s.held # 0 THEN req[r].s.held ELSE secrets + 1]]
        /\ UNCHANGED <<now, acct, sets, accepted, used, passwords, signIns, again>>
    BY <1>17 DEF SignsIn!Show, SignsIn!History
  <2> DEFINE h == IF req[r].s.held # 0 THEN req[r].s.held ELSE secrets + 1
             s == [req[r].s EXCEPT !.held = h]
  <2>2. req[r].s \in S
    BY <2>1, RequestReads
  <2>3. s \in S
    <3>1. h \in Nat
      BY <1>0, <2>2 DEF SignsIn!Session
    <3> HIDE DEF h
    <3> QED
      BY <2>2, <3>1 DEF SignsIn!Session
  <2>4. sess' = sess \/ sess' = [sess EXCEPT ![req[r].b] = s]
    BY <2>1
  <2>5. secrets' \in Nat
    BY <1>0, <2>1
  <2> HIDE DEF s, S, A, R
  <2> QED
    BY <1>0, <1>3, <2>1, <2>3, <2>4, <2>5
<1>18. ASSUME NEW r \in Requests, SignsIn!Enroll(r) PROVE T
  <2> DEFINE matched == SignsIn!matching_step(req[r].s.held, req[r].x, SignsIn!NoStep)
             codes == SignsIn!CodesOf(sets + 1)
             a == [acct EXCEPT !.secret = req[r].s.held, !.last = matched, !.codes = codes]
  <2>1. /\ req[r].at = "enroll" /\ matched # SignsIn!NoStep /\ acct' = a /\ sets' = sets + 1
        /\ accepted' = Append(accepted, req[r].x) /\ SignsIn!Accept(r)
        /\ UNCHANGED <<now, sess, secrets, used, passwords, signIns, again>>
    BY <1>18 DEF SignsIn!Enroll, SignsIn!replaced
  <2>2. req[r].x \in Nat \X Int /\ req[r].s.held \in Nat
    BY <2>1, RequestReads DEF SignsIn!Session
  <2>3. matched \in Nat
    BY <2>1, <2>2, Matches
  <2>4. a \in A
    <3>1. codes \in SUBSET (Nat \X Nat)
      BY <1>0, <1>1
    <3> HIDE DEF matched, codes
    <3> QED
      BY <1>0, <2>2, <2>3, <3>1 DEF SignsIn!AccountRow
  <2>5. accepted' \in Seq(Nat \X Int)
    BY <1>0, <2>1, <2>2, AppendHas
  <2>6. req' \in [Requests -> R]
    BY <1>4, <2>1
  <2> HIDE DEF a, S, A, R
  <2> QED
    BY <1>0, <2>1, <2>4, <2>5, <2>6
<1>19. ASSUME NEW r \in Requests, SignsIn!Complete(r) PROVE T
  <2> DEFINE b == req[r].b
             c == SignsIn!Clean(req[r].s)
             s == [c EXCEPT !.key = sess[b].key + 1, !.signed = TRUE]
  <2>1. /\ req[r].at = "accepted" /\ sess' = [sess EXCEPT ![b] = s]
        /\ signIns' = [signIns EXCEPT ![b] = @ + 1] /\ req' = [req EXCEPT ![r] = SignsIn!Idle]
        /\ again' \in {again, [again EXCEPT ![b] = @ + 1]}
        /\ UNCHANGED <<now, acct, secrets, sets, accepted, used, passwords>>
    BY <1>19 DEF SignsIn!Complete, SignsIn!Ended
  <2>2. s \in S /\ b \in Browsers
    <3>1. c \in S /\ b \in Browsers /\ sess[b] \in S
      BY <1>0, <1>2, <2>1, RequestReads
    <3>2. sess[b].key + 1 \in Nat
      BY <3>1 DEF SignsIn!Session
    <3> HIDE DEF b, c, S
    <3> QED
      BY <1>20, <3>1, <3>2
  <2> HIDE DEF b, s, S, A, R
  <2>3. again' \in [Browsers -> Nat]
    <3>1. CASE again' = again
      BY <1>0, <3>1
    <3>2. CASE again' = [again EXCEPT ![b] = @ + 1]
      BY <1>0, <2>2, <3>2
    <3> QED
      BY <2>1, <3>1, <3>2
  <2>4. sess' \in [Browsers -> S]
    BY <1>0, <2>1, <2>2
  <2>5. req' \in [Requests -> R]
    BY <1>0, <1>3, <2>1
  <2>6. signIns' \in [Browsers -> Nat]
    BY <1>0, <2>1, <2>2
  <2> QED
    BY <1>0, <2>1, <2>3, <2>4, <2>5, <2>6
<1> HIDE DEF T
<1> QED
  BY <1>5, <1>6, <1>7, <1>9, <1>10, <1>11, <1>12, <1>13, <1>14, <1>15, <1>16, <1>17, <1>18, <1>19
     DEF SignsIn!Next

LEMMA SignInTypesStart == ASSUME SignsIn!SignInAssumption, SignsIn!Init PROVE SignsIn!TypeOK
<1>1. acct \in SignsIn!AccountRow
  BY DEF SignsIn!Init, SignsIn!AccountRow, SignsIn!CodesOf, SignsIn!SignInAssumption
<1>2. sess \in [Browsers -> SignsIn!Session]
  BY DEF SignsIn!Init, SignsIn!Session
<1> QED
  BY <1>1, <1>2 DEF SignsIn!Init, SignsIn!TypeOK

\* Recovery codes leave the account one by one, or all for a new set.
LEMMA RecoveryStays ==
    ASSUME SignsIn!TypeOK, SignsIn!RecoveryInv, [SignsIn!Next]_(SignsIn!vars)
    PROVE  SignsIn!RecoveryInv' /\ [SignsIn!OldCodesDead]_(SignsIn!vars)
<1> USE DEF SignsIn!RecoveryOnce
<1>0. /\ sets \in Nat /\ acct \in SignsIn!AccountRow /\ used \in Seq(Nat \X Nat)
      /\ acct.codes \subseteq SignsIn!CodesOf(sets)
      /\ \A i \in DOMAIN used : used[i] \notin acct.codes /\ used[i][1] <= sets
      /\ SignsIn!Distinct(used)
  BY DEF SignsIn!TypeOK, SignsIn!RecoveryInv
<1>1. \A g \in Nat : \A x \in SignsIn!CodesOf(g) : x[1] = g
  BY DEF SignsIn!CodesOf
<1>2. \A i \in DOMAIN used : used[i] \in Nat \X Nat
  BY <1>0
<1>3. ASSUME UNCHANGED <<sets, used>>, acct'.codes = acct.codes
      PROVE  SignsIn!RecoveryInv' /\ [SignsIn!OldCodesDead]_(SignsIn!vars)
  BY <1>0, <1>3 DEF SignsIn!RecoveryInv, SignsIn!CodesOf, SignsIn!OldCodesDead, SignsIn!Distinct
<1>4. ASSUME UNCHANGED used, sets' = sets + 1, acct'.codes = SignsIn!CodesOf(sets + 1)
      PROVE  SignsIn!RecoveryInv' /\ [SignsIn!OldCodesDead]_(SignsIn!vars)
  <2>1. \A i \in DOMAIN used : used[i] \notin SignsIn!CodesOf(sets + 1) /\ used[i][1] <= sets + 1
    BY <1>0, <1>1, <1>2
  <2>2. acct'.codes \subseteq SignsIn!CodesOf(sets')
    BY <1>4
  <2> QED
    BY <1>0, <1>4, <2>1, <2>2 DEF SignsIn!RecoveryInv, SignsIn!CodesOf, SignsIn!OldCodesDead, SignsIn!Distinct
<1>5. ASSUME NEW r \in Requests, SignsIn!UseRecovery(r)
      PROVE  SignsIn!RecoveryInv' /\ [SignsIn!OldCodesDead]_(SignsIn!vars)
  <2> DEFINE x == req[r].x
  <2>1. /\ x \in acct.codes /\ acct' = [acct EXCEPT !.codes = @ \ {x}]
        /\ used' = Append(used, x) /\ UNCHANGED sets
    BY <1>5 DEF SignsIn!UseRecovery, SignsIn!unused
  <2>2. acct'.codes = acct.codes \ {x} /\ x \in Nat \X Nat /\ x[1] = sets
    BY <1>0, <1>1, <2>1 DEF SignsIn!AccountRow
  <2>3. SignsIn!Distinct(used')
    <3>1. \A i \in DOMAIN used : used[i] # x
      BY <1>0, <2>1
    <3> HIDE DEF x
    <3> QED
      BY <1>0, <2>1, <2>2, <3>1, AppendOnce
  <2>4. \A i \in DOMAIN used' : used'[i] = x \/ \E j \in DOMAIN used : used'[i] = used[j]
    <3> HIDE DEF x
    <3> QED
      BY <1>0, <2>1, <2>2, AppendHas
  <2>5. \A i \in DOMAIN used' : used'[i] \notin acct'.codes /\ used'[i][1] <= sets
    BY <1>0, <2>1, <2>2, <2>4
  <2>6. used'[Len(used')] = x
    BY <1>0, <2>1
  <2>7. acct'.codes \subseteq SignsIn!CodesOf(sets')
    BY <1>0, <2>1, <2>2
  <2> QED
    BY <2>1, <2>2, <2>3, <2>5, <2>6, <2>7 DEF SignsIn!RecoveryInv, SignsIn!OldCodesDead, SignsIn!Distinct
<1>6. ASSUME NEW b \in Browsers, SignsIn!NewCodes(b)
      PROVE  SignsIn!RecoveryInv' /\ [SignsIn!OldCodesDead]_(SignsIn!vars)
  <2>1. /\ acct' = [acct EXCEPT !.codes = SignsIn!CodesOf(sets + 1)] /\ sets' = sets + 1 /\ UNCHANGED used
    BY <1>6 DEF SignsIn!NewCodes, SignsIn!replaced, SignsIn!History
  <2>2. acct'.codes = SignsIn!CodesOf(sets + 1)
    BY <1>0, <2>1 DEF SignsIn!AccountRow
  <2> QED
    BY <1>4, <2>1, <2>2
<1>7. ASSUME NEW r \in Requests, SignsIn!Enroll(r)
      PROVE  SignsIn!RecoveryInv' /\ [SignsIn!OldCodesDead]_(SignsIn!vars)
  <2>1. /\ acct'.codes = SignsIn!CodesOf(sets + 1) /\ sets' = sets + 1 /\ UNCHANGED used
    BY <1>0, <1>7 DEF SignsIn!Enroll, SignsIn!replaced, SignsIn!AccountRow
  <2> QED
    BY <1>4, <2>1
<1>8. CASE SignsIn!Reset
  <2>1. /\ acct' = [acct EXCEPT !.secret = 0, !.last = SignsIn!NoStep, !.codes = {}] /\ UNCHANGED <<sets, used>>
    BY <1>8 DEF SignsIn!Reset, SignsIn!History
  <2>2. acct'.codes = {}
    BY <1>0, <2>1 DEF SignsIn!AccountRow
  <2> QED
    BY <1>0, <2>1, <2>2 DEF SignsIn!RecoveryInv, SignsIn!OldCodesDead, SignsIn!Distinct
<1>9. CASE SignsIn!SetActive
  <2>1. acct'.codes = acct.codes /\ UNCHANGED <<sets, used>>
    BY <1>0, <1>9 DEF SignsIn!SetActive, SignsIn!History, SignsIn!AccountRow
  <2> QED
    BY <1>3, <2>1
<1>10. ASSUME NEW r \in Requests, SignsIn!Verify(r)
       PROVE  SignsIn!RecoveryInv' /\ [SignsIn!OldCodesDead]_(SignsIn!vars)
  <2>1. acct'.codes = acct.codes /\ UNCHANGED <<sets, used>>
    BY <1>0, <1>10 DEF SignsIn!Verify, SignsIn!AccountRow
  <2> QED
    BY <1>3, <2>1
<1>11. ASSUME UNCHANGED <<acct, sets, used>> PROVE SignsIn!RecoveryInv' /\ [SignsIn!OldCodesDead]_(SignsIn!vars)
  BY <1>3, <1>11
<1>12. ASSUME NEW b \in Browsers, SignsIn!Password(b) \/ SignsIn!SignOut(b) \/ SignsIn!Expired(b)
       PROVE  UNCHANGED <<acct, sets, used>>
  BY <1>12 DEF SignsIn!Password, SignsIn!SignOut, SignsIn!Expired, SignsIn!History
<1>13. ASSUME NEW r \in Requests, SignsIn!Refuse(r) \/ SignsIn!Show(r) \/ SignsIn!Complete(r)
       PROVE  UNCHANGED <<acct, sets, used>>
  BY <1>13 DEF SignsIn!Refuse, SignsIn!Show, SignsIn!Complete, SignsIn!History
<1>14. ASSUME NEW r \in Requests, NEW b \in Browsers, NEW op \in Ops, SignsIn!Ask(r, b, op)
       PROVE  UNCHANGED <<acct, sets, used>>
  BY <1>14 DEF SignsIn!Ask, SignsIn!History
<1>15. CASE SignsIn!Tick \/ UNCHANGED SignsIn!vars
  BY <1>11, <1>15 DEF SignsIn!Tick, SignsIn!History, SignsIn!vars
<1> QED
  BY <1>5, <1>6, <1>7, <1>8, <1>9, <1>10, <1>11, <1>12, <1>13, <1>14, <1>15 DEF SignsIn!Next

\* A recovery code signs in once, and only while its set is the last one given, however many
\* requests bring it and whatever is enrolled, reset or replaced between its reading and its use.
THEOREM RecoveryOnceAlways ==
    ASSUME SignsIn!SignInAssumption
    PROVE  SignsIn!Spec => []SignsIn!RecoveryOnce /\ [][SignsIn!OldCodesDead]_(SignsIn!vars)
<1>1. SignsIn!Init => SignsIn!TypeOK /\ SignsIn!RecoveryInv
  BY SignInTypesStart DEF SignsIn!Init, SignsIn!RecoveryInv, SignsIn!RecoveryOnce, SignsIn!Distinct, SignsIn!CodesOf
<1>2. SignsIn!TypeOK /\ SignsIn!RecoveryInv /\ [SignsIn!Next]_(SignsIn!vars)
         => (SignsIn!TypeOK /\ SignsIn!RecoveryInv)' /\ [SignsIn!OldCodesDead]_(SignsIn!vars)
  BY SignInTypesStay, RecoveryStays
<1>3. SignsIn!RecoveryInv => SignsIn!RecoveryOnce
  BY DEF SignsIn!RecoveryInv
<1> QED
  BY <1>1, <1>2, <1>3, PTL DEF SignsIn!Spec

\* A right password is used up by the sign-in it leads to, or by one more from a session
\* that has changed its key meanwhile.
LEMMA PasswordStays ==
    ASSUME SignsIn!TypeOK, SignsIn!PasswordInv, [SignsIn!Next]_(SignsIn!vars)
    PROVE  SignsIn!PasswordInv'
<1> USE DEF SignsIn!Busy
<1>0. /\ sess \in [Browsers -> SignsIn!Session] /\ passwords \in [Browsers -> Nat] /\ signIns \in [Browsers -> Nat]
      /\ again \in [Browsers -> Nat]
      /\ req \in [Requests -> {SignsIn!Idle} \cup SignsIn!Asking \cup SignsIn!Accepted]
      /\ \A b \in Browsers : signIns[b] <= passwords[b] + again[b]
      /\ \A b \in Browsers : SignsIn!Waits(b) => signIns[b] < passwords[b] + again[b]
      /\ \A r \in Requests : req[r].at # "idle" => req[r].s.key <= sess[req[r].b].key
  BY DEF SignsIn!TypeOK, SignsIn!PasswordInv, SignsIn!PasswordFirst
<1>1. SignsIn!Idle.at = "idle"
  BY DEF SignsIn!Idle
<1>17. \A r \in Requests : req[r].at # "idle" =>
          /\ req[r].at \in {"code", "recovery", "show", "enroll", "accepted"}
          /\ req[r].b \in Browsers /\ req[r].s \in SignsIn!Session /\ req[r].s.key \in Nat
  <2>1. ASSUME NEW r \in Requests, req[r].at # "idle"
        PROVE  req[r].at \in {"code", "recovery", "show", "enroll", "accepted"}
    BY <1>0, <2>1 DEF SignsIn!Idle, SignsIn!Asking, SignsIn!Accepted
  <2>2. \A s \in SignsIn!Session : s.key \in Nat
    BY DEF SignsIn!Session
  <2> HIDE DEF SignsIn!Session
  <2> QED
    BY <2>1, <2>2, RequestReads
<1>18. \A b \in Browsers : sess[b].key \in Nat
  BY <1>0 DEF SignsIn!Session
<1>2. ASSUME UNCHANGED <<passwords, signIns, again>>, \A b \in Browsers : SignsIn!Waits(b)' => SignsIn!Waits(b),
             \A r \in Requests : req'[r].at # "idle" => req'[r].s.key <= sess'[req'[r].b].key
      PROVE  SignsIn!PasswordInv'
  BY <1>0, <1>2 DEF SignsIn!PasswordInv, SignsIn!PasswordFirst
\* The requests that come or go without a sign-in, and leave the key of the session.
<1>3. ASSUME NEW r \in Requests, NEW q, req' = [req EXCEPT ![r] = q], UNCHANGED <<passwords, signIns, again>>,
             q.at # "idle" => /\ q.b \in Browsers /\ q.s.key <= sess[q.b].key
                              /\ q.s.key = sess[q.b].key => SignsIn!Waits(q.b),
             \A b \in Browsers : sess'[b].key = sess[b].key /\ (sess'[b].user => SignsIn!Waits(b))
      PROVE  SignsIn!PasswordInv'
  <2> HIDE DEF SignsIn!Idle, SignsIn!Asking, SignsIn!Accepted, SignsIn!Session
  <2>1. req'[r] = q /\ \A p \in Requests : p # r => req'[p] = req[p]
    BY <1>0, <1>3
  <2>2. ASSUME NEW b \in Browsers, SignsIn!Waits(b)' PROVE SignsIn!Waits(b)
    BY <1>3, <2>1, <2>2 DEF SignsIn!Waits, SignsIn!SameSession
  <2>3. ASSUME NEW p \in Requests, req'[p].at # "idle" PROVE req'[p].s.key <= sess'[req'[p].b].key
    <3>1. CASE p = r
      BY <1>3, <2>1, <2>3, <3>1
    <3>2. CASE p # r
      BY <1>0, <1>3, <1>17, <2>1, <2>3, <3>2
    <3> QED
      BY <3>1, <3>2
  <2> QED
    BY <1>2, <1>3, <2>2, <2>3
\* A session that changes and is not waiting afterwards: its key only grows.
<1>5. ASSUME NEW b \in Browsers, NEW s, sess' = [sess EXCEPT ![b] = s], ~ s.user,
             s.key \in {sess[b].key, sess[b].key + 1}, UNCHANGED <<req, passwords, signIns, again>>
      PROVE  SignsIn!PasswordInv'
  <2>1. sess'[b] = s /\ \A c \in Browsers : c # b => sess'[c] = sess[c]
    BY <1>0, <1>5
  <2> HIDE DEF SignsIn!Session
  <2>2. ASSUME NEW c \in Browsers, SignsIn!Waits(c)' PROVE SignsIn!Waits(c)
    <3>1. CASE c # b
      BY <1>5, <2>1, <2>2, <3>1 DEF SignsIn!Waits, SignsIn!SameSession
    <3>2. CASE c = b
      <4>1. PICK r \in Requests : req[r].at # "idle" /\ req[r].b = b /\ req[r].s.key = s.key
        BY <1>5, <2>1, <2>2, <3>2 DEF SignsIn!Waits, SignsIn!SameSession
      <4>2. s.key = sess[b].key
        BY <1>0, <1>5, <1>17, <1>18, <4>1
      <4> QED
        BY <3>2, <4>1, <4>2 DEF SignsIn!Waits, SignsIn!SameSession
    <3> QED
      BY <3>1, <3>2
  <2>3. ASSUME NEW p \in Requests, req'[p].at # "idle" PROVE req'[p].s.key <= sess'[req'[p].b].key
    <3>1. req[p].at # "idle" /\ req[p].b \in Browsers /\ req[p].s.key \in Nat /\ req' = req
          /\ req[p].s.key <= sess[req[p].b].key
      BY <1>0, <1>5, <1>17, <2>3
    <3>2. CASE req[p].b = b
      BY <1>5, <1>18, <2>1, <3>1, <3>2
    <3>3. CASE req[p].b # b
      BY <2>1, <3>1, <3>3
    <3> QED
      BY <3>2, <3>3
  <2> QED
    BY <1>2, <1>5, <2>2, <2>3
<1>4. ASSUME NEW b \in Browsers, SignsIn!Password(b) PROVE SignsIn!PasswordInv'
  <2>1. /\ passwords' = [passwords EXCEPT ![b] = @ + 1] /\ UNCHANGED <<req, signIns, again>>
        /\ sess'[b].key = sess[b].key + 1
        /\ \A c \in Browsers : c # b => sess'[c] = sess[c]
    BY <1>0, <1>4 DEF SignsIn!Password
  <2>2. passwords'[b] = passwords[b] + 1 /\ \A c \in Browsers : c # b => passwords'[c] = passwords[c]
    BY <1>0, <2>1
  <2>3. \A c \in Browsers : passwords[c] \in Nat /\ signIns[c] \in Nat /\ again[c] \in Nat
    BY <1>0
  <2> HIDE DEF SignsIn!Session, SignsIn!Idle, SignsIn!Asking, SignsIn!Accepted
  <2>4. \A c \in Browsers : c # b => (SignsIn!Waits(c)' <=> SignsIn!Waits(c))
    BY <2>1 DEF SignsIn!Waits, SignsIn!SameSession
  <2>5. ASSUME NEW p \in Requests, req'[p].at # "idle" PROVE req'[p].s.key <= sess'[req'[p].b].key
    <3>1. req[p].at # "idle" /\ req[p].b \in Browsers /\ req[p].s.key \in Nat /\ req' = req
          /\ req[p].s.key <= sess[req[p].b].key
      BY <1>0, <1>17, <2>1, <2>5
    <3>2. CASE req[p].b = b
      BY <1>18, <2>1, <3>1, <3>2
    <3>3. CASE req[p].b # b
      BY <2>1, <3>1, <3>3
    <3> QED
      BY <3>2, <3>3
  <2>6. ASSUME NEW c \in Browsers
        PROVE  /\ signIns'[c] <= passwords'[c] + again'[c]
               /\ SignsIn!Waits(c)' => signIns'[c] < passwords'[c] + again'[c]
    <3>1. CASE c = b
      BY <1>0, <2>1, <2>2, <2>3, <3>1
    <3>2. CASE c # b
      BY <1>0, <2>1, <2>2, <2>4, <3>2
    <3> QED
      BY <3>1, <3>2
  <2> QED
    BY <2>5, <2>6 DEF SignsIn!PasswordInv, SignsIn!PasswordFirst
<1>6. ASSUME NEW s \in SignsIn!Session
      PROVE  /\ ~ SignsIn!Clean(s).user /\ SignsIn!Clean(s).key = s.key
             /\ \A k, y : /\ ~ [SignsIn!Clean(s) EXCEPT !.key = k, !.signed = y].user
                          /\ [SignsIn!Clean(s) EXCEPT !.key = k, !.signed = y].key = k
  BY DEF SignsIn!Session, SignsIn!Clean
<1>7. ASSUME NEW b \in Browsers, SignsIn!SignOut(b) PROVE SignsIn!PasswordInv'
  <2> DEFINE s == [SignsIn!Clean(sess[b]) EXCEPT !.key = sess[b].key + 1, !.signed = FALSE]
  <2>1. sess' = [sess EXCEPT ![b] = s] /\ UNCHANGED <<req, passwords, signIns, again>>
    BY <1>7 DEF SignsIn!SignOut, SignsIn!History
  <2>2. ~ s.user /\ s.key = sess[b].key + 1
    BY <1>0, <1>6
  <2> HIDE DEF s
  <2> QED
    BY <1>5, <2>1, <2>2
<1>8. ASSUME NEW b \in Browsers, SignsIn!Expired(b) PROVE SignsIn!PasswordInv'
  <2>1. sess' = [sess EXCEPT ![b] = SignsIn!Clean(sess[b])] /\ UNCHANGED <<req, passwords, signIns, again>>
    BY <1>8 DEF SignsIn!Expired, SignsIn!History
  <2>2. ~ SignsIn!Clean(sess[b]).user /\ SignsIn!Clean(sess[b]).key = sess[b].key
    BY <1>0, <1>6
  <2> QED
    BY <1>5, <2>1, <2>2
<1>9. ASSUME UNCHANGED <<sess, req, passwords, signIns, again>> PROVE SignsIn!PasswordInv'
  BY <1>0, <1>2, <1>9 DEF SignsIn!Waits, SignsIn!SameSession
<1>10. ASSUME NEW r \in Requests, NEW b \in Browsers, NEW op \in Ops, SignsIn!Ask(r, b, op)
       PROVE  SignsIn!PasswordInv'
  <2>1. PICK x : req' = [req EXCEPT ![r] = [at |-> op, b |-> b, s |-> sess[b], a |-> acct, x |-> x]]
    BY <1>10 DEF SignsIn!Ask
  <2> DEFINE q == [at |-> op, b |-> b, s |-> sess[b], a |-> acct, x |-> x]
  <2>2. UNCHANGED <<sess, passwords, signIns, again>> /\ sess[b].user
    BY <1>10 DEF SignsIn!Ask, SignsIn!History, SignsIn!Waiting
  <2>3. q.b \in Browsers /\ SignsIn!Waits(q.b) /\ q.s.key <= sess[q.b].key
    BY <1>18, <2>2 DEF SignsIn!Waits
  <2>4. req' = [req EXCEPT ![r] = q]
    BY <2>1
  <2>5. \A c \in Browsers : sess'[c].user => SignsIn!Waits(c)
    BY <2>2 DEF SignsIn!Waits
  <2> HIDE DEF q
  <2> QED
    BY <1>3, <2>2, <2>3, <2>4, <2>5
<1>11. ASSUME NEW r \in Requests, SignsIn!Verify(r) \/ SignsIn!UseRecovery(r) \/ SignsIn!Enroll(r)
       PROVE  SignsIn!PasswordInv'
  <2> DEFINE q == [at |-> "accepted", b |-> req[r].b, s |-> req[r].s]
  <2>1. /\ req[r].at \in {"code", "recovery", "enroll"} /\ req' = [req EXCEPT ![r] = q]
        /\ UNCHANGED <<sess, passwords, signIns, again>>
    BY <1>11 DEF SignsIn!Verify, SignsIn!UseRecovery, SignsIn!Enroll, SignsIn!Accept
  <2>2. /\ q.b \in Browsers /\ q.s.key <= sess[q.b].key
        /\ q.s.key = sess[q.b].key => SignsIn!Waits(q.b)
    BY <1>0, <1>17, <2>1 DEF SignsIn!Waits, SignsIn!SameSession
  <2>3. \A c \in Browsers : sess'[c].user => SignsIn!Waits(c)
    BY <2>1 DEF SignsIn!Waits
  <2> HIDE DEF q
  <2> QED
    BY <1>3, <2>1, <2>2, <2>3
<1>12. ASSUME NEW r \in Requests, SignsIn!Refuse(r) PROVE SignsIn!PasswordInv'
  <2>1. /\ req' = [req EXCEPT ![r] = SignsIn!Idle] /\ UNCHANGED <<sess, passwords, signIns, again>>
    BY <1>12 DEF SignsIn!Refuse, SignsIn!History
  <2>2. \A c \in Browsers : sess'[c].user => SignsIn!Waits(c)
    BY <2>1 DEF SignsIn!Waits
  <2> HIDE DEF SignsIn!Idle
  <2> QED
    BY <1>1, <1>3, <2>1, <2>2
<1>13. ASSUME NEW r \in Requests, SignsIn!Show(r) PROVE SignsIn!PasswordInv'
  <2> DEFINE b == req[r].b
  <2>1. /\ req[r].at = "show" /\ req' = [req EXCEPT ![r] = SignsIn!Idle]
        /\ UNCHANGED <<passwords, signIns, again>>
        /\ \/ sess' = sess
           \/ sess[b].key = req[r].s.key /\ \E h : sess' = [sess EXCEPT ![b] = [req[r].s EXCEPT !.held = h]]
    BY <1>13 DEF SignsIn!Show, SignsIn!History
  <2>2. b \in Browsers /\ req[r].s \in SignsIn!Session
    BY <1>17, <2>1
  <2>3. \A h : [req[r].s EXCEPT !.held = h].key = req[r].s.key
    BY <2>2 DEF SignsIn!Session
  <2>4. \A c \in Browsers : /\ sess'[c].key = sess[c].key
                            /\ sess'[c].user => SignsIn!Waits(c)
    <3>1. CASE sess' = sess
      BY <3>1 DEF SignsIn!Waits
    <3>2. ASSUME sess[b].key = req[r].s.key,
                 NEW h, sess' = [sess EXCEPT ![b] = [req[r].s EXCEPT !.held = h]]
          PROVE  \A c \in Browsers : sess'[c].key = sess[c].key /\ (sess'[c].user => SignsIn!Waits(c))
      <4>1. SignsIn!Waits(b)
        BY <2>1, <3>2 DEF SignsIn!Waits, SignsIn!SameSession
      <4>2. \A c \in Browsers : c # b => sess'[c] = sess[c]
        BY <1>0, <3>2
      <4>3. sess'[b].key = sess[b].key
        BY <1>0, <2>2, <2>3, <3>2
      <4> HIDE DEF b
      <4> QED
        BY <4>1, <4>2, <4>3 DEF SignsIn!Waits
    <3> QED
      BY <2>1, <3>1, <3>2
  <2> HIDE DEF SignsIn!Idle
  <2> QED
    BY <1>1, <1>3, <2>1, <2>4
\* A sign-in takes its browser's session to a new key, which no other request has read.
<1>14. ASSUME NEW r \in Requests, SignsIn!Complete(r), NEW b \in Browsers, b = req[r].b PROVE SignsIn!PasswordInv'
  <2> DEFINE s == [SignsIn!Clean(req[r].s) EXCEPT !.key = sess[b].key + 1, !.signed = TRUE]
  <2>1. /\ req[r].at = "accepted" /\ sess' = [sess EXCEPT ![b] = s]
        /\ signIns' = [signIns EXCEPT ![b] = @ + 1] /\ req' = [req EXCEPT ![r] = SignsIn!Idle]
        /\ again' = IF sess[b].key = req[r].s.key THEN again ELSE [again EXCEPT ![b] = @ + 1]
        /\ UNCHANGED passwords
    BY <1>14 DEF SignsIn!Complete, SignsIn!Ended
  <2>2. b \in Browsers /\ req[r].s \in SignsIn!Session
    BY <1>17, <2>1, <1>14
  <2>3. ~ s.user /\ s.key = sess[b].key + 1
    BY <1>6, <2>2
  <2>4. signIns[b] < passwords[b] + again'[b]
    <3>1. CASE sess[b].key = req[r].s.key
      BY <1>0, <1>14, <2>1, <2>2, <3>1 DEF SignsIn!Waits, SignsIn!SameSession
    <3>2. CASE sess[b].key # req[r].s.key
      BY <1>0, <2>1, <2>2, <3>2
    <3> QED
      BY <3>1, <3>2
  <2> HIDE DEF s, SignsIn!Idle, SignsIn!Session
  <2>5. /\ req'[r] = SignsIn!Idle /\ \A p \in Requests : p # r => req'[p] = req[p]
        /\ sess'[b] = s /\ \A c \in Browsers : c # b => sess'[c] = sess[c]
        /\ signIns'[b] = signIns[b] + 1
        /\ \A c \in Browsers : c # b => signIns'[c] = signIns[c] /\ again'[c] = again[c]
        /\ \A c \in Browsers : passwords[c] \in Nat /\ signIns[c] \in Nat /\ again[c] \in Nat /\ again'[c] \in Nat
    BY <1>0, <2>1, <2>2
  <2>6. ASSUME NEW p \in Requests, req'[p].at # "idle"
        PROVE  /\ req'[p] = req[p] /\ p # r /\ req[p].b \in Browsers
               /\ req[p].s.key \in Nat /\ req[p].s.key <= sess[req[p].b].key
    BY <1>0, <1>1, <1>17, <2>5, <2>6
  <2>7. ~ SignsIn!Waits(b)'
    BY <1>18, <2>3, <2>5, <2>6 DEF SignsIn!Waits, SignsIn!SameSession
  <2>8. \A c \in Browsers : c # b => (SignsIn!Waits(c)' => SignsIn!Waits(c))
    BY <1>1, <2>5 DEF SignsIn!Waits, SignsIn!SameSession
  <2>9. ASSUME NEW p \in Requests, req'[p].at # "idle" PROVE req'[p].s.key <= sess'[req'[p].b].key
    <3>1. CASE req[p].b = b
      BY <1>18, <2>3, <2>5, <2>6, <2>9, <3>1
    <3>2. CASE req[p].b # b
      BY <2>5, <2>6, <2>9, <3>2
    <3> QED
      BY <3>1, <3>2
  <2>10. ASSUME NEW c \in Browsers
         PROVE  /\ signIns'[c] <= passwords'[c] + again'[c]
                /\ SignsIn!Waits(c)' => signIns'[c] < passwords'[c] + again'[c]
    <3>1. CASE c = b
      BY <2>1, <2>4, <2>5, <2>7, <3>1
    <3>2. CASE c # b
      BY <1>0, <2>1, <2>5, <2>8, <3>2
    <3> QED
      BY <3>1, <3>2
  <2> QED
    BY <2>9, <2>10 DEF SignsIn!PasswordInv, SignsIn!PasswordFirst
<1>15. CASE \/ \E b \in Browsers : SignsIn!NewCodes(b)
            \/ SignsIn!Reset \/ SignsIn!SetActive \/ SignsIn!Tick \/ UNCHANGED SignsIn!vars
  BY <1>9, <1>15 DEF SignsIn!NewCodes, SignsIn!Reset, SignsIn!SetActive, SignsIn!Tick, SignsIn!History, SignsIn!vars
<1>16. \A r \in Requests : SignsIn!Complete(r) => req[r].b \in Browsers
  BY RequestReads DEF SignsIn!Complete
<1> QED
  BY <1>4, <1>7, <1>8, <1>10, <1>11, <1>12, <1>13, <1>14, <1>15, <1>16 DEF SignsIn!Next

\* A browser completes no more sign-ins than it gave right passwords, not counting those of a
\* request whose session another of its requests had signed in or out meanwhile, for any number
\* of browsers and requests that overlap: two requests that have read one session, as those of
\* a form that is sent twice, are the only way to a sign-in more.
THEOREM PasswordFirstAlways ==
    ASSUME SignsIn!SignInAssumption
    PROVE  SignsIn!Spec => []SignsIn!PasswordFirst
<1>1. SignsIn!Init => SignsIn!TypeOK /\ SignsIn!PasswordInv
  <2>1. ASSUME SignsIn!Init
        PROVE  /\ \A b \in Browsers : ~ SignsIn!Waits(b) /\ signIns[b] <= passwords[b] + again[b]
               /\ \A r \in Requests : ~ SignsIn!Busy(r)
    BY <2>1 DEF SignsIn!Init, SignsIn!Waits, SignsIn!SameSession, SignsIn!Busy, SignsIn!Idle
  <2> QED
    BY <2>1, SignInTypesStart DEF SignsIn!PasswordInv, SignsIn!PasswordFirst
<1>2. SignsIn!TypeOK /\ SignsIn!PasswordInv /\ [SignsIn!Next]_(SignsIn!vars)
         => (SignsIn!TypeOK /\ SignsIn!PasswordInv)'
  BY SignInTypesStay, PasswordStays
<1>3. SignsIn!PasswordInv => SignsIn!PasswordFirst
  BY DEF SignsIn!PasswordInv
<1> QED
  BY <1>1, <1>2, <1>3, PTL DEF SignsIn!Spec

\* A step that leaves the account's secret and what it accepted: a browser may get the secret
\* that was just made, and requests may ask for what is not spent.
LEMMA SecretsKept ==
    ASSUME SignsIn!TypeOK, SignsIn!CodeInv, NEW b0,
           acct'.secret = acct.secret, acct'.last = acct.last, accepted' = accepted,
           secrets' \in {secrets, secrets + 1},
           \A b \in Browsers : \A h \in SignsIn!Holds(b)' :
               h \in SignsIn!Holds(b) \/ (b = b0 /\ h = secrets + 1 /\ secrets' = secrets + 1),
           \A b \in Browsers : sess'[b].held \in SignsIn!Spent =>
               sess'[b].held = sess[b].held /\ (SignsIn!Completes(b) => SignsIn!Completes(b)'),
           \A r \in Requests : SignsIn!Asks(r)' => acct.secret = 0 /\ req'[r].s.held \notin SignsIn!Spent,
           \A r \in Requests : req'[r].at = "code" => req'[r].a.secret = acct.secret /\ acct.secret # 0,
           \A r \in Requests : req'[r].at = "enroll" => req'[r].s.held # 0
    PROVE  SignsIn!CodeInv'
<1>0. secrets \in Nat /\ SignsIn!MadeOnce /\ SignsIn!SpentIsGone /\ SignsIn!ReadsHold /\ SignsIn!StepsBehind
      /\ SignsIn!CodeOnce
  BY DEF SignsIn!TypeOK, SignsIn!CodeInv
<1>1. SignsIn!Spent' = SignsIn!Spent
  BY DEF SignsIn!Spent
<1>2. SignsIn!MadeOnce'
  <2>1. SignsIn!Spent' \subseteq 1 .. secrets'
    BY <1>0, <1>1 DEF SignsIn!MadeOnce
  <2>2. ASSUME NEW b \in Browsers, NEW h \in SignsIn!Holds(b)' PROVE h \in 1 .. secrets'
    BY <1>0, <2>2 DEF SignsIn!MadeOnce
  <2>3. ASSUME NEW b \in Browsers, NEW c \in Browsers, NEW h \in SignsIn!Holds(b)', h \in SignsIn!Holds(c)'
        PROVE  b = c
    <3>1. \A d \in Browsers : \A k \in SignsIn!Holds(d) : k # secrets + 1
      <4>1. \A d \in Browsers : \A k \in SignsIn!Holds(d) : k \in 1 .. secrets
        BY <1>0 DEF SignsIn!MadeOnce
      <4> QED
        BY <1>0, <4>1
    <3> QED
      BY <1>0, <2>3, <3>1 DEF SignsIn!MadeOnce
  <2> QED
    BY <2>1, <2>2, <2>3 DEF SignsIn!MadeOnce
<1>3. SignsIn!SpentIsGone'
  BY <1>0, <1>1 DEF SignsIn!SpentIsGone
<1>4. SignsIn!ReadsHold' /\ SignsIn!StepsBehind' /\ SignsIn!CodeOnce'
  BY <1>0 DEF SignsIn!ReadsHold, SignsIn!StepsBehind, SignsIn!CodeOnce, SignsIn!Distinct
<1> QED
  BY <1>2, <1>3, <1>4 DEF SignsIn!CodeInv

\* ... in particular one that writes a session without a secret, or none, and lets a request go.
LEMMA SecretsLeft ==
    ASSUME SignsIn!TypeOK, SignsIn!CodeInv,
           acct'.secret = acct.secret, acct'.last = acct.last, accepted' = accepted, secrets' = secrets,
           \A b \in Browsers : sess'[b].held = sess[b].held \/ sess'[b].held = 0,
           \A r \in Requests : SignsIn!Asks(r)' \/ req'[r].at = "code" => req'[r] = req[r],
           \A b \in Browsers : sess'[b].held # 0 /\ SignsIn!Completes(b) => SignsIn!Completes(b)'
    PROVE  SignsIn!CodeInv'
<1>0. SignsIn!SpentIsGone /\ SignsIn!ReadsHold
  BY DEF SignsIn!CodeInv
<1>1. \A r \in Requests : SignsIn!Asks(r)' => SignsIn!Asks(r) /\ req'[r] = req[r]
  BY DEF SignsIn!Asks
<1>2. \A b \in Browsers : \A h \in SignsIn!Holds(b)' : h \in SignsIn!Holds(b)
  BY <1>1 DEF SignsIn!Holds, SignsIn!AskedBy
<1>3. \A b \in Browsers : sess'[b].held \in SignsIn!Spent =>
               sess'[b].held = sess[b].held /\ (SignsIn!Completes(b) => SignsIn!Completes(b)')
  BY DEF SignsIn!Spent
<1>4. \A r \in Requests : SignsIn!Asks(r)' => acct.secret = 0 /\ req'[r].s.held \notin SignsIn!Spent
  BY <1>0, <1>1 DEF SignsIn!SpentIsGone, SignsIn!ReadsHold
<1>5. \A r \in Requests : req'[r].at = "code" => req'[r].a.secret = acct.secret /\ acct.secret # 0
  BY <1>0 DEF SignsIn!ReadsHold
<1>6. \A r \in Requests : req'[r].at = "enroll" => req'[r].s.held # 0
  BY <1>0, <1>1 DEF SignsIn!ReadsHold, SignsIn!Asks
<1> QED
  BY <1>2, <1>3, <1>4, <1>5, <1>6, SecretsKept

\* A code that is accepted is of the account's secret and later than the last.
LEMMA VerifyKeepsCodes ==
    ASSUME SignsIn!TypeOK, SignsIn!CodeInv, NEW r \in Requests, SignsIn!Verify(r)
    PROVE  SignsIn!CodeInv'
<1> DEFINE x == req[r].x
           matched == SignsIn!matching_step(req[r].a.secret, x, req[r].a.last)
           q == [at |-> "accepted", b |-> req[r].b, s |-> req[r].s]
<1>0. /\ SignsIn!MadeOnce /\ SignsIn!SpentIsGone /\ SignsIn!ReadsHold /\ SignsIn!StepsBehind
      /\ SignsIn!Distinct(accepted) /\ accepted \in Seq(Nat \X Int) /\ acct \in SignsIn!AccountRow
      /\ req \in [Requests -> {SignsIn!Idle} \cup SignsIn!Asking \cup SignsIn!Accepted]
  BY DEF SignsIn!TypeOK, SignsIn!CodeInv, SignsIn!CodeOnce
<1>1. /\ req[r].at = "code" /\ matched # SignsIn!NoStep /\ acct' = [acct EXCEPT !.last = matched]
      /\ SignsIn!claim_step(matched)
      /\ accepted' = Append(accepted, x) /\ req' = [req EXCEPT ![r] = q] /\ UNCHANGED <<sess, secrets>>
  BY DEF SignsIn!Verify, SignsIn!Accept
<1>2. x \in Nat \X Int
  BY <1>1, RequestReads
<1>3. matched = x[2] /\ x[1] = acct.secret /\ x[2] \in Nat /\ acct.secret # 0
  <2>1. req[r].a.secret = acct.secret /\ acct.secret # 0
    BY <1>0, <1>1 DEF SignsIn!ReadsHold
  <2> QED
    BY <1>1, <1>2, <2>1, Matches
<1>4. acct'.secret = acct.secret /\ acct'.last = x[2]
  BY <1>0, <1>1, <1>3 DEF SignsIn!AccountRow
<1>5. acct.last = -1 \/ acct.last < x[2]
  BY <1>1, <1>3 DEF SignsIn!claim_step, SignsIn!NoStep
<1>6. acct.last \in Int /\ \A i \in DOMAIN accepted : accepted[i] \in Nat \X Int
  BY <1>0 DEF SignsIn!AccountRow, SignsIn!NoStep
<1> HIDE DEF x, matched
<1>7. \A i \in DOMAIN accepted : /\ accepted[i][1] # 0 /\ accepted[i][2] >= 0
                                 /\ accepted[i][1] = acct.secret => accepted[i][2] <= acct.last
  BY <1>0 DEF SignsIn!StepsBehind
<1>8. \A i \in DOMAIN accepted : accepted[i] # x
  BY <1>3, <1>5, <1>6, <1>7
<1>9. SignsIn!CodeOnce'
  BY <1>0, <1>1, <1>2, <1>8, AppendOnce DEF SignsIn!CodeOnce, SignsIn!Distinct
<1>10. \A i \in DOMAIN accepted' : accepted'[i] = x \/ \E j \in DOMAIN accepted : accepted'[i] = accepted[j]
  BY <1>0, <1>1, <1>2, AppendHas
<1>11. SignsIn!StepsBehind'
  <2>1. \A i \in DOMAIN accepted' : /\ accepted'[i][1] # 0 /\ accepted'[i][2] >= 0
                                    /\ accepted'[i][1] = acct.secret => accepted'[i][2] <= x[2]
    <3> SUFFICES ASSUME NEW i \in DOMAIN accepted'
                 PROVE  /\ accepted'[i][1] # 0 /\ accepted'[i][2] >= 0
                        /\ accepted'[i][1] = acct.secret => accepted'[i][2] <= x[2]
      OBVIOUS
    <3>1. CASE accepted'[i] = x
      BY <1>3, <3>1
    <3>2. ASSUME NEW j \in DOMAIN accepted, accepted'[i] = accepted[j]
          PROVE  /\ accepted'[i][1] # 0 /\ accepted'[i][2] >= 0
                 /\ accepted'[i][1] = acct.secret => accepted'[i][2] <= x[2]
      BY <1>3, <1>5, <1>6, <1>7, <3>2
    <3> QED
      BY <1>10, <3>1, <3>2
  <2> QED
    BY <1>3, <1>4, <2>1 DEF SignsIn!StepsBehind
<1>12. SignsIn!Spent' \subseteq SignsIn!Spent
  BY <1>3, <1>4, <1>10 DEF SignsIn!Spent
<1> HIDE DEF SignsIn!Idle, SignsIn!Asking, SignsIn!Accepted
<1>13. req'[r] = q /\ \A p \in Requests : p # r => req'[p] = req[p]
  BY <1>0, <1>1
<1>14. /\ \A p \in Requests : SignsIn!Asks(p)' => SignsIn!Asks(p) /\ req'[p] = req[p]
       /\ \A p \in Requests : req'[p].at = "code" => req[p].at = "code" /\ req'[p] = req[p]
       /\ \A b \in Browsers : SignsIn!Completes(b) => SignsIn!Completes(b)'
  BY <1>1, <1>13 DEF SignsIn!Asks, SignsIn!Completes
<1>15. \A b \in Browsers : \A h \in SignsIn!Holds(b)' : h \in SignsIn!Holds(b)
  BY <1>1, <1>14 DEF SignsIn!Holds, SignsIn!AskedBy
<1>16. SignsIn!MadeOnce'
  BY <1>0, <1>1, <1>12, <1>15 DEF SignsIn!MadeOnce
<1>17. SignsIn!SpentIsGone' /\ SignsIn!ReadsHold'
  <2>1. SignsIn!SpentIsGone'
    BY <1>0, <1>1, <1>4, <1>12, <1>14 DEF SignsIn!SpentIsGone
  <2>2. SignsIn!ReadsHold'
    BY <1>0, <1>4, <1>14 DEF SignsIn!ReadsHold, SignsIn!Asks
  <2> QED
    BY <2>1, <2>2
<1> QED
  BY <1>9, <1>11, <1>16, <1>17 DEF SignsIn!CodeInv

\* An enrollment that nobody overlaps makes the account's a secret that never was.
LEMMA EnrollKeepsCodes ==
    ASSUME SignsIn!TypeOK, SignsIn!CodeInv, NEW r \in Requests, NEW b \in Browsers, b = req[r].b,
           NEW h, h = req[r].s.held,
           SignsIn!Enroll(r), \A q \in Requests : SignsIn!Busy(q) => q = r
    PROVE  SignsIn!CodeInv' /\ acct.secret = 0
<1> DEFINE x == req[r].x
           matched == SignsIn!matching_step(h, x, SignsIn!NoStep)
           q == [at |-> "accepted", b |-> b, s |-> req[r].s]
<1>0. /\ SignsIn!MadeOnce /\ SignsIn!SpentIsGone /\ SignsIn!ReadsHold /\ SignsIn!StepsBehind
      /\ SignsIn!Distinct(accepted) /\ accepted \in Seq(Nat \X Int) /\ acct \in SignsIn!AccountRow
      /\ req \in [Requests -> {SignsIn!Idle} \cup SignsIn!Asking \cup SignsIn!Accepted]
      /\ secrets \in Nat
  BY DEF SignsIn!TypeOK, SignsIn!CodeInv, SignsIn!CodeOnce
<1>1. /\ req[r].at = "enroll" /\ matched # SignsIn!NoStep /\ acct'.secret = h /\ acct'.last = matched
      /\ accepted' = Append(accepted, x) /\ req' = [req EXCEPT ![r] = q] /\ UNCHANGED <<sess, secrets>>
  BY <1>0 DEF SignsIn!Enroll, SignsIn!Accept, SignsIn!AccountRow
<1>2. x \in Nat \X Int /\ h \in Nat
  BY <1>1, RequestReads DEF SignsIn!Session
<1>3. matched = x[2] /\ x[1] = h /\ x[2] \in Nat
  BY <1>1, <1>2, Matches
<1>4. acct.secret = 0 /\ h # 0 /\ h \notin SignsIn!Spent /\ SignsIn!Asks(r) /\ h \in SignsIn!Holds(b)
  BY <1>0, <1>1 DEF SignsIn!ReadsHold, SignsIn!SpentIsGone, SignsIn!Asks, SignsIn!Holds, SignsIn!AskedBy
<1>5. h \in 1 .. secrets
  BY <1>0, <1>2, <1>4 DEF SignsIn!MadeOnce
<1> HIDE DEF x, matched
<1>6. \A i \in DOMAIN accepted : accepted[i][1] # 0 /\ accepted[i][1] # h /\ accepted[i][2] >= 0
  BY <1>0, <1>4 DEF SignsIn!StepsBehind, SignsIn!Spent
<1>7. SignsIn!CodeOnce'
  <2>1. \A i \in DOMAIN accepted : accepted[i] # x
    BY <1>3, <1>6
  <2>2. accepted \in Seq(Nat \X Int) /\ x \in Nat \X Int /\ SignsIn!Distinct(accepted)
    BY <1>0, <1>2
  <2>3. SignsIn!Distinct(Append(accepted, x))
    BY <2>1, <2>2, AppendOnce
  <2>4. SignsIn!Distinct(accepted')
    BY <1>1, <2>3
  <2> QED
    BY <2>4 DEF SignsIn!CodeOnce
<1>8. \A i \in DOMAIN accepted' : accepted'[i] = x \/ \E j \in DOMAIN accepted : accepted'[i] = accepted[j]
  BY <1>0, <1>1, <1>2, AppendHas
<1>9. SignsIn!StepsBehind'
  <2>1. \A i \in DOMAIN accepted' : /\ accepted'[i][1] # 0 /\ accepted'[i][2] >= 0
                                    /\ accepted'[i][1] = h => accepted'[i][2] <= x[2]
    BY <1>3, <1>4, <1>6, <1>8
  <2> QED
    BY <1>1, <1>3, <1>4, <2>1 DEF SignsIn!StepsBehind
<1>10. SignsIn!Spent' \subseteq SignsIn!Spent \cup {h}
  BY <1>1, <1>3, <1>8 DEF SignsIn!Spent
<1> HIDE DEF SignsIn!Idle, SignsIn!Asking, SignsIn!Accepted
<1>11. req'[r] = q /\ \A p \in Requests : p # r => req'[p].at = "idle"
  BY <1>0, <1>1 DEF SignsIn!Busy
<1>12. /\ \A p \in Requests : ~ SignsIn!Asks(p)' /\ req'[p].at # "code" /\ req'[p].at # "enroll"
       /\ SignsIn!Completes(b)'
  BY <1>11 DEF SignsIn!Asks, SignsIn!Completes
<1>13. \A c \in Browsers : \A k \in SignsIn!Holds(c)' : k \in SignsIn!Holds(c) /\ k = sess[c].held
  BY <1>1, <1>12 DEF SignsIn!Holds, SignsIn!AskedBy
<1>14. SignsIn!MadeOnce'
  BY <1>0, <1>1, <1>5, <1>10, <1>13 DEF SignsIn!MadeOnce
<1>15. SignsIn!SpentIsGone'
  <2> SUFFICES ASSUME NEW c \in Browsers, sess[c].held \in SignsIn!Spent \cup {h}
               PROVE  sess[c].held = h /\ c = b
    BY <1>1, <1>10, <1>12 DEF SignsIn!SpentIsGone
  <2>1. sess[c].held \notin SignsIn!Spent
    BY <1>0, <1>4 DEF SignsIn!SpentIsGone, SignsIn!Spent
  <2>2. h \in SignsIn!Holds(c)
    BY <1>4, <2>1 DEF SignsIn!Holds
  <2> QED
    BY <1>0, <1>4, <2>1, <2>2 DEF SignsIn!MadeOnce
<1>16. SignsIn!ReadsHold'
  BY <1>12 DEF SignsIn!ReadsHold
<1> QED
  BY <1>4, <1>7, <1>9, <1>14, <1>15, <1>16 DEF SignsIn!CodeInv

\* A reset that nobody overlaps finds no browser about to complete.
LEMMA ResetKeepsCodes ==
    ASSUME SignsIn!TypeOK, SignsIn!CodeInv, SignsIn!Reset, \A q \in Requests : ~ SignsIn!Busy(q)
    PROVE  SignsIn!CodeInv'
<1>0. /\ SignsIn!MadeOnce /\ SignsIn!SpentIsGone /\ SignsIn!ReadsHold /\ SignsIn!StepsBehind
      /\ SignsIn!CodeOnce /\ acct \in SignsIn!AccountRow
  BY DEF SignsIn!TypeOK, SignsIn!CodeInv
<1>1. /\ acct'.secret = 0 /\ acct'.last = SignsIn!NoStep
      /\ UNCHANGED <<sess, req, secrets, accepted>>
  BY <1>0 DEF SignsIn!Reset, SignsIn!History, SignsIn!AccountRow
<1>2. \A p \in Requests : ~ SignsIn!Asks(p) /\ req[p].at = "idle"
  BY DEF SignsIn!Asks, SignsIn!Busy
<1>3. SignsIn!Spent' \subseteq SignsIn!Spent
  BY <1>1 DEF SignsIn!Spent
<1>4. \A b \in Browsers : SignsIn!Holds(b)' = SignsIn!Holds(b)
  BY <1>1 DEF SignsIn!Holds, SignsIn!AskedBy, SignsIn!Asks
<1>5. SignsIn!MadeOnce'
  BY <1>0, <1>1, <1>3, <1>4 DEF SignsIn!MadeOnce
<1>6. SignsIn!SpentIsGone'
  <2>1. \A b \in Browsers : ~ SignsIn!Completes(b)
    BY <1>2 DEF SignsIn!Completes
  <2>2. \A b \in Browsers : sess[b].held \notin SignsIn!Spent
    BY <1>0, <2>1 DEF SignsIn!SpentIsGone
  <2> QED
    BY <1>1, <1>2, <1>3, <2>2 DEF SignsIn!SpentIsGone, SignsIn!Asks
<1>7. SignsIn!ReadsHold' /\ SignsIn!StepsBehind' /\ SignsIn!CodeOnce'
  BY <1>0, <1>1, <1>2 DEF SignsIn!ReadsHold, SignsIn!StepsBehind, SignsIn!CodeOnce, SignsIn!Distinct, SignsIn!Asks
<1> QED
  BY <1>5, <1>6, <1>7 DEF SignsIn!CodeInv

\* Every calm step keeps the secrets apart and the accepted steps behind.
LEMMA CodesStay ==
    ASSUME SignsIn!SignInAssumption, SignsIn!TypeOK, SignsIn!CodeInv,
           SignsIn!Calm \/ UNCHANGED SignsIn!vars, [SignsIn!Next]_(SignsIn!vars)
    PROVE  SignsIn!CodeInv' /\ [SignsIn!EnrolledOnce]_(SignsIn!vars)
<1>0. /\ SignsIn!MadeOnce /\ SignsIn!SpentIsGone /\ SignsIn!ReadsHold /\ secrets \in Nat
      /\ acct \in SignsIn!AccountRow /\ sess \in [Browsers -> SignsIn!Session]
      /\ req \in [Requests -> {SignsIn!Idle} \cup SignsIn!Asking \cup SignsIn!Accepted]
  BY DEF SignsIn!TypeOK, SignsIn!CodeInv
<1> HIDE DEF SignsIn!Asking, SignsIn!Accepted
<1>1. SignsIn!Idle.at = "idle"
  BY DEF SignsIn!Idle
<1> DEFINE Goal == SignsIn!CodeInv' /\ [SignsIn!EnrolledOnce]_(SignsIn!vars)
<1>2. ASSUME acct'.secret = acct.secret, SignsIn!CodeInv' PROVE Goal
  BY <1>2 DEF SignsIn!EnrolledOnce
<1>3. ASSUME acct'.secret = acct.secret, acct'.last = acct.last, UNCHANGED <<accepted, secrets>>,
             \A b \in Browsers : sess'[b].held = sess[b].held \/ sess'[b].held = 0,
             UNCHANGED req
      PROVE  Goal
  <2>1. \A b \in Browsers : SignsIn!Completes(b) <=> SignsIn!Completes(b)'
    BY <1>3 DEF SignsIn!Completes
  <2> QED
    BY <1>2, <1>3, <2>1, SecretsLeft
\* A request that goes, or is accepted.
<1>4. ASSUME NEW r \in Requests, NEW q, req' = [req EXCEPT ![r] = q],
             q.at \in {"idle", "accepted"}, req[r].at = "accepted" => sess'[req[r].b].held = 0,
             acct'.secret = acct.secret, acct'.last = acct.last, UNCHANGED <<accepted, secrets>>,
             \A b \in Browsers : sess'[b].held = sess[b].held \/ sess'[b].held = 0
      PROVE  Goal
  <2> HIDE DEF SignsIn!Idle
  <2>1. req'[r] = q /\ \A p \in Requests : p # r => req'[p] = req[p]
    BY <1>0, <1>4
  <2>2. \A p \in Requests : SignsIn!Asks(p)' \/ req'[p].at = "code" => req'[p] = req[p]
    BY <1>4, <2>1 DEF SignsIn!Asks
  <2>3. \A b \in Browsers : sess'[b].held # 0 /\ SignsIn!Completes(b) => SignsIn!Completes(b)'
    BY <1>4, <2>1 DEF SignsIn!Completes
  <2> QED
    BY <1>2, <1>4, <2>2, <2>3, SecretsLeft
<1>5. ASSUME NEW s \in SignsIn!Session
      PROVE  /\ SignsIn!Clean(s).held = 0
             /\ \A k, y : [SignsIn!Clean(s) EXCEPT !.key = k, !.signed = y].held = 0
  BY DEF SignsIn!Session, SignsIn!Clean
<1>6. ASSUME NEW b \in Browsers, NEW s, s.held = 0, sess' = [sess EXCEPT ![b] = s]
      PROVE  /\ sess'[b].held = 0
             /\ \A c \in Browsers : sess'[c].held = sess[c].held \/ sess'[c].held = 0
  <2> HIDE DEF SignsIn!Session
  <2>1. sess'[b] = s /\ \A c \in Browsers : c # b => sess'[c] = sess[c]
    BY <1>0, <1>6
  <2> QED
    BY <1>6, <2>1
<1>7. ASSUME NEW b \in Browsers, SignsIn!Password(b) PROVE Goal
  <2> DEFINE s == [key |-> sess[b].key + 1, user |-> TRUE, since |-> now, held |-> 0, signed |-> FALSE]
  <2>1. sess' = [sess EXCEPT ![b] = s] /\ UNCHANGED <<acct, req, secrets, accepted>>
    BY <1>7 DEF SignsIn!Password
  <2>2. s.held = 0
    OBVIOUS
  <2> HIDE DEF s
  <2> QED
    BY <1>3, <1>6, <2>1, <2>2
<1>8. ASSUME NEW b \in Browsers, SignsIn!SignOut(b) \/ SignsIn!Expired(b) PROVE Goal
  <2>1. /\ \E s : s.held = 0 /\ sess' = [sess EXCEPT ![b] = s]
        /\ UNCHANGED <<acct, req, secrets, accepted>>
    <3>1. CASE SignsIn!SignOut(b)
      <4> DEFINE s == [SignsIn!Clean(sess[b]) EXCEPT !.key = sess[b].key + 1, !.signed = FALSE]
      <4>1. sess' = [sess EXCEPT ![b] = s] /\ UNCHANGED <<acct, req, secrets, accepted>>
        BY <3>1 DEF SignsIn!SignOut, SignsIn!History
      <4>2. s.held = 0
        BY <1>0, <1>5
      <4> HIDE DEF s
      <4> QED
        BY <4>1, <4>2
    <3>2. CASE SignsIn!Expired(b)
      <4>1. sess' = [sess EXCEPT ![b] = SignsIn!Clean(sess[b])] /\ UNCHANGED <<acct, req, secrets, accepted>>
        BY <3>2 DEF SignsIn!Expired, SignsIn!History
      <4>2. SignsIn!Clean(sess[b]).held = 0
        BY <1>0, <1>5
      <4> QED
        BY <4>1, <4>2
    <3> QED
      BY <1>8, <3>1, <3>2
  <2> QED
    BY <1>3, <1>6, <2>1
<1>9. ASSUME \/ \E b \in Browsers : SignsIn!NewCodes(b)
             \/ SignsIn!SetActive \/ SignsIn!Tick \/ UNCHANGED SignsIn!vars
      PROVE  Goal
  <2>1. /\ acct'.secret = acct.secret /\ acct'.last = acct.last /\ UNCHANGED <<sess, req, secrets, accepted>>
    BY <1>0, <1>9 DEF SignsIn!NewCodes, SignsIn!SetActive, SignsIn!Tick, SignsIn!History, SignsIn!vars,
           SignsIn!AccountRow
  <2> QED
    BY <1>3, <2>1
<1>10. ASSUME NEW r \in Requests, NEW b \in Browsers, NEW op \in Ops, SignsIn!Ask(r, b, op) PROVE Goal
  <2>1. PICK x : req' = [req EXCEPT ![r] = [at |-> op, b |-> b, s |-> sess[b], a |-> acct, x |-> x]]
    BY <1>10 DEF SignsIn!Ask
  <2> DEFINE q == [at |-> op, b |-> b, s |-> sess[b], a |-> acct, x |-> x]
  <2>2. /\ UNCHANGED <<acct, sess, secrets, accepted>> /\ req[r].at = "idle"
        /\ op \in {"code", "recovery"} => acct.secret # 0
        /\ op \in {"show", "enroll"} => acct.secret = 0
        /\ op = "enroll" => sess[b].held # 0
    BY <1>10 DEF SignsIn!Ask, SignsIn!History, SignsIn!MayAsk, SignsIn!has_two_factor, SignsIn!Busy
  <2>3. op \in {"code", "recovery", "show", "enroll"}
    BY DEF SignsIn!SignInAssumption
  <2>4. q.at = op /\ q.b = b /\ q.s = sess[b] /\ q.a = acct
    OBVIOUS
  <2>5. req' = [req EXCEPT ![r] = q]
    BY <2>1
  <2> HIDE DEF q, SignsIn!Idle
  <2>6. req'[r] = q /\ \A p \in Requests : p # r => req'[p] = req[p]
    BY <1>0, <2>5
  <2>7. \A c \in Browsers : \A h \in SignsIn!Holds(c)' : h \in SignsIn!Holds(c)
    BY <2>2, <2>4, <2>6 DEF SignsIn!Holds, SignsIn!AskedBy, SignsIn!Asks
  <2>8. \A c \in Browsers : SignsIn!Completes(c) => SignsIn!Completes(c)'
    BY <2>2, <2>6 DEF SignsIn!Completes
  <2>9. acct.secret = 0 => sess[b].held \notin SignsIn!Spent
    BY <1>0 DEF SignsIn!SpentIsGone, SignsIn!Spent
  <2>10. \A p \in Requests : SignsIn!Asks(p)' => acct.secret = 0 /\ req'[p].s.held \notin SignsIn!Spent
    BY <1>0, <2>2, <2>4, <2>6, <2>9 DEF SignsIn!Asks, SignsIn!SpentIsGone, SignsIn!ReadsHold
  <2>11. \A p \in Requests : req'[p].at = "code" => req'[p].a.secret = acct.secret /\ acct.secret # 0
    BY <1>0, <2>2, <2>4, <2>6 DEF SignsIn!ReadsHold
  <2>12. \A p \in Requests : req'[p].at = "enroll" => req'[p].s.held # 0
    BY <1>0, <2>2, <2>4, <2>6 DEF SignsIn!ReadsHold
  <2>13. SignsIn!CodeInv'
    BY <2>2, <2>7, <2>8, <2>10, <2>11, <2>12, SecretsKept
  <2> QED
    BY <1>2, <2>2, <2>13
<1>11. ASSUME NEW r \in Requests, SignsIn!Verify(r) PROVE Goal
  <2>1. acct'.secret = acct.secret
    BY <1>0, <1>11 DEF SignsIn!Verify, SignsIn!AccountRow
  <2> QED
    BY <1>2, <1>11, <2>1, VerifyKeepsCodes
<1>12. ASSUME NEW r \in Requests, SignsIn!UseRecovery(r) PROVE Goal
  <2> DEFINE q == [at |-> "accepted", b |-> req[r].b, s |-> req[r].s]
  <2>1. /\ acct'.secret = acct.secret /\ acct'.last = acct.last /\ UNCHANGED <<sess, secrets, accepted>>
        /\ req' = [req EXCEPT ![r] = q] /\ req[r].at = "recovery" /\ q.at = "accepted"
    BY <1>0, <1>12 DEF SignsIn!UseRecovery, SignsIn!Accept, SignsIn!AccountRow
  <2> HIDE DEF q
  <2> QED
    BY <1>4, <2>1
<1>13. ASSUME NEW r \in Requests, SignsIn!Refuse(r) PROVE Goal
  <2>1. /\ UNCHANGED <<acct, sess, secrets, accepted>>
        /\ req' = [req EXCEPT ![r] = SignsIn!Idle] /\ req[r].at # "accepted"
    BY <1>13 DEF SignsIn!Refuse, SignsIn!History
  <2> QED
    BY <1>1, <1>4, <2>1
<1>14. ASSUME NEW r \in Requests, SignsIn!Show(r), NEW b \in Browsers, b = req[r].b, NEW h, h = req[r].s.held
       PROVE  Goal
  <2>1. /\ req[r].at = "show" /\ req' = [req EXCEPT ![r] = SignsIn!Idle] /\ UNCHANGED <<acct, accepted>>
        /\ secrets' = IF h # 0 THEN secrets ELSE secrets + 1
        /\ \/ sess' = sess
           \/ sess' = [sess EXCEPT ![b] = [req[r].s EXCEPT !.held = IF h # 0 THEN h ELSE secrets + 1]]
    BY <1>14 DEF SignsIn!Show, SignsIn!History
  <2> DEFINE k == IF h # 0 THEN h ELSE secrets + 1
             s == [req[r].s EXCEPT !.held = k]
  <2>2. s.held = k
    <3>1. req[r].s \in SignsIn!Session
      BY <2>1, RequestReads
    <3> HIDE DEF k
    <3> QED
      BY <3>1 DEF SignsIn!Session
  <2>3. sess' = sess \/ sess' = [sess EXCEPT ![b] = s]
    BY <2>1
  <2>4. h # 0 => h \in SignsIn!Holds(b)
    BY <1>14, <2>1 DEF SignsIn!Holds, SignsIn!AskedBy, SignsIn!Asks
  <2>5. h \notin SignsIn!Spent /\ secrets + 1 \notin SignsIn!Spent
    BY <1>0, <1>14, <2>1 DEF SignsIn!SpentIsGone, SignsIn!Asks, SignsIn!MadeOnce
  <2>6. secrets' \in {secrets, secrets + 1} /\ (h = 0 => secrets' = secrets + 1)
    BY <2>1
  <2> HIDE DEF s, SignsIn!Idle, SignsIn!Session
  <2>7. req'[r] = SignsIn!Idle /\ \A p \in Requests : p # r => req'[p] = req[p]
    BY <1>0, <2>1
  <2>8. \A c \in Browsers : sess'[c].held = sess[c].held \/ (c = b /\ sess'[c].held = k)
    BY <1>0, <2>2, <2>3
  <2>9. \A p \in Requests : /\ SignsIn!Asks(p)' => SignsIn!Asks(p) /\ req'[p] = req[p]
                            /\ req'[p].at \in {"code", "enroll"} => req'[p] = req[p]
    BY <1>1, <2>7 DEF SignsIn!Asks
  <2>10. \A c \in Browsers : \A i \in SignsIn!Holds(c)' :
             i \in SignsIn!Holds(c) \/ (c = b /\ i = secrets + 1 /\ secrets' = secrets + 1)
    BY <2>4, <2>6, <2>8, <2>9 DEF SignsIn!Holds, SignsIn!AskedBy
  <2>11. \A c \in Browsers : SignsIn!Completes(c) => SignsIn!Completes(c)'
    BY <2>1, <2>7 DEF SignsIn!Completes
  <2>12. \A c \in Browsers : sess'[c].held \in SignsIn!Spent =>
               sess'[c].held = sess[c].held /\ (SignsIn!Completes(c) => SignsIn!Completes(c)')
    BY <2>5, <2>8, <2>11
  <2>13. \A p \in Requests : SignsIn!Asks(p)' => acct.secret = 0 /\ req'[p].s.held \notin SignsIn!Spent
    BY <1>0, <2>9 DEF SignsIn!SpentIsGone, SignsIn!ReadsHold
  <2>14. \A p \in Requests : req'[p].at = "code" => req'[p].a.secret = acct.secret /\ acct.secret # 0
    BY <1>0, <2>9 DEF SignsIn!ReadsHold
  <2>15. \A p \in Requests : req'[p].at = "enroll" => req'[p].s.held # 0
    BY <1>0, <2>9 DEF SignsIn!ReadsHold
  <2>16. acct'.secret = acct.secret /\ acct'.last = acct.last /\ accepted' = accepted
    BY <2>1
  <2>17. SignsIn!CodeInv'
    BY <2>6, <2>10, <2>12, <2>13, <2>14, <2>15, <2>16, SecretsKept
  <2> QED
    BY <1>2, <2>1, <2>17
<1>15. ASSUME NEW r \in Requests, SignsIn!Complete(r), NEW b \in Browsers, b = req[r].b PROVE Goal
  <2> DEFINE s == [SignsIn!Clean(req[r].s) EXCEPT !.key = sess[b].key + 1, !.signed = TRUE]
  <2>1. /\ req[r].at = "accepted" /\ sess' = [sess EXCEPT ![b] = s]
        /\ req' = [req EXCEPT ![r] = SignsIn!Idle] /\ UNCHANGED <<acct, secrets, accepted>>
    BY <1>15 DEF SignsIn!Complete, SignsIn!Ended
  <2>2. s.held = 0
    BY <1>5, <2>1, RequestReads
  <2> HIDE DEF s
  <2>3. /\ sess'[b].held = 0
        /\ \A c \in Browsers : sess'[c].held = sess[c].held \/ sess'[c].held = 0
    BY <1>6, <2>1, <2>2
  <2> QED
    BY <1>1, <1>4, <1>15, <2>1, <2>3
<1>16. ASSUME NEW r \in Requests, SignsIn!Enroll(r) PROVE Goal
  <2>1. req[r].b \in Browsers
    BY <1>16, RequestReads DEF SignsIn!Enroll
  <2>2. accepted' # accepted
    <3>1. accepted' = Append(accepted, req[r].x) /\ accepted \in Seq(Nat \X Int)
      BY <1>16 DEF SignsIn!Enroll, SignsIn!TypeOK
    <3>2. Len(accepted') = Len(accepted) + 1 /\ Len(accepted) \in Nat
      BY <3>1
    <3> QED
      BY <3>2
  <2>3. \A q \in Requests : SignsIn!Busy(q) => q = r
    BY <1>16, <2>2 DEF SignsIn!Calm, SignsIn!vars
  <2>4. SignsIn!CodeInv' /\ acct.secret = 0
    BY <1>16, <2>1, <2>3, EnrollKeepsCodes
  <2> QED
    BY <2>4 DEF SignsIn!EnrolledOnce, SignsIn!has_two_factor
<1>17. ASSUME SignsIn!Reset PROVE Goal
  <2>1. acct'.secret = 0 /\ acct.secret # 0
    BY <1>0, <1>17 DEF SignsIn!Reset, SignsIn!AccountRow, SignsIn!has_two_factor
  <2>2. \A q \in Requests : ~ SignsIn!Busy(q)
    BY <1>17, <2>1 DEF SignsIn!Calm, SignsIn!vars
  <2> QED
    BY <1>17, <2>1, <2>2, ResetKeepsCodes DEF SignsIn!EnrolledOnce
<1>18. \A r \in Requests :
          /\ SignsIn!Complete(r) => req[r].b \in Browsers
          /\ SignsIn!Show(r) => req[r].b \in Browsers
  BY RequestReads DEF SignsIn!Complete, SignsIn!Show
<1> HIDE DEF Goal
<1>19. ASSUME NEW r \in Requests, SignsIn!Show(r) \/ SignsIn!Complete(r) PROVE Goal
  <2>1. CASE SignsIn!Show(r)
    BY <1>14, <1>18, <2>1
  <2>2. CASE SignsIn!Complete(r)
    BY <1>15, <1>18, <2>2
  <2> QED
    BY <1>19, <2>1, <2>2
<1>20. Goal
  BY <1>7, <1>8, <1>9, <1>10, <1>11, <1>12, <1>13, <1>16, <1>17, <1>19 DEF SignsIn!Next
<1> QED
  BY <1>20 DEF Goal

\* No one-time code is accepted twice and the secret of an enrolled account is not replaced,
\* for any number of browsers and requests and with resets and new enrollments between them,
\* as long as nobody else is signing in while the second factor is enrolled or reset: a code
\* read before a reset may be accepted again after it, and of two enrollments that overlap the
\* later one replaces the secret.
THEOREM CodeOnceAlways ==
    ASSUME SignsIn!SignInAssumption
    PROVE  SignsIn!Spec /\ [][SignsIn!Calm]_(SignsIn!vars)
               => []SignsIn!CodeOnce /\ [][SignsIn!EnrolledOnce]_(SignsIn!vars)
<1>1. SignsIn!Init => SignsIn!TypeOK /\ SignsIn!CodeInv
  <2> SUFFICES ASSUME SignsIn!Init PROVE SignsIn!CodeInv
    BY SignInTypesStart
  <2>1. /\ accepted = <<>> /\ acct.secret = secrets /\ secrets \in {0, 1} /\ acct.last = SignsIn!NoStep
        /\ \A r \in Requests : req[r].at = "idle"
        /\ \A b \in Browsers : sess[b].held = 0
    BY DEF SignsIn!Init, SignsIn!Idle
  <2>2. \A b \in Browsers : SignsIn!Holds(b) = {}
    BY <2>1 DEF SignsIn!Holds, SignsIn!AskedBy, SignsIn!Asks
  <2>3. SignsIn!Spent = {secrets} \ {0}
    BY <2>1 DEF SignsIn!Spent
  <2> QED
    BY <2>1, <2>2, <2>3 DEF SignsIn!CodeInv, SignsIn!MadeOnce, SignsIn!SpentIsGone, SignsIn!ReadsHold,
           SignsIn!StepsBehind, SignsIn!CodeOnce, SignsIn!Distinct, SignsIn!Asks
<1>2. SignsIn!TypeOK /\ SignsIn!CodeInv /\ [SignsIn!Next]_(SignsIn!vars) /\ [SignsIn!Calm]_(SignsIn!vars)
         => (SignsIn!TypeOK /\ SignsIn!CodeInv)' /\ [SignsIn!EnrolledOnce]_(SignsIn!vars)
  BY SignInTypesStay, CodesStay
<1>3. SignsIn!CodeInv => SignsIn!CodeOnce
  BY DEF SignsIn!CodeInv
<1> QED
  BY <1>1, <1>2, <1>3, PTL DEF SignsIn!Spec

-----------------------------------------------------------------------------
(* Terminals: revoked when something changes, and at most so many.             *)

Consoles == INSTANCE Terminals

\* Cardinality in the instance is the Cardinality the library's facts are about.
LEMMA PlacesAreCounted == \A S : Consoles!Cardinality(S) = Cardinality(S)
BY DEF Consoles!Cardinality, Cardinality

\* What a request, a terminal and an account are, one sort after the other.
Asks == [at: {"idle", "connecting", "connected", "added"}, version: Nat]
Window == [st: {"unused", "open", "closed"}, key: Browsers \cup {None}, version: Nat, reason: Consoles!Reasons]
Person == [allowed: BOOLEAN, version: Nat]

\* Closing terminals opens none, and keeps whose they are.
LEMMA Closes ==
    ASSUME Consoles!TypeOK, NEW S, NEW why \in Consoles!Reasons, term' = Consoles!Finished(S, why)
    PROVE  /\ term' \in [Terms -> Window]
           /\ \A t \in Terms : /\ term'[t].key = term[t].key /\ term'[t].version = term[t].version
                               /\ term'[t].st = "open" => term[t].st = "open"
                               /\ term'[t].reason \in {term[t].reason, why}
                               /\ term'[t].reason # term[t].reason => t \in S /\ term[t].st = "open"
<1>1. term \in [Terms -> Window]
  BY DEF Consoles!TypeOK, Window
<1>2. ASSUME NEW t \in Terms
      PROVE  /\ term'[t] \in Window
             /\ term'[t].key = term[t].key /\ term'[t].version = term[t].version
             /\ term'[t].st = "open" => term[t].st = "open"
             /\ term'[t].reason \in {term[t].reason, why}
             /\ term'[t].reason # term[t].reason => t \in S /\ term[t].st = "open"
  <2> DEFINE w == term[t]
             v == [w EXCEPT !.st = "closed", !.reason = why]
  <2>1. w \in Window
    BY <1>1
  <2>2. /\ v \in Window /\ v.key = w.key /\ v.version = w.version /\ v.st = "closed" /\ v.reason = why
    BY <2>1 DEF Window
  <2>3. term'[t] = IF t \in S /\ w.st = "open" THEN v ELSE w
    BY DEF Consoles!Finished, Consoles!Open
  <2> HIDE DEF w, v
  <2>4. term'[t] \in {w, v}
    BY <2>3
  <2>5. term'[t] \in Window /\ term'[t].key = w.key /\ term'[t].version = w.version
        /\ (term'[t].st = "open" => w.st = "open") /\ term'[t].reason \in {w.reason, why}
        /\ (term'[t].reason # w.reason => t \in S /\ w.st = "open")
    BY <2>1, <2>2, <2>3, <2>4
  <2> QED
    BY <2>5 DEF w
<1>3. term' = [t \in Terms |-> term'[t]]
  BY DEF Consoles!Finished
<1> HIDE DEF Window
<1> QED
  BY <1>2, <1>3

\* What one request's step makes of the request.
Turns(b, at) == /\ opening' \in [Browsers -> Asks]
                /\ opening'[b].at = at
                /\ \A c \in Browsers \ {b} : opening'[c] = opening[c]
LEMMA TurnsEach ==
    ASSUME Consoles!TypeOK, NEW b \in Browsers
    PROVE  /\ opening' = [opening EXCEPT ![b] = Consoles!NoRequest] => Turns(b, "idle")
           /\ \A at \in {"connected", "added"} :
                 opening' = [opening EXCEPT ![b].at = at] =>
                     Turns(b, at) /\ opening'[b].version = opening[b].version
           /\ \A version \in Nat :
                 opening' = [opening EXCEPT ![b] = [at |-> "connecting", version |-> version]] =>
                     Turns(b, "connecting") /\ opening'[b].version = version
<1>1. opening \in [Browsers -> Asks]
  BY DEF Consoles!TypeOK, Asks
<1>2. ASSUME NEW q \in Asks, opening' = [opening EXCEPT ![b] = q]
      PROVE  Turns(b, q.at) /\ opening'[b] = q
  <2> HIDE DEF Asks
  <2> QED
    BY <1>1, <1>2 DEF Turns
<1>3. Consoles!NoRequest \in Asks /\ Consoles!NoRequest.at = "idle"
  BY DEF Consoles!NoRequest, Asks
<1>4. ASSUME NEW at \in {"connected", "added"}, opening' = [opening EXCEPT ![b].at = at]
      PROVE  Turns(b, at) /\ opening'[b].version = opening[b].version
  <2> DEFINE o == opening[b]
             q == [o EXCEPT !.at = at]
  <2>1. q \in Asks /\ q.at = at /\ q.version = o.version
    BY <1>1 DEF Asks
  <2>2. opening' = [opening EXCEPT ![b] = q]
    BY <1>4
  <2> HIDE DEF q, Asks
  <2> QED
    BY <2>1, <2>2, <1>2
<1>5. ASSUME NEW version \in Nat,
             opening' = [opening EXCEPT ![b] = [at |-> "connecting", version |-> version]]
      PROVE  Turns(b, "connecting") /\ opening'[b].version = version
  <2> DEFINE q == [at |-> "connecting", version |-> version]
  <2>1. q \in Asks /\ q.at = "connecting" /\ q.version = version
    BY DEF Asks
  <2> HIDE DEF Asks
  <2> QED
    BY <2>1, <1>2, <1>5
<1> HIDE DEF Asks, Turns
<1> QED
  BY <1>2, <1>3, <1>4, <1>5

\* What a step of Add does: one terminal at most is opened, for that browser.
LEMMA Adding ==
    ASSUME Consoles!TypeOK, NEW b \in Browsers, Consoles!Add(b)
    PROVE  /\ term' \in [Terms -> Window] /\ Turns(b, "added")
           /\ \E t : /\ \A o \in Terms \ {t} : term'[o] = term[o]
                     /\ t \in Terms => /\ term'[t].key = b /\ term'[t].reason = "-"
                                       /\ term'[t].version = opening[b].version
           /\ opening'[b].version = opening[b].version
<1> DEFINE t == CHOOSE t \in Terms : /\ term[t].st = "unused"
                                      /\ \A o \in Terms : o < t => term[o].st # "unused"
           v == [st |-> "open", key |-> b, version |-> Consoles!OwnerVersion(b), reason |-> "-"]
<1>1. term \in [Terms -> Window] /\ opening[b].version \in Nat
  BY DEF Consoles!TypeOK, Window
<1>2. term' = [term EXCEPT ![t] = v] /\ opening' = [opening EXCEPT ![b].at = "added"]
  BY DEF Consoles!Add
<1>3. v \in Window /\ v.key = b /\ v.reason = "-" /\ v.version = opening[b].version
  BY <1>1 DEF Window, Consoles!OwnerVersion, Consoles!Reasons
<1>4. Turns(b, "added") /\ opening'[b].version = opening[b].version
  BY <1>2, TurnsEach
<1> HIDE DEF t, v, Window, Turns
<1>5. /\ term' \in [Terms -> Window] /\ \A o \in Terms \ {t} : term'[o] = term[o]
      /\ t \in Terms => term'[t] = v
  BY <1>1, <1>2, <1>3
<1> QED
  BY <1>3, <1>4, <1>5

\* Types are kept.
LEMMA TerminalTypes ==
    ASSUME UserOf \in [Browsers -> Users], Consoles!TypeOK, [Consoles!Next]_(Consoles!vars)
    PROVE  Consoles!TypeOK'
<1>0. /\ account \in [Users -> Person] /\ signedIn \subseteq Browsers /\ opening \in [Browsers -> Asks]
      /\ reserved \in [Users -> Int] /\ term \in [Terms -> Window]
      /\ \A t \in Terms : term[t].st = "open" => term[t].key \in Browsers
      /\ faults \in Nat /\ leaked \in Nat /\ closer \in [Terms -> Browsers \cup {None}]
  BY DEF Consoles!TypeOK, Person, Asks, Window, Consoles!Open
<1>1. ASSUME /\ account' \in [Users -> Person] /\ signedIn' \subseteq Browsers /\ opening' \in [Browsers -> Asks]
             /\ reserved' \in [Users -> Int] /\ term' \in [Terms -> Window]
             /\ \A t \in Terms : term'[t].st = "open" => term'[t].key \in Browsers
             /\ faults' \in Nat /\ leaked' \in Nat /\ closer' \in [Terms -> Browsers \cup {None}]
      PROVE  Consoles!TypeOK'
  BY <1>1 DEF Consoles!TypeOK, Person, Asks, Window, Consoles!Open
<1>2. ASSUME NEW S, NEW why \in Consoles!Reasons, term' = Consoles!Finished(S, why)
      PROVE  /\ term' \in [Terms -> Window]
             /\ \A t \in Terms : term'[t].st = "open" => term'[t].key \in Browsers
  <2> HIDE DEF Window
  <2> QED
    BY <1>0, <1>2, Closes
<1>3. \A w \in {"revoked", "closed", "unpolled", "idle", "lifetime", "signed out", "stopped"} : w \in Consoles!Reasons
  BY DEF Consoles!Reasons
<1>4. \A b \in Browsers : UserOf[b] \in Users /\ [reserved EXCEPT ![UserOf[b]] = reserved[UserOf[b]] + 1] \in [Users -> Int]
                          /\ [reserved EXCEPT ![UserOf[b]] = reserved[UserOf[b]] - 1] \in [Users -> Int]
  <2> TAKE b \in Browsers
  <2>1. UserOf[b] \in Users
    OBVIOUS
  <2>2. reserved[UserOf[b]] + 1 \in Int /\ reserved[UserOf[b]] - 1 \in Int
    BY <1>0, <2>1
  <2> QED
    BY <1>0, <2>1, <2>2
<1>5. \A b \in Browsers : Consoles!Unreserved(b) => reserved' \in [Users -> Int]
  BY <1>4 DEF Consoles!Unreserved
<1> USE DEF Turns
<1> HIDE DEF Asks, Window, Person
<1>6. ASSUME NEW b \in Browsers, Consoles!Reserve(b) PROVE Consoles!TypeOK'
  <2>1. account[UserOf[b]].version \in Nat
    BY <1>0 DEF Person
  <2>2. opening' \in [Browsers -> Asks] /\ reserved' \in [Users -> Int]
    BY <1>4, <1>6, <2>1, TurnsEach DEF Consoles!Reserve
  <2> QED
    BY <1>0, <1>1, <1>6, <2>2 DEF Consoles!Reserve
<1>7. ASSUME NEW b \in Browsers, Consoles!Connect(b) PROVE Consoles!TypeOK'
  BY <1>0, <1>1, <1>7, TurnsEach DEF Consoles!Connect
<1>8. ASSUME NEW b \in Browsers, Consoles!ConnectFails(b) PROVE Consoles!TypeOK'
  BY <1>0, <1>1, <1>5, <1>8, TurnsEach DEF Consoles!ConnectFails
<1>9. ASSUME NEW b \in Browsers, Consoles!RecordFails(b) PROVE Consoles!TypeOK'
  <2>1. faults' \in Nat /\ leaked' \in Nat
    BY <1>0, <1>9 DEF Consoles!RecordFails
  <2>2. opening' \in [Browsers -> Asks]
    BY <1>9, TurnsEach DEF Consoles!RecordFails
  <2> QED
    BY <1>0, <1>1, <1>5, <1>9, <2>1, <2>2 DEF Consoles!RecordFails
<1>10. ASSUME NEW b \in Browsers, Consoles!Add(b) PROVE Consoles!TypeOK'
  <2>1. /\ term' \in [Terms -> Window] /\ opening' \in [Browsers -> Asks]
        /\ \E t : /\ \A o \in Terms \ {t} : term'[o] = term[o]
                  /\ t \in Terms => term'[t].key = b
    BY <1>10, Adding
  <2>2. \A t \in Terms : term'[t].st = "open" => term'[t].key \in Browsers
    BY <1>0, <2>1
  <2> QED
    BY <1>0, <1>1, <1>10, <2>1, <2>2 DEF Consoles!Add
<1>11. ASSUME NEW b \in Browsers, Consoles!Release(b) PROVE Consoles!TypeOK'
  BY <1>0, <1>1, <1>5, <1>11, TurnsEach DEF Consoles!Release
<1>12. ASSUME NEW b \in Browsers, Consoles!List(b) PROVE Consoles!TypeOK'
  <2>1. closer' \in [Terms -> Browsers \cup {None}]
    BY <1>0, <1>12 DEF Consoles!List
  <2> QED
    BY <1>0, <1>1, <1>2, <1>3, <1>12, <2>1 DEF Consoles!List
<1>13. ASSUME NEW b \in Browsers, NEW t \in Terms, Consoles!CloseIt(b, t) PROVE Consoles!TypeOK'
  BY <1>0, <1>1, <1>2, <1>3, <1>13 DEF Consoles!CloseIt
<1>14. ASSUME NEW b \in Browsers, Consoles!SignOut(b) PROVE Consoles!TypeOK'
  <2>1. signedIn' \subseteq Browsers
    BY <1>0, <1>14 DEF Consoles!SignOut
  <2> QED
    BY <1>0, <1>1, <1>2, <1>3, <1>14, <2>1 DEF Consoles!SignOut
<1>15. ASSUME NEW t \in Terms, Consoles!Sweep(t) PROVE Consoles!TypeOK'
  BY <1>0, <1>1, <1>2, <1>3, <1>15 DEF Consoles!Sweep
<1>16. ASSUME NEW t \in Terms, Consoles!Overdue(t) PROVE Consoles!TypeOK'
  BY <1>0, <1>1, <1>2, <1>3, <1>16 DEF Consoles!Overdue
<1>17. ASSUME NEW u \in Users, Consoles!ChangeAccount(u) PROVE Consoles!TypeOK'
  <2>1. PICK allowed \in BOOLEAN : account' = [account EXCEPT ![u] = [allowed |-> allowed, version |-> account[u].version + 1]]
    BY <1>17 DEF Consoles!ChangeAccount
  <2>2. [allowed |-> allowed, version |-> account[u].version + 1] \in Person
    BY <1>0 DEF Person
  <2>3. account' \in [Users -> Person]
    BY <1>0, <2>1, <2>2
  <2> QED
    BY <1>0, <1>1, <1>17, <2>3 DEF Consoles!ChangeAccount
<1>18. ASSUME Consoles!Stop PROVE Consoles!TypeOK'
  <2>1. Consoles!NoRequest \in Asks
    BY DEF Consoles!NoRequest, Asks
  <2>2. opening' \in [Browsers -> Asks] /\ reserved' \in [Users -> Int] /\ leaked' \in Nat
    BY <1>18, <2>1 DEF Consoles!Stop
  <2> QED
    BY <1>0, <1>1, <1>2, <1>3, <1>18, <2>2 DEF Consoles!Stop
<1>19. ASSUME UNCHANGED Consoles!vars PROVE Consoles!TypeOK'
  BY <1>0, <1>1, <1>19 DEF Consoles!vars
<1> QED
  BY <1>6, <1>7, <1>8, <1>9, <1>10, <1>11, <1>12, <1>13, <1>14, <1>15, <1>16, <1>17, <1>18, <1>19 DEF Consoles!Next

LEMMA TerminalsStart ==
    ASSUME UserOf \in [Browsers -> Users], Consoles!Init
    PROVE  Consoles!TypeOK /\ Consoles!RevokedInv
<1>1. Consoles!Unused \in Window /\ Consoles!NoRequest \in Asks /\ [allowed |-> TRUE, version |-> 0] \in Person
  BY DEF Consoles!Unused, Consoles!NoRequest, Window, Asks, Person, Consoles!Reasons
<1>2. /\ account \in [Users -> Person] /\ opening \in [Browsers -> Asks] /\ term \in [Terms -> Window]
      /\ reserved \in [Users -> Int]
  <2> HIDE DEF Window, Asks, Person
  <2> QED
    BY <1>1 DEF Consoles!Init
<1>3. \A t \in Terms : term[t].st = "unused" /\ term[t].reason = "-"
  BY DEF Consoles!Init, Consoles!Unused
<1>4. \A b \in Browsers : opening[b].at = "idle"
  BY DEF Consoles!Init, Consoles!NoRequest
<1>5. Consoles!TypeOK
  BY <1>2, <1>3 DEF Consoles!TypeOK, Consoles!Init, Window, Asks, Person, Consoles!Open
<1> QED
  BY <1>3, <1>4, <1>5 DEF Consoles!RevokedInv, Consoles!RevokedForChange, Consoles!Open

\* A terminal is closed as revoked only when its account changed after it was opened, or
\* by the list of another browser.
LEMMA RevokedSteps ==
    ASSUME UserOf \in [Browsers -> Users], Consoles!TypeOK, Consoles!RevokedInv,
           [Consoles!Next]_(Consoles!vars)
    PROVE  Consoles!RevokedInv'
<1> USE DEF Consoles!Known, Consoles!Open
<1> DEFINE Why(t) == Consoles!Changed(t) \/ Consoles!ClosedElsewhere(t)
<1>0. /\ Consoles!TypeOK'
      /\ \A u \in Users : account[u].version \in Nat
      /\ \A t \in Terms : term[t].version \in Nat /\ (term[t].st = "open" => term[t].key \in Browsers)
      /\ \A b \in Browsers : opening[b].version \in Nat
      /\ \A b \in Browsers : UserOf[b] \in Users
  BY TerminalTypes DEF Consoles!TypeOK
<1>1. /\ \A t \in Terms : term[t].reason = "revoked" => Why(t)
      /\ \A t \in Terms : term[t].st = "open" => Consoles!Known(UserOf[term[t].key], term[t].version)
      /\ \A b \in Browsers : opening[b].at # "idle" => Consoles!Known(UserOf[b], opening[b].version)
  BY DEF Consoles!RevokedInv, Consoles!RevokedForChange
<1>2. ASSUME UNCHANGED account,
             \A t \in Terms : /\ term'[t].reason = "revoked" => Why(t)'
                              /\ term'[t].st = "open" => Consoles!Known(UserOf[term'[t].key], term'[t].version),
             \A b \in Browsers : opening'[b].at # "idle" =>
                                    Consoles!Known(UserOf[b], opening'[b].version)
      PROVE  Consoles!RevokedInv'
  BY <1>2 DEF Consoles!RevokedInv, Consoles!RevokedForChange
<1>19. ASSUME UNCHANGED account, NEW t \in Terms, term'[t].key = term[t].key,
              term'[t].version = term[t].version, closer'[t] = closer[t], Why(t)
       PROVE  Why(t)'
  BY <1>19 DEF Consoles!Changed, Consoles!ClosedElsewhere
\* A step of one request that touches no terminal.
<1>3. ASSUME UNCHANGED <<account, term, closer>>, NEW b \in Browsers, NEW at, Turns(b, at),
             at # "idle" => Consoles!Known(UserOf[b], opening'[b].version)
      PROVE  Consoles!RevokedInv'
  BY <1>1, <1>2, <1>3, <1>19 DEF Turns
\* Terminals are closed: as revoked only when their account changed, or by another browser.
<1>4. ASSUME UNCHANGED <<account, opening>>, NEW S, NEW why \in Consoles!Reasons, term' = Consoles!Finished(S, why),
             why = "revoked" => \A t \in S \cap Terms : term[t].st = "open" =>
                                    ~ Consoles!StillAllowed(t) \/ Consoles!ClosedElsewhere(t)',
             \A t \in Terms : \/ closer'[t] = closer[t]
                              \/ t \in S /\ why = "revoked" /\ term[t].st = "open"
      PROVE  Consoles!RevokedInv'
  <2>1. \A t \in Terms : /\ term'[t].key = term[t].key /\ term'[t].version = term[t].version
                         /\ term'[t].st = "open" => term[t].st = "open"
                         /\ term'[t].reason \in {term[t].reason, why}
                         /\ term'[t].reason # term[t].reason => t \in S /\ term[t].st = "open"
    BY <1>4, Closes
  <2>2. ASSUME NEW t \in Terms, term'[t].reason = "revoked"
        PROVE  Why(t)'
    <3>1. CASE t \in S /\ why = "revoked" /\ term[t].st = "open"
      <4>1. CASE ~ Consoles!StillAllowed(t)
        <5>1. Consoles!Known(UserOf[term[t].key], term[t].version) /\ UserOf[term[t].key] \in Users
          BY <1>0, <1>1, <3>1
        <5>2. account[UserOf[term[t].key]].version # term[t].version
          BY <4>1, <5>1 DEF Consoles!StillAllowed
        <5>3. account[UserOf[term[t].key]].version > term[t].version
          BY <1>0, <5>1, <5>2
        <5> QED
          BY <1>4, <2>1, <5>3 DEF Consoles!Changed
      <4>2. CASE Consoles!ClosedElsewhere(t)'
        BY <4>2
      <4> QED
        BY <1>4, <3>1, <4>1, <4>2
    <3>2. CASE ~ (t \in S /\ why = "revoked" /\ term[t].st = "open")
      <4>1. term[t].reason = "revoked" /\ closer'[t] = closer[t]
        BY <1>4, <2>1, <2>2, <3>2
      <4>2. Why(t)
        BY <1>1, <4>1
      <4> HIDE DEF Why
      <4> QED
        BY <1>4, <1>19, <2>1, <4>1, <4>2
    <3> QED
      BY <3>1, <3>2
  <2> QED
    BY <1>1, <1>2, <1>4, <2>1, <2>2
<1>5. ASSUME NEW t \in Terms PROVE {t} \cap Terms = {t}
  OBVIOUS
<1>6. \A w \in {"revoked", "closed", "unpolled", "idle", "lifetime", "signed out", "stopped"} : w \in Consoles!Reasons
  BY DEF Consoles!Reasons
<1>7. ASSUME NEW b \in Browsers, Consoles!Reserve(b) PROVE Consoles!RevokedInv'
  <2>1. account[UserOf[b]].version \in Nat /\ account[UserOf[b]].allowed
    BY <1>0, <1>7 DEF Consoles!Reserve
  <2>2. Turns(b, "connecting") /\ opening'[b].version = account[UserOf[b]].version /\ UNCHANGED <<account, term, closer>>
    BY <1>7, <2>1, TurnsEach DEF Consoles!Reserve
  <2> QED
    BY <1>3, <2>1, <2>2
<1>8. ASSUME NEW b \in Browsers, Consoles!Connect(b) PROVE Consoles!RevokedInv'
  <2>1. Turns(b, "connected") /\ opening'[b].version = opening[b].version /\ UNCHANGED <<account, term, closer>>
        /\ opening[b].at # "idle"
    BY <1>8, TurnsEach DEF Consoles!Connect
  <2> QED
    BY <1>1, <1>3, <2>1
<1>9. ASSUME NEW b \in Browsers, Consoles!ConnectFails(b) \/ Consoles!RecordFails(b) \/ Consoles!Release(b)
      PROVE  Consoles!RevokedInv'
  <2>1. Turns(b, "idle") /\ UNCHANGED <<account, term, closer>>
    BY <1>9, TurnsEach DEF Consoles!ConnectFails, Consoles!RecordFails, Consoles!Release
  <2> QED
    BY <1>3, <2>1
<1>10. ASSUME NEW b \in Browsers, Consoles!Add(b) PROVE Consoles!RevokedInv'
  <2>1. UNCHANGED <<account, closer>> /\ opening[b].at # "idle"
    BY <1>10 DEF Consoles!Add
  <2>2. Turns(b, "added") /\ opening'[b].version = opening[b].version
    BY <1>10, Adding
  <2>3. PICK t : /\ \A o \in Terms \ {t} : term'[o] = term[o]
                 /\ t \in Terms => /\ term'[t].key = b /\ term'[t].reason = "-"
                                   /\ term'[t].version = opening[b].version
    BY <1>10, Adding
  <2>4. \A o \in Terms : /\ term'[o].reason = "revoked" => Why(o)'
                         /\ term'[o].st = "open" => Consoles!Known(UserOf[term'[o].key], term'[o].version)
    <3> HIDE DEF Why
    <3> QED
      BY <1>1, <1>19, <2>1, <2>3
  <2> QED
    BY <1>1, <1>2, <2>1, <2>2, <2>4 DEF Turns
<1>11. ASSUME NEW b \in Browsers, Consoles!List(b) PROVE Consoles!RevokedInv'
  <2> DEFINE gone == {t \in Consoles!Mine(UserOf[b]) : ~ Consoles!StillAllowed(t) \/ term[t].key # b}
  <2>1. /\ term' = Consoles!Finished(gone, "revoked") /\ UNCHANGED <<account, opening>>
        /\ closer' = [t \in Terms |-> IF t \in gone THEN b ELSE closer[t]]
    BY <1>11 DEF Consoles!List
  <2>2. \A t \in gone : t \in Terms /\ term[t].st = "open" /\ UserOf[term[t].key] = UserOf[b]
    BY DEF Consoles!Mine
  <2>3. \A t \in Terms : term'[t].key = term[t].key
    BY <1>6, <2>1, Closes
  <2>4. ASSUME NEW t \in gone, Consoles!StillAllowed(t) PROVE Consoles!ClosedElsewhere(t)'
    <3>1. term[t].key # b
      BY <2>4
    <3> QED
      BY <2>1, <2>2, <2>3, <3>1 DEF Consoles!ClosedElsewhere
  <2> HIDE DEF gone
  <2>5. \A t \in Terms : closer'[t] = closer[t] \/ t \in gone
    BY <2>1
  <2> QED
    BY <1>4, <1>6, <2>1, <2>2, <2>4, <2>5
<1>12. ASSUME NEW b \in Browsers, NEW t \in Terms, Consoles!CloseIt(b, t) PROVE Consoles!RevokedInv'
  BY <1>4, <1>6, <1>12 DEF Consoles!CloseIt
<1>13. ASSUME NEW b \in Browsers, Consoles!SignOut(b) PROVE Consoles!RevokedInv'
  BY <1>4, <1>6, <1>13 DEF Consoles!SignOut
<1>14. ASSUME NEW t \in Terms, Consoles!Sweep(t) PROVE Consoles!RevokedInv'
  <2>1. CASE ~ Consoles!StillAllowed(t) /\ term' = Consoles!Finished({t}, "revoked")
    BY <1>4, <1>6, <1>14, <2>1 DEF Consoles!Sweep
  <2>2. CASE term' = Consoles!Finished({t}, "unpolled")
    BY <1>4, <1>6, <1>14, <2>2 DEF Consoles!Sweep
  <2> QED
    BY <1>14, <2>1, <2>2 DEF Consoles!Sweep
<1>15. ASSUME NEW t \in Terms, Consoles!Overdue(t) PROVE Consoles!RevokedInv'
  BY <1>4, <1>6, <1>15 DEF Consoles!Overdue
<1>16. ASSUME NEW u \in Users, Consoles!ChangeAccount(u) PROVE Consoles!RevokedInv'
  <2>1. PICK allowed \in BOOLEAN : account' = [account EXCEPT ![u] = [allowed |-> allowed, version |-> account[u].version + 1]]
    BY <1>16 DEF Consoles!ChangeAccount
  <2>2. UNCHANGED <<opening, term, closer>> /\ account \in [Users -> Person]
    BY <1>16 DEF Consoles!ChangeAccount, Consoles!TypeOK, Person
  <2>3. \A v \in Users \ {u} : account'[v] = account[v]
    BY <2>1, <2>2
  <2>4. account'[u].version = account[u].version + 1
    BY <2>1, <2>2
  <2>5. ASSUME NEW v \in Users, NEW version \in Nat, Consoles!Known(v, version)
        PROVE  Consoles!Known(v, version)'
    BY <1>0, <2>3, <2>4, <2>5
  <2>6. ASSUME NEW t \in Terms, term[t].reason = "revoked"
        PROVE  Why(t)'
    <3> DEFINE w == UserOf[term[t].key]
    <3>1. account'[w].version > term[t].version \/ Consoles!ClosedElsewhere(t)
      <4>1. account[w].version > term[t].version \/ Consoles!ClosedElsewhere(t)
        BY <1>1, <2>6 DEF Consoles!Changed
      <4>2. CASE w = u
        BY <1>0, <2>4, <4>1, <4>2
      <4>3. CASE w # u
        BY <2>1, <2>2, <4>1, <4>3
      <4> QED
        BY <4>2, <4>3
    <3> QED
      BY <2>2, <3>1 DEF Consoles!Changed, Consoles!ClosedElsewhere
  <2>7. \A t \in Terms : term[t].st = "open" => Consoles!Known(UserOf[term[t].key], term[t].version)'
    BY <1>0, <1>1, <2>2, <2>5
  <2>8. \A b \in Browsers : opening[b].at # "idle" => Consoles!Known(UserOf[b], opening[b].version)'
    BY <1>0, <1>1, <2>2, <2>5
  <2> QED
    BY <2>2, <2>6, <2>7, <2>8 DEF Consoles!RevokedInv, Consoles!RevokedForChange
<1>17. ASSUME Consoles!Stop PROVE Consoles!RevokedInv'
  <2>1. UNCHANGED <<account, closer>> /\ term' = Consoles!Finished(Terms, "stopped")
    BY <1>17 DEF Consoles!Stop
  <2>2. \A t \in Terms : /\ term'[t].key = term[t].key /\ term'[t].version = term[t].version
                         /\ term'[t].st = "open" => term[t].st = "open"
                         /\ term'[t].reason \in {term[t].reason, "stopped"}
    BY <1>6, <2>1, Closes
  <2>3. \A b \in Browsers : opening'[b].at = "idle"
    BY <1>17 DEF Consoles!Stop, Consoles!NoRequest
  <2>4. \A t \in Terms : /\ term'[t].reason = "revoked" => Why(t)'
                         /\ term'[t].st = "open" => Consoles!Known(UserOf[term'[t].key], term'[t].version)
    <3> HIDE DEF Why
    <3> QED
      BY <1>1, <1>19, <2>1, <2>2
  <2> QED
    BY <1>2, <2>1, <2>3, <2>4
<1>18. ASSUME UNCHANGED Consoles!vars PROVE Consoles!RevokedInv'
  BY <1>1, <1>2, <1>18, <1>19 DEF Consoles!vars
<1> QED
  BY <1>7, <1>8, <1>9, <1>10, <1>11, <1>12, <1>13, <1>14, <1>15, <1>16, <1>17, <1>18 DEF Consoles!Next

\* A terminal is closed as revoked only when the role or the password of its account changed
\* after it was opened, or by the list of another browser of that account, for any number of
\* accounts, browsers and terminals: what an account may was read together with its version,
\* before the connection was made, and is compared with both.
THEOREM RevokedForChangeAlways ==
    ASSUME UserOf \in [Browsers -> Users]
    PROVE  Consoles!Spec => []Consoles!RevokedForChange
<1> DEFINE Inv == Consoles!TypeOK /\ Consoles!RevokedInv
<1>1. Consoles!Init => Inv
  BY TerminalsStart
<1>2. Inv /\ [Consoles!Next]_(Consoles!vars) => Inv'
  BY TerminalTypes, RevokedSteps
<1>3. Inv => Consoles!RevokedForChange
  BY DEF Consoles!RevokedInv
<1> HIDE DEF Inv
<1> QED
  BY <1>1, <1>2, <1>3, PTL DEF Consoles!Spec

\* What is open and what is under way stays within a limit when neither grows ...
LEMMA LimitKept ==
    ASSUME NEW O, NEW W, NEW n \in Nat, IsFiniteSet(O), IsFiniteSet(W), Cardinality(O) + Cardinality(W) <= n,
           NEW P, NEW Q, P \subseteq O, Q \subseteq W
    PROVE  Cardinality(P) + Cardinality(Q) <= n
<1>1. Cardinality(O) \in Nat /\ Cardinality(W) \in Nat
  BY FS_CardinalityType
<1>2. /\ Cardinality(P) \in Nat /\ Cardinality(P) <= Cardinality(O)
      /\ Cardinality(Q) \in Nat /\ Cardinality(Q) <= Cardinality(W)
  BY FS_Subset, FS_CardinalityType
<1> QED
  BY <1>1, <1>2

\* ... and when one terminal is opened for a request that is no longer under way.
LEMMA LimitTraded ==
    ASSUME NEW O, NEW W, NEW n \in Nat, IsFiniteSet(O), IsFiniteSet(W), Cardinality(O) + Cardinality(W) <= n,
           NEW t, NEW b, b \in W, NEW P, NEW Q, P \subseteq O \cup {t}, Q \subseteq W \ {b}
    PROVE  Cardinality(P) + Cardinality(Q) <= n
<1>0. Cardinality(O) \in Nat /\ Cardinality(W) \in Nat
  BY FS_CardinalityType
<1>1. IsFiniteSet(O \cup {t}) /\ Cardinality(O \cup {t}) \in Nat /\ Cardinality(O \cup {t}) <= Cardinality(O) + 1
  <2>1. CASE t \in O
    <3>1. O \cup {t} = O
      BY <2>1
    <3>2. IsFiniteSet(O \cup {t}) /\ Cardinality(O \cup {t}) = Cardinality(O)
      BY <3>1, Zenon
    <3> QED
      BY <1>0, <3>2
  <2>2. CASE t \notin O
    <3>1. IsFiniteSet(O \cup {t}) /\ Cardinality(O \cup {t}) = Cardinality(O) + 1
      BY <2>2, FS_AddElement
    <3> QED
      BY <1>0, <3>1
  <2> QED
    BY <2>1, <2>2
<1>2. IsFiniteSet(W \ {b}) /\ Cardinality(W \ {b}) = Cardinality(W) - 1
  BY <1>0, FS_RemoveElement
<1>3. /\ Cardinality(P) \in Nat /\ Cardinality(P) <= Cardinality(O \cup {t})
      /\ Cardinality(Q) \in Nat /\ Cardinality(Q) <= Cardinality(W \ {b})
  BY <1>1, <1>2, FS_Subset, FS_CardinalityType
<1> QED
  BY <1>0, <1>1, <1>2, <1>3

\* The requests of an account that hold a place, and those that have not added their terminal yet.
Holders(u) == {b \in Browsers : UserOf[b] = u /\ opening[b].at # "idle"}
Workers(u) == {b \in Browsers : Consoles!AtWork(b) /\ UserOf[b] = u}
AllWorkers == {b \in Browsers : Consoles!AtWork(b)}

\* The same limits, with the library's Cardinality.
Limits == /\ \A u \in Users : reserved[u] = Cardinality(Holders(u))
          /\ Cardinality(Consoles!Opened) + Cardinality(AllWorkers) <= MaxOpen
          /\ \A u \in Users : Cardinality(Consoles!Mine(u)) + Cardinality(Workers(u)) <= PerAccount
LEMMA LimitsAreLimits == Consoles!LimitsInv <=> Limits
BY PlacesAreCounted DEF Limits, Consoles!LimitsInv, Consoles!PlacesReturn, Holders, Workers, AllWorkers

Finite == IsFiniteSet(Terms) /\ IsFiniteSet(Browsers)
LEMMA AllFinite ==
    ASSUME Finite
    PROVE  /\ \A u : /\ IsFiniteSet(Holders(u)) /\ IsFiniteSet(Workers(u)) /\ IsFiniteSet(Consoles!Mine(u))
                     /\ Workers(u) \subseteq Holders(u)
           /\ IsFiniteSet(AllWorkers) /\ IsFiniteSet(Consoles!Opened)
<1>1. \A S : S \subseteq Terms \/ S \subseteq Browsers => IsFiniteSet(S)
  BY FS_Subset DEF Finite
<1> QED
  BY <1>1 DEF Holders, Workers, AllWorkers, Consoles!Opened, Consoles!Mine, Consoles!AtWork

\* The limits of the manager and of an account stay where no terminal is opened and no request begins.
LEMMA NothingOpens ==
    ASSUME Consoles!TerminalsAssumption, Finite, Limits,
           Consoles!Opened' \subseteq Consoles!Opened, AllWorkers' \subseteq AllWorkers,
           \A u \in Users : Consoles!Mine(u)' \subseteq Consoles!Mine(u) /\ Workers(u)' \subseteq Workers(u),
           \A u \in Users : reserved'[u] = Cardinality(Holders(u)')
    PROVE  Limits'
<1>1. Cardinality(Consoles!Opened') + Cardinality(AllWorkers') <= MaxOpen
  BY AllFinite, LimitKept DEF Limits, Consoles!TerminalsAssumption
<1>2. ASSUME NEW u \in Users
      PROVE  Cardinality(Consoles!Mine(u)') + Cardinality(Workers(u)') <= PerAccount
  BY AllFinite, LimitKept DEF Limits, Consoles!TerminalsAssumption
<1> QED
  BY <1>1, <1>2 DEF Limits

\* A request that turns idle gives its place back, once.
LEMMA PlaceGivenBack ==
    ASSUME Consoles!TerminalsAssumption, Finite, Consoles!TypeOK, Limits, NEW b \in Browsers, Turns(b, "idle"),
           opening[b].at # "idle", Consoles!Unreserved(b)
    PROVE  \A u \in Users : reserved'[u] = Cardinality(Holders(u)')
<1> SUFFICES ASSUME NEW u \in Users PROVE reserved'[u] = Cardinality(Holders(u)')
  OBVIOUS
<1>0. /\ reserved \in [Users -> Int] /\ UserOf[b] \in Users
      /\ IsFiniteSet(Holders(u)) /\ reserved[u] = Cardinality(Holders(u)) /\ Cardinality(Holders(u)) \in Nat
  BY AllFinite, FS_CardinalityType DEF Consoles!TypeOK, Consoles!TerminalsAssumption, Limits
<1>1. Holders(u)' = {c \in Browsers : UserOf[c] = u /\ opening'[c].at # "idle"}
  BY DEF Holders
<1>2. CASE UserOf[b] = u
  <2>1. Holders(u)' = Holders(u) \ {b} /\ b \in Holders(u)
    BY <1>1, <1>2 DEF Holders, Turns
  <2>2. Cardinality(Holders(u) \ {b}) = Cardinality(Holders(u)) - 1
    BY <1>0, <2>1, FS_RemoveElement
  <2>3. reserved'[u] = reserved[u] - 1
    BY <1>0, <1>2 DEF Consoles!Unreserved
  <2> QED
    BY <1>0, <2>1, <2>2, <2>3
<1>3. CASE UserOf[b] # u
  <2>1. Holders(u)' = Holders(u)
    BY <1>1, <1>3 DEF Holders, Turns
  <2>2. reserved'[u] = reserved[u]
    BY <1>0, <1>3 DEF Consoles!Unreserved
  <2> QED
    BY <1>0, <2>1, <2>2
<1> QED
  BY <1>2, <1>3

\* The limits stay at every step: a place is taken before the connection is made and given back
\* only after the terminal counts.
LEMMA LimitsSteps ==
    ASSUME Consoles!TerminalsAssumption, Finite, Consoles!TypeOK, Limits, [Consoles!Next]_(Consoles!vars)
    PROVE  Limits'
<1>0. /\ UserOf \in [Browsers -> Users] /\ MaxOpen \in Nat /\ PerAccount \in Nat
      /\ reserved \in [Users -> Int] /\ term \in [Terms -> Window] /\ opening \in [Browsers -> Asks]
  BY DEF Consoles!TerminalsAssumption, Consoles!TypeOK, Window, Asks
<1>1. \A u \in Users : reserved[u] = Cardinality(Holders(u))
  BY DEF Limits
<1> DEFINE SameTerminals == /\ Consoles!Opened' \subseteq Consoles!Opened
                            /\ \A u \in Users : Consoles!Mine(u)' \subseteq Consoles!Mine(u)
           SameWork == /\ AllWorkers' \subseteq AllWorkers
                       /\ \A u \in Users : Workers(u)' \subseteq Workers(u)
           SamePlaces == \A u \in Users : reserved'[u] = Cardinality(Holders(u)')
<1>2. ASSUME SameTerminals, SameWork, SamePlaces PROVE Limits'
  BY <1>2, NothingOpens
<1>3. ASSUME UNCHANGED term PROVE SameTerminals
  BY <1>3 DEF Consoles!Opened, Consoles!Mine, Consoles!Open
<1>4. ASSUME NEW S, NEW why \in Consoles!Reasons, term' = Consoles!Finished(S, why) PROVE SameTerminals
  <2>1. \A t \in Terms : /\ term'[t].key = term[t].key
                         /\ term'[t].st = "open" => term[t].st = "open"
    BY <1>4, Closes
  <2> QED
    BY <2>1 DEF Consoles!Opened, Consoles!Mine, Consoles!Open
<1>5. ASSUME UNCHANGED <<opening, reserved>> PROVE SameWork /\ SamePlaces
  <2>1. \A u \in Users : Holders(u)' = Holders(u)
    BY <1>5 DEF Holders
  <2>2. SameWork
    BY <1>5 DEF AllWorkers, Workers, Consoles!AtWork
  <2> QED
    BY <1>1, <1>5, <2>1, <2>2
<1>6. ASSUME NEW b \in Browsers, NEW at, Turns(b, at), at \in {"connecting", "connected"} => Consoles!AtWork(b)
      PROVE  SameWork
  BY <1>6 DEF AllWorkers, Workers, Consoles!AtWork, Turns
<1>7. ASSUME NEW b \in Browsers, NEW at, Turns(b, at), at # "idle", opening[b].at # "idle", UNCHANGED reserved
      PROVE  SamePlaces
  <2>1. \A u \in Users : Holders(u)' = Holders(u)
    BY <1>7 DEF Holders, Turns
  <2> QED
    BY <1>1, <1>7, <2>1
<1>8. \A w \in {"revoked", "closed", "unpolled", "idle", "lifetime", "signed out", "stopped"} : w \in Consoles!Reasons
  BY DEF Consoles!Reasons
<1>9. ASSUME NEW S, NEW why \in {"revoked", "closed", "unpolled", "idle", "lifetime", "signed out"},
             term' = Consoles!Finished(S, why), UNCHANGED <<opening, reserved>>
      PROVE  Limits'
  <2>1. why \in Consoles!Reasons
    BY <1>8
  <2> HIDE DEF SameTerminals, SameWork, SamePlaces
  <2> QED
    BY <1>2, <1>4, <1>5, <1>9, <2>1
<1>10. ASSUME NEW b \in Browsers, Consoles!Reserve(b) PROVE Limits'
  <2>1. Turns(b, "connecting") /\ opening[b].at = "idle" /\ UNCHANGED term
        /\ reserved' = [reserved EXCEPT ![UserOf[b]] = reserved[UserOf[b]] + 1]
    <3>1. account[UserOf[b]].version \in Nat
      BY <1>0 DEF Consoles!TypeOK
    <3> QED
      BY <1>10, <3>1, TurnsEach DEF Consoles!Reserve
  <2>2. /\ Cardinality(Consoles!Opened) + Cardinality({c \in Browsers : opening[c].at # "idle"}) < MaxOpen
        /\ Cardinality(Consoles!Mine(UserOf[b])) + reserved[UserOf[b]] < PerAccount
    BY <1>10, PlacesAreCounted DEF Consoles!Reserve, Consoles!Room, Consoles!Pending, Consoles!Opened
  <2> DEFINE Held == {c \in Browsers : opening[c].at # "idle"}
  <2>3. IsFiniteSet(Held) /\ AllWorkers' \subseteq Held \cup {b} /\ b \notin Held
    BY <2>1, FS_Subset DEF AllWorkers, Consoles!AtWork, Turns, Finite
  <2>4. \A u \in Users : /\ b \notin Holders(u) /\ Workers(u)' \subseteq Holders(u) \cup {b}
                         /\ u # UserOf[b] => Workers(u)' \subseteq Workers(u)
                         /\ Holders(u)' = IF u = UserOf[b] THEN Holders(u) \cup {b} ELSE Holders(u)
    <3> SUFFICES ASSUME NEW u \in Users
                 PROVE  /\ b \notin Holders(u) /\ Workers(u)' \subseteq Holders(u) \cup {b}
                        /\ u # UserOf[b] => Workers(u)' \subseteq Workers(u)
                        /\ Holders(u)' = IF u = UserOf[b] THEN Holders(u) \cup {b} ELSE Holders(u)
      OBVIOUS
    <3>1. \A c \in Browsers : (opening'[c].at # "idle") <=> (c = b \/ opening[c].at # "idle")
      BY <2>1 DEF Turns
    <3>2. Holders(u)' = {c \in Browsers : UserOf[c] = u /\ opening'[c].at # "idle"}
      BY DEF Holders
    <3>3. Workers(u)' \subseteq Holders(u)'
      BY DEF Holders, Workers, Consoles!AtWork
    <3>4. CASE u = UserOf[b]
      BY <2>1, <3>1, <3>2, <3>3, <3>4 DEF Holders
    <3>5. CASE u # UserOf[b]
      <4>1. Workers(u)' \subseteq Workers(u)
        BY <2>1, <3>5 DEF Workers, Consoles!AtWork, Turns
      <4> QED
        BY <2>1, <3>1, <3>2, <3>3, <3>5, <4>1 DEF Holders
    <3> QED
      BY <3>4, <3>5
  <2>5. Consoles!Opened' = Consoles!Opened /\ \A u \in Users : Consoles!Mine(u)' = Consoles!Mine(u)
    BY <2>1 DEF Consoles!Opened, Consoles!Mine, Consoles!Open
  <2>6. \A H : IsFiniteSet(H) /\ b \notin H =>
                  IsFiniteSet(H \cup {b}) /\ Cardinality(H \cup {b}) = Cardinality(H) + 1 /\ Cardinality(H) \in Nat
    BY FS_AddElement, FS_CardinalityType
  <2>7. Cardinality(Consoles!Opened') + Cardinality(AllWorkers') <= MaxOpen
    <3>1. /\ Cardinality(AllWorkers') \in Nat /\ Cardinality(AllWorkers') <= Cardinality(Held \cup {b})
          /\ Cardinality(Held \cup {b}) = Cardinality(Held) + 1 /\ Cardinality(Held) \in Nat
          /\ Cardinality(Consoles!Opened) \in Nat
      BY <2>3, <2>6, AllFinite, FS_Subset, FS_CardinalityType
    <3> QED
      BY <1>0, <2>2, <2>5, <3>1
  <2>8. ASSUME NEW u \in Users
        PROVE  /\ Cardinality(Consoles!Mine(u)') + Cardinality(Workers(u)') <= PerAccount
               /\ reserved'[u] = Cardinality(Holders(u)')
    <3>0. /\ IsFiniteSet(Holders(u)) /\ IsFiniteSet(Workers(u)) /\ Cardinality(Workers(u)) \in Nat
          /\ Cardinality(Consoles!Mine(u)) \in Nat /\ Cardinality(Consoles!Mine(u)) + Cardinality(Workers(u)) <= PerAccount
          /\ Cardinality(Holders(u)) \in Nat /\ reserved[u] = Cardinality(Holders(u)) /\ b \notin Holders(u)
      BY <1>1, <2>4, AllFinite, FS_CardinalityType DEF Limits
    <3>1. CASE u = UserOf[b]
      <4>1. /\ Cardinality(Workers(u)') \in Nat /\ Cardinality(Workers(u)') <= Cardinality(Holders(u) \cup {b})
            /\ Cardinality(Holders(u) \cup {b}) = Cardinality(Holders(u)) + 1
        BY <2>4, <2>6, <3>0, FS_Subset, FS_CardinalityType
      <4>2. Holders(u)' = Holders(u) \cup {b} /\ reserved'[u] = reserved[u] + 1
        BY <1>0, <2>1, <2>4, <3>1
      <4>3. Cardinality(Consoles!Mine(u)) + reserved[u] < PerAccount
        BY <2>2, <3>1
      <4> QED
        BY <1>0, <2>5, <3>0, <4>1, <4>2, <4>3
    <3>2. CASE u # UserOf[b]
      <4>1. Cardinality(Workers(u)') \in Nat /\ Cardinality(Workers(u)') <= Cardinality(Workers(u))
        BY <2>4, <3>0, <3>2, FS_Subset, FS_CardinalityType
      <4>2. Holders(u)' = Holders(u) /\ reserved'[u] = reserved[u]
        BY <1>0, <2>1, <2>4, <3>2
      <4> QED
        BY <1>0, <2>5, <3>0, <4>1, <4>2
    <3> QED
      BY <3>1, <3>2
  <2> QED
    BY <2>7, <2>8 DEF Limits
<1>11. ASSUME NEW b \in Browsers, Consoles!Connect(b) PROVE Limits'
  <2>1. Turns(b, "connected") /\ UNCHANGED <<term, reserved>> /\ Consoles!AtWork(b) /\ opening[b].at # "idle"
    BY <1>11, TurnsEach DEF Consoles!Connect, Consoles!AtWork
  <2> HIDE DEF SameTerminals, SameWork, SamePlaces
  <2> QED
    BY <1>2, <1>3, <1>6, <1>7, <2>1
<1>12. ASSUME NEW b \in Browsers, Consoles!ConnectFails(b) \/ Consoles!RecordFails(b) \/ Consoles!Release(b)
       PROVE  Limits'
  <2>1. Turns(b, "idle") /\ UNCHANGED term /\ opening[b].at # "idle" /\ Consoles!Unreserved(b)
    BY <1>12, TurnsEach DEF Consoles!ConnectFails, Consoles!RecordFails, Consoles!Release
  <2>2. SamePlaces
    BY <2>1, PlaceGivenBack
  <2> HIDE DEF SameTerminals, SameWork, SamePlaces
  <2> QED
    BY <1>2, <1>3, <1>6, <2>1, <2>2
<1>13. ASSUME NEW b \in Browsers, Consoles!Add(b) PROVE Limits'
  <2>1. Turns(b, "added") /\ UNCHANGED reserved /\ opening[b].at = "connected"
    BY <1>13, Adding DEF Consoles!Add
  <2>2. PICK t : /\ \A o \in Terms \ {t} : term'[o] = term[o]
                 /\ t \in Terms => term'[t].key = b
    BY <1>13, Adding
  <2>3. Consoles!Opened' \subseteq Consoles!Opened \cup {t}
    BY <2>2 DEF Consoles!Opened, Consoles!Open
  <2>4. AllWorkers' \subseteq AllWorkers \ {b} /\ b \in AllWorkers
    BY <2>1 DEF AllWorkers, Consoles!AtWork, Turns
  <2>5. Cardinality(Consoles!Opened') + Cardinality(AllWorkers') <= MaxOpen
    <3>1. /\ IsFiniteSet(Consoles!Opened) /\ IsFiniteSet(AllWorkers)
          /\ Cardinality(Consoles!Opened) + Cardinality(AllWorkers) <= MaxOpen
      BY AllFinite DEF Limits
    <3> QED
      BY <1>0, <2>3, <2>4, <3>1, LimitTraded
  <2>6. ASSUME NEW u \in Users
        PROVE  Cardinality(Consoles!Mine(u)') + Cardinality(Workers(u)') <= PerAccount
    <3>1. CASE UserOf[b] = u
      <4>1. Consoles!Mine(u)' \subseteq Consoles!Mine(u) \cup {t}
        BY <2>2 DEF Consoles!Mine, Consoles!Open
      <4>2. Workers(u)' \subseteq Workers(u) \ {b} /\ b \in Workers(u)
        BY <2>1, <3>1 DEF Workers, Consoles!AtWork, Turns
      <4>3. /\ IsFiniteSet(Consoles!Mine(u)) /\ IsFiniteSet(Workers(u))
            /\ Cardinality(Consoles!Mine(u)) + Cardinality(Workers(u)) <= PerAccount
        BY AllFinite DEF Limits
      <4> QED
        BY <1>0, <4>1, <4>2, <4>3, LimitTraded
    <3>2. CASE UserOf[b] # u
      <4>1. Consoles!Mine(u)' \subseteq Consoles!Mine(u)
        BY <2>2, <3>2 DEF Consoles!Mine, Consoles!Open
      <4>2. Workers(u)' \subseteq Workers(u)
        BY <2>1 DEF Workers, Consoles!AtWork, Turns
      <4> QED
        BY <1>0, <4>1, <4>2, AllFinite, LimitKept DEF Limits
    <3> QED
      BY <3>1, <3>2
  <2>7. SamePlaces
    <3> HIDE DEF SamePlaces
    <3> QED
      BY <1>7, <2>1
  <2> QED
    BY <2>5, <2>6, <2>7 DEF Limits
<1>14. ASSUME NEW b \in Browsers, Consoles!List(b) PROVE Limits'
  BY <1>9, <1>14 DEF Consoles!List
<1>15. ASSUME NEW b \in Browsers, NEW t \in Terms, Consoles!CloseIt(b, t) PROVE Limits'
  BY <1>9, <1>15 DEF Consoles!CloseIt
<1>16. ASSUME NEW b \in Browsers, Consoles!SignOut(b) PROVE Limits'
  BY <1>9, <1>16 DEF Consoles!SignOut
<1>17. ASSUME NEW t \in Terms, Consoles!Sweep(t) PROVE Limits'
  BY <1>9, <1>17 DEF Consoles!Sweep
<1>18. ASSUME NEW t \in Terms, Consoles!Overdue(t) PROVE Limits'
  BY <1>9, <1>18 DEF Consoles!Overdue
<1>19. ASSUME UNCHANGED <<opening, reserved, term>> PROVE Limits'
  <2> HIDE DEF SameTerminals, SameWork, SamePlaces
  <2> QED
    BY <1>2, <1>3, <1>5, <1>19
<1>20. ASSUME NEW u \in Users, Consoles!ChangeAccount(u) PROVE Limits'
  BY <1>19, <1>20 DEF Consoles!ChangeAccount
<1>21. ASSUME Consoles!Stop PROVE Limits'
  <2>1. SameTerminals
    BY <1>4, <1>8, <1>21 DEF Consoles!Stop
  <2>2. \A b \in Browsers : opening'[b].at = "idle"
    BY <1>21 DEF Consoles!Stop, Consoles!NoRequest
  <2>3. SameWork
    BY <2>2 DEF AllWorkers, Workers, Consoles!AtWork
  <2>4. SamePlaces
    <3>1. \A u \in Users : Holders(u)' = {}
      BY <2>2 DEF Holders
    <3> QED
      BY <1>21, <3>1, FS_EmptySet DEF Consoles!Stop
  <2> QED
    BY <1>2, <2>1, <2>3, <2>4
<1>22. ASSUME UNCHANGED Consoles!vars PROVE Limits'
  BY <1>19, <1>22 DEF Consoles!vars
<1> QED
  BY <1>10, <1>11, <1>12, <1>13, <1>14, <1>15, <1>16, <1>17, <1>18, <1>20, <1>21, <1>22 DEF Consoles!Next

\* What the limits say of shells: a request whose connection is made counts as one.
LEMMA LimitsBoundShells ==
    ASSUME Consoles!TerminalsAssumption, Finite, Consoles!TypeOK, Limits
    PROVE  /\ Consoles!Shells(Browsers) \in Nat /\ Consoles!Shells(Browsers) <= MaxOpen
           /\ \A u \in Users : Consoles!Shells({b \in Browsers : UserOf[b] = u}) <= PerAccount
<1> DEFINE Held(bs) == {t \in Terms : Consoles!Open(t) /\ term[t].key \in bs}
           Connected(bs) == {b \in bs : opening[b].at = "connected"}
<1>0. MaxOpen \in Nat /\ PerAccount \in Nat
  BY DEF Consoles!TerminalsAssumption
<1>1. ASSUME NEW bs \in SUBSET Browsers
      PROVE  /\ Consoles!Shells(bs) = Cardinality(Held(bs)) + Cardinality(Connected(bs))
             /\ Cardinality(Held(bs)) \in Nat /\ Cardinality(Connected(bs)) \in Nat
  <2>1. IsFiniteSet(Held(bs)) /\ IsFiniteSet(Connected(bs))
    BY FS_Subset DEF Finite
  <2> QED
    BY <2>1, PlacesAreCounted, FS_CardinalityType DEF Consoles!Shells
<1>2. Consoles!Shells(Browsers) \in Nat /\ Consoles!Shells(Browsers) <= MaxOpen
  <2>1. Held(Browsers) \subseteq Consoles!Opened /\ Connected(Browsers) \subseteq AllWorkers
    BY DEF Consoles!Opened, AllWorkers, Consoles!AtWork
  <2>2. /\ IsFiniteSet(Consoles!Opened) /\ IsFiniteSet(AllWorkers)
        /\ Cardinality(Consoles!Opened) + Cardinality(AllWorkers) <= MaxOpen
    BY AllFinite DEF Limits
  <2> HIDE DEF Held, Connected
  <2>3. Cardinality(Held(Browsers)) + Cardinality(Connected(Browsers)) <= MaxOpen
    BY <1>0, <2>1, <2>2, LimitKept
  <2> QED
    BY <1>1, <2>3
<1>3. ASSUME NEW u \in Users
      PROVE  Consoles!Shells({b \in Browsers : UserOf[b] = u}) <= PerAccount
  <2> DEFINE bs == {b \in Browsers : UserOf[b] = u}
  <2>1. Held(bs) \subseteq Consoles!Mine(u) /\ Connected(bs) \subseteq Workers(u)
    BY DEF Consoles!Mine, Workers, Consoles!AtWork
  <2>2. /\ IsFiniteSet(Consoles!Mine(u)) /\ IsFiniteSet(Workers(u))
        /\ Cardinality(Consoles!Mine(u)) + Cardinality(Workers(u)) <= PerAccount
    BY AllFinite DEF Limits
  <2>3. bs \in SUBSET Browsers
    OBVIOUS
  <2> HIDE DEF bs, Held, Connected
  <2>4. Cardinality(Held(bs)) + Cardinality(Connected(bs)) <= PerAccount
    BY <1>0, <2>1, <2>2, LimitKept
  <2>5. Consoles!Shells(bs) <= PerAccount
    BY <1>1, <2>3, <2>4
  <2> QED
    BY <2>5 DEF bs
<1> QED
  BY <1>2, <1>3

\* A connection is lost from the count only when its audit row was refused.
LEMMA LeaksSteps ==
    ASSUME Consoles!TypeOK, leaked <= faults, [Consoles!Next]_(Consoles!vars)
    PROVE  leaked' <= faults'
<1>0. leaked \in Nat /\ faults \in Nat
  BY DEF Consoles!TypeOK
<1>1. ASSUME NEW b \in Browsers, Consoles!RecordFails(b) PROVE leaked' <= faults'
  BY <1>0, <1>1 DEF Consoles!RecordFails
<1>2. ASSUME Consoles!Stop PROVE leaked' <= faults'
  BY <1>0, <1>2 DEF Consoles!Stop
<1>3. ASSUME UNCHANGED <<faults, leaked>> PROVE leaked' <= faults'
  BY <1>3
<1> QED
  BY <1>1, <1>2, <1>3 DEF Consoles!Next, Consoles!vars, Consoles!Reserve, Consoles!Connect, Consoles!ConnectFails,
     Consoles!Add, Consoles!Release, Consoles!List, Consoles!CloseIt, Consoles!SignOut, Consoles!Sweep,
     Consoles!Overdue, Consoles!ChangeAccount

\* However requests overtake each other, for any number of accounts, browsers and terminals: every
\* place that reserve took is given back once, and no more shells are open on the servers than the
\* limits of the manager and of each account, beside the connections whose audit row was refused
\* (open in terminal_service does not close those, and nothing counts them).
THEOREM AtMostAlways ==
    ASSUME Consoles!TerminalsAssumption, IsFiniteSet(Terms), IsFiniteSet(Browsers)
    PROVE  Consoles!Spec => [](/\ Consoles!PlacesReturn
                               /\ Consoles!Shells(Browsers) + leaked <= MaxOpen + faults
                               /\ faults = 0 => Consoles!AtMost)
<1> DEFINE Inv == Consoles!TypeOK /\ Limits /\ leaked <= faults
           Goal == /\ Consoles!PlacesReturn
                   /\ Consoles!Shells(Browsers) + leaked <= MaxOpen + faults
                   /\ faults = 0 => Consoles!AtMost
<1>0. Finite /\ UserOf \in [Browsers -> Users] /\ MaxOpen \in Nat /\ PerAccount \in Nat
  BY DEF Finite, Consoles!TerminalsAssumption
<1>1. Consoles!Init => Inv
  <2> SUFFICES ASSUME Consoles!Init PROVE Inv
    OBVIOUS
  <2>1. Consoles!TypeOK /\ leaked <= faults
    <3>1. leaked = 0 /\ faults = 0
      BY DEF Consoles!Init
    <3> QED
      BY <1>0, <3>1, TerminalsStart
  <2>2. /\ \A b \in Browsers : opening[b].at = "idle"
        /\ \A t \in Terms : term[t].st = "unused"
        /\ \A u \in Users : reserved[u] = 0
    BY DEF Consoles!Init, Consoles!NoRequest, Consoles!Unused
  <2>3. \A u \in Users : Holders(u) = {} /\ Workers(u) = {} /\ Consoles!Mine(u) = {}
    BY <2>2 DEF Holders, Workers, Consoles!Mine, Consoles!Open, Consoles!AtWork
  <2>4. AllWorkers = {} /\ Consoles!Opened = {}
    BY <2>2 DEF AllWorkers, Consoles!Opened, Consoles!Open, Consoles!AtWork
  <2>5. Limits
    <3>1. Cardinality({}) = 0
      BY FS_EmptySet
    <3>2. Cardinality(Consoles!Opened) + Cardinality(AllWorkers) <= MaxOpen
      BY <1>0, <2>4, <3>1
    <3>3. ASSUME NEW u \in Users
          PROVE  /\ reserved[u] = Cardinality(Holders(u))
                 /\ Cardinality(Consoles!Mine(u)) + Cardinality(Workers(u)) <= PerAccount
      <4>1. Holders(u) = {} /\ Workers(u) = {} /\ Consoles!Mine(u) = {}
        BY <2>3
      <4>2. /\ Cardinality(Holders(u)) = 0 /\ Cardinality(Workers(u)) = 0
            /\ Cardinality(Consoles!Mine(u)) = 0
        BY <3>1, <4>1, Zenon
      <4>3. reserved[u] = 0 /\ PerAccount \in Nat
        BY <1>0, <2>2
      <4> QED
        BY <4>2, <4>3
    <3> QED
      BY <3>2, <3>3 DEF Limits
  <2> QED
    BY <2>1, <2>5
<1>2. Inv /\ [Consoles!Next]_(Consoles!vars) => Inv'
  BY <1>0, TerminalTypes, LimitsSteps, LeaksSteps
<1>3. Inv => Goal
  <2> SUFFICES ASSUME Inv PROVE Goal
    OBVIOUS
  <2>1. Consoles!PlacesReturn
    BY LimitsAreLimits DEF Consoles!LimitsInv
  <2>2. /\ Consoles!Shells(Browsers) \in Nat /\ Consoles!Shells(Browsers) <= MaxOpen
        /\ \A u \in Users : Consoles!Shells({b \in Browsers : UserOf[b] = u}) <= PerAccount
    BY <1>0, LimitsBoundShells
  <2>3. leaked \in Nat /\ faults \in Nat /\ leaked <= faults
    BY DEF Consoles!TypeOK
  <2>4. Consoles!Shells(Browsers) + leaked <= MaxOpen + faults
    BY <1>0, <2>2, <2>3
  <2>5. ASSUME faults = 0 PROVE Consoles!AtMost
    BY <1>0, <2>2, <2>3, <2>5 DEF Consoles!AtMost
  <2> QED
    BY <2>1, <2>4, <2>5
<1> HIDE DEF Inv, Goal
<1>4. Consoles!Spec => []Goal
  BY <1>1, <1>2, <1>3, PTL DEF Consoles!Spec
<1> QED
  BY <1>4 DEF Goal

-----------------------------------------------------------------------------
(* The scheduler: each time that is due once, one instance that serves.        *)

Ticking == INSTANCE Ticks WITH Instances <- Schedulers

(* A lease that is taken lasts into the future.                              *)
LEMMA TakenLasts ==
    ASSUME Ticking!TicksAssumption, Ticking!TypeOK, NEW i \in Schedulers
    PROVE  /\ Ticking!Taken(i) \in [owner : Schedulers \cup {Nobody}, until : Nat]
           /\ Ticking!Taken(i).owner = i /\ now < Ticking!Taken(i).until
BY DEF Ticking!TicksAssumption, Ticking!TypeOK, Ticking!Taken

(* The type invariant of the scheduler, its lease and its task.              *)
LEMMA TickTypeStep ==
    ASSUME Ticking!TicksAssumption, Ticking!TypeOK, [Ticking!Next]_(Ticking!vars)
    PROVE  Ticking!TypeOK'
<1>0. ASSUME NEW i \in Schedulers
      PROVE  Ticking!Taken(i) \in [owner : Schedulers \cup {Nobody}, until : Nat]
  BY TakenLasts
<1> USE Ticking!TicksAssumption DEF Ticking!TicksAssumption, Ticking!TypeOK
<1>1. CASE Ticking!Tick
  BY <1>1 DEF Ticking!Tick
<1>2. ASSUME NEW i \in Schedulers, Ticking!Start(i) PROVE Ticking!TypeOK'
  BY <1>0, <1>2 DEF Ticking!Start, Ticking!abandoned, Ticking!States
<1>3. ASSUME NEW i \in Schedulers, Ticking!TakeOver(i) PROVE Ticking!TypeOK'
  BY <1>3 DEF Ticking!TakeOver, Ticking!Released, Ticking!States
<1>4. ASSUME NEW i \in Schedulers, Ticking!AcquireAgain(i) PROVE Ticking!TypeOK'
  BY <1>0, <1>4 DEF Ticking!AcquireAgain, Ticking!States
<1>5. ASSUME NEW i \in Schedulers, Ticking!TickBegins(i) PROVE Ticking!TypeOK'
  BY <1>5 DEF Ticking!TickBegins, Ticking!Steps
<1>6. ASSUME NEW i \in Schedulers, Ticking!TickAcquires(i) PROVE Ticking!TypeOK'
  <2>1. tick' \in [Schedulers -> [at : Ticking!Steps, now : Nat, read : Nat]]
    <3>1. \/ tick' = [tick EXCEPT ![i].at = "read"]
          \/ tick' = [tick EXCEPT ![i] = Ticking!Quiet]
      BY <1>6, Zenon DEF Ticking!TickAcquires
    <3>2. /\ [tick[i] EXCEPT !.at = "read"] \in [at : Ticking!Steps, now : Nat, read : Nat]
          /\ Ticking!Quiet \in [at : Ticking!Steps, now : Nat, read : Nat]
      BY DEF Ticking!Quiet, Ticking!Steps
    <3> QED
      BY ONLY Ticking!TypeOK, <3>1, <3>2 DEF Ticking!TypeOK
  <2> QED
    BY <1>0, <1>6, <2>1 DEF Ticking!TickAcquires
<1>7. ASSUME NEW i \in Schedulers, Ticking!TickReads(i) PROVE Ticking!TypeOK'
  BY <1>7 DEF Ticking!TickReads, Ticking!Quiet, Ticking!Steps
<1>8. ASSUME NEW i \in Schedulers, Ticking!TickClaims(i) PROVE Ticking!TypeOK'
  <2>1. tick' \in [Schedulers -> [at : Ticking!Steps, now : Nat, read : Nat]]
    BY <1>8 DEF Ticking!TickClaims, Ticking!Quiet, Ticking!Steps
  <2>2. due' \in Nat /\ claims' \in Seq(Nat)
    <3>1. tick[i].now \in Nat /\ tick[i].now + Interval \in Nat
      OBVIOUS
    <3>2. Append(claims, tick[i].now) \in Seq(Nat)
      BY <3>1
    <3>3. \/ due' = tick[i].now + Interval /\ claims' = Append(claims, tick[i].now)
          \/ due' = due /\ claims' = claims
      BY <1>8 DEF Ticking!TickClaims, Ticking!claim
    <3> QED
      BY <3>1, <3>2, <3>3
  <2> QED
    BY <1>8, <2>1, <2>2 DEF Ticking!TickClaims
<1>9. ASSUME NEW i \in Schedulers, Ticking!Stop(i) PROVE Ticking!TypeOK'
  BY <1>9 DEF Ticking!Stop, Ticking!Released, Ticking!States
<1>10. ASSUME NEW i \in Schedulers, Ticking!Dies(i) PROVE Ticking!TypeOK'
  BY <1>10 DEF Ticking!Dies, Ticking!States
<1>11. CASE UNCHANGED Ticking!vars
  BY <1>11 DEF Ticking!vars
<1> QED
  BY <1>1, <1>2, <1>3, <1>4, <1>5, <1>6, <1>7, <1>8, <1>9, <1>10, <1>11 DEF Ticking!Next

(* A Ticking!claim keeps the interval to the claims before it.                       *)
LEMMA ClaimStep ==
    ASSUME Ticking!TicksAssumption, Ticking!SpacedInv, Ticking!TypeOK', NEW i \in Schedulers, Ticking!TickClaims(i)
    PROVE  Ticking!SpacedInv'
<1> USE Ticking!TicksAssumption DEF Ticking!TicksAssumption
<1>1. \A j \in Schedulers : tick'[j].at = "claim" => tick'[j].read <= tick'[j].now
  BY DEF Ticking!SpacedInv, Ticking!TypeOK, Ticking!TickClaims, Ticking!Quiet
<1>2. CASE ~ Ticking!claim(tick[i].read)
  BY <1>1, <1>2 DEF Ticking!SpacedInv, Ticking!Spaced, Ticking!TickClaims
<1>3. CASE Ticking!claim(tick[i].read)
  <2>1. /\ tick[i].now \in Nat /\ due <= tick[i].now
        /\ due' = tick[i].now + Interval /\ claims' = Append(claims, tick[i].now)
    BY <1>3 DEF Ticking!SpacedInv, Ticking!TypeOK, Ticking!TickClaims, Ticking!claim
  <2>2. /\ Len(claims') = Len(claims) + 1 /\ claims'[Len(claims')] = tick[i].now
        /\ \A k \in 1 .. Len(claims) : claims'[k] = claims[k]
        /\ Len(claims) \in Nat
    <3>1. claims \in Seq(Nat)
      BY DEF Ticking!SpacedInv, Ticking!TypeOK
    <3> HIDE DEF Ticking!TicksAssumption
    <3> QED
      BY ONLY <2>1, <3>1
  <2>3. ASSUME NEW k \in 1 .. Len(claims') - 1
        PROVE  claims'[k + 1] >= claims'[k] + Interval
    <3>1. CASE k = Len(claims)
      <4>1. claims # <<>> /\ due = claims[k] + Interval
        BY <2>2, <2>3, <3>1 DEF Ticking!SpacedInv
      <4> QED
        BY <2>1, <2>2, <2>3, <3>1, <4>1 DEF Ticking!SpacedInv, Ticking!TypeOK
    <3>2. CASE k # Len(claims)
      BY <2>2, <2>3, <3>2 DEF Ticking!SpacedInv, Ticking!Spaced
    <3> QED
      BY <3>1, <3>2
  <2> QED
    BY <1>1, <2>1, <2>2, <2>3 DEF Ticking!SpacedInv, Ticking!Spaced
<1> QED
  BY <1>2, <1>3

(* The task is claimed once for each time it is due, however many instances  *)
(* tick, whatever the lease does under them, and without any assumption on   *)
(* how fast they are: the comparison of next_run_at suffices.                *)
THEOREM SpacedAlways == ASSUME Ticking!TicksAssumption PROVE Ticking!Spec => []Ticking!Spaced
<1>1. Ticking!Init => Ticking!SpacedInv
  BY DEF Ticking!Init, Ticking!Quiet, Ticking!SpacedInv, Ticking!TypeOK, Ticking!Spaced, Ticking!Steps, Ticking!States
<1>2. ASSUME Ticking!SpacedInv, [Ticking!Next]_(Ticking!vars) PROVE Ticking!SpacedInv'
  <2>0. Ticking!TypeOK'
    BY <1>2, Ticking!TicksAssumption, TickTypeStep DEF Ticking!SpacedInv
  <2>1. ASSUME NEW i \in Schedulers, Ticking!TickClaims(i) PROVE Ticking!SpacedInv'
    BY <1>2, <2>0, <2>1, Ticking!TicksAssumption, ClaimStep
  <2>2. ASSUME NEW i \in Schedulers, Ticking!TickReads(i) PROVE Ticking!SpacedInv'
    <3>1. \A j \in Schedulers : tick'[j].at = "claim" => tick'[j].read <= tick'[j].now
      BY <1>2, <2>2 DEF Ticking!SpacedInv, Ticking!TypeOK, Ticking!TickReads, Ticking!Quiet
    <3> QED
      BY <1>2, <2>0, <2>2, <3>1 DEF Ticking!SpacedInv, Ticking!Spaced, Ticking!TickReads
  <2>3. ASSUME NEW i \in Schedulers, Ticking!TickBegins(i) \/ Ticking!TickAcquires(i) PROVE Ticking!SpacedInv'
    <3>1. \A j \in Schedulers : tick'[j].at = "claim" => tick'[j].read <= tick'[j].now
      <4>1. CASE Ticking!TickBegins(i)
        BY <1>2, <4>1 DEF Ticking!SpacedInv, Ticking!TypeOK, Ticking!TickBegins
      <4>2. CASE Ticking!TickAcquires(i)
        <5>1. \A j \in Schedulers \ {i} : tick'[j] = tick[j]
          BY <1>2, <4>2 DEF Ticking!SpacedInv, Ticking!TypeOK, Ticking!TickAcquires
        <5>2. tick'[i].at # "claim"
          BY <1>2, <4>2 DEF Ticking!SpacedInv, Ticking!TypeOK, Ticking!TickAcquires, Ticking!Quiet
        <5> QED
          BY <1>2, <5>1, <5>2 DEF Ticking!SpacedInv
      <4> QED
        BY <2>3, <4>1, <4>2
    <3> QED
      BY <1>2, <2>0, <2>3, <3>1 DEF Ticking!SpacedInv, Ticking!Spaced, Ticking!TickBegins, Ticking!TickAcquires
  <2>4. CASE UNCHANGED <<tick, due, claims>>
    BY <1>2, <2>0, <2>4 DEF Ticking!SpacedInv, Ticking!Spaced
  <2>5. ASSUME NEW i \in Schedulers,
               Ticking!Start(i) \/ Ticking!TakeOver(i) \/ Ticking!AcquireAgain(i) \/ Ticking!Stop(i) \/ Ticking!Dies(i)
        PROVE  UNCHANGED <<tick, due, claims>>
    BY <2>5 DEF Ticking!Start, Ticking!TakeOver, Ticking!AcquireAgain, Ticking!Stop, Ticking!Dies
  <2> QED
    BY <1>2, <2>1, <2>2, <2>3, <2>4, <2>5 DEF Ticking!Next, Ticking!Tick, Ticking!vars
<1>3. Ticking!SpacedInv => Ticking!Spaced
  BY DEF Ticking!SpacedInv
<1> QED
  BY <1>1, <1>2, <1>3, PTL DEF Ticking!Spec

(* One instance serves a data folder at a time, if the one that serves       *)
(* renews its lease before it runs out: a second one takes over only from a  *)
(* holder it found dead, and the lease it releases is the dead one's or      *)
(* nobody's, also when a third has taken it meanwhile.                       *)
THEOREM OneServesAlways == ASSUME Ticking!TicksAssumption, InTime PROVE Ticking!Spec => []Ticking!OneServes
<1> USE Ticking!TicksAssumption DEF Ticking!TicksAssumption
<1>1. Ticking!Init => Ticking!ServesInv
  BY DEF Ticking!Init, Ticking!Quiet, Ticking!ServesInv, Ticking!TypeOK, Ticking!Steps, Ticking!States
<1>2. ASSUME Ticking!ServesInv, [Ticking!Next]_(Ticking!vars) PROVE Ticking!ServesInv'
  <2>0. Ticking!TypeOK'
    BY <1>2, TickTypeStep DEF Ticking!ServesInv
  <2>a. ASSUME NEW i \in Schedulers PROVE Ticking!Taken(i).owner = i /\ now < Ticking!Taken(i).until
    BY <1>2, TakenLasts DEF Ticking!ServesInv
  <2> USE <1>2, <2>0 DEF Ticking!ServesInv, Ticking!TypeOK
  <2>1. CASE Ticking!Tick
    BY <2>1, InTime DEF Ticking!Tick, Ticking!Renewed
  <2>2. ASSUME NEW i \in Schedulers, Ticking!Start(i) PROVE Ticking!ServesInv'
    <3>1. CASE Ticking!acquire(i)
      BY <2>a, <2>2, <3>1 DEF Ticking!Start, Ticking!acquire
    <3>2. CASE ~ Ticking!acquire(i)
      <4>1. lease.owner \in Schedulers /\ proc[lease.owner] = "dead" /\ proc[i] = "down"
        BY <2>2, <3>2 DEF Ticking!Start, Ticking!acquire, Ticking!abandoned
      <4>2. /\ found' = [found EXCEPT ![i] = lease.owner] /\ proc' = [proc EXCEPT ![i] = "found"]
            /\ lease' = lease /\ now' = now
        BY <2>2, <3>2, Zenon DEF Ticking!Start
      <4> QED
        BY <4>1, <4>2
    <3> QED
      BY <3>1, <3>2
  <2>3. ASSUME NEW i \in Schedulers, Ticking!TakeOver(i) PROVE Ticking!ServesInv'
    BY <2>3 DEF Ticking!TakeOver, Ticking!Released
  <2>4. ASSUME NEW i \in Schedulers, Ticking!AcquireAgain(i) PROVE Ticking!ServesInv'
    BY <2>a, <2>4 DEF Ticking!AcquireAgain, Ticking!acquire
  <2>5. ASSUME NEW i \in Schedulers, Ticking!TickAcquires(i) PROVE Ticking!ServesInv'
    <3>1. proc' = proc /\ found' = found /\ now' = now
      BY <2>5 DEF Ticking!TickAcquires
    <3>2. lease' = lease \/ (Ticking!acquire(i) /\ lease' = Ticking!Taken(i))
      BY <2>5, Zenon DEF Ticking!TickAcquires
    <3>3. CASE lease' = lease
      BY <3>1, <3>3
    <3>4. CASE Ticking!acquire(i) /\ lease' = Ticking!Taken(i)
      <4>1. ASSUME NEW j \in Schedulers, proc[j] = "serving" PROVE j = i
        BY <3>4, <4>1 DEF Ticking!acquire
      <4>2. lease'.owner = i /\ now < lease'.until
        BY <2>a, <3>4
      <4> QED
        BY <3>1, <4>1, <4>2
    <3> QED
      BY <3>2, <3>3, <3>4
  <2>6. ASSUME NEW i \in Schedulers, Ticking!Stop(i) PROVE Ticking!ServesInv'
    BY <2>6 DEF Ticking!Stop, Ticking!Released
  <2>7. ASSUME NEW i \in Schedulers, Ticking!Dies(i) PROVE Ticking!ServesInv'
    BY <2>7 DEF Ticking!Dies, Ticking!Running
  <2>8. CASE UNCHANGED <<now, lease, proc, found>>
    BY <2>8
  <2>9. ASSUME NEW i \in Schedulers, Ticking!TickBegins(i) \/ Ticking!TickReads(i) \/ Ticking!TickClaims(i)
        PROVE  UNCHANGED <<now, lease, proc, found>>
    BY <2>9 DEF Ticking!TickBegins, Ticking!TickReads, Ticking!TickClaims
  <2> QED
    BY <2>1, <2>2, <2>3, <2>4, <2>5, <2>6, <2>7, <2>8, <2>9 DEF Ticking!Next, Ticking!vars
<1>3. Ticking!ServesInv => Ticking!OneServes
  BY DEF Ticking!ServesInv, Ticking!OneServes
<1> QED
  BY <1>1, <1>2, <1>3, PTL DEF Ticking!Spec
=============================================================================
