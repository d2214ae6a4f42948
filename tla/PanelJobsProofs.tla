--------------------------- MODULE PanelJobsProofs ---------------------------
(***************************************************************************)
(* Theorems about PanelJobs, for any set of jobs and any lease length.     *)
(* Each step lemma has one step per action of Next.  The theorems about    *)
(* leases assume Gap < TTL: live processes renew before a lease runs out.  *)
(***************************************************************************)
EXTENDS PanelJobs, TLAPS

(* Every step keeps the types. *)
LEMMA TypeStep ==
    ASSUME TypeOK, [Next]_vars
    PROVE  TypeOK'
<1> USE JobsAssumption DEF TypeOK, vars, NoLease, Held, Ended, Unfinished, Finished, Panel
<1>1. ASSUME NEW j \in Jobs, Ask(j) PROVE TypeOK'
  BY <1>1 DEF Ask, ReadExpired, Goto
<1>2. ASSUME NEW j \in Jobs, AskRecovers(j) PROVE TypeOK'
  BY <1>2 DEF AskRecovers, EndExpired, Goto
<1>3. ASSUME NEW j \in Jobs, Take(j) PROVE TypeOK'
  BY <1>3 DEF Take, Acquirable, AfterTake, Goto
<1>4. ASSUME NEW j \in Jobs, Busy(j) PROVE TypeOK'
  BY <1>4 DEF Busy, Discard, Goto
<1>5. ASSUME NEW j \in Jobs, Reserve(j) PROVE TypeOK'
  BY <1>5 DEF Reserve, Goto
<1>6. ASSUME NEW j \in Jobs, ReserveFails(j) PROVE TypeOK'
  BY <1>6 DEF ReserveFails, Release, ExitCodes, Goto
<1>7. ASSUME NEW j \in Jobs, Record(j) PROVE TypeOK'
  BY <1>7 DEF Record, Goto
<1>8. ASSUME NEW j \in Jobs, TakeJobLease(j) PROVE TypeOK'
  BY <1>8 DEF TakeJobLease, Goto
<1>9. ASSUME NEW j \in Jobs, BeginFails(j) PROVE TypeOK'
  BY <1>9 DEF BeginFails, Discard, Leftover, Release, ExitCodes, Goto
<1>10. ASSUME NEW j \in Jobs, Spawn(j) PROVE TypeOK'
  BY <1>10 DEF Spawn, Goto
<1>11. ASSUME NEW j \in Jobs, SpawnFails(j) PROVE TypeOK'
  BY <1>11 DEF SpawnFails, Close, Discard, Leftover, Release, Goto
<1>12. ASSUME NEW j \in Jobs, Boot(j) PROVE TypeOK'
  BY <1>12 DEF Boot, Goto
<1>13. ASSUME NEW j \in Jobs, Write(j) PROVE TypeOK'
  BY <1>13 DEF Write, Goto
<1>14. ASSUME NEW j \in Jobs, Verify(j) PROVE TypeOK'
  BY <1>14 DEF Verify, Goto
<1>15. ASSUME NEW j \in Jobs, GiveBack(j) \/ Publish(j) PROVE TypeOK'
  BY <1>15 DEF GiveBack, Publish, Discard, Goto
<1>16. ASSUME NEW j \in Jobs, WorkFails(j) PROVE TypeOK'
  BY <1>16 DEF WorkFails, Close, Discard, Goto
<1>17. ASSUME NEW j \in Jobs, Succeed(j) PROVE TypeOK'
  BY <1>17 DEF Succeed, Close, Discard, Goto
<1>18. ASSUME NEW j \in Jobs, CloseJob(j) PROVE TypeOK'
  BY <1>18 DEF CloseJob, Discard, Goto
<1>19. ASSUME NEW j \in Jobs, Prune(j) PROVE TypeOK'
  BY <1>19 DEF Prune, Goto
<1>20. ASSUME NEW j \in Jobs, End(j) PROVE TypeOK'
  BY <1>20 DEF End, Discard, Leftover, Release, ExitCodes, Goto
<1>21. ASSUME NEW j \in Jobs, Beat(j) PROVE TypeOK'
  BY <1>21 DEF Beat
<1>22. ASSUME NEW j \in Jobs, Settle(j) PROVE TypeOK'
  BY <1>22 DEF Settle, Close, Discard, Outputs, Release
<1>23. ASSUME NEW j \in Jobs, Cleanup(j) PROVE TypeOK'
  BY <1>23 DEF Cleanup, Discard, Leftover
<1>24. ASSUME NEW j \in Jobs, BreachLimit(j) PROVE TypeOK'
  BY <1>24 DEF BreachLimit, Close
<1>25. ASSUME NEW j \in Jobs, LeaseLost(j) PROVE TypeOK'
  BY <1>25 DEF LeaseLost
<1>26. ASSUME NEW j \in Jobs, BreachExit(j) PROVE TypeOK'
  BY <1>26 DEF BreachExit, Discard, Outputs, Goto
<1>27. ASSUME NEW j \in Jobs, Die(j) PROVE TypeOK'
  BY <1>27 DEF Die, Goto
<1>28. ASSUME NEW j \in Jobs, SupervisorDies(j) PROVE TypeOK'
  BY <1>28 DEF SupervisorDies
<1>29. ASSUME NEW j \in Jobs, Sweep(j) PROVE TypeOK'
  BY <1>29 DEF Sweep, Discard
<1>34. ASSUME NEW j \in Jobs, OutcomeRefused(j) PROVE TypeOK'
  BY <1>34 DEF OutcomeRefused, Discard, Goto
<1>30. CASE TickerReads
  BY <1>30 DEF TickerReads, ReadExpired
<1>31. CASE TickerRecovers
  BY <1>31 DEF TickerRecovers, EndExpired
<1>32. CASE Tick
  BY <1>32 DEF Tick
<1>33. CASE UNCHANGED vars
  BY <1>33
<1> QED
  BY <1>1, <1>2, <1>3, <1>4, <1>5, <1>6, <1>7, <1>8, <1>9, <1>10, <1>11, <1>12, <1>13,
     <1>14, <1>15, <1>16, <1>17, <1>18, <1>19, <1>20, <1>21, <1>22, <1>23, <1>24,
     <1>25, <1>26, <1>27, <1>28, <1>29, <1>30, <1>31, <1>32, <1>33, <1>34
     DEF Next, Start, Work, Supervise, Trouble

(* Every variable of PanelJobs keeps its type in every reachable state. *)
THEOREM TypeCorrect == Spec => []TypeOK
<1>1. Init => TypeOK
  BY JobsAssumption DEF Init, TypeOK, NoLease, Held, Ended, Unfinished, Finished
<1>2. TypeOK /\ [Next]_vars => TypeOK'
  BY TypeStep
<1> QED
  BY <1>1, <1>2, PTL DEF Spec

-----------------------------------------------------------------------------
(* Every step keeps the lease invariant, when live processes renew in time. *)
LEMMA LeaseStep ==
    ASSUME Gap < TTL, LeaseInv, [Next]_vars
    PROVE  LeaseInv'
<1> DEFINE Kept == /\ LiveHoldRunner' /\ LiveHoldLease' /\ LeaseIsHeldOrLeft'
                   /\ SeenHaveEnded' /\ InterruptedHaveEnded'
<1>0. TypeOK'
  BY TypeStep DEF LeaseInv
<1> USE JobsAssumption
    DEF LeaseInv, LiveHoldRunner, LiveHoldLease, LeaseIsHeldOrLeft, SeenHaveEnded,
        InterruptedHaveEnded, TypeOK, vars, Live, HasJobLease, Held, Leased, Ended,
        NoLease, Unfinished, Finished, Panel
<1>1. ASSUME NEW j \in Jobs, Ask(j) PROVE Kept
  BY <1>1 DEF Ask, ReadExpired, Goto
<1>2. ASSUME NEW j \in Jobs, AskRecovers(j) PROVE Kept
  BY <1>2 DEF AskRecovers, EndExpired, Goto
<1>3. ASSUME NEW j \in Jobs, Take(j) PROVE Kept
  BY <1>3 DEF Take, Acquirable, AfterTake, Goto
<1>4. ASSUME NEW j \in Jobs, Busy(j) PROVE Kept
  BY <1>4 DEF Busy, Discard, Goto
<1>5. ASSUME NEW j \in Jobs, Reserve(j) PROVE Kept
  BY <1>5 DEF Reserve, Goto
<1>6. ASSUME NEW j \in Jobs, ReserveFails(j) PROVE Kept
  BY <1>6 DEF ReserveFails, Release, ExitCodes, Goto
<1>7. ASSUME NEW j \in Jobs, Record(j) PROVE Kept
  BY <1>7, SMTT(30) DEF Record, Goto
<1>8. ASSUME NEW j \in Jobs, TakeJobLease(j) PROVE Kept
  BY <1>8 DEF TakeJobLease, Goto
<1>9. ASSUME NEW j \in Jobs, BeginFails(j) PROVE Kept
  BY <1>9 DEF BeginFails, Discard, Leftover, Release, ExitCodes, Goto
<1>10. ASSUME NEW j \in Jobs, Spawn(j) PROVE Kept
  BY <1>10 DEF Spawn, Goto
<1>11. ASSUME NEW j \in Jobs, SpawnFails(j) PROVE Kept
  BY <1>11 DEF SpawnFails, Close, Discard, Leftover, Release, Goto
<1>12. ASSUME NEW j \in Jobs, Boot(j) PROVE Kept
  BY <1>12 DEF Boot, Goto
<1>13. ASSUME NEW j \in Jobs, Write(j) PROVE Kept
  BY <1>13 DEF Write, Goto
<1>14. ASSUME NEW j \in Jobs, Verify(j) PROVE Kept
  BY <1>14 DEF Verify, Goto
<1>15. ASSUME NEW j \in Jobs, GiveBack(j) \/ Publish(j) PROVE Kept
  BY <1>15 DEF GiveBack, Publish, Discard, Goto
<1>16. ASSUME NEW j \in Jobs, WorkFails(j) PROVE Kept
  BY <1>16 DEF WorkFails, Close, Discard, Goto
<1>17. ASSUME NEW j \in Jobs, Succeed(j) PROVE Kept
  BY <1>17 DEF Succeed, Close, Discard, Goto
<1>18. ASSUME NEW j \in Jobs, CloseJob(j) PROVE Kept
  BY <1>18 DEF CloseJob, Discard, Goto
<1>19. ASSUME NEW j \in Jobs, Prune(j) PROVE Kept
  <2>1. pc' = [pc EXCEPT ![j] = "end"]
        /\ UNCHANGED <<sup, event, lease, runner, seen, breach, refused>>
    BY <1>19 DEF Prune, Goto
  <2>2. pc[j] = "prune"
    BY <1>19 DEF Prune
  <2>3. LiveHoldRunner' /\ LiveHoldLease'
    BY <2>1, <2>2
  <2>4. LeaseIsHeldOrLeft'
    BY <2>1, <2>2
  <2>5. SeenHaveEnded' /\ InterruptedHaveEnded'
    BY <2>1, <2>2
  <2> QED
    BY <2>3, <2>4, <2>5
<1>20. ASSUME NEW j \in Jobs, End(j) PROVE Kept
  BY <1>20 DEF End, Discard, Leftover, Release, ExitCodes, Goto
<1>21. ASSUME NEW j \in Jobs, Beat(j) PROVE Kept
  BY <1>21 DEF Beat
<1>22. ASSUME NEW j \in Jobs, Settle(j) PROVE Kept
  BY <1>22 DEF Settle, Close, Discard, Outputs, Release
<1>23. ASSUME NEW j \in Jobs, Cleanup(j) PROVE Kept
  BY <1>23 DEF Cleanup, Discard, Leftover
<1>24. ASSUME NEW j \in Jobs, BreachLimit(j) PROVE Kept
  BY <1>24 DEF BreachLimit, Close
<1>25. ASSUME NEW j \in Jobs, LeaseLost(j) PROVE Kept
  BY <1>25 DEF LeaseLost
<1>26. ASSUME NEW j \in Jobs, BreachExit(j) PROVE Kept
  BY <1>26 DEF BreachExit, Discard, Outputs, Goto, InChild, ChildSteps, BeginSteps
<1>27. ASSUME NEW j \in Jobs, Die(j) PROVE Kept
  BY <1>27 DEF Die, Goto
<1>28. ASSUME NEW j \in Jobs, SupervisorDies(j) PROVE Kept
  BY <1>28 DEF SupervisorDies
<1>29. ASSUME NEW j \in Jobs, Sweep(j) PROVE Kept
  BY <1>29 DEF Sweep, Discard
<1>34. ASSUME NEW j \in Jobs, OutcomeRefused(j) PROVE Kept
  BY <1>34 DEF OutcomeRefused, Discard, Goto
<1>30. CASE TickerReads
  BY <1>30 DEF TickerReads, ReadExpired
<1>31. CASE TickerRecovers
  BY <1>31 DEF TickerRecovers, EndExpired
<1>32. CASE Tick
  <2>1. ASSUME NEW j \in Jobs, Live(j) PROVE runner'.owner = j /\ runner'.left > 0
    <3>1. runner.owner = j /\ TTL - runner.left < Gap
      BY <1>32, <2>1 DEF Tick, Prompt
    <3> QED
      BY <1>32, <3>1, Gap < TTL DEF Tick
  <2>2. ASSUME NEW j \in Jobs, HasJobLease(j) PROVE lease'[j] \in 1 .. TTL
    <3>1. lease[j] \in 1 .. TTL /\ TTL - lease[j] < Gap
      BY <1>32, <2>2 DEF Tick, Prompt
    <3> QED
      BY <1>32, <3>1, Gap < TTL DEF Tick
  <2> QED
    BY <1>32, <2>1, <2>2 DEF Tick
<1>33. CASE UNCHANGED vars
  BY <1>33
<1> QED
  BY <1>0, <1>1, <1>2, <1>3, <1>4, <1>5, <1>6, <1>7, <1>8, <1>9, <1>10, <1>11, <1>12, <1>13,
     <1>14, <1>15, <1>16, <1>17, <1>18, <1>19, <1>20, <1>21, <1>22, <1>23, <1>24,
     <1>25, <1>26, <1>27, <1>28, <1>29, <1>30, <1>31, <1>32, <1>33, <1>34
     DEF Next, Start, Work, Supervise, Trouble

(* The lease invariant holds in every reachable state. *)
LEMMA LeaseInvariant ==
    ASSUME Gap < TTL
    PROVE  Spec => []LeaseInv
<1>1. Init => LeaseInv
  BY JobsAssumption
     DEF Init, LeaseInv, LiveHoldRunner, LiveHoldLease, LeaseIsHeldOrLeft, SeenHaveEnded,
         InterruptedHaveEnded, TypeOK, Live, HasJobLease, Held, Leased, Ended, NoLease,
         Unfinished, Finished
<1>2. LeaseInv /\ [Next]_vars => LeaseInv'
  BY LeaseStep
<1> QED
  BY <1>1, <1>2, PTL DEF Spec

(* At most one job runs at any time, however many workers and schedulers ask *)
(* and whichever processes die, as long as live ones renew in time.          *)
THEOREM OneAtATimeAlways ==
    ASSUME Gap < TTL
    PROVE  Spec => []OneAtATime
<1>1. LeaseInv => OneAtATime
  BY DEF LeaseInv, LiveHoldRunner, OneAtATime
<1> QED
  BY <1>1, LeaseInvariant, PTL

(* recover() never ends the event of a job whose process is alive. *)
THEOREM RecoveryIsSafe ==
    ASSUME Gap < TTL
    PROVE  Spec => []RecoveryOnlyTouchesTheDead
<1>1. LeaseInv => RecoveryOnlyTouchesTheDead
  BY DEF LeaseInv, InterruptedHaveEnded, RecoveryOnlyTouchesTheDead, Live, Held, Ended
<1> QED
  BY <1>1, LeaseInvariant, PTL

-----------------------------------------------------------------------------
(* Every step keeps finished events as they are and gives none to a job that *)
(* has not begun.                                                            *)
LEMMA OutcomeStep ==
    ASSUME TypeOK, UnbegunHaveNoEvent, [Next]_vars
    PROVE  /\ UnbegunHaveNoEvent'
           /\ \A j \in Jobs : event[j] \in Finished => event'[j] = event[j]
<1> DEFINE Final == \A i \in Jobs : event[i] \in Finished => event'[i] = event[i]
<1> USE JobsAssumption
    DEF TypeOK, vars, UnbegunHaveNoEvent, Unbegun, Held, Ended, NoLease, Unfinished,
        Finished, Panel
<1>1. ASSUME NEW j \in Jobs, Ask(j) PROVE UnbegunHaveNoEvent' /\ Final
  BY <1>1 DEF Ask, ReadExpired, Goto
<1>2. ASSUME NEW j \in Jobs, AskRecovers(j) PROVE UnbegunHaveNoEvent' /\ Final
  BY <1>2 DEF AskRecovers, EndExpired, Goto
<1>3. ASSUME NEW j \in Jobs, Take(j) PROVE UnbegunHaveNoEvent' /\ Final
  BY <1>3 DEF Take, Acquirable, AfterTake, Goto
<1>4. ASSUME NEW j \in Jobs, Busy(j) PROVE UnbegunHaveNoEvent' /\ Final
  BY <1>4 DEF Busy, Discard, Goto
<1>5. ASSUME NEW j \in Jobs, Reserve(j) PROVE UnbegunHaveNoEvent' /\ Final
  BY <1>5 DEF Reserve, Goto
<1>6. ASSUME NEW j \in Jobs, ReserveFails(j) PROVE UnbegunHaveNoEvent' /\ Final
  BY <1>6 DEF ReserveFails, Release, ExitCodes, Goto
<1>7. ASSUME NEW j \in Jobs, Record(j) PROVE UnbegunHaveNoEvent' /\ Final
  BY <1>7 DEF Record, Goto
<1>8. ASSUME NEW j \in Jobs, TakeJobLease(j) PROVE UnbegunHaveNoEvent' /\ Final
  BY <1>8 DEF TakeJobLease, Goto
<1>9. ASSUME NEW j \in Jobs, BeginFails(j) PROVE UnbegunHaveNoEvent' /\ Final
  BY <1>9 DEF BeginFails, Discard, Leftover, Release, ExitCodes, Goto
<1>10. ASSUME NEW j \in Jobs, Spawn(j) PROVE UnbegunHaveNoEvent' /\ Final
  BY <1>10 DEF Spawn, Goto
<1>11. ASSUME NEW j \in Jobs, SpawnFails(j) PROVE UnbegunHaveNoEvent' /\ Final
  BY <1>11 DEF SpawnFails, Close, Discard, Leftover, Release, Goto
<1>12. ASSUME NEW j \in Jobs, Boot(j) PROVE UnbegunHaveNoEvent' /\ Final
  BY <1>12 DEF Boot, Goto
<1>13. ASSUME NEW j \in Jobs, Write(j) PROVE UnbegunHaveNoEvent' /\ Final
  BY <1>13 DEF Write, Goto
<1>14. ASSUME NEW j \in Jobs, Verify(j) PROVE UnbegunHaveNoEvent' /\ Final
  BY <1>14 DEF Verify, Goto
<1>15. ASSUME NEW j \in Jobs, GiveBack(j) \/ Publish(j) PROVE UnbegunHaveNoEvent' /\ Final
  BY <1>15 DEF GiveBack, Publish, Discard, Goto
<1>16. ASSUME NEW j \in Jobs, WorkFails(j) PROVE UnbegunHaveNoEvent' /\ Final
  BY <1>16 DEF WorkFails, Close, Discard, Goto
<1>17. ASSUME NEW j \in Jobs, Succeed(j) PROVE UnbegunHaveNoEvent' /\ Final
  BY <1>17 DEF Succeed, Close, Discard, Goto
<1>18. ASSUME NEW j \in Jobs, CloseJob(j) PROVE UnbegunHaveNoEvent' /\ Final
  BY <1>18 DEF CloseJob, Discard, Goto
<1>19. ASSUME NEW j \in Jobs, Prune(j) PROVE UnbegunHaveNoEvent' /\ Final
  BY <1>19 DEF Prune, Goto
<1>20. ASSUME NEW j \in Jobs, End(j) PROVE UnbegunHaveNoEvent' /\ Final
  BY <1>20 DEF End, Discard, Leftover, Release, ExitCodes, Goto
<1>21. ASSUME NEW j \in Jobs, Beat(j) PROVE UnbegunHaveNoEvent' /\ Final
  BY <1>21 DEF Beat
<1>22. ASSUME NEW j \in Jobs, Settle(j) PROVE UnbegunHaveNoEvent' /\ Final
  BY <1>22 DEF Settle, Close, Discard, Outputs, Release
<1>23. ASSUME NEW j \in Jobs, Cleanup(j) PROVE UnbegunHaveNoEvent' /\ Final
  BY <1>23 DEF Cleanup, Discard, Leftover
<1>24. ASSUME NEW j \in Jobs, BreachLimit(j) PROVE UnbegunHaveNoEvent' /\ Final
  BY <1>24 DEF BreachLimit, Close, InChild, ChildSteps, BeginSteps
<1>25. ASSUME NEW j \in Jobs, LeaseLost(j) PROVE UnbegunHaveNoEvent' /\ Final
  BY <1>25 DEF LeaseLost
<1>26. ASSUME NEW j \in Jobs, BreachExit(j) PROVE UnbegunHaveNoEvent' /\ Final
  BY <1>26 DEF BreachExit, Discard, Outputs, Goto, InChild, ChildSteps, BeginSteps
<1>27. ASSUME NEW j \in Jobs, Die(j) PROVE UnbegunHaveNoEvent' /\ Final
  BY <1>27 DEF Die, Goto
<1>28. ASSUME NEW j \in Jobs, SupervisorDies(j) PROVE UnbegunHaveNoEvent' /\ Final
  BY <1>28 DEF SupervisorDies
<1>29. ASSUME NEW j \in Jobs, Sweep(j) PROVE UnbegunHaveNoEvent' /\ Final
  BY <1>29 DEF Sweep, Discard
<1>34. ASSUME NEW j \in Jobs, OutcomeRefused(j) PROVE UnbegunHaveNoEvent' /\ Final
  BY <1>34 DEF OutcomeRefused, Discard, Goto
<1>30. CASE TickerReads
  BY <1>30 DEF TickerReads, ReadExpired
<1>31. CASE TickerRecovers
  BY <1>31 DEF TickerRecovers, EndExpired
<1>32. CASE Tick
  BY <1>32 DEF Tick
<1>33. CASE UNCHANGED vars
  BY <1>33
<1> QED
  BY <1>1, <1>2, <1>3, <1>4, <1>5, <1>6, <1>7, <1>8, <1>9, <1>10, <1>11, <1>12, <1>13,
     <1>14, <1>15, <1>16, <1>17, <1>18, <1>19, <1>20, <1>21, <1>22, <1>23, <1>24,
     <1>25, <1>26, <1>27, <1>28, <1>29, <1>30, <1>31, <1>32, <1>33, <1>34
     DEF Next, Start, Work, Supervise, Trouble

(* The status of an event that has ended never changes again, however late   *)
(* the job itself, its watchdog, its supervisor or recover() writes to it.   *)
THEOREM OutcomesAreFinalAlways == Spec => OutcomesAreFinal
<1>1. Init => TypeOK /\ UnbegunHaveNoEvent
  BY JobsAssumption DEF Init, TypeOK, UnbegunHaveNoEvent, NoLease, Held, Ended, Unfinished, Finished
<1>2. TypeOK /\ UnbegunHaveNoEvent /\ [Next]_vars
        => /\ TypeOK' /\ UnbegunHaveNoEvent'
           /\ [\A j \in Jobs : event[j] \in Finished => event'[j] = event[j]]_vars
  BY TypeStep, OutcomeStep
<1> QED
  BY <1>1, <1>2, PTL DEF Spec, OutcomesAreFinal

-----------------------------------------------------------------------------
(* Every step keeps what settling and cleaning up a job rest on, whatever    *)
(* the length of the leases.                                                 *)
LEMMA CleanStep ==
    ASSUME CleanInv, [Next]_vars
    PROVE  CleanInv'
<1> DEFINE Kept == /\ PartialsAreInWork' /\ RestoresOnlyLoad' /\ BegunHaveEvents'
                   /\ ChildrenHaveBegun' /\ OpenEventsHaveLeases' /\ ClosedHaveOutcomes'
                   /\ SettledAreFree' /\ CleanedAreGone'
<1>0. TypeOK'
  BY TypeStep DEF CleanInv
<1> USE JobsAssumption
    DEF CleanInv, PartialsAreInWork, RestoresOnlyLoad, BegunHaveEvents, ChildrenHaveBegun,
        OpenEventsHaveLeases, ClosedHaveOutcomes, SettledAreFree, CleanedAreGone, TypeOK,
        vars, Unbegun, Isolated, ChildSteps, BeginSteps, Held, Ended, NoLease, Unfinished,
        Finished, Panel
<1>1. ASSUME NEW j \in Jobs, Ask(j) PROVE Kept
  BY <1>1 DEF Ask, ReadExpired, Goto
<1>2. ASSUME NEW j \in Jobs, AskRecovers(j) PROVE Kept
  BY <1>2 DEF AskRecovers, EndExpired, Goto
<1>3. ASSUME NEW j \in Jobs, Take(j) PROVE Kept
  BY <1>3 DEF Take, Acquirable, AfterTake, Goto
<1>4. ASSUME NEW j \in Jobs, Busy(j) PROVE Kept
  BY <1>4 DEF Busy, Discard, Goto
<1>5. ASSUME NEW j \in Jobs, Reserve(j) PROVE Kept
  BY <1>5 DEF Reserve, Goto
<1>6. ASSUME NEW j \in Jobs, ReserveFails(j) PROVE Kept
  BY <1>6 DEF ReserveFails, Release, ExitCodes, Goto
<1>7. ASSUME NEW j \in Jobs, Record(j) PROVE Kept
  BY <1>7 DEF Record, Goto
<1>8. ASSUME NEW j \in Jobs, TakeJobLease(j) PROVE Kept
  BY <1>8 DEF TakeJobLease, Goto
<1>9. ASSUME NEW j \in Jobs, BeginFails(j) PROVE Kept
  BY <1>9 DEF BeginFails, Discard, Leftover, Release, ExitCodes, Goto
<1>10. ASSUME NEW j \in Jobs, Spawn(j) PROVE Kept
  BY <1>10 DEF Spawn, Goto
<1>11. ASSUME NEW j \in Jobs, SpawnFails(j) PROVE Kept
  BY <1>11 DEF SpawnFails, Close, Discard, Leftover, Release, Goto
<1>12. ASSUME NEW j \in Jobs, Boot(j) PROVE Kept
  BY <1>12 DEF Boot, Goto
<1>13. ASSUME NEW j \in Jobs, Write(j) PROVE Kept
  BY <1>13 DEF Write, Goto
<1>14. ASSUME NEW j \in Jobs, Verify(j) PROVE Kept
  BY <1>14 DEF Verify, Goto
<1>15. ASSUME NEW j \in Jobs, GiveBack(j) \/ Publish(j) PROVE Kept
  BY <1>15 DEF GiveBack, Publish, Discard, Goto
<1>16. ASSUME NEW j \in Jobs, WorkFails(j) PROVE Kept
  BY <1>16 DEF WorkFails, Close, Discard, Goto
<1>17. ASSUME NEW j \in Jobs, Succeed(j) PROVE Kept
  BY <1>17 DEF Succeed, Close, Discard, Goto
<1>18. ASSUME NEW j \in Jobs, CloseJob(j) PROVE Kept
  BY <1>18 DEF CloseJob, Discard, Goto
<1>19. ASSUME NEW j \in Jobs, Prune(j) PROVE Kept
  BY <1>19 DEF Prune, Goto
<1>20. ASSUME NEW j \in Jobs, End(j) PROVE Kept
  BY <1>20 DEF End, Discard, Leftover, Release, ExitCodes, Goto
<1>21. ASSUME NEW j \in Jobs, Beat(j) PROVE Kept
  BY <1>21 DEF Beat
<1>22. ASSUME NEW j \in Jobs, Settle(j) PROVE Kept
  BY <1>22 DEF Settle, Close, Discard, Outputs, Release
<1>23. ASSUME NEW j \in Jobs, Cleanup(j) PROVE Kept
  BY <1>23 DEF Cleanup, Discard, Leftover
<1>24. ASSUME NEW j \in Jobs, BreachLimit(j) PROVE Kept
  BY <1>24 DEF BreachLimit, Close, InChild
<1>25. ASSUME NEW j \in Jobs, LeaseLost(j) PROVE Kept
  BY <1>25 DEF LeaseLost
<1>26. ASSUME NEW j \in Jobs, BreachExit(j) PROVE Kept
  BY <1>26 DEF BreachExit, Discard, Outputs, Goto, InChild
<1>27. ASSUME NEW j \in Jobs, Die(j) PROVE Kept
  BY <1>27 DEF Die, Goto
<1>28. ASSUME NEW j \in Jobs, SupervisorDies(j) PROVE Kept
  BY <1>28 DEF SupervisorDies
<1>29. ASSUME NEW j \in Jobs, Sweep(j) PROVE Kept
  BY <1>29 DEF Sweep, Discard
<1>30. ASSUME NEW j \in Jobs, OutcomeRefused(j) PROVE Kept
  BY <1>30 DEF OutcomeRefused, Discard, Goto
<1>31. CASE TickerReads
  BY <1>31 DEF TickerReads, ReadExpired
<1>32. CASE TickerRecovers
  BY <1>32 DEF TickerRecovers, EndExpired
<1>33. CASE Tick
  BY <1>33 DEF Tick
<1>34. CASE UNCHANGED vars
  BY <1>34
<1> QED
  BY <1>0, <1>1, <1>2, <1>3, <1>4, <1>5, <1>6, <1>7, <1>8, <1>9, <1>10, <1>11, <1>12,
     <1>13, <1>14, <1>15, <1>16, <1>17, <1>18, <1>19, <1>20, <1>21, <1>22, <1>23,
     <1>24, <1>25, <1>26, <1>27, <1>28, <1>29, <1>30, <1>31, <1>32, <1>33, <1>34
     DEF Next, Start, Work, Supervise, Trouble

(* When the supervisor of a panel job is done, its event has an outcome or   *)
(* the database refused it, its leases are free and none of its working      *)
(* files is left, whichever step its child died in.                          *)
THEOREM SettledJobsAreClean == Spec => []SettledJobIsClean
<1>1. Init => CleanInv
  BY JobsAssumption
     DEF Init, CleanInv, PartialsAreInWork, RestoresOnlyLoad, BegunHaveEvents,
         ChildrenHaveBegun, OpenEventsHaveLeases, ClosedHaveOutcomes, SettledAreFree,
         CleanedAreGone, TypeOK, Unbegun, Held, Ended, NoLease, Unfinished, Finished, Panel
<1>2. CleanInv /\ [Next]_vars => CleanInv'
  BY CleanStep
<1>3. CleanInv => SettledJobIsClean
  BY DEF CleanInv, ChildrenHaveBegun, SettledAreFree, CleanedAreGone, SettledJobIsClean,
         TypeOK, Unfinished, Finished, Panel
<1> QED
  BY <1>1, <1>2, <1>3, PTL DEF Spec

-----------------------------------------------------------------------------
(* Every step keeps a success tied to its file and retention to a success.   *)
LEMMA SuccessStep ==
    ASSUME Gap < TTL, SuccessInv, [Next]_vars
    PROVE  /\ SuccessInv'
           /\ \A j \in Jobs \ Restores :
                event[j] # "succeeded" /\ event'[j] = "succeeded" => "backup" \in disk'[j]
           /\ \A i \in Jobs : "backup" \in disk[i] \ disk'[i] =>
                \E j \in Jobs \ {i} :
                   pc[j] = "prune" /\ (event[j] = "succeeded" \/ breach[j] = "limit")
<1> DEFINE Published == \A i \in Jobs \ Restores :
               event[i] # "succeeded" /\ event'[i] = "succeeded" => "backup" \in disk'[i]
           Retained == \A i \in Jobs : "backup" \in disk[i] \ disk'[i] =>
               \E k \in Jobs \ {i} :
                  pc[k] = "prune" /\ (event[k] = "succeeded" \/ breach[k] = "limit")
           Kept == /\ WorkIsOpen' /\ PublishedAreThere' /\ PruningFollowsSuccess'
                   /\ Published /\ Retained
<1>0. LeaseInv /\ TypeOK /\ LeaseInv'
  BY LeaseStep DEF SuccessInv, LeaseInv
<1>35. OneAtATime /\ InterruptedHaveEnded /\ SeenHaveEnded
  BY <1>0 DEF LeaseInv, LiveHoldRunner, OneAtATime
<1> USE <1>0, <1>35, JobsAssumption
    DEF SuccessInv, WorkIsOpen, AtWork, PublishedAreThere, PruningFollowsSuccess, OneAtATime,
        InterruptedHaveEnded, SeenHaveEnded, Live, TypeOK, vars, Held, Ended, NoLease,
        Unfinished, Finished, Panel, ChildSteps, BeginSteps
<1>1. ASSUME NEW j \in Jobs, Ask(j) PROVE Kept
  BY <1>1 DEF Ask, ReadExpired, Goto
<1>2. ASSUME NEW j \in Jobs, AskRecovers(j) PROVE Kept
  BY <1>2 DEF AskRecovers, EndExpired, Goto
<1>3. ASSUME NEW j \in Jobs, Take(j) PROVE Kept
  BY <1>3 DEF Take, Acquirable, AfterTake, Goto
<1>4. ASSUME NEW j \in Jobs, Busy(j) PROVE Kept
  BY <1>4 DEF Busy, Discard, Goto
<1>5. ASSUME NEW j \in Jobs, Reserve(j) PROVE Kept
  BY <1>5 DEF Reserve, Goto
<1>6. ASSUME NEW j \in Jobs, ReserveFails(j) PROVE Kept
  BY <1>6 DEF ReserveFails, Release, ExitCodes, Goto
<1>7. ASSUME NEW j \in Jobs, Record(j) PROVE Kept
  BY <1>7 DEF Record, Goto
<1>8. ASSUME NEW j \in Jobs, TakeJobLease(j) PROVE Kept
  BY <1>8 DEF TakeJobLease, Goto
<1>9. ASSUME NEW j \in Jobs, BeginFails(j) PROVE Kept
  BY <1>9 DEF BeginFails, Discard, Leftover, Release, ExitCodes, Goto
<1>10. ASSUME NEW j \in Jobs, Spawn(j) PROVE Kept
  BY <1>10 DEF Spawn, Goto
<1>11. ASSUME NEW j \in Jobs, SpawnFails(j) PROVE Kept
  BY <1>11 DEF SpawnFails, Close, Discard, Leftover, Release, Goto
<1>12. ASSUME NEW j \in Jobs, Boot(j) PROVE Kept
  BY <1>12 DEF Boot, Goto
<1>13. ASSUME NEW j \in Jobs, Write(j) PROVE Kept
  BY <1>13 DEF Write, Goto
<1>14. ASSUME NEW j \in Jobs, Verify(j) PROVE Kept
  BY <1>14 DEF Verify, Goto
<1>15. ASSUME NEW j \in Jobs, GiveBack(j) \/ Publish(j) PROVE Kept
  BY <1>15 DEF GiveBack, Publish, Discard, Goto
<1>16. ASSUME NEW j \in Jobs, WorkFails(j) PROVE Kept
  BY <1>16 DEF WorkFails, Close, Discard, Goto
<1>17. ASSUME NEW j \in Jobs, Succeed(j) PROVE Kept
  BY <1>17 DEF Succeed, Close, Discard, Goto
<1>18. ASSUME NEW j \in Jobs, CloseJob(j) PROVE Kept
  BY <1>18 DEF CloseJob, Discard, Goto
<1>19. ASSUME NEW j \in Jobs, Prune(j) PROVE Kept
  BY <1>19 DEF Prune, Goto
<1>20. ASSUME NEW j \in Jobs, End(j) PROVE Kept
  BY <1>20 DEF End, Discard, Leftover, Release, ExitCodes, Goto
<1>21. ASSUME NEW j \in Jobs, Beat(j) PROVE Kept
  BY <1>21 DEF Beat
<1>22. ASSUME NEW j \in Jobs, Settle(j) PROVE Kept
  <2>1. pc[j] \in Ended /\ UNCHANGED <<pc, seen, breach, refused>>
    BY <1>22 DEF Settle
  <2>2. /\ event' \in {event, Close(j, "failed")}
        /\ disk' \in {disk, Discard(j, Outputs(j))}
    BY <1>22 DEF Settle
  <2>3. /\ \A i \in Jobs \ {j} : event'[i] = event[i]
        /\ event'[j] # "succeeded" \/ event'[j] = event[j]
    BY <2>2 DEF Close
  <2>4. \A i \in Jobs : "backup" \in disk[i] <=> "backup" \in disk'[i]
    BY <2>2 DEF Discard, Outputs
  <2> QED
    BY <2>1, <2>3, <2>4
<1>23. ASSUME NEW j \in Jobs, Cleanup(j) PROVE Kept
  BY <1>23 DEF Cleanup, Discard, Leftover
<1>24. ASSUME NEW j \in Jobs, BreachLimit(j) PROVE Kept
  BY <1>24 DEF BreachLimit, Close, InChild
<1>25. ASSUME NEW j \in Jobs, LeaseLost(j) PROVE Kept
  BY <1>25 DEF LeaseLost
<1>26. ASSUME NEW j \in Jobs, BreachExit(j) PROVE Kept
  BY <1>26 DEF BreachExit, Discard, Outputs, Goto, InChild
<1>27. ASSUME NEW j \in Jobs, Die(j) PROVE Kept
  BY <1>27 DEF Die, Goto
<1>28. ASSUME NEW j \in Jobs, SupervisorDies(j) PROVE Kept
  BY <1>28 DEF SupervisorDies
<1>29. ASSUME NEW j \in Jobs, Sweep(j) PROVE Kept
  BY <1>29 DEF Sweep, Discard
<1>30. ASSUME NEW j \in Jobs, OutcomeRefused(j) PROVE Kept
  BY <1>30 DEF OutcomeRefused, Discard, Goto
<1>31. CASE TickerReads
  BY <1>31 DEF TickerReads, ReadExpired
<1>32. CASE TickerRecovers
  BY <1>32 DEF TickerRecovers, EndExpired
<1>33. CASE Tick
  BY <1>33 DEF Tick
<1>34. CASE UNCHANGED vars
  BY <1>34
<1> QED
  BY <1>0, <1>1, <1>2, <1>3, <1>4, <1>5, <1>6, <1>7, <1>8, <1>9, <1>10, <1>11, <1>12,
     <1>13, <1>14, <1>15, <1>16, <1>17, <1>18, <1>19, <1>20, <1>21, <1>22, <1>23,
     <1>24, <1>25, <1>26, <1>27, <1>28, <1>29, <1>30, <1>31, <1>32, <1>33, <1>34
     DEF Next, Start, Work, Supervise, Trouble

(* The invariant behind success and retention holds in every reachable state. *)
LEMMA SuccessInvariant ==
    ASSUME Gap < TTL
    PROVE  Spec => []SuccessInv
<1>1. Init => SuccessInv
  BY JobsAssumption
     DEF Init, SuccessInv, LeaseInv, LiveHoldRunner, LiveHoldLease, LeaseIsHeldOrLeft,
         SeenHaveEnded, InterruptedHaveEnded, TypeOK, Live, HasJobLease, Held, Leased, Ended,
         NoLease, Unfinished, Finished, WorkIsOpen, AtWork, PublishedAreThere,
         PruningFollowsSuccess
<1>2. SuccessInv /\ [Next]_vars => SuccessInv'
  BY SuccessStep
<1> QED
  BY <1>1, <1>2, PTL DEF Spec

(* A backup job whose event succeeds has its verified file under its name:   *)
(* no other job's retention takes it away between the link and the outcome.  *)
THEOREM SuccessIsPublishedAlways ==
    ASSUME Gap < TTL
    PROVE  Spec => SuccessIsPublished
<1>1. SuccessInv /\ [Next]_vars
        => [\A j \in Jobs \ Restores :
              event[j] # "succeeded" /\ event'[j] = "succeeded" => "backup" \in disk'[j]]_vars
  BY SuccessStep
<1> QED
  BY <1>1, SuccessInvariant, PTL DEF Spec, SuccessIsPublished

(* A backup leaves the folder only in the retention of another job that      *)
(* succeeded, or whose watchdog is stopping it after its work was done.      *)
THEOREM RetentionAfterSuccessAlways ==
    ASSUME Gap < TTL
    PROVE  Spec => RetentionAfterSuccess
<1>1. SuccessInv /\ [Next]_vars
        => [\A i \in Jobs : "backup" \in disk[i] \ disk'[i] =>
              \E j \in Jobs \ {i} :
                 pc[j] = "prune" /\ (event[j] = "succeeded" \/ breach[j] = "limit")]_vars
  BY SuccessStep
<1> QED
  BY <1>1, SuccessInvariant, PTL DEF Spec, RetentionAfterSuccess

-----------------------------------------------------------------------------
(* The job that runs in the abstract specification is the one that lives.    *)
LEMMA TheLiveRun ==
    ASSUME OneAtATime
    PROVE  /\ RunningJob \in Jobs \cup {NoOne}
           /\ \A j \in Jobs : RunningJob = j <=> Live(j)
<1>1. CASE \E j \in Jobs : Live(j)
  <2>1. RunningJob \in Jobs /\ Live(RunningJob)
    BY <1>1 DEF RunningJob
  <2> QED
    BY <2>1 DEF OneAtATime
<1>2. CASE ~ \E j \in Jobs : Live(j)
  BY <1>2, JobsAssumption DEF RunningJob
<1> QED
  BY <1>1, <1>2

(* Every step is one of the abstract specification, or none that it sees:    *)
(* asking, writing, renewing and cleaning up change neither who runs nor an  *)
(* outcome; a death or an orderly end stops the job that runs; recover() and *)
(* the supervisor fail only jobs that have stopped.                          *)
LEMMA PromiseStep ==
    ASSUME Gap < TTL, LeaseInv, UnbegunHaveNoEvent, [Next]_vars
    PROVE  Promise!Next \/ UNCHANGED <<RunningJob, Outcomes>>
<1> DEFINE Kept == Promise!Next \/ UNCHANGED <<RunningJob, Outcomes>>
<1>1. /\ TypeOK /\ TypeOK' /\ SeenHaveEnded /\ LiveHoldRunner
      /\ OneAtATime /\ OneAtATime'
  <2>1. LeaseInv'
    BY LeaseStep
  <2> QED
    BY <2>1 DEF LeaseInv, LiveHoldRunner, OneAtATime
<1>2. /\ RunningJob \in Jobs \cup {NoOne}
      /\ \A i \in Jobs : RunningJob = i <=> Live(i)
  BY <1>1, TheLiveRun
<1>3. /\ RunningJob' \in Jobs \cup {NoOne}
      /\ \A i \in Jobs : RunningJob' = i <=> Live(i)'
  <2>1. CASE \E j \in Jobs : Live(j)'
    <3>1. RunningJob' \in Jobs /\ pc'[RunningJob'] \in Held
      BY <2>1 DEF RunningJob, Live
    <3> QED
      BY <1>1, <3>1 DEF OneAtATime, Live
  <2>2. CASE ~ \E j \in Jobs : Live(j)'
    BY <2>2, JobsAssumption DEF RunningJob
  <2> QED
    BY <2>1, <2>2
<1>4. ASSUME \A i \in Jobs : Live(i)' <=> Live(i)
      PROVE  RunningJob' = RunningJob
  BY <1>2, <1>3, <1>4, JobsAssumption
<1>5. ASSUME event' = event
      PROVE  Outcomes' = Outcomes
  BY <1>5 DEF Outcomes
<1>6. ASSUME event' = event, \A i \in Jobs : Live(i)' <=> Live(i)
      PROVE  Kept
  BY <1>4, <1>5, <1>6
<1>7. ASSUME NEW j \in Jobs, Live(j), ~ Live(j)', \A i \in Jobs \ {j} : Live(i)' => Live(i)
      PROVE  RunningJob = j /\ RunningJob' = NoOne
  BY <1>1, <1>2, <1>3, <1>7 DEF OneAtATime
<1>8. ASSUME NEW j \in Jobs, NEW status \in {"succeeded", "failed"}, event' = Close(j, status)
      PROVE  \/ event' = event
             \/ /\ event[j] = "running" /\ Outcomes[j] = "open"
                /\ Outcomes' = [Outcomes EXCEPT ![j] = status]
  <2>1. CASE event[j] = "running"
    BY <1>1, <1>8, <2>1 DEF Close, Outcomes, OutcomeOf, TypeOK, Unfinished
  <2>2. CASE event[j] # "running"
    BY <1>1, <1>8, <2>2 DEF Close, TypeOK, Unfinished
  <2> QED
    BY <2>1, <2>2
<1> USE JobsAssumption DEF Live, Held, Ended
<1>9. ASSUME NEW j \in Jobs,
             \/ Ask(j) \/ Busy(j) \/ Reserve(j) \/ TakeJobLease(j) \/ Spawn(j) \/ Boot(j)
             \/ Write(j) \/ Verify(j) \/ GiveBack(j) \/ Publish(j) \/ CloseJob(j) \/ Prune(j) \/ Beat(j)
             \/ Cleanup(j) \/ OutcomeRefused(j) \/ LeaseLost(j) \/ SupervisorDies(j) \/ Sweep(j)
      PROVE  Kept
  <2>1. event' = event
    BY <1>9 DEF Ask, Busy, Reserve, TakeJobLease, Spawn, Boot, Write, Verify, GiveBack, Publish,
                CloseJob, Prune, Beat, Cleanup, OutcomeRefused, LeaseLost, SupervisorDies, Sweep
  <2>2. \A i \in Jobs : Live(i)' <=> Live(i)
    <3>1. \/ pc' = pc
          \/ pc[j] \notin Held /\ \E s \in {"recover", "exit0"} : Goto(j, s)
          \/ pc[j] \in Held /\ \E s \in Held : Goto(j, s)
      BY <1>9 DEF Ask, Busy, Reserve, TakeJobLease, Spawn, Boot, Write, Verify, GiveBack, Publish,
                  CloseJob, Prune, Beat, Cleanup, OutcomeRefused, LeaseLost, SupervisorDies, Sweep
    <3> QED
      BY <1>1, <3>1 DEF Goto, TypeOK
  <2> QED
    BY <1>6, <2>1, <2>2
<1>10. ASSUME NEW j \in Jobs, Take(j)
       PROVE  Kept
  <2>1. \A i \in Jobs : ~ Live(i)
    BY <1>1, <1>10 DEF Take, Acquirable, LiveHoldRunner, TypeOK
  <2>2. pc'[j] \in Held
    BY <1>1, <1>10 DEF Take, AfterTake, Goto, TypeOK
  <2>3. RunningJob = NoOne /\ RunningJob' = j
    BY <1>2, <1>3, <2>1, <2>2
  <2>4. Outcomes' = Outcomes
    BY <1>5, <1>10 DEF Take
  <2> QED
    BY <2>3, <2>4 DEF Promise!Next, Promise!Start
<1>11. ASSUME NEW j \in Jobs, Live(j), \E s \in Ended : Goto(j, s), event' = event
       PROVE  Kept
  <2>1. RunningJob = j /\ RunningJob' = NoOne
    BY <1>1, <1>7, <1>11 DEF Goto, TypeOK
  <2>2. Outcomes' = Outcomes
    BY <1>5, <1>11
  <2> QED
    BY <2>1, <2>2 DEF Promise!Next, Promise!Stop
<1>12. ASSUME NEW j \in Jobs, BeginFails(j) \/ End(j) \/ BreachExit(j)
       PROVE  Kept
  BY <1>11, <1>12 DEF BeginFails, End, BreachExit, ExitCodes, InChild, ChildSteps, BeginSteps
<1>13. ASSUME NEW j \in Jobs, Die(j)
       PROVE  Kept
  <2>1. CASE Live(j)
    BY <1>11, <1>13, <2>1 DEF Die
  <2>2. CASE ~ Live(j)
    <3>1. \A i \in Jobs : Live(i)' <=> Live(i)
      BY <1>1, <1>13, <2>2 DEF Die, Goto, TypeOK
    <3> QED
      BY <1>6, <1>13, <3>1 DEF Die
  <2> QED
    BY <2>1, <2>2
<1>14. ASSUME NEW j \in Jobs, Live(j), \E s \in Ended : Goto(j, s),
              event[j] \in {"none", "running"}, event' = [event EXCEPT ![j] = "failed"]
       PROVE  Kept
  <2>1. RunningJob = j /\ RunningJob' = NoOne
    BY <1>1, <1>7, <1>14 DEF Goto, TypeOK
  <2>2. Outcomes[j] \in {"none", "open"}
    BY <1>1, <1>14 DEF Outcomes, OutcomeOf, TypeOK
  <2>3. ASSUME NEW i \in Jobs
        PROVE  Outcomes'[i] = IF i = j THEN "failed" ELSE Outcomes[i]
    BY <1>1, <1>14 DEF Outcomes, OutcomeOf, TypeOK
  <2>4. Outcomes' = [Outcomes EXCEPT ![j] = "failed"]
    BY <2>3 DEF Outcomes
  <2> QED
    BY <2>1, <2>2, <2>4 DEF Promise!Next, Promise!Refuse
<1>15. ASSUME NEW j \in Jobs, ReserveFails(j)
       PROVE  Kept
  <2>1. pc[j] = "reserve" /\ event[j] = "none" /\ \E s \in Ended : Goto(j, s)
    BY <1>15 DEF ReserveFails, UnbegunHaveNoEvent, Unbegun, ExitCodes
  <2>2. event' = [event EXCEPT ![j] = "none"] \/ event' = [event EXCEPT ![j] = "failed"]
    BY <1>15 DEF ReserveFails
  <2>3. event' = event \/ event' = [event EXCEPT ![j] = "failed"]
    BY <1>1, <2>1, <2>2 DEF TypeOK
  <2> QED
    BY <1>11, <1>14, <2>1, <2>3
<1>16. ASSUME NEW j \in Jobs, SpawnFails(j)
       PROVE  Kept
  <2>1. pc[j] = "spawn" /\ Goto(j, "exit0") /\ event' = Close(j, "failed")
    BY <1>16 DEF SpawnFails
  <2>2. CASE event[j] = "running"
    BY <1>1, <1>14, <2>1, <2>2 DEF Close, Unfinished, TypeOK
  <2>3. CASE event[j] # "running"
    <3>1. event' = event
      BY <1>1, <2>1, <2>3 DEF Close, Unfinished, TypeOK
    <3> QED
      BY <1>11, <2>1, <3>1
  <2> QED
    BY <2>2, <2>3
<1>17. ASSUME NEW j \in Jobs, Record(j)
       PROVE  Kept
  <2>1. pc[j] = "record" /\ event[j] = "none" /\ event' = [event EXCEPT ![j] = "running"]
    BY <1>17 DEF Record, UnbegunHaveNoEvent, Unbegun
  <2>2. \A i \in Jobs : Live(i)' <=> Live(i)
    BY <1>1, <1>17 DEF Record, Goto, TypeOK
  <2>3. RunningJob = j /\ RunningJob' = RunningJob
    BY <1>2, <1>4, <2>1, <2>2
  <2>4. Outcomes[j] = "none" /\ Outcomes' = [Outcomes EXCEPT ![j] = "open"]
    BY <1>1, <2>1 DEF Outcomes, OutcomeOf, TypeOK
  <2> QED
    BY <2>3, <2>4 DEF Promise!Next, Promise!Open
<1>18. ASSUME NEW j \in Jobs, Succeed(j) \/ WorkFails(j) \/ BreachLimit(j)
       PROVE  Kept
  <2>1. Live(j) /\ \A i \in Jobs : Live(i)' <=> Live(i)
    BY <1>1, <1>18
    DEF Succeed, WorkFails, BreachLimit, Goto, InChild, ChildSteps, BeginSteps, TypeOK
  <2>2. event' = event \/ \E status \in {"succeeded", "failed"} : event' = Close(j, status)
    BY <1>18 DEF Succeed, WorkFails, BreachLimit
  <2>3. CASE event' = event
    BY <1>6, <2>1, <2>3
  <2>4. CASE event' # event
    <3>1. PICK status \in {"succeeded", "failed"} : event' = Close(j, status)
      BY <2>2, <2>4
    <3>2. Outcomes[j] = "open" /\ Outcomes' = [Outcomes EXCEPT ![j] = status]
      BY <1>8, <2>4, <3>1
    <3>3. RunningJob = j /\ RunningJob' = RunningJob
      BY <1>2, <1>4, <2>1
    <3> QED
      BY <3>2, <3>3 DEF Promise!Next, Promise!Close
  <2> QED
    BY <2>3, <2>4
<1>19. ASSUME NEW dead \in SUBSET Jobs, \A i \in dead : pc[i] \in Ended,
              \A i \in Jobs : Live(i)' <=> Live(i),
              NEW status \in {"failed", "interrupted"},
              event' = [i \in Jobs |->
                          IF i \in dead /\ event[i] = "running" THEN status ELSE event[i]]
       PROVE  Kept
  <2> DEFINE stopped == {i \in dead : event[i] = "running"}
  <2>1. RunningJob' = RunningJob
    BY <1>4, <1>19
  <2>2. CASE stopped = {}
    <3>1. event' = event
      BY <1>1, <1>19, <2>2 DEF TypeOK
    <3> QED
      BY <1>5, <2>1, <3>1
  <2>3. CASE stopped # {}
    <3>1. \A i \in stopped : Outcomes[i] = "open" /\ RunningJob # i
      BY <1>2, <1>19 DEF Outcomes, OutcomeOf
    <3>2. Outcomes' = [i \in Jobs |-> IF i \in stopped THEN "failed" ELSE Outcomes[i]]
      BY <1>1, <1>19 DEF Outcomes, OutcomeOf, TypeOK
    <3>3. stopped \in SUBSET Jobs
      OBVIOUS
    <3> HIDE DEF stopped
    <3> QED
      BY <2>1, <2>3, <3>1, <3>2, <3>3 DEF Promise!Next, Promise!Abandon
  <2> QED
    BY <2>2, <2>3
<1>20. ASSUME NEW p \in Jobs \cup {Ticker}, EndExpired(p),
              \A i \in Jobs : Live(i)' <=> Live(i)
       PROVE  Kept
  <2>1. seen[p] \in SUBSET Jobs /\ \A i \in seen[p] : pc[i] \in Ended
    BY <1>1 DEF TypeOK, SeenHaveEnded
  <2>2. event' = [i \in Jobs |->
                    IF i \in seen[p] /\ event[i] = "running" THEN "interrupted" ELSE event[i]]
    BY <1>20 DEF EndExpired, Unfinished
  <2> QED
    BY <1>19, <1>20, <2>1, <2>2
<1>21. ASSUME NEW j \in Jobs, AskRecovers(j)
       PROVE  Kept
  <2>1. \A i \in Jobs : Live(i)' <=> Live(i)
    BY <1>1, <1>21 DEF AskRecovers, Goto, TypeOK
  <2> QED
    BY <1>20, <1>21, <2>1 DEF AskRecovers
<1>22. CASE TickerRecovers
  BY <1>20, <1>22 DEF TickerRecovers
<1>23. ASSUME NEW j \in Jobs, Settle(j)
       PROVE  Kept
  <2>1. pc[j] \in Ended /\ pc' = pc
    BY <1>23 DEF Settle
  <2>2. event' = event \/ event' = Close(j, "failed")
    BY <1>23 DEF Settle
  <2>3. CASE event' = event
    BY <1>6, <2>1, <2>3
  <2>4. CASE event' = Close(j, "failed")
    <3>1. event' = [i \in Jobs |->
                      IF i \in {j} /\ event[i] = "running" THEN "failed" ELSE event[i]]
      BY <1>1, <2>4 DEF Close, Unfinished, TypeOK
    <3> QED
      BY <1>19, <2>1, <3>1
  <2> QED
    BY <2>2, <2>3, <2>4
<1>24. CASE TickerReads \/ Tick \/ UNCHANGED vars
  BY <1>6, <1>24 DEF TickerReads, Tick, vars
<1> QED
  BY <1>9, <1>10, <1>12, <1>13, <1>15, <1>16, <1>17, <1>18, <1>21, <1>22, <1>23, <1>24
     DEF Next, Start, Work, Supervise, Trouble

(* Leases, child processes, supervisors and recover() together implement the *)
(* promise of one runner whose outcomes are written once (OneRunner), for    *)
(* any jobs, as long as live processes renew in time.                        *)
THEOREM PromiseKept ==
    ASSUME Gap < TTL
    PROVE  Spec => KeepsPromise
<1>1. Init => Promise!Init
  <2> SUFFICES ASSUME Init PROVE Promise!Init
    OBVIOUS
  <2>1. RunningJob = NoOne
    BY DEF Init, RunningJob, Live, Held
  <2>2. Outcomes = [j \in Jobs |-> "none"]
    BY DEF Init, Outcomes, OutcomeOf
  <2> QED
    BY <2>1, <2>2 DEF Promise!Init
<1>2. Spec => []LeaseInv
  BY LeaseInvariant
<1>3. Init => TypeOK /\ UnbegunHaveNoEvent
  BY JobsAssumption
     DEF Init, TypeOK, UnbegunHaveNoEvent, NoLease, Held, Ended, Unfinished, Finished
<1>4. TypeOK /\ UnbegunHaveNoEvent /\ [Next]_vars => TypeOK' /\ UnbegunHaveNoEvent'
  BY TypeStep, OutcomeStep
<1>5. LeaseInv /\ UnbegunHaveNoEvent /\ [Next]_vars
        => [Promise!Next]_<<RunningJob, Outcomes>>
  BY PromiseStep
<1> QED
  BY <1>1, <1>2, <1>3, <1>4, <1>5, PTL DEF Spec, KeepsPromise, Promise!Spec
=============================================================================
