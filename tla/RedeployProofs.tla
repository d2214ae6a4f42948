--------------------------- MODULE RedeployProofs ---------------------------
(***************************************************************************)
(* Theorems about Redeploy, for any applications, jobs and backup files:   *)
(* one job on each application, a rehearsal that only reads, what a revert *)
(* puts back, and the way back a deployment leaves.                        *)
(***************************************************************************)
EXTENDS Redeploy, FiniteSetTheorems, SequenceTheorems, WellFoundedInduction, TLAPS

(* A set of natural numbers has a least member.                              *)
LEMMA NatMin == ASSUME NEW T \in SUBSET Nat, T # {} PROVE \E x \in T : \A y \in T : x <= y
<1>1. PICK x \in T : \A y \in T : ~ (<<y, x>> \in OpToRel(<, Nat))
  BY NatLessThanWellFounded, WFMin
<1>2. OpToRel(<, Nat) = {p \in Nat \X Nat : p[1] < p[2]}
  BY DEF OpToRel
<1>3. \A y \in T : ~ (y < x)
  BY <1>1, <1>2
<1> QED
  BY <1>3

\* What a step of a job leaves of the job: what was asked for, and which steps there are.
SameJob(q, p) ==
    /\ q.action = p.action /\ q.src = p.src /\ q.tgt = p.tgt /\ q.rehearsal = p.rehearsal
    /\ q.flush = p.flush /\ q.backup = p.backup /\ q.env = p.env /\ q.of = p.of
SameSteps(q, p) ==
    /\ DOMAIN q.steps = DOMAIN p.steps
    /\ \A i \in DOMAIN p.steps : q.steps[i].step = p.steps[i].step
SameFinds(q, p) == q.used = p.used /\ q.safety = p.safety /\ q.recorded = p.recorded
Proceeds(j) ==
    /\ jobs' \in [Jobs -> Job]
    /\ \A k \in Jobs \ {j} : jobs'[k] = jobs[k]
    /\ SameJob(jobs'[j], jobs[j]) /\ SameSteps(jobs'[j], jobs[j])

LEMMA OneProceeds ==
    ASSUME jobs \in [Jobs -> Job], NEW j \in Jobs, NEW q \in Job, jobs' = [jobs EXCEPT ![j] = q]
    PROVE  jobs' \in [Jobs -> Job] /\ jobs'[j] = q /\ \A k \in Jobs \ {j} : jobs'[k] = jobs[k]
<1> HIDE DEF Job
<1> QED
  OBVIOUS

\* The steps of a job with one of them, or all of them, in another status.
LEMMA MarkedSteps ==
    ASSUME NEW j \in Jobs, jobs[j] \in Job, NEW status \in {"succeeded", "skipped", "failed"},
           NEW rest \in {"pending", "skipped"}
    PROVE  /\ Marked(j, status, rest) \in Seq(PlannedStep)
           /\ DOMAIN Marked(j, status, rest) = DOMAIN jobs[j].steps
           /\ \A i \in DOMAIN jobs[j].steps :
                 /\ Marked(j, status, rest)[i].step = jobs[j].steps[i].step
                 /\ Marked(j, status, rest)[i].status =
                       IF i \in At(j) THEN status
                       ELSE IF i \in Pending(j) THEN rest ELSE jobs[j].steps[i].status
<1> DEFINE S == jobs[j].steps
           M == Marked(j, status, rest)
<1>1. S \in Seq(PlannedStep)
  BY DEF Job
<1>2. /\ M = [i \in DOMAIN S |-> M[i]]
      /\ \A i \in DOMAIN S : /\ M[i] \in PlannedStep /\ M[i].step = S[i].step
                             /\ M[i].status = IF i \in At(j) THEN status
                                              ELSE IF i \in Pending(j) THEN rest ELSE S[i].status
  <2>1. M = [i \in DOMAIN S |-> M[i]]
    BY DEF Marked
  <2>2. ASSUME NEW i \in DOMAIN S
        PROVE  /\ M[i] \in PlannedStep /\ M[i].step = S[i].step
               /\ M[i].status = IF i \in At(j) THEN status
                                ELSE IF i \in Pending(j) THEN rest ELSE S[i].status
    <3> DEFINE mark == IF i \in At(j) THEN status
                       ELSE IF i \in Pending(j) THEN rest ELSE S[i].status
    <3>1. M[i] = [step |-> S[i].step, status |-> mark]
      BY DEF Marked
    <3>2. S[i] \in PlannedStep
      BY <1>1
    <3>3. S[i].step \in AllSteps /\ mark \in {"pending", "running", "succeeded", "skipped", "failed"}
      BY <3>2 DEF PlannedStep
    <3> HIDE DEF mark
    <3> QED
      BY <3>1, <3>3 DEF PlannedStep, mark
  <2> QED
    BY <2>1, <2>2
<1>3. DOMAIN S = 1 .. Len(S) /\ Len(S) \in Nat
  BY <1>1
<1> HIDE DEF S, M, PlannedStep
<1>4. M \in [1 .. Len(S) -> PlannedStep]
  BY <1>2, <1>3
<1>5. M \in Seq(PlannedStep) /\ DOMAIN M = DOMAIN S
  BY <1>3, <1>4
<1> QED
  BY <1>2, <1>5 DEF S, M

\* A step that is settled, with what it found.
Settles(j, status) ==
    /\ Proceeds(j) /\ jobs'[j].status = jobs[j].status /\ jobs'[j].before = jobs[j].before
    /\ \A i \in DOMAIN jobs[j].steps :
          jobs'[j].steps[i].status = IF i \in At(j) THEN status ELSE jobs[j].steps[i].status
LEMMA SettledDoes ==
    ASSUME jobs \in [Jobs -> Job], NEW j \in Jobs, NEW status \in {"succeeded", "skipped"},
           NEW found \in Job, SameJob(found, jobs[j]), found.steps = jobs[j].steps,
           found.status = jobs[j].status, found.before = jobs[j].before,
           jobs' = Settled(j, status, found)
    PROVE  Settles(j, status) /\ SameFinds(jobs'[j], found)
<1> DEFINE M == Marked(j, status, "pending")
           q == [found EXCEPT !.steps = M]
<1>0. jobs[j] \in Job
  BY DEF Job
<1>1. /\ M \in Seq(PlannedStep) /\ DOMAIN M = DOMAIN jobs[j].steps
      /\ \A i \in DOMAIN jobs[j].steps :
            /\ M[i].step = jobs[j].steps[i].step
            /\ M[i].status = IF i \in At(j) THEN status ELSE jobs[j].steps[i].status
  <2>1. /\ M \in Seq(PlannedStep) /\ DOMAIN M = DOMAIN jobs[j].steps
        /\ \A i \in DOMAIN jobs[j].steps :
              /\ M[i].step = jobs[j].steps[i].step
              /\ M[i].status = IF i \in At(j) THEN status
                               ELSE IF i \in Pending(j) THEN "pending" ELSE jobs[j].steps[i].status
    BY <1>0, MarkedSteps
  <2> HIDE DEF M
  <2> QED
    BY <2>1 DEF Pending
<1>2. jobs' = [jobs EXCEPT ![j] = q]
  BY DEF Settled
<1> HIDE DEF M
<1>3. q \in Job /\ SameJob(q, found) /\ SameFinds(q, found) /\ q.steps = M
      /\ q.status = found.status /\ q.before = found.before
  <2>1. M \in Seq(PlannedStep)
    BY <1>1
  <2>2. q \in Job
    BY <2>1 DEF Job
  <2>3. q.steps = M /\ q.status = found.status /\ q.before = found.before
    BY DEF Job
  <2>4. SameFinds(q, found)
    BY DEF Job, SameFinds
  <2>5. SameJob(q, found)
    BY DEF Job, SameJob
  <2> QED
    BY <2>2, <2>3, <2>4, <2>5
<1> HIDE DEF q
<1>4. jobs' \in [Jobs -> Job] /\ jobs'[j] = q /\ \A k \in Jobs \ {j} : jobs'[k] = jobs[k]
  BY <1>2, <1>3, OneProceeds
<1>5. SameJob(jobs'[j], jobs[j])
  BY <1>3, <1>4 DEF SameJob
<1>6. SameSteps(jobs'[j], jobs[j])
  BY <1>1, <1>3, <1>4 DEF SameSteps
<1> QED
  BY <1>1, <1>3, <1>4, <1>5, <1>6 DEF Settles, Proceeds

\* What a step may have found.
LEMMA UsedIsJob ==
    ASSUME NEW r \in Job, NEW f \in Files \cup {0}, NEW q, q = [r EXCEPT !.used = f]
    PROVE  /\ q \in Job /\ SameJob(q, r) /\ q.steps = r.steps /\ q.status = r.status
           /\ q.before = r.before /\ q.safety = r.safety /\ q.recorded = r.recorded /\ q.used = f
<1>1. q \in Job
  BY DEF Job
<1>2. /\ q.steps = r.steps /\ q.status = r.status
      /\ q.before = r.before /\ q.safety = r.safety /\ q.recorded = r.recorded /\ q.used = f
  BY DEF Job
<1>3. SameJob(q, r)
  BY DEF Job, SameJob
<1> QED
  BY <1>1, <1>2, <1>3
LEMMA RecordedIsJob ==
    ASSUME NEW r \in Job, NEW e \in Apps \cup {None}, NEW q, q = [r EXCEPT !.recorded = e]
    PROVE  /\ q \in Job /\ SameJob(q, r) /\ q.steps = r.steps /\ q.status = r.status
           /\ q.before = r.before /\ q.safety = r.safety /\ q.recorded = e /\ q.used = r.used
<1>1. q \in Job
  BY DEF Job
<1>2. /\ q.steps = r.steps /\ q.status = r.status
      /\ q.before = r.before /\ q.safety = r.safety /\ q.recorded = e /\ q.used = r.used
  BY DEF Job
<1>3. SameJob(q, r)
  BY DEF Job, SameJob
<1> QED
  BY <1>1, <1>2, <1>3

\* A job that ends: no step of it is under way or to come unless it was cut off.
Ends(j) == /\ Proceeds(j) /\ jobs'[j].status \in {"failed", "succeeded"} /\ SameFinds(jobs'[j], jobs[j])
           /\ jobs'[j].before = jobs[j].before
           /\ \/ jobs'[j].steps = jobs[j].steps
              \/ \A i \in DOMAIN jobs[j].steps : jobs'[j].steps[i].status \notin {"pending", "running"}
LEMMA FailedDoes ==
    ASSUME jobs \in [Jobs -> Job], NEW j \in Jobs, StepFails(j)
    PROVE  Ends(j) /\ jobs'[j].status = "failed" /\ jobs'[j].revertable = MayRevert(j)
<1> DEFINE M == Marked(j, "failed", "skipped")
           may == MayRevert(j)
           q == [jobs[j] EXCEPT !.status = "failed", !.revertable = may, !.steps = M]
<1>0. jobs[j] \in Job
  BY DEF Job
<1>1. /\ M \in Seq(PlannedStep) /\ DOMAIN M = DOMAIN jobs[j].steps
      /\ \A i \in DOMAIN jobs[j].steps : M[i].step = jobs[j].steps[i].step /\ M[i].status \notin {"pending", "running"}
  <2>1. /\ M \in Seq(PlannedStep) /\ DOMAIN M = DOMAIN jobs[j].steps
        /\ \A i \in DOMAIN jobs[j].steps :
              /\ M[i].step = jobs[j].steps[i].step
              /\ M[i].status = IF i \in At(j) THEN "failed"
                               ELSE IF i \in Pending(j) THEN "skipped" ELSE jobs[j].steps[i].status
    BY <1>0, MarkedSteps
  <2> HIDE DEF M
  <2> QED
    BY <2>1 DEF Pending, At
<1>2. jobs' = [jobs EXCEPT ![j] = q]
  BY DEF StepFails
<1>3. may \in BOOLEAN
  BY DEF MayRevert
<1> HIDE DEF M, may
<1>4. q \in Job /\ SameJob(q, jobs[j]) /\ SameFinds(q, jobs[j]) /\ q.steps = M
      /\ q.status = "failed" /\ q.revertable = may /\ q.before = jobs[j].before
  <2>1. M \in Seq(PlannedStep)
    BY <1>1
  <2>2. q \in Job
    BY <1>0, <1>3, <2>1 DEF Job
  <2>3. q.steps = M /\ q.status = "failed" /\ q.revertable = may /\ q.before = jobs[j].before
    BY <1>0 DEF Job
  <2>4. SameFinds(q, jobs[j])
    BY <1>0 DEF Job, SameFinds
  <2>5. SameJob(q, jobs[j])
    BY <1>0 DEF Job, SameJob
  <2> QED
    BY <2>2, <2>3, <2>4, <2>5
<1> HIDE DEF q
<1>5. jobs' \in [Jobs -> Job] /\ jobs'[j] = q /\ \A k \in Jobs \ {j} : jobs'[k] = jobs[k]
  BY <1>2, <1>4, OneProceeds
<1>6. SameSteps(jobs'[j], jobs[j])
  BY <1>1, <1>4, <1>5 DEF SameSteps
<1> QED
  BY <1>1, <1>4, <1>5, <1>6 DEF Ends, Proceeds, may

LEMMA StatusDoes ==
    ASSUME jobs \in [Jobs -> Job], NEW j \in Jobs, NEW status \in {"failed", "succeeded"},
           jobs' = [jobs EXCEPT ![j].status = status]
    PROVE  Ends(j) /\ jobs'[j].status = status /\ jobs'[j].steps = jobs[j].steps
<1> DEFINE q == [jobs[j] EXCEPT !.status = status]
<1>0. jobs[j] \in Job
  BY DEF Job
<1>1. q \in Job
  BY <1>0 DEF Job
<1>2. q.steps = jobs[j].steps /\ q.status = status /\ q.before = jobs[j].before
  BY <1>0 DEF Job
<1>3. SameJob(q, jobs[j]) /\ SameFinds(q, jobs[j])
  BY <1>0 DEF Job, SameJob, SameFinds
<1>4. jobs' = [jobs EXCEPT ![j] = q]
  OBVIOUS
<1> HIDE DEF q
<1>5. jobs' \in [Jobs -> Job] /\ jobs'[j] = q /\ \A k \in Jobs \ {j} : jobs'[k] = jobs[k]
  BY <1>1, <1>4, OneProceeds
<1>6. SameSteps(jobs'[j], jobs[j])
  BY <1>2, <1>5 DEF SameSteps
<1> QED
  BY <1>2, <1>3, <1>5, <1>6 DEF Ends, Proceeds

LEMMA BeginsDoes ==
    ASSUME jobs \in [Jobs -> Job], NEW j \in Jobs, NEW was \in AppState,
           jobs' = [jobs EXCEPT ![j].status = "running", ![j].before = was]
    PROVE  /\ Proceeds(j) /\ jobs'[j].status = "running" /\ jobs'[j].before = was
           /\ jobs'[j].steps = jobs[j].steps /\ SameFinds(jobs'[j], jobs[j])
<1> DEFINE q == [jobs[j] EXCEPT !.status = "running", !.before = was]
<1>0. jobs[j] \in Job
  BY DEF Job
<1>1. q \in Job
  <2> HIDE DEF AppState
  <2> QED
    BY <1>0 DEF Job
<1>2. q.steps = jobs[j].steps /\ q.status = "running" /\ q.before = was
  BY <1>0 DEF Job
<1>3. SameJob(q, jobs[j]) /\ SameFinds(q, jobs[j])
  BY <1>0 DEF Job, SameJob, SameFinds
<1>4. jobs' = [jobs EXCEPT ![j] = q]
  OBVIOUS
<1> HIDE DEF q
<1>5. jobs' \in [Jobs -> Job] /\ jobs'[j] = q /\ \A k \in Jobs \ {j} : jobs'[k] = jobs[k]
  BY <1>1, <1>4, OneProceeds
<1>6. SameSteps(jobs'[j], jobs[j])
  BY <1>2, <1>5 DEF SameSteps
<1> QED
  BY <1>2, <1>3, <1>5, <1>6 DEF Proceeds

LEMMA StepsAreNumbered ==
    ASSUME jobs \in [Jobs -> Job], NEW j \in Jobs
    PROVE  /\ jobs[j].steps \in Seq(PlannedStep) /\ DOMAIN jobs[j].steps \subseteq Nat
           /\ \A i \in DOMAIN jobs[j].steps : jobs[j].steps[i] \in PlannedStep
<1>1. jobs[j].steps \in Seq(PlannedStep)
  BY DEF Job
<1> HIDE DEF PlannedStep
<1> QED
  BY <1>1

\* The next step starts.
Starts(j) ==
    /\ Proceeds(j) /\ jobs'[j].status = jobs[j].status /\ jobs'[j].before = jobs[j].before
    /\ SameFinds(jobs'[j], jobs[j])
    /\ \E n \in DOMAIN jobs[j].steps :
          /\ jobs[j].steps[n].status = "pending"
          /\ \A i \in DOMAIN jobs[j].steps : i < n => ~ Ahead(j, i)
          /\ \A i \in DOMAIN jobs[j].steps :
                jobs'[j].steps[i].status = IF i = n THEN "running" ELSE jobs[j].steps[i].status
    /\ \A i \in DOMAIN jobs[j].steps : jobs[j].steps[i].status # "running"
LEMMA StartsDoes ==
    ASSUME jobs \in [Jobs -> Job], NEW j \in Jobs, StepStarts(j)
    PROVE  Starts(j)
<1> DEFINE n == CHOOSE i \in Pending(j) : \A k \in Pending(j) : i <= k
           S == jobs[j].steps
           doing == [S[n] EXCEPT !.status = "running"]
           M == [S EXCEPT ![n] = doing]
           q == [jobs[j] EXCEPT !.steps = M]
<1>0. jobs[j] \in Job
  BY DEF Job
<1>1. S \in Seq(PlannedStep) /\ DOMAIN S \subseteq Nat
  BY StepsAreNumbered
<1>2. \E i \in Pending(j) : \A k \in Pending(j) : i <= k
  <2>1. Pending(j) \in SUBSET Nat /\ Pending(j) # {}
    BY <1>1 DEF StepStarts, Pending
  <2> QED
    BY <2>1, NatMin
<1>3. n \in Pending(j) /\ \A k \in Pending(j) : n <= k
  BY <1>2
<1>4. jobs' = [jobs EXCEPT ![j] = q]
  BY DEF StepStarts
<1>5. \A i \in DOMAIN S : S[i].status # "running"
  BY DEF StepStarts, At
<1> HIDE DEF n
<1>6. n \in DOMAIN S /\ S[n].status = "pending" /\ n \in Nat
  BY <1>1, <1>3 DEF Pending
<1>7. \A i \in DOMAIN S : i < n => ~ Ahead(j, i)
  BY <1>1, <1>3, <1>5, <1>6 DEF Ahead, Pending
<1>8. doing \in PlannedStep /\ doing.status = "running" /\ doing.step = S[n].step
  <2> DEFINE r == S[n]
  <2>1. r \in PlannedStep
    BY <1>6, StepsAreNumbered
  <2> HIDE DEF r
  <2>2. [r EXCEPT !.status = "running"] \in PlannedStep /\ [r EXCEPT !.status = "running"].status = "running"
        /\ [r EXCEPT !.status = "running"].step = r.step
    BY <2>1 DEF PlannedStep
  <2> QED
    BY <2>2 DEF r
<1> HIDE DEF doing
<1>9. /\ M \in Seq(PlannedStep) /\ DOMAIN M = DOMAIN S
      /\ \A i \in DOMAIN S : M[i] = IF i = n THEN doing ELSE S[i]
  <2> HIDE DEF PlannedStep, S
  <2> QED
    BY <1>1, <1>6, <1>8
<1> HIDE DEF M
<1>10. q \in Job
  BY <1>0, <1>9 DEF Job
<1>11. q.steps = M /\ q.status = jobs[j].status /\ q.before = jobs[j].before
  BY <1>0 DEF Job
<1>12. SameJob(q, jobs[j]) /\ SameFinds(q, jobs[j])
  BY <1>0 DEF Job, SameJob, SameFinds
<1> HIDE DEF q
<1>13. jobs' \in [Jobs -> Job] /\ jobs'[j] = q /\ \A k \in Jobs \ {j} : jobs'[k] = jobs[k]
  BY <1>4, <1>10, OneProceeds
<1>14. SameSteps(jobs'[j], jobs[j])
  BY <1>8, <1>9, <1>11, <1>13 DEF SameSteps
<1>15. \A i \in DOMAIN jobs[j].steps :
          jobs'[j].steps[i].status = IF i = n THEN "running" ELSE jobs[j].steps[i].status
  BY <1>8, <1>9, <1>11, <1>13
<1> QED
  BY <1>5, <1>6, <1>7, <1>11, <1>12, <1>13, <1>14, <1>15 DEF Starts, Proceeds

\* The files are numbered from 1, and a set of them has a newest one.
LEMMA FilesAreNumbered ==
    ASSUME ConstantsFit
    PROVE  \E n \in Nat : Files = 1 .. n
<1>1. /\ IsFiniteSet(Files) /\ Files = 1 .. Cardinality(Files)
  BY DEF ConstantsFit, IsFiniteSet, IsFiniteSet, Cardinality, Cardinality
<1>2. Cardinality(Files) \in Nat
  BY <1>1, FS_CardinalityType
<1> QED
  BY <1>1, <1>2
LEMMA NewestOfFiles ==
    ASSUME ConstantsFit, NEW T \in SUBSET Files, T # {}
    PROVE  \E f \in T : \A g \in T : f >= g
<1>1. PICK n \in Nat : Files = 1 .. n
  BY FilesAreNumbered
<1> DEFINE D == {n - f : f \in T}
<1>2. D \in SUBSET Nat /\ D # {}
  <2>1. \A f \in T : f \in 1 .. n
    BY <1>1
  <2>2. \A f \in T : n - f \in Nat
    BY <2>1
  <2> QED
    BY <2>2
<1> HIDE DEF D
<1>3. PICK d \in D : \A e \in D : d <= e
  BY <1>2, NatMin
<1>4. PICK f \in T : d = n - f
  BY DEF D
<1>5. ASSUME NEW g \in T PROVE f >= g
  <2>1. n - g \in D
    BY DEF D
  <2>2. n - f <= n - g /\ f \in Nat /\ g \in Nat
    BY <1>1, <1>3, <1>4, <2>1
  <2> QED
    BY <1>1, <2>2
<1> QED
  BY <1>5
LEMMA ChoosableFiles == ASSUME ConstantsFit, NEW a PROVE Choosable(a) \subseteq Files \cup {0}
<1> DEFINE good == {f \in Files : Alive(f, a) /\ files[f].ok}
<1>1. ASSUME good # {} PROVE (CHOOSE f \in good : \A g \in good : f >= g) \in Files
  <2>1. \E f \in good : \A g \in good : f >= g
    BY <1>1, NewestOfFiles
  <2> HIDE DEF good
  <2>2. (CHOOSE f \in good : \A g \in good : f >= g) \in good
    BY <2>1
  <2> QED
    BY <2>2 DEF good
<1>2. Chosen(a) = IF good = {} THEN {0} ELSE {CHOOSE f \in good : \A g \in good : f >= g}
  BY DEF Chosen
<1>3. Choosable(a) = Chosen(a) \cup good
  BY DEF Choosable
<1>4. good \subseteq Files
  OBVIOUS
<1> HIDE DEF good
<1> QED
  BY <1>1, <1>2, <1>3, <1>4

\* What is planned: the steps by their names, those that are to run pending.
LEMMA PlannedDoes ==
    ASSUME NEW names \in Seq(AllSteps), NEW runs
    PROVE  LET S == Planned(names, runs) IN
           /\ S \in Seq(PlannedStep) /\ DOMAIN S = DOMAIN names
           /\ \A i \in DOMAIN names : /\ S[i].step = names[i]
                                      /\ S[i].status = IF names[i] \in runs THEN "pending" ELSE "skipped"
<1> DEFINE S == Planned(names, runs)
<1>1. /\ S = [i \in DOMAIN names |-> S[i]]
      /\ \A i \in DOMAIN names : /\ S[i].step = names[i] /\ S[i] \in PlannedStep
                                 /\ S[i].status = IF names[i] \in runs THEN "pending" ELSE "skipped"
  BY DEF Planned, PlannedStep
<1>2. DOMAIN names = 1 .. Len(names) /\ Len(names) \in Nat
  OBVIOUS
<1> HIDE DEF S, PlannedStep
<1>3. S \in [1 .. Len(names) -> PlannedStep]
  BY <1>1, <1>2
<1>4. S \in Seq(PlannedStep) /\ DOMAIN S = DOMAIN names
  BY <1>2, <1>3
<1> QED
  BY <1>1, <1>4 DEF S

LEMMA MoveNames ==
    /\ MoveSteps \in Seq(AllSteps) /\ DOMAIN MoveSteps = 1 .. 8
    /\ MoveSteps[1] = "check" /\ MoveSteps[2] = "source_backup"
    /\ MoveSteps[3] = "record_env" /\ MoveSteps[4] = "safety_backup"
    /\ \A i \in 1 .. 8 : i > 4 => MoveSteps[i] \in {"env", "migrate", "restore", "final_check"}
<1>1. MoveSteps = <<"check", "source_backup", "record_env", "safety_backup", "env", "migrate", "restore", "final_check">>
  BY DEF MoveSteps
<1>2. /\ MoveSteps[1] = "check" /\ MoveSteps[2] = "source_backup"
      /\ MoveSteps[3] = "record_env" /\ MoveSteps[4] = "safety_backup"
      /\ MoveSteps[5] = "env" /\ MoveSteps[6] = "migrate"
      /\ MoveSteps[7] = "restore" /\ MoveSteps[8] = "final_check"
  BY <1>1
<1>3. MoveSteps \in Seq(AllSteps) /\ DOMAIN MoveSteps = 1 .. 8
  BY <1>1 DEF AllSteps, Kinds
<1>4. \A i \in 1 .. 8 : i > 4 => i \in {5, 6, 7, 8}
  OBVIOUS
<1> HIDE DEF MoveSteps
<1> QED
  BY <1>2, <1>3, <1>4

DeployNames == <<"check", "safety_backup", "record_env">> \o DeploySteps \o <<"final_check">>
LEMMA DeployNamed ==
    ASSUME DeploySteps \in Seq(Kinds)
    PROVE  /\ DeployNames \in Seq(AllSteps) /\ DOMAIN DeployNames = 1 .. 4 + Len(DeploySteps) /\ Len(DeploySteps) \in Nat
           /\ DeployNames[1] = "check" /\ DeployNames[2] = "safety_backup" /\ DeployNames[3] = "record_env"
           /\ \A i \in DOMAIN DeployNames : i > 3 => DeployNames[i] \in Kinds \cup {"final_check"}
<1> DEFINE first == <<"check", "safety_backup", "record_env">>
           last == <<"final_check">>
           N == DeployNames
<1>1. DeploySteps \in Seq(AllSteps) /\ Len(DeploySteps) \in Nat
  <2>1. \A i \in 1 .. Len(DeploySteps) : DeploySteps[i] \in Kinds
    OBVIOUS
  <2>2. Kinds \subseteq AllSteps
    BY DEF AllSteps
  <2>3. DeploySteps \in [1 .. Len(DeploySteps) -> AllSteps] /\ Len(DeploySteps) \in Nat
    BY <2>1, <2>2
  <2> QED
    BY <2>3
<1>2. /\ first \in Seq(AllSteps) /\ Len(first) = 3 /\ first[1] = "check" /\ first[2] = "safety_backup"
      /\ first[3] = "record_env" /\ last \in Seq(AllSteps) /\ Len(last) = 1 /\ last[1] = "final_check"
  BY DEF AllSteps
<1>3. \A i \in 1 .. Len(DeploySteps) : DeploySteps[i] \in Kinds
  OBVIOUS
<1>4. /\ N \in Seq(AllSteps) /\ Len(N) = 4 + Len(DeploySteps)
      /\ N[1] = "check" /\ N[2] = "safety_backup" /\ N[3] = "record_env"
      /\ \A i \in 1 .. Len(DeploySteps) : N[3 + i] = DeploySteps[i]
      /\ N[4 + Len(DeploySteps)] = "final_check"
  <2>1. N = (first \o DeploySteps) \o last
    BY DEF DeployNames
  <2> HIDE DEF first, last, N
  <2> DEFINE body == first \o DeploySteps
  <2>2. /\ body \in Seq(AllSteps) /\ Len(body) = 3 + Len(DeploySteps)
        /\ \A i \in 1 .. 3 + Len(DeploySteps) : body[i] = IF i <= 3 THEN first[i] ELSE DeploySteps[i - 3]
    <3>1. /\ body \in Seq(AllSteps) /\ Len(body) = Len(first) + Len(DeploySteps)
          /\ \A i \in 1 .. Len(first) + Len(DeploySteps) :
                body[i] = IF i <= Len(first) THEN first[i] ELSE DeploySteps[i - Len(first)]
      BY <1>1, <1>2, ConcatProperties
    <3> HIDE DEF body
    <3> QED
      BY <1>2, <3>1
  <2> HIDE DEF body
  <2>3. \A i \in 1 .. 3 : body[i] = first[i]
    BY <1>1, <2>2
  <2>4. \A i \in 1 .. Len(DeploySteps) : body[3 + i] = DeploySteps[i]
    <3> TAKE i \in 1 .. Len(DeploySteps)
    <3>1. 3 + i \in 1 .. 3 + Len(DeploySteps) /\ ~ (3 + i <= 3) /\ (3 + i) - 3 = i
      BY <1>1
    <3> QED
      BY <2>2, <3>1
  <2>5. N = body \o last
    BY <2>1 DEF body
  <2>6. /\ N \in Seq(AllSteps) /\ Len(N) = 4 + Len(DeploySteps)
        /\ \A i \in 1 .. 4 + Len(DeploySteps) :
              N[i] = IF i <= 3 + Len(DeploySteps) THEN body[i] ELSE last[i - (3 + Len(DeploySteps))]
    <3>1. /\ N \in Seq(AllSteps) /\ Len(N) = Len(body) + Len(last)
          /\ \A i \in 1 .. Len(body) + Len(last) : N[i] = IF i <= Len(body) THEN body[i] ELSE last[i - Len(body)]
      BY <1>2, <2>2, <2>5, ConcatProperties
    <3>2. Len(body) + Len(last) = 4 + Len(DeploySteps)
      BY <1>1, <1>2, <2>2
    <3> QED
      BY <2>2, <3>1, <3>2
  <2>7. \A i \in 1 .. Len(body) : N[i] = body[i]
    BY <1>1, <2>2, <2>6
  <2>8. N[Len(body) + 1] = last[1]
    <3>1. 4 + Len(DeploySteps) \in 1 .. 4 + Len(DeploySteps) /\ ~ (4 + Len(DeploySteps) <= 3 + Len(DeploySteps))
          /\ 4 + Len(DeploySteps) - (3 + Len(DeploySteps)) = 1 /\ Len(body) + 1 = 4 + Len(DeploySteps)
      BY <1>1, <2>2
    <3> QED
      BY <2>6, <3>1
  <2>9. N[4 + Len(DeploySteps)] = "final_check"
    BY <1>1, <1>2, <2>2, <2>8
  <2>10. \A i \in 1 .. Len(DeploySteps) : N[3 + i] = DeploySteps[i]
    BY <1>1, <2>2, <2>4, <2>7
  <2>11. N[1] = first[1] /\ N[2] = first[2] /\ N[3] = first[3]
    BY <1>1, <2>2, <2>3, <2>7
  <2> QED
    BY <1>2, <2>6, <2>9, <2>10, <2>11
<1> HIDE DEF N
<1>5. DOMAIN N = 1 .. 4 + Len(DeploySteps)
  BY <1>1, <1>4
<1>6. ASSUME NEW i \in DOMAIN N, i > 3 PROVE N[i] \in Kinds \cup {"final_check"}
  <2>1. CASE i = 4 + Len(DeploySteps)
    BY <1>4, <2>1
  <2>2. CASE i # 4 + Len(DeploySteps)
    <3>1. i - 3 \in 1 .. Len(DeploySteps) /\ i = 3 + (i - 3)
      BY <1>1, <1>5, <1>6, <2>2
    <3>2. N[i] = DeploySteps[i - 3]
      BY <1>4, <3>1
    <3> QED
      BY <1>3, <3>1, <3>2
  <2> QED
    BY <2>1, <2>2
<1> QED
  BY <1>1, <1>4, <1>5, <1>6 DEF N

\* A job is queued: planned well, and with its target's lock.
Queues(j) ==
    /\ jobs' \in [Jobs -> Job] /\ \A k \in Jobs \ {j} : jobs'[k] = jobs[k]
    /\ jobs[j].status = "-" /\ jobs'[j].status = "queued" /\ jobs'[j].safety = 0
    /\ jobs'[j].tgt \in Apps /\ jobs'[j].src # jobs'[j].tgt
    /\ lock[jobs'[j].tgt] = None /\ lock' = [lock EXCEPT ![jobs'[j].tgt] = j]
    /\ UNCHANGED <<app, files, faults, crashes, upkeep>>
    /\ \A i \in DOMAIN jobs'[j].steps : jobs'[j].steps[i].status \in {"pending", "skipped"}
LEMMA QueueDoes ==
    ASSUME jobs \in [Jobs -> Job], NEW j \in Jobs, NEW q \in Job, Queue(j, q),
           q.status = "queued", q.safety = 0, q.tgt \in Apps, q.src # q.tgt,
           \A i \in DOMAIN q.steps : q.steps[i].status \in {"pending", "skipped"}
    PROVE  Queues(j) /\ jobs'[j] = q
<1>1. jobs' = [jobs EXCEPT ![j] = q]
  BY DEF Queue
<1>2. jobs' \in [Jobs -> Job] /\ jobs'[j] = q /\ \A k \in Jobs \ {j} : jobs'[k] = jobs[k]
  BY <1>1, OneProceeds
<1>3. /\ jobs[j].status = "-" /\ lock[q.tgt] = None /\ lock' = [lock EXCEPT ![q.tgt] = j]
      /\ UNCHANGED <<app, files, faults, crashes, upkeep>>
  BY DEF Queue, IsNext
<1> HIDE DEF Job
<1> QED
  BY <1>2, <1>3 DEF Queues

PlannedWell(j) == /\ InOrder(j) /\ SourceNamed(j)
                  /\ Forward(j) =>
                        Prepares(j) /\ NothingTaken(j) /\ EnvNamed(j)
RevertsWell(j) == Reverting(j) => RevertsOf(j) /\ PutBack(j)

LEMMA StartDoes ==
    ASSUME ConstantsFit, TypeOK, NEW j \in Jobs, NEW r \in Routes, NEW rehearsal \in BOOLEAN,
           NEW flush \in BOOLEAN, NEW b \in Choosable(r[1]), NEW env \in {None, r[1]},
           Start(j, r[1], r[2], b, env, flush, rehearsal)
    PROVE  Queues(j) /\ PlannedWell(j)' /\ RevertsWell(j)'
<1> DEFINE s == r[1]
           t == r[2]
           runs == {x \in IF rehearsal THEN MoveRehearsal
                          ELSE {MoveSteps[i] : i \in DOMAIN MoveSteps} : x # "env" \/ env # None}
           S == Planned(MoveSteps, runs)
           q == [Free EXCEPT !.action = "run", !.src = s, !.tgt = t, !.backup = b, !.env = env,
                   !.flush = flush, !.rehearsal = rehearsal, !.status = "queued", !.steps = S]
<1>0. /\ s \in Apps /\ t \in Apps /\ s # t /\ b \in Files \cup {0} /\ env \in Apps \cup {None}
      /\ env # None => t \in EnvApps
      /\ jobs \in [Jobs -> Job]
  BY ChoosableFiles DEF Start, ConstantsFit, TypeOK
<1>1. Queue(j, q)
  BY DEF Start
<1> DEFINE N == MoveSteps
<1>2. /\ S \in Seq(PlannedStep) /\ DOMAIN S = 1 .. 8
      /\ \A i \in 1 .. 8 : /\ S[i].step = N[i]
                           /\ S[i].status = IF N[i] \in runs THEN "pending" ELSE "skipped"
  <2> HIDE DEF runs
  <2> QED
    BY MoveNames, PlannedDoes
<1>3. ~ rehearsal => "record_env" \in runs /\ "safety_backup" \in runs
  BY MoveNames
<1>4. "env" \in runs => env # None
  OBVIOUS
<1> HIDE DEF S, runs, s, t
<1>5. q \in Job
  BY <1>0, <1>2 DEF Job, Free
<1>6. /\ q.status = "queued" /\ q.safety = 0 /\ q.tgt = t /\ q.src = s /\ q.steps = S /\ q.action = "run"
      /\ q.rehearsal = rehearsal
  BY DEF Free
<1> HIDE DEF q
<1>7. Queues(j) /\ jobs'[j] = q
  <2>1. \A i \in DOMAIN q.steps : q.steps[i].status \in {"pending", "skipped"}
    BY <1>2, <1>6
  <2>2. q.tgt \in Apps /\ q.src # q.tgt
    BY <1>0, <1>6 DEF s, t
  <2> QED
    BY <1>0, <1>1, <1>5, <1>6, <2>1, <2>2, QueueDoes
<1>8. InOrder(j)'
  BY <1>2, <1>6, <1>7 DEF InOrder
<1>9. /\ N[1] = "check" /\ N[2] = "source_backup" /\ N[3] = "record_env" /\ N[4] = "safety_backup"
      /\ \A i \in 1 .. 8 : i > 4 => N[i] \in {"env", "migrate", "restore", "final_check"}
  BY MoveNames
<1>10. \A i \in 1 .. 8 : i <= 4 => i \in {1, 2, 3, 4}
  OBVIOUS
<1> HIDE DEF N
<1>11. \A i \in 1 .. 8 : /\ i <= 4 => N[i] \in Preparing
                         /\ i > 4 => N[i] \notin Preparing /\ N[i] \in Changing("run")
  BY <1>9, <1>10 DEF Preparing, Changing
<1>12. Prepares(j)'
  <2>0. /\ DOMAIN jobs'[j].steps = 1 .. 8 /\ \A i \in 1 .. 8 : jobs'[j].steps[i].step = N[i]
        /\ 3 \in 1 .. 8 /\ 4 \in 1 .. 8 /\ 1 .. 8 \subseteq Nat /\ jobs'[j].action = "run"
    BY <1>2, <1>6, <1>7
  <2>1. {"record_env", "safety_backup"} \subseteq StepNames(j)'
    BY <2>0, <1>9 DEF StepNames
  <2>2. StepNames(j)' \subseteq Preparing \cup Changing("run")
    <3>1. \A i \in 1 .. 8 : N[i] \in Preparing \cup Changing("run")
      BY <1>11
    <3> QED
      BY <2>0, <3>1 DEF StepNames
  <2>3. \A i, k \in 1 .. 8 : N[i] \in Preparing /\ N[k] \notin Preparing => i < k
    BY <1>11
  <2> QED
    BY <2>0, <2>1, <2>2, <2>3 DEF Prepares
<1>13. NothingTaken(j)'
  BY <1>2, <1>3, <1>6, <1>7 DEF NothingTaken, Ahead
<1>14. EnvNamed(j)'
  BY <1>0, <1>2, <1>4, <1>6, <1>7 DEF EnvNamed, Ahead
<1>15. ~ Reverting(j)'
  BY <1>6, <1>7 DEF Reverting
<1>16. SourceNamed(j)'
  BY <1>0, <1>6, <1>7 DEF SourceNamed, s
<1> QED
  BY <1>7, <1>8, <1>12, <1>13, <1>14, <1>15, <1>16 DEF PlannedWell, RevertsWell

LEMMA DeployDoes ==
    ASSUME ConstantsFit, TypeOK, NEW j \in Jobs, NEW t \in Apps, NEW rehearsal \in BOOLEAN,
           Deploy(j, t, rehearsal)
    PROVE  Queues(j) /\ PlannedWell(j)' /\ RevertsWell(j)'
<1> DEFINE N == DeployNames
           runs == {N[i] : i \in DOMAIN N} \ (IF rehearsal THEN {"record_env", "final_check"} ELSE {})
           S == Planned(N, runs)
           q == [Free EXCEPT !.action = "deploy", !.tgt = t, !.rehearsal = rehearsal,
                   !.status = "queued", !.steps = S]
<1>0. /\ None \notin Apps /\ DeploySteps \in Seq(Kinds) /\ jobs \in [Jobs -> Job]
  BY DEF ConstantsFit, TypeOK
<1>1. S = DeployPlanned(rehearsal)
  BY DEF DeployPlanned, DeployNames
<1>2. Queue(j, q)
  BY <1>1 DEF Deploy
<1>3. /\ N \in Seq(AllSteps) /\ N[1] = "check" /\ N[2] = "safety_backup" /\ N[3] = "record_env"
      /\ \A i \in DOMAIN N : i > 3 => N[i] \in Kinds \cup {"final_check"}
      /\ DOMAIN N = 1 .. 4 + Len(DeploySteps) /\ Len(DeploySteps) \in Nat
  BY <1>0, DeployNamed
<1>4. {1, 2, 3} \subseteq DOMAIN N /\ DOMAIN N \subseteq Nat /\ \A i \in DOMAIN N : i <= 3 => i \in {1, 2, 3}
  BY <1>3
<1> HIDE DEF N
<1>5. /\ S \in Seq(PlannedStep) /\ DOMAIN S = DOMAIN N
      /\ \A i \in DOMAIN N : /\ S[i].step = N[i]
                             /\ S[i].status = IF N[i] \in runs THEN "pending" ELSE "skipped"
  <2> HIDE DEF runs
  <2> QED
    BY <1>3, PlannedDoes
<1>6. ~ rehearsal => "record_env" \in runs /\ "safety_backup" \in runs
  BY <1>3, <1>4
<1> HIDE DEF S, runs
<1>7. q \in Job
  BY <1>5 DEF Job, Free
<1>8. /\ q.status = "queued" /\ q.safety = 0 /\ q.tgt = t /\ q.src = None /\ q.steps = S /\ q.action = "deploy"
      /\ q.rehearsal = rehearsal
  BY DEF Free
<1> HIDE DEF q
<1>9. Queues(j) /\ jobs'[j] = q
  <2>1. \A i \in DOMAIN q.steps : q.steps[i].status \in {"pending", "skipped"}
    BY <1>5, <1>8
  <2>2. q.tgt \in Apps /\ q.src # q.tgt
    BY <1>0, <1>8
  <2> QED
    BY <1>0, <1>2, <1>7, <1>8, <2>1, <2>2, QueueDoes
<1>10. InOrder(j)'
  BY <1>5, <1>8, <1>9 DEF InOrder
<1>11. \A i \in DOMAIN N : /\ i <= 3 => N[i] \in Preparing
                           /\ i > 3 => N[i] \notin Preparing /\ N[i] \in Changing("deploy")
                           /\ N[i] # "env"
  BY <1>3, <1>4 DEF Preparing, Changing, Kinds
<1>12. Prepares(j)'
  <2>1. {"record_env", "safety_backup"} \subseteq StepNames(j)'
    BY <1>3, <1>4, <1>5, <1>8, <1>9 DEF StepNames
  <2>2. StepNames(j)' \subseteq Preparing \cup Changing("deploy")
    BY <1>4, <1>5, <1>8, <1>9, <1>11 DEF StepNames
  <2>3. \A i, k \in DOMAIN N : N[i] \in Preparing /\ N[k] \notin Preparing => i < k
    BY <1>4, <1>11
  <2> QED
    BY <1>5, <1>8, <1>9, <2>1, <2>2, <2>3 DEF Prepares
<1>13. NothingTaken(j)'
  BY <1>5, <1>6, <1>8, <1>9 DEF NothingTaken, Ahead
<1>14. EnvNamed(j)'
  BY <1>5, <1>8, <1>9, <1>11 DEF EnvNamed, Ahead
<1>15. ~ Reverting(j)'
  BY <1>8, <1>9 DEF Reverting
<1>16. SourceNamed(j)'
  <2>1. \A i \in DOMAIN N : N[i] # "source_backup"
    BY <1>3, <1>4 DEF Kinds
  <2> QED
    BY <1>5, <1>8, <1>9, <2>1 DEF SourceNamed, StepNames
<1> QED
  BY <1>9, <1>10, <1>12, <1>13, <1>14, <1>15, <1>16 DEF PlannedWell, RevertsWell

RevertNames(m) == IF jobs[m].action = "run" THEN <<"check", "env", "restore">> ELSE <<"check", "restore">>
LEMMA RevertNamed ==
    ASSUME NEW m
    PROVE  /\ RevertNames(m) \in Seq(AllSteps)
           /\ \A i \in DOMAIN RevertNames(m) : RevertNames(m)[i] \in {"check", "env", "restore"}
           /\ \E i \in DOMAIN RevertNames(m) : RevertNames(m)[i] = "restore"
           /\ jobs[m].action = "run" => \E i \in DOMAIN RevertNames(m) : RevertNames(m)[i] = "env"
<1> DEFINE three == <<"check", "env", "restore">>
           two == <<"check", "restore">>
<1>1. /\ three \in Seq(AllSteps) /\ \A i \in DOMAIN three : three[i] \in {"check", "env", "restore"}
      /\ 3 \in DOMAIN three /\ three[3] = "restore" /\ 2 \in DOMAIN three /\ three[2] = "env"
  BY DEF AllSteps
<1>2. /\ two \in Seq(AllSteps) /\ \A i \in DOMAIN two : two[i] \in {"check", "env", "restore"}
      /\ 2 \in DOMAIN two /\ two[2] = "restore"
  BY DEF AllSteps
<1>3. CASE jobs[m].action = "run"
  <2>1. RevertNames(m) = three
    BY <1>3 DEF RevertNames
  <2> HIDE DEF three, two, RevertNames
  <2> QED
    BY <1>1, <1>3, <2>1
<1>4. CASE jobs[m].action # "run"
  <2>1. RevertNames(m) = two
    BY <1>4 DEF RevertNames
  <2> HIDE DEF three, two, RevertNames
  <2> QED
    BY <1>2, <1>4, <2>1
<1> QED
  BY <1>3, <1>4

LEMMA RevertDoes ==
    ASSUME ConstantsFit, TypeOK, LocksInv, NEW j \in Jobs, NEW m \in Jobs,
           NEW rehearsal \in BOOLEAN, Revert(j, m, rehearsal)
    PROVE  Queues(j) /\ PlannedWell(j)' /\ RevertsWell(j)'
<1> DEFINE N == RevertNames(m)
           runs == RevertRuns(m, rehearsal)
           S == Planned(N, runs)
           env == IF jobs[m].action = "run" THEN jobs[m].recorded ELSE None
           q == [Free EXCEPT !.action = "revert", !.tgt = jobs[m].tgt, !.of = m,
                   !.rehearsal = rehearsal, !.flush = TRUE, !.backup = jobs[m].safety, !.env = env,
                   !.status = "queued", !.steps = S]
<1>0. /\ None \notin Apps /\ jobs \in [Jobs -> Job] /\ jobs[m] \in Job
      /\ jobs[m].status = "failed" /\ jobs[m].action \in {"run", "deploy"}
  BY DEF ConstantsFit, TypeOK, Revert, MayBeReverted
<1>1. Queue(j, q)
  <2>1. S = Planned(IF jobs[m].action = "run" THEN <<"check", "env", "restore">>
                              ELSE <<"check", "restore">>, RevertRuns(m, rehearsal))
    BY DEF RevertNames
  <2> HIDE DEF S
  <2> QED
    BY <2>1 DEF Revert
<1>2. jobs[j].status = "-"
  BY <1>1 DEF Queue, IsNext
<1>3. jobs[m].tgt \in Apps /\ jobs[m].safety \in Files \cup {0} /\ env \in Apps \cup {None}
  BY <1>0 DEF LocksInv, Job
<1>4. /\ N \in Seq(AllSteps) /\ \A i \in DOMAIN N : N[i] \in {"check", "env", "restore"}
      /\ \E i \in DOMAIN N : N[i] = "restore"
      /\ jobs[m].action = "run" => \E i \in DOMAIN N : N[i] = "env"
  BY RevertNamed
<1> HIDE DEF N
<1>5. /\ S \in Seq(PlannedStep) /\ DOMAIN S = DOMAIN N
      /\ \A i \in DOMAIN N : /\ S[i].step = N[i]
                             /\ S[i].status = IF N[i] \in runs THEN "pending" ELSE "skipped"
  <2> HIDE DEF runs
  <2> QED
    BY <1>4, PlannedDoes
<1>6. /\ jobs[m].safety # 0 => "restore" \in runs
      /\ ~ rehearsal /\ jobs[m].action = "run" /\ jobs[m].recorded # None => "env" \in runs
  BY DEF RevertRuns
<1>7. env = IF jobs[m].action = "run" THEN jobs[m].recorded ELSE None
  OBVIOUS
<1> HIDE DEF S, runs, env
<1>8. q \in Job
  <2> DEFINE t == jobs[m].tgt
             f == jobs[m].safety
  <2>1. t \in Apps /\ f \in Files \cup {0} /\ env \in Apps \cup {None} /\ S \in Seq(PlannedStep)
    BY <1>3, <1>5
  <2>2. ASSUME NEW tgt \in Apps, NEW file \in Files \cup {0}
        PROVE  [Free EXCEPT !.action = "revert", !.tgt = tgt, !.of = m, !.rehearsal = rehearsal,
                  !.flush = TRUE, !.backup = file, !.env = env, !.status = "queued", !.steps = S] \in Job
    BY <2>1 DEF Job, Free
  <2> QED
    BY <2>1, <2>2
<1>9. /\ q.status = "queued" /\ q.safety = 0 /\ q.tgt = jobs[m].tgt /\ q.src = None /\ q.steps = S
      /\ q.action = "revert" /\ q.rehearsal = rehearsal /\ q.of = m /\ q.flush = TRUE
      /\ q.backup = jobs[m].safety /\ q.env = env /\ q.used = 0
  BY DEF Free
<1> HIDE DEF q
<1>10. Queues(j) /\ jobs'[j] = q
  <2>1. \A i \in DOMAIN q.steps : q.steps[i].status \in {"pending", "skipped"}
    BY <1>5, <1>9
  <2>2. q.tgt \in Apps /\ q.src # q.tgt
    BY <1>0, <1>3, <1>9
  <2> QED
    BY <1>0, <1>1, <1>8, <1>9, <2>1, <2>2, QueueDoes
<1>11. jobs'[m] = jobs[m]
  BY <1>0, <1>2, <1>10 DEF Queues
<1>12. PlannedWell(j)'
  <2>1. SourceNamed(j)'
    BY <1>4, <1>5, <1>9, <1>10 DEF SourceNamed, StepNames
  <2> QED
    BY <1>5, <1>9, <1>10, <2>1 DEF PlannedWell, InOrder, Forward
<1>13. /\ DOMAIN jobs'[j].steps = DOMAIN N /\ \A i \in DOMAIN N : jobs'[j].steps[i].step = N[i]
       /\ \A i \in DOMAIN N : jobs'[j].steps[i].status = IF N[i] \in runs THEN "pending" ELSE "skipped"
  BY <1>5, <1>9, <1>10
<1>14. RevertsOf(j)'
  <2>1. {"restore"} \subseteq StepNames(j)' /\ StepNames(j)' \subseteq {"check", "env", "restore"}
        /\ (jobs[m].action = "run" => "env" \in StepNames(j)')
    BY <1>4, <1>13 DEF StepNames
  <2> QED
    BY <1>0, <1>7, <1>9, <1>10, <1>11, <2>1 DEF RevertsOf
<1>15. Reverting(j)' => PutBack(j)'
  BY <1>6, <1>9, <1>10, <1>11, <1>13 DEF PutBack, Reverting, Ahead
<1> QED
  BY <1>10, <1>12, <1>14, <1>15 DEF RevertsWell

\* The one step of a job that is under way.
LEMMA OneStepRuns ==
    ASSUME TypeOK, NEW j \in Jobs, InOrder(j), At(j) # {}
    PROVE  \E i \in DOMAIN jobs[j].steps :
              /\ At(j) = {i} /\ jobs[j].steps[i].status = "running"
              /\ Step(j) = jobs[j].steps[i].step
<1>1. DOMAIN jobs[j].steps \subseteq Nat
  BY StepsAreNumbered DEF TypeOK
<1>2. PICK i \in At(j) : TRUE
  OBVIOUS
<1>3. i \in DOMAIN jobs[j].steps /\ jobs[j].steps[i].status = "running"
  BY <1>2 DEF At
<1>4. ASSUME NEW k \in At(j) PROVE k = i
  <2>1. k \in DOMAIN jobs[j].steps /\ jobs[j].steps[k].status = "running"
    BY DEF At
  <2>2. ~ (k < i) /\ ~ (i < k)
    BY <1>3, <2>1 DEF InOrder, Ahead
  <2> QED
    BY <1>1, <1>3, <2>1, <2>2
<1>5. At(j) = {i}
  BY <1>2, <1>4
<1>6. Step(j) = jobs[j].steps[i].step
  BY <1>5 DEF Step
<1> QED
  BY <1>3, <1>5, <1>6

\* A new backup file, and what is kept of the others.
FilesStay == /\ files' \in [Files -> FileRow \cup {None}]
             /\ \A f \in Files : files[f] # None => files'[f] # None /\ files'[f].data = files[f].data
LEMMA NewFileIsFree ==
    ASSUME ConstantsFit, Room
    PROVE  NewFile \in Files /\ files[NewFile] = None
<1> DEFINE T == {f \in Files : files[f] = None}
<1>1. Files \subseteq Nat
  BY FilesAreNumbered
<1>2. T \in SUBSET Nat /\ T # {}
  BY <1>1 DEF Room
<1> HIDE DEF T
<1>3. PICK f \in T : \A g \in T : f <= g
  BY <1>2, NatMin
<1>4. f \in Files /\ files[f] = None /\ \A g \in Files : g < f => files[g] # None
  BY <1>1, <1>3 DEF T
<1> QED
  BY <1>4 DEF NewFile
LEMMA BackupDoes ==
    ASSUME ConstantsFit, TypeOK, Room, NEW a \in Apps, BackedUp(a)
    PROVE  /\ FilesStay /\ NewFile \in Files
           /\ files'[NewFile] # None /\ files'[NewFile].data = app[a].data
<1> DEFINE n == NewFile
           made == [app |-> a, data |-> app[a].data, ok |-> TRUE, there |-> TRUE]
<1>1. n \in Files /\ files[n] = None
  BY NewFileIsFree
<1>2. made \in FileRow /\ made.data = app[a].data
  <2>1. app[a] \in AppState
    BY DEF TypeOK
  <2>2. app[a].data \in Content
    BY <2>1 DEF AppState
  <2> QED
    BY <2>2 DEF FileRow
<1>3. files' = [files EXCEPT ![n] = made] /\ files \in [Files -> FileRow \cup {None}]
  BY DEF BackedUp, TypeOK
<1>4. None \notin FileRow
  BY DEF ConstantsFit
<1> QED
  BY <1>1, <1>2, <1>3, <1>4 DEF FilesStay

\* What the steps that change it make of an application: the .env only where it is pushed,
\* the data as they are restored; nothing before the job is prepared.
LEMMA AfterDoes ==
    ASSUME TypeOK, NEW j \in Jobs, jobs[j].tgt \in Apps, CanWork(j)
    PROVE  LET was == app[jobs[j].tgt]
               after == After(j)
               f == RestoredFile(j)
           IN  /\ after \in AppState
               /\ Step(j) = "env" => after.env = jobs[j].env /\ after.data = was.data
               /\ Step(j) # "env" => after.env = was.env
               /\ Step(j) = "restore" =>
                     f \in Files /\ files[f] # None /\ (jobs[j].flush => after.data = files[f].data)
               /\ Step(j) \in Preparing => after = was
<1> DEFINE was == app[jobs[j].tgt]
           after == After(j)
           f == RestoredFile(j)
           doing == Step(j)
<1>1. was \in AppState
  BY DEF TypeOK
<1>2. jobs[j].env \in Apps \cup {None} /\ jobs[j].used \in Files \cup {0} /\ jobs[j].backup \in Files \cup {0}
  BY DEF TypeOK, Job
<1>3. CASE doing = "env"
  <2>1. after = [was EXCEPT !.env = jobs[j].env]
    BY <1>3 DEF After
  <2>2. after \in AppState /\ after.env = jobs[j].env /\ after.data = was.data
    <3> HIDE DEF was, after
    <3> QED
      BY <1>1, <1>2, <2>1 DEF AppState
  <2> QED
    BY <1>3, <2>2 DEF Preparing
<1>4. CASE doing = "migrate"
  <2>1. after = [was EXCEPT !.schema = "current",
                          !.data = IF was.code = "new" THEN was.data \cup {"migrated"} ELSE was.data]
    BY <1>4 DEF After
  <2>2. after \in AppState /\ after.env = was.env
    <3> HIDE DEF was, after
    <3>1. was.data \in Content
      BY <1>1 DEF AppState
    <3>2. (IF was.code = "new" THEN was.data \cup {"migrated"} ELSE was.data) \in Content
      BY <3>1 DEF Content
    <3> HIDE DEF Content
    <3> QED
      BY <1>1, <2>1, <3>2 DEF AppState
  <2> QED
    BY <1>4, <2>2 DEF Preparing
<1>5. CASE doing = "restore"
  <2>1. after = [was EXCEPT !.data = Restored(j, was.data)]
    BY <1>5 DEF After
  <2>2. f \in Files /\ files[f] # None
    BY <1>2, <1>5 DEF CanWork, RestoredFile
  <2>3. files[f].data \in Content /\ was.data \in Content
    <3>1. files[f] \in FileRow
      <4> HIDE DEF f, FileRow
      <4> QED
        BY <2>2 DEF TypeOK
    <3> QED
      BY <1>1, <3>1 DEF AppState, FileRow
  <2>4. /\ Restored(j, was.data) \in Content
        /\ jobs[j].flush => Restored(j, was.data) = files[f].data
    BY <2>3 DEF Restored, Content
  <2>5. after \in AppState /\ after.env = was.env /\ after.data = Restored(j, was.data)
    <3> HIDE DEF was, after, Content
    <3> QED
      BY <1>1, <2>1, <2>4 DEF AppState
  <2> QED
    BY <1>5, <2>2, <2>4, <2>5 DEF Preparing
<1>6. CASE doing = "git_pull"
  <2>1. after = [was EXCEPT !.code = "new", !.schema = "behind"]
    BY <1>6 DEF After
  <2>2. after \in AppState /\ after.env = was.env
    <3> HIDE DEF was, after
    <3> QED
      BY <1>1, <2>1 DEF AppState
  <2> QED
    BY <1>6, <2>2 DEF Preparing
<1>7. CASE doing \notin {"env", "migrate", "restore", "git_pull"}
  <2>1. after = was
    BY <1>7 DEF After
  <2> QED
    BY <1>1, <1>7, <2>1
<1> QED
  BY <1>3, <1>4, <1>5, <1>6, <1>7

\* The kinds of steps a job takes. Its locks are its own or free before and after; a target is
\* touched only by a job that runs for real and holds its lock.
LockMoves(j) ==
    /\ lock' \in [Apps -> Jobs \cup {None}]
    /\ \A a \in Apps : lock'[a] = lock[a] \/ (lock[a] \in {None, j} /\ lock'[a] \in {None, j})
    /\ faults' \in Nat /\ crashes' \in Nat
TargetHeld(j) == lock'[jobs[j].tgt] = lock[jobs[j].tgt]
Begun(j) ==
    /\ jobs[j].status = "queued" /\ Proceeds(j) /\ jobs'[j].status = "running"
    /\ jobs'[j].before = app[jobs[j].tgt] /\ jobs'[j].steps = jobs[j].steps /\ SameFinds(jobs'[j], jobs[j])
    /\ lock'[jobs[j].tgt] = j /\ UNCHANGED <<app, files>>
Started(j) == jobs[j].status = "running" /\ Starts(j) /\ UNCHANGED <<app, files>> /\ TargetHeld(j)
Found(j) ==
    /\ jobs[j].status = "running" /\ At(j) # {} /\ TargetHeld(j)
    /\ \E status \in {"succeeded", "skipped"} : Settles(j, status)
    /\ app' = app /\ FilesStay
    /\ jobs[j].rehearsal => files' = files
    /\ Step(j) \in {"env", "restore"} => jobs[j].rehearsal
    /\ Step(j) # "source_backup" => jobs'[j].used = jobs[j].used
    /\ Step(j) # "safety_backup" => jobs'[j].safety = jobs[j].safety
    /\ Step(j) # "record_env" => jobs'[j].recorded = jobs[j].recorded
    /\ (Step(j) = "record_env" /\ jobs[j].tgt \in EnvApps) => jobs'[j].recorded = app[jobs[j].tgt].env
    /\ (Step(j) = "safety_backup" /\ jobs'[j].safety # 0) => files'[jobs'[j].safety] # None
    /\ (Step(j) = "safety_backup" /\ ~ jobs[j].rehearsal
        /\ (jobs[j].action = "deploy" \/ HoldsData(jobs[j].tgt))) =>
          /\ jobs'[j].safety \in Files /\ files'[jobs'[j].safety] # None
          /\ files'[jobs'[j].safety].data = app[jobs[j].tgt].data
Changed(j) ==
    /\ jobs[j].status = "running" /\ At(j) # {} /\ TargetHeld(j)
    /\ ~ jobs[j].rehearsal /\ Step(j) \in {"env", "restore"} \cup Kinds /\ CanWork(j)
    /\ app' = [app EXCEPT ![jobs[j].tgt] = After(j)] /\ files' = files
    /\ Settles(j, "succeeded") /\ SameFinds(jobs'[j], jobs[j])
Failed(j) ==
    /\ jobs[j].status = "running" /\ At(j) # {} /\ Ends(j)
    /\ jobs'[j].status = "failed" /\ jobs'[j].revertable = MayRevert(j) /\ files' = files
    /\ \/ app' = app
       \/ /\ ~ jobs[j].rehearsal /\ CanWork(j) /\ After(j) # app[jobs[j].tgt]
          /\ app' = [app EXCEPT ![jobs[j].tgt] = After(j)]
Over(j) ==
    /\ jobs[j].status \in {"queued", "running"} /\ Ends(j) /\ UNCHANGED <<app, files>>
    /\ jobs'[j].status = "succeeded" =>
          jobs[j].status = "running" /\ At(j) = {} /\ Pending(j) = {}
    /\ jobs'[j].status = "failed" => jobs[j].status = "queued" \/ crashes' = crashes + 1
Waits(j) ==
    /\ jobs[j].status \in {"queued", "running"} /\ UNCHANGED <<app, files, jobs>>
    /\ jobs[j].status = "running" => TargetHeld(j)
JobMoves(j) ==
    /\ LockMoves(j)
    /\ Begun(j) \/ Started(j) \/ Found(j) \/ Changed(j) \/ Failed(j) \/ Over(j) \/ Waits(j)

Sound == TypeOK /\ LocksInv /\ PlanInv

LEMMA FreedMoves ==
    ASSUME TypeOK, NEW j \in Jobs, Freed(j), faults' \in Nat, crashes' \in Nat
    PROVE  LockMoves(j)
<1>1. lock \in [Apps -> Jobs \cup {None}]
  BY DEF TypeOK
<1>2. lock' = [a \in Apps |-> IF lock[a] = j THEN None ELSE lock[a]]
  BY DEF Freed
<1> QED
  BY <1>1, <1>2 DEF LockMoves
LEMMA SetMoves ==
    ASSUME TypeOK, NEW j \in Jobs, NEW a \in Apps, NEW holder \in {None, j}, lock[a] \in {None, j},
           lock' = [lock EXCEPT ![a] = holder], faults' \in Nat, crashes' \in Nat
    PROVE  LockMoves(j) /\ lock'[a] = holder /\ \A b \in Apps \ {a} : lock'[b] = lock[b]
BY DEF TypeOK, LockMoves
LEMMA SameMoves ==
    ASSUME TypeOK, NEW j \in Jobs, lock' = lock, faults' \in Nat, crashes' \in Nat
    PROVE  LockMoves(j) /\ TargetHeld(j)
BY DEF TypeOK, LockMoves, TargetHeld
LEMMA CountsAreTyped == TypeOK => faults \in Nat /\ crashes \in Nat /\ faults + 1 \in Nat /\ crashes + 1 \in Nat
BY DEF TypeOK
LEMMA JobIsKnown ==
    ASSUME Sound, NEW j \in Jobs, jobs[j].status # "-"
    PROVE  /\ jobs \in [Jobs -> Job] /\ jobs[j] \in Job /\ jobs[j].tgt \in Apps
           /\ jobs[j].src # jobs[j].tgt
           /\ Step(j) = "source_backup" /\ At(j) # {} => jobs[j].src \in Apps
           /\ app[jobs[j].tgt] \in AppState
<1>1. jobs \in [Jobs -> Job]
  BY DEF Sound, TypeOK
<1>2. jobs[j] \in Job /\ jobs[j].tgt \in Apps /\ jobs[j].src # jobs[j].tgt
  <2> HIDE DEF Job
  <2> QED
    BY <1>1 DEF Sound, LocksInv
<1>3. ASSUME Step(j) = "source_backup", At(j) # {} PROVE jobs[j].src \in Apps
  <2>1. InOrder(j) /\ SourceNamed(j)
    BY DEF Sound, PlanInv
  <2>2. PICK i \in DOMAIN jobs[j].steps : Step(j) = jobs[j].steps[i].step
    BY <1>3, <2>1, OneStepRuns DEF Sound
  <2> QED
    BY <1>3, <2>1, <2>2 DEF SourceNamed, StepNames
<1> QED
  BY <1>1, <1>2, <1>3 DEF Sound, TypeOK
LEMMA Fails ==
    ASSUME Sound, NEW j \in Jobs, jobs[j].status = "running", At(j) # {}, StepFails(j),
           app' = app \/ (/\ ~ jobs[j].rehearsal /\ CanWork(j) /\ After(j) # app[jobs[j].tgt]
                          /\ app' = [app EXCEPT ![jobs[j].tgt] = After(j)]),
           files' = files, faults' \in Nat, crashes' \in Nat
    PROVE  JobMoves(j)
<1>1. jobs \in [Jobs -> Job]
  BY JobIsKnown
<1>2. Ends(j) /\ jobs'[j].status = "failed" /\ jobs'[j].revertable = MayRevert(j)
  BY <1>1, FailedDoes
<1>3. LockMoves(j)
  BY FreedMoves DEF StepFails, Sound
<1> QED
  BY <1>2, <1>3 DEF JobMoves, Failed

LEMMA BeginMoves == ASSUME Sound, NEW j \in Jobs, Begin(j) PROVE JobMoves(j)
<1> DEFINE t == jobs[j].tgt
<1>0. jobs[j].status = "queued" /\ UNCHANGED <<app, files, faults, crashes>>
  BY DEF Begin
<1>1. jobs \in [Jobs -> Job] /\ t \in Apps /\ app[t] \in AppState
      /\ faults' \in Nat /\ crashes' \in Nat
  BY <1>0, JobIsKnown, CountsAreTyped DEF Sound
<1>2. ASSUME MayHold(t, j) PROVE JobMoves(j)
  <2>1. lock' = [lock EXCEPT ![t] = j] /\ jobs' = [jobs EXCEPT ![j].status = "running", ![j].before = app[t]]
    BY <1>2 DEF Begin
  <2>2. LockMoves(j) /\ lock'[t] = j
    BY <1>1, <1>2, <2>1, SetMoves DEF MayHold, Sound
  <2> DEFINE was == app[t]
  <2>3. was \in AppState /\ jobs' = [jobs EXCEPT ![j].status = "running", ![j].before = was]
    BY <1>1, <2>1
  <2> HIDE DEF was
  <2>4. /\ Proceeds(j) /\ jobs'[j].status = "running" /\ jobs'[j].before = was
        /\ jobs'[j].steps = jobs[j].steps /\ SameFinds(jobs'[j], jobs[j])
    BY <1>1, <2>3, BeginsDoes
  <2> QED
    BY <1>0, <2>2, <2>4 DEF JobMoves, Begun, was
<1>3. ASSUME ~ MayHold(t, j) PROVE JobMoves(j)
  <2>1. lock' = lock /\ jobs' = [jobs EXCEPT ![j].status = "failed"]
    BY <1>3 DEF Begin
  <2>2. LockMoves(j)
    BY <1>1, <2>1, SameMoves DEF Sound
  <2>3. Ends(j) /\ jobs'[j].status = "failed"
    BY <1>1, <2>1, StatusDoes
  <2> QED
    BY <1>0, <2>2, <2>3 DEF JobMoves, Over
<1> QED
  BY <1>2, <1>3

LEMMA StepStartsMoves == ASSUME Sound, NEW j \in Jobs, StepStarts(j) PROVE JobMoves(j)
<1>1. jobs[j].status = "running" /\ UNCHANGED <<app, files, lock, faults, crashes>>
  BY DEF StepStarts
<1>2. Starts(j)
  BY <1>1, JobIsKnown, StartsDoes
<1>3. LockMoves(j) /\ TargetHeld(j)
  BY <1>1, SameMoves, CountsAreTyped DEF Sound
<1> QED
  BY <1>1, <1>2, <1>3 DEF JobMoves, Started

LEMMA FinishMoves == ASSUME Sound, NEW j \in Jobs, Finish(j) PROVE JobMoves(j)
<1>1. /\ jobs[j].status = "running" /\ UNCHANGED <<app, files, faults, crashes>>
      /\ At(j) = {} /\ Pending(j) = {}
      /\ jobs' = [jobs EXCEPT ![j].status = "succeeded"] /\ Freed(j)
  BY DEF Finish
<1>2. Ends(j) /\ jobs'[j].status = "succeeded"
  BY <1>1, JobIsKnown, StatusDoes
<1>3. LockMoves(j)
  BY <1>1, FreedMoves, CountsAreTyped DEF Sound
<1> QED
  BY <1>1, <1>2, <1>3 DEF JobMoves, Over

LEMMA InterruptMoves == ASSUME Sound, NEW j \in Jobs, Interrupt(j) PROVE JobMoves(j)
<1>1. /\ jobs[j].status \in {"queued", "running"} /\ UNCHANGED <<app, files, faults>>
      /\ crashes' = crashes + 1 /\ crashes < MaxCrashes
      /\ jobs' = [jobs EXCEPT ![j].status = "failed"] /\ Freed(j)
  BY DEF Interrupt
<1>2. Ends(j) /\ jobs'[j].status = "failed"
  BY <1>1, JobIsKnown, StatusDoes
<1>3. LockMoves(j)
  BY <1>1, FreedMoves, CountsAreTyped DEF Sound
<1> QED
  BY <1>1, <1>2, <1>3 DEF JobMoves, Over

LEMMA ExpireMoves == ASSUME Sound, NEW j \in Jobs, Expire(j) PROVE JobMoves(j)
<1>1. /\ jobs[j].status = "queued" /\ UNCHANGED <<app, files, jobs, faults, crashes>> /\ Freed(j)
  BY DEF Expire
<1>2. LockMoves(j)
  BY <1>1, FreedMoves, CountsAreTyped DEF Sound
<1> QED
  BY <1>1, <1>2 DEF JobMoves, Waits

LEMMA FailMoves == ASSUME Sound, NEW j \in Jobs, Fail(j) PROVE JobMoves(j)
<1>1. /\ jobs[j].status = "running" /\ At(j) # {} /\ StepFails(j)
      /\ faults' = faults + 1 /\ UNCHANGED <<files, crashes>>
      /\ app' = app \/ (/\ ~ jobs[j].rehearsal /\ CanWork(j) /\ After(j) # app[jobs[j].tgt]
                        /\ app' = [app EXCEPT ![jobs[j].tgt] = After(j)])
  BY DEF Fail
<1> QED
  BY <1>1, Fails, CountsAreTyped DEF Sound

LEMMA BackupMissingMoves == ASSUME Sound, NEW j \in Jobs, BackupMissing(j) PROVE JobMoves(j)
<1>1. /\ jobs[j].status = "running" /\ At(j) # {} /\ StepFails(j)
      /\ UNCHANGED <<app, files, faults, crashes>>
  BY DEF BackupMissing, Doing
<1> QED
  BY <1>1, Fails, CountsAreTyped DEF Sound

LEMMA SettlesSame ==
    ASSUME Sound, NEW j \in Jobs, jobs[j].status = "running", NEW status \in {"succeeded", "skipped"},
           jobs' = Settled(j, status, jobs[j])
    PROVE  Settles(j, status) /\ SameFinds(jobs'[j], jobs[j])
<1> DEFINE found == jobs[j]
<1>1. jobs \in [Jobs -> Job] /\ found \in Job
  BY JobIsKnown
<1>2. SameJob(found, jobs[j]) /\ found.steps = jobs[j].steps /\ found.status = jobs[j].status
      /\ found.before = jobs[j].before /\ jobs' = Settled(j, status, found)
  BY DEF SameJob
<1> HIDE DEF found
<1>3. Settles(j, status) /\ SameFinds(jobs'[j], found)
  BY <1>1, <1>2, SettledDoes
<1> QED
  BY <1>3 DEF found

LEMMA CheckMoves == ASSUME Sound, NEW j \in Jobs, Check(j) PROVE JobMoves(j)
<1>1. /\ jobs[j].status = "running" /\ At(j) # {} /\ Step(j) \in {"check", "final_check"}
      /\ UNCHANGED <<app, files, lock, faults, crashes>> /\ jobs' = Settled(j, "succeeded", jobs[j])
  BY DEF Check, Doing, Succeeds
<1>2. Settles(j, "succeeded") /\ SameFinds(jobs'[j], jobs[j])
  BY <1>1, SettlesSame
<1>3. LockMoves(j) /\ TargetHeld(j)
  BY <1>1, SameMoves, CountsAreTyped DEF Sound
<1>4. FilesStay
  BY <1>1 DEF FilesStay, Sound, TypeOK
<1>5. Found(j)
  BY <1>1, <1>2, <1>3, <1>4 DEF Found, SameFinds
<1> QED
  BY <1>3, <1>5 DEF JobMoves

LEMMA RehearseMoves == ASSUME Sound, NEW j \in Jobs, Rehearse(j) PROVE JobMoves(j)
<1> DEFINE status == IF Step(j) = "restart" THEN "skipped" ELSE "succeeded"
<1>1. /\ jobs[j].status = "running" /\ At(j) # {} /\ jobs[j].rehearsal
      /\ Step(j) \in {"env", "restore"} \cup Kinds
      /\ UNCHANGED <<app, files, lock, faults, crashes>> /\ jobs' = Settled(j, status, jobs[j])
  BY DEF Rehearse, Doing
<1> HIDE DEF status
<1>2. status \in {"succeeded", "skipped"}
  BY DEF status
<1>3. Settles(j, status) /\ SameFinds(jobs'[j], jobs[j])
  BY <1>1, <1>2, SettlesSame
<1>4. LockMoves(j) /\ TargetHeld(j)
  BY <1>1, SameMoves, CountsAreTyped DEF Sound
<1>5. FilesStay
  BY <1>1 DEF FilesStay, Sound, TypeOK
<1>6. Step(j) \notin {"source_backup", "safety_backup", "record_env"}
  BY <1>1 DEF Kinds
<1>7. Found(j)
  BY <1>1, <1>2, <1>3, <1>4, <1>5, <1>6 DEF Found, SameFinds
<1> QED
  BY <1>4, <1>7 DEF JobMoves

LEMMA ChangeMoves == ASSUME Sound, NEW j \in Jobs, Change(j) PROVE JobMoves(j)
<1>1. /\ jobs[j].status = "running" /\ At(j) # {} /\ ~ jobs[j].rehearsal
      /\ Step(j) \in {"env", "restore"} \cup Kinds /\ CanWork(j)
      /\ app' = [app EXCEPT ![jobs[j].tgt] = After(j)]
      /\ UNCHANGED <<files, lock, faults, crashes>> /\ jobs' = Settled(j, "succeeded", jobs[j])
  BY DEF Change, Doing, Succeeds
<1>2. Settles(j, "succeeded") /\ SameFinds(jobs'[j], jobs[j])
  BY <1>1, SettlesSame
<1>3. LockMoves(j) /\ TargetHeld(j)
  BY <1>1, SameMoves, CountsAreTyped DEF Sound
<1>4. Changed(j)
  BY <1>1, <1>2, <1>3 DEF Changed
<1> QED
  BY <1>3, <1>4 DEF JobMoves

LEMMA SourceHeldMoves == ASSUME Sound, NEW j \in Jobs, SourceHeld(j) PROVE JobMoves(j)
<1> DEFINE s == jobs[j].src
<1>1. /\ jobs[j].status = "running" /\ At(j) # {} /\ Step(j) = "source_backup"
      /\ UNCHANGED <<app, files, faults, crashes>>
  BY DEF SourceHeld, Doing
<1>2. s \in Apps /\ s # jobs[j].tgt /\ jobs[j].tgt \in Apps
  BY <1>1, JobIsKnown
<1>3. ASSUME lock[s] = None PROVE JobMoves(j)
  <2>1. lock' = [lock EXCEPT ![s] = j] /\ jobs' = jobs
    BY <1>3 DEF SourceHeld
  <2>2. LockMoves(j) /\ \A b \in Apps \ {s} : lock'[b] = lock[b]
    BY <1>1, <1>2, <1>3, <2>1, SetMoves, CountsAreTyped DEF Sound
  <2>3. TargetHeld(j)
    BY <1>2, <2>2 DEF TargetHeld
  <2> QED
    BY <1>1, <2>1, <2>2, <2>3 DEF JobMoves, Waits
<1>4. ASSUME lock[s] # None PROVE JobMoves(j)
  <2>1. StepFails(j)
    BY <1>4 DEF SourceHeld
  <2> QED
    BY <1>1, <2>1, Fails, CountsAreTyped DEF Sound
<1> QED
  BY <1>3, <1>4

LEMMA SourceRehearsedMoves == ASSUME Sound, NEW j \in Jobs, SourceRehearsed(j) PROVE JobMoves(j)
<1>1. /\ jobs[j].status = "running" /\ At(j) # {} /\ Step(j) = "source_backup"
      /\ UNCHANGED <<app, files, faults, crashes>>
  BY DEF SourceRehearsed, Doing
<1>2. ASSUME jobs[j].backup = 0 PROVE JobMoves(j)
  <2>1. StepFails(j)
    BY <1>2 DEF SourceRehearsed
  <2> QED
    BY <1>1, <2>1, Fails, CountsAreTyped DEF Sound
<1>3. ASSUME jobs[j].backup # 0 PROVE JobMoves(j)
  <2>1. jobs' = Settled(j, "succeeded", jobs[j]) /\ lock' = lock
    BY <1>3 DEF SourceRehearsed, Succeeds
  <2>2. Settles(j, "succeeded") /\ SameFinds(jobs'[j], jobs[j])
    BY <1>1, <2>1, SettlesSame
  <2>3. LockMoves(j) /\ TargetHeld(j)
    BY <1>1, <2>1, SameMoves, CountsAreTyped DEF Sound
  <2>4. FilesStay
    BY <1>1 DEF FilesStay, Sound, TypeOK
  <2>5. Found(j)
    BY <1>1, <2>2, <2>3, <2>4 DEF Found, SameFinds
  <2> QED
    BY <2>3, <2>5 DEF JobMoves
<1> QED
  BY <1>2, <1>3

\* The backup of the source that was just made, or the one that stands in for it.
LEMMA UsedIsFound ==
    ASSUME Sound, NEW j \in Jobs, jobs[j].status = "running", At(j) # {},
           Step(j) = "source_backup", ~ jobs[j].rehearsal, lock[jobs[j].src] = j,
           NEW f \in Files \cup {0}, jobs' = Settled(j, "succeeded", [jobs[j] EXCEPT !.used = f]),
           lock' = [lock EXCEPT ![jobs[j].src] = None], faults' \in Nat, crashes' \in Nat,
           app' = app, FilesStay
    PROVE  JobMoves(j)
<1> DEFINE s == jobs[j].src
           found == [jobs[j] EXCEPT !.used = f]
<1>1. s \in Apps /\ s # jobs[j].tgt /\ jobs[j].tgt \in Apps /\ jobs \in [Jobs -> Job]
      /\ jobs[j] \in Job
  BY JobIsKnown
<1>2. /\ found \in Job /\ SameJob(found, jobs[j]) /\ found.steps = jobs[j].steps
      /\ found.status = jobs[j].status /\ found.before = jobs[j].before
      /\ found.safety = jobs[j].safety /\ found.recorded = jobs[j].recorded
  <2>1. found = [jobs[j] EXCEPT !.used = f]
    OBVIOUS
  <2> HIDE DEF found
  <2> QED
    BY <1>1, <2>1, UsedIsJob
<1>3. jobs' = Settled(j, "succeeded", found)
  OBVIOUS
<1> HIDE DEF found
<1>4. Settles(j, "succeeded") /\ SameFinds(jobs'[j], found)
  BY <1>1, <1>2, <1>3, SettledDoes
<1>5. LockMoves(j) /\ \A b \in Apps \ {s} : lock'[b] = lock[b]
  <2>1. s \in Apps /\ None \in {None, j} /\ lock[s] \in {None, j} /\ lock' = [lock EXCEPT ![s] = None]
    BY <1>1
  <2> HIDE DEF s
  <2> QED
    BY <2>1, SetMoves DEF Sound
<1>6. TargetHeld(j)
  BY <1>1, <1>5 DEF TargetHeld
<1>7. Found(j)
  BY <1>2, <1>4, <1>6 DEF Found, SameFinds
<1> QED
  BY <1>5, <1>7 DEF JobMoves

LEMMA SourceBackupMoves ==
    ASSUME ConstantsFit, Sound, NEW j \in Jobs, SourceBackup(j) PROVE JobMoves(j)
<1>1. /\ jobs[j].status = "running" /\ At(j) # {} /\ Step(j) = "source_backup"
      /\ ~ jobs[j].rehearsal /\ lock[jobs[j].src] = j /\ Room /\ BackedUp(jobs[j].src)
      /\ lock' = [lock EXCEPT ![jobs[j].src] = None]
      /\ jobs' = Settled(j, "succeeded", [jobs[j] EXCEPT !.used = NewFile])
      /\ UNCHANGED <<app, faults, crashes>>
  BY DEF SourceBackup, Doing, Succeeds
<1>2. jobs[j].src \in Apps
  BY <1>1, JobIsKnown
<1>3. FilesStay /\ NewFile \in Files
  BY <1>1, <1>2, BackupDoes DEF Sound
<1>4. PICK f \in Files : f = NewFile
  BY <1>3
<1>5. f \in Files \cup {0} /\ jobs' = Settled(j, "succeeded", [jobs[j] EXCEPT !.used = f])
  BY <1>1, <1>4
<1> QED
  BY <1>1, <1>3, <1>5, UsedIsFound, CountsAreTyped DEF Sound

LEMMA SourceUnreachableMoves == ASSUME Sound, NEW j \in Jobs, SourceUnreachable(j) PROVE JobMoves(j)
<1>1. /\ jobs[j].status = "running" /\ At(j) # {} /\ Step(j) = "source_backup"
      /\ ~ jobs[j].rehearsal /\ lock[jobs[j].src] = j /\ faults' = faults + 1
      /\ UNCHANGED <<app, files, crashes>>
  BY DEF SourceUnreachable, Doing
<1>2. ASSUME jobs[j].backup = 0 PROVE JobMoves(j)
  <2>1. StepFails(j)
    BY <1>2 DEF SourceUnreachable
  <2> QED
    BY <1>1, <2>1, Fails, CountsAreTyped DEF Sound
<1>3. ASSUME jobs[j].backup # 0 PROVE JobMoves(j)
  <2>1. /\ jobs' = Settled(j, "succeeded", [jobs[j] EXCEPT !.used = jobs[j].backup])
        /\ lock' = [lock EXCEPT ![jobs[j].src] = None]
    BY <1>3 DEF SourceUnreachable, Succeeds
  <2>2. jobs[j].backup \in Files \cup {0}
    BY <1>1, JobIsKnown DEF Job
  <2>3. FilesStay
    BY <1>1 DEF FilesStay, Sound, TypeOK
  <2>4. PICK f \in Files \cup {0} : f = jobs[j].backup
    BY <2>2
  <2>5. jobs' = Settled(j, "succeeded", [jobs[j] EXCEPT !.used = f])
    BY <2>1, <2>4
  <2> QED
    BY <1>1, <2>1, <2>3, <2>5, UsedIsFound, CountsAreTyped DEF Sound
<1> QED
  BY <1>2, <1>3

LEMMA RecordEnvMoves == ASSUME Sound, NEW j \in Jobs, RecordEnv(j) PROVE JobMoves(j)
<1> DEFINE t == jobs[j].tgt
<1>1. /\ jobs[j].status = "running" /\ At(j) # {} /\ Step(j) = "record_env"
      /\ UNCHANGED <<app, files, lock, faults, crashes>>
  BY DEF RecordEnv, Doing
<1>2. LockMoves(j) /\ TargetHeld(j)
  BY <1>1, SameMoves, CountsAreTyped DEF Sound
<1>3. FilesStay
  BY <1>1 DEF FilesStay, Sound, TypeOK
<1>4. jobs \in [Jobs -> Job] /\ jobs[j] \in Job /\ app[t] \in AppState
  BY <1>1, JobIsKnown
<1>5. ASSUME t \in EnvApps PROVE JobMoves(j)
  <2> DEFINE e == app[t].env
             found == [jobs[j] EXCEPT !.recorded = e]
  <2>1. e \in Apps \cup {None}
    BY <1>4 DEF AppState
  <2>2. jobs' = Settled(j, "succeeded", found)
    BY <1>5 DEF RecordEnv, Succeeds
  <2> HIDE DEF e
  <2>3. /\ found \in Job /\ SameJob(found, jobs[j]) /\ found.steps = jobs[j].steps
        /\ found.status = jobs[j].status /\ found.before = jobs[j].before
        /\ found.safety = jobs[j].safety /\ found.used = jobs[j].used /\ found.recorded = e
    <3>1. found = [jobs[j] EXCEPT !.recorded = e]
      OBVIOUS
    <3> HIDE DEF found
    <3> QED
      BY <1>4, <2>1, <3>1, RecordedIsJob
  <2> HIDE DEF found
  <2>4. Settles(j, "succeeded") /\ SameFinds(jobs'[j], found)
    BY <1>4, <2>2, <2>3, SettledDoes
  <2>5. Found(j)
    BY <1>1, <1>2, <1>3, <2>3, <2>4 DEF Found, SameFinds, e
  <2> QED
    BY <1>2, <2>5 DEF JobMoves
<1>6. ASSUME t \notin EnvApps PROVE JobMoves(j)
  <2>1. jobs' = Settled(j, "skipped", jobs[j])
    BY <1>6 DEF RecordEnv
  <2>2. Settles(j, "skipped") /\ SameFinds(jobs'[j], jobs[j])
    BY <1>1, <2>1, SettlesSame
  <2>3. Found(j)
    BY <1>1, <1>2, <1>3, <1>6, <2>2 DEF Found, SameFinds
  <2> QED
    BY <1>2, <2>3 DEF JobMoves
<1> QED
  BY <1>5, <1>6

LEMMA SafetyBackupMoves ==
    ASSUME ConstantsFit, Sound, NEW j \in Jobs, SafetyBackup(j) PROVE JobMoves(j)
<1> DEFINE t == jobs[j].tgt
           had == jobs[j].action = "deploy" \/ HoldsData(t)
           real == had /\ ~ jobs[j].rehearsal
           file == IF real THEN NewFile ELSE 0
           status == IF had THEN "succeeded" ELSE "skipped"
<1>1. /\ jobs[j].status = "running" /\ At(j) # {} /\ Step(j) = "safety_backup"
      /\ UNCHANGED <<app, lock, faults, crashes>>
      /\ real => Room /\ BackedUp(t)
      /\ ~ real => files' = files
      /\ jobs' = Settled(j, status, [jobs[j] EXCEPT !.had = had, !.safety = file])
  BY DEF SafetyBackup, Doing
<1>2. LockMoves(j) /\ TargetHeld(j)
  BY <1>1, SameMoves, CountsAreTyped DEF Sound
<1>3. jobs \in [Jobs -> Job] /\ jobs[j] \in Job /\ t \in Apps
  BY <1>1, JobIsKnown
<1>4. /\ FilesStay /\ file \in Files \cup {0}
      /\ real => file \in Files /\ files'[file] # None /\ files'[file].data = app[t].data
      /\ file # 0 => files'[file] # None
  <2>1. CASE real
    BY <1>1, <1>3, <2>1, BackupDoes DEF Sound
  <2>2. CASE ~ real
    BY <1>1, <2>2 DEF FilesStay, Sound, TypeOK
  <2> QED
    BY <2>1, <2>2
<1>5. PICK f \in Files \cup {0} : f = file
  BY <1>4
<1>6. PICK h : h = had /\ h \in BOOLEAN
  OBVIOUS
<1>7. PICK found : found = [jobs[j] EXCEPT !.had = h, !.safety = f]
  OBVIOUS
<1>8. PICK verdict \in {"succeeded", "skipped"} : verdict = status
  OBVIOUS
<1>9. jobs' = Settled(j, verdict, found)
  BY <1>1, <1>5, <1>6, <1>7, <1>8
<1>10. /\ found \in Job /\ SameJob(found, jobs[j]) /\ found.steps = jobs[j].steps
       /\ found.status = jobs[j].status /\ found.before = jobs[j].before
       /\ found.used = jobs[j].used /\ found.recorded = jobs[j].recorded /\ found.safety = f
  <2>1. jobs[j] \in Job /\ h \in BOOLEAN /\ f \in Files \cup {0}
    BY <1>3, <1>5, <1>6
  <2>2. [jobs[j] EXCEPT !.had = h, !.safety = f] \in Job
    <3>1. \A w \in Job : [w EXCEPT !.had = h] \in Job
      BY <2>1, SMTT(30) DEF Job
    <3>2. \A w \in Job : [w EXCEPT !.safety = f] \in Job
      BY <2>1, SMTT(30) DEF Job
    <3>3. [jobs[j] EXCEPT !.had = h, !.safety = f] = [[jobs[j] EXCEPT !.had = h] EXCEPT !.safety = f]
      OBVIOUS
    <3> QED
      BY <2>1, <3>1, <3>2, <3>3
  <2>3. /\ found.steps = jobs[j].steps /\ found.status = jobs[j].status /\ found.before = jobs[j].before
        /\ found.used = jobs[j].used /\ found.recorded = jobs[j].recorded /\ found.safety = f
    BY <1>7, <2>1 DEF Job
  <2>4. SameJob(found, jobs[j])
    BY <1>7, <2>1 DEF Job, SameJob
  <2> QED
    BY <1>7, <2>2, <2>3, <2>4
<1>11. Settles(j, verdict) /\ SameFinds(jobs'[j], found)
  BY <1>3, <1>9, <1>10, SettledDoes
<1>12. /\ jobs'[j].used = jobs[j].used /\ jobs'[j].recorded = jobs[j].recorded /\ jobs'[j].safety = f
  BY <1>10, <1>11 DEF SameFinds
<1>13. jobs[j].rehearsal => files' = files
  BY <1>1
<1>14. jobs'[j].safety # 0 => files'[jobs'[j].safety] # None
  BY <1>4, <1>5, <1>12
<1>15. (~ jobs[j].rehearsal /\ (jobs[j].action = "deploy" \/ HoldsData(t))) =>
          /\ jobs'[j].safety \in Files /\ files'[jobs'[j].safety] # None
          /\ files'[jobs'[j].safety].data = app[t].data
  BY <1>4, <1>5, <1>12
<1>16. FilesStay
  BY <1>4
<1> HIDE DEF file, status, had, real
<1>17. Found(j)
  BY <1>1, <1>2, <1>11, <1>12, <1>13, <1>14, <1>15, <1>16 DEF Found
<1> QED
  BY <1>2, <1>17 DEF JobMoves

LEMMA EveryStepMoves ==
    ASSUME ConstantsFit, Sound, NEW j \in Jobs,
           \/ Work(j) \/ SourceUnreachable(j) \/ Fail(j)
           \/ Interrupt(j) \/ Expire(j)
    PROVE  JobMoves(j)
BY BeginMoves, StepStartsMoves, FinishMoves, CheckMoves, SourceHeldMoves, SourceBackupMoves, SourceRehearsedMoves,
   RecordEnvMoves, SafetyBackupMoves, RehearseMoves, ChangeMoves, BackupMissingMoves, SourceUnreachableMoves,
   FailMoves, InterruptMoves, ExpireMoves DEF Work

\* What every step of a job has in common.
Stepped(j) ==
    /\ Proceeds(j) /\ LockMoves(j) /\ FilesStay /\ jobs[j].status \in {"queued", "running"}
    /\ jobs'[j].status # "-" /\ (jobs'[j].status = "queued" => jobs'[j] = jobs[j])
    /\ jobs'[j].status = "running" => lock'[jobs[j].tgt] = j
    /\ \A i \in DOMAIN jobs[j].steps : Ahead(j, i)' => Ahead(j, i)
    /\ app' \in [Apps -> AppState]
    /\ \A a \in Apps \ {jobs[j].tgt} : app'[a] = app[a]
    /\ app' # app => jobs[j].status = "running" /\ ~ jobs[j].rehearsal
    /\ jobs[j].rehearsal => files' = files

LEMMA SettledSteps ==
    ASSUME NEW j \in Jobs, NEW status \in {"succeeded", "skipped"}, Settles(j, status)
    PROVE  /\ \A i \in DOMAIN jobs[j].steps : /\ Ahead(j, i)' <=> Ahead(j, i) /\ i \notin At(j)
                                              /\ jobs'[j].steps[i].status # "running"
           /\ DOMAIN jobs'[j].steps = DOMAIN jobs[j].steps
BY DEF Settles, Proceeds, SameSteps, Ahead, At
LEMMA StartedSteps ==
    ASSUME NEW j \in Jobs, Starts(j)
    PROVE  \A i \in DOMAIN jobs[j].steps : Ahead(j, i)' <=> Ahead(j, i)
BY DEF Starts, Ahead

LEMMA MoveIsMoved ==
    ASSUME Sound, NEW j \in Jobs, JobMoves(j)
    PROVE  Stepped(j)
<1> DEFINE t == jobs[j].tgt
<1>0. /\ app \in [Apps -> AppState] /\ jobs \in [Jobs -> Job]
      /\ jobs[j].status # "-" => t \in Apps
      /\ jobs[j].status = "running" => lock[t] = j
      /\ files \in [Files -> FileRow \cup {None}]
      /\ LockMoves(j)
  BY DEF Sound, TypeOK, LocksInv, JobMoves
<1>1. files' = files => FilesStay
  BY <1>0 DEF FilesStay
<1>2. ASSUME CanWork(j), t \in Apps, app' = [app EXCEPT ![t] = After(j)]
      PROVE  app' \in [Apps -> AppState] /\ \A a \in Apps \ {t} : app'[a] = app[a]
  <2>1. After(j) \in AppState
    BY <1>2, AfterDoes DEF Sound
  <2> HIDE DEF AppState, t
  <2> QED
    BY <1>0, <1>2, <2>1
<1>3. CASE Begun(j)
  <2>1. \A i \in DOMAIN jobs[j].steps : Ahead(j, i)' => Ahead(j, i)
    BY <1>3 DEF Begun, Ahead
  <2> QED
    BY <1>0, <1>1, <1>3, <2>1 DEF Begun, Stepped
<1>4. CASE Started(j)
  <2>1. \A i \in DOMAIN jobs[j].steps : Ahead(j, i)' => Ahead(j, i)
    BY <1>4, StartedSteps DEF Started
  <2> QED
    BY <1>0, <1>1, <1>4, <2>1 DEF Started, Starts, Stepped, TargetHeld
<1>5. CASE Found(j)
  <2>1. PICK status \in {"succeeded", "skipped"} : Settles(j, status)
    BY <1>5 DEF Found
  <2>2. \A i \in DOMAIN jobs[j].steps : Ahead(j, i)' => Ahead(j, i)
    BY <2>1, SettledSteps
  <2> QED
    BY <1>0, <1>5, <2>1, <2>2 DEF Found, Settles, Stepped, TargetHeld
<1>6. CASE Changed(j)
  <2>1. Settles(j, "succeeded")
    BY <1>6 DEF Changed
  <2>2. \A i \in DOMAIN jobs[j].steps : Ahead(j, i)' => Ahead(j, i)
    BY <2>1, SettledSteps
  <2>3. app' \in [Apps -> AppState] /\ \A a \in Apps \ {t} : app'[a] = app[a]
    BY <1>0, <1>2, <1>6 DEF Changed
  <2> QED
    BY <1>0, <1>1, <1>6, <2>1, <2>2, <2>3 DEF Changed, Settles, Stepped, TargetHeld
<1>7. CASE Failed(j)
  <2>1. \A i \in DOMAIN jobs[j].steps : Ahead(j, i)' => Ahead(j, i)
    BY <1>7 DEF Failed, Ends, Ahead
  <2>2. app' \in [Apps -> AppState] /\ \A a \in Apps \ {t} : app'[a] = app[a]
    BY <1>0, <1>2, <1>7 DEF Failed
  <2> QED
    BY <1>0, <1>1, <1>7, <2>1, <2>2 DEF Failed, Ends, Stepped
<1>8. CASE Over(j)
  <2>1. \A i \in DOMAIN jobs[j].steps : Ahead(j, i)' => Ahead(j, i)
    BY <1>8 DEF Over, Ends, Ahead
  <2> QED
    BY <1>0, <1>1, <1>8, <2>1 DEF Over, Ends, Stepped
<1>9. CASE Waits(j)
  <2>1. \A i \in DOMAIN jobs[j].steps : Ahead(j, i)' => Ahead(j, i)
    BY <1>9 DEF Waits, Ahead
  <2>2. Proceeds(j)
    BY <1>0, <1>9 DEF Waits, Proceeds, SameJob, SameSteps
  <2> QED
    BY <1>0, <1>1, <1>9, <2>1, <2>2 DEF Waits, Stepped, TargetHeld
<1> QED
  BY <1>3, <1>4, <1>5, <1>6, <1>7, <1>8, <1>9 DEF JobMoves

LEMMA MovedIsTyped ==
    ASSUME Sound, NEW j \in Jobs, Stepped(j) PROVE TypeOK'
BY DEF Stepped, Proceeds, LockMoves, FilesStay, TypeOK

LEMMA OtherTargetsStay ==
    ASSUME ConstantsFit, Sound, NEW j \in Jobs, Stepped(j), NEW k \in Jobs, k # j, jobs[k].status = "running"
    PROVE  jobs[k].tgt \in Apps /\ lock'[jobs[k].tgt] = k /\ app'[jobs[k].tgt] = app[jobs[k].tgt]
<1> DEFINE t == jobs[k].tgt
<1>1. t \in Apps /\ lock[t] = k /\ k # None
  BY DEF Sound, LocksInv, ConstantsFit
<1>2. lock'[t] = k
  BY <1>1 DEF Stepped, LockMoves
<1>3. app' # app => lock[jobs[j].tgt] = j
  BY DEF Stepped, Sound, LocksInv
<1>4. app' = app \/ t # jobs[j].tgt
  BY <1>1, <1>3
<1> QED
  BY <1>1, <1>2, <1>4 DEF Stepped

LEMMA MovedKeepsLocks ==
    ASSUME ConstantsFit, Sound, NEW j \in Jobs, Stepped(j) PROVE LocksInv'
<1> SUFFICES ASSUME NEW k \in Jobs, jobs'[k].status # "-"
             PROVE  /\ jobs'[k].tgt \in Apps /\ jobs'[k].src # jobs'[k].tgt
                    /\ jobs'[k].status = "running" => lock'[jobs'[k].tgt] = k
  BY DEF LocksInv
<1>1. CASE k = j
  BY <1>1 DEF Stepped, Proceeds, SameJob, Sound, LocksInv
<1>2. CASE k # j
  <2>1. jobs'[k] = jobs[k]
    BY <1>2 DEF Stepped, Proceeds
  <2> QED
    BY <1>2, <2>1, OtherTargetsStay DEF Sound, LocksInv
<1> QED
  BY <1>1, <1>2

\* The plan of a job, step by step.
LEMMA OtherPlansStay ==
    ASSUME NEW k, jobs'[k] = jobs[k], PlannedWell(k) PROVE PlannedWell(k)'
BY DEF PlannedWell, InOrder, Ahead, SourceNamed, StepNames, Forward,
       Prepares, NothingTaken, EnvNamed
LEMMA NamesStay ==
    ASSUME NEW j \in Jobs, Proceeds(j) PROVE StepNames(j)' = StepNames(j)
BY DEF Proceeds, SameSteps, StepNames
LEMMA OrderStays ==
    ASSUME Sound, NEW j \in Jobs, JobMoves(j), InOrder(j) PROVE InOrder(j)'
<1>0. Stepped(j) /\ DOMAIN jobs'[j].steps = DOMAIN jobs[j].steps
  BY MoveIsMoved DEF Stepped, Proceeds, SameSteps
<1>1. ASSUME jobs'[j].steps = jobs[j].steps PROVE InOrder(j)'
  BY <1>1 DEF InOrder, Ahead
<1>2. ASSUME \A i \in DOMAIN jobs[j].steps : jobs'[j].steps[i].status # "running" PROVE InOrder(j)'
  BY <1>0, <1>2 DEF InOrder
<1>3. ASSUME Starts(j) PROVE InOrder(j)'
  <2>1. PICK n \in DOMAIN jobs[j].steps :
          /\ \A i \in DOMAIN jobs[j].steps : i < n => ~ Ahead(j, i)
          /\ \A i \in DOMAIN jobs[j].steps :
                jobs'[j].steps[i].status = IF i = n THEN "running" ELSE jobs[j].steps[i].status
    BY <1>3 DEF Starts
  <2>2. \A i \in DOMAIN jobs[j].steps : jobs[j].steps[i].status # "running"
    BY <1>3 DEF Starts
  <2>3. \A i \in DOMAIN jobs[j].steps : i < n => ~ Ahead(j, i)'
    BY <1>3, <2>1, StartedSteps
  <2> QED
    BY <1>0, <2>1, <2>2, <2>3 DEF InOrder
<1>4. ASSUME NEW status \in {"succeeded", "skipped"}, Settles(j, status) PROVE InOrder(j)'
  BY <1>2, <1>4, SettledSteps
<1>5. ASSUME Ends(j) PROVE InOrder(j)'
  BY <1>1, <1>2, <1>5 DEF Ends
<1> QED
  BY <1>1, <1>3, <1>4, <1>5 DEF JobMoves, Begun, Started, Found, Changed, Failed, Over, Waits
LEMMA MovedKeepsPlans ==
    ASSUME Sound, NEW j \in Jobs, JobMoves(j) PROVE PlanInv'
<1> SUFFICES ASSUME NEW k \in Jobs, jobs'[k].status # "-" PROVE PlannedWell(k)'
  BY DEF PlanInv, PlannedWell
<1>0. Stepped(j)
  BY MoveIsMoved
<1>1. CASE k # j
  <2>1. jobs'[k] = jobs[k]
    BY <1>0, <1>1 DEF Stepped, Proceeds
  <2>2. PlannedWell(k)
    BY <2>1 DEF Sound, PlanInv, PlannedWell
  <2> QED
    BY <2>1, <2>2, OtherPlansStay
<1>2. CASE k = j
  <2>1. /\ InOrder(j) /\ SourceNamed(j)
        /\ Forward(j) => Prepares(j) /\ NothingTaken(j) /\ EnvNamed(j)
    BY <1>0 DEF Stepped, Sound, PlanInv
  <2>2. /\ SameJob(jobs'[j], jobs[j]) /\ DOMAIN jobs'[j].steps = DOMAIN jobs[j].steps
        /\ \A i \in DOMAIN jobs[j].steps : jobs'[j].steps[i].step = jobs[j].steps[i].step
        /\ \A i \in DOMAIN jobs[j].steps : Ahead(j, i)' => Ahead(j, i)
        /\ jobs'[j].status = "queued" => jobs'[j] = jobs[j]
        /\ StepNames(j)' = StepNames(j)
    BY <1>0, NamesStay DEF Stepped, Proceeds, SameSteps
  <2>3. InOrder(j)'
    BY <2>1, OrderStays
  <2>4. SourceNamed(j)'
    BY <2>1, <2>2 DEF SourceNamed, SameJob
  <2>5. Forward(j)' <=> Forward(j)
    BY <2>2 DEF Forward, SameJob
  <2>6. Prepares(j) => Prepares(j)'
    BY <2>2 DEF Prepares, SameJob
  <2>7. NothingTaken(j) => NothingTaken(j)'
    BY <2>2 DEF NothingTaken, Ahead
  <2>8. EnvNamed(j) => EnvNamed(j)'
    BY <2>2 DEF EnvNamed, SameJob
  <2> QED
    BY <1>2, <2>1, <2>3, <2>4, <2>5, <2>6, <2>7, <2>8 DEF PlannedWell
<1> QED
  BY <1>1, <1>2

\* A revert, step by step: it puts back what the job it reverts has kept.
FilesKept == \A k \in Jobs : jobs[k].safety # 0 => files[jobs[k].safety] # None
RevertWay(k) == Reverting(k) =>
                   /\ RevertsOf(k)
                   /\ jobs[k].status \in {"queued", "running"} => PutBack(k)
LEMMA RevertsByWay == RevertInv <=> FilesKept /\ \A k \in Jobs : RevertWay(k)
BY DEF RevertInv, FilesKept, RevertWay

LEMMA SafetyStays ==
    ASSUME Sound, NEW k \in Jobs, jobs[k].safety # 0, FilesKept, FilesStay
    PROVE  /\ files[jobs[k].safety] # None /\ files'[jobs[k].safety] # None
           /\ files'[jobs[k].safety].data = files[jobs[k].safety].data
<1>1. jobs[k] \in Job
  <2> HIDE DEF Job
  <2> QED
    BY DEF Sound, TypeOK
<1>2. jobs[k].safety \in Files
  BY <1>1 DEF Job
<1> QED
  BY <1>2 DEF FilesKept, FilesStay

LEMMA MovedKeepsFiles ==
    ASSUME Sound, NEW j \in Jobs, JobMoves(j), FilesKept PROVE FilesKept'
<1>0. Stepped(j)
  BY MoveIsMoved
<1> SUFFICES ASSUME NEW k \in Jobs, jobs'[k].safety # 0 PROVE files'[jobs'[k].safety] # None
  BY DEF FilesKept
<1>1. ASSUME jobs'[k].safety = jobs[k].safety PROVE files'[jobs'[k].safety] # None
  BY <1>0, <1>1, SafetyStays DEF Stepped
<1>2. CASE k # j
  BY <1>0, <1>1, <1>2 DEF Stepped, Proceeds
<1>3. CASE k = j /\ ~ Found(j)
  <2>1. jobs'[j].safety = jobs[j].safety
    BY <1>3 DEF JobMoves, Begun, Started, Starts, Changed, Failed, Over, Ends, Waits, SameFinds
  <2> QED
    BY <1>1, <1>3, <2>1
<1>4. CASE k = j /\ Found(j)
  BY <1>1, <1>4 DEF Found
<1> QED
  BY <1>2, <1>3, <1>4

LEMMA StepIsNamed ==
    ASSUME Sound, NEW j \in Jobs, jobs[j].status = "running", At(j) # {}
    PROVE  /\ Step(j) \in StepNames(j)
           /\ \E i \in DOMAIN jobs[j].steps :
                 /\ At(j) = {i} /\ Ahead(j, i) /\ jobs[j].steps[i].status = "running"
                 /\ Step(j) = jobs[j].steps[i].step
<1>1. InOrder(j)
  BY DEF Sound, PlanInv
<1>2. PICK i \in DOMAIN jobs[j].steps :
          /\ At(j) = {i} /\ jobs[j].steps[i].status = "running"
          /\ Step(j) = jobs[j].steps[i].step
  BY <1>1, OneStepRuns DEF Sound
<1> QED
  BY <1>2 DEF StepNames, Ahead

LEMMA OtherRevertsStay ==
    ASSUME ConstantsFit, Sound, FilesKept, NEW j \in Jobs, Stepped(j), NEW k \in Jobs, k # j, RevertWay(k)
    PROVE  RevertWay(k)'
<1> SUFFICES ASSUME Reverting(k)'
             PROVE  RevertsOf(k)' /\ (jobs'[k].status \in {"queued", "running"} => PutBack(k)')
  BY DEF RevertWay
<1>1. jobs'[k] = jobs[k] /\ jobs[j].status \in {"queued", "running"} /\ \A l \in Jobs \ {j} : jobs'[l] = jobs[l]
  BY DEF Stepped, Proceeds
<1>2. Reverting(k)
  BY <1>1 DEF Reverting
<1>3. RevertsOf(k) /\ (jobs[k].status \in {"queued", "running"} => PutBack(k))
  BY <1>2 DEF RevertWay
<1> DEFINE m == jobs[k].of
<1>4. m \in Jobs /\ jobs'[m] = jobs[m] /\ jobs[k].tgt = jobs[m].tgt
  BY <1>1, <1>3 DEF RevertsOf
<1>5. RevertsOf(k)'
  BY <1>1, <1>3, <1>4 DEF RevertsOf, StepNames
<1>6. ASSUME jobs'[k].status \in {"queued", "running"} PROVE PutBack(k)'
  <2>1. PutBack(k)
    BY <1>1, <1>3, <1>6
  <2>2. jobs[m].safety # 0 => files'[jobs[m].safety].data = files[jobs[m].safety].data
    BY <1>4, SafetyStays DEF Stepped
  <2>3. jobs[k].status = "running" => app'[jobs[k].tgt] = app[jobs[k].tgt]
    BY OtherTargetsStay
  <2> QED
    BY <1>1, <1>4, <2>1, <2>2, <2>3 DEF PutBack, Ahead
<1> QED
  BY <1>5, <1>6

LEMMA OwnRevertStays ==
    ASSUME ConstantsFit, Sound, FilesKept, NEW j \in Jobs, JobMoves(j), RevertWay(j)
    PROVE  RevertWay(j)'
<1> SUFFICES ASSUME Reverting(j)'
             PROVE  RevertsOf(j)' /\ (jobs'[j].status \in {"queued", "running"} => PutBack(j)')
  BY DEF RevertWay
<1> DEFINE m == jobs[j].of
           t == jobs[j].tgt
<1>0. Stepped(j)
  BY MoveIsMoved
<1>1. /\ SameJob(jobs'[j], jobs[j]) /\ jobs[j].status \in {"queued", "running"}
      /\ \A l \in Jobs \ {j} : jobs'[l] = jobs[l]
      /\ StepNames(j)' = StepNames(j)
      /\ DOMAIN jobs'[j].steps = DOMAIN jobs[j].steps
      /\ \A i \in DOMAIN jobs[j].steps : jobs'[j].steps[i].step = jobs[j].steps[i].step
  BY <1>0, NamesStay DEF Stepped, Proceeds, SameSteps
<1>2. Reverting(j) /\ ~ jobs[j].rehearsal
  BY <1>1 DEF Reverting, SameJob
<1>3. RevertsOf(j) /\ PutBack(j)
  BY <1>1, <1>2 DEF RevertWay
<1>4. /\ m \in Jobs /\ m # j /\ jobs'[m] = jobs[m] /\ t = jobs[m].tgt /\ jobs[j].used = 0
      /\ jobs[j].backup = jobs[m].safety /\ StepNames(j) \subseteq {"check", "env", "restore"}
      /\ jobs[m].action = "run" => jobs[j].env = jobs[m].recorded
  BY <1>1, <1>3 DEF RevertsOf
<1>5. jobs'[j].used = 0
  <2>1. CASE Found(j)
    <3>1. Step(j) # "source_backup"
      BY <1>4, <2>1, StepIsNamed DEF Found
    <3> QED
      BY <1>4, <2>1, <3>1 DEF Found
  <2>2. CASE ~ Found(j)
    BY <1>4, <2>2 DEF JobMoves, Begun, Started, Starts, Changed, Failed, Over, Ends, Waits, SameFinds
  <2> QED
    BY <2>1, <2>2
<1>6. RevertsOf(j)'
  BY <1>1, <1>3, <1>4, <1>5 DEF RevertsOf, SameJob
<1>7. jobs[m].safety # 0 => files'[jobs[m].safety].data = files[jobs[m].safety].data
  BY <1>0, <1>4, SafetyStays DEF Stepped
<1>8. ASSUME jobs'[j].status \in {"queued", "running"} PROVE PutBack(j)'
  <2>0. jobs'[j].tgt = t /\ jobs'[j].of = m
    BY <1>1 DEF SameJob
  <2>a. \A i \in DOMAIN jobs[j].steps : ~ Ahead(j, i) =>
          /\ (jobs[j].steps[i].step = "restore" /\ jobs[m].safety # 0) =>
                jobs[j].status = "running" /\ app[t].data = files[jobs[m].safety].data
          /\ (jobs[j].steps[i].step = "env" /\ jobs[m].action = "run" /\ jobs[m].recorded # None) =>
                jobs[j].status = "running" /\ app[t].env = jobs[m].recorded
    BY <1>3 DEF PutBack
  <2> SUFFICES ASSUME NEW i \in DOMAIN jobs[j].steps, ~ Ahead(j, i)'
               PROVE  /\ (jobs[j].steps[i].step = "restore" /\ jobs[m].safety # 0) =>
                            jobs'[j].status = "running" /\ app'[t].data = files'[jobs[m].safety].data
                      /\ (jobs[j].steps[i].step = "env" /\ jobs[m].action = "run" /\ jobs[m].recorded # None) =>
                            jobs'[j].status = "running" /\ app'[t].env = jobs[m].recorded
    BY <1>1, <1>4, <2>0 DEF PutBack
  <2>1. CASE Begun(j)
    BY <1>7, <2>1, <2>a DEF Begun, Ahead
  <2>2. CASE Started(j)
    <3>1. ~ Ahead(j, i)
      BY <2>2, StartedSteps DEF Started
    <3> QED
      BY <1>7, <2>2, <2>a, <3>1 DEF Started, Starts
  <2>3. CASE Found(j)
    <3>1. Step(j) \notin {"env", "restore"} /\ app' = app /\ jobs'[j].status = "running"
      BY <1>2, <2>3 DEF Found, Settles
    <3>2. PICK n \in DOMAIN jobs[j].steps : At(j) = {n} /\ Step(j) = jobs[j].steps[n].step
      BY <2>3, StepIsNamed DEF Found
    <3>3. i # n => ~ Ahead(j, i)
      BY <2>3, <3>2, SettledSteps DEF Found
    <3> QED
      BY <1>7, <2>a, <3>1, <3>2, <3>3
  <2>4. CASE Changed(j)
    <3>1. /\ CanWork(j) /\ app' = [app EXCEPT ![t] = After(j)] /\ Settles(j, "succeeded")
          /\ jobs[j].status = "running" /\ jobs'[j].status = "running" /\ files' = files
      BY <2>4 DEF Changed, Settles
    <3>2. PICK n \in DOMAIN jobs[j].steps : At(j) = {n} /\ Step(j) = jobs[j].steps[n].step
      BY <2>4, StepIsNamed DEF Changed
    <3>3. i # n => ~ Ahead(j, i)
      BY <3>1, <3>2, SettledSteps
    <3>4. t \in Apps /\ app'[t] = After(j)
      BY <3>1, JobIsKnown DEF Sound, TypeOK
    <3> DEFINE after == After(j)
               f == RestoredFile(j)
    <3>5. /\ Step(j) = "env" => after.env = jobs[j].env /\ after.data = app[t].data
          /\ Step(j) # "env" => after.env = app[t].env
          /\ Step(j) = "restore" => f \in Files /\ files[f] # None /\ after.data = files[f].data
      <4>1. jobs[j].flush
        BY <1>3 DEF RevertsOf
      <4> QED
        BY <3>1, <3>4, <4>1, AfterDoes DEF Sound
    <3>6. f = jobs[m].safety
      BY <1>4 DEF RestoredFile
    <3>7. Step(j) \in {"check", "env", "restore"}
      BY <1>4, <3>1, <2>4, StepIsNamed DEF Changed
    <3>8. Step(j) \in {"env", "restore"}
      BY <2>4, <3>7 DEF Changed, Kinds
    <3> HIDE DEF after, f
    <3>9. (jobs[j].steps[i].step = "restore" /\ jobs[m].safety # 0) => app'[t].data = files'[jobs[m].safety].data
      BY <1>7, <2>a, <3>1, <3>2, <3>3, <3>4, <3>5, <3>6, <3>8 DEF after
    <3>10. (jobs[j].steps[i].step = "env" /\ jobs[m].action = "run" /\ jobs[m].recorded # None) =>
                app'[t].env = jobs[m].recorded
      BY <1>4, <2>a, <3>2, <3>3, <3>4, <3>5, <3>8 DEF after
    <3> QED
      BY <3>1, <3>9, <3>10
  <2>5. CASE Failed(j) \/ Over(j)
    BY <1>8, <2>5 DEF Failed, Over, Ends
  <2>6. CASE Waits(j)
    BY <1>7, <2>6, <2>a DEF Waits, Ahead
  <2> QED
    BY <2>1, <2>2, <2>3, <2>4, <2>5, <2>6 DEF JobMoves
<1> QED
  BY <1>6, <1>8

\* A job is queued, or a backup file is looked at or removed.
Kept == Sound /\ FilesKept /\ \A k \in Jobs : RevertWay(k)
LEMMA KeptIsInv == Kept <=> TypeOK /\ LocksInv /\ PlanInv /\ RevertInv
BY RevertsByWay DEF Kept, Sound

LEMMA JobMovesKeep ==
    ASSUME ConstantsFit, Kept, NEW j \in Jobs, JobMoves(j) PROVE Kept'
<1>0. Stepped(j) /\ Sound /\ FilesKept /\ \A k \in Jobs : RevertWay(k)
  BY MoveIsMoved DEF Kept
<1>1. Sound'
  BY <1>0, MovedIsTyped, MovedKeepsLocks, MovedKeepsPlans DEF Sound
<1>2. FilesKept'
  BY <1>0, MovedKeepsFiles
<1>3. ASSUME NEW k \in Jobs PROVE RevertWay(k)'
  BY <1>0, OwnRevertStays, OtherRevertsStay
<1> QED
  BY <1>1, <1>2, <1>3 DEF Kept

LEMMA QueuesKeep ==
    ASSUME ConstantsFit, Kept, NEW j \in Jobs, Queues(j), PlannedWell(j)', RevertsWell(j)' PROVE Kept'
<1>0. /\ TypeOK /\ LocksInv /\ PlanInv /\ FilesKept /\ \A k \in Jobs : RevertWay(k)
  BY DEF Kept, Sound
<1>1. /\ jobs' \in [Jobs -> Job] /\ \A k \in Jobs \ {j} : jobs'[k] = jobs[k]
      /\ jobs[j].status = "-" /\ jobs'[j].status = "queued" /\ jobs'[j].safety = 0
      /\ jobs'[j].tgt \in Apps /\ jobs'[j].src # jobs'[j].tgt
      /\ lock[jobs'[j].tgt] = None /\ lock' = [lock EXCEPT ![jobs'[j].tgt] = j]
      /\ app' = app /\ files' = files /\ faults' = faults /\ crashes' = crashes
  BY DEF Queues
<1>2. TypeOK'
  BY <1>0, <1>1 DEF TypeOK
<1>3. LocksInv'
  <2> SUFFICES ASSUME NEW k \in Jobs, jobs'[k].status # "-"
               PROVE  /\ jobs'[k].tgt \in Apps /\ jobs'[k].src # jobs'[k].tgt
                      /\ jobs'[k].status = "running" => lock'[jobs'[k].tgt] = k
    BY DEF LocksInv
  <2>1. CASE k = j
    BY <1>1, <2>1
  <2>2. CASE k # j
    <3>1. jobs'[k] = jobs[k] /\ jobs[k].tgt \in Apps /\ jobs[k].src # jobs[k].tgt
      BY <1>0, <1>1, <2>2 DEF LocksInv
    <3>2. jobs[k].status = "running" => lock'[jobs[k].tgt] = k
      BY <1>0, <1>1, <2>2, <3>1 DEF LocksInv, TypeOK, ConstantsFit
    <3> QED
      BY <3>1, <3>2
  <2> QED
    BY <2>1, <2>2
<1>4. PlanInv'
  <2> SUFFICES ASSUME NEW k \in Jobs, jobs'[k].status # "-" PROVE PlannedWell(k)'
    BY DEF PlanInv, PlannedWell
  <2>1. CASE k = j
    BY <2>1
  <2>2. CASE k # j
    <3>1. jobs'[k] = jobs[k]
      BY <1>1, <2>2
    <3>2. PlannedWell(k)
      BY <1>0, <3>1 DEF PlanInv, PlannedWell
    <3> QED
      BY <3>1, <3>2, OtherPlansStay
  <2> QED
    BY <2>1, <2>2
<1>5. FilesKept'
  BY <1>0, <1>1 DEF FilesKept
<1>6. ASSUME NEW k \in Jobs PROVE RevertWay(k)'
  <2>1. CASE k = j
    BY <2>1 DEF RevertsWell, RevertWay
  <2>2. CASE k # j
    <3> SUFFICES ASSUME Reverting(k)'
                 PROVE  /\ RevertsOf(k)'
                        /\ jobs'[k].status \in {"queued", "running"} => PutBack(k)'
      BY DEF RevertWay
    <3>1. jobs'[k] = jobs[k] /\ Reverting(k)
      BY <1>1, <2>2 DEF Reverting
    <3>2. RevertsOf(k) /\ (jobs[k].status \in {"queued", "running"} => PutBack(k))
      BY <1>0, <3>1 DEF RevertWay
    <3>3. jobs[k].of \in Jobs /\ jobs'[jobs[k].of] = jobs[jobs[k].of]
      BY <1>1, <3>2 DEF RevertsOf
    <3>4. RevertsOf(k)'
      BY <3>1, <3>2, <3>3 DEF RevertsOf, StepNames
    <3>5. jobs'[k].status \in {"queued", "running"} => PutBack(k)'
      BY <1>1, <3>1, <3>2, <3>3 DEF PutBack, Ahead
    <3> QED
      BY <3>4, <3>5
  <2> QED
    BY <2>1, <2>2
<1> QED
  BY <1>2, <1>3, <1>4, <1>5, <1>6 DEF Kept, Sound

LEMMA UpkeepDoes ==
    ASSUME ConstantsFit, TypeOK, NEW f \in Files, Verify(f) \/ Remove(f)
    PROVE  FilesStay /\ UNCHANGED <<app, jobs, lock, faults, crashes>>
<1>1. /\ files \in [Files -> FileRow \cup {None}] /\ files[f] # None /\ None \notin FileRow
      /\ UNCHANGED <<app, jobs, lock, faults, crashes>>
  BY DEF ConstantsFit, TypeOK, Verify, Remove
<1>2. PICK r \in FileRow : r = files[f]
  <2> HIDE DEF FileRow
  <2> QED
    BY <1>1
<1>3. /\ [r EXCEPT !.ok = FALSE] \in FileRow /\ [r EXCEPT !.ok = FALSE].data = r.data
      /\ [r EXCEPT !.there = FALSE] \in FileRow /\ [r EXCEPT !.there = FALSE].data = r.data
  BY <1>2 DEF FileRow
<1>4. ASSUME NEW q \in FileRow, q.data = r.data, files' = [files EXCEPT ![f] = q] PROVE FilesStay
  <2> HIDE DEF FileRow
  <2> QED
    BY <1>1, <1>2, <1>4 DEF FilesStay
<1>5. CASE Verify(f)
  <2>1. PICK q : q = [r EXCEPT !.ok = FALSE]
    OBVIOUS
  <2>2. files' = [files EXCEPT ![f] = q]
    BY <1>2, <1>5, <2>1 DEF Verify
  <2> QED
    BY <1>1, <1>3, <1>4, <2>1, <2>2
<1>6. CASE Remove(f)
  <2>1. PICK q : q = [r EXCEPT !.there = FALSE]
    OBVIOUS
  <2>2. files' = [files EXCEPT ![f] = q]
    BY <1>2, <1>6, <2>1 DEF Remove
  <2> QED
    BY <1>1, <1>3, <1>4, <2>1, <2>2
<1> QED
  BY <1>5, <1>6

LEMMA UpkeepKeeps ==
    ASSUME Kept, FilesStay, UNCHANGED <<app, jobs, lock, faults, crashes>> PROVE Kept'
<1>0. Sound /\ FilesKept /\ \A k \in Jobs : RevertWay(k)
  BY DEF Kept
<1>1. Sound'
  BY <1>0 DEF Sound, FilesStay, TypeOK, LocksInv, PlanInv, InOrder, Ahead,
         SourceNamed, StepNames, Forward, Prepares, NothingTaken,
         EnvNamed
<1>2. ASSUME NEW k \in Jobs, jobs[k].safety # 0
      PROVE  files'[jobs[k].safety] # None /\ files'[jobs[k].safety].data = files[jobs[k].safety].data
  BY <1>0, <1>2, SafetyStays
<1>3. FilesKept'
  BY <1>2 DEF FilesKept
<1>4. ASSUME NEW k \in Jobs PROVE RevertWay(k)'
  <2>1. Reverting(k)' <=> Reverting(k)
    BY DEF Reverting
  <2>2. RevertsOf(k)' <=> RevertsOf(k)
    BY DEF RevertsOf, StepNames
  <2>3. RevertsOf(k) /\ PutBack(k) => PutBack(k)'
    BY <1>2 DEF PutBack, Ahead, RevertsOf
  <2> QED
    BY <1>0, <2>1, <2>2, <2>3 DEF RevertWay
<1> QED
  BY <1>1, <1>3, <1>4 DEF Kept

\* Every step of the whole: a job moves, a job is queued, or a file is looked at or removed.
LEMMA EveryKind ==
    ASSUME ConstantsFit, Kept, Next
    PROVE  \/ \E j \in Jobs : JobMoves(j)
           \/ \E j \in Jobs : Queues(j) /\ PlannedWell(j)' /\ RevertsWell(j)'
           \/ FilesStay /\ UNCHANGED <<app, jobs, lock, faults, crashes>>
<1>0. Sound /\ TypeOK /\ LocksInv /\ Rehearsals \subseteq BOOLEAN
  BY DEF Kept, Sound, ConstantsFit
<1>1. ASSUME NEW j \in Jobs, NEW r \in Routes, NEW rehearsal \in Rehearsals, NEW flush \in BOOLEAN,
             NEW b \in Choosable(r[1]), NEW env \in {None, r[1]},
             Start(j, r[1], r[2], b, env, flush, rehearsal)
      PROVE  Queues(j) /\ PlannedWell(j)' /\ RevertsWell(j)'
  BY <1>0, <1>1, StartDoes
<1>2. ASSUME NEW j \in Jobs, NEW t \in Apps, NEW rehearsal \in Rehearsals, Deploy(j, t, rehearsal)
      PROVE  Queues(j) /\ PlannedWell(j)' /\ RevertsWell(j)'
  BY <1>0, <1>2, DeployDoes
<1>3. ASSUME NEW j \in Jobs, NEW m \in Jobs, NEW rehearsal \in Rehearsals, Revert(j, m, rehearsal)
      PROVE  Queues(j) /\ PlannedWell(j)' /\ RevertsWell(j)'
  BY <1>0, <1>3, RevertDoes
<1>4. ASSUME NEW j \in Jobs,
             \/ Work(j) \/ SourceUnreachable(j) \/ Fail(j)
             \/ Interrupt(j) \/ Expire(j)
      PROVE  JobMoves(j)
  BY <1>0, <1>4, EveryStepMoves
<1>5. ASSUME NEW f \in Files, Verify(f) \/ Remove(f)
      PROVE  FilesStay /\ UNCHANGED <<app, jobs, lock, faults, crashes>>
  BY <1>0, <1>5, UpkeepDoes
<1> QED
  BY <1>1, <1>2, <1>3, <1>4, <1>5 DEF Next

LEMMA FirstIsKept == ASSUME ConstantsFit, Init PROVE Kept
<1>1. /\ jobs = [j \in Jobs |-> Free] /\ lock = [a \in Apps |-> None] /\ faults = 0 /\ crashes = 0
  BY DEF Init
<1>2. Free \in Job
  <2>1. << >> \in Seq(PlannedStep)
    OBVIOUS
  <2> QED
    BY <2>1 DEF Job, Free
<1>3. \A j \in Jobs : jobs[j].status = "-" /\ jobs[j].safety = 0
  BY <1>1 DEF Free
<1>4. app \in [Apps -> AppState]
  <2>1. PICK schema \in [Apps -> Schemas], env \in [Apps -> BOOLEAN] :
          app = [a \in Apps |-> [data |-> IF schema[a] = "none" THEN {} ELSE {a},
                                 env |-> IF env[a] /\ a \in EnvApps THEN a ELSE None,
                                 schema |-> schema[a], code |-> "old"]]
    BY DEF Init
  <2>2. ASSUME NEW a \in Apps
        PROVE  [data |-> IF schema[a] = "none" THEN {} ELSE {a}, env |-> IF env[a] /\ a \in EnvApps THEN a ELSE None,
                schema |-> schema[a], code |-> "old"] \in AppState
    <3>1. schema[a] \in {"none", "behind", "current"}
      BY DEF ConstantsFit
    <3>2. (IF schema[a] = "none" THEN {} ELSE {a}) \in Content
      BY DEF Content
    <3>3. (IF env[a] /\ a \in EnvApps THEN a ELSE None) \in Apps \cup {None}
      OBVIOUS
    <3> QED
      BY <3>1, <3>2, <3>3 DEF AppState
  <2> HIDE DEF AppState
  <2> QED
    BY <2>1, <2>2
<1>5. files \in [Files -> FileRow \cup {None}]
  <2>1. \/ files = [f \in Files |-> None]
        \/ \E r \in Routes : files = [f \in Files |-> IF f = 1 THEN FirstFile(r[1]) ELSE None]
    BY DEF Init
  <2>2. ASSUME NEW r \in Routes PROVE FirstFile(r[1]) \in FileRow
    <3>1. r[1] \in Apps /\ {r[1]} \in Content
      BY DEF ConstantsFit, Content
    <3> QED
      BY <3>1 DEF FirstFile, FileRow
  <2> HIDE DEF FileRow, FirstFile
  <2> QED
    BY <2>1, <2>2
<1>6. TypeOK
  <2> HIDE DEF Job, AppState, FileRow
  <2> QED
    BY <1>1, <1>2, <1>4, <1>5 DEF TypeOK
<1>7. LocksInv /\ PlanInv /\ FilesKept
  BY <1>3 DEF LocksInv, PlanInv, FilesKept
<1>8. \A k \in Jobs : RevertWay(k)
  BY <1>3 DEF RevertWay, Reverting
<1> QED
  BY <1>6, <1>7, <1>8 DEF Kept, Sound

LEMMA StutterKeeps == ASSUME Kept, UNCHANGED vars PROVE Kept'
<1>1. FilesStay /\ UNCHANGED <<app, jobs, lock, faults, crashes>>
  BY DEF vars, FilesStay, Kept, Sound, TypeOK
<1> QED
  BY <1>1, UpkeepKeeps

LEMMA NextKeeps == ASSUME ConstantsFit, Kept, [Next]_(vars) PROVE Kept'
<1>1. CASE Next
  BY <1>1, EveryKind, JobMovesKeep, QueuesKeep, UpkeepKeeps
<1> QED
  BY <1>1, StutterKeeps

LEMMA KeptAlways == ASSUME ConstantsFit PROVE Spec => []Kept
<1>1. Init => Kept
  BY FirstIsKept
<1>2. Kept /\ [Next]_(vars) => Kept'
  BY NextKeeps
<1> QED
  BY <1>1, <1>2, PTL DEF Spec

(* Two redeploys never work on one application at once, and a redeploy does    *)
(* not back up a source that another is changing: for every number of          *)
(* applications and jobs, whatever fails, is killed or runs out                *)
(* (manager/redeploy/services.py).                                             *)
THEOREM OneOnEachAlways ==
    ASSUME ConstantsFit
    PROVE  Spec => []OneOnEach
<1>1. ASSUME Kept PROVE OneOnEach
  <2> SUFFICES ASSUME NEW j \in Jobs, NEW k \in Jobs, j # k, jobs[j].status = "running", jobs[k].status = "running"
               PROVE  /\ jobs[j].tgt # jobs[k].tgt
                      /\ jobs[k].tgt = jobs[j].src => lock[jobs[j].src] # j
    BY DEF OneOnEach
  <2> QED
    BY <1>1 DEF Kept, Sound, LocksInv
<1> QED
  BY <1>1, KeptAlways, PTL

(* A rehearsal only reads: a step of one changes no application and no backup  *)
(* file (redeploy/services.py: dry_run and rehearsal_commands).                *)
THEOREM RehearsalReadsAlways ==
    ASSUME ConstantsFit
    PROVE  Spec => [][RehearsalReads]_(vars)
<1>1. ASSUME Kept, Next PROVE RehearsalReads
  <2> SUFFICES ASSUME NEW k \in Jobs, jobs[k].rehearsal, jobs[k].status = "running", jobs'[k] # jobs[k]
               PROVE  app' = app /\ files' = files
    BY DEF RehearsalReads
  <2>1. ASSUME NEW j \in Jobs, JobMoves(j) PROVE app' = app /\ files' = files
    <3>1. Stepped(j)
      BY <1>1, <2>1, MoveIsMoved DEF Kept
    <3> QED
      BY <3>1 DEF Stepped, Proceeds
  <2>2. ASSUME NEW j \in Jobs, Queues(j) PROVE FALSE
    BY <2>2 DEF Queues
  <2> QED
    BY <1>1, <2>1, <2>2, EveryKind
<1> QED
  BY <1>1, KeptAlways, PTL DEF Spec

(* A revert for real that succeeds has put the target back: its data as the    *)
(* safety backup holds them and, after a move, its .env as recorded, whatever  *)
(* the other jobs did meanwhile (RedeployService._steps, _revert).             *)
THEOREM RevertPutsBackAlways ==
    ASSUME ConstantsFit
    PROVE  Spec => [][RevertPutsBack]_(vars)
<1>1. ASSUME Kept, Next PROVE RevertPutsBack
  <2> SUFFICES ASSUME NEW k \in Jobs, jobs[k].action = "revert", ~ jobs[k].rehearsal, jobs[k].status = "running",
                      jobs'[k].status = "succeeded"
               PROVE  LET m == jobs[jobs[k].of]
                          after == app[jobs[k].tgt]
                      IN  /\ m.safety # 0 => after.data = files[m.safety].data
                          /\ (m.action = "run" /\ m.recorded # None) => after.env = m.recorded
    BY DEF RevertPutsBack
  <2>1. PICK j \in Jobs : JobMoves(j) /\ j = k
    <3>1. ASSUME NEW j \in Jobs, JobMoves(j) PROVE j = k
      BY <1>1, <3>1, MoveIsMoved DEF Kept, Stepped, Proceeds
    <3>2. ASSUME NEW j \in Jobs, Queues(j) PROVE FALSE
      BY <3>2 DEF Queues
    <3> QED
      BY <1>1, <3>1, <3>2, EveryKind
  <2>2. At(k) = {} /\ Pending(k) = {}
    BY <2>1 DEF JobMoves, Begun, Started, Starts, Found, Changed, Settles, Failed, Over, Waits
  <2>3. \A i \in DOMAIN jobs[k].steps : ~ Ahead(k, i)
    BY <2>2 DEF At, Pending, Ahead
  <2>4. RevertsOf(k) /\ PutBack(k)
    BY <1>1 DEF Kept, RevertWay, Reverting
  <2>5. PICK i \in DOMAIN jobs[k].steps : jobs[k].steps[i].step = "restore"
    BY <2>4 DEF RevertsOf, StepNames
  <2>6. jobs[jobs[k].of].action = "run" => \E n \in DOMAIN jobs[k].steps : jobs[k].steps[n].step = "env"
    BY <2>4 DEF RevertsOf, StepNames
  <2> QED
    BY <2>3, <2>4, <2>5, <2>6 DEF PutBack
<1> QED
  BY <1>1, KeptAlways, PTL DEF Spec

\* The way back of a job that goes forward: nothing is changed before it is kept.
WayOf(k) == (jobs[k].status = "running" /\ Forward(k)) =>
    /\ jobs[k].rehearsal => AsBefore(k)
    /\ (\E i \in DOMAIN jobs[k].steps : jobs[k].steps[i].step \in Preparing /\ Ahead(k, i)) =>
          AsBefore(k)
    /\ ~ jobs[k].rehearsal =>
         \A i \in DOMAIN jobs[k].steps : ~ Ahead(k, i) =>
            /\ jobs[k].steps[i].step = "safety_backup" => KeptData(k)
            /\ (jobs[k].steps[i].step = "record_env" /\ jobs[k].tgt \in EnvApps) =>
                  jobs[k].recorded = jobs[k].before.env
    /\ app[jobs[k].tgt].env # jobs[k].before.env => jobs[k].tgt \in EnvApps
LEMMA WayByJob == WayInv <=> \A k \in Jobs : WayOf(k)
BY DEF WayInv, WayOf

LEMMA KeptDataStays ==
    ASSUME NEW k \in Jobs, FilesStay, jobs'[k].before = jobs[k].before, jobs'[k].safety = jobs[k].safety,
           jobs'[k].action = jobs[k].action, KeptData(k)
    PROVE  KeptData(k)'
BY DEF KeptData, Guarded, FilesStay

LEMMA OtherWaysStay ==
    ASSUME NEW k \in Jobs, FilesStay, jobs'[k] = jobs[k],
           jobs[k].status = "running" => app'[jobs[k].tgt] = app[jobs[k].tgt], WayOf(k)
    PROVE  WayOf(k)'
<1> SUFFICES ASSUME jobs'[k].status = "running", Forward(k)'
             PROVE  /\ jobs[k].rehearsal => AsBefore(k)'
                    /\ (\E i \in DOMAIN jobs[k].steps : jobs[k].steps[i].step \in Preparing
                                                        /\ Ahead(k, i)') => AsBefore(k)'
                    /\ ~ jobs[k].rehearsal =>
                         \A i \in DOMAIN jobs[k].steps : ~ Ahead(k, i)' =>
                            /\ jobs[k].steps[i].step = "safety_backup" => KeptData(k)'
                            /\ (jobs[k].steps[i].step = "record_env" /\ jobs[k].tgt \in EnvApps) =>
                                  jobs[k].recorded = jobs[k].before.env
                    /\ app'[jobs[k].tgt].env # jobs[k].before.env => jobs[k].tgt \in EnvApps
  BY DEF WayOf, Preparing
<1>1. jobs[k].status = "running" /\ Forward(k) /\ app'[jobs[k].tgt] = app[jobs[k].tgt]
  BY DEF Forward
<1>2. AsBefore(k)' <=> AsBefore(k)
  BY <1>1 DEF AsBefore
<1>3. \A i : Ahead(k, i)' <=> Ahead(k, i)
  BY DEF Ahead
<1>4. KeptData(k) => KeptData(k)'
  BY KeptDataStays
<1> QED
  BY <1>1, <1>2, <1>3, <1>4 DEF WayOf

LEMMA Prepared ==
    ASSUME Sound, NEW j \in Jobs, jobs[j].status = "running", At(j) # {}, Forward(j),
           Step(j) \notin Preparing
    PROVE  /\ \A i \in DOMAIN jobs[j].steps : jobs[j].steps[i].step \in Preparing => ~ Ahead(j, i)
           /\ Step(j) \in Changing(jobs[j].action)
           /\ \E i \in DOMAIN jobs[j].steps : jobs[j].steps[i].step = "safety_backup" /\ ~ Ahead(j, i)
           /\ \E i \in DOMAIN jobs[j].steps : jobs[j].steps[i].step = "record_env" /\ ~ Ahead(j, i)
<1>1. InOrder(j) /\ Prepares(j)
  BY DEF Sound, PlanInv
<1>2. PICK n \in DOMAIN jobs[j].steps : /\ jobs[j].steps[n].status = "running"
                                         /\ Step(j) = jobs[j].steps[n].step
  BY StepIsNamed
<1>3. \A i \in DOMAIN jobs[j].steps : jobs[j].steps[i].step \in Preparing => ~ Ahead(j, i)
  BY <1>1, <1>2 DEF InOrder, Prepares
<1>4. Step(j) \in Changing(jobs[j].action)
  BY <1>1, StepIsNamed DEF Prepares
<1>5. "safety_backup" \in StepNames(j) /\ "record_env" \in StepNames(j)
  BY <1>1 DEF Prepares
<1>6. "safety_backup" \in Preparing /\ "record_env" \in Preparing
  BY DEF Preparing
<1>7. \A name : name \in StepNames(j) => \E i \in DOMAIN jobs[j].steps : jobs[j].steps[i].step = name
  BY DEF StepNames
<1> QED
  BY <1>3, <1>4, <1>5, <1>6, <1>7

\* Only the step that pushes the .env changes it, and it is planned only where one is named.
LEMMA EnvChanges ==
    ASSUME Sound, NEW j \in Jobs, jobs[j].status = "running", At(j) # {}, Forward(j),
           CanWork(j), After(j).env # app[jobs[j].tgt].env
    PROVE  jobs[j].tgt \in EnvApps
<1>1. Step(j) = "env"
  BY JobIsKnown, AfterDoes DEF Sound
<1>2. EnvNamed(j)
  BY DEF Sound, PlanInv
<1> QED
  BY <1>1, <1>2, StepIsNamed DEF EnvNamed

LEMMA FoundKeepsWay ==
    ASSUME Sound, NEW j \in Jobs, Found(j), WayOf(j) PROVE WayOf(j)'
<1> DEFINE t == jobs[j].tgt
<1>1. PICK status \in {"succeeded", "skipped"} : Settles(j, status)
  BY DEF Found
<1>2. /\ jobs[j].status = "running" /\ At(j) # {} /\ app' = app /\ FilesStay
      /\ SameJob(jobs'[j], jobs[j]) /\ jobs'[j].before = jobs[j].before /\ jobs'[j].tgt = t
      /\ DOMAIN jobs'[j].steps = DOMAIN jobs[j].steps
      /\ \A i \in DOMAIN jobs[j].steps : jobs'[j].steps[i].step = jobs[j].steps[i].step
  BY <1>1 DEF Found, Settles, Proceeds, SameSteps, SameJob
<1>3. PICK n \in DOMAIN jobs[j].steps :
          At(j) = {n} /\ Ahead(j, n) /\ Step(j) = jobs[j].steps[n].step
  BY <1>2, StepIsNamed
<1>4. \A i \in DOMAIN jobs[j].steps : Ahead(j, i)' <=> Ahead(j, i) /\ i # n
  BY <1>1, <1>3, SettledSteps
<1> SUFFICES ASSUME Forward(j)' PROVE WayOf(j)'
  BY DEF WayOf
<1>5. Forward(j)
  BY <1>2 DEF Forward, SameJob
<1>6. AsBefore(j)' <=> AsBefore(j)
  BY <1>2 DEF AsBefore
<1>7. /\ jobs[j].rehearsal => AsBefore(j)
      /\ \A i \in DOMAIN jobs[j].steps :
            (jobs[j].steps[i].step \in Preparing /\ Ahead(j, i)) => AsBefore(j)
      /\ ~ jobs[j].rehearsal =>
           \A i \in DOMAIN jobs[j].steps : ~ Ahead(j, i) =>
              /\ jobs[j].steps[i].step = "safety_backup" => KeptData(j)
              /\ (jobs[j].steps[i].step = "record_env" /\ t \in EnvApps) =>
                    jobs[j].recorded = jobs[j].before.env
      /\ app[t].env # jobs[j].before.env => t \in EnvApps
  BY <1>2, <1>5 DEF WayOf
<1>8. ASSUME Step(j) = "safety_backup", ~ jobs[j].rehearsal PROVE KeptData(j)'
  <2>1. AsBefore(j)
    BY <1>3, <1>7, <1>8 DEF Preparing
  <2>2. CASE ~ Guarded(j)
    <3>1. ~ Guarded(j)'
      BY <1>2, <2>2 DEF Guarded, SameJob
    <3> QED
      BY <3>1 DEF KeptData
  <2>3. CASE Guarded(j)
    <3>1. jobs[j].action = "deploy" \/ HoldsData(t)
      BY <2>1, <2>3 DEF Guarded, AsBefore, HoldsData
    <3>2. /\ jobs'[j].safety \in Files /\ files'[jobs'[j].safety] # None
          /\ files'[jobs'[j].safety].data = app[t].data
      BY <1>8, <3>1 DEF Found
    <3>3. app[t].data = jobs'[j].before.data
      BY <1>2, <2>1 DEF AsBefore
    <3> QED
      BY <3>2, <3>3 DEF KeptData
  <2> QED
    BY <2>2, <2>3
<1>9. ASSUME NEW i \in DOMAIN jobs[j].steps, ~ Ahead(j, i)', ~ jobs[j].rehearsal
      PROVE  /\ jobs[j].steps[i].step = "safety_backup" => KeptData(j)'
             /\ (jobs[j].steps[i].step = "record_env" /\ t \in EnvApps) => jobs'[j].recorded = jobs[j].before.env
  <2>1. ASSUME jobs[j].steps[i].step = "safety_backup" PROVE KeptData(j)'
    <3>1. CASE Step(j) = "safety_backup"
      BY <1>8, <1>9, <3>1
    <3>2. CASE Step(j) # "safety_backup"
      <4>1. KeptData(j)
        BY <1>3, <1>4, <1>7, <1>9, <2>1, <3>2
      <4>2. jobs'[j].safety = jobs[j].safety
        BY <3>2 DEF Found
      <4> QED
        BY <1>2, <4>1, <4>2, KeptDataStays DEF SameJob
    <3> QED
      BY <3>1, <3>2
  <2>2. ASSUME jobs[j].steps[i].step = "record_env", t \in EnvApps PROVE jobs'[j].recorded = jobs[j].before.env
    <3>1. CASE Step(j) = "record_env"
      <4>1. AsBefore(j)
        BY <1>3, <1>7, <3>1 DEF Preparing
      <4> QED
        BY <2>2, <3>1, <4>1 DEF Found, AsBefore
    <3>2. CASE Step(j) # "record_env"
      <4>1. jobs[j].recorded = jobs[j].before.env
        BY <1>3, <1>4, <1>7, <1>9, <2>2, <3>2
      <4> QED
        BY <3>2, <4>1 DEF Found
    <3> QED
      BY <3>1, <3>2
  <2> QED
    BY <2>1, <2>2
<1>10. jobs'[j].rehearsal <=> jobs[j].rehearsal
  BY <1>2 DEF SameJob
<1>11. jobs'[j].rehearsal => AsBefore(j)'
  BY <1>6, <1>7, <1>10
<1>12. \A i \in DOMAIN jobs[j].steps :
          (jobs[j].steps[i].step \in Preparing /\ Ahead(j, i)') => AsBefore(j)'
  BY <1>4, <1>6, <1>7
<1>13. (\E i \in DOMAIN jobs'[j].steps : jobs'[j].steps[i].step \in Preparing' /\ Ahead(j, i)')
          => AsBefore(j)'
  BY <1>2, <1>12 DEF Preparing
<1>14. ~ jobs'[j].rehearsal =>
         \A i \in DOMAIN jobs'[j].steps : ~ Ahead(j, i)' =>
            /\ jobs'[j].steps[i].step = "safety_backup" => KeptData(j)'
            /\ (jobs'[j].steps[i].step = "record_env" /\ jobs'[j].tgt \in EnvApps) =>
                  jobs'[j].recorded = jobs'[j].before.env
  BY <1>2, <1>9, <1>10
<1>15. app'[jobs'[j].tgt].env # jobs'[j].before.env => jobs'[j].tgt \in EnvApps
  BY <1>2, <1>7
<1> QED
  BY <1>11, <1>13, <1>14, <1>15 DEF WayOf

LEMMA ChangedKeepsWay ==
    ASSUME Sound, NEW j \in Jobs, Changed(j), WayOf(j) PROVE WayOf(j)'
<1> DEFINE t == jobs[j].tgt
<1>1. /\ jobs[j].status = "running" /\ At(j) # {} /\ ~ jobs[j].rehearsal /\ CanWork(j)
      /\ app' = [app EXCEPT ![t] = After(j)] /\ files' = files /\ Settles(j, "succeeded")
      /\ SameFinds(jobs'[j], jobs[j]) /\ Step(j) \in {"env", "restore"} \cup Kinds
  BY DEF Changed
<1>2. /\ SameJob(jobs'[j], jobs[j]) /\ jobs'[j].before = jobs[j].before /\ jobs'[j].tgt = t
      /\ DOMAIN jobs'[j].steps = DOMAIN jobs[j].steps
      /\ \A i \in DOMAIN jobs[j].steps : jobs'[j].steps[i].step = jobs[j].steps[i].step
  BY <1>1 DEF Settles, Proceeds, SameSteps, SameJob
<1>3. PICK n \in DOMAIN jobs[j].steps :
          At(j) = {n} /\ Ahead(j, n) /\ Step(j) = jobs[j].steps[n].step
  BY <1>1, StepIsNamed
<1>4. \A i \in DOMAIN jobs[j].steps : Ahead(j, i)' <=> Ahead(j, i) /\ i # n
  BY <1>1, <1>3, SettledSteps
<1> SUFFICES ASSUME Forward(j)' PROVE WayOf(j)'
  BY DEF WayOf
<1>5. Forward(j)
  BY <1>2 DEF Forward, SameJob
<1>6. Step(j) \notin Preparing
  BY <1>1 DEF Preparing, Kinds
<1>7. \A i \in DOMAIN jobs[j].steps : jobs[j].steps[i].step \in Preparing => ~ Ahead(j, i)
  BY <1>1, <1>5, <1>6, Prepared
<1>8. /\ \A i \in DOMAIN jobs[j].steps : ~ Ahead(j, i) =>
              /\ jobs[j].steps[i].step = "safety_backup" => KeptData(j)
              /\ (jobs[j].steps[i].step = "record_env" /\ t \in EnvApps) =>
                    jobs[j].recorded = jobs[j].before.env
      /\ app[t].env # jobs[j].before.env => t \in EnvApps
  BY <1>1, <1>5 DEF WayOf
<1>9. FilesStay
  BY <1>1 DEF FilesStay, Sound, TypeOK
<1>10. KeptData(j) => KeptData(j)'
  BY <1>1, <1>2, <1>9, KeptDataStays DEF SameFinds, SameJob
<1>11. jobs'[j].recorded = jobs[j].recorded
  BY <1>1 DEF SameFinds
<1>12. t \in Apps /\ app'[t] = After(j)
  BY <1>1, JobIsKnown DEF Sound, TypeOK
<1>13. app'[t].env # jobs[j].before.env => t \in EnvApps
  BY <1>1, <1>5, <1>8, <1>12, EnvChanges
<1>14. {"safety_backup", "record_env"} \subseteq Preparing
  BY DEF Preparing
<1>15. ASSUME NEW i \in DOMAIN jobs[j].steps
       PROVE  /\ jobs[j].steps[i].step = "safety_backup" => KeptData(j)'
              /\ (jobs[j].steps[i].step = "record_env" /\ t \in EnvApps) => jobs'[j].recorded = jobs[j].before.env
  BY <1>7, <1>8, <1>10, <1>11, <1>14
<1>16. ~ jobs'[j].rehearsal
  BY <1>1, <1>2 DEF SameJob
<1>17. ~ \E i \in DOMAIN jobs'[j].steps : jobs'[j].steps[i].step \in Preparing' /\ Ahead(j, i)'
  BY <1>2, <1>4, <1>7 DEF Preparing
<1>18. \A i \in DOMAIN jobs'[j].steps :
            /\ jobs'[j].steps[i].step = "safety_backup" => KeptData(j)'
            /\ (jobs'[j].steps[i].step = "record_env" /\ jobs'[j].tgt \in EnvApps) =>
                  jobs'[j].recorded = jobs'[j].before.env
  BY <1>2, <1>15
<1>19. app'[jobs'[j].tgt].env # jobs'[j].before.env => jobs'[j].tgt \in EnvApps
  BY <1>2, <1>13
<1> QED
  BY <1>16, <1>17, <1>18, <1>19 DEF WayOf

LEMMA BegunKeepsWay ==
    ASSUME Sound, NEW j \in Jobs, Begun(j) PROVE WayOf(j)'
<1>1. /\ jobs[j].status = "queued" /\ SameJob(jobs'[j], jobs[j]) /\ jobs'[j].before = app[jobs[j].tgt]
      /\ jobs'[j].steps = jobs[j].steps /\ app' = app /\ jobs'[j].tgt = jobs[j].tgt
  BY DEF Begun, Proceeds, SameJob
<1>2. AsBefore(j)'
  BY <1>1 DEF AsBefore
<1> SUFFICES ASSUME Forward(j)' PROVE WayOf(j)'
  BY DEF WayOf
<1>3. NothingTaken(j)
  BY <1>1 DEF Sound, PlanInv, Forward, SameJob
<1>4. ~ jobs'[j].rehearsal => \A i \in DOMAIN jobs'[j].steps :
         jobs'[j].steps[i].step \in {"record_env", "safety_backup"} => Ahead(j, i)'
  BY <1>1, <1>3 DEF NothingTaken, Ahead, SameJob
<1>5. app'[jobs'[j].tgt].env = jobs'[j].before.env
  BY <1>1
<1> QED
  BY <1>2, <1>4, <1>5 DEF WayOf

LEMMA StartedKeepsWay ==
    ASSUME NEW j \in Jobs, Sound, Started(j), WayOf(j) PROVE WayOf(j)'
<1>1. /\ jobs[j].status = "running" /\ SameJob(jobs'[j], jobs[j]) /\ jobs'[j].before = jobs[j].before
      /\ app' = app /\ files' = files /\ jobs'[j].tgt = jobs[j].tgt /\ (jobs'[j].rehearsal <=> jobs[j].rehearsal)
      /\ DOMAIN jobs'[j].steps = DOMAIN jobs[j].steps
      /\ \A i \in DOMAIN jobs[j].steps : jobs'[j].steps[i].step = jobs[j].steps[i].step
      /\ jobs'[j].safety = jobs[j].safety /\ jobs'[j].recorded = jobs[j].recorded
  BY DEF Started, Starts, Proceeds, SameJob, SameSteps, SameFinds
<1>2. \A i \in DOMAIN jobs[j].steps : Ahead(j, i)' <=> Ahead(j, i)
  BY StartedSteps DEF Started
<1>3. AsBefore(j)' <=> AsBefore(j)
  BY <1>1 DEF AsBefore
<1>4. KeptData(j)' <=> KeptData(j)
  BY <1>1 DEF KeptData, Guarded, SameJob
<1> SUFFICES ASSUME Forward(j)' PROVE WayOf(j)'
  BY DEF WayOf
<1>5. Forward(j)
  BY <1>1 DEF Forward, SameJob
<1>6. /\ jobs[j].rehearsal => AsBefore(j)
      /\ \A i \in DOMAIN jobs[j].steps :
            (jobs[j].steps[i].step \in Preparing /\ Ahead(j, i)) => AsBefore(j)
      /\ ~ jobs[j].rehearsal =>
           \A i \in DOMAIN jobs[j].steps : ~ Ahead(j, i) =>
              /\ jobs[j].steps[i].step = "safety_backup" => KeptData(j)
              /\ (jobs[j].steps[i].step = "record_env" /\ jobs[j].tgt \in EnvApps) =>
                    jobs[j].recorded = jobs[j].before.env
      /\ app[jobs[j].tgt].env # jobs[j].before.env => jobs[j].tgt \in EnvApps
  BY <1>1, <1>5 DEF WayOf
<1>7. jobs'[j].rehearsal => AsBefore(j)'
  BY <1>1, <1>3, <1>6
<1>8. (\E i \in DOMAIN jobs'[j].steps : jobs'[j].steps[i].step \in Preparing' /\ Ahead(j, i)')
         => AsBefore(j)'
  BY <1>1, <1>2, <1>3, <1>6 DEF Preparing
<1>9. ~ jobs'[j].rehearsal =>
         \A i \in DOMAIN jobs'[j].steps : ~ Ahead(j, i)' =>
            /\ jobs'[j].steps[i].step = "safety_backup" => KeptData(j)'
            /\ (jobs'[j].steps[i].step = "record_env" /\ jobs'[j].tgt \in EnvApps) =>
                  jobs'[j].recorded = jobs'[j].before.env
  BY <1>1, <1>2, <1>4, <1>6
<1>10. app'[jobs'[j].tgt].env # jobs'[j].before.env => jobs'[j].tgt \in EnvApps
  BY <1>1, <1>6
<1> QED
  BY <1>7, <1>8, <1>9, <1>10 DEF WayOf

LEMMA JobMovesKeepWay ==
    ASSUME ConstantsFit, Sound, NEW j \in Jobs, JobMoves(j), NEW k \in Jobs, WayOf(k)
    PROVE  WayOf(k)'
<1>0. Stepped(j)
  BY MoveIsMoved
<1>1. CASE k # j
  <2>1. FilesStay /\ jobs'[k] = jobs[k]
    BY <1>0, <1>1 DEF Stepped, Proceeds
  <2>2. jobs[k].status = "running" => app'[jobs[k].tgt] = app[jobs[k].tgt]
    BY <1>0, <1>1, OtherTargetsStay
  <2> QED
    BY <2>1, <2>2, OtherWaysStay
<1>2. CASE k = j
  <2>1. ASSUME jobs'[j].status # "running" PROVE WayOf(j)'
    BY <2>1 DEF WayOf
  <2>2. CASE Failed(j) \/ Over(j)
    BY <1>2, <2>1, <2>2 DEF Failed, Over, Ends
  <2>3. CASE Waits(j)
    <3>1. FilesStay /\ jobs'[j] = jobs[j] /\ app'[jobs[j].tgt] = app[jobs[j].tgt]
      BY <1>0, <2>3 DEF Waits, Stepped
    <3> QED
      BY <1>2, <3>1, OtherWaysStay
  <2> QED
    BY <1>2, <2>2, <2>3, BegunKeepsWay, StartedKeepsWay, FoundKeepsWay, ChangedKeepsWay DEF JobMoves
<1> QED
  BY <1>1, <1>2

LEMMA NextKeepsWay ==
    ASSUME ConstantsFit, Kept, WayInv, [Next]_(vars)
    PROVE  WayInv'
<1> SUFFICES ASSUME NEW k \in Jobs PROVE WayOf(k)'
  BY DEF WayInv, WayOf
<1>0. WayOf(k) /\ Sound
  BY WayByJob DEF Kept
<1>1. ASSUME NEW j \in Jobs, JobMoves(j) PROVE WayOf(k)'
  BY <1>0, <1>1, JobMovesKeepWay
<1>2. ASSUME NEW j \in Jobs, Queues(j) PROVE WayOf(k)'
  <2>1. jobs'[j].status = "queued" /\ app' = app /\ files' = files /\ \A l \in Jobs \ {j} : jobs'[l] = jobs[l]
    BY <1>2 DEF Queues
  <2>2. FilesStay
    BY <1>0, <2>1 DEF FilesStay, Sound, TypeOK
  <2>3. CASE k = j
    BY <2>1, <2>3 DEF WayOf
  <2>4. CASE k # j
    BY <1>0, <2>1, <2>2, <2>4, OtherWaysStay
  <2> QED
    BY <2>3, <2>4
<1>3. ASSUME FilesStay, UNCHANGED <<app, jobs, lock, faults, crashes>> PROVE WayOf(k)'
  BY <1>0, <1>3, OtherWaysStay
<1>4. CASE UNCHANGED vars
  <2>1. FilesStay /\ UNCHANGED <<app, jobs, lock, faults, crashes>>
    BY <1>0, <1>4 DEF vars, FilesStay, Sound, TypeOK
  <2> QED
    BY <1>3, <2>1
<1>5. CASE Next
  BY <1>1, <1>2, <1>3, <1>5, EveryKind
<1> QED
  BY <1>4, <1>5

(* There is a way back. When a redeploy for real stops, by a failure or by the *)
(* end of the manager, with its target's .env changed, or data that it backs   *)
(* up, the safety backup and the recorded .env are what was there when it      *)
(* began; unless the manager was killed, it may be reverted                    *)
(* (RedeployService._steps, _may_revert, _safety_backup).                      *)
THEOREM WayBackAlways ==
    ASSUME ConstantsFit PROVE Spec => [][WayBack]_(vars)
<1>1. Init => WayInv
  BY DEF Init, WayInv, Free
<1>2. Kept /\ WayInv /\ [Next]_(vars) => WayInv'
  BY NextKeepsWay
<1>3. ASSUME Kept, WayInv, Next PROVE WayBack
  <2> SUFFICES ASSUME NEW k \in Jobs, jobs[k].status = "running", jobs'[k].status = "failed",
                      jobs[k].action \in {"run", "deploy"}
               PROVE  LET was == jobs[k].before
                          after == app'[jobs[k].tgt]
                      IN  /\ (Guarded(k) /\ after.data # was.data) =>
                                files[jobs[k].safety].data = was.data /\ Reverts(k)
                          /\ (was.env # None /\ after.env # was.env) =>
                                jobs[k].recorded = was.env /\ Reverts(k)
    BY DEF WayBack
  <2> DEFINE t == jobs[k].tgt
             was == jobs[k].before
             after == app'[t]
  <2>0. Sound /\ WayOf(k) /\ Forward(k) /\ crashes \in Nat
    BY <1>3, WayByJob DEF Kept, Sound, TypeOK, Forward
  <2>1. PICK j \in Jobs : JobMoves(j) /\ j = k
    <3>1. ASSUME NEW j \in Jobs, JobMoves(j) PROVE j = k
      BY <2>0, <3>1, MoveIsMoved DEF Stepped, Proceeds
    <3>2. ASSUME NEW j \in Jobs, Queues(j) PROVE FALSE
      BY <3>2 DEF Queues
    <3> QED
      BY <1>3, <3>1, <3>2, EveryKind
  <2>2. Failed(k) \/ (Over(k) /\ crashes' = crashes + 1)
    BY <2>0, <2>1 DEF JobMoves, Begun, Started, Starts, Found, Changed, Settles, Over, Waits
  <2>3. t \in Apps /\ app \in [Apps -> AppState]
    BY <2>0, JobIsKnown DEF Sound, TypeOK
  <2>4. /\ jobs[k].rehearsal => AsBefore(k)
        /\ (\E i \in DOMAIN jobs[k].steps : jobs[k].steps[i].step \in Preparing /\ Ahead(k, i)) =>
              AsBefore(k)
        /\ ~ jobs[k].rehearsal =>
             \A i \in DOMAIN jobs[k].steps : ~ Ahead(k, i) =>
                /\ jobs[k].steps[i].step = "safety_backup" => KeptData(k)
                /\ (jobs[k].steps[i].step = "record_env" /\ t \in EnvApps) => jobs[k].recorded = was.env
        /\ app[t].env # was.env => t \in EnvApps
    BY <2>0 DEF WayOf
  <2>5. ASSUME app' = app, AsBefore(k) PROVE after.data = was.data /\ after.env = was.env
    BY <2>5 DEF AsBefore
  <2>6. 0 \notin Files
    <3>1. PICK n \in Nat : Files = 1 .. n
      BY FilesAreNumbered
    <3> QED
      BY <3>1
  <2>7. ASSUME ~ jobs[k].rehearsal,
               \A i \in DOMAIN jobs[k].steps : jobs[k].steps[i].step \in Preparing => ~ Ahead(k, i)
        PROVE  /\ Guarded(k) => jobs[k].safety # 0 /\ files[jobs[k].safety].data = was.data
               /\ t \in EnvApps => jobs[k].recorded = was.env
    <3>1. {"safety_backup", "record_env"} \subseteq StepNames(k)
      BY <2>0 DEF Sound, PlanInv, Prepares
    <3>2. {"safety_backup", "record_env"} \subseteq Preparing
      BY DEF Preparing
    <3>3. PICK i \in DOMAIN jobs[k].steps : jobs[k].steps[i].step = "safety_backup"
      BY <3>1 DEF StepNames
    <3>4. PICK l \in DOMAIN jobs[k].steps : jobs[k].steps[l].step = "record_env"
      BY <3>1 DEF StepNames
    <3>5. KeptData(k) /\ (t \in EnvApps => jobs[k].recorded = was.env)
      BY <2>4, <2>7, <3>2, <3>3, <3>4
    <3> QED
      BY <2>6, <3>5 DEF KeptData
  <2>8. CASE Over(k) /\ crashes' = crashes + 1
    <3>1. app' = app /\ Reverts(k)
      BY <2>0, <2>8 DEF Over, Reverts
    <3>2. CASE AsBefore(k)
      BY <2>5, <3>1, <3>2
    <3>3. CASE ~ AsBefore(k)
      <4>1. /\ Guarded(k) => jobs[k].safety # 0 /\ files[jobs[k].safety].data = was.data
            /\ t \in EnvApps => jobs[k].recorded = was.env
        BY <2>4, <2>7, <3>3
      <4> QED
        BY <2>4, <3>1, <4>1
    <3> QED
      BY <3>2, <3>3
  <2>9. CASE Failed(k)
    <3>1. /\ At(k) # {} /\ jobs'[k].revertable = MayRevert(k)
          /\ \/ app' = app
             \/ /\ ~ jobs[k].rehearsal /\ CanWork(k) /\ After(k) # app[t]
                /\ app' = [app EXCEPT ![t] = After(k)]
      BY <2>9 DEF Failed
    <3>2. CASE jobs[k].rehearsal
      BY <2>4, <2>5, <3>1, <3>2
    <3>3. CASE Step(k) \in Preparing
      <4>1. AsBefore(k)
        BY <2>0, <2>4, <3>1, <3>3, StepIsNamed
      <4>2. app' = app
        BY <2>0, <2>3, <3>1, <3>3, AfterDoes DEF Sound
      <4> QED
        BY <2>5, <4>1, <4>2
    <3>4. CASE ~ jobs[k].rehearsal /\ Step(k) \notin Preparing
      <4>1. /\ Step(k) \in Changing(jobs[k].action)
            /\ \A i \in DOMAIN jobs[k].steps : jobs[k].steps[i].step \in Preparing => ~ Ahead(k, i)
        BY <2>0, <3>1, <3>4, Prepared
      <4>2. /\ Guarded(k) => jobs[k].safety # 0 /\ files[jobs[k].safety].data = was.data
            /\ t \in EnvApps => jobs[k].recorded = was.env
        BY <2>7, <3>4, <4>1
      <4>3. jobs[k].safety # 0 \/ jobs[k].recorded # None => Reverts(k)
        BY <3>1, <3>4, <4>1 DEF MayRevert, Reverts
      <4>4. after.env # was.env => t \in EnvApps
        <5>1. CASE app' = app
          BY <2>4, <5>1
        <5>2. CASE app' # app
          <6>1. CanWork(k) /\ after = After(k)
            BY <2>3, <3>1, <5>2
          <6>2. after.env # app[t].env => t \in EnvApps
            BY <2>0, <3>1, <6>1, EnvChanges
          <6> QED
            BY <2>4, <6>2
        <5> QED
          BY <5>1, <5>2
      <4> QED
        BY <4>2, <4>3, <4>4
    <3> QED
      BY <3>2, <3>3, <3>4
  <2> QED
    BY <2>2, <2>8, <2>9
<1> QED
  BY <1>1, <1>2, <1>3, KeptAlways, PTL DEF Spec
=============================================================================
