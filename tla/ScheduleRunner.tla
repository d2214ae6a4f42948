---------------------------- MODULE ScheduleRunner ----------------------------
(***************************************************************************)
(* The panel's backup schedule (dbs/schedule_runner.py): every web worker  *)
(* ticks once a minute, the one that takes the runner lease reads the      *)
(* schedule row again, resumes what an earlier run left behind and lets a  *)
(* child process take the backup.  The runner lease appears here by what   *)
(* PanelJobs proves of it: one holder, freed by its holder or, once nobody *)
(* renews it, by time.  A post of the admin form loads the row and saves it.*)
(***************************************************************************)
EXTENDS Integers, TLAPS

CONSTANTS
    Workers,     \* web workers, each with its scheduler thread
    NoOne,       \* nobody holds the runner lease
    Closed,      \* no schedule form is open
    Interval,    \* the schedule's interval, in ticks of the clock
    MaxClock,    \* bound: the last moment that is modelled
    MaxDeaths,   \* bound: workers that die and children that do not start
    MaxEdits     \* bound: posts of the schedule form and forced runs

ASSUME ScheduleAssumption ==
    /\ NoOne \notin Workers
    /\ Interval \in Nat \ {0}
    /\ MaxClock \in Nat
    /\ MaxDeaths \in Nat
    /\ MaxEdits \in Nat

VARIABLES
    row,      \* the BackupSchedule row: enabled, last_status, next_run_at
    clock,
    lock,     \* the worker whose runner lease it is
    step,     \* step[w]: where worker w is in run_due
    now,      \* now[w]: the moment w's tick began
    forced,   \* forced[w]: run_due(force=True), from dbs schedule --once
    copy,     \* copy[w]: the row as w refreshed it
    form,     \* the row as a post of the admin form loaded it, or Closed
    deaths, edits,
    good,     \* history: the moment of the last backup that succeeded
    tries,    \* history: attempts of the schedule itself since next_run_at last moved
    touched,  \* history: since that backup somebody saved the form or forced a run
    reset,    \* history: ... other than by a save that keeps interval and enabled
    setback   \* history: ... or a retry was given up and next_run_at moved backwards

vars == <<row, clock, lock, step, now, forced, copy, form, deaths, edits, good, tries,
          touched, reset, setback>>
history == <<good, tries, touched, reset, setback>>

Statuses == {"", "running", "retrying", "interrupted", "failed", "succeeded"}
Moments == 0 .. MaxClock + Interval     \* 0 stands for next_run_at = None too
LongAgo == 0 - Interval
Rows == [enabled : BOOLEAN, status : Statuses, next : Moments]
Steps == {"idle", "take", "refresh", "resume", "start", "run", "runAlone", "release"}

TypeOK ==
    /\ row \in Rows
    /\ clock \in 0 .. MaxClock
    /\ lock \in Workers \cup {NoOne}
    /\ step \in [Workers -> Steps]
    /\ now \in [Workers -> 0 .. MaxClock]
    /\ forced \in [Workers -> BOOLEAN]
    /\ copy \in [Workers -> Rows]
    /\ form \in Rows \cup {Closed}
    /\ deaths \in 0 .. MaxDeaths
    /\ edits \in 0 .. MaxEdits
    /\ good \in {LongAgo} \cup 0 .. MaxClock
    /\ tries \in Nat
    /\ touched \in BOOLEAN /\ reset \in BOOLEAN /\ setback \in BOOLEAN

FirstRow == [enabled |-> TRUE, status |-> "", next |-> 0]

Init ==
    /\ row = FirstRow
    /\ clock = 0
    /\ lock = NoOne
    /\ step = [w \in Workers |-> "idle"]
    /\ now = [w \in Workers |-> 0]
    /\ forced = [w \in Workers |-> FALSE]
    /\ copy = [w \in Workers |-> FirstRow]
    /\ form = Closed
    /\ deaths = 0 /\ edits = 0
    /\ good = LongAgo /\ tries = 0 /\ touched = FALSE /\ reset = FALSE
    /\ setback = FALSE

\* run_due's local variables live no longer than its call.
Goto(w, s) ==
    /\ step' = [step EXCEPT ![w] = s]
    /\ now' = IF s = "idle" THEN [now EXCEPT ![w] = 0] ELSE now
    /\ forced' = IF s = "idle" THEN [forced EXCEPT ![w] = FALSE] ELSE forced
    /\ copy' = IF s = "resume" THEN [copy EXCEPT ![w] = row] ELSE [copy EXCEPT ![w] = FirstRow]

\* ... and begin with it.
Begin(w, force) ==
    /\ step' = [step EXCEPT ![w] = "take"]
    /\ now' = [now EXCEPT ![w] = clock]
    /\ forced' = [forced EXCEPT ![w] = force]

IsDue(schedule, moment) == schedule.next <= moment

Following(w) == now[w] + Interval

-----------------------------------------------------------------------------
(* run_due, in a worker. *)

\* The checks before the lease: enabled, and due at the moment of the tick.
TickDue(w) ==
    /\ step[w] = "idle" /\ lock # w
    /\ row.enabled /\ IsDue(row, clock)
    /\ Begin(w, FALSE)
    /\ UNCHANGED <<row, clock, lock, copy, form, deaths, edits, history>>

\* dbs schedule --once skips them.
RunForced(w) ==
    /\ step[w] = "idle" /\ lock # w
    /\ edits < MaxEdits /\ edits' = edits + 1
    /\ Begin(w, TRUE)
    /\ UNCHANGED <<row, clock, lock, copy, form, deaths, history>>

Take(w) ==
    /\ step[w] = "take"
    /\ lock = NoOne
    /\ lock' = w
    /\ Goto(w, "refresh")
    /\ touched' = (touched \/ forced[w]) /\ reset' = (reset \/ forced[w])
    /\ UNCHANGED <<row, clock, form, deaths, edits, good, tries, setback>>

Busy(w) ==
    /\ step[w] = "take"
    /\ lock # NoOne
    /\ Goto(w, "idle")
    /\ UNCHANGED <<row, clock, lock, form, deaths, edits, history>>

\* schedule.refresh_from_db, now that the lease is held.
Refresh(w) ==
    /\ step[w] = "refresh"
    /\ Goto(w, "resume")
    /\ UNCHANGED <<row, clock, lock, form, deaths, edits, history>>

\* Mutant: a retry that was cut short is retried like a first run.
ResumeAgain(w) ==
    /\ step[w] = "resume"
    /\ row' = IF copy[w].status \in {"running", "retrying"}
              THEN [row EXCEPT !.status = "interrupted"] ELSE row
    /\ Goto(w, IF forced[w] \/ IsDue(copy[w], now[w]) THEN "start" ELSE "release")
    /\ UNCHANGED <<clock, lock, form, deaths, edits, history>>

\* Mutant: the row is not checked again once the lease is held.
ResumeUnchecked(w) ==
    /\ step[w] = "resume"
    /\ row' = IF copy[w].status = "running" THEN [row EXCEPT !.status = "interrupted"]
              ELSE IF copy[w].status = "retrying"
              THEN [row EXCEPT !.status = "failed", !.next = Following(w)] ELSE row
    /\ Goto(w, IF forced[w] \/ copy[w].status # "retrying" THEN "start" ELSE "release")
    /\ UNCHANGED <<clock, lock, form, deaths, edits, history>>

\* _resume: a run cut short is taken again once, a retry cut short gives the
\* interval up; then the schedule has to be due still.
Resume(w) ==
    /\ step[w] = "resume"
    /\ \/ /\ copy[w].status = "running"
          /\ row' = [row EXCEPT !.status = "interrupted"]
          /\ Goto(w, IF forced[w] \/ IsDue(copy[w], now[w]) THEN "start" ELSE "release")
          /\ UNCHANGED <<tries, setback>>
       \/ /\ copy[w].status = "retrying"
          /\ row' = [row EXCEPT !.status = "failed", !.next = Following(w)]
          /\ tries' = 0
          /\ setback' = (setback \/ Following(w) < row.next)
          /\ Goto(w, IF forced[w] THEN "start" ELSE "release")
       \/ /\ copy[w].status \notin {"running", "retrying"}
          /\ Goto(w, IF forced[w] \/ IsDue(copy[w], now[w]) THEN "start" ELSE "release")
          /\ UNCHANGED <<row, tries, setback>>
    /\ UNCHANGED <<clock, lock, form, deaths, edits, good, touched, reset>>

\* _run, in the child: the attempt is recorded before the backup begins.
StartRun(w) ==
    /\ step[w] = "start"
    /\ row' = [row EXCEPT !.status = IF @ = "interrupted" THEN "retrying" ELSE "running"]
    /\ Goto(w, "run")
    /\ tries' = IF forced[w] THEN tries ELSE tries + 1
    /\ UNCHANGED <<clock, lock, form, deaths, edits, good, touched, reset, setback>>

\* The child ends; its parent, when it still lives, frees the lease.
Ending(w) == Goto(w, IF step[w] = "run" THEN "release" ELSE "idle")

Succeed(w) ==
    /\ step[w] \in {"run", "runAlone"}
    /\ row' = [row EXCEPT !.status = "succeeded", !.next = Following(w)]
    /\ Ending(w)
    /\ good' = now[w] /\ tries' = 0 /\ touched' = forced[w] /\ reset' = forced[w]
    /\ setback' = FALSE
    /\ UNCHANGED <<clock, lock, form, deaths, edits>>

\* Mutant: a failure leaves the schedule due.
FailDue(w) ==
    /\ step[w] \in {"run", "runAlone"}
    /\ row' = [row EXCEPT !.status = "failed"]
    /\ Ending(w)
    /\ tries' = 0
    /\ UNCHANGED <<clock, lock, form, deaths, edits, good, touched, reset, setback>>

Fail(w) ==
    /\ step[w] \in {"run", "runAlone"}
    /\ row' = [row EXCEPT !.status = "failed", !.next = Following(w)]
    /\ Ending(w)
    /\ tries' = 0
    /\ UNCHANGED <<clock, lock, form, deaths, edits, good, touched, reset, setback>>

\* The child is killed: nobody writes an outcome into the row.
ChildDies(w) ==
    /\ step[w] \in {"run", "runAlone"}
    /\ Ending(w)
    /\ UNCHANGED <<row, clock, lock, form, deaths, edits, history>>

\* The child does not start; run_and_wait raises and the row stays.
StartFails(w) ==
    /\ step[w] = "start"
    /\ deaths < MaxDeaths /\ deaths' = deaths + 1
    /\ Goto(w, "release")
    /\ UNCHANGED <<row, clock, lock, form, edits, history>>

Release(w) ==
    /\ step[w] = "release"
    /\ lock' = NoOne
    /\ Goto(w, "idle")
    /\ UNCHANGED <<row, clock, form, deaths, edits, history>>

\* The worker dies: a child that runs lives on, the lease is nobody's to free.
WorkerDies(w) ==
    /\ step[w] \notin {"idle", "runAlone"}
    /\ deaths < MaxDeaths /\ deaths' = deaths + 1
    /\ Goto(w, IF step[w] = "run" THEN "runAlone" ELSE "idle")
    /\ UNCHANGED <<row, clock, lock, form, edits, history>>

\* Nobody renews the lease of a dead holder, and it runs out.
Expire(w) ==
    /\ lock = w /\ step[w] = "idle"
    /\ lock' = NoOne
    /\ UNCHANGED <<row, clock, step, now, forced, copy, form, deaths, edits, history>>

-----------------------------------------------------------------------------
(* BackupScheduleAdmin: a post of the form loads the row without a lock, and *)
(* saves every column of it.                                                 *)

OpenForm ==
    /\ form = Closed
    /\ edits < MaxEdits /\ edits' = edits + 1
    /\ form' = row
    /\ UNCHANGED <<row, clock, lock, step, now, forced, copy, deaths, history>>

\* A changed keep or database saves the columns as they were loaded.
SaveForm ==
    /\ form # Closed
    /\ row' = form
    /\ form' = Closed
    /\ touched' = TRUE /\ tries' = 0
    /\ UNCHANGED <<clock, lock, step, now, forced, copy, deaths, edits, good, reset, setback>>

\* A changed interval or enabled also makes the schedule due.
SaveReset ==
    /\ form # Closed
    /\ \E on \in BOOLEAN : row' = [form EXCEPT !.enabled = on, !.next = 0]
    /\ form' = Closed
    /\ touched' = TRUE /\ reset' = TRUE /\ tries' = 0
    /\ UNCHANGED <<clock, lock, step, now, forced, copy, deaths, edits, good, setback>>

Advance ==
    /\ clock < MaxClock
    /\ clock' = clock + 1
    /\ UNCHANGED <<row, lock, step, now, forced, copy, form, deaths, edits, history>>

RunDue(w) ==
    \/ TickDue(w) \/ Take(w) \/ Busy(w) \/ Refresh(w) \/ Resume(w) \/ StartRun(w)
    \/ Release(w)

EndRun(w) == Succeed(w) \/ Fail(w) \/ ChildDies(w)

Next ==
    \/ \E w \in Workers : RunDue(w) \/ EndRun(w) \/ RunForced(w) \/ StartFails(w)
                          \/ WorkerDies(w) \/ Expire(w)
    \/ OpenForm \/ SaveForm \/ SaveReset
    \/ Advance

(* Scheduler threads tick for ever and a run ends; a dead holder's lease     *)
(* expires.  Somebody who finds the lease taken tries again at a later tick. *)
Fairness ==
    \A w \in Workers :
        /\ WF_vars(RunDue(w))
        /\ SF_vars(Take(w))
        /\ WF_vars(EndRun(w))
        /\ WF_vars(Expire(w))

Spec == Init /\ [][Next]_vars /\ Fairness

-----------------------------------------------------------------------------
(* Properties *)

Succeeds(w) == step[w] \in {"run", "runAlone"} /\ row'.status = "succeeded" /\ step'[w] # step[w]
Attempts(w) == step[w] = "start" /\ step'[w] = "run"

(* "Exactly one backup is taken per interval, however many workers"          *)
(* (docs/panel.md): two backups the schedule takes are an interval apart,    *)
(* unless somebody saved the schedule's form or forced a run in between.     *)
OncePerInterval ==
    [][\A w \in Workers : Succeeds(w) /\ ~ forced[w] => touched \/ now[w] >= good + Interval]_vars

(* The same of any number of workers, while giving up a retry that was cut   *)
(* short does not bring the next backup forward: whoever gives it up counts  *)
(* the interval from the moment its own tick began, which may be long ago.   *)
KeepsTheInterval ==
    \A w \in Workers : Succeeds(w) /\ ~ forced[w] => touched \/ setback \/ now[w] >= good + Interval
OnceUnlessSetBack == [][KeepsTheInterval]_vars

(* The same, where a save that leaves interval and enabled alone is no       *)
(* excuse: it has no reason to bring the next backup forward.                *)
OncePerIntervalDespiteSaves ==
    [][\A w \in Workers : Succeeds(w) /\ ~ forced[w] => reset \/ now[w] >= good + Interval]_vars

(* "If its worker dies, the next tick takes the backup again, and if that    *)
(* one dies too, the schedule waits for the next interval" (docs/panel.md):  *)
(* no third attempt is made before next_run_at has moved on.                 *)
RetriedOnce == tries <= 2

(* Who is between the lease and its release is the one the lease names, and  *)
(* so is a child whose parent has died.                                      *)
OneInside ==
    \A w \in Workers : step[w] \in Steps \ {"idle", "take"} => lock = w

\* The attempts that a status in the row allows to have been made.
Allowed(status) ==
    CASE status = "retrying" -> 2
      [] status \in {"running", "interrupted"} -> 1
      [] OTHER -> 0

(* The row's status tells how often the schedule has tried.                  *)
TriesMatch == tries <= Allowed(row.status)

(* Only a row that says so is tried a second time ...                        *)
StartsFresh ==
    \A w \in Workers : step[w] = "start" /\ row.status # "interrupted" => tries = 0

(* ... and the copy that decides it is the row's, unless somebody saved the  *)
(* form since, which begins the interval again.                              *)
CopyIsCurrent ==
    \A w \in Workers : step[w] = "resume" /\ copy[w].status # row.status => tries = 0

TriesInv == TypeOK /\ OneInside /\ TriesMatch /\ StartsFresh /\ CopyIsCurrent

(* What makes the schedule wait for its interval: unless next_run_at was     *)
(* brought forward, it is an interval after the last backup, ...             *)
Waits == ~ touched /\ ~ setback
RowWaits == Waits => row.next >= good + Interval

(* ... so is the copy that is compared with a worker's tick, ...             *)
CopyWaits == \A w \in Workers : step[w] = "resume" /\ Waits => copy[w].next >= good + Interval

(* ... and so is the tick of whoever runs, unless it was forced, which       *)
(* touches the schedule.                                                     *)
Inside(w) == step[w] \notin {"idle", "take"}
RunsInTime ==
    \A w \in Workers :
        step[w] \in {"start", "run", "runAlone"} /\ ~ forced[w] /\ Waits => now[w] >= good + Interval
ForcedTouches == \A w \in Workers : Inside(w) /\ forced[w] => touched

IntervalInv == RowWaits /\ CopyWaits /\ RunsInTime /\ ForcedTouches

(* A due schedule does not stay due: whichever workers and children die, a   *)
(* run's outcome or the giving up of a second killed run moves next_run_at.  *)
DueIsServed == (row.enabled /\ IsDue(row, clock)) ~> ~ (row.enabled /\ IsDue(row, clock))

-----------------------------------------------------------------------------
(* A theorem, for any workers, interval and bounds: a run that was cut short *)
(* is tried once more, and no oftener.                                       *)

(* Going to another place in run_due keeps the types of its variables.       *)
LEMMA GotoTypes ==
    ASSUME TypeOK, NEW w \in Workers, NEW s \in Steps, Goto(w, s)
    PROVE  /\ step' \in [Workers -> Steps]
           /\ now' \in [Workers -> 0 .. MaxClock]
           /\ forced' \in [Workers -> BOOLEAN]
           /\ copy' \in [Workers -> Rows]
           /\ step'[w] = s
           /\ s = "resume" => copy'[w] = row
           /\ \A v \in Workers \ {w} : step'[v] = step[v] /\ copy'[v] = copy[v]
<1>1. FirstRow \in Rows
  BY ScheduleAssumption DEF FirstRow, Rows, Statuses, Moments
<1>2. row \in Rows /\ 0 \in 0 .. MaxClock
  BY ScheduleAssumption DEF TypeOK
<1>3. step' \in [Workers -> Steps] /\ step'[w] = s
  BY DEF Goto, TypeOK
<1>4. now' \in [Workers -> 0 .. MaxClock]
  BY <1>2 DEF Goto, TypeOK
<1>5. forced' \in [Workers -> BOOLEAN]
  BY Zenon DEF Goto, TypeOK
<1>6. copy' \in [Workers -> Rows] /\ (s = "resume" => copy'[w] = row)
  BY <1>1, <1>2 DEF Goto, TypeOK
<1>7. \A v \in Workers \ {w} : step'[v] = step[v] /\ copy'[v] = copy[v]
  BY DEF Goto, TypeOK
<1> QED
  BY <1>3, <1>4, <1>5, <1>6, <1>7

(* The row that a run leaves is a row, and so is the one that is given up.   *)
LEMMA RowTypes ==
    ASSUME TypeOK, NEW w \in Workers, NEW s \in Statuses
    PROVE  /\ [row EXCEPT !.status = s] \in Rows
           /\ [row EXCEPT !.status = s].status = s
           /\ [row EXCEPT !.status = s, !.next = Following(w)] \in Rows
           /\ [row EXCEPT !.status = s, !.next = Following(w)].status = s
<1>1. now[w] \in 0 .. MaxClock
  BY DEF TypeOK
<1>2. Following(w) \in Moments
  BY <1>1, ScheduleAssumption DEF Following, Moments
<1>3. row \in Rows
  BY DEF TypeOK
<1> QED
  BY <1>2, <1>3 DEF Rows

(* The parts of the invariant that look at one worker survive a step that    *)
(* leaves the row, the lease and the tries, and moves the one worker within. *)
LEMMA WorkerMoves ==
    ASSUME TriesInv, NEW w \in Workers, NEW s \in Steps, Goto(w, s),
           UNCHANGED <<row, clock, lock, form, tries, good>>,
           deaths' \in 0 .. MaxDeaths, edits' \in 0 .. MaxEdits,
           touched' \in BOOLEAN, reset' \in BOOLEAN, setback' \in BOOLEAN,
           s \notin {"idle", "take"} => lock = w,
           s = "start" => row.status = "interrupted" \/ tries = 0
    PROVE  TriesInv'
<1>1. /\ step' \in [Workers -> Steps] /\ now' \in [Workers -> 0 .. MaxClock]
      /\ forced' \in [Workers -> BOOLEAN] /\ copy' \in [Workers -> Rows]
      /\ step'[w] = s /\ (s = "resume" => copy'[w] = row)
      /\ \A v \in Workers \ {w} : step'[v] = step[v] /\ copy'[v] = copy[v]
  BY GotoTypes DEF TriesInv
<1>2. TypeOK'
  BY <1>1 DEF TriesInv, TypeOK
<1>3. OneInside'
  BY <1>1 DEF TriesInv, OneInside
<1>4. TriesMatch'
  BY DEF TriesInv, TriesMatch, Allowed
<1>5. StartsFresh'
  BY <1>1 DEF TriesInv, StartsFresh
<1>6. CopyIsCurrent'
  BY <1>1 DEF TriesInv, CopyIsCurrent
<1> QED
  BY <1>2, <1>3, <1>4, <1>5, <1>6 DEF TriesInv

(* A run that gives its interval an outcome begins the count again: nothing  *)
(* is left to bound.                                                         *)
LEMMA CountBegins ==
    ASSUME TriesInv, TypeOK', OneInside', tries' = 0
    PROVE  TriesInv'
<1>1. row'.status \in Statuses
  BY DEF TypeOK, Rows
<1>2. TriesMatch'
  BY <1>1 DEF TriesMatch, Allowed
<1> QED
  BY <1>2 DEF TriesInv, StartsFresh, CopyIsCurrent

(* While a worker is inside, nobody else is.                                 *)
LEMMA NobodyElse ==
    ASSUME TriesInv, NEW w \in Workers, step[w] \in Steps \ {"idle", "take"}
    PROVE  \A v \in Workers \ {w} : step[v] \in {"idle", "take"}
BY DEF TriesInv, TypeOK, OneInside

(* Resuming reads what the lease's last holder wrote, or a form's row.       *)
LEMMA ResumeStep ==
    ASSUME TriesInv, NEW w \in Workers, Resume(w)
    PROVE  TriesInv'
<1>1. TypeOK /\ step[w] = "resume" /\ lock = w
  BY DEF TriesInv, Resume, OneInside, Steps
<1>2. \A v \in Workers \ {w} : step[v] \in {"idle", "take"}
  BY <1>1, NobodyElse DEF Steps
<1>3. copy[w].status # row.status => tries = 0
  BY <1>1 DEF TriesInv, CopyIsCurrent
<1>4. tries <= Allowed(row.status) /\ row.status \in Statuses /\ tries \in Nat
  BY <1>1 DEF TriesInv, TriesMatch, TypeOK, Rows
<1>5. CASE copy[w].status = "running"
  <2>1. PICK s \in {"start", "release"} : Goto(w, s)
    BY <1>5 DEF Resume
  <2>2. /\ row' = [row EXCEPT !.status = "interrupted"] /\ tries' = tries
        /\ UNCHANGED <<clock, lock, form, deaths, edits, good, touched, reset, setback>>
    BY <1>5 DEF Resume
  <2>3. row' \in Rows /\ row'.status = "interrupted"
    BY <1>1, <2>2, RowTypes DEF Statuses
  <2>4. /\ step' \in [Workers -> Steps] /\ now' \in [Workers -> 0 .. MaxClock]
        /\ forced' \in [Workers -> BOOLEAN] /\ copy' \in [Workers -> Rows]
        /\ step'[w] = s
        /\ \A v \in Workers \ {w} : step'[v] = step[v]
    BY <1>1, <2>1, GotoTypes DEF Steps
  <2>5. TypeOK'
    BY <1>1, <2>2, <2>3, <2>4 DEF TypeOK
  <2>6. OneInside'
    BY <1>1, <1>2, <2>2, <2>4 DEF OneInside
  <2>7. TriesMatch'
    BY <1>3, <1>4, <1>5, <2>2, <2>3 DEF TriesMatch, Allowed
  <2>8. StartsFresh' /\ CopyIsCurrent'
    BY <1>2, <2>1, <2>3, <2>4 DEF StartsFresh, CopyIsCurrent
  <2> QED
    BY <2>5, <2>6, <2>7, <2>8 DEF TriesInv
<1>6. CASE copy[w].status = "retrying"
  <2>1. PICK s \in {"start", "release"} : Goto(w, s)
    BY <1>6 DEF Resume
  <2>2. /\ row' = [row EXCEPT !.status = "failed", !.next = Following(w)] /\ tries' = 0
        /\ setback' = (setback \/ Following(w) < row.next)
        /\ UNCHANGED <<clock, lock, form, deaths, edits, good, touched, reset>>
    BY <1>6 DEF Resume
  <2>3. row' \in Rows
    BY <1>1, <2>2, RowTypes DEF Statuses
  <2>4. /\ step' \in [Workers -> Steps] /\ now' \in [Workers -> 0 .. MaxClock]
        /\ forced' \in [Workers -> BOOLEAN] /\ copy' \in [Workers -> Rows]
        /\ step'[w] = s
        /\ \A v \in Workers \ {w} : step'[v] = step[v]
    BY <1>1, <2>1, GotoTypes DEF Steps
  <2>5. TypeOK'
    BY <1>1, <2>2, <2>3, <2>4 DEF TypeOK
  <2>6. OneInside'
    BY <1>1, <1>2, <2>2, <2>4 DEF OneInside
  <2> QED
    BY <2>2, <2>5, <2>6, CountBegins
<1>7. CASE copy[w].status \notin {"running", "retrying"}
  <2>1. PICK s \in {"start", "release"} : Goto(w, s)
    BY <1>7 DEF Resume
  <2>2. UNCHANGED <<row, tries, clock, lock, form, deaths, edits, good, touched, reset, setback>>
    BY <1>7 DEF Resume
  <2>3. row.status = "interrupted" \/ tries = 0
    BY <1>3, <1>4, <1>7 DEF Allowed
  <2> QED
    BY <1>1, <2>1, <2>2, <2>3, WorkerMoves DEF Steps, TypeOK
<1> QED
  BY <1>5, <1>6, <1>7

(* An attempt is counted as the row records it.                              *)
LEMMA StartStep ==
    ASSUME TriesInv, NEW w \in Workers, StartRun(w)
    PROVE  TriesInv'
<1>1. TypeOK /\ step[w] = "start" /\ lock = w
  BY DEF TriesInv, StartRun, OneInside, Steps
<1>2. \A v \in Workers \ {w} : step[v] \in {"idle", "take"}
  BY <1>1, NobodyElse DEF Steps
<1>3. /\ Goto(w, "run") /\ tries' \in {tries, tries + 1}
      /\ UNCHANGED <<clock, lock, form, deaths, edits, good, touched, reset, setback>>
  BY DEF StartRun
<1>4. row' = [row EXCEPT !.status = IF row.status = "interrupted" THEN "retrying" ELSE "running"]
  BY DEF StartRun
<1>5. /\ row' \in Rows
      /\ row'.status = IF row.status = "interrupted" THEN "retrying" ELSE "running"
  BY <1>1, <1>4, RowTypes DEF Statuses
<1>6. /\ step' \in [Workers -> Steps] /\ now' \in [Workers -> 0 .. MaxClock]
      /\ forced' \in [Workers -> BOOLEAN] /\ copy' \in [Workers -> Rows]
      /\ step'[w] = "run"
      /\ \A v \in Workers \ {w} : step'[v] = step[v]
  BY <1>1, <1>3, GotoTypes DEF Steps
<1>7. tries \in Nat /\ tries' \in Nat
  BY <1>1, <1>3 DEF TypeOK
<1>8. TypeOK'
  BY <1>1, <1>3, <1>5, <1>6, <1>7 DEF TypeOK
<1>9. OneInside'
  BY <1>1, <1>2, <1>3, <1>6 DEF OneInside
<1>10. TriesMatch'
  <2>1. CASE row.status = "interrupted"
    <3>1. tries <= 1
      BY <2>1 DEF TriesInv, TriesMatch, Allowed
    <3> QED
      BY <1>3, <1>5, <1>7, <2>1, <3>1 DEF TriesMatch, Allowed
  <2>2. CASE row.status # "interrupted"
    <3>1. tries = 0
      BY <1>1, <2>2 DEF TriesInv, StartsFresh
    <3> QED
      BY <1>3, <1>5, <1>7, <2>2, <3>1 DEF TriesMatch, Allowed
  <2> QED
    BY <2>1, <2>2
<1>11. StartsFresh' /\ CopyIsCurrent'
  BY <1>2, <1>6 DEF StartsFresh, CopyIsCurrent
<1> QED
  BY <1>8, <1>9, <1>10, <1>11 DEF TriesInv

(* A child's outcome begins the interval again.                              *)
LEMMA OutcomeStep ==
    ASSUME TriesInv, NEW w \in Workers, Succeed(w) \/ Fail(w)
    PROVE  TriesInv'
<1>1. TypeOK /\ step[w] \in {"run", "runAlone"} /\ lock = w
  BY DEF TriesInv, Succeed, Fail, OneInside, Steps
<1>2. \A v \in Workers \ {w} : step[v] \in {"idle", "take"}
  BY <1>1, NobodyElse DEF Steps
<1>3. PICK s \in {"release", "idle"} : Goto(w, s)
  BY DEF Succeed, Fail, Ending
<1>4. row' \in Rows
  <2>1. PICK status \in {"succeeded", "failed"} :
             row' = [row EXCEPT !.status = status, !.next = Following(w)]
    BY DEF Succeed, Fail
  <2> QED
    BY <1>1, <2>1, RowTypes DEF Statuses
<1>5. now[w] \in 0 .. MaxClock /\ forced[w] \in BOOLEAN
  BY <1>1 DEF TypeOK
<1>6. /\ tries' = 0 /\ UNCHANGED <<clock, lock, form, deaths, edits>>
      /\ good' \in {LongAgo} \cup 0 .. MaxClock
      /\ touched' \in BOOLEAN /\ reset' \in BOOLEAN /\ setback' \in BOOLEAN
  BY <1>1, <1>5 DEF Succeed, Fail, TypeOK
<1>7. /\ step' \in [Workers -> Steps] /\ now' \in [Workers -> 0 .. MaxClock]
      /\ forced' \in [Workers -> BOOLEAN] /\ copy' \in [Workers -> Rows]
      /\ step'[w] = s
      /\ \A v \in Workers \ {w} : step'[v] = step[v]
  BY <1>1, <1>3, GotoTypes DEF Steps
<1>8. TypeOK'
  BY <1>1, <1>4, <1>6, <1>7 DEF TypeOK
<1>9. OneInside'
  BY <1>1, <1>2, <1>6, <1>7 DEF OneInside
<1> QED
  BY <1>6, <1>8, <1>9, CountBegins

(* A save of the form writes any row it once loaded, and begins the interval *)
(* again.                                                                    *)
LEMMA SaveStep ==
    ASSUME TriesInv, SaveForm \/ SaveReset
    PROVE  TriesInv'
<1>1. TypeOK /\ form \in Rows
  BY DEF TriesInv, TypeOK, SaveForm, SaveReset
<1>2. 0 \in Moments
  BY ScheduleAssumption DEF Moments
<1>3. row' \in Rows
  BY <1>1, <1>2 DEF SaveForm, SaveReset, Rows
<1>4. tries' = 0 /\ touched' = TRUE /\ reset' \in BOOLEAN /\ form' = Closed
  BY <1>1 DEF SaveForm, SaveReset, TypeOK
<1>5. UNCHANGED <<clock, lock, step, now, forced, copy, deaths, edits, good, setback>>
  BY DEF SaveForm, SaveReset
<1>6. TypeOK'
  BY <1>1, <1>3, <1>4, <1>5 DEF TypeOK
<1>7. OneInside'
  BY <1>5 DEF TriesInv, OneInside
<1> QED
  BY <1>4, <1>6, <1>7, CountBegins

(* Every step keeps the invariant.                                           *)
LEMMA TriesStep ==
    ASSUME TriesInv, [Next]_vars
    PROVE  TriesInv'
<1> USE DEF history
<1>0. TypeOK
  BY DEF TriesInv
<1>1. ASSUME NEW w \in Workers, TickDue(w) \/ RunForced(w)
      PROVE  TriesInv'
  <2>1. /\ step[w] = "idle"
        /\ UNCHANGED <<row, clock, lock, copy, form, deaths, history>>
        /\ edits' = edits \/ (edits < MaxEdits /\ edits' = edits + 1)
        /\ step' = [step EXCEPT ![w] = "take"] /\ now' = [now EXCEPT ![w] = clock]
    <3>1. CASE TickDue(w)
      BY <3>1 DEF TickDue, Begin
    <3>2. CASE RunForced(w)
      BY <3>2 DEF RunForced, Begin
    <3> QED
      BY <1>1, <3>1, <3>2
  <2>4. edits' \in 0 .. MaxEdits
    BY <1>0, <2>1, ScheduleAssumption DEF TypeOK
  <2>2. /\ step' \in [Workers -> Steps] /\ now' \in [Workers -> 0 .. MaxClock]
        /\ forced' \in [Workers -> BOOLEAN]
    <3>1. forced' \in [Workers -> BOOLEAN]
      BY <1>0, <1>1 DEF TickDue, RunForced, Begin, TypeOK
    <3> QED
      BY <1>0, <2>1, <3>1 DEF TypeOK, Steps
  <2>3. TypeOK'
    BY <1>0, <2>1, <2>2, <2>4 DEF TypeOK
  <2> QED
    BY <1>0, <2>1, <2>2, <2>3
    DEF TriesInv, TypeOK, OneInside, TriesMatch, Allowed, StartsFresh, CopyIsCurrent
<1>2. ASSUME NEW w \in Workers, Take(w)
      PROVE  TriesInv'
  <2>1. \A v \in Workers : step[v] \in {"idle", "take"}
    BY <1>0, <1>2, ScheduleAssumption DEF TriesInv, OneInside, TypeOK, Take, Steps
  <2>2. /\ step' \in [Workers -> Steps] /\ now' \in [Workers -> 0 .. MaxClock]
        /\ forced' \in [Workers -> BOOLEAN] /\ copy' \in [Workers -> Rows]
        /\ step'[w] = "refresh"
        /\ \A v \in Workers \ {w} : step'[v] = step[v]
    BY <1>0, <1>2, GotoTypes DEF Take, Steps
  <2>3. lock' = w /\ touched' \in BOOLEAN /\ reset' \in BOOLEAN
        /\ UNCHANGED <<row, clock, form, deaths, edits, good, tries, setback>>
    BY <1>0, <1>2 DEF Take, TypeOK
  <2>4. TypeOK'
    BY <1>0, <2>2, <2>3 DEF TypeOK
  <2>5. OneInside' /\ StartsFresh' /\ CopyIsCurrent'
    BY <2>1, <2>2, <2>3 DEF OneInside, StartsFresh, CopyIsCurrent
  <2>6. TriesMatch'
    BY <2>3 DEF TriesInv, TriesMatch, Allowed
  <2> QED
    BY <2>4, <2>5, <2>6 DEF TriesInv
<1>3. ASSUME NEW w \in Workers,
             Busy(w) \/ Refresh(w) \/ ChildDies(w) \/ StartFails(w) \/ WorkerDies(w)
      PROVE  TriesInv'
  <2>1. PICK s \in {"idle", "resume", "release", "runAlone"} :
             Goto(w, s) /\ (s # "idle" => step[w] \notin {"idle", "take"})
    BY <1>3 DEF Busy, Refresh, ChildDies, StartFails, WorkerDies, Ending
  <2>2. s # "idle" => lock = w
    BY <1>0, <2>1 DEF TriesInv, OneInside, TypeOK
  <2>3. /\ UNCHANGED <<row, clock, lock, form, edits, history>>
        /\ deaths' \in 0 .. MaxDeaths
    BY <1>0, <1>3, ScheduleAssumption
    DEF Busy, Refresh, ChildDies, StartFails, WorkerDies, TypeOK
  <2> QED
    BY <1>0, <2>1, <2>2, <2>3, WorkerMoves DEF TypeOK, Steps
<1>4. ASSUME NEW w \in Workers, Release(w) \/ Expire(w)
      PROVE  TriesInv'
  <2>1. \A v \in Workers \ {w} : step[v] \in {"idle", "take"}
    BY <1>0, <1>4 DEF TriesInv, OneInside, TypeOK, Release, Expire, Steps
  <2>2. /\ step' \in [Workers -> Steps] /\ now' \in [Workers -> 0 .. MaxClock]
        /\ forced' \in [Workers -> BOOLEAN] /\ copy' \in [Workers -> Rows]
        /\ step'[w] = "idle"
        /\ \A v \in Workers \ {w} : step'[v] = step[v]
    BY <1>0, <1>4, GotoTypes DEF Release, Expire, Steps, TypeOK
  <2>3. lock' = NoOne
        /\ UNCHANGED <<row, clock, form, deaths, edits, good, tries, touched, reset, setback>>
    BY <1>4 DEF Release, Expire
  <2>4. TypeOK'
    BY <1>0, <2>2, <2>3 DEF TypeOK
  <2>5. OneInside' /\ StartsFresh' /\ CopyIsCurrent'
    BY <2>1, <2>2 DEF OneInside, StartsFresh, CopyIsCurrent
  <2>6. TriesMatch'
    BY <2>3 DEF TriesInv, TriesMatch, Allowed
  <2> QED
    BY <2>4, <2>5, <2>6 DEF TriesInv
<1>5. CASE OpenForm \/ Advance
  <2>1. UNCHANGED <<row, lock, step, now, forced, copy, deaths, history>>
    BY <1>5 DEF OpenForm, Advance
  <2>2. clock' \in 0 .. MaxClock /\ edits' \in 0 .. MaxEdits /\ form' \in Rows \cup {Closed}
    BY <1>0, <1>5, ScheduleAssumption DEF OpenForm, Advance, TypeOK
  <2>3. TypeOK'
    BY <1>0, <2>1, <2>2 DEF TypeOK
  <2> QED
    BY <2>1, <2>3
    DEF TriesInv, OneInside, TriesMatch, Allowed, StartsFresh, CopyIsCurrent
<1>6. CASE UNCHANGED vars
  BY <1>6 DEF vars, TriesInv, TypeOK, OneInside, TriesMatch, Allowed, StartsFresh, CopyIsCurrent
<1>7. ASSUME NEW w \in Workers,
             \/ RunDue(w) \/ EndRun(w) \/ RunForced(w) \/ StartFails(w)
             \/ WorkerDies(w) \/ Expire(w)
      PROVE  TriesInv'
  <2>1. CASE Resume(w)
    BY <2>1, ResumeStep
  <2>2. CASE StartRun(w)
    BY <2>2, StartStep
  <2>3. CASE Succeed(w) \/ Fail(w)
    BY <2>3, OutcomeStep
  <2> QED
    BY <1>1, <1>2, <1>3, <1>4, <1>7, <2>1, <2>2, <2>3 DEF RunDue, EndRun
<1>8. CASE SaveForm \/ SaveReset
  BY <1>8, SaveStep
<1> QED
  <2>1. CASE Next
    BY <1>5, <1>7, <1>8, <2>1 DEF Next
  <2> QED
    BY <1>6, <2>1

(* The first state has it.                                                   *)
LEMMA TriesBegin == Init => TriesInv
<1> SUFFICES ASSUME Init PROVE TriesInv
  OBVIOUS
<1>1. FirstRow \in Rows /\ 0 \in 0 .. MaxClock /\ 0 \in 0 .. MaxDeaths /\ 0 \in 0 .. MaxEdits
  BY ScheduleAssumption DEF FirstRow, Rows, Statuses, Moments
<1>2. TypeOK
  BY <1>1 DEF Init, TypeOK, Steps
<1>3. OneInside /\ StartsFresh /\ CopyIsCurrent
  BY DEF Init, OneInside, StartsFresh, CopyIsCurrent
<1>4. TriesMatch
  <2>1. row.status \notin {"retrying", "running", "interrupted"} /\ tries = 0
    BY DEF Init, FirstRow
  <2> QED
    BY <2>1 DEF TriesMatch, Allowed
<1> QED
  BY <1>2, <1>3, <1>4 DEF TriesInv

(* "If its worker dies, the next tick takes the backup again, and if that    *)
(* one dies too, the schedule waits for the next interval": run_due never    *)
(* makes a third attempt before next_run_at has moved on.                    *)
THEOREM RetriedOnceAlways == Spec => []RetriedOnce
<1>1. Init => TriesInv
  BY TriesBegin
<1>2. TriesInv /\ [Next]_vars => TriesInv'
  BY TriesStep
<1>3. TriesInv => RetriedOnce
  BY DEF TriesInv, TypeOK, TriesMatch, Allowed, RetriedOnce
<1> QED
  BY <1>1, <1>2, <1>3, PTL DEF Spec

-----------------------------------------------------------------------------
(* A theorem, for any workers, interval and bounds: the schedule takes one   *)
(* backup per interval, unless next_run_at is brought forward.               *)

(* Moments and intervals are integers.                                       *)
LEMMA Times ==
    ASSUME TypeOK
    PROVE  /\ Interval \in Nat /\ good \in Int /\ row.next \in Int
           /\ \A w \in Workers : now[w] \in Int /\ copy[w].next \in Int /\ forced[w] \in BOOLEAN
BY ScheduleAssumption DEF TypeOK, Rows, Moments, LongAgo

(* A step of one worker leaves the others as they were.                      *)
LEMMA GotoOthers ==
    ASSUME TypeOK, NEW w \in Workers, NEW s \in Steps, Goto(w, s)
    PROVE  /\ \A v \in Workers \ {w} : now'[v] = now[v] /\ forced'[v] = forced[v]
           /\ s # "idle" => now'[w] = now[w] /\ forced'[w] = forced[w]
<1>1. \A v \in Workers \ {w} : now'[v] = now[v]
  BY DEF Goto, TypeOK
<1>2. \A v \in Workers \ {w} : forced'[v] = forced[v]
  BY Zenon DEF Goto, TypeOK
<1>3. s # "idle" => now'[w] = now[w] /\ forced'[w] = forced[w]
  BY DEF Goto
<1> QED
  BY <1>1, <1>2, <1>3

(* A worker that goes on keeps the interval while the row still waits: it is *)
(* about to run only when the interval is over, and says when it was forced. *)
LEMMA GoesOn ==
    ASSUME TypeOK, IntervalInv, NEW w \in Workers, NEW s \in Steps, Goto(w, s),
           good' = good, touched => touched',
           Waits' => Waits /\ row'.next >= good + Interval,
           s \in {"start", "run", "runAlone"} =>
               \/ forced[w]
               \/ Waits => now[w] >= good + Interval,
           ~ Inside(w) /\ s \notin {"idle", "take"} => (forced[w] => touched')
    PROVE  IntervalInv'
<1>1. /\ step'[w] = s /\ (s = "resume" => copy'[w] = row)
      /\ \A v \in Workers \ {w} : step'[v] = step[v] /\ copy'[v] = copy[v]
  BY GotoTypes
<1>2. /\ \A v \in Workers \ {w} : now'[v] = now[v] /\ forced'[v] = forced[v]
      /\ s # "idle" => now'[w] = now[w] /\ forced'[w] = forced[w]
  BY GotoOthers
<1>3. RowWaits'
  BY DEF RowWaits
<1>4. CopyWaits'
  BY <1>1 DEF IntervalInv, CopyWaits, RowWaits
<1>5. RunsInTime'
  BY <1>1, <1>2 DEF IntervalInv, RunsInTime
<1>6. ForcedTouches'
  BY <1>1, <1>2 DEF IntervalInv, ForcedTouches, Inside
<1> QED
  BY <1>3, <1>4, <1>5, <1>6 DEF IntervalInv

(* The ways through run_due that leave the row alone, but for its status.    *)
LEMMA InsideSteps ==
    ASSUME TypeOK, IntervalInv, NEW w \in Workers,
           Busy(w) \/ Refresh(w) \/ StartRun(w) \/ ChildDies(w) \/ StartFails(w)
             \/ Release(w) \/ WorkerDies(w)
    PROVE  IntervalInv'
<1>1. PICK s \in Steps \ {"start"} :
           /\ Goto(w, s)
           /\ s \in {"run", "runAlone"} => step[w] \in {"start", "run", "runAlone"}
           /\ s \notin {"idle", "take"} => Inside(w)
  BY DEF Busy, Refresh, StartRun, ChildDies, StartFails, Release, WorkerDies, Ending, Steps, Inside
<1>2. UNCHANGED <<good, touched, setback>> /\ row'.next = row.next
  <2>1. CASE StartRun(w)
    BY <2>1 DEF StartRun, TypeOK, Rows
  <2>2. CASE ~ StartRun(w)
    BY <2>2 DEF Busy, Refresh, ChildDies, StartFails, Release, WorkerDies, history
  <2> QED
    BY <2>1, <2>2
<1>3. Waits' = Waits
  BY <1>2 DEF Waits
<1>4. Waits' => Waits /\ row'.next >= good + Interval
  BY <1>2, <1>3 DEF IntervalInv, RowWaits
<1>5. s \in {"start", "run", "runAlone"} => forced[w] \/ (Waits => now[w] >= good + Interval)
  BY <1>1 DEF IntervalInv, RunsInTime
<1> QED
  BY <1>1, <1>2, <1>4, <1>5, GoesOn

(* Taking the lease, a forced run says so; the others are outside.           *)
LEMMA TakeWaits ==
    ASSUME TypeOK, IntervalInv, NEW w \in Workers, Take(w)
    PROVE  IntervalInv'
<1>1. /\ Goto(w, "refresh") /\ good' = good /\ setback' = setback /\ row' = row
      /\ touched' = (touched \/ forced[w])
  BY DEF Take
<1>2. Waits' => Waits
  BY <1>1 DEF Waits
<1>3. Waits' => Waits /\ row'.next >= good + Interval
  BY <1>1, <1>2 DEF IntervalInv, RowWaits
<1> QED
  BY <1>1, <1>3, GoesOn DEF Steps

(* Resuming compares the copy with the tick, and a retry that is given up    *)
(* either leaves next_run_at where it may be or sets it back.                *)
LEMMA ResumeWaits ==
    ASSUME TypeOK, IntervalInv, NEW w \in Workers, Resume(w)
    PROVE  IntervalInv'
<1>1. step[w] = "resume" /\ good' = good /\ touched' = touched
  BY DEF Resume
<1>2. Inside(w)
  BY <1>1 DEF Inside
<1>3. PICK s \in {"start", "release"} :
           /\ Goto(w, s)
           /\ s = "start" => forced[w] \/ IsDue(copy[w], now[w])
  <2>1. CASE copy[w].status = "retrying"
    BY <2>1 DEF Resume
  <2>2. CASE copy[w].status # "retrying"
    BY <2>2 DEF Resume
  <2> QED
    BY <2>1, <2>2
<1>4. s = "start" => forced[w] \/ (Waits => now[w] >= good + Interval)
  BY <1>1, <1>3, Times DEF IntervalInv, CopyWaits, IsDue
<1>5. Waits' => Waits /\ row'.next >= good + Interval
  <2>1. CASE copy[w].status = "retrying"
    <3>1. /\ row' = [row EXCEPT !.status = "failed", !.next = Following(w)]
          /\ setback' = (setback \/ Following(w) < row.next)
      BY <2>1 DEF Resume
    <3>2. row'.next = Following(w)
      BY <3>1 DEF TypeOK, Rows
    <3>3. Waits' => Waits /\ ~ (Following(w) < row.next)
      BY <1>1, <3>1 DEF Waits
    <3> QED
      BY <3>2, <3>3, Times DEF IntervalInv, RowWaits, Following
  <2>2. CASE copy[w].status # "retrying"
    <3>1. setback' = setback /\ row'.next = row.next
      BY <2>2 DEF Resume, TypeOK, Rows
    <3> QED
      BY <1>1, <3>1 DEF IntervalInv, RowWaits, Waits
  <2> QED
    BY <2>1, <2>2
<1>6. s \in Steps /\ s \notin {"run", "runAlone"}
  BY DEF Steps
<1> QED
  BY <1>1, <1>2, <1>3, <1>4, <1>5, <1>6, GoesOn

(* The outcome counts from the tick of its run.                              *)
LEMMA OutcomeWaits ==
    ASSUME TypeOK, OneInside, IntervalInv, NEW w \in Workers, Succeed(w) \/ Fail(w)
    PROVE  IntervalInv'
<1>1. PICK s \in {"release", "idle"} : Goto(w, s)
  BY DEF Succeed, Fail, Ending
<1>2. row'.next = now[w] + Interval
  BY DEF Succeed, Fail, Following, TypeOK, Rows
<1>3. s \in Steps /\ step[w] \in {"run", "runAlone"} /\ Inside(w)
  BY DEF Succeed, Fail, Inside, Steps
<1>4. CASE Fail(w)
  <2>1. UNCHANGED <<good, touched, setback>>
    BY <1>4 DEF Fail
  <2>2. Waits' => Waits
    BY <2>1 DEF Waits
  <2>3. Waits => ~ forced[w]
    BY <1>3 DEF IntervalInv, ForcedTouches, Waits
  <2>4. Waits => now[w] >= good + Interval
    BY <1>3, <2>3 DEF IntervalInv, RunsInTime
  <2>5. Waits' => Waits /\ row'.next >= good + Interval
    BY <1>2, <2>2, <2>4, Times
  <2> QED
    BY <1>1, <1>3, <2>1, <2>5, GoesOn
<1>5. CASE Succeed(w)
  <2>1. \A v \in Workers \ {w} : step[v] \in {"idle", "take"}
    BY <1>3 DEF TypeOK, OneInside, Steps
  <2>2. good' = now[w] /\ touched' = forced[w]
    BY <1>5 DEF Succeed
  <2>3. \A v \in Workers : step'[v] \in {"idle", "take", "release"}
    BY <1>1, <1>3, <2>1, GotoTypes
  <2>4. RowWaits'
    BY <1>2, <2>2, Times DEF RowWaits
  <2>5. CopyWaits' /\ RunsInTime'
    BY <2>3 DEF CopyWaits, RunsInTime
  <2>6. ForcedTouches'
    BY <1>1, <1>3, <2>1, <2>2, GotoTypes, GotoOthers DEF ForcedTouches, Inside
  <2> QED
    BY <2>4, <2>5, <2>6 DEF IntervalInv
<1> QED
  BY <1>4, <1>5

(* Every step keeps the interval.                                            *)
LEMMA IntervalStep ==
    ASSUME TypeOK, OneInside, IntervalInv, [Next]_vars
    PROVE  IntervalInv'
<1> USE DEF history
<1>1. ASSUME NEW w \in Workers, TickDue(w) \/ RunForced(w)
      PROVE  IntervalInv'
  <2>1. /\ step[w] = "idle" /\ step' = [step EXCEPT ![w] = "take"]
        /\ now' = [now EXCEPT ![w] = clock]
        /\ \A v \in Workers \ {w} : forced'[v] = forced[v]
        /\ UNCHANGED <<row, copy, good, touched, setback>>
    <3>1. CASE TickDue(w)
      BY <3>1 DEF TickDue, Begin, TypeOK
    <3>2. CASE RunForced(w)
      BY <3>2 DEF RunForced, Begin, TypeOK
    <3> QED
      BY <1>1, <3>1, <3>2
  <2>2. Waits' = Waits
    BY <2>1 DEF Waits
  <2>3. /\ step'[w] = "take"
        /\ \A v \in Workers \ {w} : step'[v] = step[v] /\ now'[v] = now[v]
    BY <2>1 DEF TypeOK
  <2>4. RowWaits' /\ CopyWaits'
    BY <2>1, <2>2, <2>3 DEF IntervalInv, RowWaits, CopyWaits
  <2>5. RunsInTime'
    BY <2>1, <2>2, <2>3 DEF IntervalInv, RunsInTime
  <2>6. ForcedTouches'
    BY <2>1, <2>3 DEF IntervalInv, ForcedTouches, Inside
  <2> QED
    BY <2>4, <2>5, <2>6 DEF IntervalInv
<1>2. ASSUME NEW w \in Workers, Expire(w)
      PROVE  IntervalInv'
  BY <1>2
  DEF Expire, IntervalInv, RowWaits, CopyWaits, RunsInTime, ForcedTouches, Waits, Inside
<1>3. CASE SaveForm \/ SaveReset
  <2>1. touched' = TRUE
    BY <1>3 DEF SaveForm, SaveReset
  <2> QED
    BY <2>1 DEF IntervalInv, RowWaits, CopyWaits, RunsInTime, ForcedTouches, Waits
<1>4. CASE OpenForm \/ Advance \/ UNCHANGED vars
  <2>1. UNCHANGED <<row, step, now, forced, copy, good, touched, setback>>
    BY <1>4 DEF OpenForm, Advance, vars
  <2> QED
    BY <2>1 DEF IntervalInv, RowWaits, CopyWaits, RunsInTime, ForcedTouches, Waits, Inside
<1>5. ASSUME NEW w \in Workers,
             \/ RunDue(w) \/ EndRun(w) \/ RunForced(w) \/ StartFails(w)
             \/ WorkerDies(w) \/ Expire(w)
      PROVE  IntervalInv'
  BY <1>1, <1>2, <1>5, InsideSteps, TakeWaits, ResumeWaits, OutcomeWaits DEF RunDue, EndRun
<1> QED
  BY <1>3, <1>4, <1>5 DEF Next

(* "Exactly one backup is taken per interval, however many workers": every   *)
(* backup the schedule takes itself comes an interval after the last, unless *)
(* somebody saved the form, forced a run or, having given up a retry, set    *)
(* next_run_at back.                                                         *)
THEOREM OnceUnlessSetBackAlways == Spec => OnceUnlessSetBack
<1>1. Init => IntervalInv
  <2>1. ASSUME Init PROVE RowWaits
    <3>1. row.next = 0 /\ good = 0 - Interval
      BY <2>1 DEF Init, FirstRow, LongAgo
    <3> QED
      BY <3>1, ScheduleAssumption DEF RowWaits
  <2> QED
    BY <2>1 DEF Init, IntervalInv, CopyWaits, RunsInTime, ForcedTouches, Inside
<1>2. TypeOK /\ OneInside /\ IntervalInv /\ [Next]_vars => IntervalInv'
  BY IntervalStep
<1>3. IntervalInv => KeepsTheInterval
  BY DEF IntervalInv, RunsInTime, KeepsTheInterval, Succeeds, Waits
<1>4. Init => TriesInv
  BY TriesBegin
<1>5. TriesInv /\ [Next]_vars => TriesInv'
  BY TriesStep
<1>6. TriesInv => TypeOK /\ OneInside
  BY DEF TriesInv
<1> QED
  BY <1>1, <1>2, <1>3, <1>4, <1>5, <1>6, PTL DEF Spec, OnceUnlessSetBack
=============================================================================
