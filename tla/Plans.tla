-------------------------------- MODULE Plans --------------------------------
(***************************************************************************)
(* The backup plans of an application (BackupPlanService), the scheduler   *)
(* that queues the due ones (BackupScheduleService.dispatch_due) and the   *)
(* outcome that a plan shows (BackupRunService._remember).  A request      *)
(* reads the plan, works out what it changes and saves those fields; the   *)
(* scheduler and other requests go on between the two.  dispatch_due holds *)
(* the rows it moves, so it is one step.                                   *)
(*                                                                         *)
(* What a plan reads (its paths and pattern) is left out: a change of it   *)
(* always asks for the password, whatever the plan was before.             *)
(***************************************************************************)
EXTENDS Integers, FiniteSets, TLC

CONSTANTS
    PlanIds, Editors, Runs,
    Names, Slug,     \* Slug[n]: slugify(n)
    Intervals,       \* interval_minutes; Manual for a plan that has none
    Keeps,           \* keep
    Never, Manual, NoRun,
    MaxTime          \* bound: the clock

VARIABLES
    now,
    plan,    \* plan[p]: its row
    edit,    \* edit[e]: the plan, the fields it will save and whether it asked for the password
    run,     \* run[r]: its plan, its step, and when it ended
    lock,    \* the take lock of the application
    unasked, \* history: plans that kept fewer backups without a password
    crossed  \* history: plans saved by an edit that another had saved since it read

vars == <<now, plan, edit, run, lock, unasked, crossed>>

Unused == [at |-> "none", name |-> Never, enabled |-> FALSE, interval |-> Manual, anchor |-> Never,
           next |-> Never, keep |-> 0, last |-> NoRun]
Idle == [at |-> "idle", behind |-> FALSE]
NotRun == [at |-> "none", ended |-> Never]

Alive(p) == plan[p].at = "alive"

---------------------------------------------------------------------------
(* timing.py, in plain time (the calendar is in PlanTiming)                *)

next_on_grid(anchor, interval, after) ==
    IF anchor > after THEN anchor
    ELSE anchor + ((after - anchor) \div interval + 1) * interval

planned(interval, enabled, anchor) ==
    IF interval = Manual THEN [anchor |-> anchor, next |-> Never]
    ELSE LET start == IF anchor = Never THEN now + interval ELSE anchor
         IN [anchor |-> start,
             next |-> IF enabled THEN next_on_grid(start, interval, now) ELSE Never]

---------------------------------------------------------------------------
(* BackupPlanService: read, work out the changes; then save them           *)

Begin(e, p, changes, guarded) ==
    /\ edit[e] = Idle
    /\ edit' = [edit EXCEPT ![e] = [at |-> "save", plan |-> p, changes |-> changes, guarded |-> guarded,
                             behind |-> FALSE]]
    /\ UNCHANGED <<now, plan, run, lock, unasked, crossed>>

\* _check_name, as far as it is read
NameFree(p, name) == \A q \in PlanIds \ {p} : Alive(q) => Slug[plan[q].name] # Slug[name]

Create(e, p, name, interval, keep) ==
    /\ plan[p] = Unused
    /\ \A d \in Editors : edit[d] # Idle => edit[d].plan # p
    /\ NameFree(p, name)
    /\ Begin(e, p, planned(interval, TRUE, Never)
                   @@ [at |-> "alive", name |-> name, enabled |-> TRUE, interval |-> interval, keep |-> keep], FALSE)

_keeps_fewer(p, keep) == keep < plan[p].keep

Rename(e, p, name) ==
    /\ Alive(p) /\ name # plan[p].name /\ NameFree(p, name)
    /\ Begin(e, p, [name |-> name], FALSE)

ChangeKeep(e, p, keep) ==
    /\ Alive(p) /\ keep # plan[p].keep
    /\ Begin(e, p, [keep |-> keep], _keeps_fewer(p, keep))

\* a new interval starts a new beat
ChangeInterval(e, p, interval) ==
    /\ Alive(p) /\ interval # plan[p].interval
    /\ Begin(e, p, [interval |-> interval] @@ planned(interval, plan[p].enabled, Never), FALSE)

Reschedule(e, p, moment) ==
    /\ Alive(p) /\ plan[p].interval # Manual /\ moment > now
    /\ Begin(e, p, planned(plan[p].interval, plan[p].enabled, moment), FALSE)

Pause(e, p) ==
    /\ Alive(p) /\ plan[p].interval # Manual
    /\ Begin(e, p, [enabled |-> FALSE, next |-> Never], FALSE)

Resume(e, p) ==
    /\ Alive(p) /\ plan[p].interval # Manual
    /\ Begin(e, p, [enabled |-> TRUE] @@ planned(plan[p].interval, TRUE, plan[p].anchor), FALSE)

Delete(e, p) ==
    /\ Alive(p)
    /\ Begin(e, p, [at |-> "deleted"], FALSE)

\* Whoever read before this save is behind it.
Done(e) == edit' = [d \in Editors |-> IF d = e \/ edit[d].at = "idle" THEN Idle
                                      ELSE [edit[d] EXCEPT !.behind = TRUE]]

\* update_fields; the name of an alive plan is unique in the database
Save(e) ==
    LET p == edit[e].plan
        new == edit[e].changes @@ plan[p]
    IN /\ edit[e].at = "save"
       /\ IF new.at = "alive" /\ \E q \in PlanIds \ {p} : Alive(q) /\ plan[q].name = new.name
          THEN edit' = [edit EXCEPT ![e] = Idle] /\ UNCHANGED <<plan, unasked, crossed>>
          ELSE /\ Done(e)
               /\ plan' = [plan EXCEPT ![p] = new]
               /\ unasked' = IF new.keep < plan[p].keep /\ ~ edit[e].guarded THEN unasked \cup {p} ELSE unasked
               /\ crossed' = IF edit[e].behind THEN crossed \cup {p} ELSE crossed
       /\ UNCHANGED <<now, run, lock>>

Request(e) == \E p \in PlanIds :
    \/ \E name \in Names, interval \in Intervals, keep \in Keeps : Create(e, p, name, interval, keep)
    \/ \E name \in Names : Rename(e, p, name)
    \/ \E keep \in Keeps : ChangeKeep(e, p, keep)
    \/ \E interval \in Intervals : ChangeInterval(e, p, interval)
    \/ \E moment \in 1 .. MaxTime : Reschedule(e, p, moment)
    \/ Pause(e, p) \/ Resume(e, p) \/ Delete(e, p)

---------------------------------------------------------------------------
(* dispatch_due, and the run                                               *)

\* plausible bug: the following run is an interval from now
Following_now(p) == now + plan[p].interval

\* the first on the plan's beat after now
Following(p) == next_on_grid(plan[p].anchor, plan[p].interval, now)

\* lock_scheduled_by
Due(p) ==
    /\ Alive(p) /\ plan[p].enabled /\ plan[p].interval # Manual
    /\ plan[p].next # Never /\ plan[p].next <= now

Dispatch(p, r) ==
    /\ Due(p) /\ run[r].at = "none"
    /\ plan' = [plan EXCEPT ![p].next = Following(p)]
    /\ run' = [run EXCEPT ![r] = [at |-> "start", plan |-> p, ended |-> Never]]
    /\ UNCHANGED <<now, edit, lock, unasked, crossed>>

Lockable == lock = NoRun

\* BackupPlanService.run: queued together with the lock
Ask(p, r) ==
    /\ Alive(p) /\ run[r].at = "none" /\ Lockable
    /\ lock' = r
    /\ run' = [run EXCEPT ![r] = [at |-> "work", plan |-> p, ended |-> Never]]
    /\ UNCHANGED <<now, plan, edit, unasked, crossed>>

Shown(r) == [plan EXCEPT ![run[r].plan].last = IF Alive(run[r].plan) THEN r ELSE @]

\* every finish is a moment of its own
Order == Cardinality({r \in Runs : run[r].ended # Never}) + 1

\* _start: a run that finds the application busy fails, and is shown, at once
Start(r) ==
    /\ run[r].at = "start"
    /\ IF Lockable
       THEN /\ lock' = r
            /\ run' = [run EXCEPT ![r].at = "work"]
            /\ UNCHANGED plan
       ELSE /\ run' = [run EXCEPT ![r].at = "over", ![r].ended = Order]
            /\ plan' = [plan EXCEPT ![run[r].plan].last = r]
            /\ UNCHANGED lock
    /\ UNCHANGED <<now, edit, unasked, crossed>>

Work(r) ==
    /\ run[r].at = "work"
    /\ run' = [run EXCEPT ![r].at = "release", ![r].ended = Order]
    /\ UNCHANGED <<now, plan, edit, lock, unasked, crossed>>

Release(r) ==
    /\ run[r].at = "release"
    /\ lock' = NoRun
    /\ run' = [run EXCEPT ![r].at = "remember"]
    /\ UNCHANGED <<now, plan, edit, unasked, crossed>>

\* _remember, after the lock is released
Remember(r) ==
    /\ run[r].at = "remember"
    /\ plan' = Shown(r)
    /\ run' = [run EXCEPT ![r].at = "over"]
    /\ UNCHANGED <<now, edit, lock, unasked, crossed>>

Tick == now < MaxTime /\ now' = now + 1 /\ UNCHANGED <<plan, edit, run, lock, unasked, crossed>>

Init ==
    /\ now = 0
    /\ plan = [p \in PlanIds |-> Unused]
    /\ edit = [e \in Editors |-> Idle]
    /\ run = [r \in Runs |-> NotRun]
    /\ lock = NoRun
    /\ unasked = {} /\ crossed = {}

Next ==
    \/ \E e \in Editors : Request(e) \/ Save(e)
    \/ \E p \in PlanIds, r \in Runs : Dispatch(p, r) \/ Ask(p, r)
    \/ \E r \in Runs : Start(r) \/ Work(r) \/ Release(r) \/ Remember(r)
    \/ Tick

Spec == Init /\ [][Next]_vars

---------------------------------------------------------------------------
(* Properties                                                              *)

HasNextOnBeat(p) ==
    /\ plan[p].next # Never
    /\ plan[p].next >= plan[p].anchor
    /\ (plan[p].next - plan[p].anchor) % plan[p].interval = 0

\* A plan that is on has a next run, on its beat: "later runs keep its beat",
\* "resumed, it runs at its next beat" (docs/manager.md), in whatever order it
\* was paused, resumed, moved, changed and dispatched; but for one that was
\* saved over what the editor had not read.
On(p) == Alive(p) /\ plan[p].enabled /\ plan[p].interval # Manual
OnBeat == \A p \in PlanIds \ crossed : On(p) => HasNextOnBeat(p)

\* ... however many edit it at once.
AlwaysOnBeat == \A p \in PlanIds : On(p) => HasNextOnBeat(p)

\* Two plans of one application have names that make the same file names only
\* if one was saved over what its editor had not read.
SameFiles(p, q) == p # q /\ Alive(p) /\ Alive(q) /\ Slug[plan[p].name] = Slug[plan[q].name]
DistinctNames == \A p, q \in PlanIds : SameFiles(p, q) => {p, q} \cap crossed # {}

\* "Two plans of one application cannot share a name that differs only in case
\* or punctuation" (docs/manager.md), whoever names them at once.
AlwaysDistinctNames == \A p, q \in PlanIds : ~ SameFiles(p, q)

\* A plan keeps fewer backups only after the password was asked for, by
\* whoever had read what it kept.
FewerIsAsked == unasked \subseteq crossed

\* "A plan that keeps fewer backups than before deletes the oldest on its next
\* run, so that change asks for your password" (docs/manager.md), always.
FewerIsAlwaysAsked == unasked = {}

=============================================================================
