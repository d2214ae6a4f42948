----------------------------- MODULE PlanTiming -----------------------------
(***************************************************************************)
(* When a plan of the manager runs next (next_on_grid of                   *)
(* dbs/manager/backups/timing.py), in a time zone whose offset changes     *)
(* once, forward or back.  Time is counted in hours, Day of them a day.  A *)
(* plan of whole days keeps its wall-clock time, another counts in plain   *)
(* time.  The scheduler takes a plan when its time has come or later, and  *)
(* asks for the following time with the moment it has then.                *)
(***************************************************************************)
EXTENDS Integers

CONSTANTS
    Day,          \* DAY_MINUTES, in hours
    Intervals,    \* interval_minutes, in hours
    Anchors,      \* bound: the moments a plan may start at
    MaxTime       \* bound: the clock

TimingAssumption == Day \in Nat \ {0, 1} /\ Intervals \subseteq Nat \ {0}

VARIABLES
    interval, anchor,  \* the plan's
    change,            \* when the zone changes its offset, from before to then
    before, then,
    moment,            \* when next was asked for
    next,              \* next_run_at
    last               \* the run before it, and whether it was taken on time

vars == <<interval, anchor, change, before, then, moment, next, last>>
zones == <<interval, anchor, change, before, then>>

Larger(x, y) == IF x > y THEN x ELSE y
Smaller(x, y) == IF x > y THEN y ELSE x

\* astimezone: the wall clock, and its fold: the second time it shows the hour
Local(t) == t + IF t < change THEN before ELSE then
Fold(t) == IF t >= change /\ Local(t) < change + before THEN 1 ELSE 0

\* datetime.combine(..., tzinfo), as UTC: an hour that is skipped is read with
\* the offset before the change, one that comes twice by its fold
Utc(w, fold) ==
    w - IF w < change + (IF fold = 0 THEN Larger(before, then) ELSE Smaller(before, then))
        THEN before ELSE then

\* the k-th day of a daily plan, at its time by the wall clock, and as UTC
Wall(k) ==
    (Local(anchor) \div Day + k * (interval \div Day)) * Day + (Local(anchor) % Day)
Beat(k) == Utc(Wall(k), Fold(anchor))

\* elapsed // days, where the search begins
FirstStep(t) ==
    Larger((Local(t) \div Day - Local(anchor) \div Day) \div (interval \div Day), 0)

\* the loop: the first step whose moment is after t
NextStep(t) ==
    CHOOSE k \in FirstStep(t) .. FirstStep(t) + 2 :
        Beat(k) > t /\ \A j \in FirstStep(t) .. k - 1 : Beat(j) <= t

PlainStep(t) == (t - anchor) \div interval + 1

next_on_grid(t) ==
    IF anchor > t THEN anchor
    ELSE IF interval % Day = 0 THEN Beat(NextStep(t))
    ELSE anchor + PlainStep(t) * interval

Init ==
    /\ interval \in Intervals /\ anchor \in Anchors
    /\ change \in 0 .. MaxTime
    /\ before \in 0 .. 1 /\ then = 1 - before
    /\ moment \in 0 .. MaxTime
    /\ next = next_on_grid(moment)
    /\ last = [at |-> 0, due |-> 0, seen |-> FALSE]

\* dispatch_due takes the plan at t, and moves it on
Dispatch(t) ==
    /\ t >= next
    /\ moment' = t
    /\ next' = next_on_grid(t)
    /\ last' = [at |-> t, due |-> next, seen |-> TRUE]
    /\ UNCHANGED zones

\* planned: the plan is resumed, and continues with its next beat
Resume(t) ==
    /\ t >= moment
    /\ moment' = t
    /\ next' = next_on_grid(t)
    /\ last' = [at |-> 0, due |-> 0, seen |-> FALSE]
    /\ UNCHANGED zones

Next == \E t \in 0 .. MaxTime : Dispatch(t) \/ Resume(t)

Spec == Init /\ [][Next]_vars

---------------------------------------------------------------------------
(* Properties                                                              *)

Daily == interval % Day = 0
Steps == 0 .. MaxTime + 3

\* A run whose wall-clock time the change skips, and which it moves.
Moved(u) == \E k \in Steps :
    Beat(k) = u /\ change + before <= Wall(k) /\ Wall(k) < change + then

\* The next run is the first beat after the moment it was asked for, never that
\* moment (a run would be dispatched twice), and none is passed over - save one
\* the change moves into the next day, which a plan resumed just before it does.
FirstAfter ==
    /\ next > moment
    /\ Daily => \A k \in Steps : Beat(k) > moment /\ Beat(k) < next => Moved(Beat(k))

\* A daily plan "keeps its local time [...] across daylight saving changes"
\* (docs/manager.md), save on the day the change skips it.
KeepsWallClock ==
    Daily => Local(next) % Day = Local(anchor) % Day \/ Moved(next)

\* A plan dispatched at its time runs next exactly its interval later: by the
\* calendar of its zone if it counts in days, in plain time if not.
EveryInterval ==
    last.seen /\ last.at = last.due /\ last.due >= anchor =>
        IF Daily
        THEN Moved(last.due) \/ Moved(next) \/ Local(next) - Local(last.due) = interval
        ELSE next - last.due = interval
=============================================================================
