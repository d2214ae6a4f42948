-------------------------------- MODULE Ticks --------------------------------
(***************************************************************************)
(* The manager's scheduler (dbs/manager/scheduler.py) and the lease of the *)
(* instance that runs it (take_instance_lease and command_run of cli.py,   *)
(* dbs/leases.py).  A second django_dbs run finds the lease taken and only *)
(* opens the browser; it takes over from a holder that is dead.  Each tick *)
(* acquires the lease again, reads the tasks that are due and claims each  *)
(* by comparing its next_run_at; a tick may be slow, and the lease may run *)
(* out under it.                                                           *)
(***************************************************************************)
EXTENDS Integers, Sequences

CONSTANTS
    Instances, Nobody,
    LeaseSeconds,   \* LEASE_SECONDS
    Interval,       \* the interval of the task
    InTime,         \* an instance that serves renews its lease before it runs out
    MaxTime         \* bound: the clock

TicksAssumption == LeaseSeconds \in Nat \ {0} /\ Interval \in Nat \ {0}

VARIABLES
    now,
    lease,     \* the lease's owner, and when it expires
    proc,      \* proc[i]: the process: "down", "found", "again", "serving", "stopping", "dead"
    found,     \* found[i]: the dead holder that instance i found
    tick,      \* tick[i]: the step of the scheduler's thread, its now, the next_run_at it read
    due,       \* next_run_at of the task
    claims     \* history: the now of every tick that claimed the task

vars == <<now, lease, proc, found, tick, due, claims>>

Quiet == [at |-> "wait", now |-> 0, read |-> 0]

Init ==
    /\ now = 0
    /\ lease = [owner |-> Nobody, until |-> 0]
    /\ proc = [i \in Instances |-> "down"]
    /\ found = [i \in Instances |-> Nobody]
    /\ tick = [i \in Instances |-> Quiet]
    /\ due = 0
    /\ claims = <<>>

\* leases.acquire, one UPDATE: an expired lease, or one's own
acquire(i) == lease.until <= now \/ lease.owner = i
Taken(i) == [owner |-> i, until |-> now + LeaseSeconds]

\* abandoned: the holder's process is no more
abandoned(i) == proc[i] = "dead"

\* take_instance_lease: acquired, or its holder is looked at
Start(i) ==
    /\ proc[i] = "down"
    /\ IF acquire(i)
       THEN lease' = Taken(i) /\ proc' = [proc EXCEPT ![i] = "serving"] /\ UNCHANGED found
       ELSE /\ abandoned(lease.owner)
            /\ found' = [found EXCEPT ![i] = lease.owner]
            /\ proc' = [proc EXCEPT ![i] = "found"]
            /\ UNCHANGED lease
    /\ UNCHANGED <<now, tick, due, claims>>

\* leases.release of a holder: only while the lease is still its own
Released(i) == IF lease.owner = i THEN [owner |-> Nobody, until |-> now] ELSE lease

TakeOver(i) ==
    /\ proc[i] = "found"
    /\ lease' = Released(found[i])
    /\ proc' = [proc EXCEPT ![i] = "again"]
    /\ UNCHANGED <<now, found, tick, due, claims>>

AcquireAgain(i) ==
    /\ proc[i] = "again"
    /\ IF acquire(i)
       THEN lease' = Taken(i) /\ proc' = [proc EXCEPT ![i] = "serving"]
       ELSE proc' = [proc EXCEPT ![i] = "down"] /\ UNCHANGED lease
    /\ UNCHANGED <<now, found, tick, due, claims>>

---------------------------------------------------------------------------
(* tick                                                                    *)

TickBegins(i) ==
    /\ proc[i] = "serving" /\ tick[i].at = "wait"
    /\ tick' = [tick EXCEPT ![i] = [at |-> "lease", now |-> now, read |-> 0]]
    /\ UNCHANGED <<now, lease, proc, found, due, claims>>

Running(i) == proc[i] \in {"serving", "stopping"}

TickAcquires(i) ==
    /\ Running(i) /\ tick[i].at = "lease"
    /\ IF acquire(i)
       THEN lease' = Taken(i) /\ tick' = [tick EXCEPT ![i].at = "read"]
       ELSE UNCHANGED lease /\ tick' = [tick EXCEPT ![i] = Quiet]
    /\ UNCHANGED <<now, proc, found, due, claims>>

TickReads(i) ==
    /\ Running(i) /\ tick[i].at = "read"
    /\ tick' = [tick EXCEPT ![i] =
           IF due <= tick[i].now THEN [at |-> "claim", now |-> tick[i].now, read |-> due] ELSE Quiet]
    /\ UNCHANGED <<now, lease, proc, found, due, claims>>

\* claim: filter(next_run_at=scheduled).update(...) == 1
claim(scheduled) == due = scheduled

TickClaims(i) ==
    /\ Running(i) /\ tick[i].at = "claim"
    /\ IF claim(tick[i].read)
       THEN due' = tick[i].now + Interval /\ claims' = Append(claims, tick[i].now)
       ELSE UNCHANGED <<due, claims>>
    /\ tick' = [tick EXCEPT ![i] = Quiet]
    /\ UNCHANGED <<now, lease, proc, found>>

---------------------------------------------------------------------------
(* The end of an instance, and time                                        *)

\* scheduler.stop waits five seconds for the tick, and not for longer
Stop(i) ==
    /\ proc[i] = "serving"
    /\ proc' = [proc EXCEPT ![i] = "stopping"]
    /\ lease' = Released(i)
    /\ UNCHANGED <<now, found, tick, due, claims>>

Dies(i) ==
    /\ Running(i)
    /\ proc' = [proc EXCEPT ![i] = "dead"]
    /\ UNCHANGED <<now, lease, found, tick, due, claims>>

Renewed == \A i \in Instances : proc[i] = "serving" => lease.owner = i /\ now + 1 < lease.until

Tick ==
    /\ now < MaxTime
    /\ InTime => Renewed
    /\ now' = now + 1
    /\ UNCHANGED <<lease, proc, found, tick, due, claims>>

Next ==
    \/ \E i \in Instances :
        \/ Start(i) \/ TakeOver(i) \/ AcquireAgain(i)
        \/ TickBegins(i) \/ TickAcquires(i) \/ TickReads(i) \/ TickClaims(i)
        \/ Stop(i) \/ Dies(i)
    \/ Tick

Spec == Init /\ [][Next]_vars

---------------------------------------------------------------------------
(* Properties                                                              *)

\* A task is claimed once for each time it is due: two claims, by whichever
\* instances, were made for moments at least its interval apart, also when the
\* lease ran out under a slow tick and another instance ticked meanwhile.
Spaced == \A k \in 1 .. Len(claims) - 1 : claims[k + 1] >= claims[k] + Interval

\* One instance serves a data folder at a time, as long as it ticks in time,
\* however many are started when the last one has died.
OneServes == \A i, j \in Instances : proc[i] = "serving" /\ proc[j] = "serving" => i = j

---------------------------------------------------------------------------
(* Why they hold                                                           *)

Steps == {"wait", "lease", "read", "claim"}
States == {"down", "found", "again", "serving", "stopping", "dead"}

TypeOK ==
    /\ now \in Nat
    /\ lease \in [owner : Instances \cup {Nobody}, until : Nat]
    /\ proc \in [Instances -> States]
    /\ found \in [Instances -> Instances \cup {Nobody}]
    /\ tick \in [Instances -> [at : Steps, now : Nat, read : Nat]]
    /\ due \in Nat
    /\ claims \in Seq(Nat)

\* a tick claims what was due when it began, and the last claim says when the
\* task is due again
SpacedInv ==
    /\ TypeOK
    /\ \A i \in Instances : tick[i].at = "claim" => tick[i].read <= tick[i].now
    /\ claims # <<>> => due = claims[Len(claims)] + Interval
    /\ Spaced

\* the instance that serves holds a lease that has not run out, and who is found
\* dead is dead
ServesInv ==
    /\ TypeOK
    /\ \A i \in Instances : proc[i] = "serving" => lease.owner = i /\ now < lease.until
    /\ \A i \in Instances : proc[i] = "found" => found[i] \in Instances /\ proc[found[i]] = "dead"
    /\ lease.owner \in Instances \/ lease.until <= now
==============================================================================
