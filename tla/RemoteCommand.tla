---------------------------- MODULE RemoteCommand ----------------------------
(* Commands the manager runs on a server over SSH for one application, one job *)
(* after another: started under the `timeout` command where the server has it, *)
(* read until they end, the deadline passes, nothing arrives for too long or   *)
(* the connection is lost. A command whose end was not seen may still run; the *)
(* application settles until it must have ended. Time passes in ticks; a timer *)
(* that is due goes off before the next tick.                                  *)
EXTENDS Naturals, FiniteSets, Sequences

CONSTANTS Kinds,        \* of "run", "stream", "feed"
          Seconds,      \* the time the command is given
          Kill,         \* REMOTE_KILL_AFTER
          Margin,       \* DEADLINE_MARGIN
          Idle,         \* idle_timeout of a stream
          Delay,        \* ticks until the command runs, at most
          Notice,       \* ticks until a lost connection is noticed, at most
          Chunks,       \* pieces of output a command writes, at most
          OnHost,       \* the server has `timeout`
          Inside,       \* the command runs in a container, which has `timeout`
          Container,    \* the command runs in a container
          MaxCalls, MaxTime   \* bounds of the model

CommandAssumption ==
    /\ {Seconds, Kill, Margin, Idle, Delay, Notice, Chunks, MaxCalls, MaxTime} \subseteq Nat
    /\ Seconds > 0 /\ Idle > 0 /\ Inside => Container

VARIABLES now, up, cut,   \* the clock; the connection answers, and when it was lost
          proc,           \* processes on the server, in the order they were started
          call,           \* the call in progress
          last,           \* how the last call ended
          settle          \* settling_until of the application

vars == <<now, up, cut, proc, call, last, settle>>

NoCall == [kind |-> "none", at |-> "idle", began |-> 0, deadline |-> 0, settles |-> 0,
           got |-> 0, heard |-> 0, since |-> 0, tail |-> 0]
Latest(a, b) == IF a >= b THEN a ELSE b
Running == {i \in DOMAIN proc: proc[i].st = "run"}
Mine == Len(proc)       \* the process of the call, once it runs

-----------------------------------------------------------------------------
(* bounded, _waited: the command stops itself before the manager gives up.   *)
Limited == OnHost \/ Inside
Bounded == IF Container THEN Inside ELSE OnHost
Waited == IF Limited THEN Seconds + Kill + Margin ELSE Seconds
(* mark: never earlier than what is known.                                   *)
Mark(until) == IF until > now THEN Latest(settle, until) ELSE settle
Settling == settle > now

(* run gives the time by which the command must have ended; stream and feed  *)
(* give none.                                                                *)
SettlesAt(k) == IF k = "run" THEN now + Seconds + Kill ELSE 0

Begin(k) ==
    /\ call.at = "idle" /\ up /\ ~Settling
    /\ Len(proc) < MaxCalls
    /\ call' = [NoCall EXCEPT !.kind = k, !.at = "exec", !.began = now,
                              !.settles = SettlesAt(k),
                              !.deadline = now + Waited]
    /\ UNCHANGED <<now, up, cut, proc, last, settle>>

(* exec_command. The deadline of run counts from here, that of the others    *)
(* from the call. History: a process is loose that was not begun by run in    *)
(* the tick of its call, which is what the settling time is reckoned from.    *)
Exec ==
    /\ call.at = "exec" /\ up
    /\ proc' = Append(proc, [st |-> "run", born |-> now, status |-> 0, wrote |-> 0,
                             loose |-> call.kind # "run" \/ call.began < now])
    /\ call' = [call EXCEPT !.at = "wait", !.heard = now, !.since = now, !.tail = now,
                            !.deadline = IF call.kind = "run" THEN now + Waited
                                         ELSE call.deadline]
    /\ UNCHANGED <<now, up, cut, last, settle>>

Ends(res, until) ==
    /\ call' = NoCall
    /\ last' = res
    /\ settle' = IF until = 0 THEN settle ELSE Mark(until)
    /\ UNCHANGED <<now, up, cut, proc>>

-----------------------------------------------------------------------------
(* The process on the server, which a lost connection may end or not.        *)
Write == /\ Mine \in Running /\ call.at = "wait" /\ proc[Mine].wrote < Chunks
         /\ proc' = [proc EXCEPT ![Mine].wrote = @ + 1]
         /\ UNCHANGED <<now, up, cut, call, last, settle>>
Exit == /\ \E i \in Running, s \in {0, 1}:
              proc' = [proc EXCEPT ![i].st = "end", ![i].status = s]
        /\ UNCHANGED <<now, up, cut, call, last, settle>>
(* `timeout` asks at the deadline; the process may not listen.               *)
Term == /\ Bounded
        /\ \E i \in Running: /\ now >= proc[i].born + Seconds
                             /\ proc' = [proc EXCEPT ![i].st = "end", ![i].status = 124]
        /\ UNCHANGED <<now, up, cut, call, last, settle>>
(* A line on standard error, seen by the thread that keeps its tail.         *)
Say == /\ Mine \in Running /\ call.at = "wait" /\ call.kind = "stream" /\ up
       /\ call' = [call EXCEPT !.tail = now]
       /\ UNCHANGED <<now, up, cut, proc, last, settle>>

Disconnect == /\ up /\ up' = FALSE /\ cut' = now
              /\ UNCHANGED <<now, proc, call, last, settle>>
Reconnect == /\ ~up /\ call.at = "idle" /\ up' = TRUE /\ cut' = 0
             /\ UNCHANGED <<now, proc, call, last, settle>>

-----------------------------------------------------------------------------
(* The manager's side.                                                       *)
Receive ==
    /\ call.at = "wait" /\ call.kind = "stream" /\ up /\ call.got < proc[Mine].wrote
    /\ call' = [call EXCEPT !.got = @ + 1, !.heard = now, !.since = now]
    /\ UNCHANGED <<now, up, cut, proc, last, settle>>

(* receive, a socket timeout: standard error counts as having heard.         *)
Heard == Latest(call.heard, call.tail)
IdleDue == call.at = "wait" /\ call.kind = "stream" /\ now >= call.since + Idle
IdleOut ==
    /\ IdleDue /\ ~(up /\ call.got < proc[Mine].wrote)
    /\ ~(up /\ Mine \notin Running)
    /\ IF now - Heard >= Idle
       THEN Ends("idle", 0)
       ELSE /\ call' = [call EXCEPT !.heard = Heard, !.since = now]
            /\ UNCHANGED <<now, up, cut, proc, last, settle>>

(* _Deadline and remaining(): the wait is over, the channel is closed. An    *)
(* exit that was already reported is read first.                             *)
DeadlineDue == call.at \in {"wait", "exec"} /\ now >= call.deadline
Deadline ==
    /\ DeadlineDue
    /\ ~(call.at = "wait" /\ up /\ Mine \notin Running)
    /\ Ends("deadline", call.settles)

(* recv_exit_status: 124 under `timeout` is a command that ran out of time.  *)
Done ==
    /\ call.at = "wait" /\ up /\ Mine \notin Running
    /\ call.kind = "stream" => call.got = proc[Mine].wrote
    /\ Ends(IF Limited /\ proc[Mine].status = 124 THEN "timedout"
            ELSE IF proc[Mine].status = 0 THEN "ok" ELSE "failed", 0)

(* _interrupted: the connection is gone and the end was not seen.            *)
Lost == /\ call.at \in {"exec", "wait"} /\ ~up
        /\ Ends("lost", call.settles)

-----------------------------------------------------------------------------
(* The end of the grace of `timeout -k` needs no one to listen.              *)
Tick ==
    /\ now < MaxTime
    /\ ~(call.at = "exec" /\ up /\ now >= call.began + Delay)
    /\ ~(call.at \in {"exec", "wait"} /\ ~up /\ now >= cut + Notice)
    /\ ~ENABLED IdleOut /\ ~ENABLED Deadline /\ ~ENABLED Done /\ ~ENABLED Receive
    /\ now' = now + 1
    /\ proc' = [i \in DOMAIN proc |->
                  IF Bounded /\ i \in Running /\ proc[i].born + Seconds + Kill <= now + 1
                  THEN [proc[i] EXCEPT !.st = "end", !.status = 124] ELSE proc[i]]
    /\ UNCHANGED <<up, cut, call, last, settle>>

Init == /\ now = 0 /\ up = TRUE /\ cut = 0
        /\ proc = <<>> /\ call = NoCall /\ last = "none" /\ settle = 0

Local == IdleOut \/ Deadline \/ Done \/ Lost \/ Receive \/ Exec
Next == \/ \E k \in Kinds: Begin(k)
        \/ Write \/ Exit \/ Term \/ Say \/ Disconnect \/ Reconnect \/ Tick
        \/ Local

Spec == Init /\ [][Next]_vars

-----------------------------------------------------------------------------

(* Until a command whose end was not seen has run out its time, the manager  *)
(* starts no other on the application, where the server has `timeout`; but   *)
(* for an earlier command whose settling time did not cover its run: one fed *)
(* or streamed whose connection broke, or started late on the server.        *)
OneAtATime == Bounded => \A i, j \in Running: i < j => proc[i].loose

(* "Until a command whose end was not seen has run out its time, the manager *)
(* starts no backup, restore or move on that application" (docs/manager.md). *)
AlwaysOneAtATime == Bounded => Cardinality(Running) <= 1

(* A command that outlives its time on a server that answers is stopped by   *)
(* `timeout`, and reported so: the manager never gives up first.             *)
ServerStopsFirst ==
    (Bounded /\ call.at # "idle" /\ call'.at = "idle" /\ last' = "deadline") => ~up

(* The docstring of stream: it stops for silence only when neither stream    *)
(* said anything for the idle time.                                          *)
NoFalseIdle ==
    (last' = "idle" /\ call'.at = "idle" /\ call.at = "wait")
     => now >= call.heard + Idle /\ now >= call.tail + Idle

(* Silence is noticed before it lasts twice the idle time.                   *)
SilenceNoticed ==
    (call.at = "wait" /\ call.kind = "stream" /\ call.got = proc[Mine].wrote)
        => now < Latest(call.heard, call.tail) + 2 * Idle

=============================================================================
