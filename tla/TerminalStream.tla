--------------------------- MODULE TerminalStream ---------------------------
(* One terminal of the manager: the thread that reads its channel into a       *)
(* bounded buffer, browser tabs that ask for the output from a cursor, the     *)
(* keystrokes they send, and how the terminal ends and is forgotten. Output is *)
(* counted in pieces: piece n is the one at position n.                        *)
EXTENDS Naturals, Sequences

CONSTANTS Tabs,        \* tabs that show the terminal, each with its own cursor
          Capacity,    \* BUFFER_BYTES, in pieces
          ReadMax,     \* READ_MAX
          MaxOutput,   \* pieces the command writes at most
          MaxKeys,     \* keystrokes typed at most
          MaxLost,     \* answers that are lost on the way to the browser
          Attentive,   \* the tabs ask again within UNPOLLED_SECONDS
          None

StreamAssumption == /\ Capacity \in Nat \ {0} /\ ReadMax \in Nat \ {0}
                           /\ MaxOutput \in Nat /\ MaxKeys \in Nat /\ MaxLost \in Nat

VARIABLES chan,    \* the channel: [made, read, exited, open]
          buf,     \* OutputBuffer: [start, end, ack, closed]
          reader,  \* the reader thread: "recv", "append", "done"
          ses,     \* [ended, reason, finished, known, waiting, ending]
          tab,     \* [Tabs -> what the tab has and asks]
          keys,    \* [next, flying, last, sent]
          lost

vars == <<chan, buf, reader, ses, tab, keys, lost>>

NoTab == [at |-> "idle", cursor |-> 0, ask |-> 0, waits |-> FALSE, begin |-> 0, next |-> 0,
          skipped |-> FALSE, closed |-> FALSE, seen |-> {}, told |-> FALSE, over |-> "-"]

-----------------------------------------------------------------------------
(* The command writes, and exits.                                              *)
Produce == /\ chan.open /\ ~chan.exited /\ chan.made < MaxOutput
           /\ chan' = [chan EXCEPT !.made = @ + 1]
           /\ UNCHANGED <<buf, reader, ses, tab, keys, lost>>
Exit == /\ chan.open /\ ~chan.exited
        /\ chan' = [chan EXCEPT !.exited = TRUE]
        /\ UNCHANGED <<buf, reader, ses, tab, keys, lost>>

(* end: the first reason stands; the channel and the buffer close after it.    *)
Ended(reason) == [ses EXCEPT !.ended = TRUE, !.reason = IF @ = "-" THEN reason ELSE @]

Recv ==
    /\ reader = "recv"
    /\ \/ /\ chan.open /\ chan.read < chan.made
          /\ chan' = [chan EXCEPT !.read = @ + 1] /\ reader' = "append" /\ UNCHANGED ses
       \/ /\ chan.open /\ chan.read = chan.made /\ chan.exited
          /\ reader' = "done" /\ ses' = Ended("exited") /\ UNCHANGED chan
       \/ /\ ~chan.open
          /\ reader' = "done" /\ ses' = Ended("lost") /\ UNCHANGED chan
    /\ UNCHANGED <<buf, tab, keys, lost>>

(* append waits while the buffer is full of what nobody has asked past.        *)
Fits == buf.end = buf.ack \/ buf.end - buf.ack + 1 <= Capacity
Appended ==
    /\ reader = "append"
    /\ IF buf.closed THEN reader' = "done" /\ UNCHANGED buf
       ELSE Fits /\ reader' = "recv" /\ buf' = [buf EXCEPT !.end = @ + 1]
    /\ UNCHANGED <<chan, ses, tab, keys, lost>>

CloseBuffer ==
    /\ ses.ended /\ ~buf.closed
    /\ buf' = [buf EXCEPT !.closed = TRUE] /\ chan' = [chan EXCEPT !.open = FALSE]
    /\ UNCHANGED <<reader, ses, tab, keys, lost>>

-----------------------------------------------------------------------------
(* output: how it ended, when that is remembered; the session otherwise.       *)
Over(t, answer) == [NoTab EXCEPT !.cursor = answer.cursor, !.seen = tab[t].seen,
                      !.over = answer.over, !.told = tab[t].told \/ answer.skipped]
Ask(t) ==
    /\ tab[t].at = "idle" /\ tab[t].over = "-"
    /\ LET e == ses.ending IN
       tab' = [tab EXCEPT ![t] =
         IF e # None
         THEN Over(t, [cursor |-> IF @.cursor > e.cursor THEN @.cursor ELSE e.cursor,
                       skipped |-> @.cursor < e.cursor, over |-> e.reason])
         ELSE [@ EXCEPT !.at = "find", !.ask = tab[t].cursor]]
    /\ UNCHANGED <<chan, buf, reader, ses, keys, lost>>
Find(t) ==
    /\ tab[t].at = "find"
    /\ IF ses.finished \/ ~ses.known
       THEN tab' = [tab EXCEPT ![t] = [@ EXCEPT !.at = "idle", !.over = "not found"]]
            /\ UNCHANGED ses
       ELSE /\ tab' = [tab EXCEPT ![t].at = "read", ![t].waits = ~ses.waiting]
            /\ ses' = [ses EXCEPT !.waiting = TRUE]
    /\ UNCHANGED <<chan, buf, reader, keys, lost>>

(* OutputBuffer.read acknowledges the cursor, drops what is before it, and     *)
(* waits for something to give.                                                *)
Trimmed(b, cursor) == [b EXCEPT !.ack = cursor, !.start = cursor]
Acknowledge(t) ==
    /\ tab[t].at = "read"
    /\ LET cursor == IF tab[t].ask < buf.end THEN tab[t].ask ELSE buf.end IN
       /\ buf' = IF cursor > buf.ack THEN Trimmed(buf, cursor) ELSE buf
       /\ tab' = [tab EXCEPT ![t].at = "wait", ![t].ask = cursor]
    /\ UNCHANGED <<chan, reader, ses, keys, lost>>
Timeout(t) == tab[t].ask >= buf.end /\ ~buf.closed
Given(t) ==
    LET begin == IF tab[t].ask > buf.start THEN tab[t].ask ELSE buf.start
        next == IF begin + ReadMax < buf.end THEN begin + ReadMax ELSE buf.end
    IN  [tab[t] EXCEPT !.at = "leave", !.begin = begin, !.next = next,
                       !.skipped = tab[t].ask < buf.start]
Give(t) ==
    /\ tab[t].at = "wait"
    /\ tab' = [tab EXCEPT ![t] = Given(t)]
    /\ UNCHANGED <<chan, buf, reader, ses, keys, lost>>

(* drained: ended, and everything given.                                       *)
Drained(next) == ses.ended /\ buf.closed /\ next >= buf.end
Leave(t) ==
    /\ tab[t].at = "leave"
    /\ LET closed == Drained(tab[t].next) IN
       /\ tab' = [tab EXCEPT ![t].at = "answer", ![t].closed = closed]
       /\ ses' = [ses EXCEPT !.waiting = IF tab[t].waits THEN FALSE ELSE @,
                             !.finished = @ \/ closed]
    /\ UNCHANGED <<chan, buf, reader, keys, lost>>

(* The tab shows what it is given and says so when something is missing; an    *)
(* answer that is lost leaves it at its cursor.                                *)
Show(t) ==
    /\ tab[t].at = "answer"
    /\ tab' = [tab EXCEPT ![t] =
                 [NoTab EXCEPT !.cursor = tab[t].next, !.told = tab[t].told \/ tab[t].skipped,
                               !.seen = tab[t].seen \cup (tab[t].begin .. (tab[t].next - 1)),
                               !.over = IF tab[t].closed THEN ses.reason ELSE "-"]]
    /\ UNCHANGED <<chan, buf, reader, ses, keys, lost>>
Lose(t) ==
    /\ tab[t].at = "answer" /\ lost < MaxLost
    /\ lost' = lost + 1
    /\ tab' = [tab EXCEPT ![t] = [NoTab EXCEPT !.cursor = tab[t].cursor, !.seen = tab[t].seen,
                                               !.told = tab[t].told]]
    /\ UNCHANGED <<chan, buf, reader, ses, keys>>

(* A tab is reloaded, and shows the terminal from its beginning.               *)
Reload(t) ==
    /\ tab[t].at = "idle" /\ tab[t].over = "-" /\ lost < MaxLost
    /\ lost' = lost + 1
    /\ tab' = [tab EXCEPT ![t] = NoTab]
    /\ UNCHANGED <<chan, buf, reader, ses, keys>>

-----------------------------------------------------------------------------
(* The person closes it, or the sweep finds it unpolled, idle or too old.      *)
Close ==
    /\ ~ses.finished /\ ses.known
    /\ ses' = [Ended("closed") EXCEPT !.finished = TRUE]
    /\ UNCHANGED <<chan, buf, reader, tab, keys, lost>>
Quiet == \A t \in Tabs: tab[t].at = "idle"
Sweep ==
    /\ ~Attentive /\ Quiet /\ ~ses.waiting /\ ses.known /\ ~ses.finished
    /\ ses' = [Ended("unpolled") EXCEPT !.finished = TRUE]
    /\ UNCHANGED <<chan, buf, reader, tab, keys, lost>>
Forget ==
    /\ ses.finished /\ ses.known /\ buf.closed
    /\ ses' = [ses EXCEPT !.known = FALSE,
                          !.ending = [cursor |-> buf.end, reason |-> ses.reason]]
    /\ UNCHANGED <<chan, buf, reader, tab, keys, lost>>

-----------------------------------------------------------------------------
(* The browser sends a keystroke, again when no answer came, and the next only *)
(* after an answer; requests may overtake each other. write drops a number it  *)
(* has had.                                                                    *)
Type ==
    /\ keys.next < MaxKeys /\ keys.flying[keys.next] < 2
    /\ keys.flying[keys.next] = 0 \/ lost < MaxLost
    /\ lost' = IF keys.flying[keys.next] = 0 THEN lost ELSE lost + 1
    /\ keys' = [keys EXCEPT !.flying[keys.next] = @ + 1]
    /\ UNCHANGED <<chan, buf, reader, ses, tab>>
New(n) == n >= keys.last
Write(n) ==
    /\ keys.flying[n] > 0 /\ ses.known /\ ~ses.finished
    /\ LET kept == IF ~ses.ended /\ New(n)
                   THEN [keys EXCEPT !.sent = Append(@, n), !.last = n + 1] ELSE keys
       IN  \/ keys' = [kept EXCEPT !.flying[n] = @ - 1,
                                   !.next = IF keys.next = n /\ ~ses.ended THEN n + 1 ELSE @]
              /\ UNCHANGED lost
           \/ /\ lost < MaxLost /\ lost' = lost + 1
              /\ keys' = [kept EXCEPT !.flying[n] = @ - 1]
    /\ UNCHANGED <<chan, buf, reader, ses, tab>>

Init ==
    /\ chan = [made |-> 0, read |-> 0, exited |-> FALSE, open |-> TRUE]
    /\ buf = [start |-> 0, end |-> 0, ack |-> 0, closed |-> FALSE]
    /\ reader = "recv"
    /\ ses = [ended |-> FALSE, reason |-> "-", finished |-> FALSE, known |-> TRUE,
              waiting |-> FALSE, ending |-> None]
    /\ tab = [t \in Tabs |-> NoTab]
    /\ keys = [next |-> 0, flying |-> [n \in 0 .. (MaxKeys - 1) |-> 0], last |-> 0,
               sent |-> << >>]
    /\ lost = 0

TabStep(t) == Ask(t) \/ Find(t) \/ Acknowledge(t) \/ (Give(t) /\ ~Timeout(t)) \/ Leave(t) \/ Show(t)
Thread == Recv \/ Appended \/ CloseBuffer \/ Forget
Next ==
    \/ Produce \/ Exit \/ Thread
    \/ \E t \in Tabs: TabStep(t) \/ (Give(t) /\ Timeout(t)) \/ Lose(t) \/ Reload(t)
    \/ Close \/ Sweep \/ Type \/ \E n \in 0 .. (MaxKeys - 1): Write(n)

Spec == Init /\ [][Next]_vars

-----------------------------------------------------------------------------
(* The buffer never holds more than its capacity, whatever the command writes  *)
(* and however slowly the tabs ask.                                            *)
Bounded == buf.end - buf.start <= Capacity

(* A tab has seen everything before its cursor, or was told that some of it    *)
(* was skipped: by another tab's cursor, or because the terminal was forgotten.*)
NothingUnseen == \A t \in Tabs:
    ~tab[t].told => \A p \in 0 .. (tab[t].cursor - 1): p \in tab[t].seen

(* A tab that is told the command exited has been given all its output, or was *)
(* told what it missed.                                                        *)
LastWordsGiven == \A t \in Tabs:
    (tab[t].over = "exited" /\ ~tab[t].told) => tab[t].cursor = chan.made

(* Keystrokes reach the shell once each and in the order they were typed,      *)
(* though requests are repeated and overtake each other.                       *)
KeysOnce == \A i \in DOMAIN keys.sent: keys.sent[i] = i - 1

=============================================================================
