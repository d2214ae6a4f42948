------------------------------ MODULE Pipeline ------------------------------
(***************************************************************************)
(* The threads of a backup and of a restore (dbs/engine/pipeline.py).  In  *)
(* a backup the main thread hands payload bytes to compress, encode and    *)
(* sink; in a restore read and decode hand them to the main thread.  The   *)
(* stages are joined by channels of bounded size; a stage that fails stops *)
(* them all, and the main thread joins them before it goes on.             *)
(***************************************************************************)
EXTENDS Integers, Sequences, FiniteSets, SequencesExt

CONSTANTS
    Mode,           \* "backup" or "restore"
    Compressing,    \* BOOLEAN
    Frames,         \* what the main thread writes, or the file holds: sequences of bytes
    SegmentBytes,   \* SEGMENT_BYTES
    Capacity,       \* CHANNEL_BYTES
    HeldBytes,      \* what the StreamWriter holds back before it emits
    MayFail         \* the stages that may raise an error of their own

PipelineAssumption ==
    /\ Mode \in {"backup", "restore"} /\ Compressing \in BOOLEAN
    /\ {SegmentBytes, Capacity} \subseteq Nat \ {0} /\ HeldBytes \in Nat

Stages == IF Mode = "backup" THEN <<"main", "compress", "encode", "sink">>
          ELSE <<"read", "decode", "main">>
Threads == Range(Stages)

\* The channel k lies between the stages k and k + 1.
Channels == 1 .. Len(Stages) - 1
Place(t) == CHOOSE k \in DOMAIN Stages : Stages[k] = t
In(t) == Place(t) - 1
Out(t) == Place(t)

END == [data |-> <<>>, job |-> -1]
Item(data, job) == [data |-> data, job |-> job]

VARIABLES
    th,        \* th[t]: pc, hand (bytes being worked on), held, put (the item to put), exc
    chan,      \* chan[c]: items
    waiters,   \* waiters[c]: the threads in the condition's wait
    stopped, failure,   \* of the Pipeline
    jobs,      \* jobs[j]: a segment given to the deflate pool
    feed,      \* what the first stage has not taken yet
    out,       \* bytes that reached the output, or the reader of the payload
    sound,     \* the container passes the reader's last check
    causes,    \* the stages that raised an error of their own
    result     \* how the with block ended

vars == <<th, chan, waiters, stopped, failure, jobs, feed, out, sound, causes, result>>

Payload == FlattenSeq(Frames)
FirstStage == Stages[1]
LastStage == Stages[Len(Stages)]

-----------------------------------------------------------------------------
(* Channels. *)

BytesIn(c) == FoldLeft(LAMBDA n, item : n + Len(item.data), 0, chan[c])

Goto(t, pc) == th' = [th EXCEPT ![t].pc = pc]
Raise(t, exc) == th' = [th EXCEPT ![t].pc = "raise", ![t].exc = exc]

\* put waits while the item does not fit, except into an empty channel; close never waits.
Room(c, item) == item = END \/ chan[c] = <<>> \/ BytesIn(c) + Len(item.data) <= Capacity

\* _append: notify_all.
AppendItem(t, c, item) ==
    /\ chan' = [chan EXCEPT ![c] = Append(@, item)]
    /\ waiters' = [waiters EXCEPT ![c] = {}]

\* put and close: one turn under the channel's lock.
Put(t) ==
    /\ th[t].pc = "put" /\ t \notin waiters[Out(t)]
    /\ LET c == Out(t)
           item == th[t].put
       IN  \/ stopped /\ Raise(t, "Stopped") /\ UNCHANGED <<chan, waiters>>
           \/ /\ ~ stopped /\ Room(c, item)
              /\ AppendItem(t, c, item)
              /\ Goto(t, IF item = END THEN "drain" ELSE "work")
           \/ /\ ~ stopped /\ ~ Room(c, item)
              /\ waiters' = [waiters EXCEPT ![c] = @ \cup {t}]
              /\ UNCHANGED <<th, chan>>
    /\ UNCHANGED <<stopped, failure, jobs, feed, out, sound, causes, result>>

\* get: one turn under the channel's lock.
Get(t) ==
    /\ th[t].pc = "get" /\ t \notin waiters[In(t)]
    /\ LET c == In(t)
       IN  \/ stopped /\ Raise(t, "Stopped") /\ UNCHANGED <<chan, waiters>>
           \/ /\ ~ stopped /\ chan[c] # <<>>
              /\ chan' = [chan EXCEPT ![c] = Tail(@)]
              /\ waiters' = [waiters EXCEPT ![c] = {}]
              /\ th' = [th EXCEPT ![t].item = Head(chan[c]), ![t].hand = Head(chan[c]).data,
                                  ![t].pc = "work"]
           \/ /\ ~ stopped /\ chan[c] = <<>>
              /\ waiters' = [waiters EXCEPT ![c] = @ \cup {t}]
              /\ UNCHANGED <<th, chan>>
    /\ UNCHANGED <<stopped, failure, jobs, feed, out, sound, causes, result>>

-----------------------------------------------------------------------------
(* The stages. *)

\* The main thread of a backup, and _read_ahead: the next piece, then the end.
Produce(t) ==
    /\ t = FirstStage /\ th[t].pc = "work"
    /\ IF feed = <<>>
       THEN th' = [th EXCEPT ![t].put = END, ![t].pc = "put"] /\ UNCHANGED feed
       ELSE /\ th' = [th EXCEPT ![t].put = Item(Head(feed), 0), ![t].pc = "put"]
            /\ feed' = Tail(feed)
    /\ UNCHANGED <<chan, waiters, stopped, failure, jobs, out, sound, causes, result>>

\* _compress: bytes gather until a segment is full, and go to the pool.
NewJob == Len(jobs) + 1
Submit(t, data, rest) ==
    /\ jobs' = Append(jobs, "queued")
    /\ th' = [th EXCEPT ![t].put = Item(data, NewJob), ![t].pc = "put", ![t].held = <<>>,
                        ![t].hand = rest]

Compress(t) ==
    /\ t = "compress" /\ Compressing /\ th[t].pc = "work"
    /\ LET room == SegmentBytes - Len(th[t].held)
           take == IF Len(th[t].hand) < room THEN Len(th[t].hand) ELSE room
           held == th[t].held \o SubSeq(th[t].hand, 1, take)
           rest == SubSeq(th[t].hand, take + 1, Len(th[t].hand))
       IN  \/ /\ th[t].hand # <<>> /\ Len(held) >= SegmentBytes
              /\ Submit(t, held, rest)
           \/ /\ th[t].hand # <<>> /\ Len(held) < SegmentBytes
              /\ th' = [th EXCEPT ![t].held = held, ![t].hand = rest]
              /\ UNCHANGED jobs
           \/ /\ th[t].hand = <<>> /\ th[t].item # END
              /\ Goto(t, "get") /\ UNCHANGED jobs
           \/ /\ th[t].item = END /\ th[t].hand = <<>> /\ th[t].held # <<>>
              /\ Submit(t, th[t].held, <<>>)
           \/ /\ th[t].item = END /\ th[t].hand = <<>> /\ th[t].held = <<>>
              /\ th' = [th EXCEPT ![t].put = END, ![t].pc = "put"] /\ UNCHANGED jobs
    /\ UNCHANGED <<chan, waiters, stopped, failure, feed, out, sound, causes, result>>

\* _pass_through: item by item.
PassThrough(t) ==
    /\ t = "compress" /\ ~ Compressing /\ th[t].pc = "work"
    /\ IF th[t].item = Item(<<>>, 0) THEN Goto(t, "get")
       ELSE th' = [th EXCEPT ![t].put = th[t].item, ![t].pc = "put", ![t].item = Item(<<>>, 0)]
    /\ UNCHANGED <<chan, waiters, stopped, failure, jobs, feed, out, sound, causes, result>>

\* _deflate, in the pool.
Deflate(j) ==
    /\ jobs[j] = "queued"
    /\ \/ jobs' = [jobs EXCEPT ![j] = "done"] /\ UNCHANGED causes
       \/ /\ "deflate" \in MayFail
          /\ jobs' = [jobs EXCEPT ![j] = "failed"] /\ causes' = causes \cup {"deflate"}
    /\ UNCHANGED <<th, chan, waiters, stopped, failure, feed, out, sound, result>>

\* _encode: a segment's result, then the writer, which holds bytes back until close.
Encode(t) ==
    /\ t = "encode" /\ th[t].pc = "work"
    /\ LET j == th[t].item.job
           ready == IF j <= 0 THEN TRUE ELSE jobs[j] = "done"
       IN  \/ /\ j > 0 /\ jobs[j] \in {"failed", "cancelled"}
              /\ Raise(t, IF jobs[j] = "failed" THEN "deflate" ELSE "Cancelled")
           \/ /\ ready /\ th[t].item # END /\ th[t].hand # <<>>
              /\ LET held == th[t].held \o th[t].hand
                 IN  IF Len(held) > HeldBytes
                     THEN th' = [th EXCEPT ![t].put = Item(held, 0), ![t].held = <<>>,
                                           ![t].hand = <<>>, ![t].pc = "put"]
                     ELSE th' = [th EXCEPT ![t].held = held, ![t].hand = <<>>]
           \/ /\ ready /\ th[t].item # END /\ th[t].hand = <<>>
              /\ Goto(t, "get")
           \/ /\ th[t].item = END /\ th[t].held # <<>>
              /\ th' = [th EXCEPT ![t].put = Item(th[t].held, 0), ![t].held = <<>>, ![t].pc = "put"]
           \/ /\ th[t].item = END /\ th[t].held = <<>>
              /\ th' = [th EXCEPT ![t].put = END, ![t].pc = "put"]
    /\ UNCHANGED <<chan, waiters, stopped, failure, jobs, feed, out, sound, causes, result>>

\* _decode: chunk by chunk, inflated; the end is put only when the last check has passed.
Decode(t) ==
    /\ t = "decode" /\ th[t].pc = "work"
    /\ IF th[t].hand # <<>>
       THEN th' = [th EXCEPT ![t].put = Item(th[t].hand, 0), ![t].hand = <<>>, ![t].pc = "put"]
       ELSE IF th[t].item # END THEN Goto(t, "get")
       ELSE IF sound THEN th' = [th EXCEPT ![t].put = END, ![t].pc = "put"]
       ELSE Raise(t, "corrupted")
    /\ UNCHANGED <<chan, waiters, stopped, failure, jobs, feed, out, sound, causes, result>>

\* _sink, and the reader of the payload: the bytes arrive; at the end the stage is done.
Consume(t) ==
    /\ t = LastStage /\ th[t].pc = "work"
    /\ out' = out \o th[t].hand
    /\ Goto(t, IF th[t].item = END THEN "drain" ELSE "get")
    /\ UNCHANGED <<chan, waiters, stopped, failure, jobs, feed, sound, causes, result>>

\* A stage raises an error of its own: a full disk, a missing file, a caller that gives up.
Err(t) ==
    /\ t \in MayFail /\ th[t].pc = "work"
    /\ Raise(t, t)
    /\ causes' = causes \cup {t}
    /\ UNCHANGED <<chan, waiters, stopped, failure, jobs, feed, out, sound, result>>

\* The end of a stage's work: the pool is shut down, the main thread leaves the block.
Drain(t) ==
    /\ th[t].pc = "drain"
    /\ t = "compress" => \A j \in DOMAIN jobs : jobs[j] # "queued"
    /\ Goto(t, IF t # "main" THEN "ended" ELSE IF Mode = "restore" THEN "stop" ELSE "join")
    /\ UNCHANGED <<chan, waiters, stopped, failure, jobs, feed, out, sound, causes, result>>

-----------------------------------------------------------------------------
(* Failure. *)

\* _compress cancels what the pool has not begun; Stopped ends a stage quietly.
Unwind(t) ==
    /\ th[t].pc = "raise"
    /\ jobs' = IF t = "compress"
               THEN [j \in DOMAIN jobs |-> IF jobs[j] = "queued" THEN "cancelled" ELSE jobs[j]]
               ELSE jobs
    /\ Goto(t, IF t = "main" THEN "stop" ELSE IF th[t].exc = "Stopped" THEN "ended" ELSE "fail")
    /\ UNCHANGED <<chan, waiters, stopped, failure, feed, out, sound, causes, result>>

\* fail: the first error is kept.
Fail(t) ==
    /\ th[t].pc = "fail"
    /\ failure' = IF failure = "none" THEN th[t].exc ELSE failure
    /\ Goto(t, "stop")
    /\ UNCHANGED <<chan, waiters, stopped, jobs, feed, out, sound, causes, result>>

\* stop: the flag, and then every channel is woken in turn.
Stop(t) ==
    /\ th[t].pc = "stop"
    /\ stopped' = TRUE
    /\ th' = [th EXCEPT ![t].pc = "wake", ![t].next = 1]
    /\ UNCHANGED <<chan, waiters, failure, jobs, feed, out, sound, causes, result>>

\* Mutant: the last channel is not woken.
WakeSome(t) ==
    /\ th[t].pc = "wake"
    /\ IF th[t].next < Len(Stages) - 1
       THEN /\ waiters' = [waiters EXCEPT ![th[t].next] = {}]
            /\ th' = [th EXCEPT ![t].next = @ + 1]
       ELSE Goto(t, IF t = "main" THEN "join" ELSE "ended") /\ UNCHANGED waiters
    /\ UNCHANGED <<chan, stopped, failure, jobs, feed, out, sound, causes, result>>

Wake(t) ==
    /\ th[t].pc = "wake"
    /\ IF th[t].next \in Channels
       THEN /\ waiters' = [waiters EXCEPT ![th[t].next] = {}]
            /\ th' = [th EXCEPT ![t].next = @ + 1]
       ELSE Goto(t, IF t = "main" THEN "join" ELSE "ended") /\ UNCHANGED waiters
    /\ UNCHANGED <<chan, stopped, failure, jobs, feed, out, sound, causes, result>>

\* __exit__: the block's own error, or the first of the stages.
Join ==
    /\ th["main"].pc = "join"
    /\ \A t \in Threads \ {"main"} : th[t].pc = "ended"
    /\ result' = IF th["main"].exc \notin {"none", "Stopped"} THEN th["main"].exc
                 ELSE IF failure # "none" THEN failure
                 ELSE IF th["main"].exc = "none" THEN "ok" ELSE "Stopped"
    /\ Goto("main", "ended")
    /\ UNCHANGED <<chan, waiters, stopped, failure, jobs, feed, out, sound, causes>>

-----------------------------------------------------------------------------

Init ==
    /\ th = [t \in Threads |-> [pc |-> IF t = FirstStage THEN "work" ELSE "get", item |-> Item(<<>>, 0),
                                hand |-> <<>>, held |-> <<>>, put |-> END, exc |-> "none", next |-> 0]]
    /\ chan = [c \in Channels |-> <<>>]
    /\ waiters = [c \in Channels |-> {}]
    /\ stopped = FALSE /\ failure = "none" /\ jobs = <<>> /\ feed = Frames /\ out = <<>>
    /\ sound \in IF Mode = "restore" THEN BOOLEAN ELSE {TRUE}
    /\ causes = {} /\ result = "none"

Work(t) ==
    \/ Put(t) \/ Get(t)
    \/ Produce(t) \/ Compress(t) \/ PassThrough(t) \/ Encode(t) \/ Decode(t) \/ Consume(t)
    \/ Drain(t) \/ Unwind(t) \/ Fail(t) \/ Stop(t) \/ Wake(t)

Next ==
    \/ \E t \in Threads : Work(t) \/ Err(t)
    \/ \E j \in DOMAIN jobs : Deflate(j)
    \/ Join

Spec == Init /\ [][Next]_vars

-----------------------------------------------------------------------------
(* Properties. *)

\* What comes out is always the beginning of what went in, in order, and all of
\* it when the block ends without an error.
Delivered ==
    /\ out = SubSeq(Payload, 1, Len(out))
    /\ result = "ok" => out = Payload

\* A block ends without an error only when no stage had one and the container
\* passed its last check.
ErrorsSurface == result = "ok" => causes = {} /\ sound

\* The error of a stage is the one that is told, and not that another stage was
\* cancelled because of it, unless it is the compressor that failed.
CauseIsTold == result \in {"Cancelled", "Stopped"} => "compress" \in causes

\* A channel holds its capacity, or one item that is larger.
ChannelsBounded ==
    \A c \in Channels : BytesIn(c) <= Capacity \/ Len(SelectSeq(chan[c], LAMBDA i : i # END)) = 1

\* Whatever fails and whenever, no thread is left waiting for a channel that
\* nobody will wake: what cannot go on has ended, and so has the block.
NobodyStuck ==
    ~ ENABLED Next => result # "none" /\ \A t \in Threads : th[t].pc = "ended"
=============================================================================
