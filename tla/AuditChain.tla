----------------------------- MODULE AuditChain -----------------------------
(***************************************************************************)
(* The audit trail and its hash chain (dbs/audit.py, with the two places   *)
(* of the manager that write to a row later).  Rows are created, started,  *)
(* updated and closed by many processes; whoever finishes a row seals,     *)
(* after its commit, a batch of the finished rows into the chain.  Sealing *)
(* is a transaction: the lock on the chain's lease row comes first, and    *)
(* its writes show at its commit.  A hash stands for what was hashed: the  *)
(* sequence of the rows up to this one.                                    *)
(***************************************************************************)
EXTENDS Naturals, Sequences, FiniteSets

CONSTANTS
    Events,     \* rows, 1 .. n, in the order of their keys
    Procs,      \* processes that finish rows and seal
    NoOne,      \* nobody holds the lock on the chain
    Batch,      \* SEAL_BATCH
    MaxEnded,   \* bound: rows one interrupt ends, no more than a batch
    MaxFails    \* bound: seals that fail or whose process dies

ChainAssumption ==
    /\ Events \in SUBSET (Nat \ {0}) /\ IsFiniteSet(Events)
    /\ NoOne \notin Procs
    /\ Batch \in Nat \ {0}
    /\ MaxEnded \in 1 .. Batch
    /\ MaxFails \in Nat

VARIABLES
    status,   \* status[e]: of row e, "none" before it is created
    data,     \* data[e]: what progress and the outcome wrote into the row
    index,    \* index[e]: chain_index, 0 while it is null
    hash,     \* hash[e]: chain_hash
    step,     \* step[p]: where process p is in seal_pending
    batch,    \* batch[p]: the rows p has read, and is about to seal
    lock,     \* who has updated the chain's lease row and not committed yet
    fails     \* seals that failed

vars == <<status, data, index, hash, step, batch, lock, fails>>
chain == <<index, hash>>

UNFINISHED == {"queued", "running"}
FINISHED == {"succeeded", "failed"}
Data == {"none", "progress", "outcome"}

TypeOK ==
    /\ status \in [Events -> {"none"} \cup UNFINISHED \cup FINISHED]
    /\ data \in [Events -> Data]
    /\ index \in [Events -> Nat]
    /\ \A e \in Events : hash[e] \in Seq(Events \X FINISHED \X Data)
    /\ step \in [Procs -> {"idle", "due", "held", "read"}]
    /\ batch \in [Procs -> SUBSET Events]
    /\ lock \in Procs \cup {NoOne}
    /\ fails \in 0 .. MaxFails

Init ==
    /\ status = [e \in Events |-> "none"]
    /\ data = [e \in Events |-> "none"]
    /\ index = [e \in Events |-> 0]
    /\ hash = [e \in Events |-> <<>>]
    /\ step = [p \in Procs |-> "idle"]
    /\ batch = [p \in Procs |-> {}]
    /\ lock = NoOne
    /\ fails = 0

-----------------------------------------------------------------------------
(* Writing rows. *)

\* transaction.on_commit(_seal_quietly): the process goes on to seal.
SealAfterCommit(p) ==
    /\ step[p] = "idle"
    /\ step' = [step EXCEPT ![p] = "due"]

NextKey(e) == status[e] = "none" /\ \A f \in Events : f < e => status[f] # "none"

\* record, of something that is over; the manager's export changes data before it commits.
Record(p, e) ==
    /\ NextKey(e)
    /\ \E s \in FINISHED : status' = [status EXCEPT ![e] = s]
    /\ \E d \in {"none", "outcome"} : data' = [data EXCEPT ![e] = d]
    /\ SealAfterCommit(p)
    /\ UNCHANGED <<chain, batch, lock, fails>>

\* queue, or record of something that is running.
Open(e) ==
    /\ NextKey(e)
    /\ \E s \in UNFINISHED : status' = [status EXCEPT ![e] = s]
    /\ UNCHANGED <<data, chain, step, batch, lock, fails>>

Start(e) ==
    /\ status[e] = "queued"
    /\ status' = [status EXCEPT ![e] = "running"]
    /\ UNCHANGED <<data, chain, step, batch, lock, fails>>

\* Mutant: the filter on the status is missing.
ProgressAnyway(e) ==
    /\ status[e] # "none"
    /\ data' = [data EXCEPT ![e] = "progress"]
    /\ UNCHANGED <<status, chain, step, batch, lock, fails>>

\* ActivityService.progress writes into a running row only.
Progress(e) ==
    /\ status[e] = "running"
    /\ data' = [data EXCEPT ![e] = "progress"]
    /\ UNCHANGED <<status, chain, step, batch, lock, fails>>

\* finish and fail.
Close(p, e) ==
    /\ status[e] \in UNFINISHED
    /\ \E s \in FINISHED : status' = [status EXCEPT ![e] = s]
    /\ \E d \in {data[e], "outcome"} : data' = [data EXCEPT ![e] = d]
    /\ SealAfterCommit(p)
    /\ UNCHANGED <<chain, batch, lock, fails>>

\* Mutant: what recovery interrupts is not sealed.
InterruptUnsealed(p) ==
    /\ \E some \in SUBSET {e \in Events : status[e] \in UNFINISHED} :
         /\ Cardinality(some) \in 1 .. MaxEnded
         /\ status' = [e \in Events |-> IF e \in some THEN "failed" ELSE status[e]]
    /\ step[p] = "idle"
    /\ UNCHANGED <<data, chain, step, batch, lock, fails>>

\* interrupt ends several rows in one update and seals once; of more rows than
\* a batch the rest would wait for the next row that ends.
Interrupt(p) ==
    /\ \E some \in SUBSET {e \in Events : status[e] \in UNFINISHED} :
         /\ Cardinality(some) \in 1 .. MaxEnded
         /\ status' = [e \in Events |-> IF e \in some THEN "failed" ELSE status[e]]
    /\ SealAfterCommit(p)
    /\ UNCHANGED <<data, chain, batch, lock, fails>>

-----------------------------------------------------------------------------
(* seal_pending. *)

\* Mutant: the chain is not locked.
HoldNothing(p) ==
    /\ step[p] = "due"
    /\ step' = [step EXCEPT ![p] = "held"]
    /\ UNCHANGED <<status, data, chain, batch, lock, fails>>

\* _hold_chain: the update of the lease row waits for a transaction that has made it.
Hold(p) ==
    /\ step[p] = "due"
    /\ lock = NoOne
    /\ lock' = p
    /\ step' = [step EXCEPT ![p] = "held"]
    /\ UNCHANGED <<status, data, chain, batch, fails>>

Unsealed == {e \in Events : index[e] = 0 /\ status[e] \in FINISHED}

\* The first Batch of a set of rows in the order of their keys.
First(rows) == {e \in rows : Cardinality({f \in rows : f < e}) < Batch}

\* The pending rows, read as they are now.
Read(p) ==
    /\ step[p] = "held"
    /\ batch' = [batch EXCEPT ![p] = First(Unsealed)]
    /\ step' = [step EXCEPT ![p] = "read"]
    /\ UNCHANGED <<status, data, chain, lock, fails>>

Sealed == {e \in Events : index[e] # 0}
Length == Cardinality(Sealed)
Content(e) == <<e, status[e], data[e]>>

\* The last link's hash; without one the chain starts from nothing.
LastHash ==
    IF Sealed = {} THEN <<>>
    ELSE hash[CHOOSE e \in Sealed : \A f \in Sealed : index[f] <= index[e]]

\* The largest index so far.
LastIndex ==
    IF Sealed = {} THEN 0
    ELSE index[CHOOSE e \in Sealed : \A f \in Sealed : index[f] <= index[e]]

\* Place(rows, e): how far down the batch row e is.
Place(rows, e) == Cardinality({f \in rows : f <= e})
InOrder(rows) == [n \in 1 .. Cardinality(rows) |-> CHOOSE e \in rows : Place(rows, e) = n]

\* The last link is read, every row of the batch linked to the one before it,
\* and the transaction committed; the lock goes with it.
Commit(p) ==
    /\ step[p] = "read"
    /\ LET rows == batch[p]
           links == [n \in 1 .. Cardinality(rows) |-> Content(InOrder(rows)[n])]
       IN  /\ index' = [e \in Events |->
                          IF e \in rows /\ index[e] = 0
                          THEN LastIndex + Place(rows, e) ELSE index[e]]
           /\ hash' = [e \in Events |->
                         IF e \in rows /\ index[e] = 0
                         THEN LastHash \o SubSeq(links, 1, Place(rows, e)) ELSE hash[e]]
    /\ batch' = [batch EXCEPT ![p] = {}]
    /\ step' = [step EXCEPT ![p] = "idle"]
    /\ lock' = IF lock = p THEN NoOne ELSE lock
    /\ UNCHANGED <<status, data, fails>>

\* A database error is logged and passed over, and a process may die: the
\* transaction is rolled back and nobody tries again.
SealFails(p) ==
    /\ step[p] # "idle"
    /\ fails < MaxFails /\ fails' = fails + 1
    /\ batch' = [batch EXCEPT ![p] = {}]
    /\ step' = [step EXCEPT ![p] = "idle"]
    /\ lock' = IF lock = p THEN NoOne ELSE lock
    /\ UNCHANGED <<status, data, chain>>

Rows == \E e \in Events : Open(e) \/ Start(e) \/ Progress(e)
Ends(p) == Interrupt(p) \/ \E e \in Events : Record(p, e) \/ Close(p, e)
Seal(p) == Hold(p) \/ Read(p) \/ Commit(p) \/ SealFails(p)

Next == Rows \/ \E p \in Procs : Ends(p) \/ Seal(p)

Spec == Init /\ [][Next]_vars

-----------------------------------------------------------------------------
(* verify_chain *)

\* The row that is link n of the chain.
Links(n) == {e \in Sealed : index[e] = n}

\* No link is missing or appears twice, and every row still hashes to what it
\* hashed to when it was sealed.
Intact ==
    \A n \in 1 .. Length :
        \E e \in Links(n) :
            /\ Cardinality(Links(n)) = 1
            /\ hash[e] = Append(IF n = 1 THEN <<>> ELSE hash[CHOOSE f \in Links(n - 1) : TRUE],
                                Content(e))

-----------------------------------------------------------------------------
(* Properties *)

(* "manage.py dbs audit verify" finds the chain intact at every moment,      *)
(* however many processes finish, interrupt, update and seal rows at once    *)
(* and whichever of them fail.                                               *)
ChainIntact == Intact

(* "Once a row finishes, it is sealed" (docs/panel.md), and what is sealed   *)
(* stays: no later write changes a sealed row or its link.                   *)
KeepsSealedRows ==
    \A e \in Sealed : index'[e] = index[e] /\ hash'[e] = hash[e] /\ Content(e)' = Content(e)
SealedRowsAreFinal == [][KeepsSealedRows]_vars

(* Processes that seal at the same time take each other's rows, in batches:  *)
(* when the last of them is through and none has failed, no finished row was *)
(* passed over.                                                              *)
NothingForgotten ==
    (fails = 0 /\ \A p \in Procs : step[p] = "idle") => Unsealed = {}

-----------------------------------------------------------------------------
(* The inductive invariant behind the properties above, in named parts.      *)

\* A process that has begun its transaction has the lock on the chain ...
HoldersHaveTheLock == \A p \in Procs : step[p] \in {"held", "read"} => lock = p

\* ... so nobody else seals the rows that it has read.
BatchesArePending ==
    \A p \in Procs : IF step[p] = "read" THEN batch[p] \subseteq Unsealed ELSE batch[p] = {}

SealedHaveEnded == \A e \in Sealed : status[e] \in FINISHED

\* The links are numbered from 1, without a gap and without a repetition.
Numbered ==
    /\ \A e \in Sealed : index[e] \in 1 .. Length
    /\ \A n \in 1 .. Length : \E e \in Sealed : index[e] = n
    /\ \A e, f \in Sealed : index[e] = index[f] => e = f

\* Every link is its row's content on top of the link before.
Linked ==
    \A e \in Sealed :
        /\ index[e] = 1 => hash[e] = Append(<<>>, Content(e))
        /\ \A f \in Sealed : index[e] = index[f] + 1 => hash[e] = Append(hash[f], Content(e))

ChainInv ==
    /\ TypeOK
    /\ HoldersHaveTheLock /\ BatchesArePending
    /\ SealedHaveEnded /\ Numbered /\ Linked

\* As long as nothing fails, those who have yet to read have room in their
\* batches for all the rows that no batch has.
Sealers == {p \in Procs : step[p] \in {"due", "held"}}
Waiting == {e \in Unsealed : \A p \in Procs : e \notin batch[p]}
SealersSuffice ==
    /\ IsFiniteSet(Sealers)
    /\ fails = 0 => Cardinality(Waiting) <= Batch * Cardinality(Sealers)
=============================================================================
