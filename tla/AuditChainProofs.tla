--------------------------- MODULE AuditChainProofs ---------------------------
(***************************************************************************)
(* Theorems about AuditChain, for any rows and processes and any size of a *)
(* batch: the chain is intact, what is sealed stays, and nothing finished  *)
(* is passed over while no seal fails.                                     *)
(***************************************************************************)
EXTENDS AuditChain, FiniteSetTheorems, SequenceTheorems, TLAPS

(* Places in a batch count its rows in the order of their keys, from 1 on    *)
(* and without a gap.                                                        *)
LEMMA Places ==
    ASSUME NEW rows \in SUBSET Nat, IsFiniteSet(rows)
    PROVE  /\ Cardinality(rows) \in Nat
           /\ \A e \in rows : Place(rows, e) \in 1 .. Cardinality(rows)
           /\ \A e, f \in rows : e < f => Place(rows, e) < Place(rows, f)
           /\ \A e, f \in rows : Place(rows, e) = Place(rows, f) => e = f
           /\ \A n \in 1 .. Cardinality(rows) : \E e \in rows : Place(rows, e) = n
<1> DEFINE Upto(e) == {f \in rows : f <= e}
           place == [e \in rows |-> Place(rows, e)]
<1>1. Cardinality(rows) \in Nat
  BY FS_CardinalityType
<1>2. ASSUME NEW e \in rows
      PROVE  /\ IsFiniteSet(Upto(e)) /\ Cardinality(Upto(e)) \in Nat
             /\ Cardinality(Upto(e)) <= Cardinality(rows)
             /\ Cardinality(Upto(e)) # 0
  <2>1. Upto(e) \subseteq rows /\ e \in Upto(e)
    OBVIOUS
  <2>2. IsFiniteSet(Upto(e)) /\ Cardinality(Upto(e)) <= Cardinality(rows)
    BY <2>1, FS_Subset
  <2>3. Cardinality(Upto(e)) # 0
    BY <2>1, <2>2, FS_EmptySet
  <2> QED
    BY <2>2, <2>3, FS_CardinalityType
<1>3. ASSUME NEW e \in rows PROVE Place(rows, e) \in 1 .. Cardinality(rows)
  BY <1>1, <1>2 DEF Place
<1>4. ASSUME NEW e \in rows, NEW f \in rows, e < f PROVE Place(rows, e) < Place(rows, f)
  <2>1. Upto(e) \subseteq Upto(f) /\ f \in Upto(f) /\ f \notin Upto(e)
    <3>1. e \in Nat /\ f \in Nat
      OBVIOUS
    <3>2. ASSUME NEW g \in rows, g <= e PROVE g <= f
      <4>1. g \in Nat
        OBVIOUS
      <4> QED
        BY <1>4, <3>1, <3>2, <4>1
    <3>3. f <= f /\ ~ f <= e
      BY <1>4, <3>1
    <3> QED
      BY <3>2, <3>3
  <2>2. /\ Cardinality(Upto(e)) <= Cardinality(Upto(f))
        /\ Cardinality(Upto(e)) # Cardinality(Upto(f))
    BY <1>2, <2>1, FS_Subset
  <2> QED
    BY <1>2, <2>2 DEF Place
<1>5. ASSUME NEW e \in rows, NEW f \in rows, Place(rows, e) = Place(rows, f) PROVE e = f
  <2>1. e < f \/ f < e \/ e = f
    OBVIOUS
  <2> QED
    BY <1>3, <1>4, <1>5, <2>1
<1>6. place \in Injection(rows, 1 .. Cardinality(rows))
  <2>1. place \in [rows -> 1 .. Cardinality(rows)]
    BY <1>3
  <2>2. \A e, f \in rows : place[e] = place[f] => e = f
    BY <1>5
  <2> HIDE DEF place
  <2> QED
    BY <2>1, <2>2 DEF Injection, IsInjective
<1>7. IsFiniteSet(1 .. Cardinality(rows)) /\ Cardinality(1 .. Cardinality(rows)) = Cardinality(rows)
  BY <1>1, FS_Interval
<1>8. place \in Surjection(rows, 1 .. Cardinality(rows))
  BY <1>6, <1>7, FS_Injection
<1>9. ASSUME NEW n \in 1 .. Cardinality(rows) PROVE \E e \in rows : Place(rows, e) = n
  BY <1>8 DEF Surjection
<1> QED
  BY <1>1, <1>3, <1>4, <1>5, <1>9

(* A batch is all that is pending, or it is full.                            *)
LEMMA BatchIsAllOrFull ==
    ASSUME ChainAssumption, NEW rows \in SUBSET Nat, IsFiniteSet(rows)
    PROVE  /\ First(rows) \subseteq rows
           /\ \/ First(rows) = rows
              \/ Cardinality(rows \ First(rows)) + Batch = Cardinality(rows)
<1> USE DEF ChainAssumption
<1>1. ASSUME NEW e \in rows
      PROVE  Cardinality({f \in rows : f < e}) = Place(rows, e) - 1
  <2>0. \A f \in rows : f <= e <=> f < e \/ f = e
    OBVIOUS
  <2>1. {f \in rows : f <= e} = {f \in rows : f < e} \cup {e}
    BY <2>0
  <2>2. e \notin {f \in rows : f < e} /\ IsFiniteSet({f \in rows : f < e})
    BY <1>1, FS_Subset
  <2>3. /\ Cardinality({f \in rows : f < e} \cup {e}) = Cardinality({f \in rows : f < e}) + 1
        /\ Cardinality({f \in rows : f < e}) \in Nat
    BY <2>2, FS_AddElement, FS_CardinalityType
  <2>4. Place(rows, e) = Cardinality({f \in rows : f < e}) + 1
    BY <2>1, <2>3 DEF Place
  <2> QED
    BY <2>3, <2>4
<1>2. First(rows) = {e \in rows : Place(rows, e) <= Batch}
  <2>1. ASSUME NEW e \in rows
        PROVE  Cardinality({f \in rows : f < e}) < Batch <=> Place(rows, e) <= Batch
    BY <1>1, Places
  <2> QED
    BY <2>1 DEF First
<1>3. CASE Cardinality(rows) <= Batch
  <2>1. ASSUME NEW e \in rows PROVE Place(rows, e) <= Batch
    <3>1. Place(rows, e) \in 1 .. Cardinality(rows) /\ Cardinality(rows) \in Nat
      BY Places
    <3> QED
      BY <1>3, <3>1
  <2> QED
    BY <1>2, <2>1
<1>4. CASE ~ Cardinality(rows) <= Batch
  <2> DEFINE place == [e \in First(rows) |-> Place(rows, e)]
  <2>1. place \in Injection(First(rows), 1 .. Batch)
    <3>1. ASSUME NEW e \in First(rows) PROVE Place(rows, e) \in 1 .. Batch
      <4>1. e \in rows /\ Place(rows, e) <= Batch
        BY <1>2
      <4>2. Place(rows, e) \in 1 .. Cardinality(rows) /\ Cardinality(rows) \in Nat
        BY <4>1, Places
      <4> QED
        BY <4>1, <4>2
    <3>2. \A e, f \in First(rows) : place[e] = place[f] => e = f
      BY <1>2, Places
    <3>3. place \in [First(rows) -> 1 .. Batch]
      BY <3>1
    <3> HIDE DEF place
    <3> QED
      BY <3>2, <3>3 DEF Injection, IsInjective
  <2>2. place \in Surjection(First(rows), 1 .. Batch)
    BY <1>2, <1>4, <2>1, Places DEF Injection, Surjection
  <2>3. IsFiniteSet(1 .. Batch) /\ Cardinality(1 .. Batch) = Batch
    BY FS_Interval
  <2>4. Cardinality(First(rows)) = Batch
    BY <2>1, <2>2, <2>3, FS_Injection
  <2>5. rows \cap First(rows) = First(rows)
    BY <1>2
  <2>6. Cardinality(rows \ First(rows)) = Cardinality(rows) - Batch
    BY <2>4, <2>5, FS_Difference
  <2> QED
    BY <1>2, <2>6, Places
<1> QED
  BY <1>2, <1>3, <1>4, Places

(* A prefix of a batch's links, on top of a chain, is its last link on top   *)
(* of the prefix before.                                                     *)
LEMMA PrefixGrows ==
    ASSUME NEW S, NEW base \in Seq(S), NEW links \in Seq(S), NEW n \in 1 .. Len(links)
    PROVE  /\ base \o SubSeq(links, 1, n) \in Seq(S)
           /\ n = 1 => base \o SubSeq(links, 1, n) = Append(base, links[n])
           /\ n > 1 => base \o SubSeq(links, 1, n) = Append(base \o SubSeq(links, 1, n - 1), links[n])
<1>1. /\ SubSeq(links, 1, n) = SubSeq(links, 1, n - 1) \o <<links[n]>>
      /\ links[n] \in S
  BY SubSeqRecursiveSecond, ElementOfSeq
<1>2. SubSeq(links, 1, n - 1) \in Seq(S) /\ <<links[n]>> \in Seq(S)
  <2>1. \A i \in 1 .. n - 1 : links[i] \in S
    BY ElementOfSeq
  <2> QED
    BY <1>1, <2>1, SubSeqProperties
<1>3. base \o SubSeq(links, 1, n) = (base \o SubSeq(links, 1, n - 1)) \o <<links[n]>>
  BY <1>1, <1>2, ConcatAssociative
<1>4. base \o SubSeq(links, 1, n - 1) \in Seq(S)
  BY <1>2, ConcatProperties
<1>5. base \o SubSeq(links, 1, n) = Append(base \o SubSeq(links, 1, n - 1), links[n])
  BY <1>1, <1>3, <1>4, AppendIsConcat
<1>6. n = 1 => base \o SubSeq(links, 1, n - 1) = base
  BY SubSeqEmpty, ConcatEmptySeq
<1>7. base \o SubSeq(links, 1, n) \in Seq(S)
  BY <1>1, <1>4, <1>5, AppendProperties
<1> QED
  BY <1>5, <1>6, <1>7

-----------------------------------------------------------------------------
Link == Events \X FINISHED \X Data

(* What a seal reads of the last link.                                       *)
LEMMA LastLink ==
    ASSUME ChainAssumption, ChainInv
    PROVE  /\ IsFiniteSet(Sealed) /\ Length \in Nat
           /\ LastIndex = Length
           /\ LastHash \in Seq(Link)
           /\ Length = 0 => Sealed = {} /\ LastHash = <<>>
           /\ Length # 0 => \E e \in Sealed : index[e] = Length /\ LastHash = hash[e]
<1> DEFINE IsLast(e) == \A f \in Sealed : index[f] <= index[e]
<1>1. Sealed \subseteq Events
  BY DEF Sealed
<1>2. IsFiniteSet(Sealed) /\ Length \in Nat
  BY <1>1, FS_Subset, FS_CardinalityType DEF Length, ChainAssumption
<1>3. CASE Sealed = {}
  <2>1. Length = 0
    BY <1>3, FS_EmptySet DEF Length
  <2> QED
    BY <1>2, <1>3, <2>1, EmptySeq DEF LastIndex, LastHash
<1>4. CASE Sealed # {}
  <2>1. Length # 0
    BY <1>2, <1>4, FS_EmptySet DEF Length
  <2>2. PICK e \in Sealed : index[e] = Length
    BY <1>2, <2>1 DEF ChainInv, Numbered
  <2>3. IsLast(e)
    BY <2>2 DEF ChainInv, Numbered
  <2> DEFINE last == CHOOSE f \in Sealed : IsLast(f)
  <2>4. last \in Sealed /\ IsLast(last)
    BY <2>3
  <2>5. index[last] = Length
    BY <1>2, <2>2, <2>4 DEF ChainInv, Numbered
  <2>6. LastIndex = index[last] /\ LastHash = hash[last]
    BY <1>4 DEF LastIndex, LastHash
  <2>7. hash[last] \in Seq(Link)
    BY <1>1, <2>4 DEF ChainInv, TypeOK, Link
  <2> QED
    BY <1>2, <2>1, <2>4, <2>5, <2>6, <2>7
<1> QED
  BY <1>3, <1>4

(* A seal that commits adds its whole batch to the chain, in the order of    *)
(* the keys, and touches nothing that was sealed before.                     *)
LEMMA CommitSeals ==
    ASSUME ChainAssumption, ChainInv, NEW p \in Procs, Commit(p)
    PROVE  LET rows == batch[p] IN
           /\ rows \in SUBSET Nat /\ IsFiniteSet(rows)
           /\ rows \subseteq Events /\ rows \cap Sealed = {}
           /\ Sealed' = Sealed \cup rows
           /\ Length' = Length + Cardinality(rows)
           /\ \A e \in rows : index'[e] = Length + Place(rows, e)
           /\ \A e \in Events \ rows : index'[e] = index[e] /\ hash'[e] = hash[e]
           /\ \A e \in rows :
                /\ hash'[e] \in Seq(Link)
                /\ Place(rows, e) = 1 => hash'[e] = Append(LastHash, Content(e))
                /\ \A f \in rows :
                     Place(rows, e) = Place(rows, f) + 1 => hash'[e] = Append(hash'[f], Content(e))
<1> DEFINE rows == batch[p]
           links == [n \in 1 .. Cardinality(rows) |-> Content(InOrder(rows)[n])]
<1>1. /\ rows \subseteq Unsealed
      /\ rows \subseteq Events /\ rows \cap Sealed = {}
      /\ \A e \in rows : index[e] = 0
  BY DEF ChainInv, BatchesArePending, Commit, Unsealed, Sealed
<1>2. rows \in SUBSET Nat /\ IsFiniteSet(rows)
  BY <1>1, FS_Subset DEF ChainAssumption
<1>3. /\ Cardinality(rows) \in Nat
      /\ \A e \in rows : Place(rows, e) \in 1 .. Cardinality(rows)
      /\ \A e, f \in rows : Place(rows, e) = Place(rows, f) => e = f
      /\ \A n \in 1 .. Cardinality(rows) : \E e \in rows : Place(rows, e) = n
  BY <1>2, Places
<1>4. /\ IsFiniteSet(Sealed) /\ Length \in Nat
      /\ LastIndex = Length /\ LastHash \in Seq(Link)
  BY LastLink
<1>5. /\ index' = [e \in Events |-> IF e \in rows /\ index[e] = 0
                                    THEN LastIndex + Place(rows, e) ELSE index[e]]
      /\ hash' = [e \in Events |-> IF e \in rows /\ index[e] = 0
                                   THEN LastHash \o SubSeq(links, 1, Place(rows, e)) ELSE hash[e]]
  BY DEF Commit
<1> HIDE DEF rows, links
<1>6. \A e \in rows : index'[e] = Length + Place(rows, e)
  BY <1>1, <1>4, <1>5
<1>7. \A e \in Events \ rows : index'[e] = index[e] /\ hash'[e] = hash[e]
  BY <1>5
<1>8. Sealed' = Sealed \cup rows
  <2>1. ASSUME NEW e \in rows PROVE index'[e] # 0
    BY <1>3, <1>4, <1>6
  <2>2. ASSUME NEW e \in Events \ rows PROVE index'[e] # 0 <=> index[e] # 0
    BY <1>7
  <2> QED
    BY <1>1, <2>1, <2>2 DEF Sealed
<1>9. Length' = Length + Cardinality(rows)
  <2>1. Sealed \cap rows = {}
    BY <1>1
  <2>2. Cardinality(Sealed \cup rows) = Cardinality(Sealed) + Cardinality(rows) - Cardinality({})
    BY <1>2, <1>4, <2>1, FS_Union
  <2> QED
    BY <1>3, <1>4, <1>8, <2>2, FS_EmptySet DEF Length
<1>10. ASSUME NEW e \in rows PROVE InOrder(rows)[Place(rows, e)] = e
  <2>1. InOrder(rows)[Place(rows, e)] = CHOOSE f \in rows : Place(rows, f) = Place(rows, e)
    BY <1>3 DEF InOrder
  <2> QED
    BY <1>3, <2>1
<1>11. links \in Seq(Link) /\ Len(links) = Cardinality(rows)
  <2>1. ASSUME NEW e \in rows PROVE Content(e) \in Link
    BY <1>1 DEF Content, Link, ChainInv, TypeOK, Unsealed
  <2>2. ASSUME NEW n \in 1 .. Cardinality(rows) PROVE Content(InOrder(rows)[n]) \in Link
    <3>1. PICK e \in rows : Place(rows, e) = n
      BY <1>3
    <3> QED
      BY <1>10, <2>1, <3>1
  <2>3. links \in [1 .. Cardinality(rows) -> Link]
    BY <2>2 DEF links
  <2> QED
    BY <1>3, <2>3
<1>12. ASSUME NEW e \in rows PROVE links[Place(rows, e)] = Content(e)
  BY <1>3, <1>10 DEF links
<1> DEFINE prefix(n) == LastHash \o SubSeq(links, 1, n)
<1>13. ASSUME NEW n \in 1 .. Len(links)
       PROVE  /\ prefix(n) \in Seq(Link)
              /\ n = 1 => prefix(n) = Append(LastHash, links[n])
              /\ n > 1 => prefix(n) = Append(prefix(n - 1), links[n])
  BY <1>4, <1>11, PrefixGrows
<1>14. ASSUME NEW e \in rows
       PROVE  /\ hash'[e] \in Seq(Link)
              /\ Place(rows, e) = 1 => hash'[e] = Append(LastHash, Content(e))
              /\ \A f \in rows :
                   Place(rows, e) = Place(rows, f) + 1 => hash'[e] = Append(hash'[f], Content(e))
  <2>1. \A f \in rows : hash'[f] = prefix(Place(rows, f))
    BY <1>1, <1>5
  <2>2. Place(rows, e) \in 1 .. Len(links) /\ links[Place(rows, e)] = Content(e)
    BY <1>3, <1>11, <1>12
  <2> HIDE DEF prefix
  <2>3. /\ prefix(Place(rows, e)) \in Seq(Link)
        /\ Place(rows, e) = 1 => prefix(Place(rows, e)) = Append(LastHash, Content(e))
        /\ Place(rows, e) > 1 =>
             prefix(Place(rows, e)) = Append(prefix(Place(rows, e) - 1), Content(e))
    BY <1>13, <2>2
  <2>4. ASSUME NEW f \in rows, Place(rows, e) = Place(rows, f) + 1
        PROVE  hash'[e] = Append(hash'[f], Content(e))
    <3>1. Place(rows, f) \in Nat \ {0} /\ Place(rows, e) - 1 = Place(rows, f) /\ Place(rows, e) > 1
      BY <1>3, <2>4
    <3> QED
      BY <2>1, <2>3, <3>1
  <2> QED
    BY <2>1, <2>3, <2>4
<1> QED
  BY <1>1, <1>2, <1>6, <1>7, <1>8, <1>9, <1>14 DEF rows

-----------------------------------------------------------------------------
(* Whatever is written or sealed, a finished row stays as it is, and only a  *)
(* commit touches the chain.                                                 *)
LEMMA FinishedStay ==
    ASSUME ChainAssumption, ChainInv, [Next]_vars
    PROVE  /\ \A e \in Events :
                status[e] \in FINISHED => status'[e] = status[e] /\ data'[e] = data[e]
           /\ UNCHANGED chain \/ \E p \in Procs : Commit(p)
<1> DEFINE Kept == /\ \A e \in Events :
                        status[e] \in FINISHED => status'[e] = status[e] /\ data'[e] = data[e]
                   /\ UNCHANGED chain \/ \E p \in Procs : Commit(p)
<1>a. /\ status \in [Events -> {"none"} \cup UNFINISHED \cup FINISHED]
      /\ data \in [Events -> Data]
  BY DEF ChainInv, TypeOK
<1> USE <1>a DEF UNFINISHED, FINISHED, chain
<1>1. ASSUME NEW p \in Procs, NEW e \in Events, Record(p, e) PROVE Kept
  BY <1>1 DEF Record, NextKey
<1>2. ASSUME NEW e \in Events, Open(e) PROVE Kept
  BY <1>2 DEF Open, NextKey
<1>3. ASSUME NEW e \in Events, Start(e) PROVE Kept
  BY <1>3 DEF Start
<1>4. ASSUME NEW e \in Events, Progress(e) PROVE Kept
  BY <1>4 DEF Progress
<1>5. ASSUME NEW p \in Procs, NEW e \in Events, Close(p, e) PROVE Kept
  BY <1>5 DEF Close
<1>6. ASSUME NEW p \in Procs, Interrupt(p) PROVE Kept
  BY <1>6 DEF Interrupt
<1>7. ASSUME NEW p \in Procs, Hold(p) \/ Read(p) \/ SealFails(p) PROVE Kept
  BY <1>7 DEF Hold, Read, SealFails
<1>8. ASSUME NEW p \in Procs, Commit(p) PROVE Kept
  BY <1>8 DEF Commit
<1>9. CASE UNCHANGED vars
  BY <1>9 DEF vars
<1> QED
  BY <1>1, <1>2, <1>3, <1>4, <1>5, <1>6, <1>7, <1>8, <1>9 DEF Next, Rows, Ends, Seal

(* Every step keeps the types, links included.                               *)
LEMMA TypeStep ==
    ASSUME ChainAssumption, ChainInv, [Next]_vars
    PROVE  TypeOK'
<1> DEFINE Typed == \A e \in Events : hash'[e] \in Seq(Link)
           Small == /\ status' \in [Events -> {"none"} \cup UNFINISHED \cup FINISHED]
                    /\ data' \in [Events -> Data]
                    /\ index' \in [Events -> Nat]
                    /\ step' \in [Procs -> {"idle", "due", "held", "read"}]
                    /\ batch' \in [Procs -> SUBSET Events]
                    /\ lock' \in Procs \cup {NoOne}
                    /\ fails' \in 0 .. MaxFails
<1>a. /\ TypeOK
      /\ MaxFails \in Nat
  BY DEF ChainInv, ChainAssumption
<1> USE <1>a DEF TypeOK, UNFINISHED, FINISHED, Data, chain, SealAfterCommit
<1>1. ASSUME NEW p \in Procs, NEW e \in Events, Record(p, e) PROVE Small
  BY <1>1 DEF Record
<1>2. ASSUME NEW e \in Events, Open(e) PROVE Small
  BY <1>2 DEF Open
<1>3. ASSUME NEW e \in Events, Start(e) PROVE Small
  BY <1>3 DEF Start
<1>4. ASSUME NEW e \in Events, Progress(e) PROVE Small
  BY <1>4 DEF Progress
<1>5. ASSUME NEW p \in Procs, NEW e \in Events, Close(p, e) PROVE Small
  <2>1. PICK s \in FINISHED, d \in {data[e], "outcome"} :
          status' = [status EXCEPT ![e] = s] /\ data' = [data EXCEPT ![e] = d]
    BY <1>5 DEF Close
  <2>2. status' \in [Events -> {"none"} \cup UNFINISHED \cup FINISHED]
    BY <2>1
  <2>3. data' \in [Events -> Data]
    BY <2>1
  <2> QED
    BY <1>5, <2>2, <2>3 DEF Close
<1>6. ASSUME NEW p \in Procs, Interrupt(p) PROVE Small
  BY <1>6 DEF Interrupt
<1>7. ASSUME NEW p \in Procs, Hold(p) PROVE Small
  BY <1>7 DEF Hold
<1>8. ASSUME NEW p \in Procs, Read(p) PROVE Small
  BY <1>8 DEF Read, First, Unsealed
<1>9. ASSUME NEW p \in Procs, Commit(p) PROVE Small
  <2>1. index' \in [Events -> Nat]
    <3>1. \A e \in Events : index'[e] \in Nat
      BY <1>9, CommitSeals, LastLink, Places DEF Sealed
    <3>2. index' = [e \in Events |-> index'[e]]
      BY <1>9 DEF Commit
    <3> QED
      BY <3>1, <3>2
  <2> QED
    BY <1>9, <2>1 DEF Commit
<1>10. ASSUME NEW p \in Procs, SealFails(p) PROVE Small
  BY <1>10 DEF SealFails
<1>11. CASE UNCHANGED vars
  BY <1>11 DEF vars
<1>12. Small
  BY <1>1, <1>2, <1>3, <1>4, <1>5, <1>6, <1>7, <1>8, <1>9, <1>10, <1>11
     DEF Next, Rows, Ends, Seal
<1>13. Typed
  <2>1. CASE UNCHANGED chain
    BY <2>1 DEF Link
  <2>2. ASSUME NEW p \in Procs, Commit(p) PROVE Typed
    <3>1. \A e \in Events : e \in batch[p] => hash'[e] \in Seq(Link)
      BY <2>2, CommitSeals
    <3>2. \A e \in Events : e \notin batch[p] => hash'[e] = hash[e]
      BY <2>2, CommitSeals
    <3> QED
      BY <3>1, <3>2 DEF Link
  <2> QED
    BY <2>1, <2>2, FinishedStay
<1> QED
  BY <1>12, <1>13 DEF Link

(* The lock on the chain lets one process at a time seal, and nobody else    *)
(* seals what that one has read.                                             *)
LEMMA LockStep ==
    ASSUME ChainAssumption, ChainInv, [Next]_vars
    PROVE  HoldersHaveTheLock' /\ BatchesArePending'
<1>a. /\ step \in [Procs -> {"idle", "due", "held", "read"}]
      /\ batch \in [Procs -> SUBSET Events]
      /\ lock \in Procs \cup {NoOne}
      /\ NoOne \notin Procs
      /\ HoldersHaveTheLock /\ BatchesArePending
  BY DEF ChainInv, TypeOK, ChainAssumption
<1>1. HoldersHaveTheLock'
  BY <1>a
     DEF Next, Rows, Ends, Seal, vars, Record, Open, Start, Progress, Close, Interrupt, Hold,
         Read, Commit, SealFails, SealAfterCommit, HoldersHaveTheLock
<1>2. CASE UNCHANGED chain
  <2>1. Unsealed \subseteq Unsealed'
    BY <1>2, FinishedStay DEF Unsealed, chain
  <2>2. ASSUME NEW q \in Procs
        PROVE  \/ step'[q] = "read" /\ batch'[q] \subseteq Unsealed
               \/ step'[q] = "read" /\ step[q] = "read" /\ batch'[q] = batch[q]
               \/ step'[q] # "read" /\ batch'[q] = {}
    <3>1. ASSUME NEW p \in Procs, Read(p)
          PROVE  \/ q = p /\ step'[q] = "read" /\ batch'[q] \subseteq Unsealed
                 \/ step'[q] = step[q] /\ batch'[q] = batch[q]
      BY <1>a, <3>1 DEF Read, First
    <3>2. ASSUME NEW p \in Procs, Commit(p) \/ SealFails(p)
          PROVE  \/ step'[q] # "read" /\ batch'[q] = {}
                 \/ step'[q] = step[q] /\ batch'[q] = batch[q]
      BY <1>a, <3>2 DEF Commit, SealFails
    <3>3. ASSUME NEW p \in Procs, Ends(p) \/ Hold(p)
          PROVE  \/ q = p /\ step[q] # "read" /\ step'[q] # "read" /\ batch'[q] = batch[q]
                 \/ step'[q] = step[q] /\ batch'[q] = batch[q]
      BY <1>a, <3>3 DEF Ends, Record, Close, Interrupt, Hold, SealAfterCommit
    <3>4. ASSUME Rows \/ UNCHANGED vars
          PROVE  step'[q] = step[q] /\ batch'[q] = batch[q]
      BY <3>4 DEF Rows, vars, Open, Start, Progress
    <3> QED
      BY <1>a, <3>1, <3>2, <3>3, <3>4 DEF Next, Seal, BatchesArePending
  <2>3. BatchesArePending'
    BY <1>a, <2>1, <2>2 DEF BatchesArePending
  <2> QED
    BY <1>1, <2>3
<1>3. ASSUME NEW p \in Procs, Commit(p) PROVE BatchesArePending'
  <2>1. \A q \in Procs : step'[q] # "read" /\ batch'[q] = {}
    BY <1>a, <1>3 DEF Commit, HoldersHaveTheLock, BatchesArePending
  <2> QED
    BY <2>1 DEF BatchesArePending
<1> QED
  BY <1>1, <1>2, <1>3, FinishedStay

(* A seal appends to the chain, and no other step touches a sealed row.      *)
LEMMA LinksStep ==
    ASSUME ChainAssumption, ChainInv, [Next]_vars
    PROVE  SealedHaveEnded' /\ Numbered' /\ Linked'
<1>a. SealedHaveEnded /\ Numbered /\ Linked
  BY DEF ChainInv
<1>b. \A e \in Events : status[e] \in FINISHED => Content(e)' = Content(e) /\ status'[e] \in FINISHED
  BY FinishedStay DEF Content
<1>1. CASE UNCHANGED chain
  <2>1. Sealed' = Sealed /\ Length' = Length
    BY <1>1 DEF Sealed, Length, chain
  <2>2. \A e \in Sealed : Content(e)' = Content(e) /\ status'[e] \in FINISHED
    BY <1>a, <1>b DEF SealedHaveEnded, Sealed
  <2> QED
    BY <1>1, <1>a, <2>1, <2>2 DEF SealedHaveEnded, Numbered, Linked, chain
<1>2. ASSUME NEW p \in Procs, Commit(p) PROVE SealedHaveEnded' /\ Numbered' /\ Linked'
  <2> DEFINE rows == batch[p]
             count == Cardinality(rows)
  <2>1. /\ rows \in SUBSET Nat /\ IsFiniteSet(rows)
        /\ rows \subseteq Events /\ rows \cap Sealed = {}
        /\ Sealed' = Sealed \cup rows
        /\ Length' = Length + count
        /\ \A e \in rows : index'[e] = Length + Place(rows, e)
        /\ \A e \in Events \ rows : index'[e] = index[e] /\ hash'[e] = hash[e]
        /\ \A e \in rows :
             /\ Place(rows, e) = 1 => hash'[e] = Append(LastHash, Content(e))
             /\ \A f \in rows :
                  Place(rows, e) = Place(rows, f) + 1 => hash'[e] = Append(hash'[f], Content(e))
    BY <1>2, CommitSeals
  <2>2. /\ count \in Nat
        /\ \A e \in rows : Place(rows, e) \in 1 .. count
        /\ \A e, f \in rows : Place(rows, e) = Place(rows, f) => e = f
        /\ \A n \in 1 .. count : \E e \in rows : Place(rows, e) = n
    BY <2>1, Places
  <2>3. /\ Length \in Nat
        /\ Length = 0 => Sealed = {} /\ LastHash = <<>>
        /\ Length # 0 => \E e \in Sealed : index[e] = Length /\ LastHash = hash[e]
    BY LastLink
  <2>4. /\ \A e \in rows : status[e] \in FINISHED
        /\ Sealed \subseteq Events \ rows
    BY <1>2, <2>1 DEF ChainInv, BatchesArePending, Commit, Unsealed, Sealed
  <2>5. \A e \in Sealed' : Content(e)' = Content(e) /\ status'[e] \in FINISHED
    BY <1>a, <1>b, <2>1, <2>4 DEF SealedHaveEnded, Sealed
  <2>6. \A e \in Sealed : index'[e] = index[e] /\ hash'[e] = hash[e] /\ index[e] \in 1 .. Length
    BY <1>a, <2>1, <2>4 DEF Numbered
  <2> HIDE DEF rows, count
  <2>a. ASSUME NEW e \in rows
        PROVE  Place(rows, e) \in Nat \ {0} /\ index'[e] = Length + Place(rows, e)
    BY <2>1, <2>2
  <2>b. ASSUME NEW e \in Sealed
        PROVE  index'[e] \in Nat \ {0} /\ index'[e] <= Length /\ index'[e] = index[e]
    BY <2>3, <2>6
  <2>7. SealedHaveEnded'
    BY <2>5 DEF SealedHaveEnded
  <2>8. ASSUME NEW e \in Sealed' PROVE index'[e] \in 1 .. Length'
    <3>1. CASE e \in rows
      BY <2>1, <2>2, <2>3, <3>1
    <3>2. CASE e \in Sealed
      BY <2>1, <2>2, <2>3, <2>6, <3>2
    <3> QED
      BY <2>1, <2>8, <3>1, <3>2
  <2>9. ASSUME NEW n \in 1 .. Length' PROVE \E e \in Sealed' : index'[e] = n
    <3>1. CASE n <= Length
      <4>1. n \in 1 .. Length
        BY <2>1, <2>2, <2>3, <3>1
      <4>2. PICK e \in Sealed : index[e] = n
        BY <1>a, <4>1 DEF Numbered
      <4> QED
        BY <2>1, <2>6, <4>2
    <3>2. CASE ~ n <= Length
      <4>1. n - Length \in 1 .. count
        BY <2>1, <2>2, <2>3, <3>2
      <4>2. PICK e \in rows : Place(rows, e) = n - Length
        BY <2>2, <4>1
      <4>3. index'[e] = n
        BY <2>1, <2>3, <4>2
      <4> QED
        BY <2>1, <4>3
    <3> QED
      BY <3>1, <3>2
  <2>10. ASSUME NEW e \in Sealed', NEW f \in Sealed', index'[e] = index'[f] PROVE e = f
    <3>1. CASE e \in rows /\ f \in rows
      BY <2>1, <2>2, <2>3, <2>10, <3>1
    <3>2. CASE e \in Sealed /\ f \in Sealed
      BY <1>a, <2>6, <2>10, <3>2 DEF Numbered
    <3>3. CASE e \in rows /\ f \in Sealed
      BY <2>3, <2>10, <2>a, <2>b, <3>3
    <3>4. CASE e \in Sealed /\ f \in rows
      BY <2>3, <2>10, <2>a, <2>b, <3>4
    <3> QED
      BY <2>1, <2>10, <3>1, <3>2, <3>3, <3>4
  <2>11. ASSUME NEW e \in Sealed', index'[e] = 1 PROVE hash'[e] = Append(<<>>, Content(e)')
    <3>1. CASE e \in Sealed
      BY <1>a, <2>5, <2>6, <2>11, <3>1 DEF Linked
    <3>2. CASE e \in rows
      <4>1. Length = 0 /\ Place(rows, e) = 1
        BY <2>1, <2>2, <2>3, <2>11, <3>2
      <4> QED
        BY <2>1, <2>3, <2>5, <3>2, <4>1
    <3> QED
      BY <2>1, <2>11, <3>1, <3>2
  <2>12. ASSUME NEW e \in Sealed', NEW f \in Sealed', index'[e] = index'[f] + 1
         PROVE  hash'[e] = Append(hash'[f], Content(e)')
    <3>1. CASE e \in Sealed /\ f \in Sealed
      BY <1>a, <2>5, <2>6, <2>12, <3>1 DEF Linked
    <3>2. CASE e \in rows /\ f \in rows
      <4>1. Place(rows, e) = Place(rows, f) + 1
        BY <2>3, <2>12, <2>a, <3>2
      <4> QED
        BY <2>1, <2>5, <3>2, <4>1
    <3>3. CASE e \in Sealed /\ f \in rows
      <4>1. index'[e] <= Length /\ index'[e] \in Nat
        BY <2>b, <3>3
      <4>2. index'[f] > Length /\ index'[f] \in Nat
        BY <2>3, <2>a, <3>3
      <4> QED
        BY <2>3, <2>12, <4>1, <4>2
    <3>4. CASE e \in rows /\ f \in Sealed
      <4>1. index[f] = Length /\ Place(rows, e) = 1 /\ Length # 0
        BY <2>3, <2>12, <2>a, <2>b, <3>4
      <4>2. LastHash = hash[f]
        BY <1>a, <2>3, <3>4, <4>1 DEF Numbered
      <4> QED
        BY <2>1, <2>5, <2>6, <3>4, <4>1, <4>2
    <3> QED
      BY <2>1, <2>12, <3>1, <3>2, <3>3, <3>4
  <2>13. Numbered'
    BY <2>8, <2>9, <2>10 DEF Numbered
  <2>14. Linked'
    BY <2>11, <2>12 DEF Linked
  <2> QED
    BY <2>7, <2>13, <2>14
<1> QED
  BY <1>1, <1>2, FinishedStay

(* The invariant of the chain holds in every reachable state.                *)
LEMMA ChainInvariant ==
    ASSUME ChainAssumption PROVE Spec => []ChainInv
<1>1. Init => ChainInv
  <2> SUFFICES ASSUME Init PROVE ChainInv
    OBVIOUS
  <2>1. Sealed = {}
    BY DEF Init, Sealed
  <2>2. Length = 0
    BY <2>1, FS_EmptySet DEF Length
  <2>3. TypeOK
    BY EmptySeq DEF Init, TypeOK, UNFINISHED, FINISHED, Data, ChainAssumption
  <2>4. HoldersHaveTheLock /\ BatchesArePending
    BY DEF Init, HoldersHaveTheLock, BatchesArePending
  <2>5. SealedHaveEnded /\ Numbered /\ Linked
    BY <2>1, <2>2 DEF SealedHaveEnded, Numbered, Linked
  <2> QED
    BY <2>3, <2>4, <2>5 DEF ChainInv
<1>2. ChainInv /\ [Next]_vars => ChainInv'
  BY TypeStep, LockStep, LinksStep DEF ChainInv
<1> QED
  BY <1>1, <1>2, PTL DEF Spec

(* verify_chain finds the chain intact in every reachable state, however     *)
(* many processes write, interrupt and seal rows and whichever of them fail. *)
THEOREM ChainIntactAlways ==
    ASSUME ChainAssumption PROVE Spec => []ChainIntact
<1>1. ASSUME ChainInv PROVE ChainIntact
  <2> SUFFICES ASSUME NEW n \in 1 .. Length
               PROVE  \E e \in Links(n) :
                        /\ Cardinality(Links(n)) = 1
                        /\ hash[e] = Append(IF n = 1 THEN <<>>
                                            ELSE hash[CHOOSE f \in Links(n - 1) : TRUE], Content(e))
    BY DEF ChainIntact, Intact
  <2>1. Numbered /\ Linked /\ Length \in Nat
    BY <1>1, LastLink DEF ChainInv
  <2>2. ASSUME NEW m \in 1 .. Length PROVE \E e \in Sealed : index[e] = m /\ Links(m) = {e}
    <3>1. PICK e \in Sealed : index[e] = m
      BY <2>1 DEF Numbered
    <3>2. Links(m) = {e}
      BY <2>1, <3>1 DEF Numbered, Links
    <3> QED
      BY <3>1, <3>2
  <2>3. PICK e \in Sealed : index[e] = n /\ Links(n) = {e}
    BY <2>2
  <2>4. Cardinality(Links(n)) = 1
    BY <2>3, FS_Singleton
  <2>5. CASE n = 1
    BY <2>1, <2>3, <2>4, <2>5 DEF Linked
  <2>6. CASE n # 1
    <3>1. n - 1 \in 1 .. Length
      BY <2>1, <2>6
    <3>2. PICK f \in Sealed : index[f] = n - 1 /\ Links(n - 1) = {f}
      BY <2>2, <3>1
    <3>3. index[e] = index[f] + 1
      BY <2>1, <2>3, <3>2
    <3>4. hash[e] = Append(hash[f], Content(e))
      BY <2>1, <3>3 DEF Linked
    <3>5. (CHOOSE g \in Links(n - 1) : TRUE) = f
      BY <3>2
    <3> QED
      BY <2>3, <2>4, <2>6, <3>4, <3>5
  <2> QED
    BY <2>5, <2>6
<1> QED
  BY <1>1, ChainInvariant, PTL

(* No step changes a sealed row or its link.                                 *)
THEOREM SealedRowsAreFinalAlways ==
    ASSUME ChainAssumption PROVE Spec => SealedRowsAreFinal
<1>1. ASSUME ChainInv, [Next]_vars PROVE KeepsSealedRows
  <2>1. \A e \in Sealed : Content(e)' = Content(e)
    BY <1>1, FinishedStay DEF ChainInv, SealedHaveEnded, Sealed, Content
  <2>2. CASE UNCHANGED chain
    BY <2>1, <2>2 DEF chain, KeepsSealedRows
  <2>3. ASSUME NEW p \in Procs, Commit(p) PROVE KeepsSealedRows
    <3>1. Sealed \subseteq Events \ batch[p]
      BY <1>1, <2>3, CommitSeals DEF Sealed
    <3> QED
      BY <1>1, <2>1, <2>3, <3>1, CommitSeals DEF KeepsSealedRows
  <2> QED
    BY <1>1, <2>2, <2>3, FinishedStay
<1>2. ChainInv /\ [Next]_vars => [KeepsSealedRows]_vars
  BY <1>1
<1> QED
  BY <1>2, ChainInvariant, PTL DEF Spec, SealedRowsAreFinal

-----------------------------------------------------------------------------
(* Whoever finishes rows goes on to seal, and has room for as many as it     *)
(* finished: so the rows that wait never outnumber the room there is.        *)
LEMMA SealersStep ==
    ASSUME ChainAssumption, ChainInv, SealersSuffice, [Next]_vars
    PROVE  SealersSuffice'
<1>a. /\ TypeOK /\ HoldersHaveTheLock /\ BatchesArePending
      /\ IsFiniteSet(Sealers) /\ Cardinality(Sealers) \in Nat
      /\ fails = 0 => Cardinality(Waiting) <= Batch * Cardinality(Sealers)
      /\ Batch \in Nat \ {0} /\ MaxEnded \in 1 .. Batch
  BY FS_CardinalityType DEF ChainInv, SealersSuffice, ChainAssumption
<1>b. /\ Unsealed \subseteq Events /\ Waiting \subseteq Unsealed
      /\ IsFiniteSet(Unsealed) /\ IsFiniteSet(Waiting)
      /\ Cardinality(Unsealed) \in Nat /\ Cardinality(Waiting) \in Nat
  <2>1. Unsealed \subseteq Events /\ Waiting \subseteq Unsealed
    BY DEF Unsealed, Waiting
  <2> QED
    BY <2>1, FS_Subset, FS_CardinalityType DEF ChainAssumption
<1>1. ASSUME Waiting' \subseteq Waiting, Sealers' = Sealers, fails' = fails PROVE SealersSuffice'
  <2>1. Cardinality(Waiting') <= Cardinality(Waiting) /\ Cardinality(Waiting') \in Nat
    BY <1>b, <1>1, FS_Subset, FS_CardinalityType
  <2> QED
    BY <1>a, <1>b, <1>1, <2>1 DEF SealersSuffice
<1>2. CASE Rows \/ UNCHANGED vars
  <2>1. /\ UNCHANGED <<chain, step, batch, fails>>
        /\ \A e \in Events : status'[e] \in FINISHED => status[e] \in FINISHED
    BY <1>2, <1>a
       DEF Rows, vars, chain, Open, Start, Progress, TypeOK, UNFINISHED, FINISHED
  <2>2. Waiting' \subseteq Waiting /\ Sealers' = Sealers
    BY <2>1 DEF Waiting, Unsealed, Sealers, chain
  <2> QED
    BY <1>1, <2>1, <2>2
<1>3. ASSUME NEW p \in Procs, Ends(p) PROVE SealersSuffice'
  <2>1. /\ step[p] = "idle" /\ step' = [step EXCEPT ![p] = "due"]
        /\ UNCHANGED <<chain, batch, fails>>
    BY <1>3 DEF Ends, Record, Close, Interrupt, SealAfterCommit
  <2>2. PICK some \in SUBSET Events :
          /\ Cardinality(some) <= Batch
          /\ \A e \in Events : status'[e] \in FINISHED => status[e] \in FINISHED \/ e \in some
    <3>1. ASSUME NEW e \in Events, Record(p, e) \/ Close(p, e)
          PROVE  \A f \in Events : status'[f] \in FINISHED => status[f] \in FINISHED \/ f \in {e}
      BY <3>1, <1>a DEF Record, Close, TypeOK
    <3>2. ASSUME NEW e \in Events PROVE Cardinality({e}) <= Batch
      <4>1. Cardinality({e}) = 1
        BY FS_Singleton
      <4> QED
        BY <1>a, <4>1
    <3>3. ASSUME Interrupt(p)
          PROVE  \E some \in SUBSET Events :
                   /\ Cardinality(some) <= Batch
                   /\ \A e \in Events : status'[e] \in FINISHED => status[e] \in FINISHED \/ e \in some
      <4>1. PICK some \in SUBSET {e \in Events : status[e] \in UNFINISHED} :
              /\ Cardinality(some) \in 1 .. MaxEnded
              /\ status' = [e \in Events |-> IF e \in some THEN "failed" ELSE status[e]]
        BY <3>3 DEF Interrupt
      <4>2. Cardinality(some) <= Batch
        BY <1>a, <4>1
      <4> QED
        BY <4>1, <4>2
    <3> QED
      BY <1>3, <3>1, <3>2, <3>3 DEF Ends
  <2>3. Waiting' \subseteq Waiting \cup some
    BY <2>1, <2>2 DEF Waiting, Unsealed, chain
  <2>4. /\ Cardinality(Waiting') <= Cardinality(Waiting) + Batch
        /\ Cardinality(Waiting') \in Nat
    <3>1. IsFiniteSet(some) /\ Cardinality(some) \in Nat
      BY FS_Subset, FS_CardinalityType DEF ChainAssumption
    <3>2. /\ IsFiniteSet(Waiting \cup some) /\ Cardinality(Waiting \cup some) \in Nat
          /\ Cardinality(Waiting \cup some) <= Cardinality(Waiting) + Cardinality(some)
      <4>1. /\ IsFiniteSet(Waiting \cap some) /\ Cardinality(Waiting \cap some) \in Nat
        BY <1>b, FS_Subset, FS_CardinalityType
      <4>2. /\ IsFiniteSet(Waiting \cup some)
            /\ Cardinality(Waiting \cup some)
                 = Cardinality(Waiting) + Cardinality(some) - Cardinality(Waiting \cap some)
        BY <1>b, <3>1, FS_Union
      <4>3. Cardinality(Waiting \cup some) \in Nat
        BY <4>2, FS_CardinalityType
      <4> QED
        BY <1>b, <3>1, <4>1, <4>2, <4>3
    <3>3. IsFiniteSet(Waiting') /\ Cardinality(Waiting') <= Cardinality(Waiting \cup some)
      BY <2>3, <3>2, FS_Subset
    <3>4. Cardinality(Waiting') \in Nat
      BY <3>3, FS_CardinalityType
    <3> QED
      BY <1>a, <1>b, <2>2, <3>1, <3>2, <3>3, <3>4
  <2>5. Sealers' = Sealers \cup {p} /\ p \notin Sealers
    BY <1>a, <2>1 DEF Sealers, TypeOK
  <2>6. IsFiniteSet(Sealers') /\ Cardinality(Sealers') = Cardinality(Sealers) + 1
    BY <1>a, <2>5, FS_AddElement
  <2>7. Batch * (Cardinality(Sealers) + 1) = Batch * Cardinality(Sealers) + Batch
    BY <1>a
  <2>8. Batch * Cardinality(Sealers) \in Nat
    BY <1>a
  <2> QED
    BY <1>a, <1>b, <2>1, <2>4, <2>6, <2>7, <2>8 DEF SealersSuffice
<1>4. ASSUME NEW p \in Procs, Hold(p) PROVE SealersSuffice'
  <2>1. Waiting' = Waiting /\ Sealers' = Sealers
    BY <1>a, <1>4 DEF Hold, Waiting, Unsealed, Sealers, chain, TypeOK
  <2> QED
    BY <1>1, <1>4, <2>1 DEF Hold
<1>5. ASSUME NEW p \in Procs, Read(p) PROVE SealersSuffice'
  <2>1. Waiting = Unsealed
    BY <1>a, <1>5 DEF Read, HoldersHaveTheLock, BatchesArePending, Waiting
  <2>2. Waiting' = Unsealed \ First(Unsealed)
    <3>1. Unsealed' = Unsealed
      BY <1>5 DEF Read, Unsealed, chain
    <3>2. \A q \in Procs : batch'[q] = IF q = p THEN First(Unsealed) ELSE {}
      BY <1>a, <1>5 DEF Read, HoldersHaveTheLock, BatchesArePending, TypeOK
    <3> QED
      BY <3>1, <3>2 DEF Waiting
  <2>3. Sealers' = Sealers \ {p} /\ p \in Sealers
    BY <1>a, <1>5 DEF Read, Sealers, TypeOK
  <2>4. /\ IsFiniteSet(Sealers') /\ Cardinality(Sealers') = Cardinality(Sealers) - 1
        /\ Cardinality(Sealers') \in Nat
    BY <1>a, <2>3, FS_RemoveElement, FS_CardinalityType
  <2>5. \/ Cardinality(Waiting') = 0
        \/ Cardinality(Waiting') + Batch = Cardinality(Waiting)
    <3>1. Unsealed \in SUBSET Nat
      BY <1>b DEF ChainAssumption
    <3>2. First(Unsealed) = Unsealed => Waiting' = {}
      BY <2>2
    <3> QED
      BY <1>b, <2>1, <2>2, <3>1, <3>2, BatchIsAllOrFull, FS_EmptySet
  <2>6. Batch * Cardinality(Sealers) = Batch * Cardinality(Sealers') + Batch
    <3> DEFINE n == Cardinality(Sealers')
    <3>1. n \in Nat /\ Cardinality(Sealers) = n + 1
      BY <1>a, <2>4
    <3> HIDE DEF n
    <3>2. Batch * (n + 1) = Batch * n + Batch
      BY <1>a, <3>1
    <3> QED
      BY <3>1, <3>2 DEF n
  <2>7. Batch * Cardinality(Sealers') \in Nat
    BY <1>a, <2>4
  <2>8. IsFiniteSet(Waiting') /\ Cardinality(Waiting') \in Nat
    BY <1>b, <2>2, FS_Difference, FS_CardinalityType
  <2>9. fails' = 0 => Cardinality(Waiting') <= Batch * Cardinality(Sealers')
    BY <1>a, <1>b, <1>5, <2>5, <2>6, <2>7, <2>8 DEF Read
  <2> QED
    BY <2>4, <2>9 DEF SealersSuffice
<1>6. ASSUME NEW p \in Procs, Commit(p) PROVE SealersSuffice'
  <2>1. \A e \in batch[p] : e \in Sealed'
    BY <1>6, CommitSeals
  <2>2. Unsealed' \subseteq Unsealed \ batch[p]
    <3>1. \A e \in Events \ batch[p] : index'[e] = index[e]
      BY <1>6, CommitSeals
    <3> QED
      BY <1>6, <2>1, <3>1 DEF Commit, Unsealed, Sealed
  <2>3. Waiting' \subseteq Waiting
    BY <1>a, <1>6, <2>2 DEF Commit, Waiting, TypeOK
  <2>4. Sealers' = Sealers /\ fails' = fails
    BY <1>a, <1>6 DEF Commit, Sealers, TypeOK
  <2> QED
    BY <1>1, <2>3, <2>4
<1>7. ASSUME NEW p \in Procs, SealFails(p) PROVE SealersSuffice'
  <2>1. Sealers' \subseteq Sealers /\ fails' # 0
    BY <1>a, <1>7 DEF SealFails, Sealers, TypeOK, ChainAssumption
  <2> QED
    BY <1>a, <2>1, FS_Subset DEF SealersSuffice
<1> QED
  BY <1>2, <1>3, <1>4, <1>5, <1>6, <1>7 DEF Next, Seal

(* While no seal has failed, no finished row is left unsealed once every     *)
(* process is through, whatever the number of rows, processes and batches.   *)
THEOREM NothingForgottenAlways ==
    ASSUME ChainAssumption PROVE Spec => []NothingForgotten
<1>1. Init => SealersSuffice
  <2> SUFFICES ASSUME Init PROVE SealersSuffice
    OBVIOUS
  <2>1. Sealers = {} /\ Waiting = {}
    BY DEF Init, Sealers, Waiting, Unsealed, FINISHED
  <2>2. IsFiniteSet({}) /\ Cardinality({}) = 0
    BY FS_EmptySet
  <2>3. 0 <= Batch * 0
    BY DEF ChainAssumption
  <2> QED
    BY <2>1, <2>2, <2>3 DEF SealersSuffice
<1>2. ChainInv /\ SealersSuffice /\ [Next]_vars => SealersSuffice'
  BY SealersStep
<1>3. ASSUME ChainInv, SealersSuffice PROVE NothingForgotten
  <2> SUFFICES ASSUME fails = 0, \A p \in Procs : step[p] = "idle" PROVE Unsealed = {}
    BY DEF NothingForgotten
  <2>1. Sealers = {} /\ Waiting = Unsealed
    BY <1>3 DEF Sealers, Waiting, ChainInv, BatchesArePending
  <2>2. Cardinality(Sealers) = 0
    BY <2>1, FS_EmptySet
  <2>3. Batch * 0 = 0
    BY DEF ChainAssumption
  <2>4. Cardinality(Unsealed) <= 0
    BY <1>3, <2>1, <2>2, <2>3 DEF SealersSuffice
  <2>5. IsFiniteSet(Unsealed) /\ Cardinality(Unsealed) \in Nat
    BY FS_Subset, FS_CardinalityType DEF Unsealed, ChainAssumption
  <2> QED
    BY <2>4, <2>5, FS_EmptySet
<1> QED
  BY <1>1, <1>2, <1>3, ChainInvariant, PTL DEF Spec
=============================================================================
