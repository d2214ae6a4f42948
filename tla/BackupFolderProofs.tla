-------------------------- MODULE BackupFolderProofs --------------------------
(***************************************************************************)
(* Theorems about BackupFolder, for any number of backups and streams and  *)
(* any keep: what retention may remove, and how many backups it leaves.    *)
(***************************************************************************)
EXTENDS BackupFolder, FiniteSetTheorems, WellFoundedInduction, TLAPS

(* A set of natural numbers has a least member.                              *)
LEMMA LeastNumber ==
    ASSUME NEW S \in SUBSET Nat, S # {}
    PROVE  \E n \in S : \A m \in S : n <= m
<1>1. IsWellFoundedOn(OpToRel(<, Nat), Nat)
  BY NatLessThanWellFounded
<1>2. PICK n \in S : \A m \in S : ~ (<<m, n>> \in OpToRel(<, Nat))
  BY <1>1, WFMin
<1>3. ASSUME NEW m \in S PROVE n <= m
  <2>1. m \in Nat /\ n \in Nat
    OBVIOUS
  <2>2. ~ m < n
    BY <1>2, <2>1 DEF OpToRel
  <2> QED
    BY <2>1, <2>2
<1> QED
  BY <1>3

(* Among any backups one is not newer than the others.                       *)
LEMMA SomeOldest ==
    ASSUME TypeOK, NEW S \in SUBSET Backups, S # {}
    PROVE  Oldest(S) \in S /\ \A c \in S : ~ Newer(Oldest(S), c)
<1> DEFINE stamps == {stamp[b] : b \in S}
<1>1. stamps \in SUBSET Nat /\ stamps # {}
  BY DEF TypeOK
<1>2. PICK n \in stamps : \A m \in stamps : n <= m
  BY <1>1, LeastNumber
<1>3. PICK b \in S : stamp[b] = n
  BY <1>2
<1>4. ASSUME NEW c \in S PROVE ~ Newer(b, c)
  <2>1. stamp[b] \in Nat /\ stamp[c] \in Nat /\ stamp[b] <= stamp[c]
    BY <1>2, <1>3 DEF TypeOK
  <2> QED
    BY <2>1 DEF Newer
<1> QED
  BY <1>3, <1>4 DEF Oldest

-----------------------------------------------------------------------------
(* Counting backups by how many of S come before them in an order.           *)

(* Of the backups that few precede there are few only when there are no      *)
(* others: when one is preceded by n or more, at least n are preceded by     *)
(* fewer than n.                                                             *)
LEMMA FirstOnes ==
    ASSUME NEW S, IsFiniteSet(S), NEW f \in [S -> Int], NEW n \in Nat,
           NEW late \in S, Cardinality({c \in S : f[c] > f[late]}) >= n
    PROVE  Cardinality({b \in S : Cardinality({c \in S : f[c] > f[b]}) < n}) >= n
<1> DEFINE Before(b) == {c \in S : f[c] > f[b]}
           Place(b) == Cardinality(Before(b))
           early == {b \in S : Place(b) < n}
           places == {Place(b) : b \in S \ early}
<1>1. ASSUME NEW b \in S PROVE IsFiniteSet(Before(b)) /\ Place(b) \in Nat
  BY FS_Subset, FS_CardinalityType
<1>2. places \in SUBSET Nat /\ places # {}
  <2>1. Place(late) \in Nat /\ Place(late) >= n
    BY <1>1
  <2>2. ~ Place(late) < n
    <3> HIDE DEF Place
    <3> QED
      BY <2>1
  <2>3. late \in S \ early
    BY <2>2
  <2>4. places \in SUBSET Nat
    BY <1>1
  <2> QED
    BY <2>3, <2>4
<1>3. PICK k \in places : \A m \in places : k <= m
  BY <1>2, LeastNumber
<1>4. PICK b \in S \ early : Place(b) = k
  BY <1>3
<1>5. Before(b) \subseteq early
  <2>1. ASSUME NEW c \in Before(b), c \notin early PROVE FALSE
    <3>1. c \in S /\ f[c] > f[b] /\ f[c] \in Int /\ f[b] \in Int
      OBVIOUS
    <3>2. Before(c) \subseteq Before(b) /\ c \notin Before(c) /\ c \in Before(b)
      BY <3>1
    <3>3. Place(c) <= Place(b) /\ Place(c) # Place(b)
      BY <1>1, <3>1, <3>2, FS_Subset
    <3>4. k <= Place(c)
      BY <1>3, <2>1, <3>1
    <3>5. Place(c) \in Nat /\ Place(b) \in Nat
      BY <1>1, <3>1
    <3> QED
      BY <1>4, <3>3, <3>4, <3>5
  <2> QED
    BY <2>1
<1>6. Place(b) >= n
  BY <1>1, <1>4
<1>7. IsFiniteSet(early) /\ Cardinality(early) \in Nat
  BY FS_Subset, FS_CardinalityType
<1>8. Place(b) <= Cardinality(early)
  BY <1>5, <1>7, FS_Subset
<1>9. Cardinality(early) >= n
  <2>1. Place(b) \in Nat
    BY <1>1
  <2> HIDE DEF Place, early
  <2> QED
    BY <1>6, <1>7, <1>8, <2>1
<1> QED
  BY <1>9

-----------------------------------------------------------------------------
(* What retention.py computes. *)

(* A backup that passed and is not the newest that did has a newer one.      *)
LEMMA NewestPassed ==
    ASSUME TypeOK, NEW S \in SUBSET Backups, IsFiniteSet(S), NEW b \in Passed(S) \ Verified(S)
    PROVE  \E c \in Verified(S) : Newer(c, b)
<1> DEFINE P == Passed(S)
           f == [c \in P |-> stamp[c]]
<1>1. P \subseteq Backups /\ IsFiniteSet(P) /\ b \in P /\ f \in [P -> Int]
  BY FS_Subset DEF Passed, TypeOK
<1>2. \A c \in P : Position(P, c) = Cardinality({d \in P : f[d] > f[c]})
  BY DEF Position, Newer
<1>3. \A c \in P : Position(P, c) \in Nat
  BY <1>1, FS_Subset, FS_CardinalityType DEF Position
<1>4. Position(P, b) >= 1
  BY <1>1, <1>3 DEF Verified
<1>5. Cardinality({c \in P : Cardinality({d \in P : f[d] > f[c]}) < 1}) >= 1
  <2>1. Cardinality({d \in P : f[d] > f[b]}) >= 1
    BY <1>1, <1>2, <1>4
  <2> HIDE DEF f, P
  <2> QED
    BY <1>1, <2>1, FirstOnes
<1>6. PICK c \in P : Cardinality({d \in P : f[d] > f[c]}) < 1
  <2> DEFINE newest == {c \in P : Cardinality({d \in P : f[d] > f[c]}) < 1}
  <2>1. newest # {}
    <3>1. Cardinality(newest) >= 1 /\ Cardinality({}) = 0
      BY <1>5, FS_EmptySet
    <3> HIDE DEF newest
    <3> QED
      BY <3>1
  <2> QED
    BY <2>1
<1>7. c \in Verified(S)
  <2>1. Position(P, c) < 1 /\ Position(P, c) \in Nat
    BY <1>2, <1>3, <1>6
  <2> QED
    BY <2>1 DEF Verified
<1>8. c \in P /\ Position(P, c) = 0
  BY <1>7 DEF Verified
<1>9. {d \in P : Newer(d, c)} = {}
  <2>1. IsFiniteSet({d \in P : Newer(d, c)})
    BY <1>1, FS_Subset
  <2> QED
    BY <1>8, <2>1, FS_EmptySet DEF Position
<1>10. PICK d \in P : Newer(d, b)
  <2>1. {d \in P : Newer(d, b)} # {}
    BY <1>4, FS_EmptySet DEF Position
  <2> QED
    BY <2>1
<1>11. ~ Newer(d, c)
  BY <1>9
<1>12. stamp[b] \in Nat /\ stamp[c] \in Nat /\ stamp[d] \in Nat
  BY <1>1, <1>8, <1>10 DEF TypeOK
<1>13. Newer(c, b)
  BY <1>10, <1>11, <1>12 DEF Newer
<1> QED
  BY <1>7, <1>13

(* The newest backup that passed is not stale, and neither are the newest    *)
(* keep of those that have not failed.                                       *)
LEMMA StaleOnes ==
    ASSUME TypeOK, NEW S \in SUBSET Backups, IsFiniteSet(S), NEW keep \in Nat
    PROVE  /\ Stale(S, keep) \subseteq S
           /\ Stale(S, keep) \cap Verified(S) = {}
           /\ (\E b \in Stale(S, keep) : verdict[b] # "failed")
                => Cardinality(Counted(S \ Stale(S, keep))) >= keep
<1> DEFINE C == Counted(S)
           f == [c \in C |-> stamp[c]]
           first == {b \in C : Position(C, b) < keep}
           stays == Counted(S \ Stale(S, keep))
<1>1. Stale(S, keep) \subseteq S /\ Stale(S, keep) \cap Verified(S) = {}
  BY DEF Stale
<1>2. ASSUME NEW b \in Stale(S, keep), verdict[b] # "failed"
      PROVE  Cardinality(stays) >= keep
  <2>1. C \subseteq Backups /\ IsFiniteSet(C) /\ f \in [C -> Int]
    BY FS_Subset DEF Counted, TypeOK
  <2>2. \A c \in C : Position(C, c) = Cardinality({d \in C : f[d] > f[c]})
    BY DEF Position, Newer
  <2>3. \A c \in C : Position(C, c) \in Nat
    BY <2>1, FS_Subset, FS_CardinalityType DEF Position
  <2>4. b \in C /\ Position(C, b) >= keep
    <3>1. b \in C /\ b \notin first
      BY <1>2 DEF Stale, Counted
    <3>2. Position(C, b) \in Nat
      BY <2>3, <3>1
    <3> QED
      BY <3>1, <3>2
  <2>5. Cardinality({c \in C : Cardinality({d \in C : f[d] > f[c]}) < keep}) >= keep
    <3>1. Cardinality({d \in C : f[d] > f[b]}) >= keep
      BY <2>2, <2>4
    <3> HIDE DEF f, C
    <3> QED
      BY <2>1, <2>4, <3>1, FirstOnes
  <2>6. Cardinality(first) >= keep
    <3>1. {c \in C : Cardinality({d \in C : f[d] > f[c]}) < keep} = first
      BY <2>2
    <3> QED
      BY <2>5, <3>1
  <2>7. first \subseteq stays
    BY DEF Stale, Counted
  <2>8. IsFiniteSet(stays) /\ Cardinality(stays) \in Nat
    BY FS_Subset, FS_CardinalityType DEF Counted
  <2>9. Cardinality(first) <= Cardinality(stays) /\ Cardinality(first) \in Nat
    BY <2>7, <2>8, FS_Subset, FS_CardinalityType
  <2> HIDE DEF first, stays
  <2> QED
    BY <2>6, <2>8, <2>9
<1> QED
  BY <1>1, <1>2

(* With a place for the backup just written and one for the newest that      *)
(* passed, no more than keep stay.                                           *)
LEMMA BeyondOnes ==
    ASSUME TypeOK, NEW S \in SUBSET Backups, IsFiniteSet(S), NEW keep \in Nat \ {0, 1},
           NEW own \in Backups, \A b, c \in S : stamp[b] = stamp[c] => b = c
    PROVE  /\ StaleBeyond(S, keep, {own}) \subseteq S
           /\ own \notin StaleBeyond(S, keep, {own})
           /\ StaleBeyond(S, keep, {own}) \cap Verified(S) = {}
           /\ Cardinality(S \ StaleBeyond(S, keep, {own})) <= keep
<1> DEFINE protected == {own} \cup Verified(S)
           stale == Stale(S, keep) \ protected
           remaining == S \ stale
           spare == remaining \ protected
           surplus == Cardinality(remaining) - keep
           Older(b) == Cardinality({c \in spare : Newer(b, c)})
           gone == {b \in spare : Older(b) < surplus}
           left == remaining \ gone
<1>1. StaleBeyond(S, keep, {own}) = stale \cup gone
  BY DEF StaleBeyond
<1>2. S \ StaleBeyond(S, keep, {own}) = left
  BY <1>1
<1>3. /\ IsFiniteSet(remaining) /\ Cardinality(remaining) \in Nat
      /\ IsFiniteSet(spare) /\ IsFiniteSet(gone) /\ Cardinality(gone) \in Nat
      /\ IsFiniteSet(left) /\ Cardinality(left) \in Nat
      /\ Cardinality(left) <= Cardinality(remaining)
  <2>1. IsFiniteSet(remaining) /\ Cardinality(remaining) \in Nat
    BY FS_Subset, FS_CardinalityType
  <2>2. spare \subseteq remaining /\ gone \subseteq remaining /\ left \subseteq remaining
    OBVIOUS
  <2> HIDE DEF remaining, spare, gone, left
  <2> QED
    BY <2>1, <2>2, FS_Subset, FS_CardinalityType
<1>4. ASSUME surplus <= 0 PROVE Cardinality(left) <= keep
  <2>1. Cardinality(remaining) <= keep
    <3> HIDE DEF remaining
    <3> QED
      BY <1>3, <1>4
  <2> HIDE DEF remaining, left
  <2> QED
    BY <1>3, <2>1
<1>5. ASSUME gone = spare PROVE Cardinality(left) <= keep
  <2>1. left \subseteq protected
    BY <1>5
  <2>2. IsFiniteSet(protected) /\ Cardinality(protected) <= 2 /\ Cardinality(protected) \in Nat
    <3>1. PICK v : Verified(S) \subseteq {v}
      <4>1. ASSUME NEW b \in Verified(S), NEW c \in Verified(S) PROVE b = c
        <5>1. /\ b \in S /\ c \in S /\ b \in Passed(S) /\ c \in Passed(S)
              /\ Position(Passed(S), b) = 0 /\ Position(Passed(S), c) = 0
          BY DEF Verified, Passed
        <5>2. IsFiniteSet({d \in Passed(S) : Newer(d, b)}) /\ IsFiniteSet({d \in Passed(S) : Newer(d, c)})
          BY FS_Subset DEF Passed
        <5>3. ~ Newer(b, c) /\ ~ Newer(c, b)
          BY <5>1, <5>2, FS_EmptySet DEF Position
        <5>4. stamp[b] \in Nat /\ stamp[c] \in Nat
          BY <5>1 DEF TypeOK
        <5>5. stamp[b] = stamp[c]
          BY <5>3, <5>4 DEF Newer
        <5> QED
          BY <5>1, <5>5
      <4> QED
        BY <4>1
    <3>2. /\ IsFiniteSet({own}) /\ Cardinality({own}) = 1
          /\ IsFiniteSet({v}) /\ Cardinality({v}) = 1
      BY FS_Singleton
    <3>3. /\ IsFiniteSet({own} \cup {v})
          /\ Cardinality({own} \cup {v}) = 1 + 1 - Cardinality({own} \cap {v})
          /\ Cardinality({own} \cap {v}) \in Nat /\ Cardinality({own} \cup {v}) \in Nat
      BY <3>2, FS_Union, FS_Intersection, FS_CardinalityType
    <3>4. Cardinality({own} \cup {v}) <= 2
      <4> DEFINE both == Cardinality({own} \cup {v})
                 common == Cardinality({own} \cap {v})
      <4>1. both = 1 + 1 - common /\ common \in Nat
        BY <3>3
      <4> HIDE DEF both, common
      <4>2. both <= 2
        BY <4>1
      <4> QED
        BY <4>2 DEF both
    <3>5. protected \subseteq {own} \cup {v}
      BY <3>1
    <3> HIDE DEF protected
    <3>6. /\ IsFiniteSet(protected) /\ Cardinality(protected) <= Cardinality({own} \cup {v})
          /\ Cardinality(protected) \in Nat
      BY <3>3, <3>5, FS_Subset, FS_CardinalityType
    <3> QED
      BY <3>3, <3>4, <3>6
  <2> HIDE DEF protected, left
  <2>3. Cardinality(left) <= Cardinality(protected)
    BY <2>1, <2>2, FS_Subset
  <2> QED
    BY <1>3, <2>2, <2>3
<1>6. ASSUME NEW late \in spare \ gone, surplus > 0 PROVE Cardinality(left) <= keep
  <2> DEFINE f == [c \in spare |-> 0 - stamp[c]]
  <2>1. f \in [spare -> Int] /\ surplus \in Nat
    BY <1>3, <1>6 DEF TypeOK
  <2>2. ASSUME NEW b \in spare PROVE {c \in spare : f[c] > f[b]} = {c \in spare : Newer(b, c)}
    <3>1. ASSUME NEW c \in spare PROVE f[c] > f[b] <=> Newer(b, c)
      <4>1. stamp[b] \in Nat /\ stamp[c] \in Nat
        BY DEF TypeOK
      <4>2. f[b] = 0 - stamp[b] /\ f[c] = 0 - stamp[c]
        OBVIOUS
      <4> QED
        BY <4>1, <4>2 DEF Newer
    <3> QED
      BY <3>1
  <2>3. ASSUME NEW b \in spare PROVE Older(b) \in Nat /\ Older(b) = Cardinality({c \in spare : f[c] > f[b]})
    <3>1. Older(b) \in Nat
      BY <1>3, FS_Subset, FS_CardinalityType
    <3> QED
      BY <2>2, <3>1
  <2>4. late \in spare /\ Cardinality({c \in spare : f[c] > f[late]}) >= surplus
    <3>1. late \in spare /\ ~ Older(late) < surplus
      BY <1>6
    <3>2. Older(late) \in Nat /\ Older(late) = Cardinality({c \in spare : f[c] > f[late]})
      BY <2>3, <3>1
    <3> HIDE DEF Older, surplus, spare, f
    <3> QED
      BY <2>1, <3>1, <3>2
  <2>5. Cardinality({b \in spare : Cardinality({c \in spare : f[c] > f[b]}) < surplus}) >= surplus
    <3>1. IsFiniteSet(spare)
      BY <1>3
    <3> HIDE DEF surplus, spare, gone, Older, f
    <3> QED
      BY <2>1, <2>4, <3>1, FirstOnes
  <2>6. Cardinality(gone) >= surplus
    <3>1. {b \in spare : Cardinality({c \in spare : f[c] > f[b]}) < surplus} = gone
      <4> HIDE DEF spare, surplus, f
      <4> QED
        BY <2>3
    <3> QED
      BY <2>5, <3>1
  <2>7. Cardinality(left) = Cardinality(remaining) - Cardinality(gone)
    <3>1. remaining \cap gone = gone
      OBVIOUS
    <3> HIDE DEF remaining, gone
    <3> QED
      BY <1>3, <3>1, FS_Difference
  <2>8. surplus = Cardinality(remaining) - keep
    OBVIOUS
  <2> HIDE DEF remaining, gone, left, surplus
  <2> QED
    BY <1>3, <2>6, <2>7, <2>8
<1>7. Cardinality(left) <= keep
  <2>1. surplus <= 0 \/ surplus > 0
    <3>1. surplus \in Int
      BY <1>3
    <3> HIDE DEF surplus
    <3> QED
      BY <3>1
  <2>2. gone = spare \/ \E late \in spare \ gone : TRUE
    OBVIOUS
  <2> HIDE DEF surplus, gone, spare, left
  <2> QED
    BY <1>4, <1>5, <1>6, <2>1, <2>2
<1>8. stale \subseteq S /\ gone \subseteq S /\ own \notin stale \cup gone
      /\ (stale \cup gone) \cap Verified(S) = {}
  BY StaleOnes
<1> QED
  BY <1>1, <1>2, <1>7, <1>8

-----------------------------------------------------------------------------
(* The time that is handed out next is nobody's yet.                         *)
LEMMA NewTime ==
    ASSUME TypeOK, TimesDiffer, NEW b \in Backups, NEW s \in Steps \ {"new"},
           clock' = clock + 1, stamp' = [stamp EXCEPT ![b] = clock + 1],
           job' = [job EXCEPT ![b] = s]
    PROVE  TimesDiffer' /\ clock' \in Nat /\ stamp' \in [Backups -> Nat] /\ job' \in [Backups -> Steps]
<1>1. clock \in Nat /\ clock' \in Nat /\ stamp' \in [Backups -> Nat] /\ job' \in [Backups -> Steps]
  BY DEF TypeOK
<1>2. /\ stamp'[b] = clock + 1
      /\ \A c \in Backups \ {b} : stamp'[c] = stamp[c] /\ job'[c] = job[c]
  BY DEF TypeOK
<1>3. ASSUME NEW c \in Backups \ {b} PROVE IF job[c] = "new" THEN stamp[c] = 0 ELSE stamp[c] \in 1 .. clock
  BY DEF TypeOK, TimesDiffer
<1>4. ASSUME NEW c \in Backups
      PROVE  IF job'[c] = "new" THEN stamp'[c] = 0 ELSE stamp'[c] \in 1 .. clock'
  <2>1. CASE c = b
    BY <1>1, <1>2, <2>1 DEF TypeOK
  <2>2. CASE c # b
    BY <1>1, <1>2, <1>3, <2>2
  <2> QED
    BY <2>1, <2>2
<1>5. ASSUME NEW c \in Backups \ {b} PROVE stamp'[c] # stamp'[b]
  <2>1. stamp[c] <= clock
    <3>1. CASE job[c] # "new"
      BY <1>1, <1>3, <3>1
    <3>2. CASE job[c] = "new"
      BY <1>1, <1>3, <3>2
    <3> QED
      BY <3>1, <3>2
  <2> QED
    BY <1>1, <1>2, <1>3, <2>1
<1>6. ASSUME NEW c \in Backups, NEW d \in Backups, job'[c] # "new", stamp'[c] = stamp'[d]
      PROVE  c = d
  BY <1>2, <1>5, <1>6 DEF TimesDiffer
<1> QED
  BY <1>1, <1>4, <1>6 DEF TimesDiffer

(* Every step keeps the types, the files written and their times apart.      *)
LEMMA TimesStep ==
    ASSUME FolderAssumption, FolderInv, [Next]_vars
    PROVE  TypeOK' /\ FilesAreWritten' /\ TimesDiffer'
<1> DEFINE Kept == TypeOK' /\ FilesAreWritten' /\ TimesDiffer'
<1>0. TypeOK /\ FilesAreWritten /\ TimesDiffer
  BY DEF FolderInv
<1> USE DEF FolderAssumption
<1>1. ASSUME NEW b \in Backups, Begin(b) PROVE Kept
  <2>1. /\ clock' = clock + 1 /\ clock \in Nat /\ stamp' = [stamp EXCEPT ![b] = clock + 1]
        /\ job' = [job EXCEPT ![b] = "write"] /\ job[b] = "new"
        /\ UNCHANGED <<files, verdict, listed, doomed, checks, disturbed>>
    BY <1>0, <1>1 DEF Begin, Goto, TypeOK
  <2>2. TypeOK'
    BY <1>0, <2>1 DEF TypeOK, Steps
  <2>3. FilesAreWritten'
    BY <1>0, <2>1 DEF TypeOK, FilesAreWritten
  <2>4. TimesDiffer'
    BY <1>0, <2>1, NewTime DEF Steps
  <2> QED
    BY <2>2, <2>3, <2>4
<1>2. ASSUME NEW b \in Backups, Publish(b) PROVE Kept
  <2>1. /\ files' = files \cup {b} /\ job[b] = "write" /\ job' = [job EXCEPT ![b] = "record"]
        /\ UNCHANGED <<stamp, verdict, clock, listed, doomed, checks>>
    BY <1>2 DEF Publish, Goto
  <2>2. disturbed' \in [Backups -> BOOLEAN]
    BY <1>0, <1>2 DEF Publish, Disturb, TypeOK
  <2>3. TypeOK'
    BY <1>0, <2>1, <2>2 DEF TypeOK, Steps
  <2>4. IsFiniteSet(files')
    BY <1>0, <2>1, FS_AddElement DEF FilesAreWritten
  <2>5. FilesAreWritten' /\ TimesDiffer'
    BY <1>0, <2>1, <2>4 DEF TypeOK, FilesAreWritten, TimesDiffer
  <2> QED
    BY <2>3, <2>5
<1>3. ASSUME NEW b \in Backups, Record(b) PROVE Kept
  <2>1. /\ clock' = clock + 1 /\ clock \in Nat /\ stamp' = [stamp EXCEPT ![b] = clock + 1]
        /\ job[b] = "record" /\ job' = [job EXCEPT ![b] = "finish"]
        /\ UNCHANGED <<files, verdict, listed, doomed, checks>>
    BY <1>0, <1>3 DEF Record, Goto, TypeOK
  <2>2. disturbed' \in [Backups -> BOOLEAN]
    BY <1>0, <1>3 DEF Record, Disturb, TypeOK
  <2>6. /\ TimesDiffer' /\ clock' \in Nat /\ stamp' \in [Backups -> Nat]
        /\ job' \in [Backups -> Steps]
    BY <1>0, <2>1, NewTime DEF Steps
  <2>4. TypeOK'
    BY <1>0, <2>1, <2>2, <2>6 DEF TypeOK
  <2>5. FilesAreWritten'
    BY <1>0, <2>1 DEF TypeOK, FilesAreWritten
  <2> QED
    BY <2>4, <2>5, <2>6
<1>10. ASSUME NEW b \in Backups, Finish(b) PROVE Kept
  <2>1. /\ job[b] = "finish" /\ job' = [job EXCEPT ![b] = "list"]
        /\ UNCHANGED <<files, stamp, clock, listed, doomed, checks>>
    BY <1>10 DEF Finish, Goto
  <2>2. /\ disturbed' \in [Backups -> BOOLEAN]
        /\ verdict' \in [Backups -> {"passed", "failed", "unknown"}]
    BY <1>0, <1>10 DEF Finish, Disturb, TypeOK
  <2> QED
    BY <1>0, <2>1, <2>2 DEF TypeOK, Steps, FilesAreWritten, TimesDiffer
<1>4. ASSUME NEW b \in Backups, Die(b) \/ Pruned(b) PROVE Kept
  <2>1. PICK s \in {"dead", "done"} : job' = [job EXCEPT ![b] = s]
    BY <1>4 DEF Die, Pruned, Goto
  <2>2. job[b] # "new" /\ Forget(b) /\ UNCHANGED <<files, stamp, verdict, clock, checks>>
    BY <1>4 DEF Die, Pruned, Alive
  <2>3. disturbed' \in [Backups -> BOOLEAN]
    BY <1>0, <2>2 DEF Forget, TypeOK
  <2>4. TypeOK'
    BY <1>0, <2>1, <2>2, <2>3 DEF TypeOK, Steps, Forget
  <2>5. FilesAreWritten' /\ TimesDiffer'
    BY <1>0, <2>1, <2>2 DEF TypeOK, FilesAreWritten, TimesDiffer
  <2> QED
    BY <2>4, <2>5
<1>5. ASSUME NEW b \in Backups, List(b) PROVE Kept
  <2>1. /\ job[b] = "list" /\ job' = [job EXCEPT ![b] = "judge"]
        /\ listed' = [listed EXCEPT ![b] = files]
        /\ UNCHANGED <<files, stamp, verdict, clock, doomed, checks, disturbed>>
    BY <1>5 DEF List, Goto
  <2> QED
    BY <1>0, <2>1 DEF TypeOK, Steps, FilesAreWritten, TimesDiffer
<1>6. ASSUME NEW b \in Backups, Judge(b) PROVE Kept
  <2>1. /\ job[b] = "judge" /\ job' = [job EXCEPT ![b] = "remove"]
        /\ listed' = [listed EXCEPT ![b] = {}]
        /\ UNCHANGED <<files, stamp, verdict, clock, checks, disturbed>>
    BY <1>6 DEF Judge, Goto
  <2>2. doomed' \in [Backups -> SUBSET Backups]
    <3>1. PICK stale \in SUBSET Backups : doomed' = [doomed EXCEPT ![b] = stale]
      <4> DEFINE stored == listed[b] \cap files
      <4>1. stored \subseteq Backups
        BY <1>0 DEF TypeOK
      <4>2. /\ StaleBeyond(stored, Limit, {b}) \subseteq stored
            /\ Stale(stored, Keep) \subseteq stored
        BY DEF StaleBeyond, Stale
      <4>3. doomed' = [doomed EXCEPT ![b] = IF b \in Streams THEN StaleBeyond(stored, Limit, {b})
                                            ELSE Stale(stored, Keep)]
        BY <1>6 DEF Judge
      <4> HIDE DEF stored
      <4> QED
        BY <4>1, <4>2, <4>3
    <3> QED
      BY <1>0, <3>1 DEF TypeOK
  <2> QED
    BY <1>0, <2>1, <2>2 DEF TypeOK, Steps, FilesAreWritten, TimesDiffer
<1>7. ASSUME NEW b \in Backups, Remove(b) PROVE Kept
  <2>1. /\ files' \subseteq files
        /\ UNCHANGED <<job, stamp, verdict, clock, listed, checks>>
    BY <1>7 DEF Remove
  <2>2. doomed' \in [Backups -> SUBSET Backups]
    BY <1>0, <1>7 DEF Remove, TypeOK
  <2>3. disturbed' \in [Backups -> BOOLEAN]
    BY <1>0, <1>7 DEF Remove, Disturb, TypeOK
  <2>4. IsFiniteSet(files')
    BY <1>0, <2>1, FS_Subset DEF FilesAreWritten
  <2> QED
    BY <1>0, <2>1, <2>2, <2>3, <2>4 DEF TypeOK, FilesAreWritten, TimesDiffer
<1>8. ASSUME NEW b \in Backups, Validate(b) PROVE Kept
  <2>1. /\ checks' = checks + 1 /\ checks < MaxValidations
        /\ UNCHANGED <<job, files, stamp, clock, listed, doomed>>
    BY <1>8 DEF Validate
  <2>2. verdict' \in [Backups -> {"passed", "failed", "unknown"}]
    BY <1>0, <1>8 DEF Validate, TypeOK
  <2>3. disturbed' \in [Backups -> BOOLEAN]
    BY <1>0, <1>8 DEF Validate, TypeOK
  <2>4. checks' \in 0 .. MaxValidations
    BY <1>0, <2>1 DEF TypeOK
  <2> QED
    BY <1>0, <2>1, <2>2, <2>3, <2>4 DEF TypeOK, FilesAreWritten, TimesDiffer
<1>9. CASE UNCHANGED vars
  BY <1>0, <1>9 DEF vars, TypeOK, FilesAreWritten, TimesDiffer
<1> QED
  BY <1>1, <1>2, <1>3, <1>4, <1>5, <1>6, <1>7, <1>8, <1>9, <1>10 DEF Next, Take, Prune

-----------------------------------------------------------------------------
(* A plan holds on while what it leaves, the verdicts and the order of the   *)
(* files stay.                                                               *)
LEMMA PlanStays ==
    ASSUME NEW p \in Backups, Plan(p), Left(p)' = Left(p), doomed'[p] \subseteq doomed[p],
           doomed'[p] \subseteq files', verdict' = verdict,
           \A b, c \in files : Newer(c, b) => Newer(c, b)'
    PROVE  Plan(p)'
<1>1. Passed(Left(p))' = Passed(Left(p)) /\ Counted(Left(p))' = Counted(Left(p))
  BY DEF Passed, Counted
<1>2. ASSUME NEW b \in doomed'[p], verdict'[b] = "passed"
      PROVE  \E c \in Passed(Left(p))' : Newer(c, b)'
  <2>1. PICK c \in Passed(Left(p)) : Newer(c, b)
    BY <1>2 DEF Plan
  <2>2. b \in files /\ c \in files
    BY DEF Plan, Left, Passed
  <2> QED
    BY <1>1, <2>1, <2>2
<1> QED
  BY <1>1, <1>2 DEF Plan

(* The plan that an undisturbed job makes is one that holds.                 *)
LEMMA JudgeStep ==
    ASSUME FolderAssumption, FolderInv, NEW b \in Backups, Judge(b)
    PROVE  /\ ~ disturbed[b] => Plan(b)'
           /\ b \in Streams => b \notin doomed'[b]
<1> DEFINE stored == listed[b] \cap files
<1>1. TypeOK /\ FilesAreWritten /\ TimesDiffer
  BY DEF FolderInv
<1>2. stored \in SUBSET Backups /\ IsFiniteSet(stored)
  BY <1>1, FS_Subset DEF TypeOK, FilesAreWritten
<1>3. \A c, d \in stored : stamp[c] = stamp[d] => c = d
  BY <1>1 DEF TypeOK, FilesAreWritten, TimesDiffer
<1>4. /\ doomed' = [doomed EXCEPT ![b] = IF b \in Streams THEN StaleBeyond(stored, Limit, {b})
                                          ELSE Stale(stored, Keep)]
      /\ UNCHANGED <<files, stamp, verdict, clock, checks, disturbed>>
  BY DEF Judge
<1>5. Keep \in Nat /\ Limit \in Nat \ {0, 1}
  BY DEF FolderAssumption
<1>6. ~ disturbed[b] => stored = files
  BY DEF FolderInv, ListIsCurrent, Judge
<1>7. doomed'[b] = IF b \in Streams THEN StaleBeyond(stored, Limit, {b}) ELSE Stale(stored, Keep)
  BY <1>1, <1>4 DEF TypeOK
<1> HIDE DEF stored
<1>11. /\ StaleBeyond(stored, Limit, {b}) \subseteq stored
       /\ b \notin StaleBeyond(stored, Limit, {b})
       /\ StaleBeyond(stored, Limit, {b}) \cap Verified(stored) = {}
  BY <1>1, <1>2, <1>3, <1>5, BeyondOnes
<1>8. doomed'[b] \subseteq stored /\ doomed'[b] \cap Verified(stored) = {}
  <2>1. Stale(stored, Keep) \subseteq stored /\ Stale(stored, Keep) \cap Verified(stored) = {}
    BY <1>1, <1>2, <1>5, StaleOnes
  <2>2. CASE b \in Streams
    BY <1>7, <1>11, <2>2
  <2>3. CASE b \notin Streams
    BY <1>7, <2>1, <2>3
  <2> QED
    BY <2>2, <2>3
<1>9. ASSUME ~ disturbed[b] PROVE Plan(b)'
  <2>1. stored = files /\ files' = files /\ verdict' = verdict /\ stamp' = stamp
    BY <1>4, <1>6, <1>9
  <2>2. Left(b)' = files \ doomed'[b]
    BY <2>1 DEF Left
  <2>3. ASSUME NEW c \in doomed'[b], verdict[c] = "passed"
        PROVE  \E d \in Passed(Left(b))' : Newer(d, c)'
    <3>1. c \in Passed(stored) \ Verified(stored)
      BY <1>8, <2>3 DEF Passed
    <3>2. PICK d \in Verified(stored) : Newer(d, c)
      BY <1>1, <1>2, <3>1, NewestPassed
    <3>3. d \in stored /\ verdict[d] = "passed" /\ d \notin doomed'[b]
      BY <1>8 DEF Verified, Passed
    <3> QED
      BY <2>1, <2>2, <3>2, <3>3 DEF Passed, Newer
  <2>4. ASSUME b \notin Streams, NEW c \in doomed'[b], verdict[c] # "failed"
        PROVE  Cardinality(Counted(Left(b)))' >= Keep
    <3>1. doomed'[b] = Stale(stored, Keep)
      BY <1>7, <2>4
    <3>2. Cardinality(Counted(stored \ Stale(stored, Keep))) >= Keep
      BY <1>1, <1>2, <1>5, <2>4, <3>1, StaleOnes
    <3>3. Counted(Left(b))' = Counted(stored \ Stale(stored, Keep))
      BY <2>1, <2>2, <3>1 DEF Counted
    <3> QED
      BY <3>2, <3>3
  <2>5. ASSUME b \in Streams PROVE Cardinality(Left(b))' <= Limit
    <3>1. doomed'[b] = StaleBeyond(stored, Limit, {b})
      BY <1>7, <2>5
    <3>2. Cardinality(stored \ StaleBeyond(stored, Limit, {b})) <= Limit
      BY <1>1, <1>2, <1>3, <1>5, BeyondOnes
    <3> QED
      BY <2>1, <2>2, <3>1, <3>2
  <2>6. doomed'[b] \subseteq files'
    BY <1>8, <2>1
  <2> QED
    BY <2>1, <2>3, <2>4, <2>5, <2>6 DEF Plan
<1>10. ASSUME b \in Streams PROVE b \notin doomed'[b]
  BY <1>7, <1>10, <1>11
<1> QED
  BY <1>9, <1>10

(* Every step keeps the plans, the lists and a stream's own backup.          *)
LEMMA PlansStep ==
    ASSUME FolderAssumption, FolderInv, [Next]_vars, TypeOK'
    PROVE  ListIsCurrent' /\ PlanHolds' /\ OwnIsSpared'
<1> DEFINE Kept == ListIsCurrent' /\ PlanHolds' /\ OwnIsSpared'
<1>0. TypeOK /\ FilesAreWritten /\ ListIsCurrent /\ PlanHolds /\ OwnIsSpared
  BY DEF FolderInv
<1> USE DEF FolderAssumption
<1>1. ASSUME NEW b \in Backups, NEW s \in Steps \ {"judge", "remove"},
             job' = [job EXCEPT ![b] = s],
             UNCHANGED <<files, verdict>>,
             \A p \in Backups \ {b} :
                /\ disturbed'[p] = disturbed[p] /\ listed'[p] = listed[p]
                /\ doomed'[p] = doomed[p],
             \A c, d \in files : Newer(c, d) => Newer(c, d)'
      PROVE  Kept
  <2>1. \A p \in Backups : job'[p] \in {"judge", "remove"} => p # b /\ job[p] = job'[p]
    BY <1>0, <1>1 DEF TypeOK
  <2>2. ListIsCurrent'
    BY <1>0, <1>1, <2>1 DEF ListIsCurrent
  <2>3. OwnIsSpared'
    BY <1>0, <1>1, <2>1 DEF OwnIsSpared
  <2>4. ASSUME NEW p \in Backups, job'[p] = "remove", ~ disturbed'[p] PROVE Plan(p)'
    <3>1. p # b /\ job[p] = "remove" /\ ~ disturbed[p]
      BY <1>1, <2>1, <2>4
    <3>2. Plan(p) /\ doomed'[p] = doomed[p] /\ files' = files /\ verdict' = verdict
      BY <1>0, <1>1, <3>1 DEF PlanHolds
    <3>3. Left(p)' = Left(p) /\ doomed'[p] \subseteq files'
      BY <3>2 DEF Left, Plan
    <3> QED
      BY <1>1, <3>2, <3>3, PlanStays
  <2> QED
    BY <2>2, <2>3, <2>4 DEF PlanHolds
<1>2. ASSUME NEW b \in Backups, Begin(b) PROVE Kept
  <2>1. b \notin files
    BY <1>0, <1>2 DEF Begin, FilesAreWritten
  <2>2. \A c, d \in files : Newer(c, d) => Newer(c, d)'
    BY <1>0, <1>2, <2>1 DEF Begin, Newer, TypeOK
  <2> QED
    BY <1>1, <1>2, <2>2 DEF Begin, Goto, Steps
<1>3. ASSUME NEW b \in Backups, Die(b) \/ Pruned(b) PROVE Kept
  <2>1. \A c, d \in files : Newer(c, d) => Newer(c, d)'
    BY <1>3 DEF Die, Pruned, Newer
  <2>2. UNCHANGED <<files, verdict>> /\ Forget(b)
    BY <1>3 DEF Die, Pruned
  <2>3. \A p \in Backups \ {b} : /\ disturbed'[p] = disturbed[p] /\ listed'[p] = listed[p]
                                 /\ doomed'[p] = doomed[p]
    BY <1>0, <2>2 DEF Forget, TypeOK
  <2>4. PICK s \in {"dead", "done"} : job' = [job EXCEPT ![b] = s]
    BY <1>3 DEF Die, Pruned, Goto
  <2> QED
    BY <1>1, <2>1, <2>2, <2>3, <2>4 DEF Steps
<1>4. ASSUME NEW b \in Backups, NEW s \in {"record", "finish", "list"},
             job' = [job EXCEPT ![b] = s] \/ UNCHANGED job,
             \A p \in Backups : job[p] \in Pruning /\ job'[p] = job[p] => disturbed'[p],
             doomed' = doomed
      PROVE  Kept
  <2>1. \A p \in Backups : job'[p] \in Pruning => job[p] = job'[p]
    BY <1>0, <1>4 DEF TypeOK, Pruning
  <2>2. \A p \in Backups : job'[p] \in Pruning => disturbed'[p]
    BY <1>4, <2>1
  <2> QED
    BY <1>0, <1>4, <2>1, <2>2 DEF ListIsCurrent, PlanHolds, OwnIsSpared, Pruning
<1>5. ASSUME NEW b \in Backups, Publish(b) \/ Record(b) \/ Finish(b) PROVE Kept
  <2>1. PICK s \in {"record", "finish", "list"} : job' = [job EXCEPT ![b] = s]
    BY <1>5 DEF Publish, Record, Finish, Goto
  <2>2. doomed' = doomed /\ Disturb(b) /\ job[b] \notin Pruning
    BY <1>5 DEF Publish, Record, Finish, Pruning
  <2>3. \A p \in Backups : job[p] \in Pruning => disturbed'[p]
    BY <2>2 DEF Disturb
  <2> QED
    BY <1>4, <2>1, <2>2, <2>3
<1>6. ASSUME NEW b \in Backups, Validate(b) PROVE Kept
  <2>1. \A p \in Backups : job[p] \in Pruning => disturbed'[p]
    BY <1>6 DEF Validate
  <2>2. job' = job /\ doomed' = doomed
    BY <1>6 DEF Validate
  <2> QED
    BY <1>4, <2>1, <2>2
<1>7. ASSUME NEW b \in Backups, List(b) \/ Judge(b) PROVE Kept
  <2>1. /\ UNCHANGED <<files, stamp, verdict, disturbed>>
        /\ \A p \in Backups \ {b} : /\ job'[p] = job[p] /\ listed'[p] = listed[p]
                                   /\ doomed'[p] = doomed[p]
    BY <1>0, <1>7 DEF List, Judge, Goto, TypeOK
  <2>2. /\ List(b) => job'[b] = "judge" /\ listed'[b] = files
        /\ Judge(b) => job'[b] = "remove"
    BY <1>0, <1>7 DEF List, Judge, Goto, TypeOK
  <2>3. Judge(b) => /\ ~ disturbed[b] => Plan(b)'
                    /\ b \in Streams => b \notin doomed'[b]
    BY JudgeStep
  <2>4. ListIsCurrent'
    BY <1>0, <1>7, <2>1, <2>2 DEF ListIsCurrent
  <2>5. OwnIsSpared'
    BY <1>0, <1>7, <2>1, <2>2, <2>3 DEF OwnIsSpared
  <2>6. ASSUME NEW p \in Backups, job'[p] = "remove", ~ disturbed'[p] PROVE Plan(p)'
    <3>1. CASE p = b
      BY <1>7, <2>1, <2>2, <2>3, <2>6, <3>1
    <3>2. CASE p # b
      <4>1. Plan(p) /\ doomed'[p] = doomed[p] /\ files' = files /\ verdict' = verdict
        BY <1>0, <2>1, <2>6, <3>2 DEF PlanHolds
      <4>2. Left(p)' = Left(p) /\ doomed'[p] \subseteq files'
        BY <4>1 DEF Left, Plan
      <4>3. \A c, d \in files : Newer(d, c) => Newer(d, c)'
        BY <2>1 DEF Newer
      <4> QED
        BY <4>1, <4>2, <4>3, PlanStays
    <3> QED
      BY <3>1, <3>2
  <2> QED
    BY <2>4, <2>5, <2>6 DEF PlanHolds
<1>8. ASSUME NEW b \in Backups, Remove(b) PROVE Kept
  <2> DEFINE gone == Oldest(doomed[b])
  <2>1. /\ job[b] = "remove" /\ UNCHANGED <<job, stamp, verdict, clock, listed, checks>>
        /\ doomed' = [doomed EXCEPT ![b] = doomed[b] \ {gone}]
    BY <1>8 DEF Remove
  <2>2. gone \in doomed[b]
    BY <1>0, <1>8, SomeOldest DEF Remove, TypeOK
  <2>3. /\ doomed'[b] = doomed[b] \ {gone}
        /\ \A p \in Backups \ {b} : doomed'[p] = doomed[p]
    BY <1>0, <2>1 DEF TypeOK
  <2>4. \/ /\ files' = files \ {gone}
           /\ \A p \in Backups : disturbed'[p] = (disturbed[p] \/ (p # b /\ job[p] \in Pruning))
        \/ /\ disturbed' = [disturbed EXCEPT ![b] = TRUE] /\ files' = files
    BY <1>8 DEF Remove, Disturb
  <2> HIDE DEF gone
  <2>5. ListIsCurrent'
    BY <1>0, <2>1, <2>4 DEF ListIsCurrent, Pruning, TypeOK
  <2>6. OwnIsSpared'
    BY <1>0, <2>1, <2>3 DEF OwnIsSpared
  <2>7. ASSUME NEW p \in Backups, job'[p] = "remove", ~ disturbed'[p] PROVE Plan(p)'
    <3>1. /\ job[p] = "remove" /\ ~ disturbed[p]
          /\ IF p = b THEN files' = files \ {gone} ELSE files' = files
      BY <1>0, <2>1, <2>4, <2>7 DEF Pruning, TypeOK
    <3>2. Plan(p)
      BY <1>0, <3>1 DEF PlanHolds
    <3>3. /\ Left(p)' = Left(p) /\ doomed'[p] \subseteq doomed[p]
          /\ doomed'[p] \subseteq files'
      BY <2>2, <2>3, <3>1, <3>2 DEF Left, Plan
    <3>4. \A c, d \in files : Newer(d, c) => Newer(d, c)'
      BY <2>1 DEF Newer
    <3> QED
      BY <2>1, <3>2, <3>3, <3>4, PlanStays
  <2> QED
    BY <2>5, <2>6, <2>7 DEF PlanHolds
<1>9. CASE UNCHANGED vars
  BY <1>0, <1>9
  DEF vars, ListIsCurrent, PlanHolds, OwnIsSpared, Plan, Left, Passed, Counted, Newer
<1> QED
  BY <1>2, <1>3, <1>5, <1>6, <1>7, <1>8, <1>9 DEF Next, Take, Prune
-----------------------------------------------------------------------------
(* The invariant holds of every reachable state.                             *)
LEMMA FolderInvariant ==
    ASSUME FolderAssumption PROVE Spec => []FolderInv
<1>1. Init => FolderInv
  <2> SUFFICES ASSUME Init PROVE FolderInv
    OBVIOUS
  <2>1. TypeOK
    BY DEF Init, TypeOK, Steps, FolderAssumption
  <2>2. FilesAreWritten
    BY FS_EmptySet DEF Init, FilesAreWritten
  <2>3. TimesDiffer /\ ListIsCurrent /\ PlanHolds /\ OwnIsSpared
    BY DEF Init, TimesDiffer, ListIsCurrent, PlanHolds, OwnIsSpared, FolderAssumption
  <2> QED
    BY <2>1, <2>2, <2>3 DEF FolderInv
<1>2. FolderInv /\ [Next]_vars => FolderInv'
  <2> SUFFICES ASSUME FolderInv, [Next]_vars PROVE FolderInv'
    OBVIOUS
  <2>1. TypeOK' /\ FilesAreWritten' /\ TimesDiffer'
    BY TimesStep DEF FolderInv
  <2>2. ListIsCurrent' /\ PlanHolds' /\ OwnIsSpared'
    BY <2>1, PlansStep
  <2> QED
    BY <2>1, <2>2 DEF FolderInv
<1> QED
  BY <1>1, <1>2, PTL DEF Spec

(* What a prune removes is one file that it had marked; what it leaves stays. *)
LEMMA RemovalStep ==
    ASSUME FolderInv, [Next]_vars, NEW p \in Backups, NEW b \in Backups, Removes(p, b)
    PROVE  /\ b \in doomed[p] /\ job[p] = "remove"
           /\ files' = files \ {b} /\ Left(p) \subseteq files'
<1>1. job[p] = "remove" /\ doomed[p] # {} /\ b = Oldest(doomed[p]) /\ b \in files /\ b \notin files'
  BY DEF Removes
<1>2. b \in doomed[p]
  BY <1>1, SomeOldest DEF FolderInv, TypeOK
<1>3. files' = files \ {b}
  <2>1. \E q \in Backups : files' = files \ {Oldest(doomed[q])}
    BY <1>1 DEF Next, vars, Take, Prune, Begin, Publish, Record, Finish, Die, List, Judge, Remove,
               Pruned, Validate
  <2> QED
    BY <1>1, <2>1
<1> QED
  BY <1>1, <1>2, <1>3 DEF Left

(* Whatever the number of backups, of streams beside them and of             *)
(* validations: retention that nothing disturbed removes a backup that       *)
(* passed verification only when a newer one that passed stays.              *)
THEOREM NewestVerifiedKeptAlways ==
    ASSUME FolderAssumption PROVE Spec => NewestVerifiedKept
<1>1. ASSUME FolderInv, [Next]_vars, NEW p \in Backups, NEW b \in Backups,
             Removes(p, b), ~ disturbed[p], verdict[b] = "passed"
      PROVE  \E c \in Passed(files') : Newer(c, b)
  <2>1. b \in doomed[p] /\ job[p] = "remove" /\ Left(p) \subseteq files'
    BY <1>1, RemovalStep
  <2>2. PICK c \in Passed(Left(p)) : Newer(c, b)
    BY <1>1, <2>1 DEF FolderInv, PlanHolds, Plan
  <2> QED
    BY <2>1, <2>2 DEF Passed
<1>2. FolderInv /\ [Next]_vars => [SparesNewestVerified]_vars
  BY <1>1 DEF SparesNewestVerified
<1> QED
  BY <1>2, FolderInvariant, PTL DEF Spec, NewestVerifiedKept

(* For every keep: the panel's retention, undisturbed, removes a backup that *)
(* has not failed only when keep others that have not failed stay.           *)
THEOREM PlacesAreKeptAlways ==
    ASSUME FolderAssumption PROVE Spec => PlacesAreKept
<1>1. ASSUME FolderInv, [Next]_vars, NEW p \in Backups \ Streams, NEW b \in Backups,
             Removes(p, b), ~ disturbed[p], verdict[b] # "failed"
      PROVE  Cardinality(Counted(files')) >= Keep
  <2>1. b \in doomed[p] /\ job[p] = "remove" /\ files' = files \ {b} /\ Left(p) \subseteq files'
    BY <1>1, RemovalStep
  <2>2. Cardinality(Counted(Left(p))) >= Keep
    BY <1>1, <2>1 DEF FolderInv, PlanHolds, Plan
  <2>3. Counted(Left(p)) \subseteq Counted(files')
    BY <2>1 DEF Counted
  <2>4. IsFiniteSet(Counted(files'))
    BY <1>1, <2>1, FS_Subset DEF FolderInv, FilesAreWritten, Counted
  <2>5. /\ IsFiniteSet(Counted(Left(p)))
        /\ Cardinality(Counted(Left(p))) <= Cardinality(Counted(files'))
    BY <2>3, <2>4, FS_Subset
  <2>6. Cardinality(Counted(Left(p))) \in Nat /\ Cardinality(Counted(files')) \in Nat
    BY <2>4, <2>5, FS_CardinalityType
  <2>7. Keep \in Nat
    BY DEF FolderAssumption
  <2> QED
    BY <2>2, <2>5, <2>6, <2>7
<1>2. FolderInv /\ [Next]_vars => [LeavesPlaces]_vars
  BY <1>1 DEF LeavesPlaces
<1> QED
  BY <1>2, FolderInvariant, PTL DEF Spec, PlacesAreKept

(* However many files a stream found, its retention, undisturbed, ends with  *)
(* no more than the limit of them in the folder.                             *)
THEOREM StreamLimitAlways ==
    ASSUME FolderAssumption PROVE Spec => StreamLimit
<1>1. ASSUME FolderInv, [Next]_vars, NEW p \in Streams,
             job[p] = "remove", job'[p] = "done", ~ disturbed[p]
      PROVE  Cardinality(files) <= Limit
  <2>0. p \in Backups
    BY DEF FolderAssumption
  <2>1. doomed[p] = {}
    <3>1. TypeOK
      BY <1>1 DEF FolderInv
    <3>2. ASSUME NEW b \in Backups, NEW s \in Steps \ {"done"}, job' = [job EXCEPT ![b] = s]
          PROVE  FALSE
      BY <1>1, <2>0, <3>1, <3>2 DEF TypeOK
    <3>3. job' # job
      BY <1>1
    <3>4. PICK b \in Backups : Pruned(b)
      BY <1>1, <3>2, <3>3
      DEF Next, vars, Take, Prune, Begin, Publish, Record, Finish, Die, List, Judge, Remove,
          Validate, Goto, Steps
    <3>5. b = p
      BY <1>1, <2>0, <3>1, <3>4 DEF Pruned, Goto, TypeOK
    <3> QED
      BY <3>4, <3>5 DEF Pruned
  <2>2. Left(p) = files
    BY <2>1 DEF Left
  <2> QED
    BY <1>1, <2>0, <2>2 DEF FolderInv, PlanHolds, Plan
<1>2. FolderInv /\ [Next]_vars => [EndsWithinLimit]_vars
  BY <1>1 DEF EndsWithinLimit
<1> QED
  BY <1>2, FolderInvariant, PTL DEF Spec, StreamLimit

(* A stream never removes the backup it has just written, also when it was   *)
(* disturbed and other backups are newer.                                    *)
THEOREM StreamKeepsItsOwnAlways ==
    ASSUME FolderAssumption PROVE Spec => StreamKeepsItsOwn
<1>1. ASSUME FolderInv, [Next]_vars, NEW p \in Streams, Removes(p, p)
      PROVE  FALSE
  <2>1. p \in Backups
    BY DEF FolderAssumption
  <2>2. p \in doomed[p] /\ job[p] = "remove"
    BY <1>1, <2>1, RemovalStep
  <2> QED
    BY <1>1, <2>2 DEF FolderInv, OwnIsSpared
<1>2. FolderInv /\ [Next]_vars => [SparesItsOwn]_vars
  BY <1>1 DEF SparesItsOwn
<1> QED
  BY <1>2, FolderInvariant, PTL DEF Spec, StreamKeepsItsOwn
=============================================================================
