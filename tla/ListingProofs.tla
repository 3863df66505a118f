---------------------------- MODULE ListingProofs ----------------------------
(***************************************************************************)
(* A directory listed with several calls while names come and go: nothing  *)
(* is missed, repeated or given for ever but for the reasons Listing says. *)
(* A handle's position counts entries, so the proofs are about ranks: how  *)
(* many entries come before one, among all entries, which is what the code *)
(* compares the position with, and among those short enough for a record.  *)
(***************************************************************************)
EXTENDS Listing, StepProofs

(* Ranks                                                                   *)

Low(S, p) == {i \in S : Rank(i, S) < p}
High(S, p) == {i \in S : Rank(i, S) >= p}

\* Ranks count from zero, and grow along the set.
LEMMA RankOrder ==
  ASSUME NEW S \in SUBSET Nat, IsFiniteSet(S)
  PROVE  /\ Cardinality(S) \in Nat
         /\ \A i \in Nat : Rank(i, S) \in Nat
         /\ \A i \in S : Rank(i, S) \in 0..(Cardinality(S) - 1)
         /\ \A i \in S, j \in Nat : i < j => Rank(i, S) < Rank(j, S)
<1> DEFINE Before(i) == {j \in S : j < i}
<1>1. ASSUME NEW i \in Nat
      PROVE  /\ IsFiniteSet(Before(i)) /\ Cardinality(Before(i)) \in Nat
             /\ Rank(i, S) = Cardinality(Before(i))
  <2>1. Before(i) \in SUBSET S OBVIOUS
  <2>2. IsFiniteSet(Before(i)) BY <2>1, FS_Subset
  <2> QED BY <2>2, FS_CardinalityType DEF Rank
<1>2. Cardinality(S) \in Nat BY FS_CardinalityType
<1>3. ASSUME NEW i \in S, NEW T, IsFiniteSet(T), Before(i) \subseteq T, i \in T
      PROVE  Rank(i, S) < Cardinality(T)
  <2>1. Before(i) \in SUBSET T /\ Before(i) # T BY <1>3
  <2> HIDE DEF Before
  <2>2. Cardinality(Before(i)) <= Cardinality(T) /\ Cardinality(Before(i)) # Cardinality(T)
    BY <1>3, <2>1, FS_Subset
  <2>3. Cardinality(T) \in Nat BY <1>3, FS_CardinalityType
  <2> QED BY <1>1, <2>2, <2>3
<1>4. ASSUME NEW i \in S PROVE Rank(i, S) \in 0..(Cardinality(S) - 1)
  <2>1. Rank(i, S) < Cardinality(S) BY <1>3
  <2>2. Rank(i, S) \in Nat BY <1>1
  <2> QED BY <1>2, <2>1, <2>2
<1>5. ASSUME NEW i \in S, NEW j \in Nat, i < j PROVE Rank(i, S) < Rank(j, S)
  <2>1. Before(i) \subseteq Before(j) /\ i \in Before(j)
    <3>1. \A k \in S : k \in Nat OBVIOUS
    <3>2. \A k \in S : k < i => k < j BY <1>5, <3>1
    <3> QED BY <1>5, <3>2
  <2>2. Rank(i, S) < Cardinality(Before(j)) BY <1>1, <1>3, <2>1
  <2> QED BY <1>1, <2>2
<1>6. \A i \in Nat : Rank(i, S) \in Nat BY <1>1
<1> QED BY <1>2, <1>4, <1>5, <1>6

\* A larger set makes no rank smaller.
LEMMA RankGrows ==
  ASSUME NEW T \in SUBSET Nat, IsFiniteSet(T), NEW S \in SUBSET T, NEW i
  PROVE  Rank(i, S) <= Rank(i, T)
<1> DEFINE A == {j \in S : j < i}
           B == {j \in T : j < i}
<1>1. A \in SUBSET B /\ B \in SUBSET T OBVIOUS
<1>2. Rank(i, S) = Cardinality(A) /\ Rank(i, T) = Cardinality(B) BY DEF Rank
<1> HIDE DEF A, B
<1>3. IsFiniteSet(B) BY <1>1, FS_Subset
<1> QED BY <1>1, <1>2, <1>3, FS_Subset

\* A set of p members or more has as many with a rank below p.
LEMMA LowAndHigh ==
  ASSUME NEW S \in SUBSET Nat, IsFiniteSet(S), NEW p \in Nat, p <= Cardinality(S)
  PROVE  /\ IsFiniteSet(Low(S, p)) /\ Cardinality(Low(S, p)) = p
         /\ IsFiniteSet(High(S, p)) /\ Cardinality(High(S, p)) = Cardinality(S) - p
<1> DEFINE lo == Low(S, p)
           hi == High(S, p)
           n == Cardinality(S)
<1>1. n \in Nat BY RankOrder
<1>2. lo \in SUBSET S /\ hi \in SUBSET S /\ lo \cup hi = S /\ lo \cap hi = {}
  <2>1. \A i \in S : Rank(i, S) \in Nat BY RankOrder
  <2>2. \A i \in S : Rank(i, S) < p \/ Rank(i, S) >= p BY <2>1
  <2>3. \A i \in S : ~(Rank(i, S) < p /\ Rank(i, S) >= p) BY <2>1
  <2> QED BY <2>2, <2>3 DEF Low, High
<1>3. IsFiniteSet(lo) /\ IsFiniteSet(hi) BY <1>2, FS_Subset
<1>4. Cardinality(lo) \in Nat /\ Cardinality(hi) \in Nat BY <1>3, FS_CardinalityType
<1>5. n = Cardinality(lo) + Cardinality(hi)
  <2>1. Cardinality({}) = 0 BY FS_EmptySet
  <2> HIDE DEF lo, hi
  <2>2. Cardinality(lo \cup hi) = Cardinality(lo) + Cardinality(hi) - Cardinality({})
    BY <1>2, <1>3, FS_Union
  <2>3. Cardinality(lo \cup hi) = n BY <1>2
  <2> HIDE DEF n
  <2> QED BY <1>4, <2>1, <2>2, <2>3
<1>6. ASSUME NEW X \in SUBSET S, NEW a \in Int, NEW b \in Int,
             \A i \in X : Rank(i, S) \in a..b
      PROVE  Cardinality(X) <= Cardinality(a..b)
  <2> DEFINE f == [i \in X |-> Rank(i, S)]
  <2>1. f \in [X -> a..b] BY <1>6
  <2>2. ASSUME NEW i \in X, NEW j \in X, f[i] = f[j] PROVE i = j
    <3>1. Rank(i, S) = Rank(j, S) /\ i \in S /\ j \in S /\ i \in Nat /\ j \in Nat
      BY <2>2
    <3>2. Rank(i, S) \in Nat BY <3>1, RankOrder
    <3>3. i < j => Rank(i, S) < Rank(j, S) BY <3>1, RankOrder
    <3>4. j < i => Rank(j, S) < Rank(i, S) BY <3>1, RankOrder
    <3> QED BY <3>1, <3>2, <3>3, <3>4
  <2>3. f \in Injection(X, a..b) BY <2>1, <2>2 DEF Injection, IsInjective
  <2> HIDE DEF f
  <2>4. IsFiniteSet(a..b) BY FS_Interval
  <2> QED BY <2>3, <2>4, FS_Injection
<1>7. Cardinality(lo) <= p
  <2>1. \A i \in lo : Rank(i, S) \in 0..(p - 1)
    <3>1. \A i \in S : Rank(i, S) \in Nat BY RankOrder
    <3> QED BY <3>1 DEF Low
  <2>2. Cardinality(0..(p - 1)) = p BY FS_Interval
  <2>3. 0 \in Int /\ p - 1 \in Int OBVIOUS
  <2> HIDE DEF lo
  <2>4. Cardinality(lo) <= Cardinality(0..(p - 1)) BY <1>2, <1>6, <2>1, <2>3
  <2> QED BY <2>2, <2>4
<1>8. Cardinality(hi) <= n - p
  <2>1. \A i \in hi : Rank(i, S) \in p..(n - 1)
    <3>1. \A i \in S : Rank(i, S) \in 0..(n - 1) BY RankOrder
    <3> QED BY <1>1, <3>1 DEF High
  <2>2. Cardinality(p..(n - 1)) = n - p
    <3>1. p \in Int /\ n - 1 \in Int /\ n - p = IF p > n - 1 THEN 0 ELSE (n - 1) - p + 1
      BY <1>1
    <3> HIDE DEF n
    <3> QED BY <3>1, FS_Interval
  <2>3. p \in Int /\ n - 1 \in Int BY <1>1
  <2> HIDE DEF hi, n
  <2>4. Cardinality(hi) <= Cardinality(p..(n - 1)) BY <1>2, <1>6, <2>1, <2>3
  <2> QED BY <2>2, <2>4
<1> HIDE DEF lo, hi, n
<1>9. Cardinality(lo) = p /\ Cardinality(hi) = n - p BY <1>1, <1>4, <1>5, <1>7, <1>8
<1> QED BY <1>3, <1>9 DEF lo, hi, n

-----------------------------------------------------------------------------
(* One call: of the members of S with a rank from p on, the short ones T   *)
(* among them, as many as there is room for                                *)

Taken(S, T, p, room) ==
  LET rest == {i \in T : Rank(i, S) >= p} IN {i \in rest : Rank(i, rest) < room}

\* What is taken is counted without passing the number of members, and ranks
\* below p + b among the short ones, b being how many are taken.
LEMMA TakenCounts ==
  ASSUME NEW S \in SUBSET Nat, IsFiniteSet(S), NEW T \in SUBSET S, NEW p \in Nat, NEW room \in Nat
  PROVE  LET B == Taken(S, T, p, room)
             b == Cardinality(B)
         IN /\ b \in Nat
            /\ b # 0 => p + b <= Cardinality(S)
            /\ \A i \in B : Rank(i, T) < p + b
<1> DEFINE R == {i \in T : Rank(i, S) >= p}
           B == {i \in R : Rank(i, R) < room}
           b == Cardinality(B)
<1>1. B = Taken(S, T, p, room) BY DEF Taken
<1>2. /\ R \in SUBSET High(S, p) /\ B \in SUBSET R /\ B \in SUBSET S /\ R \in SUBSET Nat
      /\ R \in SUBSET S
  BY DEF High
<1>3. IsFiniteSet(B) /\ b \in Nat BY <1>2, FS_Subset, FS_CardinalityType
<1>4. Cardinality(S) \in Nat /\ \A i \in S : Rank(i, S) \in Nat /\ Rank(i, S) < Cardinality(S)
  BY RankOrder
<1>5. ASSUME NEW i \in B PROVE p <= Cardinality(S) /\ p + b <= Cardinality(S)
  <2>1. i \in S /\ Rank(i, S) >= p BY <1>2, <1>5 DEF High
  <2>2. p <= Cardinality(S) BY <1>4, <2>1
  <2>3. IsFiniteSet(High(S, p)) /\ Cardinality(High(S, p)) = Cardinality(S) - p
    BY <2>2, LowAndHigh
  <2>4. B \in SUBSET High(S, p) BY <1>2
  <2> HIDE DEF B
  <2>5. b <= Cardinality(High(S, p)) BY <2>3, <2>4, FS_Subset
  <2> QED BY <1>3, <1>4, <2>2, <2>3, <2>5
<1>6. ASSUME NEW i \in B PROVE Rank(i, T) < p + b
  <2> DEFINE before == {j \in T : j < i}
             others == B \ {i}
  <2>1. IsFiniteSet(Low(S, p)) /\ Cardinality(Low(S, p)) = p BY <1>5, <1>6, LowAndHigh
  <2>2. IsFiniteSet(others) /\ Cardinality(others) = b - 1
    <3> HIDE DEF B
    <3> QED BY <1>3, <1>6, FS_RemoveElement
  <2>3. before \subseteq Low(S, p) \cup others
    <3> SUFFICES ASSUME NEW j \in T, j < i, j \notin Low(S, p) PROVE j \in others
      OBVIOUS
    <3>1. j \in S /\ Rank(j, S) \in Nat BY <1>4
    <3>2. j \in R BY <3>1 DEF Low
    <3>3. i \in R /\ Rank(i, R) < room BY <1>6
    <3> HIDE DEF R
    <3>4. IsFiniteSet(R) BY <1>2, FS_Subset
    <3>5. i \in Nat /\ j \in Nat /\ i # j BY <1>2, <3>2, <3>3
    <3>6. Rank(j, R) < Rank(i, R) /\ Rank(j, R) \in Nat /\ Rank(i, R) \in Nat
      BY <1>2, <3>2, <3>3, <3>4, <3>5, RankOrder
    <3>7. Rank(j, R) < room BY <3>3, <3>6
    <3> QED BY <3>2, <3>5, <3>7
  <2> DEFINE both == Low(S, p) \cup others
             meet == Low(S, p) \cap others
  <2>4. Rank(i, T) = Cardinality(before) BY DEF Rank
  <2> HIDE DEF others, before, B
  <2>5. /\ IsFiniteSet(both)
        /\ Cardinality(both) = p + (b - 1) - Cardinality(meet)
    BY <2>1, <2>2, FS_Union
  <2>6. Cardinality(meet) \in Nat
    <3>1. IsFiniteSet(meet) BY <2>1, FS_Subset
    <3> QED BY <3>1, FS_CardinalityType
  <2>7. Cardinality(before) <= Cardinality(both) /\ Cardinality(before) \in Nat
    BY <2>3, <2>5, FS_Subset, FS_CardinalityType
  <2> HIDE DEF both, meet, b
  <2> QED BY <1>3, <2>4, <2>5, <2>6, <2>7
<1>7. b # 0 => B # {} BY FS_EmptySet
<1> HIDE DEF B
<1>8. b # 0 => p + b <= Cardinality(S) BY <1>5, <1>7
<1> QED BY <1>1, <1>3, <1>6, <1>8

\* A short member that is not taken ranks p + b or more, if it ranked p.
LEMMA NotTaken ==
  ASSUME NEW S \in SUBSET Nat, IsFiniteSet(S), NEW T \in SUBSET S, NEW p \in Nat, NEW room \in Nat,
         NEW i \in T, Rank(i, S) >= p, i \notin Taken(S, T, p, room)
  PROVE  Rank(i, S) >= p + Cardinality(Taken(S, T, p, room))
<1> DEFINE R == {j \in T : Rank(j, S) >= p}
           B == {j \in R : Rank(j, R) < room}
           b == Cardinality(B)
           before == {j \in S : j < i}
<1>1. B = Taken(S, T, p, room) BY DEF Taken
<1>2. B \in SUBSET R /\ B \in SUBSET S /\ R \in SUBSET Nat /\ R \in SUBSET S OBVIOUS
<1>3. IsFiniteSet(B) /\ b \in Nat BY <1>2, FS_Subset, FS_CardinalityType
<1>4. /\ Cardinality(S) \in Nat
      /\ \A j \in S : Rank(j, S) \in Nat /\ Rank(j, S) < Cardinality(S)
  BY RankOrder
<1>5. i \in R /\ i \in S /\ i \in Nat OBVIOUS
<1>6. IsFiniteSet(R) BY <1>2, FS_Subset
<1>7. Rank(i, R) >= room
  <2>1. ~(Rank(i, R) < room) BY <1>1, <1>5
  <2>2. Rank(i, R) \in Nat
    <3> HIDE DEF R
    <3> QED BY <1>2, <1>5, <1>6, RankOrder
  <2> QED BY <2>1, <2>2
<1>8. B \subseteq before
  <2> SUFFICES ASSUME NEW j \in B PROVE j < i OBVIOUS
  <2>1. j \in R /\ Rank(j, R) < room /\ j \in Nat BY <1>2
  <2> HIDE DEF R
  <2>2. Rank(j, R) \in Nat /\ Rank(i, R) \in Nat BY <1>2, <1>5, <1>6, <2>1, RankOrder
  <2>3. i < j => Rank(i, R) < Rank(j, R) BY <1>2, <1>5, <1>6, <2>1, RankOrder
  <2> QED BY <1>5, <1>7, <2>1, <2>2, <2>3
<1>9. Low(S, p) \subseteq before
  <2> SUFFICES ASSUME NEW j \in S, Rank(j, S) < p PROVE j < i BY DEF Low
  <2>1. j \in Nat /\ Rank(j, S) \in Nat /\ Rank(i, S) \in Nat BY <1>4, <1>5
  <2>2. i < j => Rank(i, S) < Rank(j, S) BY <1>5, <2>1, RankOrder
  <2> QED BY <1>5, <2>1, <2>2
<1>10. Low(S, p) \cap B = {}
  <2> SUFFICES ASSUME NEW j \in B, Rank(j, S) < p PROVE FALSE BY DEF Low
  <2>1. j \in S /\ Rank(j, S) >= p OBVIOUS
  <2> QED BY <1>4, <2>1
<1>11. IsFiniteSet(Low(S, p)) /\ Cardinality(Low(S, p)) = p
  <2>1. p <= Cardinality(S) BY <1>4, <1>5
  <2> QED BY <2>1, LowAndHigh
<1>12. Rank(i, S) = Cardinality(before) /\ before \in SUBSET S BY DEF Rank
<1> HIDE DEF B, R, before
<1> DEFINE both == Low(S, p) \cup B
<1>13. Cardinality(both) = p + b
  <2>1. Cardinality(both) = p + b - Cardinality(Low(S, p) \cap B)
    BY <1>3, <1>11, FS_Union
  <2>2. Cardinality(Low(S, p) \cap B) = 0 BY <1>10, FS_EmptySet
  <2> HIDE DEF both, b
  <2> QED BY <1>3, <2>1, <2>2
<1>14. both \in SUBSET before BY <1>8, <1>9
<1>15. IsFiniteSet(before) /\ Cardinality(before) \in Nat BY <1>12, FS_Subset, FS_CardinalityType
<1> HIDE DEF both
<1>16. Cardinality(both) <= Cardinality(before) BY <1>14, <1>15, FS_Subset
<1> QED BY <1>1, <1>3, <1>12, <1>13, <1>15, <1>16

\* With room for one, none are taken only where there are none.
LEMMA NoneTaken ==
  ASSUME NEW S \in SUBSET Nat, IsFiniteSet(S), NEW T \in SUBSET S, NEW p \in Nat,
         NEW room \in Nat \ {0}, Taken(S, T, p, room) = {}, NEW i \in T
  PROVE  Rank(i, S) < p
<1> DEFINE R == {j \in T : Rank(j, S) >= p}
<1>1. R \in SUBSET Nat /\ R \in SUBSET S OBVIOUS
<1>2. Taken(S, T, p, room) = {j \in R : Rank(j, R) < room} BY DEF Taken
<1>3. Rank(i, S) \in Nat BY RankOrder
<1>4. SUFFICES ASSUME R # {} PROVE FALSE BY <1>3
<1> HIDE DEF R
<1>5. IsFiniteSet(R) BY <1>1, FS_Subset
<1>6. Min(R) \in R /\ \A j \in R : Min(R) <= j BY <1>1, <1>4, MinOfNats
<1>7. {j \in R : j < Min(R)} = {}
  <2>1. \A j \in R : j \in Nat /\ Min(R) \in Nat BY <1>1, <1>6
  <2> QED BY <1>6, <2>1
<1>8. Rank(Min(R), R) = 0 BY <1>7, FS_EmptySet DEF Rank
<1> QED BY <1>2, <1>6, <1>8

-----------------------------------------------------------------------------
(* The invariant                                                           *)

Entry == Nat \X Path
ListingRecord ==
  [ino : Nat, stayed : SUBSET Entry, returned : SUBSET Entry, given : Nat,
   added : BOOLEAN, removed : BOOLEAN]

ShortSlots(ino) == {i \in EntrySlots(ino) : FileName(path_map[i].key) \notin LongName}
Handles(fd) == {open_files[i].val : i \in SlotsOf(open_files, fd)}

\* Whoever holds the handle of a listing is where the listing is.
AtGiven(fd, l) ==
  /\ l.given <= PathMapCap
  /\ \A h \in Handles(fd) : h.inode_number = l.ino /\ h.position = l.given

\* Until an entry is added, what was returned and is still there is behind the
\* position; until one is removed, what was there all along and has not been
\* returned is ahead of it.
Behind(l) ==
  ~l.added => \A e \in l.returned \cap Entries[l.ino] :
                Rank(e[1], ShortSlots(l.ino)) < l.given
Ahead(l) ==
  ~l.removed => \A e \in l.stayed \ l.returned :
                  FileName(e[2]) \notin LongName => Rank(e[1], EntrySlots(l.ino)) >= l.given

ListingOK(fd, l) ==
  /\ l \in ListingRecord
  /\ fd \in DOMAIN fd_table
  /\ l.ino \in 0..(Len(inodes) - 1)
  /\ l.stayed \subseteq Entries[l.ino]
  /\ AtGiven(fd, l) /\ Behind(l) /\ Ahead(l)

ListingInv == \A fd \in DOMAIN listings : ListingOK(fd, listings[fd])

\* The slots of the entries there are.
LEMMA EntryFacts ==
  ASSUME IInv, NEW ino
  PROVE  /\ EntrySlots(ino) \in SUBSET Nat /\ IsFiniteSet(EntrySlots(ino))
         /\ Cardinality(EntrySlots(ino)) \in Nat
         /\ Cardinality(EntrySlots(ino)) <= PathMapCap
         /\ ShortSlots(ino) \in SUBSET EntrySlots(ino)
         /\ \A i \in EntrySlots(ino) : path_map[i].key \in Path
         /\ EntriesOf(EntrySlots(ino)) \in SUBSET Entry
<1>1. IsMap(path_map, PathMapCap, Path, Nat) BY DEF IInv, PathsOK
<1>2. EntrySlots(ino) \in SUBSET (1..PathMapCap) /\ EntrySlots(ino) \in SUBSET DOMAIN path_map
  BY <1>1 DEF EntrySlots, IsMap
<1>3. PathMapCap \in Nat /\ 1 \in Int /\ PathMapCap \in Int BY FsAssumption
<1>4. IsFiniteSet(1..PathMapCap) /\ Cardinality(1..PathMapCap) = PathMapCap
  BY <1>3, FS_Interval
<1>5. /\ IsFiniteSet(EntrySlots(ino)) /\ Cardinality(EntrySlots(ino)) \in Nat
      /\ Cardinality(EntrySlots(ino)) <= PathMapCap
  BY <1>2, <1>4, FS_Subset, FS_CardinalityType
<1>6. \A i \in EntrySlots(ino) : i \in Nat /\ path_map[i].key \in Path
  BY <1>1, <1>2, <1>3 DEF IsMap
<1>7. ShortSlots(ino) \in SUBSET EntrySlots(ino) BY DEF ShortSlots
<1>8. EntriesOf(EntrySlots(ino)) \in SUBSET Entry BY <1>6 DEF EntriesOf, Entry
<1> QED BY <1>5, <1>6, <1>7, <1>8

\* The same after a step.
LEMMA EntryFactsNext ==
  ASSUME IInv', NEW ino
  PROVE  /\ EntrySlots(ino)' \in SUBSET Nat /\ IsFiniteSet(EntrySlots(ino)')
         /\ ShortSlots(ino)' \in SUBSET EntrySlots(ino)'
<1>1. IsMap(path_map', PathMapCap, Path, Nat) BY DEF IInv, PathsOK
<1>2. EntrySlots(ino)' \in SUBSET (1..PathMapCap) BY <1>1 DEF EntrySlots, IsMap
<1>3. PathMapCap \in Nat /\ 1 \in Int /\ PathMapCap \in Int BY FsAssumption
<1>4. IsFiniteSet(1..PathMapCap) BY <1>3, FS_Interval
<1>5. IsFiniteSet(EntrySlots(ino)') BY <1>2, <1>4, FS_Subset
<1>6. ShortSlots(ino)' \in SUBSET EntrySlots(ino)' BY DEF ShortSlots
<1> QED BY <1>2, <1>3, <1>5, <1>6

\* A slot and its entry.
LEMMA EntryOfSlot ==
  ASSUME NEW ino \in 0..(Len(inodes) - 1), NEW e \in Entries[ino]
  PROVE  e[1] \in EntrySlots(ino) /\ e[2] = path_map[e[1]].key
  BY DEF Entries, EntriesOf

\* Nothing but the tables they are about changes what is said of a listing.
LEMMA SameListing ==
  ASSUME NEW fd, NEW l, ListingOK(fd, l), UNCHANGED <<inodes, path_map>>,
         fd \in DOMAIN fd_table', SameAt(open_files, open_files', fd)
  PROVE  ListingOK(fd, l)'
<1>1. Handles(fd)' = Handles(fd) BY DEF Handles, SameAt
<1>2. Entries' = Entries /\ EntrySlots(l.ino)' = EntrySlots(l.ino)
      /\ ShortSlots(l.ino)' = ShortSlots(l.ino)
  BY DEF Entries, EntriesOf, EntrySlots, DirPrefix, NameSlots, ShortSlots
<1> QED BY <1>1, <1>2 DEF ListingOK, AtGiven, Behind, Ahead

-----------------------------------------------------------------------------
(* One lemma for each kind of step                                         *)

\* insert() of an absent key: the pair, or nothing.
LEMMA InsertedAlone ==
  ASSUME NEW cap \in Nat, NEW m, NEW k, NEW v, ~HasKey(m, k),
         NEW i \in SlotsOf(Insert(cap, m, k, v), k)
  PROVE  Insert(cap, m, k, v)[i].val = v
<1>1. CASE Insert(cap, m, k, v) = m BY <1>1 DEF HasKey
<1>2. ASSUME NEW s, Insert(cap, m, k, v) = PutAt(m, s, k, v)
      PROVE  Insert(cap, m, k, v)[i].val = v
  <2> DEFINE p == PutAt(m, s, k, v)
  <2>1. /\ DOMAIN p = DOMAIN m \cup {s}
        /\ p[s] = [key |-> k, val |-> v]
        /\ \A x \in DOMAIN m \ {s} : p[x] = m[x]
    BY DEF PutAt
  <2> HIDE DEF p
  <2>2. \A x \in DOMAIN m : m[x].key # k BY DEF HasKey, SlotsOf
  <2>3. i \in DOMAIN p /\ p[i].key = k BY <1>2 DEF SlotsOf, p
  <2>4. i = s BY <2>1, <2>2, <2>3
  <2> QED BY <1>2, <2>1, <2>4 DEF p
<1> QED BY <1>1, <1>2, InsertCases

\* The invariant holds after a step if it does of every listing there is then.
LEMMA ListingsAfter ==
  ASSUME \A fd \in DOMAIN listings' : \E l : l = listings'[fd] /\ ListingOK(fd, l)'
  PROVE  ListingInv'
  BY DEF ListingInv, ListingOK, AtGiven, Behind, Ahead

\* A step that changes none of what the invariant is about keeps it.
LEMMA QuietListings ==
  ASSUME ListingInv, UNCHANGED <<inodes, path_map, fd_table, open_files, listings>>
  PROVE  ListingInv'
<1>1. \A d : SameAt(open_files, open_files', d) BY DEF SameAt
<1>2. \A d, l : ListingOK(d, l) => ListingOK(d, l)'
  <2>1. ASSUME NEW d, NEW l, ListingOK(d, l) PROVE d \in DOMAIN fd_table'
    BY <2>1 DEF ListingOK
  <2> QED BY <1>1, <2>1, SameListing
<1> QED BY <1>2, ListingsAfter DEF ListingInv

\* A directory opened: a descriptor at its start, or none.
LEMMA DirectoryOpened ==
  ASSUME NEW path, Open(path, {}, {}), Known(path), NEW ino, ino = InodeOf(path)
  PROVE  /\ UNCHANGED <<inodes, path_map>>
         /\ \/ last'.val = -1 /\ UNCHANGED <<fd_table, open_files>>
            \/ \E fd : /\ FreeFds # {} /\ fd = AllocateFd /\ last'.val = fd
                       /\ fd_table' = FdTableWith(fd, ino)
                       /\ open_files' = Insert(OpenFilesCap, open_files, fd,
                                               NewHandle(ino, 0, FALSE))
<1>1. UNCHANGED <<inodes, path_map>> /\ OpenDescriptor(path, ino, files', {})
  BY DEF Open, OpenMissing, OpenExisting, OpenCreating
<1>2. CASE FreeFds = {} BY <1>1, <1>2 DEF OpenDescriptor, Returns
<1>3. CASE FreeFds # {}
  <2>1. PICK fd : fd = AllocateFd OBVIOUS
  <2> DEFINE position == IF "O_APPEND" \in {} THEN DataLen(files', ino) ELSE 0
             append == "O_APPEND" \in {}
  <2>2. position = 0 /\ append = FALSE OBVIOUS
  <2>3. /\ fd_table' = FdTableWith(fd, ino)
        /\ open_files' = Insert(OpenFilesCap, open_files, fd, NewHandle(ino, position, append))
        /\ last'.val = fd
    BY <1>1, <1>3, <2>1 DEF OpenDescriptor, Returns
  <2> HIDE DEF position, append
  <2> QED BY <1>1, <1>3, <2>1, <2>2, <2>3
<1> QED BY <1>2, <1>3

\* A new listing has everything ahead of it and nothing behind.
LEMMA BeginStep ==
  ASSUME IInv, ListingInv, NEW path \in PathArg, BeginListing(path)
  PROVE  ListingInv'
<1>1. path \in Path /\ Known(path) /\ Open(path, {}, {}) BY ArgAssumption DEF BeginListing
<1>2. PICK ino \in Nat : ino = InodeOf(path) /\ InodeExists(ino)
  BY <1>1, LookupExists DEF IInv
<1>3. UNCHANGED <<inodes, path_map>> BY <1>1, <1>2, DirectoryOpened
<1>4. IsMap(open_files, OpenFilesCap, Fd, Handle) /\ OpenFilesCap \in Nat
  BY ProcAssumption DEF IInv, DescriptorsOK
<1>5. CASE last'.val = -1 /\ UNCHANGED <<fd_table, open_files>>
  <2>1. listings' = listings BY <1>5 DEF BeginListing
  <2> QED BY <1>3, <1>5, <2>1, QuietListings
<1>6. ASSUME NEW fd, FreeFds # {}, fd = AllocateFd, last'.val = fd,
             fd_table' = FdTableWith(fd, ino),
             open_files' = Insert(OpenFilesCap, open_files, fd, NewHandle(ino, 0, FALSE))
      PROVE  ListingInv'
  <2>1. fd \notin DOMAIN fd_table /\ ~HasKey(open_files, fd) /\ fd \in Nat
    <3>1. fd \notin DOMAIN fd_table /\ ~HasKey(open_files, fd) BY <1>6, AllocatedIsFree DEF IInv
    <3>2. FreeFds \in SUBSET Nat BY DEF FreeFds
    <3> QED BY <1>6, <3>1, <3>2, MinOfNats DEF AllocateFd
  <2>2. PICK h : h = NewHandle(ino, 0, FALSE) OBVIOUS
  <2>3. h.inode_number = ino /\ h.position = 0 BY <2>2 DEF NewHandle
  <2>4. PICK new : new = NewListing(ino) OBVIOUS
  <2>5. listings' = [d \in DOMAIN listings \cup {fd} |-> IF d = fd THEN new ELSE listings[d]]
    BY <1>2, <1>6, <2>1, <2>4 DEF BeginListing
  <2>6. ASSUME NEW d, NEW l, ListingOK(d, l) PROVE ListingOK(d, l)' /\ d # fd
    <3>1. d \in DOMAIN fd_table BY <2>6 DEF ListingOK
    <3>2. d # fd BY <2>1, <3>1
    <3>3. SameAt(open_files, open_files', d) BY <1>4, <1>6, <3>2, InsertKeepsOthers
    <3>4. d \in DOMAIN fd_table' BY <1>6, <3>1 DEF FdTableWith
    <3> QED BY <1>3, <2>6, <3>2, <3>3, <3>4, SameListing
  <2>7. ListingOK(fd, new)'
    <3>1. ino \in 0..(Len(inodes) - 1) /\ Len(inodes) \in Nat
      BY <1>2, LenProperties DEF InodeExists, IInv, InodesOK
    <3>2. Entries[ino] = EntriesOf(EntrySlots(ino)) BY <3>1 DEF Entries
    <3>3. /\ new \in ListingRecord /\ new.ino = ino /\ new.given = 0
          /\ new.stayed = Entries[ino] /\ new.returned = {}
      BY <1>2, <2>4, <3>2, EntryFacts DEF NewListing, ListingRecord
    <3>4. Entries' = Entries /\ EntrySlots(ino)' = EntrySlots(ino)
      BY <1>3 DEF Entries, EntriesOf, EntrySlots, DirPrefix, NameSlots
    <3>5. ASSUME NEW i \in SlotsOf(open_files', fd) PROVE open_files'[i].val = h
      <4>1. open_files' = Insert(OpenFilesCap, open_files, fd, h) BY <1>6, <2>2
      <4>2. i \in SlotsOf(Insert(OpenFilesCap, open_files, fd, h), fd) BY <3>5, <4>1
      <4>3. Insert(OpenFilesCap, open_files, fd, h)[i].val = h
        BY <1>4, <2>1, <4>2, InsertedAlone
      <4> QED BY <4>1, <4>3
    <3>6. AtGiven(fd, new)' BY <2>3, <3>3, <3>5, FsAssumption DEF AtGiven, Handles
    <3>7. Behind(new)' BY <3>3 DEF Behind
    <3>8. Ahead(new)'
      <4>1. \A e \in Entries[ino] : e[1] \in Nat BY <3>1, EntryOfSlot, EntryFacts
      <4>2. \A i \in Nat : Rank(i, EntrySlots(ino)) \in Nat BY EntryFacts, RankOrder
      <4>3. \A e \in Entries[ino] : Rank(e[1], EntrySlots(ino)) >= 0 BY <4>1, <4>2
      <4>4. \A e \in new.stayed : Rank(e[1], EntrySlots(new.ino)') >= new.given
        BY <3>3, <3>4, <4>3
      <4> QED BY <4>4 DEF Ahead
    <3>9. fd \in DOMAIN fd_table' BY <1>6 DEF FdTableWith
    <3> QED BY <1>3, <3>1, <3>3, <3>4, <3>6, <3>7, <3>8, <3>9 DEF ListingOK
  <2> QED
    <3> SUFFICES ASSUME NEW d \in DOMAIN listings'
                 PROVE  \E l : l = listings'[d] /\ ListingOK(d, l)'
      BY ListingsAfter
    <3>1. CASE d = fd BY <2>5, <2>7, <3>1
    <3>2. CASE d # fd
      <4>1. d \in DOMAIN listings /\ listings'[d] = listings[d] BY <2>5, <3>2
      <4>2. PICK l : l = listings[d] /\ ListingOK(d, l) BY <4>1 DEF ListingInv
      <4> QED BY <2>6, <4>1, <4>2
    <3> QED BY <3>1, <3>2
<1> QED BY <1>1, <1>2, <1>5, <1>6, DirectoryOpened

\* A listing ends, and the descriptor with it.
LEMMA EndStep ==
  ASSUME IInv, ListingInv, NEW fd, EndListing(fd)
  PROVE  ListingInv'
<1>1. UNCHANGED <<inodes, path_map>> BY DEF EndListing, Close, Fails
<1>2. IsMap(open_files, OpenFilesCap, Fd, Handle) /\ OpenFilesCap \in Nat
  BY ProcAssumption DEF IInv, DescriptorsOK
<1>3. ASSUME NEW d \in DOMAIN listings'
      PROVE  d \in DOMAIN listings /\ d # fd /\ listings'[d] = listings[d]
  BY DEF EndListing, Restrict
<1>4. ASSUME NEW d \in DOMAIN fd_table, d # fd
      PROVE  d \in DOMAIN fd_table' /\ SameAt(open_files, open_files', d)
  <2>1. CASE UNCHANGED <<fd_table, open_files>> BY <2>1 DEF SameAt
  <2>2. CASE /\ fd_table' = Restrict(fd_table, DOMAIN fd_table \ {fd})
             /\ open_files' = Remove(open_files, fd)
    <3>1. d \in DOMAIN fd_table' BY <1>4, <2>2 DEF Restrict
    <3>2. SameAt(open_files, open_files', d) BY <1>2, <1>4, <2>2, RemoveKeepsOthers
    <3> QED BY <3>1, <3>2
  <2> QED BY <2>1, <2>2 DEF EndListing, Close, Fails
<1> SUFFICES ASSUME NEW d \in DOMAIN listings'
             PROVE  \E l : l = listings'[d] /\ ListingOK(d, l)'
  BY ListingsAfter
<1>5. PICK l : l = listings[d] /\ ListingOK(d, l) BY <1>3 DEF ListingInv
<1>6. d \in DOMAIN fd_table BY <1>5 DEF ListingOK
<1>7. d \in DOMAIN fd_table' /\ SameAt(open_files, open_files', d) BY <1>3, <1>4, <1>6
<1>8. ListingOK(d, l)' BY <1>1, <1>5, <1>7, SameListing
<1> QED BY <1>3, <1>5, <1>8

\* The slots of a directory are those its entries name.
EntrySets(E, S, T) ==
  /\ S = {e[1] : e \in E}
  /\ T = {e[1] : e \in {d \in E : FileName(d[2]) \notin LongName}}

LEMMA SlotsOfEntries ==
  ASSUME NEW ino
  PROVE  /\ ino \in 0..(Len(inodes) - 1) =>
              EntrySets(Entries[ino], EntrySlots(ino), ShortSlots(ino))
         /\ ino \in 0..(Len(inodes') - 1) =>
              EntrySets(Entries'[ino], EntrySlots(ino)', ShortSlots(ino)')
<1> DEFINE Sets(E, S, T, m) ==
             (E = {<<i, m[i].key>> : i \in S} /\ T = {i \in S : FileName(m[i].key) \notin LongName})
               => EntrySets(E, S, T)
<1>1. ASSUME NEW E, NEW S, NEW T, NEW m PROVE Sets(E, S, T, m)
  <2> SUFFICES ASSUME E = {<<i, m[i].key>> : i \in S},
                      T = {i \in S : FileName(m[i].key) \notin LongName}
               PROVE  EntrySets(E, S, T)
    OBVIOUS
  <2>1. \A e \in E : e[1] \in S /\ e = <<e[1], m[e[1]].key>> /\ e[2] = m[e[1]].key OBVIOUS
  <2>2. \A i \in S : <<i, m[i].key>> \in E OBVIOUS
  <2>3. S = {e[1] : e \in E} BY <2>1, <2>2
  <2>4. T = {e[1] : e \in {d \in E : FileName(d[2]) \notin LongName}} BY <2>1, <2>2
  <2> QED BY <2>3, <2>4 DEF EntrySets
<1>2. ASSUME ino \in 0..(Len(inodes) - 1)
      PROVE  /\ Entries[ino] = {<<i, path_map[i].key>> : i \in EntrySlots(ino)}
             /\ ShortSlots(ino) = {i \in EntrySlots(ino) : FileName(path_map[i].key) \notin LongName}
  BY <1>2 DEF Entries, EntriesOf, ShortSlots
<1>3. ASSUME ino \in 0..(Len(inodes') - 1)
      PROVE  /\ Entries'[ino] = {<<i, path_map'[i].key>> : i \in EntrySlots(ino)'}
             /\ ShortSlots(ino)' = {i \in EntrySlots(ino)' : FileName(path_map'[i].key) \notin LongName}
  BY <1>3 DEF Entries, EntriesOf, ShortSlots
<1>4. ino \in 0..(Len(inodes) - 1) => EntrySets(Entries[ino], EntrySlots(ino), ShortSlots(ino))
  BY <1>1, <1>2
<1>5. ino \in 0..(Len(inodes') - 1) =>
        EntrySets(Entries'[ino], EntrySlots(ino)', ShortSlots(ino)')
  BY <1>1, <1>3
<1> QED BY <1>4, <1>5

\* Entries that only go make no rank among the short ones larger, entries that
\* only come make none among all smaller.
LEMMA DisturbStep ==
  ASSUME IInv, ListingInv, IInv', Grows, Disturb
  PROVE  ListingInv'
<1>1. UNCHANGED <<fd_table, open_files>>
  BY DEF Disturb, Rename, Link, Unlink, Rmdir, Mkdir, InsertDirectoryEntry, Fails
<1>2. Len(inodes) \in Nat /\ Len(inodes') \in Nat /\ Len(inodes) <= Len(inodes')
  BY LenProperties DEF Grows, IInv, InodesOK
<1> SUFFICES ASSUME NEW fd \in DOMAIN listings'
             PROVE  \E l : l = listings'[fd] /\ ListingOK(fd, l)'
  BY ListingsAfter
<1>3. fd \in DOMAIN listings /\ listings'[fd] = Changed(listings[fd]) BY DEF Disturb
<1>4. PICK l : l = listings[fd] /\ ListingOK(fd, l) BY <1>3 DEF ListingInv
<1>5. PICK ino : ino = l.ino OBVIOUS
<1>6. /\ l \in ListingRecord /\ fd \in DOMAIN fd_table /\ ino \in 0..(Len(inodes) - 1)
      /\ l.stayed \subseteq Entries[ino] /\ AtGiven(fd, l) /\ Behind(l) /\ Ahead(l)
  BY <1>4, <1>5 DEF ListingOK
<1>7. ino \in 0..(Len(inodes') - 1) BY <1>2, <1>6
<1>8. PICK E, E2, S, S2, T, T2 : /\ E = Entries[ino] /\ E2 = Entries'[ino]
                                 /\ S = EntrySlots(ino) /\ S2 = EntrySlots(ino)'
                                 /\ T = ShortSlots(ino) /\ T2 = ShortSlots(ino)'
  OBVIOUS
<1>9. EntrySets(E, S, T) /\ EntrySets(E2, S2, T2) BY <1>6, <1>7, <1>8, SlotsOfEntries
<1>10. /\ S \in SUBSET Nat /\ IsFiniteSet(S) /\ T \in SUBSET S
       /\ S2 \in SUBSET Nat /\ IsFiniteSet(S2) /\ T2 \in SUBSET S2
  BY <1>8, EntryFacts, EntryFactsNext
<1>11. IsFiniteSet(T) /\ T \in SUBSET Nat BY <1>10, FS_Subset
<1>12. \A i \in Nat : Rank(i, S) \in Nat /\ Rank(i, S2) \in Nat /\ Rank(i, T) \in Nat
  BY <1>10, <1>11, RankOrder
<1>13. PICK k : k = Changed(l) OBVIOUS
<1>14. /\ k.ino = ino /\ k.given = l.given /\ k.returned = l.returned
       /\ k.stayed = l.stayed \cap E2
       /\ k.added = (l.added \/ ~(E2 \subseteq E))
       /\ k.removed = (l.removed \/ ~(E \subseteq E2))
       /\ k \in ListingRecord
  BY <1>5, <1>6, <1>8, <1>13 DEF Changed, ListingRecord
<1>15. AtGiven(fd, k)' BY <1>1, <1>5, <1>6, <1>14 DEF AtGiven, Handles
<1>16. ASSUME ~k.added, NEW e \in k.returned \cap E2 PROVE Rank(e[1], T2) < k.given
  <2>1. ~l.added /\ E2 \subseteq E BY <1>14, <1>16
  <2>2. e \in l.returned /\ e \in E BY <1>14, <1>16, <2>1
  <2>3. Rank(e[1], T) < l.given BY <1>5, <1>6, <1>8, <2>1, <2>2 DEF Behind
  <2>4. T2 \in SUBSET T BY <1>9, <2>1 DEF EntrySets
  <2>5. Rank(e[1], T2) <= Rank(e[1], T) BY <1>11, <2>4, RankGrows
  <2>6. e[1] \in Nat BY <1>9, <1>10, <2>2 DEF EntrySets
  <2>7. Rank(e[1], T2) \in Nat
    <3>1. IsFiniteSet(T2) /\ T2 \in SUBSET Nat BY <1>11, <2>4, FS_Subset
    <3> QED BY <2>6, <3>1, RankOrder
  <2>8. Rank(e[1], T) \in Nat /\ l.given \in Nat BY <1>6, <1>12, <2>6 DEF ListingRecord
  <2> QED BY <1>14, <2>3, <2>5, <2>7, <2>8
<1>17. ASSUME ~k.removed, NEW e \in k.stayed \ k.returned, FileName(e[2]) \notin LongName
       PROVE  Rank(e[1], S2) >= k.given
  <2>1. ~l.removed /\ E \subseteq E2 BY <1>14, <1>17
  <2>2. e \in l.stayed /\ e \notin l.returned /\ e \in E BY <1>6, <1>8, <1>14, <1>17
  <2>3. Rank(e[1], S) >= l.given BY <1>5, <1>6, <1>8, <1>17, <2>1, <2>2 DEF Ahead
  <2>4. S \in SUBSET S2 BY <1>9, <2>1 DEF EntrySets
  <2>5. Rank(e[1], S) <= Rank(e[1], S2) BY <1>10, <2>4, RankGrows
  <2>6. e[1] \in Nat BY <1>9, <1>10, <2>2 DEF EntrySets
  <2>7. Rank(e[1], S) \in Nat /\ Rank(e[1], S2) \in Nat /\ l.given \in Nat
    BY <1>6, <1>12, <2>6 DEF ListingRecord
  <2> QED BY <1>14, <2>3, <2>5, <2>7
<1>18. Behind(k)' BY <1>8, <1>14, <1>16 DEF Behind
<1>19. Ahead(k)' BY <1>8, <1>14, <1>17 DEF Ahead
<1>20. ListingOK(fd, k)'
  BY <1>1, <1>6, <1>7, <1>8, <1>14, <1>15, <1>18, <1>19 DEF ListingOK
<1> QED BY <1>3, <1>4, <1>13, <1>20

\* A handle that moves stays one of its inode.
LEMMA MovedOnItsInode ==
  ASSUME NEW handles, HandlesOK(handles), NEW fd, NEW i \in SlotsOf(handles, fd), NEW pos
  PROVE  Positioned(handles, fd, pos)[i].val.inode_number = handles[i].val.inode_number
<1>1. IsMap(handles, OpenFilesCap, Fd, Handle) /\ OpenFilesCap \in Nat /\ UniqueKeys(handles)
  BY ProcAssumption DEF HandlesOK
<1>2. HasKey(handles, fd) /\ i \in DOMAIN handles /\ handles[i].key = fd
  BY DEF HasKey, SlotsOf
<1>3. Min(SlotsOf(handles, fd)) = i BY <1>1, <1>2, FirstSlot DEF UniqueKeys
<1>4. handles[i] \in [key : Fd, val : Handle] BY <1>1, <1>2 DEF IsMap
<1>5. Get(handles, fd) = handles[i].val BY <1>3 DEF Get
<1>6. Positioned(handles, fd, pos)
        = [handles EXCEPT ![i].val = [handles[i].val EXCEPT !.position = pos]]
  BY <1>2, <1>3, <1>5 DEF Positioned, Update
<1> QED BY <1>2, <1>4, <1>6 DEF Handle

\* There are as many entries as slots that hold them.
LEMMA EntriesCounted ==
  ASSUME NEW B, IsFiniteSet(B)
  PROVE  Cardinality(EntriesOf(B)) = Cardinality(B)
<1> DEFINE f == [i \in B |-> <<i, path_map[i].key>>]
           E == EntriesOf(B)
<1>1. f \in [B -> E] BY DEF EntriesOf
<1>2. \A i, j \in B : f[i] = f[j] => i = j OBVIOUS
<1>3. \A e \in E : \E i \in B : f[i] = e BY DEF EntriesOf
<1> HIDE DEF f, E
<1>4. f \in Bijection(B, E)
  BY <1>1, <1>2, <1>3 DEF Bijection, Injection, Surjection, IsInjective
<1>5. Cardinality(E) = Cardinality(B)
  <2>1. ExistsBijection(B, E) BY <1>4 DEF ExistsBijection
  <2> QED BY <2>1, FS_Bijection
<1> QED BY <1>5 DEF E

\* What a call of getdents returns and moves, for a listing under way.
LEMMA ListedIsTaken ==
  ASSUME NEW fd, NEW room, NEW l, l.given \in Nat, AtGiven(fd, l), HasKey(open_files, fd),
         HandleAt(fd) \in Handles(fd)
  PROVE  Listed(fd, room) = Taken(EntrySlots(l.ino), ShortSlots(l.ino), l.given, room)
<1>1. HandleAt(fd).inode_number = l.ino /\ HandleAt(fd).position = l.given BY DEF AtGiven
<1>2. AsUsize(l.given) = l.given
  <2>1. l.given < UsizeMod
    BY FsAssumption, IOAssumption, ListingAssumption DEF AtGiven
  <2> QED BY <2>1, IOAssumption DEF AsUsize
<1> DEFINE entries == EntrySlots(l.ino)
           rest == {i \in entries : /\ Rank(i, entries) >= l.given
                                    /\ FileName(path_map[i].key) \notin LongName}
           rest2 == {i \in ShortSlots(l.ino) : Rank(i, entries) >= l.given}
<1>3. Listed(fd, room) = {i \in rest : Rank(i, rest) < room} BY <1>1, <1>2, Zenon DEF Listed
<1>4. rest = rest2 BY DEF ShortSlots
<1>5. Taken(EntrySlots(l.ino), ShortSlots(l.ino), l.given, room)
        = {i \in rest2 : Rank(i, rest2) < room}
  BY Zenon DEF Taken
<1> QED BY <1>3, <1>4, <1>5

\* The next entries: the position passes them, and none that it should not.
LEMMA ContinueStep ==
  ASSUME IInv, ListingInv, NEW fd, NEW room \in Nat, Continue(fd, room)
  PROVE  ListingInv'
<1>1. UNCHANGED <<inodes, path_map, fd_table>> BY DEF Continue, Getdents, Fails
<1>2. HandlesOK(open_files) BY HandlesOfDescriptors DEF IInv
<1> SUFFICES ASSUME NEW d \in DOMAIN listings'
             PROVE  \E l : l = listings'[d] /\ ListingOK(d, l)'
  BY ListingsAfter
<1>3. d \in DOMAIN listings BY DEF Continue
<1>4. PICK l : l = listings[d] /\ ListingOK(d, l) BY <1>3 DEF ListingInv
<1>5. d \in DOMAIN fd_table' BY <1>1, <1>4 DEF ListingOK
<1>6. CASE Fails("getdents", <<>>)
  <2>1. UNCHANGED open_files /\ listings' = listings BY <1>6 DEF Fails, Returns, Continue
  <2>2. ListingOK(d, l)' BY <1>1, <1>4, <1>5, <2>1, SameListing DEF SameAt
  <2> QED BY <1>4, <2>1, <2>2
<1>7. CASE ~Fails("getdents", <<>>)
  <2>1. PICK B : B = Listed(fd, room) OBVIOUS
  <2>2. PICK n : n = Cardinality(B) OBVIOUS
  <2>3. PICK p : p = HandleAt(fd).position OBVIOUS
  <2>4. /\ HasKey(open_files, fd)
        /\ open_files' = Positioned(open_files, fd, p + n)
        /\ last'.val = n
    BY <1>7, <2>1, <2>2, <2>3 DEF Continue, Getdents, Counted, Returns
  <2>5. CASE d # fd
    <3>1. SameAt(open_files, open_files', d) BY <1>2, <2>4, <2>5, PositionSet
    <3>2. ListingOK(d, l)' BY <1>1, <1>4, <1>5, <3>1, SameListing
    <3>3. listings'[d] = listings[d] BY <1>3, <2>5 DEF Continue
    <3> QED BY <1>4, <3>2, <3>3
  <2>6. CASE d = fd
    <3>1. PICK ino : ino = l.ino OBVIOUS
    <3>2. /\ l \in ListingRecord /\ ino \in 0..(Len(inodes) - 1)
          /\ l.stayed \subseteq Entries[ino] /\ AtGiven(fd, l) /\ Behind(l) /\ Ahead(l)
          /\ l.given \in Nat /\ l.given <= PathMapCap
      BY <1>4, <2>6, <3>1 DEF ListingOK, AtGiven, ListingRecord
    <3>3. PICK i \in SlotsOf(open_files, fd) : TRUE BY <2>4 DEF HasKey
    <3>4. HandleAt(fd) \in Handles(fd)
      BY <1>2, <3>3, HandleMoved DEF Handles, HandleAt
    <3>5. p = l.given BY <2>3, <3>2, <3>4 DEF AtGiven
    <3>6. PICK E, S, T : E = Entries[ino] /\ S = EntrySlots(ino) /\ T = ShortSlots(ino)
      OBVIOUS
    <3>7. EntrySets(E, S, T) /\ E = EntriesOf(S)
      BY <3>2, <3>6, SlotsOfEntries DEF Entries
    <3>8. /\ S \in SUBSET Nat /\ IsFiniteSet(S) /\ T \in SUBSET S
          /\ Cardinality(S) \in Nat /\ Cardinality(S) <= PathMapCap /\ E \in SUBSET Entry
      BY <3>6, <3>7, EntryFacts
    <3>9. B = Taken(S, T, p, room)
      BY <2>1, <2>4, <3>1, <3>2, <3>4, <3>5, <3>6, ListedIsTaken
    <3>10. /\ n \in Nat /\ (n # 0 => p + n <= Cardinality(S))
           /\ \A j \in B : Rank(j, T) < p + n
      BY <2>2, <3>2, <3>5, <3>8, <3>9, TakenCounts
    <3>11. B \in SUBSET T /\ IsFiniteSet(B)
      <4>1. B \in SUBSET T BY <3>9 DEF Taken
      <4> QED BY <3>8, <4>1, FS_Subset
    <3>12. PICK R : R = EntriesOf(B) OBVIOUS
    <3>13. Cardinality(R) = n BY <2>2, <3>11, <3>12, EntriesCounted
    <3>14. PICK k : k = listings'[fd] OBVIOUS
    <3>15. R \in SUBSET E /\ (n = 0 => R = {})
      <4>1. R \in SUBSET E BY <3>7, <3>8, <3>11, <3>12 DEF EntriesOf
      <4>2. n = 0 => B = {} BY <2>2, <3>11, FS_EmptySet
      <4> QED BY <3>12, <4>1, <4>2 DEF EntriesOf
    <3>16. /\ k.ino = ino /\ k.given = p + n /\ k.returned = l.returned \cup R
           /\ k.stayed = l.stayed /\ k.added = l.added /\ k.removed = l.removed
           /\ k \in ListingRecord
      <4>1. R \in SUBSET Entry BY <3>8, <3>15
      <4>2. CASE n = 0
        <5>1. k = l BY <1>4, <2>4, <2>6, <3>14, <4>2 DEF Continue
        <5> QED BY <3>1, <3>2, <3>5, <3>15, <4>2, <5>1
      <4>3. CASE n > 0
        <5>1. k = Returned(l, R)
          BY <1>3, <1>4, <2>1, <2>4, <2>6, <3>12, <3>14, <4>3 DEF Continue, Batch
        <5>2. k = [l EXCEPT !.returned = l.returned \cup R, !.given = p + n]
          BY <3>5, <3>13, <5>1 DEF Returned
        <5>3. PICK U, g : U = l.returned \cup R /\ g = p + n OBVIOUS
        <5>4. l.returned \in SUBSET Entry BY <3>2 DEF ListingRecord
        <5>5. U \in SUBSET Entry /\ g \in Nat BY <3>2, <3>5, <3>10, <4>1, <5>3, <5>4
        <5>6. k = [l EXCEPT !.returned = U, !.given = g] BY <5>2, <5>3
        <5>7. /\ k.ino = l.ino /\ k.given = g /\ k.returned = U /\ k.stayed = l.stayed
              /\ k.added = l.added /\ k.removed = l.removed /\ k \in ListingRecord
          BY <3>2, <5>5, <5>6 DEF ListingRecord
        <5> QED BY <3>1, <5>3, <5>7
      <4> QED BY <3>10, <4>2, <4>3
    <3>17. AtGiven(fd, k)'
      <4>1. k.given <= PathMapCap BY <3>2, <3>5, <3>8, <3>10, <3>16, FsAssumption
      <4>2. ASSUME NEW j \in SlotsOf(open_files', fd)
            PROVE  open_files'[j].val.inode_number = ino /\ open_files'[j].val.position = p + n
        <5>1. j \in SlotsOf(open_files, fd) BY <1>2, <2>4, <4>2, PositionSet
        <5>2. open_files[j].val.inode_number = ino
          BY <3>1, <3>2, <5>1 DEF AtGiven, Handles
        <5> QED BY <1>2, <2>4, <5>1, <5>2, HandleMoved, MovedOnItsInode
      <4> QED BY <3>16, <4>1, <4>2 DEF AtGiven, Handles
    <3>18. Entries'[ino] = E /\ EntrySlots(ino)' = S /\ ShortSlots(ino)' = T
      BY <1>1, <3>6 DEF Entries, EntriesOf, EntrySlots, DirPrefix, NameSlots, ShortSlots
    <3>19. Behind(k)'
      <4>1. ASSUME ~l.added, NEW e \in (l.returned \cup R) \cap E PROVE Rank(e[1], T) < p + n
        <5>1. CASE e \in l.returned
          <6>1. Rank(e[1], T) < p BY <3>1, <3>2, <3>5, <3>6, <4>1, <5>1 DEF Behind
          <6>2. e[1] \in Nat BY <3>7, <3>8 DEF EntrySets
          <6>3. Rank(e[1], T) \in Nat
            <7>1. IsFiniteSet(T) /\ T \in SUBSET Nat BY <3>8, FS_Subset
            <7> QED BY <6>2, <7>1, RankOrder
          <6> QED BY <3>2, <3>5, <3>10, <6>1, <6>3
        <5>2. CASE e \in R
          <6>1. e[1] \in B BY <3>12, <5>2 DEF EntriesOf
          <6> QED BY <3>10, <6>1
        <5> QED BY <4>1, <5>1, <5>2
      <4> QED BY <3>16, <3>18, <4>1 DEF Behind
    <3>20. Ahead(k)'
      <4>1. ASSUME ~l.removed, NEW e \in l.stayed \ (l.returned \cup R),
                   FileName(e[2]) \notin LongName
            PROVE  Rank(e[1], S) >= p + n
        <5>1. Rank(e[1], S) >= p BY <3>1, <3>2, <3>5, <3>6, <4>1 DEF Ahead
        <5>2. e \in E BY <3>2, <3>6, <4>1
        <5>3. e[1] \in T BY <3>7, <4>1, <5>2 DEF EntrySets
        <5>4. e[1] \notin B
          <6>1. e = <<e[1], path_map[e[1]].key>> BY <3>7, <5>2 DEF EntriesOf
          <6> QED BY <3>12, <4>1, <6>1 DEF EntriesOf
        <5> QED BY <2>2, <3>2, <3>5, <3>8, <3>9, <5>1, <5>3, <5>4, NotTaken
      <4> QED BY <3>16, <3>18, <4>1 DEF Ahead
    <3>21. ListingOK(fd, k)'
      BY <1>1, <1>5, <2>6, <3>2, <3>6, <3>16, <3>17, <3>18, <3>19, <3>20 DEF ListingOK
    <3> QED BY <2>6, <3>14, <3>21
  <2> QED BY <2>5, <2>6
<1> QED BY <1>6, <1>7

-----------------------------------------------------------------------------
(* The theorems                                                            *)

\* The invariant is inductive, together with that of Vfs.
LEMMA ListingInvStep ==
  IInv /\ ListingInv /\ [ListingStep]_listingVars => IInv' /\ ListingInv'
<1> SUFFICES ASSUME IInv, ListingInv, [ListingStep]_listingVars PROVE IInv' /\ ListingInv'
  OBVIOUS
<1>1. CASE UNCHANGED listingVars
  <2>1. UNCHANGED vars BY <1>1 DEF listingVars
  <2>2. IInv' BY <2>1, InvariantStep
  <2>3. UNCHANGED <<inodes, path_map, fd_table, open_files, listings>>
    BY <1>1, <2>1 DEF listingVars, vars
  <2> QED BY <2>2, <2>3, QuietListings
<1>2. ASSUME NEW path \in PathArg, BeginListing(path) PROVE IInv' /\ ListingInv'
  <2>1. path \in Path /\ Open(path, {}, {}) BY <1>2, ArgAssumption DEF BeginListing
  <2> QED BY <1>2, <2>1, OpenStep, BeginStep
<1>3. ASSUME NEW fd \in FdArg, EndListing(fd) PROVE IInv' /\ ListingInv'
  BY <1>3, CloseStep, EndStep DEF EndListing
<1>4. ASSUME NEW fd \in FdArg, NEW room \in CountArg, Continue(fd, room)
      PROVE  IInv' /\ ListingInv'
  <2>1. room \in Nat BY ArgAssumption
  <2> QED BY <1>4, <2>1, GetdentsStep, ContinueStep DEF Continue
<1>5. CASE Disturb
  <2>1. NamespaceNext BY <1>5 DEF Disturb, NamespaceNext
  <2>2. IInv' /\ Grows BY <2>1, InvariantStep DEF Next
  <2> QED BY <1>5, <2>2, DisturbStep
<1> QED BY <1>1, <1>2, <1>3, <1>4, <1>5 DEF ListingStep

LEMMA ListingInvariant == ListingSpec => [](IInv /\ ListingInv)
<1>1. ListingInit => IInv /\ ListingInv
  BY InvariantInit DEF ListingInit, ListingInv
<1> QED BY <1>1, ListingInvStep, PTL DEF ListingSpec

\* A listing never returns more entries than the path table has slots, however
\* the names change between its calls.
THEOREM ListingsEnd == ListingSpec => []ListingIsBounded
<1>1. ListingInv => ListingIsBounded BY DEF ListingInv, ListingIsBounded, ListingOK, AtGiven
<1> QED BY <1>1, ListingInvariant, PTL

\* In a call of getdents: the listing l, the slots S of the directory's entries,
\* T of the short ones, and B of those it takes.
InACall(fd, room, l, S, T, B) ==
  /\ l = listings[fd] /\ ListingOK(fd, l) /\ l.given \in Nat
  /\ S = EntrySlots(l.ino) /\ T = ShortSlots(l.ino)
  /\ EntrySets(Entries[l.ino], S, T)
  /\ S \in SUBSET Nat /\ IsFiniteSet(S) /\ T \in SUBSET S
  /\ B = Listed(fd, room) /\ B = Taken(S, T, l.given, room)
  /\ last'.val = Cardinality(B) /\ IsFiniteSet(B)
  /\ EntriesOf(B) \in SUBSET Entries[l.ino]

LEMMA ListingCall ==
  ASSUME IInv, ListingInv, NEW fd \in DOMAIN listings, NEW room \in Nat,
         Continue(fd, room), last'.val # -1
  PROVE  \E l, S, T, B : InACall(fd, room, l, S, T, B)
<1>1. PICK l : l = listings[fd] /\ ListingOK(fd, l) BY DEF ListingInv
<1>2. /\ l.given \in Nat /\ AtGiven(fd, l) /\ l.ino \in 0..(Len(inodes) - 1)
  BY <1>1 DEF ListingOK, ListingRecord
<1>3. PICK S, T, B : S = EntrySlots(l.ino) /\ T = ShortSlots(l.ino) /\ B = Listed(fd, room)
  OBVIOUS
<1>4. HasKey(open_files, fd) /\ last'.val = Cardinality(B)
  BY <1>3 DEF Continue, Getdents, Fails, Returns
<1>5. PICK i \in SlotsOf(open_files, fd) : TRUE BY <1>4 DEF HasKey
<1>6. HandleAt(fd) \in Handles(fd)
  BY <1>5, HandlesOfDescriptors, HandleMoved DEF Handles, HandleAt, IInv
<1>7. B = Taken(S, T, l.given, room) BY <1>2, <1>3, <1>4, <1>6, ListedIsTaken
<1>8. EntrySets(Entries[l.ino], S, T) BY <1>2, <1>3, SlotsOfEntries
<1>9. S \in SUBSET Nat /\ IsFiniteSet(S) /\ T \in SUBSET S BY <1>3, EntryFacts
<1>10. B \in SUBSET T BY <1>7 DEF Taken
<1>11. IsFiniteSet(B) BY <1>9, <1>10, FS_Subset
<1>12. EntriesOf(B) \in SUBSET Entries[l.ino]
  BY <1>2, <1>3, <1>9, <1>10 DEF EntriesOf, Entries
<1> QED BY <1>1, <1>2, <1>3, <1>4, <1>7, <1>8, <1>9, <1>11, <1>12 DEF InACall

\* An entry that was there all along and has not been returned is ahead of the
\* position, and when nothing is returned, nothing is.
THEOREM NoneMissed == ListingSpec => NoneMissedUnlessRemoved
<1> DEFINE A == last'.call = "getdents" =>
                  \A fd \in DOMAIN listings, room \in CountArg \ {0} :
                    Continue(fd, room) /\ last'.val = 0 /\ ~listings[fd].removed =>
                      \A e \in listings[fd].stayed \ listings[fd].returned :
                        FileName(e[2]) \in LongName
<1>1. IInv /\ ListingInv /\ [ListingStep]_listingVars => [A]_listingVars
  <2> SUFFICES ASSUME IInv, ListingInv,
                      NEW fd \in DOMAIN listings, NEW room \in CountArg \ {0},
                      Continue(fd, room), last'.val = 0, ~listings[fd].removed,
                      NEW e \in listings[fd].stayed \ listings[fd].returned,
                      FileName(e[2]) \notin LongName
               PROVE  FALSE
    OBVIOUS
  <2>1. room \in Nat \ {0} BY ArgAssumption
  <2>2. PICK l, S, T, B : InACall(fd, room, l, S, T, B)
    BY <2>1, ListingCall
  <2>3. B = {} BY <2>2, FS_EmptySet DEF InACall
  <2>4. e \in Entries[l.ino] /\ Rank(e[1], S) >= l.given BY <2>2 DEF InACall, ListingOK, Ahead
  <2>5. e[1] \in T BY <2>2, <2>4 DEF InACall, EntrySets
  <2>6. Rank(e[1], S) < l.given BY <2>1, <2>2, <2>3, <2>5, NoneTaken DEF InACall
  <2>7. Rank(e[1], S) \in Nat /\ l.given \in Nat BY <2>2, <2>5, RankOrder DEF InACall
  <2> QED BY <2>4, <2>6, <2>7
<1> QED BY <1>1, ListingInvariant, PTL DEF ListingSpec, NoneMissedUnlessRemoved

\* An entry with no long name before it ranks among the short ones as it does
\* among all.
LEMMA SameRank ==
  ASSUME NEW E, NEW S, NEW T, EntrySets(E, S, T), T \subseteq S, NEW i,
         \A e \in E : e[1] < i => FileName(e[2]) \notin LongName
  PROVE  Rank(i, S) = Rank(i, T)
<1>1. ASSUME NEW j \in S, j < i PROVE j \in T
  <2>1. PICK e \in E : j = e[1] BY DEF EntrySets
  <2> QED BY <1>1, <2>1 DEF EntrySets
<1>2. {j \in S : j < i} = {j \in T : j < i} BY <1>1
<1> QED BY <1>2 DEF Rank

\* An entry that is returned is not behind the position; as long as none was
\* added, what was returned before is, unless a long name comes before it.
THEOREM NoneRepeated == ListingSpec => NoneRepeatedUnlessAdded
<1> DEFINE A == last'.call = "getdents" =>
                  \A fd \in DOMAIN listings, room \in CountArg :
                    Continue(fd, room) /\ last'.val > 0 /\ ~listings[fd].added =>
                      \A e \in Batch(fd, room) \cap listings[fd].returned :
                        \E d \in Entries[listings[fd].ino] :
                          d[1] < e[1] /\ FileName(d[2]) \in LongName
<1>1. IInv /\ ListingInv /\ [ListingStep]_listingVars => [A]_listingVars
  <2> SUFFICES ASSUME IInv, ListingInv,
                      NEW fd \in DOMAIN listings, NEW room \in CountArg,
                      Continue(fd, room), last'.val > 0, ~listings[fd].added,
                      NEW e \in Batch(fd, room), e \in listings[fd].returned,
                      \A d \in Entries[listings[fd].ino] :
                        d[1] < e[1] => FileName(d[2]) \notin LongName
               PROVE  FALSE
    OBVIOUS
  <2>1. room \in Nat BY ArgAssumption
  <2>2. last'.val # -1 OBVIOUS
  <2>3. PICK l, S, T, B : InACall(fd, room, l, S, T, B)
    BY <2>1, <2>2, ListingCall
  <2>4. e \in Entries[l.ino] /\ e[1] \in B BY <2>3 DEF InACall, Batch, EntriesOf
  <2>5. Rank(e[1], T) < l.given BY <2>3, <2>4 DEF InACall, ListingOK, Behind
  <2>6. Rank(e[1], S) >= l.given /\ e[1] \in S BY <2>3, <2>4 DEF InACall, Taken
  <2>7. Rank(e[1], S) = Rank(e[1], T) BY <2>3, SameRank DEF InACall
  <2>8. Rank(e[1], S) \in Nat /\ l.given \in Nat BY <2>3, <2>6, RankOrder DEF InACall
  <2> QED BY <2>5, <2>6, <2>7, <2>8
<1> QED BY <1>1, ListingInvariant, PTL DEF ListingSpec, NoneRepeatedUnlessAdded
=============================================================================
