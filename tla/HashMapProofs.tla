---------------------------- MODULE HashMapProofs ----------------------------
(***************************************************************************)
(* What insert, get_mut and remove leave in a slot vector, for every       *)
(* capacity and every set of keys and values.                              *)
(***************************************************************************)
EXTENDS HashMap, WellFoundedInduction, FiniteSetTheorems, TLAPS

\* A nonempty set of naturals has a minimum, and Min is it: the first slot
\* that answers a search exists.
LEMMA MinOfNats ==
  ASSUME NEW S \in SUBSET Nat, S # {}
  PROVE  Min(S) \in S /\ \A x \in S : Min(S) <= x
<1> DEFINE R == {ss \in Nat \X Nat : ss[1] < ss[2]}
<1>1. IsWellFoundedOn(R, Nat)
  BY NatLessThanWellFounded DEF OpToRel
<1>2. PICK x \in S : \A y \in S : <<y, x>> \notin R
  <2> HIDE DEF R
  <2> QED BY <1>1, WFMin
<1>3. ASSUME NEW y \in S PROVE x <= y
  <2>1. <<y, x>> \in Nat \X Nat BY <1>2, <1>3
  <2>2. ~(y < x) BY <1>2, <1>3, <2>1
  <2> QED BY <2>1, <2>2
<1> QED BY <1>2, <1>3 DEF Min

\* The first slot of a present key is a slot that holds it.
LEMMA FirstSlot ==
  ASSUME NEW cap \in Nat, NEW K, NEW V, NEW m, IsMap(m, cap, K, V),
         NEW k, HasKey(m, k)
  PROVE  /\ Min(SlotsOf(m, k)) \in DOMAIN m
         /\ m[Min(SlotsOf(m, k))].key = k
         /\ Get(m, k) \in V
<1>1. SlotsOf(m, k) \in SUBSET Nat BY DEF SlotsOf, IsMap
<1>2. Min(SlotsOf(m, k)) \in SlotsOf(m, k) BY <1>1, MinOfNats DEF HasKey
<1> QED BY <1>2 DEF SlotsOf, IsMap, Get

\* Where a fresh pair ends up, seen slot by slot.
LEMMA PutAtProperties ==
  ASSUME NEW cap \in Nat, NEW K, NEW V, NEW m, IsMap(m, cap, K, V),
         NEW i \in 1..cap, NEW k \in K, NEW v \in V
  PROVE  /\ IsMap(PutAt(m, i, k, v), cap, K, V)
         /\ DOMAIN PutAt(m, i, k, v) = DOMAIN m \cup {i}
         /\ PutAt(m, i, k, v)[i] = [key |-> k, val |-> v]
         /\ \A j \in DOMAIN m \ {i} : PutAt(m, i, k, v)[j] = m[j]
  BY DEF PutAt, IsMap

\* insert() writes the pair into one slot, vacant or holding the key, or does
\* nothing because every slot holds another key.
LEMMA InsertCases ==
  ASSUME NEW cap \in Nat, NEW m, NEW k, NEW v
  PROVE  \/ /\ Insert(cap, m, k, v) = m
            /\ Full(cap, m) /\ ~ \E i \in 1..cap : m[i].key = k
         \/ \E i \in 1..cap : /\ i \in DOMAIN m => m[i].key = k
                              /\ Insert(cap, m, k, v) = PutAt(m, i, k, v)
<1>1. CASE StopSlots(cap, m, k) = {}
  BY <1>1 DEF Insert, StopSlots, Full
<1>2. CASE StopSlots(cap, m, k) # {}
  <2>1. StopSlots(cap, m, k) \in SUBSET Nat BY DEF StopSlots
  <2>2. Min(StopSlots(cap, m, k)) \in StopSlots(cap, m, k) BY <1>2, <2>1, MinOfNats
  <2> QED BY <1>2, <2>2 DEF Insert, StopSlots
<1> QED BY <1>1, <1>2

\* insert() keeps a map a map, and every slot of the result is as it was or
\* holds the new pair; slots of other keys stay where they are.
LEMMA InsertProperties ==
  ASSUME NEW cap \in Nat, NEW K, NEW V, NEW m, IsMap(m, cap, K, V),
         NEW k \in K, NEW v \in V
  PROVE  LET r == Insert(cap, m, k, v) IN
         /\ IsMap(r, cap, K, V)
         /\ DOMAIN m \subseteq DOMAIN r
         /\ \A i \in DOMAIN r : \/ i \in DOMAIN m /\ r[i] = m[i]
                                \/ r[i] = [key |-> k, val |-> v]
         /\ \A i \in DOMAIN m : m[i].key # k => r[i] = m[i]
<1>1. CASE Insert(cap, m, k, v) = m BY <1>1
<1>2. ASSUME NEW i \in 1..cap, i \in DOMAIN m => m[i].key = k,
             Insert(cap, m, k, v) = PutAt(m, i, k, v)
      PROVE  LET r == Insert(cap, m, k, v) IN
             /\ IsMap(r, cap, K, V)
             /\ DOMAIN m \subseteq DOMAIN r
             /\ \A j \in DOMAIN r : \/ j \in DOMAIN m /\ r[j] = m[j]
                                    \/ r[j] = [key |-> k, val |-> v]
             /\ \A j \in DOMAIN m : m[j].key # k => r[j] = m[j]
  <2> DEFINE p == PutAt(m, i, k, v)
  <2>1. /\ IsMap(p, cap, K, V)
        /\ DOMAIN p = DOMAIN m \cup {i}
        /\ p[i] = [key |-> k, val |-> v]
        /\ \A j \in DOMAIN m \ {i} : p[j] = m[j]
    BY PutAtProperties
  <2> HIDE DEF p
  <2>2. Insert(cap, m, k, v) = p BY <1>2 DEF p
  <2> QED BY <1>2, <2>1, <2>2
<1> QED BY <1>1, <1>2, InsertCases

\* Inserting a key the map lacks cannot give a key two slots.
LEMMA InsertAbsentUnique ==
  ASSUME NEW cap \in Nat, NEW K, NEW V, NEW m, IsMap(m, cap, K, V),
         NEW k \in K, NEW v \in V, UniqueKeys(m), ~HasKey(m, k)
  PROVE  UniqueKeys(Insert(cap, m, k, v))
<1>1. CASE Insert(cap, m, k, v) = m BY <1>1
<1>2. ASSUME NEW i \in 1..cap, i \in DOMAIN m => m[i].key = k,
             Insert(cap, m, k, v) = PutAt(m, i, k, v)
      PROVE  UniqueKeys(Insert(cap, m, k, v))
  <2>1. \A j \in DOMAIN m : m[j].key # k BY DEF HasKey, SlotsOf
  <2> DEFINE p == PutAt(m, i, k, v)
  <2>2. /\ DOMAIN p = DOMAIN m \cup {i}
        /\ p[i] = [key |-> k, val |-> v]
        /\ \A j \in DOMAIN m \ {i} : p[j] = m[j]
    BY DEF PutAt
  <2>3. i \notin DOMAIN m BY <1>2, <2>1
  <2> HIDE DEF p
  <2>4. UniqueKeys(p) BY <2>1, <2>2, <2>3 DEF UniqueKeys
  <2> QED BY <1>2, <2>4 DEF p
<1> QED BY <1>1, <1>2, InsertCases

\* An assignment through get_mut() touches one slot, and no key.
LEMMA UpdateProperties ==
  ASSUME NEW cap \in Nat, NEW K, NEW V, NEW m, IsMap(m, cap, K, V),
         NEW k, NEW v \in V
  PROVE  LET r == Update(m, k, v) IN
         /\ IsMap(r, cap, K, V)
         /\ DOMAIN r = DOMAIN m
         /\ \A i \in DOMAIN m : /\ r[i].key = m[i].key
                                /\ r[i] = m[i] \/ (m[i].key = k /\ r[i].val = v)
         /\ UniqueKeys(m) => UniqueKeys(r)
<1>1. CASE ~HasKey(m, k) BY <1>1 DEF Update
<1>2. CASE HasKey(m, k)
  <2> DEFINE s == Min(SlotsOf(m, k))
  <2>1. s \in DOMAIN m /\ m[s].key = k BY <1>2, FirstSlot
  <2>2. Update(m, k, v) = [m EXCEPT ![s].val = v] BY <1>2 DEF Update
  <2> HIDE DEF s
  <2>3. \A i \in DOMAIN m : m[i] \in [key : K, val : V] BY DEF IsMap
  <2>4. /\ DOMAIN Update(m, k, v) = DOMAIN m
        /\ \A i \in DOMAIN m : Update(m, k, v)[i]
             = IF i = s THEN [key |-> m[i].key, val |-> v] ELSE m[i]
    BY <2>1, <2>2, <2>3
  <2>5. IsMap(Update(m, k, v), cap, K, V)
    <3>1. Update(m, k, v) = [i \in DOMAIN m |-> Update(m, k, v)[i]] BY <2>2
    <3> QED BY <2>3, <2>4, <3>1 DEF IsMap
  <2> QED BY <2>1, <2>4, <2>5 DEF UniqueKeys
<1> QED BY <1>1, <1>2

\* remove() vacates one slot of the key, if there is one.
LEMMA RemoveProperties ==
  ASSUME NEW cap \in Nat, NEW K, NEW V, NEW m, IsMap(m, cap, K, V), NEW k
  PROVE  LET r == Remove(m, k) IN
         /\ IsMap(r, cap, K, V)
         /\ DOMAIN r \subseteq DOMAIN m
         /\ \A i \in DOMAIN r : r[i] = m[i]
         /\ \A i \in DOMAIN m : m[i].key # k => i \in DOMAIN r
         /\ UniqueKeys(m) => UniqueKeys(r) /\ ~HasKey(r, k)
<1>1. CASE ~HasKey(m, k)
  BY <1>1 DEF Remove, HasKey, SlotsOf
<1>2. CASE HasKey(m, k)
  <2> DEFINE s == Min(SlotsOf(m, k))
  <2>1. s \in DOMAIN m /\ m[s].key = k BY <1>2, FirstSlot
  <2>2. Remove(m, k) = [i \in DOMAIN m \ {s} |-> m[i]] BY <1>2 DEF Remove, Restrict
  <2> HIDE DEF s
  <2>3. IsMap(Remove(m, k), cap, K, V) BY <2>2 DEF IsMap
  <2> QED BY <2>1, <2>2, <2>3 DEF UniqueKeys, HasKey, SlotsOf
<1> QED BY <1>1, <1>2

\* The map init() makes.
LEMMA EmptyMapProperties ==
  ASSUME NEW cap \in Nat, NEW K, NEW V
  PROVE  /\ IsMap(EmptyMap, cap, K, V)
         /\ DOMAIN EmptyMap = {}
         /\ UniqueKeys(EmptyMap)
  BY DEF EmptyMap, IsMap, UniqueKeys

\* While no key is held twice, get() finds the value of any slot of the key.
LEMMA GetOfSlot ==
  ASSUME NEW cap \in Nat, NEW K, NEW V, NEW m, IsMap(m, cap, K, V),
         UniqueKeys(m), NEW i \in DOMAIN m
  PROVE  Get(m, m[i].key) = m[i].val
<1> DEFINE k == m[i].key
<1>1. HasKey(m, k) BY DEF HasKey, SlotsOf
<1>2. Min(SlotsOf(m, k)) \in DOMAIN m /\ m[Min(SlotsOf(m, k))].key = k
  BY <1>1, FirstSlot
<1>3. Min(SlotsOf(m, k)) = i BY <1>2 DEF UniqueKeys
<1> QED BY <1>3 DEF Get

\* The dictionary of a map is the function on its keys that agrees with every
\* slot.
LEMMA DictBySlots ==
  ASSUME NEW cap \in Nat, NEW K, NEW V, NEW m, IsMap(m, cap, K, V),
         UniqueKeys(m), NEW d, d = [x \in KeysOf(m) |-> d[x]],
         \A i \in DOMAIN m : d[m[i].key] = m[i].val
  PROVE  DictOf(m) = d
<1>1. ASSUME NEW x \in KeysOf(m) PROVE Get(m, x) = d[x]
  <2>1. PICK i \in DOMAIN m : x = m[i].key BY <1>1 DEF KeysOf
  <2> QED BY <2>1, GetOfSlot
<1>2. DictOf(m) = [x \in KeysOf(m) |-> d[x]] BY <1>1 DEF DictOf
<1> QED BY <1>2

DictWith(d, k, v) == [x \in DOMAIN d \cup {k} |-> IF x = k THEN v ELSE d[x]]
DictWithout(d, k) == [x \in DOMAIN d \ {k} |-> d[x]]

\* Assigning to a present key is a put.
LEMMA DictOfUpdate ==
  ASSUME NEW cap \in Nat, NEW K, NEW V, NEW m, IsMap(m, cap, K, V),
         UniqueKeys(m), NEW k, NEW v \in V, HasKey(m, k)
  PROVE  DictOf(Update(m, k, v)) = DictWith(DictOf(m), k, v)
<1> DEFINE u == Update(m, k, v)
           d == [x \in KeysOf(m) |-> IF x = k THEN v ELSE DictOf(m)[x]]
           s == Min(SlotsOf(m, k))
<1>1. s \in DOMAIN m /\ m[s].key = k BY FirstSlot
<1>2. u = [m EXCEPT ![s].val = v] BY DEF Update
<1>3. IsMap(u, cap, K, V) /\ UniqueKeys(u) BY UpdateProperties
<1>4. /\ DOMAIN u = DOMAIN m
      /\ \A j \in DOMAIN m : u[j].key = m[j].key
      /\ \A j \in DOMAIN m : u[j].val = IF m[j].key = k THEN v ELSE m[j].val
  <2> HIDE DEF u, s
  <2>1. \A j \in DOMAIN m : m[j] \in [key : K, val : V] BY DEF IsMap
  <2>2. \A j \in DOMAIN m : m[j].key = k <=> j = s BY <1>1 DEF UniqueKeys
  <2> QED BY <1>1, <1>2, <2>1, <2>2
<1>5. \A j \in DOMAIN m : m[j].key \in KeysOf(m) BY DEF KeysOf
<1>6. \A j \in DOMAIN m : DictOf(m)[m[j].key] = m[j].val
  BY <1>5, GetOfSlot DEF DictOf
<1>7. k \in KeysOf(m) BY <1>1, <1>5
<1> HIDE DEF u, s
<1>8. KeysOf(u) = KeysOf(m) BY <1>4 DEF KeysOf
<1>9. \A j \in DOMAIN u : d[u[j].key] = u[j].val BY <1>4, <1>5, <1>6
<1>10. d = [x \in KeysOf(u) |-> d[x]] BY <1>8
<1>11. DictOf(u) = d
  <2> HIDE DEF d
  <2> QED BY <1>3, <1>9, <1>10, DictBySlots
<1>12. DOMAIN DictOf(m) = KeysOf(m) BY DEF DictOf
<1>13. KeysOf(m) \cup {k} = KeysOf(m) BY <1>7
<1> QED BY <1>7, <1>11, <1>12, <1>13 DEF u, DictWith

\* Removing a key is a delete.
LEMMA DictOfRemove ==
  ASSUME NEW cap \in Nat, NEW K, NEW V, NEW m, IsMap(m, cap, K, V),
         UniqueKeys(m), NEW k
  PROVE  DictOf(Remove(m, k)) = DictWithout(DictOf(m), k)
<1> DEFINE r == Remove(m, k)
           d == [x \in KeysOf(m) \ {k} |-> DictOf(m)[x]]
<1>1. /\ IsMap(r, cap, K, V)
      /\ DOMAIN r \subseteq DOMAIN m
      /\ \A j \in DOMAIN r : r[j] = m[j]
      /\ \A j \in DOMAIN m : m[j].key # k => j \in DOMAIN r
      /\ UniqueKeys(r) /\ ~HasKey(r, k)
  BY RemoveProperties
<1> HIDE DEF r
<1>2. \A j \in DOMAIN r : r[j].key # k BY <1>1 DEF HasKey, SlotsOf
<1>3. KeysOf(r) = KeysOf(m) \ {k} BY <1>1, <1>2 DEF KeysOf
<1>4. \A j \in DOMAIN m : m[j].key \in KeysOf(m) BY DEF KeysOf
<1>5. \A j \in DOMAIN m : DictOf(m)[m[j].key] = m[j].val
  BY <1>4, GetOfSlot DEF DictOf
<1>6. \A j \in DOMAIN r : d[r[j].key] = r[j].val BY <1>1, <1>2, <1>4, <1>5
<1>7. d = [x \in KeysOf(r) |-> d[x]] BY <1>3
<1>8. DictOf(r) = d
  <2> HIDE DEF d
  <2> QED BY <1>1, <1>6, <1>7, DictBySlots
<1>9. DOMAIN DictOf(m) = KeysOf(m) BY DEF DictOf
<1> QED BY <1>8, <1>9 DEF r, DictWithout

-----------------------------------------------------------------------------
(* What a change to one key leaves of another *)

\* The slots of key k are the same in both maps, and hold the same.
SameAt(m, r, k) ==
  SlotsOf(r, k) = SlotsOf(m, k) /\ \A i \in SlotsOf(m, k) : r[i] = m[i]

LEMMA InsertKeepsOthers ==
  ASSUME NEW cap \in Nat, NEW m, NEW k, NEW v, NEW j, j # k
  PROVE  SameAt(m, Insert(cap, m, k, v), j)
<1>1. CASE Insert(cap, m, k, v) = m BY <1>1 DEF SameAt
<1>2. ASSUME NEW i \in 1..cap, i \in DOMAIN m => m[i].key = k,
             Insert(cap, m, k, v) = PutAt(m, i, k, v)
      PROVE  SameAt(m, Insert(cap, m, k, v), j)
  <2> DEFINE p == PutAt(m, i, k, v)
  <2>1. /\ DOMAIN p = DOMAIN m \cup {i}
        /\ p[i] = [key |-> k, val |-> v]
        /\ \A x \in DOMAIN m \ {i} : p[x] = m[x]
    BY DEF PutAt
  <2> HIDE DEF p
  <2>2. SameAt(m, p, j) BY <1>2, <2>1 DEF SameAt, SlotsOf
  <2> QED BY <1>2, <2>2 DEF p
<1> QED BY <1>1, <1>2, InsertCases

\* Whatever is assigned, of whatever type, the keys stay.
LEMMA UpdateSlots ==
  ASSUME NEW cap \in Nat, NEW K, NEW V, NEW m, IsMap(m, cap, K, V), NEW k, NEW v
  PROVE  /\ DOMAIN Update(m, k, v) = DOMAIN m
         /\ \A i \in DOMAIN m : /\ Update(m, k, v)[i].key = m[i].key
                                /\ m[i].key # k => Update(m, k, v)[i] = m[i]
<1>1. CASE ~HasKey(m, k) BY <1>1 DEF Update
<1>2. CASE HasKey(m, k)
  <2> DEFINE s == Min(SlotsOf(m, k))
  <2>1. s \in DOMAIN m /\ m[s].key = k BY <1>2, FirstSlot
  <2>2. Update(m, k, v) = [m EXCEPT ![s].val = v] BY <1>2 DEF Update
  <2>3. \A i \in DOMAIN m : m[i] \in [key : K, val : V] BY DEF IsMap
  <2> HIDE DEF s
  <2> QED BY <2>1, <2>2, <2>3
<1> QED BY <1>1, <1>2

LEMMA UpdateKeepsOthers ==
  ASSUME NEW cap \in Nat, NEW K, NEW V, NEW m, IsMap(m, cap, K, V),
         NEW k, NEW v, NEW j, j # k
  PROVE  SameAt(m, Update(m, k, v), j)
  BY UpdateSlots DEF SameAt, SlotsOf

LEMMA RemoveKeepsOthers ==
  ASSUME NEW cap \in Nat, NEW K, NEW V, NEW m, IsMap(m, cap, K, V),
         NEW k, NEW j, j # k
  PROVE  SameAt(m, Remove(m, k), j)
  BY RemoveProperties DEF SameAt, SlotsOf

\* Same slots, same answers.
LEMMA SameLookup ==
  ASSUME NEW cap \in Nat, NEW K, NEW V, NEW m, IsMap(m, cap, K, V),
         NEW r, NEW k, SameAt(m, r, k)
  PROVE  /\ HasKey(r, k) <=> HasKey(m, k)
         /\ HasKey(m, k) => Get(r, k) = Get(m, k)
<1>1. HasKey(r, k) <=> HasKey(m, k) BY DEF SameAt, HasKey
<1>2. ASSUME HasKey(m, k) PROVE Get(r, k) = Get(m, k)
  <2>1. SlotsOf(m, k) \in SUBSET Nat BY DEF SlotsOf, IsMap
  <2>2. Min(SlotsOf(m, k)) \in SlotsOf(m, k) BY <1>2, <2>1, MinOfNats DEF HasKey
  <2> QED BY <2>2 DEF SameAt, Get
<1> QED BY <1>1, <1>2

\* After insert() the key is there, unless the table was full.
LEMMA InsertedOrFull ==
  ASSUME NEW cap \in Nat, NEW m, NEW k, NEW v
  PROVE  \/ HasKey(Insert(cap, m, k, v), k)
         \/ Full(cap, m) /\ Insert(cap, m, k, v) = m
<1>1. ASSUME NEW i \in 1..cap, Insert(cap, m, k, v) = PutAt(m, i, k, v)
      PROVE  HasKey(Insert(cap, m, k, v), k)
  <2>1. i \in DOMAIN PutAt(m, i, k, v) /\ PutAt(m, i, k, v)[i].key = k BY DEF PutAt
  <2> QED BY <1>1, <2>1 DEF HasKey, SlotsOf
<1> QED BY <1>1, InsertCases

\* insert() never takes a key away, nor does an assignment, nor makes room.
LEMMA KeysOnlyGrow ==
  ASSUME NEW cap \in Nat, NEW m, NEW k, NEW v, NEW j
  PROVE  /\ HasKey(m, j) => HasKey(Insert(cap, m, k, v), j)
         /\ Full(cap, m) => Full(cap, Insert(cap, m, k, v))
<1>1. ASSUME HasKey(m, j) PROVE HasKey(Insert(cap, m, k, v), j)
  BY <1>1, InsertKeepsOthers, InsertedOrFull DEF SameAt, HasKey
<1>2. ASSUME NEW i \in 1..cap, Insert(cap, m, k, v) = PutAt(m, i, k, v)
      PROVE  DOMAIN m \subseteq DOMAIN Insert(cap, m, k, v)
  BY <1>2 DEF PutAt
<1>3. DOMAIN m \subseteq DOMAIN Insert(cap, m, k, v) BY <1>2, InsertCases
<1> QED BY <1>1, <1>3 DEF Full

LEMMA UpdateKeepsKeys ==
  ASSUME NEW cap \in Nat, NEW K, NEW V, NEW m, IsMap(m, cap, K, V),
         NEW k, NEW v, NEW j
  PROVE  /\ SlotsOf(Update(m, k, v), j) = SlotsOf(m, j)
         /\ HasKey(Update(m, k, v), j) <=> HasKey(m, j)
         /\ Full(cap, Update(m, k, v)) <=> Full(cap, m)
  BY UpdateSlots DEF SlotsOf, HasKey, Full

\* What an insert or an assignment leaves in a slot.
LEMMA ValuesAfterChange ==
  ASSUME NEW cap \in Nat, NEW K, NEW V, NEW m, IsMap(m, cap, K, V),
         NEW k \in K, NEW v \in V
  PROVE  \A r \in {Insert(cap, m, k, v), Update(m, k, v)} : \A i \in DOMAIN r :
           r[i].val = v \/ (i \in DOMAIN m /\ r[i] = m[i])
<1>1. \A i \in DOMAIN Insert(cap, m, k, v) :
        \/ Insert(cap, m, k, v)[i].val = v
        \/ i \in DOMAIN m /\ Insert(cap, m, k, v)[i] = m[i]
  BY InsertProperties
<1>2. \A i \in DOMAIN Update(m, k, v) :
        \/ Update(m, k, v)[i].val = v
        \/ i \in DOMAIN m /\ Update(m, k, v)[i] = m[i]
  BY UpdateProperties
<1> QED BY <1>1, <1>2

\* What was assigned through get_mut() is what get() finds.
LEMMA GetUpdated ==
  ASSUME NEW cap \in Nat, NEW K, NEW V, NEW m, IsMap(m, cap, K, V),
         NEW k, NEW v, HasKey(m, k)
  PROVE  Get(Update(m, k, v), k) = v
<1> DEFINE s == Min(SlotsOf(m, k))
<1>1. s \in DOMAIN m /\ m[s].key = k BY FirstSlot
<1>2. SlotsOf(Update(m, k, v), k) = SlotsOf(m, k) BY UpdateKeepsKeys
<1>3. Get(Update(m, k, v), k) = Update(m, k, v)[s].val BY <1>2 DEF Get
<1>4. Update(m, k, v) = [m EXCEPT ![s].val = v] BY DEF Update
<1>5. m[s] \in [key : K, val : V] BY <1>1 DEF IsMap
<1> HIDE DEF s
<1> QED BY <1>1, <1>3, <1>4, <1>5

-----------------------------------------------------------------------------
(* insert() as a put, even of a key that is there                          *)

\* A vacant slot leaves room for one more key: there are at most as many keys
\* as occupied slots.
LEMMA VacantMeansRoom ==
  ASSUME NEW cap \in Nat, NEW K, NEW V, NEW m, IsMap(m, cap, K, V),
         NEW i \in 1..cap, i \notin DOMAIN m
  PROVE  Cardinality(KeysOf(m)) < cap
<1>1. /\ IsFiniteSet(1..cap) /\ Cardinality(1..cap) = cap
  BY FS_Interval
<1>2. DOMAIN m \in SUBSET (1..cap) /\ DOMAIN m # 1..cap BY DEF IsMap
<1>3. /\ IsFiniteSet(DOMAIN m) /\ Cardinality(DOMAIN m) \in Nat
      /\ Cardinality(DOMAIN m) < cap
  <2>1. IsFiniteSet(DOMAIN m) /\ Cardinality(DOMAIN m) <= cap
        /\ Cardinality(DOMAIN m) # cap
    BY <1>1, <1>2, FS_Subset
  <2>2. Cardinality(DOMAIN m) \in Nat BY <2>1, FS_CardinalityType
  <2> QED BY <2>1, <2>2
<1> DEFINE f == [j \in DOMAIN m |-> m[j].key]
<1>4. f \in Surjection(DOMAIN m, KeysOf(m)) BY DEF Surjection, KeysOf
<1>5. IsFiniteSet(KeysOf(m)) /\ Cardinality(KeysOf(m)) <= Cardinality(DOMAIN m)
  BY <1>3, <1>4, FS_Surjection
<1>6. Cardinality(KeysOf(m)) \in Nat BY <1>5, FS_CardinalityType
<1> QED BY <1>3, <1>5, <1>6

\* remove() of a key that is there leaves a slot vacant.
LEMMA RemoveMakesRoom ==
  ASSUME NEW cap \in Nat, NEW K, NEW V, NEW m, IsMap(m, cap, K, V), NEW k, HasKey(m, k)
  PROVE  ~Full(cap, Remove(m, k))
<1> DEFINE s == Min(SlotsOf(m, k))
<1>1. s \in 1..cap BY FirstSlot DEF IsMap
<1>2. DOMAIN Remove(m, k) = DOMAIN m \ {s} BY DEF Remove, Restrict
<1> HIDE DEF s
<1> QED BY <1>1, <1>2 DEF Full

\* As long as keys are held once before and after it, insert() is a put, or
\* drops a key that a full map lacks.
LEMMA DictOfInsert ==
  ASSUME NEW cap \in Nat, NEW K, NEW V, NEW m, IsMap(m, cap, K, V), UniqueKeys(m),
         NEW k \in K, NEW v \in V, UniqueKeys(Insert(cap, m, k, v))
  PROVE  \/ Insert(cap, m, k, v) = m /\ Full(cap, m)
         \/ /\ DictOf(Insert(cap, m, k, v)) = DictWith(DictOf(m), k, v)
            /\ k \in KeysOf(m) \/ Cardinality(KeysOf(m)) < cap
<1>1. ASSUME NEW i \in 1..cap, i \in DOMAIN m => m[i].key = k,
             Insert(cap, m, k, v) = PutAt(m, i, k, v)
      PROVE  /\ DictOf(Insert(cap, m, k, v)) = DictWith(DictOf(m), k, v)
             /\ k \in KeysOf(m) \/ Cardinality(KeysOf(m)) < cap
  <2> DEFINE p == PutAt(m, i, k, v)
             d == [x \in KeysOf(m) \cup {k} |-> IF x = k THEN v ELSE DictOf(m)[x]]
  <2>1. /\ IsMap(p, cap, K, V)
        /\ DOMAIN p = DOMAIN m \cup {i}
        /\ p[i] = [key |-> k, val |-> v]
        /\ \A j \in DOMAIN m \ {i} : p[j] = m[j]
    BY PutAtProperties
  <2>2. UniqueKeys(p) BY <1>1
  <2>3. \A j \in DOMAIN m : m[j].key \in KeysOf(m) BY DEF KeysOf
  <2>4. \A j \in DOMAIN m : DictOf(m)[m[j].key] = m[j].val
    BY <2>3, GetOfSlot DEF DictOf
  <2> HIDE DEF p
  <2>5. \A j \in DOMAIN p : p[j].key = k => j = i BY <2>1, <2>2 DEF UniqueKeys
  <2>6. KeysOf(p) = KeysOf(m) \cup {k} BY <1>1, <2>1 DEF KeysOf
  <2>7. \A j \in DOMAIN p : d[p[j].key] = p[j].val BY <2>1, <2>3, <2>4, <2>5
  <2>8. d = [x \in KeysOf(p) |-> d[x]] BY <2>6
  <2>9. DictOf(p) = d
    <3> HIDE DEF d
    <3> QED BY <2>1, <2>2, <2>7, <2>8, DictBySlots
  <2>10. DOMAIN DictOf(m) = KeysOf(m) BY DEF DictOf
  <2>11. k \in KeysOf(m) \/ Cardinality(KeysOf(m)) < cap
    BY <1>1, <2>3, VacantMeansRoom
  <2> QED BY <1>1, <2>9, <2>10, <2>11 DEF p, DictWith
<1> QED BY <1>1, InsertCases
=============================================================================
