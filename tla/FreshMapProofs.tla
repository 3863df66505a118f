--------------------------- MODULE FreshMapProofs ---------------------------
(***************************************************************************)
(* For every capacity, and every set of keys and values, the hash map used *)
(* as FreshMap uses it holds a key once and implements BoundedMap.         *)
(***************************************************************************)
EXTENDS FreshMap, HashMapProofs

\* The inductive invariant: remove() keeps keys unique only if they were, and
\* a vacant slot may be filled only with a key that has none.
FMInv == FMTypeOK /\ KeysHeldOnce

LEMMA FMInvInit == FMInit => FMInv
  BY EmptyMapProperties, CapAssumption DEF FMInit, FMInv, FMTypeOK, KeysHeldOnce

LEMMA FMInvNext == FMInv /\ [FMNext]_entries => FMInv'
<1> SUFFICES ASSUME FMInv, [FMNext]_entries PROVE FMInv' OBVIOUS
<1> USE CapAssumption DEF FMInv, FMTypeOK, KeysHeldOnce
<1>1. ASSUME NEW k \in Key, NEW v \in Val, InsertAbsent(k, v) PROVE FMInv'
  BY <1>1, InsertProperties, InsertAbsentUnique DEF InsertAbsent
<1>2. ASSUME NEW k \in Key, NEW v \in Val, AssignPresent(k, v) PROVE FMInv'
  BY <1>2, UpdateProperties DEF AssignPresent
<1>3. ASSUME NEW k \in Key, RemoveKey(k) PROVE FMInv'
  BY <1>3, RemoveProperties DEF RemoveKey
<1>4. CASE ClearAll BY <1>4, EmptyMapProperties DEF ClearAll
<1>5. CASE UNCHANGED entries BY <1>5
<1> QED BY <1>1, <1>2, <1>3, <1>4, <1>5 DEF FMNext

\* The occupied slots lie within the capacity and no key occupies two.
THEOREM FreshMapInvariant == FMSpec => [](FMTypeOK /\ KeysHeldOnce)
<1>1. FMInv => FMTypeOK /\ KeysHeldOnce BY DEF FMInv
<1> QED BY <1>1, FMInvInit, FMInvNext, PTL DEF FMSpec

\* The slots in use lie within the capacity, and hold keys and values.
THEOREM FreshMapTypes == FMSpec => []FMTypeOK
<1>1. FMInv => FMTypeOK BY DEF FMInv
<1> QED BY <1>1, FMInvInit, FMInvNext, PTL DEF FMSpec

-----------------------------------------------------------------------------
\* BoundedMap counts keys with its own instance of FiniteSets.
LEMMA SameCardinality == \A S : Abstract!Cardinality(S) = Cardinality(S)
  BY DEF Abstract!Cardinality, Cardinality

LEMMA InsertAbsentRefines ==
  ASSUME FMInv, NEW k \in Key, NEW v \in Val, InsertAbsent(k, v)
  PROVE  Abstract!Put(k, v) \/ UNCHANGED DictOf(entries)
<1> USE CapAssumption DEF FMInv, FMTypeOK, KeysHeldOnce
<1>1. entries' = Insert(Cap, entries, k, v) /\ ~HasKey(entries, k) BY DEF InsertAbsent
<1>2. UniqueKeys(entries') BY <1>1, InsertAbsentUnique
<1>3. CASE entries' = entries BY <1>3
<1>4. CASE /\ DictOf(entries') = DictWith(DictOf(entries), k, v)
           /\ k \in KeysOf(entries) \/ Cardinality(KeysOf(entries)) < Cap
  <2>1. DOMAIN DictOf(entries) = KeysOf(entries) BY DEF DictOf
  <2> QED BY <1>4, <2>1, SameCardinality DEF Abstract!Put, DictWith
<1> QED BY <1>1, <1>2, <1>3, <1>4, DictOfInsert

LEMMA AssignPresentRefines ==
  ASSUME FMInv, NEW k \in Key, NEW v \in Val, AssignPresent(k, v)
  PROVE  Abstract!Put(k, v)
<1> USE CapAssumption DEF FMInv, FMTypeOK, KeysHeldOnce
<1>1. HasKey(entries, k) /\ entries' = Update(entries, k, v) BY DEF AssignPresent
<1>2. k \in DOMAIN DictOf(entries) BY <1>1 DEF HasKey, SlotsOf, KeysOf, DictOf
<1>3. DictOf(Update(entries, k, v)) = DictWith(DictOf(entries), k, v)
  BY <1>1, DictOfUpdate
<1> QED BY <1>1, <1>2, <1>3 DEF Abstract!Put, DictWith

LEMMA FMNextRefines == FMInv /\ [FMNext]_entries => [Abstract!BMNext]_(DictOf(entries))
<1> SUFFICES ASSUME FMInv, [FMNext]_entries
             PROVE  Abstract!BMNext \/ UNCHANGED DictOf(entries)
  OBVIOUS
<1> USE CapAssumption DEF FMInv, FMTypeOK, KeysHeldOnce
<1>1. ASSUME NEW k \in Key, NEW v \in Val, InsertAbsent(k, v)
      PROVE  Abstract!BMNext \/ UNCHANGED DictOf(entries)
  BY <1>1, InsertAbsentRefines DEF Abstract!BMNext
<1>2. ASSUME NEW k \in Key, NEW v \in Val, AssignPresent(k, v)
      PROVE  Abstract!BMNext
  BY <1>2, AssignPresentRefines DEF Abstract!BMNext
<1>3. ASSUME NEW k \in Key, RemoveKey(k) PROVE Abstract!BMNext
  <2>1. DictOf(Remove(entries, k)) = DictWithout(DictOf(entries), k)
    BY DictOfRemove
  <2>2. Abstract!Delete(k) BY <1>3, <2>1 DEF RemoveKey, Abstract!Delete, DictWithout
  <2> QED BY <2>2 DEF Abstract!BMNext
<1>4. CASE ClearAll
  <2>1. DictOf(entries') = [k \in {} |-> k]
    BY <1>4 DEF ClearAll, EmptyMap, DictOf, KeysOf
  <2> QED BY <2>1 DEF Abstract!BMNext, Abstract!Clear
<1>5. CASE UNCHANGED entries BY <1>5
<1> QED BY <1>1, <1>2, <1>3, <1>4, <1>5 DEF FMNext

\* Every call on the hash map is a put, a delete or a clear of a dictionary of
\* at most Cap keys, or an insertion that the full map drops.
THEOREM FreshMapImplementsBoundedMap == FMSpec => ImplementsBoundedMap
<1>1. FMInit => Abstract!BMInit
  BY DEF FMInit, EmptyMap, DictOf, KeysOf, Abstract!BMInit
<1> QED BY <1>1, FMInvInit, FMInvNext, FMNextRefines, PTL
        DEF FMSpec, ImplementsBoundedMap, Abstract!BMSpec
=============================================================================
