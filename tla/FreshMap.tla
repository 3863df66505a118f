------------------------------ MODULE FreshMap ------------------------------
(***************************************************************************)
(* The hash map under the discipline that FileSystem::files and            *)
(* Proc::open_files keep (and path_map does not): insert() is called only  *)
(* with a key the map lacks, a present key is changed through get_mut().   *)
(* Under it the slot vector implements BoundedMap.                         *)
(***************************************************************************)
EXTENDS HashMap

CONSTANTS Key, Val, Cap

ASSUME CapAssumption == Cap \in Nat

VARIABLE entries

FMInit == entries = EmptyMap

\* Slip: a present key, too, is put with insert().
InsertAny(k, v) == entries' = Insert(Cap, entries, k, v)

InsertAbsent(k, v) ==
  /\ ~HasKey(entries, k)
  /\ entries' = Insert(Cap, entries, k, v)

AssignPresent(k, v) ==
  /\ HasKey(entries, k)
  /\ entries' = Update(entries, k, v)

\* Slip: removing closes the gap with the last slot's pair, which stays.
RemoveCompacting(k) ==
  entries' = IF HasKey(entries, k)
             THEN [entries EXCEPT ![Min(SlotsOf(entries, k))] = entries[Max(DOMAIN entries)]]
             ELSE entries

RemoveKey(k) == entries' = Remove(entries, k)

\* clear(): every slot becomes vacant.
ClearAll == entries' = EmptyMap

FMNext ==
  \/ \E k \in Key, v \in Val : InsertAbsent(k, v) \/ AssignPresent(k, v)
  \/ \E k \in Key : RemoveKey(k)
  \/ ClearAll

FMSpec == FMInit /\ [][FMNext]_entries

-----------------------------------------------------------------------------
\* Type invariant: the occupied slots lie within the capacity.
FMTypeOK == IsMap(entries, Cap, Key, Val)

\* No key occupies two slots, whatever holes removals leave before it: the
\* reason remove() may stop at the first match.
KeysHeldOnce == UniqueKeys(entries)

Abstract == INSTANCE BoundedMap WITH dict <- DictOf(entries)

\* Every call is a put, a delete or a clear of a dictionary of at most Cap
\* keys, or (an insert into a full map) changes nothing.
ImplementsBoundedMap == Abstract!BMSpec
=============================================================================
