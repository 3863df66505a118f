------------------------------- MODULE HashMap -------------------------------
(***************************************************************************)
(* The project's own hash map (src/collections/mod.rs): a vector of CAP    *)
(* slots, each vacant or holding one key/value pair, searched linearly.    *)
(* A map value is a partial function from slot numbers to pairs: its       *)
(* DOMAIN is the set of occupied slots.  The order of the slots matters:   *)
(* every search stops at the first slot that answers it.                   *)
(***************************************************************************)
EXTENDS Naturals, FiniteSetsExt

\* m is a map of capacity cap from keys K to values V.
IsMap(m, cap, K, V) ==
  /\ DOMAIN m \subseteq 1..cap
  /\ m \in [DOMAIN m -> [key : K, val : V]]

\* init(): every slot vacant.
EmptyMap == [i \in {} |-> i]

\* The slots that hold key k.  A map is meant to hold a key once (UniqueKeys).
SlotsOf(m, k) == {i \in DOMAIN m : m[i].key = k}
KeysOf(m) == {m[i].key : i \in DOMAIN m}
UniqueKeys(m) == \A i, j \in DOMAIN m : m[i].key = m[j].key => i = j

HasKey(m, k) == SlotsOf(m, k) # {}
Get(m, k) == m[Min(SlotsOf(m, k))].val

\* The dictionary that the slots stand for, as get() reads them.
DictOf(m) == [k \in KeysOf(m) |-> Get(m, k)]

\* Slip: the scan runs one slot too far.
StopSlotsBeyond(cap, m, k) == {i \in 1..(cap + 1) : i \in DOMAIN m => m[i].key = k}

\* The slots at which the scan of insert() stops: vacant, or holding k.
StopSlots(cap, m, k) == {i \in 1..cap : i \in DOMAIN m => m[i].key = k}
Full(cap, m) == 1..cap \subseteq DOMAIN m

PutAt(m, i, k, v) ==
  [j \in DOMAIN m \cup {i} |-> IF j = i THEN [key |-> k, val |-> v] ELSE m[j]]

\* insert(): the pair goes to the first stop slot; with none it is dropped.
Insert(cap, m, k, v) ==
  LET stops == StopSlots(cap, m, k)
  IN IF stops = {} THEN m ELSE PutAt(m, Min(stops), k, v)

\* get_mut() followed by an assignment through the reference.
Update(m, k, v) ==
  IF HasKey(m, k) THEN [m EXCEPT ![Min(SlotsOf(m, k))].val = v] ELSE m

\* remove(): the first slot that holds k becomes vacant.
Remove(m, k) ==
  IF HasKey(m, k) THEN Restrict(m, DOMAIN m \ {Min(SlotsOf(m, k))}) ELSE m
=============================================================================
