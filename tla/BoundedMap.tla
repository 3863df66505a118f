----------------------------- MODULE BoundedMap -----------------------------
(***************************************************************************)
(* What a caller of the hash map may count on: a dictionary that holds at  *)
(* most Cap keys, each once.  An insertion that finds it full changes      *)
(* nothing and reports nothing, so here it is a stuttering step.           *)
(***************************************************************************)
EXTENDS Naturals, FiniteSets

CONSTANTS Key, Val, Cap

VARIABLE dict   \* a function from the keys present to their values

BMInit == dict = [k \in {} |-> k]

Put(k, v) ==
  /\ k \in DOMAIN dict \/ Cardinality(DOMAIN dict) < Cap
  /\ dict' = [x \in DOMAIN dict \cup {k} |-> IF x = k THEN v ELSE dict[x]]

Delete(k) == dict' = [x \in DOMAIN dict \ {k} |-> dict[x]]

Clear == dict' = [k \in {} |-> k]

BMNext ==
  \/ \E k \in Key, v \in Val : Put(k, v)
  \/ \E k \in Key : Delete(k)
  \/ Clear

BMSpec == BMInit /\ [][BMNext]_dict
=============================================================================
