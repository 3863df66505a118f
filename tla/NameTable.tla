------------------------------ MODULE NameTable ------------------------------
(***************************************************************************)
(* What the namespace calls promise: a dictionary from names to inode      *)
(* numbers in which a name can also be moved, onto another name if need    *)
(* be, which then ceases to mean what it meant.                            *)
(***************************************************************************)
EXTENDS BoundedMap

Move(old, new) ==
  /\ old \in DOMAIN dict
  /\ dict' = [x \in (DOMAIN dict \ {old}) \cup {new} |->
                IF x = new THEN dict[old] ELSE dict[x]]
=============================================================================
