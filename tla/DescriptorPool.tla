--------------------------- MODULE DescriptorPool ---------------------------
(***************************************************************************)
(* What callers who share one Proc may count on: an open gives its caller  *)
(* a descriptor nobody holds, and a close takes it back.  Nothing is       *)
(* promised once the first calls have met, when trust is withdrawn.        *)
(***************************************************************************)
EXTENDS FiniteSets

CONSTANTS Client, Descriptor

VARIABLES
  owned,    \* the descriptors of each client
  trusted

poolVars == <<owned, trusted>>

PoolInit == owned = [c \in Client |-> {}] /\ trusted = TRUE

Give(c, fd) ==
  /\ \A d \in Client : fd \notin owned[d]
  /\ owned' = [owned EXCEPT ![c] = @ \cup {fd}]

TakeBack(c, fd) ==
  /\ fd \in owned[c]
  /\ owned' = [owned EXCEPT ![c] = @ \ {fd}]

PoolNext ==
  \/ /\ trusted
     /\ \E c \in Client, fd \in Descriptor : Give(c, fd) \/ TakeBack(c, fd)
     /\ UNCHANGED trusted
  \/ trusted' = FALSE /\ owned' \in [Client -> SUBSET Descriptor]

PoolSpec == PoolInit /\ [][PoolNext]_poolVars
=============================================================================
