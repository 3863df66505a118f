-------------------------- MODULE GlobalProcProofs --------------------------
(***************************************************************************)
(* Proofs about GlobalProc, for every set of callers: its type invariant,  *)
(* mutual exclusion, one owner for each descriptor, and that open and      *)
(* close implement a pool of descriptors, all of them as long as no first  *)
(* calls have met.                                                         *)
(***************************************************************************)
EXTENDS GlobalProc, HashMapProofs

\* What a caller's own state says of itself: where it is in which call, and
\* how many guards that makes.
OneCaller(c) ==
  /\ (pc[c] = "idle") <=> (stack[c] = <<>>)
  /\ (pc[c] = "assign") <=> (left[c] # {})
  /\ pc[c] = "assign" => Len(stack[c]) = 1
  /\ pc[c] = "store" => Head(stack[c]) = "open" /\ found[c] \in Fd
  /\ guards[c] = (IF pc[c] \in {"in", "store", "unlock", "dead"} THEN 1 ELSE 0)
                 + (IF Len(stack[c]) > 1 THEN 1 ELSE 0)

\* A caller on its way to drop the descriptor it was given.
Closing(c) == pc[c] \in {"spin", "in"} /\ stack[c] = <<"close">>

\* What the callers' states say of one another until first calls meet.
\* Until GLOBAL_PROC is there nothing has happened, and it is assigned by one
\* caller while the others wait to be called.
Fresh ==
  /\ ~ready => \A c \in Caller : pc[c] \in {"idle", "assign"}
  /\ \A c \in Caller : pc[c] = "assign" =>
       stack[c] # <<"close">> /\ ("tag" \in left[c] \/ ready)
  /\ \A c \in Caller : ~ready \/ pc[c] = "assign" =>
       /\ taken = {} /\ ~locked
       /\ \A d \in Caller : guards[d] = 0 /\ held[d] = {}
  /\ \A c, d \in Caller : c # d /\ pc[c] = "assign" => pc[d] = "idle"

\* One guard at most, and a mount waits for ever for its second.
Exclusive ==
  /\ \A c \in Caller : Len(stack[c]) > 1 => pc[c] = "spin"
  /\ \A c, d \in Caller : guards[c] > 0 /\ guards[d] > 0 => c = d
  /\ locked <=> (\E c \in Caller : guards[c] > 0)

\* What callers hold is in use, and what one is about to use is not.
Owned ==
  /\ \A c \in Caller : held[c] \subseteq taken
  /\ \A c, d \in Caller : c # d => held[c] \cap held[d] = {}
  /\ \A c \in Caller : pc[c] = "store" => found[c] \notin taken

\* What one is about to drop is in use, and no other's.
Dropped ==
  \A c \in Caller : Closing(c) =>
    /\ found[c] \in taken
    /\ \A d \in Caller : found[c] \notin held[d]
    /\ \A d \in Caller \ {c} : Closing(d) => found[d] # found[c]

Apart == Fresh /\ Exclusive /\ Owned /\ Dropped

\* The inductive invariant.
GlobalInv ==
  /\ GlobalTypeOK
  /\ \A c \in Caller : OneCaller(c)
  /\ ~raced => Apart

\* The tail of each stack.
LEMMA Tails ==
  /\ \A call \in {"open", "close", "other", "mount"} : Tail(<<call>>) = <<>>
  /\ Tail(FileCalls) = <<"other", "close", "mount">>
  /\ Tail(<<"other", "close", "mount">>) = <<"close", "mount">>
  /\ Tail(<<"close", "mount">>) = <<"mount">>
<1>1. \A call \in {"open", "close", "other", "mount"} : Tail(<<call>>) = <<>>
  OBVIOUS
<1>2. Tail(FileCalls) = <<"other", "close", "mount">>
  BY DEF FileCalls
<1>3. Tail(<<"other", "close", "mount">>) = <<"close", "mount">>
  OBVIOUS
<1>4. Tail(<<"close", "mount">>) = <<"mount">>
  OBVIOUS
<1> QED BY <1>1, <1>2, <1>3, <1>4

\* What is at the head of a stack, and what follows it.
LEMMA StackShapes ==
  ASSUME NEW s \in Stacks, s # <<>>
  PROVE  /\ Head(s) \in {"open", "close", "other", "mount"}
         /\ Tail(s) \in Stacks
         /\ Len(s) > 1 <=> Len(s) # 1
         /\ Len(s) = 1 => s = <<Head(s)>> /\ Tail(s) = <<>>
         /\ Len(s) > 1 => /\ Tail(s) # <<>>
                          /\ Len(Tail(s)) = 1 <=> Head(Tail(s)) = "mount"
                          /\ Head(s) # "mount"
                          /\ Head(s) = "open" => s = FileCalls
<1>1. ASSUME NEW call \in {"open", "close", "other", "mount"}, s = <<call>>
      PROVE  /\ Head(s) = call /\ Len(s) = 1 /\ Tail(s) = <<>>
             /\ Tail(s) \in Stacks
  BY <1>1, Tails DEF Stacks
<1>2. CASE s = FileCalls
  BY <1>2, Tails DEF Stacks, FileCalls
<1>3. CASE s = <<"other", "close", "mount">>
  BY <1>3, Tails DEF Stacks, FileCalls
<1>4. CASE s = <<"close", "mount">>
  BY <1>4, Tails DEF Stacks, FileCalls
<1>5. CASE \E call \in {"open", "close", "other", "mount"} : s = <<call>>
  <2>1. PICK call \in {"open", "close", "other", "mount"} : s = <<call>> BY <1>5
  <2>2. /\ Head(s) = call /\ Len(s) = 1 /\ Tail(s) = <<>> /\ Tail(s) \in Stacks
    BY <1>1, <2>1
  <2> QED BY <2>1, <2>2
<1> QED BY <1>2, <1>3, <1>4, <1>5 DEF Stacks

-----------------------------------------------------------------------------
LEMMA GlobalInvInit == GlobalInit => GlobalInv
<1> SUFFICES ASSUME GlobalInit PROVE GlobalInv OBVIOUS
<1>1. GlobalTypeOK
  <2>1. <<>> \in Stacks BY DEF Stacks
  <2>2. 0 \in 0..MaxFiles BY GlobalAssumption
  <2> QED BY <2>1, <2>2 DEF GlobalInit, GlobalTypeOK
<1>2. \A c \in Caller : OneCaller(c) BY DEF GlobalInit, OneCaller
<1>3. Apart
  BY DEF GlobalInit, Apart, Fresh, Exclusive, Owned, Dropped, Closing
<1> QED BY <1>1, <1>2, <1>3 DEF GlobalInv

\* A call is begun.
LEMMA EnterStep ==
  ASSUME GlobalInv, NEW c \in Caller, NEW call \in {"open", "close", "other", "mount"},
         Enter(c, call), files' \in [Caller -> 0..MaxFiles],
         \/ call # "close" /\ UNCHANGED <<found, held>>
         \/ /\ call = "close"
            /\ \E fd \in held[c] : /\ found' = [found EXCEPT ![c] = fd]
                                   /\ held' = [held EXCEPT ![c] = @ \ {fd}]
  PROVE  GlobalInv'
<1> USE DEF GlobalInv, Enter, Goes, procVars
<1>1. GlobalTypeOK'
  <2>1. <<call>> \in Stacks BY DEF Stacks
  <2>2. stack' \in [Caller -> Stacks] BY <2>1 DEF GlobalTypeOK
  <2>3. pc' \in [Caller -> {"idle", "assign", "spin", "in", "store", "unlock", "dead"}]
    BY DEF GlobalTypeOK
  <2>4. left' \in [Caller -> SUBSET Part] BY DEF GlobalTypeOK
  <2>5. found' \in [Caller -> Fd \cup {0}] /\ held' \in [Caller -> SUBSET Fd]
    BY DEF GlobalTypeOK
  <2>6. /\ ready' \in BOOLEAN /\ locked' \in BOOLEAN /\ raced' \in BOOLEAN
        /\ taken' \subseteq Fd /\ guards' \in [Caller -> Nat]
    BY DEF GlobalTypeOK
  <2> HIDE DEF Enter
  <2> QED BY <2>2, <2>3, <2>4, <2>5, <2>6 DEF GlobalTypeOK
<1>2. OneCaller(c)'
  <2>1. /\ stack'[c] = <<call>> /\ guards'[c] = guards[c]
        /\ pc'[c] = (IF ready THEN "spin" ELSE "assign")
        /\ left'[c] = (IF ready THEN {} ELSE Part)
    BY DEF GlobalTypeOK
  <2>2. guards[c] = 0
    <3>1. pc[c] = "idle" /\ OneCaller(c) OBVIOUS
    <3>2. Len(<<>>) = 0 OBVIOUS
    <3> HIDE DEF GlobalInv, Enter, Goes, procVars
    <3> QED BY <3>1, <3>2 DEF OneCaller
  <2>3. <<call>> # <<>> /\ Len(<<call>>) = 1 OBVIOUS
  <2> HIDE DEF GlobalInv, Enter, Goes, procVars
  <2> QED BY <2>1, <2>2, <2>3 DEF OneCaller, Part
<1>3. ASSUME NEW d \in Caller \ {c} PROVE OneCaller(d)'
  BY <1>3 DEF GlobalTypeOK, OneCaller
<1>4. ASSUME ~raced' PROVE Apart'
  <2>1. Apart /\ \A d \in Caller \ {c} : left[d] = {}
    BY <1>4 DEF GlobalTypeOK
  <2>2. \A d \in Caller \ {c} : pc[d] # "assign" BY <2>1 DEF OneCaller
  <2>3. \A d \in Caller : held'[d] \subseteq held[d]
    BY DEF GlobalTypeOK
  <2>4. Fresh' BY <2>1, <2>2, <2>3 DEF Apart, Fresh, GlobalTypeOK, Part
  <2>5. Exclusive' BY <2>1 DEF Apart, Exclusive, GlobalTypeOK
  <2>6. Owned' BY <2>1, <2>3 DEF Apart, Owned, GlobalTypeOK
  <2>7. Dropped'
    <3>1. CASE call # "close"
      BY <2>1, <2>3, <3>1 DEF Apart, Dropped, Closing, GlobalTypeOK
    <3>2. ASSUME NEW fd \in held[c], call = "close",
                 found' = [found EXCEPT ![c] = fd], held' = [held EXCEPT ![c] = @ \ {fd}]
          PROVE  Dropped'
      BY <2>1, <3>2 DEF Apart, Owned, Dropped, Closing, GlobalTypeOK
    <3> QED BY <3>1, <3>2
  <2> QED BY <2>4, <2>5, <2>6, <2>7 DEF Apart
<1> QED BY <1>1, <1>2, <1>3, <1>4

\* Until first calls meet, a caller under the lock is the only one to have a
\* guard, in a call of its own and not of a mount.
LEMMA AloneUnderLock ==
  ASSUME GlobalInv, ~raced, NEW c \in Caller, pc[c] \in {"in", "store", "unlock"}
  PROVE  /\ ready /\ \A d \in Caller : pc[d] # "assign"
         /\ Len(stack[c]) = 1 /\ stack[c] = <<Head(stack[c])>> /\ Tail(stack[c]) = <<>>
         /\ guards[c] = 1 /\ \A d \in Caller \ {c} : guards[d] = 0
<1> USE DEF GlobalInv
<1>1. ready /\ \A d \in Caller : pc[d] # "assign" BY DEF Apart, Fresh
<1>2. /\ stack[c] \in Stacks /\ stack[c] # <<>> /\ ~(Len(stack[c]) > 1)
  BY DEF GlobalTypeOK, OneCaller, Apart, Exclusive
<1>4. Len(stack[c]) = 1 BY <1>2, StackShapes
<1>5. stack[c] = <<Head(stack[c])>> /\ Tail(stack[c]) = <<>>
  BY <1>2, <1>4, StackShapes
<1>6. guards[c] = 1
  <2>1. OneCaller(c) OBVIOUS
  <2> HIDE DEF GlobalInv
  <2> QED BY <1>4, <2>1 DEF OneCaller
<1>7. \A d \in Caller : guards[d] \in Nat BY DEF GlobalTypeOK
<1>8. \A d \in Caller \ {c} : guards[d] = 0 BY <1>6, <1>7 DEF Apart, Exclusive
<1> QED BY <1>1, <1>4, <1>5, <1>6, <1>8
\* A part of GLOBAL_PROC is assigned.
LEMMA AssignStep ==
  ASSUME GlobalInv, NEW c \in Caller, NEW part \in Part, Assign(c, part)
  PROVE  GlobalInv'
<1> USE DEF GlobalInv, Assign, Goes, procVars
<1>1. GlobalTypeOK' BY DEF GlobalTypeOK
<1>2. OneCaller(c)'
  <2>1. /\ stack'[c] = stack[c] /\ guards'[c] = guards[c] /\ left'[c] = left[c] \ {part}
        /\ pc'[c] = (IF left[c] = {part} THEN "spin" ELSE "assign") /\ part \in left[c]
    BY DEF GlobalTypeOK
  <2>2. pc[c] = "assign" /\ OneCaller(c) BY <2>1 DEF OneCaller
  <2>7. stack[c] \in Stacks BY DEF GlobalTypeOK
  <2> HIDE DEF GlobalInv, Assign, Goes, procVars
  <2>3. (left[c] = {part}) <=> (left'[c] = {}) BY <2>1
  <2>4. stack[c] # <<>> BY <2>2 DEF OneCaller
  <2>5. Len(stack[c]) = 1 /\ ~(Len(stack[c]) > 1)
    BY <2>2, <2>4, <2>7, StackShapes DEF OneCaller
  <2>6. guards[c] = 0 BY <2>2, <2>5 DEF OneCaller
  <2> QED BY <2>1, <2>3, <2>4, <2>5, <2>6 DEF OneCaller
<1>3. ASSUME NEW d \in Caller \ {c} PROVE OneCaller(d)'
  BY <1>3 DEF GlobalTypeOK, OneCaller
<1>4. ASSUME ~raced' PROVE Apart'
  <2>1. Apart BY <1>4
  <2>2. pc[c] = "assign" BY DEF OneCaller
  <2>3. Len(stack[c]) = 1 BY <2>2 DEF OneCaller
  <2>4. Fresh' 
    <3>1. /\ \A d \in Caller \ {c} : pc'[d] = "idle"
          /\ taken' = {} /\ ~locked' /\ stack'[c] # <<"close">>
          /\ ("tag" \in left'[c] \/ ready')
          /\ \A d \in Caller : guards'[d] = 0 /\ held'[d] = {}
      BY <2>1, <2>2 DEF Apart, Fresh, GlobalTypeOK
    <3>2. ~ready' => pc'[c] \in {"idle", "assign"}
      BY <2>1, <2>2 DEF Apart, Fresh, GlobalTypeOK, Part
    <3> QED BY <3>1, <3>2 DEF Fresh
  <2>5. Exclusive' BY <2>1, <2>2, <2>3 DEF Apart, Exclusive, Fresh, GlobalTypeOK
  <2>6. Owned' BY <2>1, <2>2 DEF Apart, Owned, Fresh, GlobalTypeOK
  <2>7. Dropped' BY <2>1, <2>2 DEF Apart, Dropped, Closing, Fresh, GlobalTypeOK
  <2> QED BY <2>4, <2>5, <2>6, <2>7 DEF Apart
<1> QED BY <1>1, <1>2, <1>3, <1>4

\* The flag is found clear and is set.
LEMMA AcquireStep ==
  ASSUME GlobalInv, NEW c \in Caller, Acquire(c)
  PROVE  GlobalInv'
<1> USE DEF GlobalInv, Acquire, Goes, procVars
<1>1. GlobalTypeOK' BY DEF GlobalTypeOK
<1>2. OneCaller(c)'
  <2>1. /\ stack'[c] = stack[c] /\ guards'[c] = guards[c] + 1 /\ left'[c] = left[c]
        /\ pc[c] = "spin" /\ pc'[c] = "in"
    BY DEF GlobalTypeOK
  <2>2. OneCaller(c) OBVIOUS
  <2> HIDE DEF GlobalInv, Acquire, Goes, procVars
  <2> QED BY <2>1, <2>2 DEF OneCaller
<1>3. ASSUME NEW d \in Caller \ {c} PROVE OneCaller(d)'
  BY <1>3 DEF GlobalTypeOK, OneCaller
<1>4. ASSUME ~raced' PROVE Apart'
  <2>1. Apart BY <1>4
  <2>2. \A d \in Caller : guards[d] = 0 BY <2>1 DEF Apart, Exclusive, GlobalTypeOK
  <2>3. ~(Len(stack[c]) > 1) BY <2>2 DEF OneCaller
  <2>4. Fresh' BY <2>1 DEF Apart, Fresh, GlobalTypeOK
  <2>5. Exclusive' BY <2>1, <2>2, <2>3 DEF Apart, Exclusive, OneCaller, GlobalTypeOK
  <2>6. Owned' BY <2>1 DEF Apart, Owned, GlobalTypeOK
  <2>7. Dropped' BY <2>1 DEF Apart, Dropped, Closing, GlobalTypeOK
  <2> QED BY <2>4, <2>5, <2>6, <2>7 DEF Apart
<1> QED BY <1>1, <1>2, <1>3, <1>4

\* A free descriptor is found.
LEMMA FindStep ==
  ASSUME GlobalInv, NEW c \in Caller, Find(c)
  PROVE  GlobalInv'
<1> USE DEF GlobalInv, Find, Goes, procVars
<1>1. GlobalTypeOK' 
  <2>1. Min(Fd \ taken) \in Fd \ taken
    <3>1. Fd \ taken \in SUBSET Nat BY GlobalAssumption DEF Fd
    <3> QED BY <3>1, MinOfNats
  <2> QED BY <2>1 DEF GlobalTypeOK
<1>2. OneCaller(c)'
  <2>1. /\ stack'[c] = stack[c] /\ guards'[c] = guards[c] /\ left'[c] = left[c]
        /\ pc[c] = "in" /\ pc'[c] = "store" /\ Head(stack[c]) = "open"
        /\ found'[c] = Min(Fd \ taken) /\ Fd \ taken # {}
    BY DEF GlobalTypeOK
  <2>2. OneCaller(c) OBVIOUS
  <2>3. Min(Fd \ taken) \in Fd \ taken
    <3>1. Fd \ taken \in SUBSET Nat BY GlobalAssumption DEF Fd
    <3> QED BY <2>1, <3>1, MinOfNats
  <2> HIDE DEF GlobalInv, Find, Goes, procVars
  <2> QED BY <2>1, <2>2, <2>3 DEF OneCaller
<1>3. ASSUME NEW d \in Caller \ {c} PROVE OneCaller(d)'
  BY <1>3 DEF GlobalTypeOK, OneCaller
<1>4. ASSUME ~raced' PROVE Apart'
  <2>1. Apart BY <1>4
  <2>2. pc[c] \in {"in", "store", "unlock"} /\ ~raced BY <1>4
  <2>3. /\ ready /\ \A d \in Caller : pc[d] # "assign"
        /\ Len(stack[c]) = 1 /\ stack[c] = <<Head(stack[c])>> /\ Tail(stack[c]) = <<>>
        /\ guards[c] = 1 /\ \A d \in Caller \ {c} : guards[d] = 0
    BY <2>2, AloneUnderLock
  <2>9. Min(Fd \ taken) \in Fd \ taken
    <3>1. Fd \ taken \in SUBSET Nat BY GlobalAssumption DEF Fd
    <3> QED BY <3>1, MinOfNats
  <2>4. Fresh' BY <2>1, <2>3 DEF Apart, Fresh, GlobalTypeOK
  <2>5. Exclusive' BY <2>1, <2>3 DEF Apart, Exclusive, GlobalTypeOK
  <2>6. Owned' BY <2>1, <2>9 DEF Apart, Owned, GlobalTypeOK
  <2>7. Dropped' BY <2>1 DEF Apart, Dropped, Closing, GlobalTypeOK
  <2> QED BY <2>4, <2>5, <2>6, <2>7 DEF Apart
<1> QED BY <1>1, <1>2, <1>3, <1>4

\* It becomes one in use.
LEMMA StoreStep ==
  ASSUME GlobalInv, NEW c \in Caller, Store(c)
  PROVE  GlobalInv'
<1> USE DEF GlobalInv, Store, Goes, procVars
<1>1. GlobalTypeOK' BY DEF GlobalTypeOK, OneCaller
<1>2. OneCaller(c)'
  <2>1. /\ stack'[c] = stack[c] /\ guards'[c] = guards[c] /\ left'[c] = left[c]
        /\ pc[c] = "store" /\ pc'[c] = "unlock"
    BY DEF GlobalTypeOK
  <2>2. OneCaller(c) OBVIOUS
  <2> HIDE DEF GlobalInv, Store, Goes, procVars
  <2> QED BY <2>1, <2>2 DEF OneCaller
<1>3. ASSUME NEW d \in Caller \ {c} PROVE OneCaller(d)'
  BY <1>3 DEF GlobalTypeOK, OneCaller
<1>4. ASSUME ~raced' PROVE Apart'
  <2>1. Apart BY <1>4
  <2>2. pc[c] \in {"in", "store", "unlock"} /\ ~raced BY <1>4
  <2>3. /\ ready /\ \A d \in Caller : pc[d] # "assign"
        /\ Len(stack[c]) = 1 /\ stack[c] = <<Head(stack[c])>> /\ Tail(stack[c]) = <<>>
        /\ guards[c] = 1 /\ \A d \in Caller \ {c} : guards[d] = 0
    BY <2>2, AloneUnderLock
  <2>9. \A d \in Caller \ {c} : pc[d] # "store" BY <2>3 DEF OneCaller, GlobalTypeOK
  <2>4. Fresh' BY <2>1, <2>3 DEF Apart, Fresh, GlobalTypeOK
  <2>5. Exclusive' BY <2>1, <2>3 DEF Apart, Exclusive, GlobalTypeOK
  <2>6. Owned' BY <2>1, <2>9 DEF Apart, Owned, GlobalTypeOK
  <2>7. Dropped' BY <2>1 DEF Apart, Dropped, Closing, Owned, GlobalTypeOK
  <2> QED BY <2>4, <2>5, <2>6, <2>7 DEF Apart
<1> QED BY <1>1, <1>2, <1>3, <1>4

\* No descriptor is free.
LEMMA FindNoneStep ==
  ASSUME GlobalInv, NEW c \in Caller, FindNone(c)
  PROVE  GlobalInv'
<1> USE DEF GlobalInv, FindNone, Goes, procVars
<1>1. GlobalTypeOK' 
  <2>1. stack[c] \in Stacks /\ stack[c] # <<>> BY DEF GlobalTypeOK, OneCaller
  <2>2. Len(stack[c]) > 1 => Tail(Tail(stack[c])) \in Stacks
    BY <2>1, StackShapes, Tails DEF Stacks
  <2>3. stack'[c] \in Stacks BY <2>1, <2>2, StackShapes DEF GlobalTypeOK
  <2>4. stack' \in [Caller -> Stacks] BY <2>3 DEF GlobalTypeOK
  <2> QED BY <2>4 DEF GlobalTypeOK
<1>2. OneCaller(c)'
  <2>1. /\ stack[c] \in Stacks /\ stack[c] # <<>> /\ Head(stack[c]) = "open"
        /\ pc[c] = "in" /\ pc'[c] = "unlock" /\ guards'[c] = guards[c] /\ left'[c] = left[c]
        /\ stack'[c] = (IF Len(stack[c]) = 1 THEN stack[c] ELSE Tail(Tail(stack[c])))
    BY DEF GlobalTypeOK, OneCaller
  <2>2. OneCaller(c) OBVIOUS
  <2> HIDE DEF GlobalInv, FindNone, Goes, procVars
  <2>3. (Len(stack[c]) = 1 /\ ~(Len(stack[c]) > 1)) \/ stack[c] = FileCalls BY <2>1, StackShapes
  <2>4. Len(FileCalls) > 1 /\ Len(FileCalls) # 1
        /\ Tail(Tail(FileCalls)) = <<"close", "mount">>
    BY Tails DEF FileCalls
  <2>5. Len(<<"close", "mount">>) > 1 /\ <<"close", "mount">> # <<>> OBVIOUS
  <2>6. stack'[c] # <<>> /\ (Len(stack'[c]) > 1 <=> Len(stack[c]) > 1)
    <3>1. CASE Len(stack[c]) = 1 BY <2>1, <3>1
    <3>2. CASE stack[c] = FileCalls BY <2>1, <2>4, <2>5, <3>2
    <3> QED BY <2>3, <3>1, <3>2
  <2> QED BY <2>1, <2>2, <2>6 DEF OneCaller
<1>3. ASSUME NEW d \in Caller \ {c} PROVE OneCaller(d)'
  BY <1>3 DEF GlobalTypeOK, OneCaller
<1>4. ASSUME ~raced' PROVE Apart'
  <2>1. Apart BY <1>4
  <2>2. pc[c] \in {"in", "store", "unlock"} /\ ~raced BY <1>4
  <2>3. /\ ready /\ \A d \in Caller : pc[d] # "assign"
        /\ Len(stack[c]) = 1 /\ stack[c] = <<Head(stack[c])>> /\ Tail(stack[c]) = <<>>
        /\ guards[c] = 1 /\ \A d \in Caller \ {c} : guards[d] = 0
    BY <2>2, AloneUnderLock
  <2>9. stack' = stack BY <2>3 DEF GlobalTypeOK
  <2>4. Fresh' BY <2>1, <2>3 DEF Apart, Fresh, GlobalTypeOK
  <2>5. Exclusive' BY <2>1, <2>3, <2>9 DEF Apart, Exclusive, GlobalTypeOK
  <2>6. Owned' BY <2>1 DEF Apart, Owned, GlobalTypeOK
  <2>7. Dropped' BY <2>1, <2>9 DEF Apart, Dropped, Closing, GlobalTypeOK
  <2> QED BY <2>4, <2>5, <2>6, <2>7 DEF Apart
<1> QED BY <1>1, <1>2, <1>3, <1>4

\* A descriptor is dropped.
LEMMA DropStep ==
  ASSUME GlobalInv, NEW c \in Caller, Drop(c)
  PROVE  GlobalInv'
<1> USE DEF GlobalInv, Drop, Goes, procVars
<1>1. GlobalTypeOK' BY DEF GlobalTypeOK
<1>2. OneCaller(c)'
  <2>1. /\ stack'[c] = stack[c] /\ guards'[c] = guards[c] /\ left'[c] = left[c]
        /\ pc[c] = "in" /\ pc'[c] = "unlock"
    BY DEF GlobalTypeOK
  <2>2. OneCaller(c) OBVIOUS
  <2> HIDE DEF GlobalInv, Drop, Goes, procVars
  <2> QED BY <2>1, <2>2 DEF OneCaller
<1>3. ASSUME NEW d \in Caller \ {c} PROVE OneCaller(d)'
  BY <1>3 DEF GlobalTypeOK, OneCaller
<1>4. ASSUME ~raced' PROVE Apart'
  <2>1. Apart BY <1>4
  <2>2. pc[c] \in {"in", "store", "unlock"} /\ ~raced BY <1>4
  <2>3. /\ ready /\ \A d \in Caller : pc[d] # "assign"
        /\ Len(stack[c]) = 1 /\ stack[c] = <<Head(stack[c])>> /\ Tail(stack[c]) = <<>>
        /\ guards[c] = 1 /\ \A d \in Caller \ {c} : guards[d] = 0
    BY <2>2, AloneUnderLock
  <2>9. Closing(c) BY <2>3 DEF Closing
  <2>10. held' = held BY <2>1, <2>9 DEF Apart, Dropped, GlobalTypeOK
  <2>4. Fresh' BY <2>1, <2>3 DEF Apart, Fresh, GlobalTypeOK
  <2>5. Exclusive' BY <2>1, <2>3 DEF Apart, Exclusive, GlobalTypeOK
  <2>6. Owned' BY <2>1, <2>9, <2>10 DEF Apart, Owned, Dropped, GlobalTypeOK
  <2>7. Dropped' BY <2>1, <2>9, <2>10 DEF Apart, Dropped, Closing, GlobalTypeOK
  <2> QED BY <2>4, <2>5, <2>6, <2>7 DEF Apart
<1> QED BY <1>1, <1>2, <1>3, <1>4

\* Another call is done, or panics.
LEMMA OtherStep ==
  ASSUME GlobalInv, NEW c \in Caller, Other(c)
  PROVE  GlobalInv'
<1> USE DEF GlobalInv, Other, Goes, procVars
<1>1. GlobalTypeOK' BY DEF GlobalTypeOK
<1>2. OneCaller(c)'
  <2>1. /\ stack'[c] = stack[c] /\ guards'[c] = guards[c] /\ left'[c] = left[c]
        /\ pc[c] = "in" /\ pc'[c] \in {"unlock", "dead"}
    BY DEF GlobalTypeOK
  <2>2. OneCaller(c) OBVIOUS
  <2> HIDE DEF GlobalInv, Other, Goes, procVars
  <2> QED BY <2>1, <2>2 DEF OneCaller
<1>3. ASSUME NEW d \in Caller \ {c} PROVE OneCaller(d)'
  BY <1>3 DEF GlobalTypeOK, OneCaller
<1>4. ASSUME ~raced' PROVE Apart'
  <2>1. Apart BY <1>4
  <2>2. pc[c] \in {"in", "store", "unlock"} /\ ~raced BY <1>4
  <2>3. /\ ready /\ \A d \in Caller : pc[d] # "assign"
        /\ Len(stack[c]) = 1 /\ stack[c] = <<Head(stack[c])>> /\ Tail(stack[c]) = <<>>
        /\ guards[c] = 1 /\ \A d \in Caller \ {c} : guards[d] = 0
    BY <2>2, AloneUnderLock
  <2>4. Fresh' BY <2>1, <2>3 DEF Apart, Fresh, GlobalTypeOK
  <2>5. Exclusive' BY <2>1, <2>3 DEF Apart, Exclusive, GlobalTypeOK
  <2>6. Owned' BY <2>1 DEF Apart, Owned, GlobalTypeOK
  <2>7. Dropped' BY <2>1 DEF Apart, Dropped, Closing, GlobalTypeOK
  <2> QED BY <2>4, <2>5, <2>6, <2>7 DEF Apart
<1> QED BY <1>1, <1>2, <1>3, <1>4

\* A mount goes on to its next file.
LEMMA MountFileStep ==
  ASSUME GlobalInv, NEW c \in Caller, MountFile(c)
  PROVE  GlobalInv'
<1> USE DEF GlobalInv, MountFile, Goes, procVars
<1>1. GlobalTypeOK' 
  <2>1. FileCalls \in Stacks BY DEF Stacks
  <2>2. files'[c] \in 0..MaxFiles BY GlobalAssumption DEF GlobalTypeOK
  <2> QED BY <2>1, <2>2 DEF GlobalTypeOK
<1>2. OneCaller(c)'
  <2>1. /\ stack[c] \in Stacks /\ stack[c] # <<>> /\ Head(stack[c]) = "mount"
        /\ pc[c] = "in" /\ pc'[c] = "spin" /\ guards'[c] = guards[c] /\ left'[c] = left[c]
        /\ stack'[c] = FileCalls
    BY DEF GlobalTypeOK, OneCaller
  <2>2. OneCaller(c) OBVIOUS
  <2> HIDE DEF GlobalInv, MountFile, Goes, procVars
  <2>3. ~(Len(stack[c]) > 1) BY <2>1, StackShapes
  <2>4. Len(FileCalls) = 4 /\ FileCalls # <<>> BY DEF FileCalls
  <2> QED BY <2>1, <2>2, <2>3, <2>4 DEF OneCaller
<1>3. ASSUME NEW d \in Caller \ {c} PROVE OneCaller(d)'
  BY <1>3 DEF GlobalTypeOK, OneCaller
<1>4. ASSUME ~raced' PROVE Apart'
  <2>1. Apart BY <1>4
  <2>2. pc[c] \in {"in", "store", "unlock"} /\ ~raced BY <1>4
  <2>3. /\ ready /\ \A d \in Caller : pc[d] # "assign"
        /\ Len(stack[c]) = 1 /\ stack[c] = <<Head(stack[c])>> /\ Tail(stack[c]) = <<>>
        /\ guards[c] = 1 /\ \A d \in Caller \ {c} : guards[d] = 0
    BY <2>2, AloneUnderLock
  <2>9. FileCalls # <<"close">> BY DEF FileCalls
  <2>4. Fresh' BY <2>1, <2>3 DEF Apart, Fresh, GlobalTypeOK
  <2>5. Exclusive' BY <2>1, <2>3 DEF Apart, Exclusive, GlobalTypeOK
  <2>6. Owned' BY <2>1 DEF Apart, Owned, GlobalTypeOK
  <2>7. Dropped' BY <2>1, <2>9 DEF Apart, Dropped, Closing, GlobalTypeOK
  <2> QED BY <2>4, <2>5, <2>6, <2>7 DEF Apart
<1> QED BY <1>1, <1>2, <1>3, <1>4

\* A mount is done.
LEMMA MountEndStep ==
  ASSUME GlobalInv, NEW c \in Caller, MountEnd(c)
  PROVE  GlobalInv'
<1> USE DEF GlobalInv, MountEnd, Goes, procVars
<1>1. GlobalTypeOK' BY DEF GlobalTypeOK
<1>2. OneCaller(c)'
  <2>1. /\ stack'[c] = stack[c] /\ guards'[c] = guards[c] /\ left'[c] = left[c]
        /\ pc[c] = "in" /\ pc'[c] = "unlock"
    BY DEF GlobalTypeOK
  <2>2. OneCaller(c) OBVIOUS
  <2> HIDE DEF GlobalInv, MountEnd, Goes, procVars
  <2> QED BY <2>1, <2>2 DEF OneCaller
<1>3. ASSUME NEW d \in Caller \ {c} PROVE OneCaller(d)'
  BY <1>3 DEF GlobalTypeOK, OneCaller
<1>4. ASSUME ~raced' PROVE Apart'
  <2>1. Apart BY <1>4
  <2>2. pc[c] \in {"in", "store", "unlock"} /\ ~raced BY <1>4
  <2>3. /\ ready /\ \A d \in Caller : pc[d] # "assign"
        /\ Len(stack[c]) = 1 /\ stack[c] = <<Head(stack[c])>> /\ Tail(stack[c]) = <<>>
        /\ guards[c] = 1 /\ \A d \in Caller \ {c} : guards[d] = 0
    BY <2>2, AloneUnderLock
  <2>4. Fresh' BY <2>1, <2>3 DEF Apart, Fresh, GlobalTypeOK
  <2>5. Exclusive' BY <2>1, <2>3 DEF Apart, Exclusive, GlobalTypeOK
  <2>6. Owned' BY <2>1 DEF Apart, Owned, GlobalTypeOK
  <2>7. Dropped' BY <2>1 DEF Apart, Dropped, Closing, GlobalTypeOK
  <2> QED BY <2>4, <2>5, <2>6, <2>7 DEF Apart
<1> QED BY <1>1, <1>2, <1>3, <1>4

\* The guard is dropped.
LEMMA UnlockStep ==
  ASSUME GlobalInv, NEW c \in Caller, Unlock(c)
  PROVE  GlobalInv'
<1> USE DEF GlobalInv, Unlock, Goes, procVars
<1>1. GlobalTypeOK' 
  <2>1. stack[c] \in Stacks /\ stack[c] # <<>> BY DEF GlobalTypeOK, OneCaller
  <2>2. guards[c] \in Nat \ {0} BY DEF OneCaller, GlobalTypeOK
  <2>3. stack' \in [Caller -> Stacks] BY <2>1, StackShapes DEF GlobalTypeOK
  <2>4. guards' \in [Caller -> Nat] BY <2>2 DEF GlobalTypeOK
  <2> QED BY <2>3, <2>4 DEF GlobalTypeOK
<1>2. OneCaller(c)'
  <2> DEFINE rest == Tail(stack[c])
  <2>1. /\ stack[c] \in Stacks /\ stack[c] # <<>>
        /\ pc[c] = "unlock" /\ guards'[c] = guards[c] - 1 /\ left'[c] = left[c]
        /\ stack'[c] = rest /\ rest \in Stacks
        /\ pc'[c] = (IF rest = <<>> THEN "idle"
                     ELSE IF Head(rest) = "mount" THEN "in" ELSE "spin")
    BY StackShapes DEF GlobalTypeOK, OneCaller
  <2>2. OneCaller(c) OBVIOUS
  <2> HIDE DEF GlobalInv, Unlock, Goes, procVars
  <2>3. CASE Len(stack[c]) = 1
    <3>1. rest = <<>> /\ Len(<<>>) = 0 BY <2>1, <2>3, StackShapes
    <3> QED BY <2>1, <2>2, <2>3, <3>1 DEF OneCaller
  <2>4. CASE Len(stack[c]) > 1
    <3>1. rest # <<>> /\ (Len(rest) = 1 <=> Head(rest) = "mount") /\ (Len(rest) > 1 <=> Len(rest) # 1)
      BY <2>1, <2>4, StackShapes
    <3> HIDE DEF rest
    <3>2. guards[c] = 2 BY <2>1, <2>2, <2>4 DEF OneCaller
    <3>3. guards'[c] = 1 BY <2>1, <3>2
    <3>4. CASE Len(rest) = 1
      <4>1. pc'[c] = "in" /\ ~(Len(rest) > 1) BY <2>1, <3>1, <3>4
      <4> QED BY <2>1, <2>2, <3>1, <3>3, <4>1 DEF OneCaller
    <3>5. CASE Len(rest) > 1
      <4>1. pc'[c] = "spin" BY <2>1, <3>1, <3>5
      <4> QED BY <2>1, <2>2, <3>1, <3>3, <3>5, <4>1 DEF OneCaller
    <3> QED BY <3>1, <3>4, <3>5
  <2>5. Len(stack[c]) > 1 <=> Len(stack[c]) # 1 BY <2>1, StackShapes
  <2> QED BY <2>3, <2>4, <2>5
<1>3. ASSUME NEW d \in Caller \ {c} PROVE OneCaller(d)'
  BY <1>3 DEF GlobalTypeOK, OneCaller
<1>4. ASSUME ~raced' PROVE Apart'
  <2>1. Apart BY <1>4
  <2>2. pc[c] \in {"in", "store", "unlock"} /\ ~raced BY <1>4
  <2>3. /\ ready /\ \A d \in Caller : pc[d] # "assign"
        /\ Len(stack[c]) = 1 /\ stack[c] = <<Head(stack[c])>> /\ Tail(stack[c]) = <<>>
        /\ guards[c] = 1 /\ \A d \in Caller \ {c} : guards[d] = 0
    BY <2>2, AloneUnderLock
  <2>9. pc'[c] = "idle" /\ stack'[c] = <<>> BY <2>3 DEF GlobalTypeOK
  <2>4. Fresh' BY <2>1, <2>3, <2>9 DEF Apart, Fresh, GlobalTypeOK
  <2>5. Exclusive' BY <2>1, <2>3, <2>9 DEF Apart, Exclusive, GlobalTypeOK
  <2>6. Owned' BY <2>1, <2>9 DEF Apart, Owned, GlobalTypeOK
  <2>7. Dropped' BY <2>1, <2>9 DEF Apart, Dropped, Closing, GlobalTypeOK
  <2> QED BY <2>4, <2>5, <2>6, <2>7 DEF Apart
<1> QED BY <1>1, <1>2, <1>3, <1>4

LEMMA GlobalInvNext == GlobalInv /\ [GlobalNext]_globalVars => GlobalInv'
<1> SUFFICES ASSUME GlobalInv, [GlobalNext]_globalVars PROVE GlobalInv'
  OBVIOUS
<1>1. ASSUME NEW c \in Caller, Calls(c) PROVE GlobalInv'
  <2>1. files \in [Caller -> 0..MaxFiles] BY DEF GlobalInv, GlobalTypeOK
  <2>2. CASE EnterOpen(c) BY <2>1, <2>2, EnterStep DEF EnterOpen
  <2>3. CASE EnterOther(c) BY <2>1, <2>3, EnterStep DEF EnterOther
  <2>4. CASE \E fd \in Fd : EnterClose(c, fd) BY <2>1, <2>4, EnterStep DEF EnterClose
  <2>5. ASSUME NEW count \in 0..MaxFiles, EnterMount(c, count) PROVE GlobalInv'
    <3>1. files' \in [Caller -> 0..MaxFiles] BY <2>1, <2>5 DEF EnterMount
    <3> QED BY <2>5, <3>1, EnterStep DEF EnterMount
  <2> QED BY <1>1, <2>2, <2>3, <2>4, <2>5 DEF Calls
<1>2. ASSUME NEW c \in Caller, Proceeds(c) PROVE GlobalInv'
  BY <1>2, AssignStep, AcquireStep, FindStep, StoreStep, FindNoneStep, DropStep,
     OtherStep, MountFileStep, MountEndStep, UnlockStep DEF Proceeds
<1>3. CASE UNCHANGED globalVars
  BY <1>3 DEF globalVars, procVars, callerVars, GlobalInv, GlobalTypeOK, OneCaller,
              Apart, Fresh, Exclusive, Owned, Dropped, Closing
<1> QED BY <1>1, <1>2, <1>3 DEF GlobalNext

LEMMA GlobalInvAlways == GlobalSpec => []GlobalInv
  BY GlobalInvInit, GlobalInvNext, PTL DEF GlobalSpec

-----------------------------------------------------------------------------
\* The callers and their Proc keep their types, even when first calls meet.
THEOREM CallersKeepTypes == GlobalSpec => []GlobalTypeOK
<1>1. GlobalInv => GlobalTypeOK BY DEF GlobalInv
<1> QED BY <1>1, GlobalInvAlways, PTL

\* The spinlock excludes: one guard at a time, and the flag tells of it, for
\* any number of callers, unless first calls have met.
THEOREM LockExcludes == GlobalSpec => []GuardIsExclusive
<1>1. GlobalInv => GuardIsExclusive
  <2> SUFFICES ASSUME GlobalInv, ~raced PROVE GuardIsExclusive!2
    BY DEF GuardIsExclusive
  <2>1. Exclusive /\ locked \in BOOLEAN BY DEF GlobalInv, Apart, GlobalTypeOK
  <2>2. ASSUME NEW c \in Caller PROVE guards[c] <= 1
    <3>1. OneCaller(c) BY DEF GlobalInv
    <3>2. Len(stack[c]) > 1 => pc[c] = "spin" BY <2>1 DEF Exclusive
    <3>3. CASE Len(stack[c]) > 1 BY <3>1, <3>2, <3>3 DEF OneCaller
    <3>4. CASE ~(Len(stack[c]) > 1) BY <3>1, <3>4 DEF OneCaller
    <3> QED BY <3>3, <3>4
  <2> QED BY <2>1, <2>2 DEF Exclusive
<1> QED BY <1>1, GlobalInvAlways, PTL

\* No descriptor is given to two callers at a time, for any number of callers
\* and any length of the table, unless first calls have met.
THEOREM OneOwnerEach == GlobalSpec => []DescriptorsHaveOneOwner
<1>1. GlobalInv => DescriptorsHaveOneOwner
  BY DEF GlobalInv, Apart, Owned, DescriptorsHaveOneOwner
<1> QED BY <1>1, GlobalInvAlways, PTL

\* First calls meet only while one assigns to a GLOBAL_PROC that nobody has used.
THEOREM RacesAreEarly == GlobalSpec => RacesOnlyAtFirst
<1> DEFINE A == ~raced /\ raced' => /\ ~locked /\ taken = {}
                                    /\ \A c \in Caller : guards[c] = 0 /\ held[c] = {}
<1>1. GlobalInv /\ [GlobalNext]_globalVars => [A]_globalVars
  <2> SUFFICES ASSUME GlobalInv, GlobalNext, ~raced, raced'
               PROVE  /\ ~locked /\ taken = {}
                      /\ \A c \in Caller : guards[c] = 0 /\ held[c] = {}
    OBVIOUS
  <2>1. PICK c \in Caller : Calls(c)
    BY DEF GlobalNext, Proceeds, Assign, Acquire, Find, Store, FindNone, Drop, Other,
           MountFile, MountEnd, Unlock
  <2>2. PICK d \in Caller : left[d] # {}
    BY <2>1 DEF Calls, EnterOpen, EnterOther, EnterClose, EnterMount, Enter
  <2>3. pc[d] = "assign" /\ Fresh BY <2>2 DEF GlobalInv, OneCaller, Apart
  <2> QED BY <2>3 DEF Fresh
<1> QED BY <1>1, GlobalInvAlways, PTL DEF GlobalSpec, RacesOnlyAtFirst

\* Nobody assigns, or will: GLOBAL_PROC is there.
Settled == ready /\ ~raced /\ \A c \in Caller : left[c] = {}

\* From the moment any caller has got the lock without first calls having met,
\* they never will: what is promised unless they meet holds from then on.
THEOREM RacesAreOver ==
  GlobalSpec => []((\E c \in Caller : guards[c] > 0) /\ ~raced => []~raced)
<1>1. GlobalInv /\ (\E c \in Caller : guards[c] > 0) /\ ~raced => Settled
  <2> SUFFICES ASSUME GlobalInv, NEW c \in Caller, guards[c] > 0, ~raced PROVE Settled
    OBVIOUS
  <2>1. Fresh /\ guards[c] # 0 BY DEF GlobalInv, Apart, GlobalTypeOK
  <2>2. ready /\ \A d \in Caller : pc[d] # "assign" BY <2>1 DEF Fresh, GlobalInv, GlobalTypeOK
  <2> QED BY <2>2 DEF Settled, GlobalInv, OneCaller
<1>2. GlobalInv /\ Settled /\ [GlobalNext]_globalVars => Settled'
  <2> SUFFICES ASSUME GlobalInv, Settled, [GlobalNext]_globalVars PROVE Settled' OBVIOUS
  <2>1. ASSUME NEW c \in Caller, NEW call, Enter(c, call) PROVE Settled'
    BY <2>1 DEF Enter, Settled, GlobalInv, GlobalTypeOK, procVars
  <2>2. ASSUME NEW c \in Caller, Calls(c) PROVE Settled'
    BY <2>1, <2>2 DEF Calls, EnterOpen, EnterOther, EnterClose, EnterMount
  <2>3. ASSUME NEW c \in Caller, Proceeds(c) PROVE Settled'
    <3>1. ~\E part \in Part : Assign(c, part) BY DEF Assign, Settled
    <3>2. ready' = ready /\ raced' = raced /\ left' = left
      BY <2>3, <3>1 DEF Proceeds, Acquire, Find, Store, FindNone, Drop, Other, MountFile,
                        MountEnd, Unlock, procVars
    <3> QED BY <3>2 DEF Settled
  <2>4. CASE UNCHANGED globalVars BY <2>4 DEF globalVars, procVars, callerVars, Settled
  <2> QED BY <2>2, <2>3, <2>4 DEF GlobalNext
<1>3. Settled => ~raced BY DEF Settled
<1> QED BY <1>1, <1>2, <1>3, GlobalInvAlways, PTL DEF GlobalSpec

\* Each step of the callers is a step of the pool: a Store gives, the entry
\* into a close takes back, the other steps are nothing to it.
LEMMA StepOfPool ==
  ASSUME GlobalInv, GlobalInv', [GlobalNext]_globalVars
  PROVE  [Pool!PoolNext]_<<held, ~raced>>
<1> USE DEF GlobalInv
<1>1. CASE raced'
  BY <1>1 DEF GlobalTypeOK, Pool!PoolNext
<1>2. ASSUME ~raced', NEW c \in Caller, Calls(c) PROVE Pool!PoolNext \/ UNCHANGED <<held, ~raced>>
  <2>1. ~raced BY <1>2 DEF Calls, EnterOpen, EnterOther, EnterClose, EnterMount, Enter, GlobalTypeOK
  <2>2. CASE \E fd \in Fd : EnterClose(c, fd)
    BY <1>2, <2>1, <2>2 DEF EnterClose, Pool!PoolNext, Pool!TakeBack
  <2>3. CASE ~\E fd \in Fd : EnterClose(c, fd)
    BY <1>2, <2>1, <2>3 DEF Calls, EnterOpen, EnterOther, EnterMount
  <2> QED BY <2>2, <2>3
<1>3. ASSUME ~raced', NEW c \in Caller, Proceeds(c) PROVE Pool!PoolNext \/ UNCHANGED <<held, ~raced>>
  <2>1. raced' = raced /\ Apart
    BY <1>3 DEF Proceeds, Assign, Acquire, Find, Store, FindNone, Drop, Other,
                MountFile, MountEnd, Unlock
  <2>2. CASE Store(c)
    <3>1. found[c] \in Fd /\ found[c] \notin taken
      BY <2>1, <2>2 DEF Store, OneCaller, Apart, Owned
    <3>2. \A d \in Caller : found[c] \notin held[d] BY <2>1, <3>1 DEF Apart, Owned
    <3>3. Pool!Give(c, found[c]) BY <2>2, <3>2 DEF Store, Pool!Give
    <3>4. ~raced /\ ~raced' BY <1>3, <2>1
    <3> HIDE DEF GlobalInv
    <3> QED BY <3>1, <3>3, <3>4 DEF Pool!PoolNext
  <2>3. CASE Drop(c)
    <3>1. pc[c] = "in" /\ stack[c] = <<"close">>
      BY <1>3, <2>1, <2>3, AloneUnderLock DEF Drop
    <3>2. found[c] \notin held[c] BY <2>1, <3>1 DEF Apart, Dropped, Closing
    <3> QED BY <2>1, <2>3, <3>2 DEF Drop, GlobalTypeOK
  <2>4. CASE ~Store(c) /\ ~Drop(c)
    BY <1>3, <2>1, <2>4 DEF Proceeds, Assign, Acquire, Find, FindNone, Other,
                            MountFile, MountEnd, Unlock
  <2> QED BY <2>2, <2>3, <2>4
<1>4. CASE UNCHANGED globalVars
  BY <1>4 DEF globalVars, callerVars
<1> QED BY <1>1, <1>2, <1>3, <1>4 DEF GlobalNext

\* open and close, each of many steps under the lock, share out a pool of
\* descriptors: what the callers see is what single steps would do.
THEOREM CallersShareAPool == GlobalSpec => ImplementsPool
<1>1. GlobalInit => Pool!PoolInit BY DEF GlobalInit, Pool!PoolInit
<1> QED BY <1>1, GlobalInvAlways, StepOfPool, PTL
        DEF GlobalSpec, ImplementsPool, Pool!PoolSpec, Pool!poolVars
=============================================================================
