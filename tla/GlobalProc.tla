----------------------------- MODULE GlobalProc -----------------------------
(***************************************************************************)
(* How calls of several callers, the threads of a wasm instance, reach the *)
(* one Proc: GLOBAL_PROC and get_or_init_proc of src/system.rs, the        *)
(* spinlock of src/sync/mod.rs, and wasm_vfs_mount_in_memory, which makes  *)
(* calls from within a call.                                               *)
(*                                                                         *)
(* Of the Proc only the descriptor table is kept, and of the calls, four:  *)
(* "open" and "close", which change it, "other", which stands for the rest *)
(* and may panic, and "mount".  A caller closes only descriptors that it   *)
(* has been given.                                                         *)
(***************************************************************************)
EXTENDS Integers, Sequences, FiniteSetsExt

CONSTANTS
  Caller,
  FdTableLen,   \* length of fd_table, 1024 in the program
  MaxFiles      \* bound of the model on the count passed to mount

ASSUME GlobalAssumption == FdTableLen \in Nat /\ MaxFiles \in Nat

VARIABLES
  ready,    \* GLOBAL_PROC is Some
  locked,   \* the flag of its Mutex
  taken,    \* the descriptors in use in its Proc
  pc,       \* where each caller is in the first call of its stack
  stack,    \* the calls each caller is to make, those of a mount before it
  files,    \* how many files its mount has still to make
  left,     \* the parts of GLOBAL_PROC it has still to assign
  guards,   \* how many guards of the Mutex it holds
  found,    \* the descriptor its open has chosen, or its close is given
  held,     \* the descriptors it has been given and has not closed
  raced     \* a call has begun while another caller was assigning

procVars == <<ready, locked, taken>>
callerVars == <<pc, stack, files, left, guards, found, held>>
globalVars == <<procVars, callerVars, raced>>

Fd == 3..(FdTableLen - 1)
Part == {"tag", "flag", "proc"}

\* What a mount has to do for one file before it goes on.
FileCalls == <<"open", "other", "close", "mount">>
Stacks == {<<>>, <<"open">>, <<"close">>, <<"other">>, <<"mount">>,
           FileCalls, <<"other", "close", "mount">>, <<"close", "mount">>}

GlobalInit ==
  /\ ready = FALSE /\ locked = FALSE /\ taken = {}
  /\ pc = [c \in Caller |-> "idle"]
  /\ stack = [c \in Caller |-> <<>>]
  /\ files = [c \in Caller |-> 0]
  /\ left = [c \in Caller |-> {}]
  /\ guards = [c \in Caller |-> 0]
  /\ found = [c \in Caller |-> 0]
  /\ held = [c \in Caller |-> {}]
  /\ raced = FALSE

Goes(c, where) == pc' = [pc EXCEPT ![c] = where]

\* Slip: GLOBAL_PROC is assigned anew by every call.
EnterAssigning(c, call) ==
  /\ pc[c] = "idle"
  /\ stack' = [stack EXCEPT ![c] = <<call>>]
  /\ Goes(c, "assign")
  /\ left' = [left EXCEPT ![c] = Part]
  /\ raced' = (raced \/ \E d \in Caller \ {c} : left[d] # {})
  /\ UNCHANGED <<procVars, guards>>

\* A caller calls: get_or_init_proc finds GLOBAL_PROC there, or starts to
\* assign it, whatever another caller is about.
Enter(c, call) ==
  /\ pc[c] = "idle"
  /\ stack' = [stack EXCEPT ![c] = <<call>>]
  /\ Goes(c, IF ready THEN "spin" ELSE "assign")
  /\ left' = [left EXCEPT ![c] = IF ready THEN {} ELSE Part]
  /\ raced' = (raced \/ \E d \in Caller \ {c} : left[d] # {})
  /\ UNCHANGED <<procVars, guards>>

EnterOpen(c) == Enter(c, "open") /\ UNCHANGED <<files, found, held>>
EnterOther(c) == Enter(c, "other") /\ UNCHANGED <<files, found, held>>
EnterClose(c, fd) ==
  /\ fd \in held[c]
  /\ Enter(c, "close")
  /\ found' = [found EXCEPT ![c] = fd]
  /\ held' = [held EXCEPT ![c] = @ \ {fd}]
  /\ UNCHANGED files
EnterMount(c, count) ==
  /\ Enter(c, "mount")
  /\ files' = [files EXCEPT ![c] = count]
  /\ UNCHANGED <<found, held>>

\* A part of Some(Mutex::new(Proc::new())) reaches GLOBAL_PROC: which one
\* first is for the compiler to say.
Assign(c, part) ==
  /\ part \in left[c]
  /\ ready' = (ready \/ part = "tag")
  /\ locked' = (locked /\ part # "flag")
  /\ taken' = IF part = "proc" THEN {} ELSE taken
  /\ left' = [left EXCEPT ![c] = @ \ {part}]
  /\ Goes(c, IF left[c] = {part} THEN "spin" ELSE "assign")
  /\ UNCHANGED <<stack, files, guards, found, held, raced>>

\* Slip: the flag is read, and set later.
AcquireUnchecked(c) ==
  /\ pc[c] = "spin"
  /\ locked' = TRUE
  /\ guards' = [guards EXCEPT ![c] = @ + 1]
  /\ Goes(c, "in")
  /\ UNCHANGED <<ready, taken, stack, files, left, found, held, raced>>

\* lock(): the compare-and-exchange that finds the flag clear, one that fails
\* being no step.
Acquire(c) ==
  /\ pc[c] = "spin"
  /\ ~locked
  /\ locked' = TRUE
  /\ guards' = [guards EXCEPT ![c] = @ + 1]
  /\ Goes(c, "in")
  /\ UNCHANGED <<ready, taken, stack, files, left, found, held, raced>>

-----------------------------------------------------------------------------
(* Under the lock                                                          *)

\* Slip: the lock is given up before the descriptor is in use.
FindReleasing(c) ==
  /\ pc[c] = "in" /\ Head(stack[c]) = "open"
  /\ Fd \ taken # {}
  /\ found' = [found EXCEPT ![c] = Min(Fd \ taken)]
  /\ locked' = FALSE
  /\ Goes(c, "store")
  /\ UNCHANGED <<ready, taken, stack, files, left, guards, held, raced>>

\* Slip: one descriptor past the end of the table is free as well.
FindBeyond(c) ==
  /\ pc[c] = "in" /\ Head(stack[c]) = "open"
  /\ (3..FdTableLen) \ taken # {}
  /\ found' = [found EXCEPT ![c] = Min((3..FdTableLen) \ taken)]
  /\ Goes(c, "store")
  /\ UNCHANGED <<procVars, stack, files, left, guards, held, raced>>

\* open finds the lowest free descriptor, and makes it one in use.
Find(c) ==
  /\ pc[c] = "in" /\ Head(stack[c]) = "open"
  /\ Fd \ taken # {}
  /\ found' = [found EXCEPT ![c] = Min(Fd \ taken)]
  /\ Goes(c, "store")
  /\ UNCHANGED <<procVars, stack, files, left, guards, held, raced>>

Store(c) ==
  /\ pc[c] = "store"
  /\ taken' = taken \cup {found[c]}
  /\ held' = [held EXCEPT ![c] = @ \cup {found[c]}]
  /\ Goes(c, "unlock")
  /\ UNCHANGED <<ready, locked, stack, files, left, guards, found, raced>>

\* Slip: the early return leaves the lock as it is.
FindNoneKeeping(c) ==
  /\ pc[c] = "in" /\ Head(stack[c]) = "open"
  /\ Fd \ taken = {}
  /\ stack' = [stack EXCEPT ![c] = <<>>]
  /\ Goes(c, "idle")
  /\ UNCHANGED <<procVars, files, left, guards, found, held, raced>>

\* With none free it returns -1, and a mount skips the file's other two calls.
FindNone(c) ==
  /\ pc[c] = "in" /\ Head(stack[c]) = "open"
  /\ Fd \ taken = {}
  /\ stack' = [stack EXCEPT ![c] =
                 IF Len(@) = 1 THEN @ ELSE Tail(Tail(@))]
  /\ Goes(c, "unlock")
  /\ UNCHANGED <<procVars, files, left, guards, found, held, raced>>

\* close; a mount closes the descriptor its own open has found.
Drop(c) ==
  /\ pc[c] = "in" /\ Head(stack[c]) = "close"
  /\ taken' = taken \ {found[c]}
  /\ held' = [held EXCEPT ![c] = @ \ {found[c]}]
  /\ Goes(c, "unlock")
  /\ UNCHANGED <<ready, locked, stack, files, left, guards, found, raced>>

\* A call that panics leaves its guard where it is.
Other(c) ==
  /\ pc[c] = "in" /\ Head(stack[c]) = "other"
  /\ Goes(c, "unlock") \/ Goes(c, "dead")
  /\ UNCHANGED <<procVars, stack, files, left, guards, found, held, raced>>

\* The mount opens, writes and closes its next file, each with a call that
\* locks again; with no file left, or no array of files at all, it returns.
MountFile(c) ==
  /\ pc[c] = "in" /\ Head(stack[c]) = "mount"
  /\ files[c] > 0
  /\ files' = [files EXCEPT ![c] = @ - 1]
  /\ stack' = [stack EXCEPT ![c] = FileCalls]
  /\ Goes(c, "spin")
  /\ UNCHANGED <<procVars, left, guards, found, held, raced>>

MountEnd(c) ==
  /\ pc[c] = "in" /\ Head(stack[c]) = "mount"
  /\ files[c] = 0
  /\ Goes(c, "unlock")
  /\ UNCHANGED <<procVars, stack, files, left, guards, found, held, raced>>

\* The guard is dropped: the flag is cleared, whoever set it.
Unlock(c) ==
  LET rest == Tail(stack[c])
  IN /\ pc[c] = "unlock"
     /\ locked' = FALSE
     /\ guards' = [guards EXCEPT ![c] = @ - 1]
     /\ stack' = [stack EXCEPT ![c] = rest]
     /\ Goes(c, IF rest = <<>> THEN "idle"
                ELSE IF Head(rest) = "mount" THEN "in" ELSE "spin")
     /\ UNCHANGED <<ready, taken, files, left, found, held, raced>>

-----------------------------------------------------------------------------
Calls(c) ==
  \/ EnterOpen(c) \/ EnterOther(c)
  \/ \E fd \in Fd : EnterClose(c, fd)
  \/ \E count \in 0..MaxFiles : EnterMount(c, count)

\* A step of a call under way.
Proceeds(c) ==
  \/ \E part \in Part : Assign(c, part)
  \/ Acquire(c)
  \/ Find(c) \/ Store(c) \/ FindNone(c) \/ Drop(c) \/ Other(c)
  \/ MountFile(c) \/ MountEnd(c)
  \/ Unlock(c)

GlobalNext == \E c \in Caller : Calls(c) \/ Proceeds(c)

GlobalSpec == GlobalInit /\ [][GlobalNext]_globalVars

-----------------------------------------------------------------------------
\* Where nothing is promised any more: a call has panicked under the lock, or
\* a mount calls from under it.
Dead == \E c \in Caller : pc[c] = "dead"
Mounting == \E c \in Caller : Len(stack[c]) > 1

\* Type invariant of the callers and of the Proc they share.
GlobalTypeOK ==
  /\ ready \in BOOLEAN /\ locked \in BOOLEAN /\ raced \in BOOLEAN
  /\ taken \subseteq Fd
  /\ pc \in [Caller -> {"idle", "assign", "spin", "in", "store", "unlock", "dead"}]
  /\ stack \in [Caller -> Stacks]
  /\ files \in [Caller -> 0..MaxFiles]
  /\ left \in [Caller -> SUBSET Part]
  /\ guards \in [Caller -> Nat]
  /\ found \in [Caller -> Fd \cup {0}]
  /\ held \in [Caller -> SUBSET Fd]

\* Of the guards that lock() gives out at most one exists at a time, and the
\* flag says whether it does, through every call and the first: unless first
\* calls have met, when an assignment clears the flag under its holder.
GuardIsExclusive ==
  ~raced =>
    /\ \A c, d \in Caller : guards[c] > 0 /\ guards[d] > 0 => c = d
    /\ \A c \in Caller : guards[c] <= 1
    /\ locked = (\E c \in Caller : guards[c] > 0)

\* No descriptor that open has given to one caller is given to another before
\* it is closed, and each is in use in the Proc, unless first calls have met.
DescriptorsHaveOneOwner ==
  ~raced =>
    \A c \in Caller :
      /\ held[c] \subseteq taken
      /\ \A d \in Caller \ {c} : held[c] \cap held[d] = {}

\* First calls meet, if at all, before any caller has had the lock or been given
\* a descriptor: the Proc that a second assignment replaces is an empty one, and
\* once calls have got past the first, nothing is exempt any more.
RacesOnlyAtFirst ==
  [][~raced /\ raced' =>
       /\ ~locked /\ taken = {}
       /\ \A c \in Caller : guards[c] = 0 /\ held[c] = {}]_globalVars

\* Seen from outside, open and close under the lock share out a pool of
\* descriptors in single steps.
Pool == INSTANCE DescriptorPool
          WITH Client <- Caller, Descriptor <- Fd, owned <- held, trusted <- ~raced
ImplementsPool == Pool!PoolSpec

\* Whoever has the lock gives it back, whatever early return the call takes,
\* unless it panics or is a mount of some file.
LockIsReleased == locked ~> (~locked \/ Dead \/ Mounting)

\* A call returns once no other caller is in one, again but for a panic, a
\* mount, and first calls that met.  (Against callers that keep coming the
\* spinlock promises it nothing.)
CallReturnsWhenAlone ==
  \A c \in Caller :
    []<>(\/ pc[c] = "idle" \/ \E d \in Caller \ {c} : pc[d] # "idle"
         \/ Dead \/ Mounting \/ raced)

\* "A descriptor for a single file to copy into the Wasm VFS.": a mount copies
\* its files, and returns.
MountReturns ==
  \A c \in Caller : (pc[c] = "spin" /\ stack[c] = <<"mount">>) ~> pc[c] = "idle"
=============================================================================
