-------------------------------- MODULE Proc --------------------------------
(***************************************************************************)
(* struct Proc of src/system.rs: the file system, the descriptor table,    *)
(* the open file handles and the umask, with the private helpers of its    *)
(* impl.  One Proc exists, behind a lock each call holds from its first    *)
(* use of the state to its return, so a call is one step here.             *)
(***************************************************************************)
EXTENDS FileSystem

CONSTANTS
  FdTableLen,     \* length of fd_table, 1024 in the program
  OpenFilesCap    \* OPEN_FILES_CAP, 256 in the program

ASSUME ProcAssumption == FdTableLen \in Nat /\ OpenFilesCap \in Nat

VARIABLES
  fd_table,      \* descriptor -> inode number; its DOMAIN is the slots in use
  open_files,    \* descriptor -> handle
  umask_value,
  trapped,       \* a call has panicked: the lock stays held, no call returns
  last           \* the last call: its paths, as it looked them up, in order, the
                 \* descriptors its caller asked it to change, its result

procVars == <<fd_table, open_files, umask_value>>
vars == <<inodes, next_inode_number, current_directory, files, path_map,
          fd_table, open_files, umask_value, trapped, last>>

Fd == 0..(FdTableLen - 1)
Handle == [inode_number : Nat, position : Nat, append_mode : BOOLEAN]

Init ==
  /\ FsInit
  /\ fd_table = EmptyMap
  /\ open_files = EmptyMap
  /\ umask_value = {"gw", "ow"}
  /\ trapped = FALSE
  /\ last = [call |-> "init", names |-> <<>>, fds |-> {}, val |-> 0]

Returns(call, names, fds, val) ==
  /\ ~trapped
  /\ UNCHANGED trapped
  /\ last' = [call |-> call, names |-> names, fds |-> fds, val |-> val]

\* An early return of -1 that has changed nothing.
Fails(call, names) ==
  /\ Returns(call, names, {}, -1)
  /\ UNCHANGED <<inodes, next_inode_number, current_directory, files, path_map>>
  /\ UNCHANGED <<fd_table, open_files, umask_value>>

\* An unwrap() of None before anything has changed.
Panics(call, names) ==
  /\ ~trapped
  /\ trapped' = TRUE
  /\ last' = [call |-> call, names |-> names, fds |-> {}, val |-> -1]
  /\ UNCHANGED <<inodes, next_inode_number, current_directory, files, path_map>>
  /\ UNCHANGED <<fd_table, open_files, umask_value>>

-----------------------------------------------------------------------------
\* Slips: a slot too many; the handle table asked instead of fd_table.
FreeFdsTooMany == {fd \in 3..FdTableLen : fd \notin DOMAIN fd_table}
FreeFdsByHandle == {fd \in 3..(FdTableLen - 1) : ~HasKey(open_files, fd)}

\* allocate_fd: the lowest free slot, never one of the first three.
FreeFds == {fd \in 3..(FdTableLen - 1) : fd \notin DOMAIN fd_table}
AllocateFd == Min(FreeFds)

\* get_absolute_path
Absolute(path) == Join(current_directory, path)

\* The inode vector grown with default inodes until it has index number.
Grown(number) ==
  inodes \o [i \in 1..(number + 1 - Len(inodes)) |-> DefaultInode]

\* Slips: the inode is pushed after the vector has grown to hold it; it is
\* written one place too low.
InsertDirectoryEntryPushing(path, mode, kind) ==
  LET number == next_inode_number
  IN /\ number < MaxInodes
     /\ next_inode_number' = number + 1
     /\ inodes' = Append(Grown(number), NewInode(number, mode, kind))
     /\ path_map' = Insert(PathMapCap, path_map, path, number)
     /\ files' = IF kind = "SymbolicLink" THEN files
                 ELSE Insert(FilesCap, files, number, <<>>)
InsertDirectoryEntryLow(path, mode, kind) ==
  LET number == next_inode_number
  IN /\ number < MaxInodes
     /\ next_inode_number' = number + 1
     /\ inodes' = [Grown(number) EXCEPT ![number] = NewInode(number, mode, kind)]
     /\ path_map' = Insert(PathMapCap, path_map, path, number)
     /\ files' = IF kind = "SymbolicLink" THEN files
                 ELSE Insert(FilesCap, files, number, <<>>)

\* insert_directory_entry with the number its callers have just taken from
\* next_inode_number (they increment it).  mode is what the inode ends up
\* with: 0o777 & !umask for a link, what mkdir assigns after for a directory.
InsertDirectoryEntry(path, mode, kind) ==
  LET number == next_inode_number
  IN /\ number < MaxInodes
     /\ next_inode_number' = number + 1
     /\ inodes' = [Grown(number) EXCEPT ![number + 1] = NewInode(number, mode, kind)]
     /\ path_map' = Insert(PathMapCap, path_map, path, number)
     /\ files' = IF kind = "SymbolicLink" THEN files
                 ELSE Insert(FilesCap, files, number, <<>>)
=============================================================================
