----------------------------- MODULE Attributes -----------------------------
(***************************************************************************)
(* The calls of src/system.rs on permissions, owners and the umask, and    *)
(* those that only report: chmod, chown, umask, stat, access, getcwd,      *)
(* readlink with their f-, l- and -at forms, which come to the same code,  *)
(* and the calls that do nothing at all.                                   *)
(*                                                                         *)
(* What stat, getcwd and readlink write to their caller's buffer is left   *)
(* out, the text of a link with it; so how much of it a buffer takes is    *)
(* open here.                                                              *)
(***************************************************************************)
EXTENDS Proc

\* A call that reports on the state, or does nothing, and changes nothing.
Reports(call, names, val) ==
  /\ Returns(call, names, {}, val)
  /\ UNCHANGED <<inodes, next_inode_number, current_directory, files, path_map>>
  /\ UNCHANGED <<fd_table, open_files, umask_value>>

\* One inode rewritten for the caller.
SetsInode(ino, inode, call, names) ==
  /\ inodes' = [inodes EXCEPT ![ino + 1] = inode]
  /\ Returns(call, names, {}, 0)
  /\ UNCHANGED <<next_inode_number, current_directory, files, path_map>>
  /\ UNCHANGED <<fd_table, open_files, umask_value>>

\* mode & 0o777
WithMode(ino, mode) == [InodeAt(ino) EXCEPT !.permissions = mode \cap PermBits]

WithOwner(ino, owner, group) ==
  [InodeAt(ino) EXCEPT !.user_id = owner, !.group_id = group]

-----------------------------------------------------------------------------
\* Slip: the path is looked up as it was passed.
ChmodAsGiven(path, mode) ==
  \/ /\ Known(path)
     /\ SetsInode(InodeOf(path), WithMode(InodeOf(path), mode), "chmod", <<path>>)
  \/ ~Known(path) /\ Fails("chmod", <<path>>)

Chmod(path, mode) ==
  LET abs == Absolute(path)
  IN \/ Known(abs) /\ SetsInode(InodeOf(abs), WithMode(InodeOf(abs), mode), "chmod", <<abs>>)
     \/ ~Known(abs) /\ Fails("chmod", <<abs>>)

Fchmod(fd, mode) ==
  \/ /\ fd \in DOMAIN fd_table
     /\ SetsInode(fd_table[fd], WithMode(fd_table[fd], mode), "fchmod", <<>>)
  \/ fd \notin DOMAIN fd_table /\ Fails("fchmod", <<>>)

Chown(path, owner, group) ==
  LET abs == Absolute(path)
  IN \/ /\ Known(abs)
        /\ SetsInode(InodeOf(abs), WithOwner(InodeOf(abs), owner, group), "chown", <<abs>>)
     \/ ~Known(abs) /\ Fails("chown", <<abs>>)

Fchown(fd, owner, group) ==
  \/ /\ fd \in DOMAIN fd_table
     /\ SetsInode(fd_table[fd], WithOwner(fd_table[fd], owner, group), "fchown", <<>>)
  \/ fd \notin DOMAIN fd_table /\ Fails("fchown", <<>>)

\* The old mask is returned, which last has no room for.
Umask(mask) ==
  /\ umask_value' = mask \cap PermBits
  /\ Returns("umask", <<>>, {}, 0)
  /\ UNCHANGED <<inodes, next_inode_number, current_directory, files, path_map>>
  /\ UNCHANGED <<fd_table, open_files>>

-----------------------------------------------------------------------------
Stat(path) ==
  Reports("stat", <<Absolute(path)>>, IF Known(Absolute(path)) THEN 0 ELSE -1)

\* A handle is not needed.
Fstat(fd) == Reports("fstat", <<>>, IF fd \in DOMAIN fd_table THEN 0 ELSE -1)

\* check_access: of what is wanted, R_OK, W_OK and X_OK are compared with the
\* owner's bits, whoever calls.
Access(path, wanted) ==
  LET abs == Absolute(path)
      granted == /\ Known(abs)
                 /\ wanted \cap {"ur", "uw", "ux"} \subseteq InodeAt(InodeOf(abs)).permissions
  IN Reports("access", <<abs>>, IF granted THEN 0 ELSE -1)

\* The number of bytes copied: as many as there are, or as the buffer takes.
Readlink(path, bufsize) ==
  LET abs == Absolute(path)
  IN \/ /\ Known(abs) /\ InodeAt(InodeOf(abs)).kind = "SymbolicLink"
        /\ \E n \in 0..bufsize : Reports("readlink", <<abs>>, n)
     \/ /\ Known(abs) => InodeAt(InodeOf(abs)).kind # "SymbolicLink"
        /\ Fails("readlink", <<abs>>)

\* A null pointer, when the buffer is too small, is -1 here.
Getcwd == \E result \in {0, -1} : Reports("getcwd", <<>>, result)

\* flock, mmap and its family, the sync and the inotify calls.
NoOp == \E result \in {0, -1} : Reports("no-op", <<>>, result)
=============================================================================
