---------------------------- MODULE Descriptors -----------------------------
(***************************************************************************)
(* The calls of src/system.rs that make, copy and drop descriptors: open,  *)
(* creat, openat, close, dup, dup2.                                        *)
(***************************************************************************)
EXTENDS Proc

OpenFlags == {"O_CREAT", "O_TRUNC", "O_APPEND"}   \* the flags the code tests

FdTableWith(fd, ino) ==
  [d \in DOMAIN fd_table \cup {fd} |-> IF d = fd THEN ino ELSE fd_table[d]]

NewHandle(ino, position, append) ==
  [inode_number |-> ino, position |-> position, append_mode |-> append]

\* Step 2 of open on the content table: truncate what is there, or make sure
\* that something is.  A truncation leaves the inode's size as it was.
Prepared(contents, ino, flags) ==
  IF "O_TRUNC" \in flags THEN Update(contents, ino, <<>>)
  ELSE IF HasKey(contents, ino) THEN contents
  ELSE Insert(FilesCap, contents, ino, <<>>)

\* Steps 3 to 5 of open: the descriptor.  With none free open fails after all
\* it has done so far; with no slot for the handle it does not fail.
OpenDescriptor(path, ino, contents, flags) ==
  \/ /\ FreeFds = {}
     /\ Returns("open", <<path>>, {}, -1)
     /\ UNCHANGED <<fd_table, open_files>>
  \/ /\ FreeFds # {}
     /\ LET fd == AllocateFd
            position == IF "O_APPEND" \in flags THEN DataLen(contents, ino) ELSE 0
        IN /\ fd_table' = FdTableWith(fd, ino)
           /\ open_files' = Insert(OpenFilesCap, open_files, fd,
                                   NewHandle(ino, position, "O_APPEND" \in flags))
           /\ Returns("open", <<path>>, {}, fd)

\* The path is looked up as it was passed: open alone does not resolve it
\* against the current directory.
OpenMissing(path, flags) ==
  /\ ~Known(path)
  /\ "O_CREAT" \notin flags
  /\ Fails("open", <<path>>)

OpenExisting(path, flags) ==
  /\ Known(path)
  /\ files' = Prepared(files, InodeOf(path), flags)
  /\ OpenDescriptor(path, InodeOf(path), files', flags)
  /\ UNCHANGED <<inodes, next_inode_number, current_directory, path_map, umask_value>>

\* The permissions are those of mode: the umask plays no part.
OpenCreating(path, flags, mode) ==
  /\ ~Known(path)
  /\ "O_CREAT" \in flags
  /\ CreateFile(path, mode)
  /\ files' = Prepared(CreatedFiles, next_inode_number, flags)
  /\ OpenDescriptor(path, next_inode_number, files', flags)
  /\ UNCHANGED <<current_directory, umask_value>>

Open(path, flags, mode) ==
  OpenMissing(path, flags) \/ OpenExisting(path, flags) \/ OpenCreating(path, flags, mode)

Creat(path, mode) == Open(path, {"O_CREAT", "O_TRUNC"}, mode)

\* The directory descriptor is ignored.
Openat(path, flags, mode) == Open(path, flags, mode)

-----------------------------------------------------------------------------
\* Slip: the handle is left behind.
CloseKeepingHandle(fd) ==
  \/ /\ fd \in DOMAIN fd_table
     /\ fd_table' = Restrict(fd_table, DOMAIN fd_table \ {fd})
     /\ Returns("close", <<>>, {fd}, 0)
     /\ UNCHANGED <<inodes, next_inode_number, current_directory, files, path_map,
                    open_files, umask_value>>
  \/ fd \notin DOMAIN fd_table /\ Fails("close", <<>>)

Close(fd) ==
  \/ /\ fd \in DOMAIN fd_table
     /\ fd_table' = Restrict(fd_table, DOMAIN fd_table \ {fd})
     /\ open_files' = Remove(open_files, fd)
     /\ Returns("close", <<>>, {fd}, 0)
     /\ UNCHANGED <<inodes, next_inode_number, current_directory, files, path_map,
                    umask_value>>
  \/ fd \notin DOMAIN fd_table /\ Fails("close", <<>>)

\* The copy has a position of its own.
Dup(oldfd) ==
  \/ /\ oldfd \in DOMAIN fd_table
     /\ HasKey(open_files, oldfd)
     /\ FreeFds # {}
     /\ LET fd == AllocateFd
            handle == Get(open_files, oldfd)
        IN /\ fd_table' = FdTableWith(fd, handle.inode_number)
           /\ open_files' = Insert(OpenFilesCap, open_files, fd, handle)
           /\ Returns("dup", <<>>, {}, fd)
     /\ UNCHANGED <<inodes, next_inode_number, current_directory, files, path_map,
                    umask_value>>
  \/ /\ \/ oldfd \notin DOMAIN fd_table
        \/ ~HasKey(open_files, oldfd)
        \/ FreeFds = {}
     /\ Fails("dup", <<>>)

\* Slip: the handle is moved, not copied.
Dup2Moving(oldfd, newfd) ==
  \/ /\ oldfd \in DOMAIN fd_table /\ newfd \in Fd /\ oldfd # newfd
     /\ open_files' = IF HasKey(open_files, oldfd)
                      THEN Insert(OpenFilesCap, Remove(Remove(open_files, newfd), oldfd),
                                  newfd, Get(open_files, oldfd))
                      ELSE Remove(open_files, newfd)
     /\ fd_table' = FdTableWith(newfd, fd_table[oldfd])
     /\ Returns("dup2", <<>>, {newfd}, newfd)
     /\ UNCHANGED <<inodes, next_inode_number, current_directory, files, path_map,
                    umask_value>>
  \/ /\ oldfd \notin DOMAIN fd_table \/ newfd \notin Fd \/ oldfd = newfd
     /\ Fails("dup2", <<>>)

\* newfd's handle goes only if newfd is in use; oldfd's handle, if it has one,
\* is copied whether or not there is room for the copy.
Dup2(oldfd, newfd) ==
  \/ /\ oldfd \in DOMAIN fd_table
     /\ newfd \in Fd
     /\ oldfd # newfd
     /\ LET left == IF newfd \in DOMAIN fd_table
                    THEN Remove(open_files, newfd) ELSE open_files
        IN open_files' = IF HasKey(left, oldfd)
                         THEN Insert(OpenFilesCap, left, newfd, Get(left, oldfd))
                         ELSE left
     /\ fd_table' = FdTableWith(newfd, fd_table[oldfd])
     /\ Returns("dup2", <<>>, {newfd}, newfd)
     /\ UNCHANGED <<inodes, next_inode_number, current_directory, files, path_map,
                    umask_value>>
  \/ /\ oldfd \in DOMAIN fd_table
     /\ newfd \in Fd
     /\ oldfd = newfd
     /\ Returns("dup2", <<>>, {newfd}, newfd)
     /\ UNCHANGED <<inodes, next_inode_number, current_directory, files, path_map,
                    fd_table, open_files, umask_value>>
  \/ /\ oldfd \notin DOMAIN fd_table \/ newfd \notin Fd
     /\ Fails("dup2", <<>>)
=============================================================================
