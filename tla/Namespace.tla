----------------------------- MODULE Namespace ------------------------------
(***************************************************************************)
(* The calls of src/system.rs that work on names: rename, link, unlink,    *)
(* symlink, mkdir, rmdir, chdir, fchdir.  path_map is the only record of a *)
(* name: no call frees an inode or its content, and a rename moves one     *)
(* name, not those below it.  Each "*at" form ignores its descriptors and  *)
(* flags and calls the plain one.                                          *)
(***************************************************************************)
EXTENDS Proc

IsDirectory(ino) == InodeAt(ino).kind = "Directory"

\* Slip: the new name is put before the old one is taken out.
RenamePuttingFirst(oldpath, newpath) ==
  LET old == Absolute(oldpath)
      new == Absolute(newpath)
  IN \/ /\ Known(old)
        /\ path_map' = Remove(Insert(PathMapCap, path_map, new, InodeOf(old)), old)
        /\ Returns("rename", <<old, new>>, {}, 0)
        /\ UNCHANGED <<inodes, next_inode_number, current_directory, files>>
        /\ UNCHANGED <<fd_table, open_files, umask_value>>
     \/ ~Known(old) /\ Fails("rename", <<old, new>>)

\* Nothing checks what newpath held, or that it lies outside oldpath.
Rename(oldpath, newpath) ==
  LET old == Absolute(oldpath)
      new == Absolute(newpath)
  IN \/ /\ Known(old)
        /\ path_map' = Insert(PathMapCap, Remove(path_map, old), new, InodeOf(old))
        /\ Returns("rename", <<old, new>>, {}, 0)
        /\ UNCHANGED <<inodes, next_inode_number, current_directory, files>>
        /\ UNCHANGED <<fd_table, open_files, umask_value>>
     \/ ~Known(old) /\ Fails("rename", <<old, new>>)

Link(oldpath, newpath) ==
  LET old == Absolute(oldpath)
      new == Absolute(newpath)
  IN \/ /\ Known(old)
        /\ path_map' = Insert(PathMapCap, path_map, new, InodeOf(old))
        /\ Returns("link", <<old, new>>, {}, 0)
        /\ UNCHANGED <<inodes, next_inode_number, current_directory, files>>
        /\ UNCHANGED <<fd_table, open_files, umask_value>>
     \/ ~Known(old) /\ Fails("link", <<old, new>>)

Unlink(pathname) ==
  LET path == Absolute(pathname)
  IN \/ /\ Known(path)
        /\ ~IsDirectory(InodeOf(path))
        /\ path_map' = Remove(path_map, path)
        /\ Returns("unlink", <<path>>, {}, 0)
        /\ UNCHANGED <<inodes, next_inode_number, current_directory, files>>
        /\ UNCHANGED <<fd_table, open_files, umask_value>>
     \/ /\ Known(path) => IsDirectory(InodeOf(path))
        /\ Fails("unlink", <<path>>)

\* linkpath may already be a name: it is replaced.
Symlink(linkpath) ==
  /\ InsertDirectoryEntry(Absolute(linkpath), PermBits \ umask_value, "SymbolicLink")
  /\ Returns("symlink", <<Absolute(linkpath)>>, {}, 0)
  /\ UNCHANGED <<current_directory, fd_table, open_files, umask_value>>

\* Slips: no check that the name is free; the name is not made absolute.
MkdirUnchecked(pathname, mode) ==
  /\ InsertDirectoryEntry(Absolute(pathname), mode \ umask_value, "Directory")
  /\ Returns("mkdir", <<Absolute(pathname)>>, {}, 0)
  /\ UNCHANGED <<current_directory, fd_table, open_files, umask_value>>
MkdirAsGiven(pathname, mode) ==
  \/ /\ ~Known(pathname)
     /\ InsertDirectoryEntry(pathname, mode \ umask_value, "Directory")
     /\ Returns("mkdir", <<pathname>>, {}, 0)
     /\ UNCHANGED <<current_directory, fd_table, open_files, umask_value>>
  \/ Known(pathname) /\ Fails("mkdir", <<pathname>>)

\* Nothing checks that the parent exists.
Mkdir(pathname, mode) ==
  LET path == Absolute(pathname)
  IN \/ /\ ~Known(path)
        /\ InsertDirectoryEntry(path, mode \ umask_value, "Directory")
        /\ Returns("mkdir", <<path>>, {}, 0)
        /\ UNCHANGED <<current_directory, fd_table, open_files, umask_value>>
     \/ Known(path) /\ Fails("mkdir", <<path>>)

\* Slip: entries below the directory are not looked for.
RmdirUnchecked(pathname) ==
  LET path == Absolute(pathname)
      removable == Known(path) /\ IsDirectory(InodeOf(path))
  IN \/ /\ removable
        /\ path_map' = Remove(path_map, path)
        /\ Returns("rmdir", <<path>>, {}, 0)
        /\ UNCHANGED <<inodes, next_inode_number, current_directory, files>>
        /\ UNCHANGED <<fd_table, open_files, umask_value>>
     \/ ~removable /\ Fails("rmdir", <<path>>)

\* The root, too, goes if nothing lies directly below it.
Rmdir(pathname) ==
  LET path == Absolute(pathname)
      removable == /\ Known(path)
                   /\ IsDirectory(InodeOf(path))
                   /\ \A p \in KeysOf(path_map) : ~IsEntryOf(p, path)
  IN \/ /\ removable
        /\ path_map' = Remove(path_map, path)
        /\ Returns("rmdir", <<path>>, {}, 0)
        /\ UNCHANGED <<inodes, next_inode_number, current_directory, files>>
        /\ UNCHANGED <<fd_table, open_files, umask_value>>
     \/ ~removable /\ Fails("rmdir", <<path>>)

Chdir(pathname) ==
  LET path == Absolute(pathname)
  IN \/ /\ Known(path)
        /\ IsDirectory(InodeOf(path))
        /\ current_directory' = path
        /\ Returns("chdir", <<path>>, {}, 0)
        /\ UNCHANGED <<inodes, next_inode_number, files, path_map>>
        /\ UNCHANGED <<fd_table, open_files, umask_value>>
     \/ /\ Known(path) => ~IsDirectory(InodeOf(path))
        /\ Fails("chdir", <<path>>)

\* The slots whose name leads to inode ino: fchdir takes the first, and
\* unwraps, so a directory that has lost its name stops the program.
NameSlots(ino) == {i \in DOMAIN path_map : path_map[i].val = ino}

Fchdir(fd) ==
  \/ /\ fd \in DOMAIN fd_table
     /\ IsDirectory(fd_table[fd])
     /\ NameSlots(fd_table[fd]) # {}
     /\ current_directory' = path_map[Min(NameSlots(fd_table[fd]))].key
     /\ Returns("fchdir", <<>>, {}, 0)
     /\ UNCHANGED <<inodes, next_inode_number, files, path_map>>
     /\ UNCHANGED <<fd_table, open_files, umask_value>>
  \/ /\ fd \in DOMAIN fd_table
     /\ IsDirectory(fd_table[fd])
     /\ NameSlots(fd_table[fd]) = {}
     /\ Panics("fchdir", <<>>)
  \/ /\ fd \in DOMAIN fd_table => ~IsDirectory(fd_table[fd])
     /\ Fails("fchdir", <<>>)
=============================================================================
