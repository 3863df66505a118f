------------------------------- MODULE Dirents -------------------------------
(***************************************************************************)
(* getdents and getdents64 of src/system.rs.  The entries of a directory   *)
(* are the slots of the path table whose path lies directly below it, in   *)
(* the order of the slots; a handle's position counts the entries it has   *)
(* been given.  A record holds one entry, with a name of 255 bytes at most *)
(* (its d_off and d_reclen, of which the code fills in nothing useful, are *)
(* left out), and room is the number of records the caller's buffer holds. *)
(***************************************************************************)
EXTENDS Namespace, FileIO

CONSTANT LongName   \* the names too long for a record

ASSUME LongNameAssumption == LongName \subseteq Name

\* The first name of the directory: a directory that has lost all its names
\* lists the root's entries.
DirPrefix(ino) ==
  IF ino = 0 \/ NameSlots(ino) = {} THEN Root ELSE path_map[Min(NameSlots(ino))].key

EntrySlots(ino) == {i \in DOMAIN path_map : IsEntryOf(path_map[i].key, DirPrefix(ino))}

\* How many of slots come before slot i.
Rank(i, slots) == Cardinality({j \in slots : j < i})

\* The entries a call returns: those from the handle's position on, without
\* the ones whose name is too long, as many as there is room for.
Listed(fd, room) ==
  LET entries == EntrySlots(HandleAt(fd).inode_number)
      rest == {i \in entries : /\ Rank(i, entries) >= AsUsize(HandleAt(fd).position)
                               /\ FileName(path_map[i].key) \notin LongName}
  IN {i \in rest : Rank(i, rest) < room}

\* Slips: the position counts calls, not entries; it counts the entry that
\* found no more room; it is left where it was.
CountedOnce(fd, room) == Min({1, Cardinality(Listed(fd, room))})
CountedPast(fd, room) == Cardinality(Listed(fd, room + 1))
CountedNever(fd, room) == 0

\* How far the position moves.
Counted(fd, room) == Cardinality(Listed(fd, room))

Getdents(fd, room) ==
  \/ /\ HasKey(open_files, fd)
     /\ IsDirectory(HandleAt(fd).inode_number)
     /\ HandleAt(fd).position + Counted(fd, room) <= MaxPosition
     /\ open_files' =
          Positioned(open_files, fd, HandleAt(fd).position + Counted(fd, room))
     /\ Returns("getdents", <<>>, {fd}, Cardinality(Listed(fd, room)))
     /\ UNCHANGED <<inodes, next_inode_number, current_directory, files, path_map>>
     /\ UNCHANGED <<fd_table, umask_value>>
  \/ /\ HasKey(open_files, fd) => ~IsDirectory(HandleAt(fd).inode_number)
     /\ Fails("getdents", <<>>)

\* Through a buffer of its own, copied out after.
Getdents64(fd, room) == Getdents(fd, room)
=============================================================================
