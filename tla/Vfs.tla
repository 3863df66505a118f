--------------------------------- MODULE Vfs --------------------------------
(***************************************************************************)
(* The calls of src/system.rs over one Proc, each a step, and what they    *)
(* promise.                                                                *)
(***************************************************************************)
EXTENDS Descriptors, Namespace, Dirents, Attributes

CONSTANTS   \* what callers pass
  PathArg,    \* path strings
  ModeArg,    \* mode arguments
  FdArg,      \* descriptor arguments, valid or not
  DataArg,    \* buffers to write
  CountArg,   \* byte counts
  OffsetArg,  \* offsets and lengths, negative ones among them
  OwnerArg    \* user and group numbers

ASSUME ArgAssumption ==
  /\ PathArg \subseteq Path
  /\ \A mode \in ModeArg : mode \subseteq PermBits \cup {"sticky"}
  /\ FdArg \subseteq Int
  /\ DataArg \subseteq Seq(Byte) /\ CountArg \subseteq Nat /\ OffsetArg \subseteq Int
  /\ OwnerArg \subseteq Nat

DescriptorNext ==
  \/ \E path \in PathArg, flags \in SUBSET OpenFlags, mode \in ModeArg :
       Open(path, flags, mode) \/ Openat(path, flags, mode)
  \/ \E path \in PathArg, mode \in ModeArg : Creat(path, mode)
  \/ \E fd \in FdArg : Close(fd) \/ Dup(fd)
  \/ \E oldfd, newfd \in FdArg : Dup2(oldfd, newfd)

NamespaceNext ==
  \/ \E old, new \in PathArg : Rename(old, new) \/ Link(old, new)
  \/ \E path \in PathArg :
       Unlink(path) \/ Symlink(path) \/ Rmdir(path) \/ Chdir(path)
  \/ \E path \in PathArg, mode \in ModeArg : Mkdir(path, mode)
  \/ \E fd \in FdArg : Fchdir(fd)

IONext ==
  \/ \E fd \in FdArg, count \in CountArg :
       \/ Read(fd, count)
       \/ \E offset \in OffsetArg : Pread64(fd, count, offset)
  \/ \E fd \in FdArg, bytes \in DataArg :
       \/ Write(fd, bytes)
       \/ \E offset \in OffsetArg : Pwrite64(fd, bytes, offset)
  \/ \E in, out \in FdArg, from \in OffsetArg \cup {Nowhere}, count \in CountArg :
       \/ Sendfile(out, in, from, count) \/ Sendfile64(out, in, from, count)
       \/ \E to \in OffsetArg \cup {Nowhere} : Splice(in, from, out, to, count)
  \/ \E fd \in FdArg, offset \in OffsetArg :
       \/ \E whence \in 0..3 : Lseek(fd, offset, whence)
       \/ Ftruncate(fd, offset)
       \/ \E len \in OffsetArg : Fallocate(fd, offset, len) \/ PosixFallocate(fd, offset, len)
  \/ \E path \in PathArg, length \in OffsetArg : Truncate(path, length)

ListingNext ==
  \E fd \in FdArg, room \in CountArg : Getdents(fd, room) \/ Getdents64(fd, room)

AttributeNext ==
  \/ \E path \in PathArg, mode \in ModeArg : Chmod(path, mode) \/ Access(path, mode)
  \/ \E fd \in FdArg, mode \in ModeArg : Fchmod(fd, mode)
  \/ \E owner, group \in OwnerArg :
       \/ \E path \in PathArg : Chown(path, owner, group)
       \/ \E fd \in FdArg : Fchown(fd, owner, group)
  \/ \E mask \in ModeArg : Umask(mask)
  \/ \E path \in PathArg, count \in CountArg : Stat(path) \/ Readlink(path, count)
  \/ \E fd \in FdArg : Fstat(fd)
  \/ Getcwd \/ NoOp

Next == DescriptorNext \/ NamespaceNext \/ IONext \/ ListingNext \/ AttributeNext

Spec == Init /\ [][Next]_vars

-----------------------------------------------------------------------------
(* Invariants                                                              *)

\* Type invariant of Proc and its FileSystem.
TypeOK ==
  /\ inodes \in Seq(Inode)
  /\ next_inode_number \in Nat
  /\ current_directory \in Path
  /\ IsMap(files, FilesCap, Nat, Seq(Byte))
  /\ IsMap(path_map, PathMapCap, Path, Nat)
  /\ DOMAIN fd_table \subseteq Fd
  /\ fd_table \in [DOMAIN fd_table -> Nat]
  /\ IsMap(open_files, OpenFilesCap, Fd, Handle)
  /\ umask_value \in SUBSET PermBits
  /\ trapped \in BOOLEAN

\* "We'll ensure that the index in inodes matches the inode number", although
\* one way of making an inode pushes it and the other writes it at its index.
NumbersAreIndices ==
  /\ Len(inodes) = next_inode_number
  /\ \A n \in 0..(next_inode_number - 1) : InodeAt(n).number = n

\* Every inode number kept anywhere is that of an inode: the unwrap() after
\* get_inode() in stat, chdir, fchdir, unlink, rmdir and the rest cannot fail.
NoDanglingNumber ==
  /\ \A i \in DOMAIN path_map : InodeExists(path_map[i].val)
  /\ \A fd \in DOMAIN fd_table : InodeExists(fd_table[fd])
  /\ \A i \in DOMAIN files : InodeExists(files[i].key)

\* The two descriptor tables: a handle belongs to a descriptor in use, for the
\* same inode, and a descriptor has one handle at most.  (A descriptor without
\* a handle is possible: HandleLostWhenFull.)
HandlesMatchTable ==
  /\ UniqueKeys(open_files)
  /\ \A i \in DOMAIN open_files :
       /\ open_files[i].key \in DOMAIN fd_table
       /\ open_files[i].val.inode_number = fd_table[open_files[i].key]

\* A file without a content, which no write will accept, exists only because
\* the content table was full when it was made (FILES_CAP is 256, and nothing
\* ever leaves the table).
ContentUnlessFull ==
  \A n \in 0..(Len(inodes) - 1) :
    InodeAt(n).kind = "File" => HasKey(files, n) \/ Full(FilesCap, files)

\* The working directory is an absolute path, also after fchdir has taken it
\* from the path table, where open leaves relative names: those name files.
CwdIsAbsolute ==
  /\ IsAbsolute(current_directory)
  /\ \A i \in DOMAIN path_map :
       IsDirectory(path_map[i].val) => IsAbsolute(path_map[i].key)

-----------------------------------------------------------------------------
(* What a step may do *)

\* An inode keeps its number and its kind from its creation on, whatever is
\* created later: an open descriptor goes on meaning the file it was opened on.
InodesArePermanent ==
  [][\A n \in 0..(next_inode_number - 1) :
       /\ n < next_inode_number'
       /\ inodes'[n + 1].number = InodeAt(n).number
       /\ inodes'[n + 1].kind = InodeAt(n).kind]_vars

\* A descriptor in use, which the caller did not ask to close or to replace,
\* stays in use, on the same inode, with the handle it had or still without:
\* in particular open and dup never hand out a descriptor that is taken.
OtherDescriptorsKept ==
  [][\A fd \in DOMAIN fd_table \ last'.fds :
       /\ fd \in DOMAIN fd_table' /\ fd_table'[fd] = fd_table[fd]
       /\ {open_files[i].val : i \in SlotsOf(open_files, fd)}
            = {open_files'[i].val : i \in SlotsOf(open_files', fd)}]_vars

\* The descriptors among fds that have a handle, by the slot of that handle.
HandleSlots(fds) == {i \in DOMAIN open_files : open_files[i].key \in fds}

\* A descriptor's offset moves by exactly what the call says it moved, or to
\* the end of a file it appends to: no other path to an offset, through a copy
\* of the descriptor or through another call, and none of a positioned call.
\* A splice of a descriptor to itself moves it twice.
OffsetsFollowResults ==
  [][last'.call \in {"read", "write", "sendfile", "splice"} /\ last'.val >= 0 =>
       \A i \in HandleSlots(last'.fds) :
         LET moved == open_files'[i].val.position - open_files[i].val.position
         IN \/ moved = last'.val
            \/ /\ open_files[i].val.append_mode
               /\ open_files'[i].val.position = DataLen(files', open_files[i].val.inode_number)
            \/ last'.call = "splice" /\ moved = 2 * last'.val]_vars

\* An lseek that returns an offset has moved the descriptor there, and one that
\* returns -1 has moved nothing: also where the sum of position and offset is
\* negative or goes round the end of the range.
SeeksAreExact ==
  [][last'.call = "lseek" =>
       IF last'.val >= 0
       THEN \A i \in HandleSlots(last'.fds) : open_files'[i].val.position = last'.val
       ELSE UNCHANGED open_files]_vars

\* Through descriptors opened to append, whatever their offsets were made to
\* be with lseek, write and sendfile only add to what the file held.
AppendsKeepContents ==
  [][/\ last'.call \in {"write", "sendfile"}
     /\ \A i \in HandleSlots(last'.fds) : open_files[i].val.append_mode
     => \A i \in HandleSlots(last'.fds) :
          LET ino == open_files[i].val.inode_number
          IN HasKey(files, ino) =>
               /\ DataLen(files', ino) >= DataLen(files, ino)
               /\ SubSeq(Get(files', ino), 1, DataLen(files, ino)) = Get(files, ino)]_vars

\* inode.size, which stat reports, and the length of the content part ways
\* only by an open that truncates, a sendfile or a splice.
SizesStrayOnlyBy ==
  [][\A n \in 0..(Len(inodes) - 1) :
       InodeAt(n).size = DataLen(files, n) /\ inodes'[n + 1].size # DataLen(files', n) =>
         last'.call \in {"open", "sendfile", "splice"}]_vars

\* The unwrap() in fallocate is met by no file made while the content table
\* had room, whatever opens and truncations came between: only by a directory
\* or a link that was opened with O_TRUNC, which gives it no content.
FallocateSparesFiles ==
  [][last'.call = "fallocate" /\ trapped' =>
       \A fd \in FdArg, offset, len \in OffsetArg :
         Fallocate(fd, offset, len) /\ AsUsize(offset + len) <= MaxLen =>
           Full(FilesCap, files) \/ ~(InodeAt(fd_table[fd]).kind = "File")]_vars

\* Descriptors that no read or write will accept, having no handle.
Bare == {fd \in DOMAIN fd_table : ~HasKey(open_files, fd)}

\* The first of them appears only because the handle table was full
\* (fd_table has 1024 entries, open_files 256).
HandleLostWhenFull ==
  [][Bare = {} /\ Bare' # {} => Full(OpenFilesCap, open_files)]_vars

\* The names as every lookup sees them.
Names == DictOf(path_map)
Table == INSTANCE NameTable
           WITH Key <- Path, Val <- Nat, Cap <- PathMapCap, dict <- Names

\* The effect on names a successful call is meant to have.
NameEffect(call, names) ==
  CASE call \in {"unlink", "rmdir"} -> Table!Delete(names[1])
    [] call = "rename" -> Table!Move(names[1], names[2])
    [] call = "link" -> Table!Put(names[2], Names[names[1]])
    [] call \in {"symlink", "mkdir"} -> Table!Put(names[1], next_inode_number)
    [] call = "open" /\ names[1] \notin DOMAIN Names -> Table!Put(names[1], next_inode_number)
    [] OTHER -> UNCHANGED Names

\* As long as path_map holds each name once, every call that succeeds has
\* exactly that effect, on the names it was given and on no other, and every
\* call that fails has none; only a name that the full table cannot take is
\* dropped, with the call none the wiser.  (An open may fail after creating.)
NamesChangeAsAsked ==
  [][UniqueKeys(path_map) /\ UniqueKeys(path_map') =>
       \/ /\ last'.val >= 0 \/ (last'.call = "open" /\ FreeFds = {})
          /\ NameEffect(last'.call, last'.names)
       \/ UNCHANGED Names /\ (last'.val = -1 \/ Full(PathMapCap, path_map))]_vars

\* A name comes to be held twice only by rename, link or symlink putting it,
\* although it is taken, into a hole that a removal left before it.
DoubledOnlyByReplacing ==
  [][UniqueKeys(path_map) /\ ~UniqueKeys(path_map') =>
       /\ last'.call \in {"rename", "link", "symlink"}
       /\ Known(last'.names[Len(last'.names)])]_vars

\* Whether a name lies directly below a directory that is there.
Housed(p) == HasParent(p) /\ Known(Parent(p)) /\ IsDirectory(InodeOf(Parent(p)))

\* An entry is left without its directory only by a rename, link or symlink
\* that takes or replaces the directory's name: not by rmdir, which looks for
\* entries first, nor by unlink, to whatever inode the name has come to lead.
OrphansOnlyByReplacing ==
  [][\A p \in KeysOf(path_map) : Housed(p) /\ Known(p)' /\ ~Housed(p)' =>
       /\ last'.call \in {"rename", "link", "symlink"}
       /\ \E k \in DOMAIN last'.names : IsEntryOf(p, last'.names[k])]_path_map

\* The permissions and the owner of a file that exists change only as a chmod or
\* a chown of one of its names, resolved against the working directory, or of
\* one of its descriptors asks: not when it is opened to be created once more
\* with another mode, renamed, replaced or resized, nor with the umask.
AttributesChangeAsAsked ==
  [][\A n \in 0..(Len(inodes) - 1) :
       LET then == inodes'[n + 1]
           byPath == {path \in PathArg : Known(Absolute(path)) /\ InodeOf(Absolute(path)) = n}
           byFd == {fd \in FdArg \cap DOMAIN fd_table : fd_table[fd] = n}
       IN /\ then.permissions # InodeAt(n).permissions =>
               \E mode \in ModeArg :
                 /\ then.permissions = mode \cap PermBits
                 /\ \/ \E path \in byPath : Chmod(path, mode)
                    \/ \E fd \in byFd : Fchmod(fd, mode)
          /\ <<then.user_id, then.group_id>> # <<InodeAt(n).user_id, InodeAt(n).group_id>> =>
               \/ \E path \in byPath : Chown(path, then.user_id, then.group_id)
               \/ \E fd \in byFd : Fchown(fd, then.user_id, then.group_id)]_vars

\* README.md, unlink: "Deletes a name from the filesystem."
UnlinkRemovesName ==
  [][last'.call = "unlink" /\ last'.val = 0 =>
       ~HasKey(path_map', last'.names[1])]_vars

\* README.md, unlink: "If this name was the last link to a file and no processes
\* have it open, the file is deleted.": a file is made without a content only if
\* contents of files that have a name or a descriptor fill the table.
DeletedFilesMakeRoom ==
  [][\A n \in next_inode_number..(next_inode_number' - 1) :
       inodes'[n + 1].kind = "File" /\ ~HasKey(files', n) =>
         FilesCap = Cardinality({m \in KeysOf(files) :
                      \/ NameSlots(m) # {}
                      \/ \E fd \in DOMAIN fd_table : fd_table[fd] = m})]_vars

\* README.md, fchdir: "Changes the current working directory to the one
\* associated with a file descriptor": it returns, as every call does.
EveryCallReturns == ~trapped

\* README.md, truncate: "Changes the size of a file to a specific value."
TruncateSetsSize ==
  [][\A path \in PathArg, length \in OffsetArg :
       /\ Truncate(path, length) /\ last'.val = 0
       /\ HasKey(files, InodeOf(Absolute(path)))
       => DataLen(files', InodeOf(Absolute(path))) = length]_vars
=============================================================================
