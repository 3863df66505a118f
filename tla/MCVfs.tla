-------------------------------- MODULE MCVfs -------------------------------
(***************************************************************************)
(* Small instances of Vfs.  last, the result of the latest call, guards    *)
(* nothing, so the runs that check action properties of it leave it out of *)
(* the fingerprint (WithoutLast): TLC checks those on every step it makes. *)
(***************************************************************************)
EXTENDS Vfs

CONSTANTS a, b   \* two file names

SlashA == <<Nil, a>>
SlashB == <<Nil, b>>
RelB == <<b>>

TwoFiles == {SlashA, SlashB}
RootAndNames == {Root, SlashA, RelB}

RootAndFile == {Root, SlashA}
OneByteOrNone == {<<>>, <<1>>}
Offsets == {-1, 1, 3}
NoData == {<<>>}

FullMode == {PermBits}
SomeModes == {PermBits, {"ur", "uw", "gr", "sticky"}}
FilesAndRelative == {SlashB, RelB}
FdArgs == {-1, 1, 3, 4, 5, 6}

\* The working directory is the root or one below it: in a deeper one each
\* relative name would be deeper still.
ShallowCwd == current_directory \in {Root, SlashA}
OneBelowRoot == current_directory \in {Root, SlashB}

\* A state that holds a name twice is checked and not left: what follows it is
\* outside what the calls promise.
NamesOnce == UniqueKeys(path_map)

WithoutLast == <<inodes, next_inode_number, current_directory, files, path_map,
                 fd_table, open_files, umask_value, trapped>>

DescriptorSpec == Init /\ [][DescriptorNext]_vars

\* The file holds two bytes at most, the root one, and bytes and offsets taken
\* together are three at most: each descriptor still meets every offset, and
\* the file every content.  A step beyond these is checked and not continued.
FewBytes ==
  LET bytes == DataLen(files, 0) + DataLen(files, 1)
  IN /\ bytes <= 2 /\ DataLen(files, 0) <= 1
     /\ bytes + MapThenSumSet(LAMBDA i : open_files[i].val.position, DOMAIN open_files) <= 3

\* The calls on bytes and offsets, over descriptors of a file and of the root.
OpensAndIO ==
  \/ IONext
  \/ \E fd \in FdArg : Dup(fd)
  \/ \E path \in PathArg, flags \in SUBSET OpenFlags :
       "O_CREAT" \in flags /\ Open(path, flags, PermBits)
IOSpec == Init /\ [][OpensAndIO]_vars

\* A program that makes files and deletes them, one after the other or not.
CreateAndUnlink ==
  \/ \E path \in PathArg : Open(path, {"O_CREAT"}, PermBits) \/ Unlink(path)
  \/ \E fd \in FdArg : Close(fd)
DeletionSpec == Init /\ [][CreateAndUnlink]_vars

\* The namespace calls, with a plain open and close to create files and to
\* hold descriptors.
NamedNext ==
  \/ NamespaceNext
  \/ \E path \in PathArg \ {Root} : Open(path, {"O_CREAT"}, PermBits)
  \/ \E fd \in FdArg : Close(fd)
NamespaceSpec == Init /\ [][NamedNext]_vars

\* The calls on attributes, with those that make, open and rename files.
NamesAndAttributes ==
  \/ AttributeNext
  \/ \E path \in PathArg, mode \in ModeArg : Open(path, {"O_CREAT"}, mode) \/ Mkdir(path, mode)
  \/ \E old, new \in PathArg : Rename(old, new)
  \/ \E path \in PathArg : Symlink(path) \/ Truncate(path, 1) \/ Chdir(path)
  \/ \E fd \in FdArg : Close(fd)
AttributeSpec == Init /\ [][NamesAndAttributes]_vars
=============================================================================
