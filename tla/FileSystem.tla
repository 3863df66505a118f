----------------------------- MODULE FileSystem -----------------------------
(***************************************************************************)
(* The state of src/filesystem.rs: the inode vector, the content table and *)
(* the path table, and the operations on them that the calls of Proc are   *)
(* built from.                                                             *)
(***************************************************************************)
EXTENDS HashMap, PathBuf

CONSTANTS
  Byte,         \* the bytes of file contents
  FilesCap,     \* FILES_CAP, 256 in the program
  PathMapCap,   \* PATH_MAP_CAP, 256 in the program
  MaxInodes     \* bound of the model on next_inode_number (u64 in the program)

ASSUME FsAssumption ==
  /\ FilesCap \in Nat /\ PathMapCap \in Nat \ {0} /\ MaxInodes \in Nat

VARIABLES
  inodes,              \* inode n is inodes[n + 1]
  next_inode_number,
  current_directory,
  files,               \* inode number -> content
  path_map             \* path -> inode number

fsVars == <<inodes, next_inode_number, current_directory, files, path_map>>

Kind == {"File", "Directory", "SymbolicLink"}

\* The nine permission bits: r, w, x for owner (u), group (g), other (o).
PermBits == {"ur", "uw", "ux", "gr", "gw", "gx", "or", "ow", "ox"}

Inode == [number : Nat, size : Nat, permissions : SUBSET PermBits,
          user_id : Nat, group_id : Nat, kind : Kind]

\* Inode::new as every caller uses it.  Permissions::from keeps the nine bits
\* of the mode.  Times, zero for ever, and a link's target are left out.
NewInode(number, mode, kind) ==
  [number |-> number, size |-> 0, permissions |-> mode \cap PermBits,
   user_id |-> 0, group_id |-> 0, kind |-> kind]

DefaultInode == NewInode(0, {}, "File")

InodeAt(n) == inodes[n + 1]
InodeExists(n) == n < Len(inodes)

FsInit ==
  /\ inodes = <<NewInode(0, {}, "Directory")>>
  /\ next_inode_number = 1
  /\ current_directory = Root
  /\ files = EmptyMap
  /\ path_map = Insert(PathMapCap, EmptyMap, Root, 0)

\* lookup_inode_by_path
Known(path) == HasKey(path_map, path)
InodeOf(path) == Get(path_map, path)

\* data.len() of an inode's content, 0 when it has none.
DataLen(contents, ino) ==
  IF HasKey(contents, ino) THEN Len(Get(contents, ino)) ELSE 0

\* Slip: the inode is numbered and named, and not pushed.
CreateFileUnpushed(path, mode) ==
  /\ next_inode_number < MaxInodes
  /\ next_inode_number' = next_inode_number + 1
  /\ UNCHANGED inodes
  /\ path_map' = Insert(PathMapCap, path_map, path, next_inode_number)

\* create_file, but for the content table, which the caller goes on changing:
\* CreatedFiles is what create_file leaves there.
CreateFile(path, mode) ==
  /\ next_inode_number < MaxInodes
  /\ next_inode_number' = next_inode_number + 1
  /\ inodes' = Append(inodes, NewInode(next_inode_number, mode, "File"))
  /\ path_map' = Insert(PathMapCap, path_map, path, next_inode_number)
\* Slip: the content is left for open to make.
CreatedFilesLate == files
CreatedFiles == Insert(FilesCap, files, next_inode_number, <<>>)
=============================================================================
