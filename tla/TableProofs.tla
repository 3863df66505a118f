----------------------------- MODULE TableProofs -----------------------------
(***************************************************************************)
(* The inductive invariant of Vfs, one group of conjuncts for each table,  *)
(* and what a change to one table leaves of it, for every size of the      *)
(* tables and every set of names.  The groups are proved together because  *)
(* each needs the others: that a content is held once, for one, rests on   *)
(* no content having a number yet to come, and that on the inode vector    *)
(* being as long as the next number.                                       *)
(***************************************************************************)
EXTENDS Vfs, HashMapProofs, SequenceTheorems

InodesOK ==
  /\ inodes \in Seq(Inode)
  /\ next_inode_number \in Nat
  /\ NumbersAreIndices

PathsOK ==
  /\ IsMap(path_map, PathMapCap, Path, Nat)
  /\ \A i \in DOMAIN path_map :
       /\ InodeExists(path_map[i].val)
       /\ IsDirectory(path_map[i].val) => IsAbsolute(path_map[i].key)

ContentsOK(contents, len) ==
  /\ IsMap(contents, FilesCap, Nat, Seq(Byte))
  /\ \A i \in DOMAIN contents : contents[i].key < len
  /\ UniqueKeys(contents)

FilesOK == ContentsOK(files, Len(inodes))

CwdOK == current_directory \in Path /\ IsAbsolute(current_directory)

DescriptorsOK ==
  /\ DOMAIN fd_table \subseteq Fd
  /\ fd_table \in [DOMAIN fd_table -> Nat]
  /\ \A fd \in DOMAIN fd_table : InodeExists(fd_table[fd])
  /\ IsMap(open_files, OpenFilesCap, Fd, Handle)
  /\ HandlesMatchTable

FlagsOK == umask_value \in SUBSET PermBits /\ trapped \in BOOLEAN

IInv == InodesOK /\ PathsOK /\ FilesOK /\ CwdOK /\ DescriptorsOK /\ FlagsOK

LEMMA IInvImplies ==
  IInv => /\ TypeOK /\ NumbersAreIndices /\ NoDanglingNumber
          /\ HandlesMatchTable /\ CwdIsAbsolute
  BY DEF IInv, InodesOK, PathsOK, FilesOK, CwdOK, DescriptorsOK, FlagsOK, TypeOK,
         NoDanglingNumber, CwdIsAbsolute, ContentsOK, InodeExists

-----------------------------------------------------------------------------
(* Inodes and paths                                                        *)

\* What every call does to the inode vector: it may add to it, and change what
\* an inode says but for its number and kind.
Grows ==
  /\ inodes' \in Seq(Inode)
  /\ Len(inodes) <= Len(inodes')
  /\ \A n \in 0..(Len(inodes) - 1) : /\ inodes'[n + 1].number = inodes[n + 1].number
                                      /\ inodes'[n + 1].kind = inodes[n + 1].kind

LEMMA NewInodeType ==
  ASSUME NEW number \in Nat, NEW mode, NEW kind \in Kind
  PROVE  NewInode(number, mode, kind) \in Inode
  BY DEF NewInode, Inode

LEMMA GrowsWhenUnchanged ==
  ASSUME InodesOK, UNCHANGED inodes PROVE Grows
  BY LenProperties DEF InodesOK, Grows

\* Pushing the inode numbered next_inode_number puts it at that index.
LEMMA AppendInodes ==
  ASSUME InodesOK, NEW inode \in Inode, inode.number = next_inode_number,
         inodes' = Append(inodes, inode), next_inode_number' = next_inode_number + 1
  PROVE  /\ InodesOK' /\ Grows
         /\ Len(inodes') = next_inode_number + 1
         /\ inodes'[next_inode_number + 1] = inode
<1>1. /\ inodes' \in Seq(Inode)
      /\ Len(inodes') = Len(inodes) + 1
      /\ \A i \in 1..Len(inodes) : inodes'[i] = inodes[i]
      /\ inodes'[Len(inodes) + 1] = inode
  BY AppendProperties DEF InodesOK
<1>2. Len(inodes) = next_inode_number /\ next_inode_number \in Nat
  BY DEF InodesOK, NumbersAreIndices
<1>3. Grows BY <1>1, <1>2 DEF Grows
<1>4. NumbersAreIndices'
  <2>1. ASSUME NEW n \in 0..next_inode_number PROVE inodes'[n + 1].number = n
    <3>1. CASE n = next_inode_number BY <1>1, <1>2, <3>1
    <3>2. CASE n < next_inode_number
      BY <1>1, <1>2, <3>2 DEF InodesOK, NumbersAreIndices, InodeAt
    <3> QED BY <1>2, <3>1, <3>2
  <2> QED BY <1>1, <1>2, <2>1 DEF NumbersAreIndices, InodeAt
<1> QED BY <1>1, <1>2, <1>3, <1>4 DEF InodesOK

\* Growing the vector up to index next_inode_number and writing there comes to
\* the same: the two ways of making an inode agree.
LEMMA GrownIsAppend ==
  ASSUME InodesOK, NEW inode \in Inode
  PROVE  [Grown(next_inode_number) EXCEPT ![next_inode_number + 1] = inode]
           = Append(inodes, inode)
<1> DEFINE n == next_inode_number
           more == [i \in 1..(n + 1 - Len(inodes)) |-> DefaultInode]
<1>1. Len(inodes) = n /\ n \in Nat BY DEF InodesOK, NumbersAreIndices
<1>2. DefaultInode \in Inode BY NewInodeType DEF DefaultInode, Kind
<1>3. more = <<DefaultInode>> BY <1>1
<1>4. inodes \in Seq(Inode) BY DEF InodesOK
<1>5. Grown(n) = Append(inodes, DefaultInode)
  BY <1>2, <1>3, <1>4, AppendIsConcat DEF Grown
<1> DEFINE g == Append(inodes, DefaultInode)
           s == [g EXCEPT ![n + 1] = inode]
           t == Append(inodes, inode)
<1>6. /\ g \in Seq(Inode) /\ Len(g) = n + 1
      /\ \A i \in 1..n : g[i] = inodes[i]
  BY <1>1, <1>2, <1>4, AppendProperties
<1>7. /\ t \in Seq(Inode) /\ Len(t) = n + 1 /\ t[n + 1] = inode
      /\ \A i \in 1..n : t[i] = inodes[i]
  BY <1>1, <1>4, AppendProperties
<1> HIDE DEF n, more, g, t
<1>8. /\ s \in Seq(Inode) /\ Len(s) = n + 1
      /\ \A i \in 1..(n + 1) : s[i] = IF i = n + 1 THEN inode ELSE g[i]
  BY <1>1, <1>6, ExceptSeq
<1> HIDE DEF s
<1>9. \A i \in 1..(n + 1) : s[i] = t[i] BY <1>1, <1>6, <1>7, <1>8
<1>10. s = t BY <1>7, <1>8, <1>9, SeqEqual
<1> QED BY <1>5, <1>10 DEF n, s, g, t

LEMMA JoinAbsolute ==
  ASSUME NEW p \in Path, IsAbsolute(p), NEW other \in Path
  PROVE  Join(p, other) \in Path /\ IsAbsolute(Join(p, other))
<1>1. /\ p \in Seq(Segment) /\ other \in Seq(Segment) /\ Len(other) \in Nat \ {0}
      /\ Len(p) \in Nat /\ Len(p) > 1 /\ p[1] = Nil
  BY EmptySeq, LenProperties DEF Path, IsAbsolute
<1>2. CASE IsAbsolute(other) BY <1>2 DEF Join
<1>3. CASE ~IsAbsolute(other) /\ p[Len(p)] # Nil
  <2>1. /\ p \o other \in Seq(Segment) /\ Len(p \o other) = Len(p) + Len(other)
        /\ (p \o other)[1] = Nil
    BY <1>1, ConcatProperties
  <2> QED BY <1>1, <1>3, <2>1, EmptySeq DEF Join, Path, IsAbsolute
<1>4. CASE ~IsAbsolute(other) /\ p[Len(p)] = Nil
  <2> DEFINE b == ButLast(p)
  <2>1. b \in Seq(Segment) /\ Len(b) = Len(p) - 1 /\ b[1] = Nil
    BY <1>1, SubSeqProperties, ElementOfSeq DEF ButLast
  <2> HIDE DEF b
  <2>2. /\ b \o other \in Seq(Segment) /\ Len(b \o other) = Len(b) + Len(other)
        /\ \A i \in 1..(Len(b) + Len(other)) :
             (b \o other)[i] = IF i <= Len(b) THEN b[i] ELSE other[i - Len(b)]
    BY <1>1, <2>1, ConcatProperties
  <2>3. (b \o other)[1] = Nil
    BY <1>1, <2>1, <2>2
  <2>4. Join(p, other) = b \o other BY <1>4 DEF Join, b
  <2> QED BY <1>1, <2>1, <2>2, <2>3, <2>4, EmptySeq DEF Path, IsAbsolute
<1> QED BY <1>2, <1>3, <1>4

LEMMA AbsolutePath ==
  ASSUME CwdOK, NEW path \in Path
  PROVE  Absolute(path) \in Path /\ IsAbsolute(Absolute(path))
  BY JoinAbsolute DEF CwdOK, Absolute

-----------------------------------------------------------------------------
(* What a change to one table leaves of the invariant                      *)

\* An inode that existed exists still, of the same kind.
LEMMA StillExists ==
  ASSUME InodesOK, Grows, NEW n \in Nat, InodeExists(n)
  PROVE  InodeExists(n)' /\ (IsDirectory(n)' <=> IsDirectory(n))
  BY LenProperties DEF InodesOK, Grows, InodeExists, IsDirectory, InodeAt

LEMMA PathsKept ==
  ASSUME InodesOK, Grows, PathsOK, UNCHANGED path_map PROVE PathsOK'
<1>1. \A i \in DOMAIN path_map : path_map[i].val \in Nat BY DEF PathsOK, IsMap
<1>2. ASSUME NEW i \in DOMAIN path_map
      PROVE  /\ InodeExists(path_map[i].val)'
             /\ IsDirectory(path_map[i].val)' => IsAbsolute(path_map[i].key)'
  BY <1>1, StillExists DEF PathsOK
<1> QED BY <1>2 DEF PathsOK

\* A name put for an inode there is: absolute, if that is a directory.
LEMMA PathsAfterInsert ==
  ASSUME InodesOK, Grows, PathsOK, NEW m, m = path_map \/ (\E k : m = Remove(path_map, k)),
         NEW p \in Path, NEW n \in Nat, InodeExists(n)',
         IsDirectory(n)' => IsAbsolute(p),
         path_map' = Insert(PathMapCap, m, p, n)
  PROVE  PathsOK'
<1> USE FsAssumption
<1>1. IsMap(path_map, PathMapCap, Path, Nat) BY DEF PathsOK
<1>2. IsMap(m, PathMapCap, Path, Nat) /\ DOMAIN m \subseteq DOMAIN path_map
      /\ \A i \in DOMAIN m : m[i] = path_map[i]
  BY <1>1, RemoveProperties
<1>3. /\ IsMap(path_map', PathMapCap, Path, Nat)
      /\ \A i \in DOMAIN path_map' : \/ i \in DOMAIN m /\ path_map'[i] = m[i]
                                     \/ path_map'[i] = [key |-> p, val |-> n]
  BY <1>2, InsertProperties
<1>4. ASSUME NEW i \in DOMAIN path_map'
      PROVE  /\ InodeExists(path_map[i].val)'
             /\ IsDirectory(path_map[i].val)' => IsAbsolute(path_map[i].key)'
  <2>1. CASE path_map'[i] = [key |-> p, val |-> n] BY <2>1
  <2>2. CASE i \in DOMAIN m /\ path_map'[i] = m[i]
    <3>1. i \in DOMAIN path_map /\ path_map'[i] = path_map[i] BY <1>2, <2>2
    <3>2. path_map[i].val \in Nat BY <1>1, <3>1 DEF IsMap
    <3> QED BY <3>1, <3>2, StillExists DEF PathsOK
  <2> QED BY <1>3, <2>1, <2>2
<1> QED BY <1>3, <1>4 DEF PathsOK

LEMMA PathsAfterRemove ==
  ASSUME InodesOK, UNCHANGED inodes, PathsOK, NEW k, path_map' = Remove(path_map, k)
  PROVE  PathsOK'
  BY RemoveProperties, FsAssumption DEF PathsOK, InodeExists, IsDirectory, InodeAt

LEMMA FilesKept ==
  ASSUME InodesOK, Grows, FilesOK, UNCHANGED files PROVE FilesOK'
<1>1. Len(inodes) \in Nat /\ Len(inodes') \in Nat /\ Len(inodes) <= Len(inodes')
  BY LenProperties DEF InodesOK, Grows
<1>2. \A i \in DOMAIN files : files[i].key \in Nat BY DEF FilesOK, ContentsOK, IsMap
<1> QED BY <1>1, <1>2 DEF FilesOK, ContentsOK

\* A content for an inode that had none.
LEMMA ContentsAfterInsert ==
  ASSUME NEW c, NEW len \in Nat, ContentsOK(c, len),
         NEW ino \in Nat, ino < len, ~HasKey(c, ino)
  PROVE  ContentsOK(Insert(FilesCap, c, ino, <<>>), len)
<1> DEFINE e == <<>>
           r == Insert(FilesCap, c, ino, e)
<1>1. e \in Seq(Byte) OBVIOUS
<1> HIDE DEF e
<1>2. IsMap(c, FilesCap, Nat, Seq(Byte)) /\ UniqueKeys(c) /\ FilesCap \in Nat
  BY FsAssumption DEF ContentsOK
<1>3. /\ IsMap(r, FilesCap, Nat, Seq(Byte))
      /\ \A i \in DOMAIN r : \/ i \in DOMAIN c /\ r[i] = c[i]
                             \/ r[i] = [key |-> ino, val |-> e]
  <2> DEFINE K == Nat
             V == Seq(Byte)
  <2>1. IsMap(c, FilesCap, K, V) /\ FilesCap \in Nat /\ ino \in K /\ e \in V
    BY <1>1, <1>2
  <2> HIDE DEF K, V
  <2>2. /\ IsMap(r, FilesCap, K, V)
        /\ \A i \in DOMAIN r : \/ i \in DOMAIN c /\ r[i] = c[i]
                               \/ r[i] = [key |-> ino, val |-> e]
    BY <2>1, InsertProperties
  <2> QED BY <2>2 DEF K, V
<1>4. UniqueKeys(r) BY <1>1, <1>2, InsertAbsentUnique
<1> HIDE DEF r
<1>5. ContentsOK(r, len) BY <1>3, <1>4 DEF ContentsOK
<1> QED BY <1>5 DEF r, e

\* A content assigned to, if there is one.
LEMMA ContentsAfterUpdate ==
  ASSUME NEW c, NEW len \in Nat, ContentsOK(c, len), NEW ino, NEW d \in Seq(Byte)
  PROVE  ContentsOK(Update(c, ino, d), len)
<1>1. IsMap(c, FilesCap, Nat, Seq(Byte)) /\ UniqueKeys(c) /\ FilesCap \in Nat
  BY FsAssumption DEF ContentsOK
<1> DEFINE r == Update(c, ino, d)
           K == Nat
           V == Seq(Byte)
<1>2. IsMap(c, FilesCap, K, V) /\ d \in V BY <1>1
<1> HIDE DEF K, V
<1>3. /\ IsMap(r, FilesCap, K, V) /\ DOMAIN r = DOMAIN c
      /\ \A i \in DOMAIN c : r[i].key = c[i].key
      /\ UniqueKeys(r)
  BY <1>1, <1>2, UpdateProperties
<1> HIDE DEF r
<1>4. ContentsOK(r, len) BY <1>3 DEF ContentsOK, K, V
<1> QED BY <1>4 DEF r

\* Step 2 of open.
LEMMA ContentsAfterPrepared ==
  ASSUME NEW c, NEW len \in Nat, ContentsOK(c, len),
         NEW ino \in Nat, ino < len, NEW flags
  PROVE  ContentsOK(Prepared(c, ino, flags), len)
<1>1. CASE "O_TRUNC" \in flags
  <2>1. PICK e \in Seq(Byte) : e = <<>> BY EmptySeq
  <2>2. ContentsOK(Update(c, ino, e), len) BY <2>1, ContentsAfterUpdate
  <2> QED BY <1>1, <2>1, <2>2 DEF Prepared
<1>2. CASE "O_TRUNC" \notin flags
  BY <1>2, ContentsAfterInsert DEF Prepared
<1> QED BY <1>1, <1>2

\* What is read from the content table.
LEMMA ContentType ==
  ASSUME NEW c, NEW len, ContentsOK(c, len), NEW ino
  PROVE  /\ HasKey(c, ino) => Get(c, ino) \in Seq(Byte)
         /\ DataLen(c, ino) \in Nat
<1>1. IsMap(c, FilesCap, Nat, Seq(Byte)) /\ FilesCap \in Nat
  BY FsAssumption DEF ContentsOK
<1> DEFINE K == Nat
           V == Seq(Byte)
<1>2. IsMap(c, FilesCap, K, V) BY <1>1
<1> HIDE DEF K, V
<1>3. HasKey(c, ino) => Get(c, ino) \in V BY <1>1, <1>2, FirstSlot
<1> QED BY <1>3, LenProperties DEF DataLen, V

\* Number len is no inode's yet, so no content has it.
LEMMA NewNumberHasNoContent ==
  ASSUME NEW c, NEW len \in Nat, ContentsOK(c, len)
  PROVE  ~HasKey(c, len) /\ ContentsOK(c, len + 1)
<1>1. \A i \in DOMAIN c : c[i].key \in Nat BY DEF ContentsOK, IsMap
<1> QED BY <1>1 DEF ContentsOK, HasKey, SlotsOf

LEMMA DescriptorsNotDangling ==
  ASSUME InodesOK, Grows, DescriptorsOK, NEW d \in DOMAIN fd_table, NEW n, n = fd_table[d]
  PROVE  n \in Nat /\ InodeExists(n)'
<1>1. n \in Nat /\ InodeExists(n) BY DEF DescriptorsOK
<1> QED BY <1>1, StillExists

LEMMA DescriptorsKept ==
  ASSUME InodesOK, Grows, DescriptorsOK, UNCHANGED <<fd_table, open_files>>
  PROVE  DescriptorsOK'
<1>1. \A fd \in DOMAIN fd_table : InodeExists(fd_table[fd])'
  BY DescriptorsNotDangling
<1> QED BY <1>1 DEF DescriptorsOK, HandlesMatchTable

\* A lookup that succeeds yields the number of an inode.
LEMMA LookupExists ==
  ASSUME PathsOK, NEW p, Known(p)
  PROVE  /\ InodeOf(p) \in Nat /\ InodeExists(InodeOf(p))
         /\ IsDirectory(InodeOf(p)) => IsAbsolute(p)
<1>1. IsMap(path_map, PathMapCap, Path, Nat) BY DEF PathsOK
<1> DEFINE s == Min(SlotsOf(path_map, p))
<1>2. s \in DOMAIN path_map /\ path_map[s].key = p /\ Get(path_map, p) \in Nat
  BY <1>1, FirstSlot, FsAssumption DEF Known
<1> QED BY <1>2 DEF InodeOf, Get, PathsOK

\* A descriptor fd is put in place, whose handle, if it had one, is gone (m
\* is the rest), and it gets one for the same inode, or none.
LEMMA DescriptorsAfterPut ==
  ASSUME InodesOK, Grows, DescriptorsOK,
         NEW fd \in Fd, NEW ino \in Nat, InodeExists(ino)',
         NEW m, IsMap(m, OpenFilesCap, Fd, Handle), UniqueKeys(m), ~HasKey(m, fd),
         DOMAIN m \subseteq DOMAIN open_files,
         \A i \in DOMAIN m : m[i] = open_files[i],
         fd_table' = FdTableWith(fd, ino),
         \/ open_files' = m
         \/ \E h \in Handle : /\ h.inode_number = ino
                              /\ open_files' = Insert(OpenFilesCap, m, fd, h)
  PROVE  DescriptorsOK'
<1> USE ProcAssumption
<1>1. /\ DOMAIN fd_table' = DOMAIN fd_table \cup {fd}
      /\ fd_table'[fd] = ino
      /\ \A d \in DOMAIN fd_table \ {fd} : fd_table'[d] = fd_table[d]
      /\ fd_table' = [d \in DOMAIN fd_table' |-> fd_table'[d]]
  BY DEF FdTableWith
<1>2. \A d \in DOMAIN fd_table : \A n : n = fd_table[d] => n \in Nat /\ InodeExists(n)'
  BY DescriptorsNotDangling
<1>3. /\ DOMAIN fd_table' \subseteq Fd
      /\ fd_table' \in [DOMAIN fd_table' -> Nat]
      /\ \A d \in DOMAIN fd_table' : InodeExists(fd_table[d])'
  <2>1. ASSUME NEW d \in DOMAIN fd_table'
        PROVE  fd_table'[d] \in Nat /\ InodeExists(fd_table[d])'
    <3>1. CASE d = fd BY <1>1, <3>1
    <3>2. CASE d # fd
      <4>1. d \in DOMAIN fd_table /\ fd_table'[d] = fd_table[d] BY <1>1, <3>2
      <4> QED BY <1>2, <4>1
    <3> QED BY <3>1, <3>2
  <2> QED BY <1>1, <2>1 DEF DescriptorsOK
<1>4. ASSUME NEW i \in DOMAIN m
      PROVE  /\ m[i].key \in DOMAIN fd_table'
             /\ m[i].val.inode_number = fd_table'[m[i].key]
  <2>1. m[i].key # fd BY DEF HasKey, SlotsOf
  <2>2. /\ m[i].key \in DOMAIN fd_table
        /\ m[i].val.inode_number = fd_table[m[i].key]
    BY DEF DescriptorsOK, HandlesMatchTable
  <2> QED BY <1>1, <2>1, <2>2
<1>5. CASE open_files' = m
  BY <1>3, <1>4, <1>5 DEF DescriptorsOK, HandlesMatchTable
<1>6. ASSUME NEW h \in Handle, h.inode_number = ino,
             open_files' = Insert(OpenFilesCap, m, fd, h)
      PROVE  DescriptorsOK'
  <2>1. /\ IsMap(open_files', OpenFilesCap, Fd, Handle)
        /\ \A i \in DOMAIN open_files' :
             \/ i \in DOMAIN m /\ open_files'[i] = m[i]
             \/ open_files'[i] = [key |-> fd, val |-> h]
    BY <1>6, InsertProperties
  <2>2. UniqueKeys(open_files') BY <1>6, InsertAbsentUnique
  <2>3. ASSUME NEW i \in DOMAIN open_files'
        PROVE  /\ open_files'[i].key \in DOMAIN fd_table'
               /\ open_files'[i].val.inode_number = fd_table'[open_files'[i].key]
    BY <1>1, <1>4, <1>6, <2>1
  <2> QED BY <1>3, <2>1, <2>2, <2>3 DEF DescriptorsOK, HandlesMatchTable
<1> QED BY <1>5, <1>6

\* A descriptor in use has the handle of its inode, or none.
LEMMA HandleOf ==
  ASSUME DescriptorsOK, NEW fd, HasKey(open_files, fd)
  PROVE  /\ Get(open_files, fd) \in Handle
         /\ fd \in DOMAIN fd_table
         /\ Get(open_files, fd).inode_number = fd_table[fd]
<1>1. IsMap(open_files, OpenFilesCap, Fd, Handle) BY DEF DescriptorsOK
<1> QED BY <1>1, FirstSlot, ProcAssumption DEF DescriptorsOK, HandlesMatchTable, Get

\* allocate_fd yields a descriptor that is not in use and has no handle.
LEMMA AllocatedIsFree ==
  ASSUME DescriptorsOK, FreeFds # {}
  PROVE  /\ AllocateFd \in Fd /\ AllocateFd \notin DOMAIN fd_table
         /\ ~HasKey(open_files, AllocateFd)
<1>1. FreeFds \in SUBSET Nat BY DEF FreeFds
<1>2. AllocateFd \in FreeFds BY <1>1, MinOfNats DEF AllocateFd
<1>3. AllocateFd \in Fd /\ AllocateFd \notin DOMAIN fd_table
  BY <1>2, ProcAssumption DEF FreeFds, Fd
<1> QED BY <1>3, HandleOf

-----------------------------------------------------------------------------
(* Steps that leave most tables alone                                      *)

\* A step, be it a failed call or a panic, that leaves the tables alone.
LEMMA QuietStep ==
  ASSUME IInv, trapped' \in BOOLEAN,
         UNCHANGED <<inodes, next_inode_number, current_directory, files, path_map>>,
         UNCHANGED <<fd_table, open_files, umask_value>>
  PROVE  IInv' /\ Grows
<1>1. InodesOK' /\ Grows
  BY GrowsWhenUnchanged DEF IInv, InodesOK, NumbersAreIndices, InodeAt
<1>2. PathsOK' BY <1>1, PathsKept DEF IInv
<1>3. FilesOK' BY <1>1, FilesKept DEF IInv
<1>4. DescriptorsOK' BY <1>1, DescriptorsKept DEF IInv
<1> QED BY <1>1, <1>2, <1>3, <1>4 DEF IInv, CwdOK, FlagsOK

\* A step on the names, or on the working directory, alone.
LEMMA NamesStep ==
  ASSUME IInv, PathsOK', CwdOK',
         UNCHANGED <<inodes, next_inode_number, files>>,
         UNCHANGED <<fd_table, open_files, umask_value, trapped>>
  PROVE  IInv' /\ Grows
<1>1. InodesOK' /\ Grows
  BY GrowsWhenUnchanged DEF IInv, InodesOK, NumbersAreIndices, InodeAt
<1>2. FilesOK' BY <1>1, FilesKept DEF IInv
<1>3. DescriptorsOK' BY <1>1, DescriptorsKept DEF IInv
<1> QED BY <1>1, <1>2, <1>3 DEF IInv, FlagsOK

\* A step on the descriptors and on the contents of existing inodes alone.
LEMMA DescriptorsStep ==
  ASSUME IInv, FilesOK', DescriptorsOK',
         UNCHANGED <<inodes, next_inode_number, current_directory, path_map>>,
         UNCHANGED <<umask_value, trapped>>
  PROVE  IInv' /\ Grows
<1>1. InodesOK' /\ Grows
  BY GrowsWhenUnchanged DEF IInv, InodesOK, NumbersAreIndices, InodeAt
<1>2. PathsOK' BY <1>1, PathsKept DEF IInv
<1> QED BY <1>1, <1>2 DEF IInv, CwdOK, FlagsOK
=============================================================================
