------------------------------ MODULE StepProofs ------------------------------
(***************************************************************************)
(* What a step may do: the properties of Vfs that relate a state to the    *)
(* next one, and the invariants that follow from them.  For each group of  *)
(* tables one lemma says what any step does to it, whichever call it is;   *)
(* the properties are proved from these lemmas, and not call by call.      *)
(***************************************************************************)
EXTENDS VfsProofs

(* Inodes and contents                                                     *)

\* chmod or chown, by path or by descriptor.
AttributesSet ==
  /\ UNCHANGED files
  /\ \/ \E path \in PathArg, mode \in ModeArg : Chmod(path, mode)
     \/ \E fd \in FdArg, mode \in ModeArg : Fchmod(fd, mode)
     \/ \E owner, group \in OwnerArg :
          \/ \E path \in PathArg : Chown(path, owner, group)
          \/ \E fd \in FdArg : Fchown(fd, owner, group)

\* A content grows to what a vector can hold at most.
Fits(d, ino) == Len(d) <= MaxLen \/ Len(d) <= DataLen(files, ino)

\* A content is assigned to; only sendfile and splice leave the size alone.
ContentAssigned ==
  \E ino \in Nat, d \in Seq(Byte) :
    /\ InodeExists(ino) /\ Fits(d, ino)
    /\ files' = Update(files, ino, d)
    /\ SizeRefreshed(ino) \/ (UNCHANGED inodes /\ last'.call \in {"sendfile", "splice"})

ExistingOpened ==
  /\ last'.call = "open"
  /\ UNCHANGED inodes
  /\ \E ino \in Nat, flags \in SUBSET OpenFlags : files' = Prepared(files, ino, flags)

\* An inode is added, with what becomes of its content.
InodeAdded ==
  \E mode : \E kind \in Kind :
    /\ inodes' = Append(inodes, NewInode(next_inode_number, mode, kind))
    /\ \/ /\ kind = "File" /\ last'.call = "open"
          /\ \E flags \in SUBSET OpenFlags :
               files' = Prepared(CreatedFiles, next_inode_number, flags)
       \/ kind = "Directory" /\ files' = CreatedFiles
       \/ kind = "SymbolicLink" /\ UNCHANGED files

ContentEffect ==
  \/ UNCHANGED <<inodes, files>>
  \/ AttributesSet \/ ContentAssigned \/ ExistingOpened \/ InodeAdded

LEMMA NothingFails ==
  ASSUME NEW call, NEW names, Fails(call, names) \/ Panics(call, names)
  PROVE  ContentEffect
  BY DEF Fails, Panics, ContentEffect

LEMMA OpenEffect ==
  ASSUME IInv, NEW path \in Path, NEW flags \in SUBSET OpenFlags, NEW mode, Open(path, flags, mode)
  PROVE  ContentEffect
<1>1. CASE OpenMissing(path, flags) BY <1>1, NothingFails DEF OpenMissing
<1>2. CASE OpenExisting(path, flags)
  <2>1. InodeOf(path) \in Nat BY <1>2, LookupExists DEF IInv, OpenExisting
  <2>2. last'.call = "open" BY <1>2 DEF OpenExisting, OpenDescriptor, Returns
  <2> QED BY <1>2, <2>1, <2>2 DEF OpenExisting, ContentEffect, ExistingOpened
<1>3. CASE OpenCreating(path, flags, mode)
  <2>1. last'.call = "open" BY <1>3 DEF OpenCreating, OpenDescriptor, Returns
  <2>2. /\ inodes' = Append(inodes, NewInode(next_inode_number, mode, "File"))
        /\ files' = Prepared(CreatedFiles, next_inode_number, flags)
    BY <1>3 DEF OpenCreating, CreateFile
  <2>3. "File" \in Kind BY DEF Kind
  <2>4. InodeAdded BY <2>1, <2>2, <2>3 DEF InodeAdded
  <2> QED BY <2>4 DEF ContentEffect
<1> QED BY <1>1, <1>2, <1>3 DEF Open

LEMMA EntryEffect ==
  ASSUME IInv, NEW path, NEW mode, NEW kind \in {"SymbolicLink", "Directory"},
         InsertDirectoryEntry(path, mode, kind)
  PROVE  ContentEffect
<1>1. next_inode_number \in Nat BY DEF IInv, InodesOK
<1>2. NewInode(next_inode_number, mode, kind) \in Inode BY <1>1, NewInodeType DEF Kind
<1>3. inodes' = Append(inodes, NewInode(next_inode_number, mode, kind))
  BY <1>2, GrownIsAppend DEF InsertDirectoryEntry, IInv
<1>4. \/ kind = "Directory" /\ files' = CreatedFiles
      \/ kind = "SymbolicLink" /\ UNCHANGED files
  BY DEF InsertDirectoryEntry, CreatedFiles
<1>5. kind \in Kind BY DEF Kind
<1>6. InodeAdded BY <1>3, <1>4, <1>5 DEF InodeAdded
<1> QED BY <1>6 DEF ContentEffect

LEMMA NamespaceEffect ==
  ASSUME IInv, NamespaceNext
  PROVE  ContentEffect
<1>1. ASSUME NEW path, NEW mode, Symlink(path) \/ Mkdir(path, mode)
      PROVE  ContentEffect
  BY <1>1, EntryEffect, NothingFails DEF Symlink, Mkdir
<1> QED
  BY <1>1, NothingFails
  DEF NamespaceNext, ContentEffect, Rename, Link, Unlink, Rmdir, Chdir, Fchdir

LEMMA ResizedFits ==
  ASSUME NEW data \in Seq(Byte), NEW len \in Nat, NEW ino,
         len <= MaxLen \/ len <= DataLen(files, ino)
  PROVE  Resized(data, len) \in Seq(Byte) /\ Fits(Resized(data, len), ino)
<1>1. Resized(data, len) \in Seq(Byte) /\ DOMAIN Resized(data, len) = 1..len
  BY ResizedType
<1>2. Len(Resized(data, len)) = len BY <1>1, LenProperties
<1> QED BY <1>1, <1>2 DEF Fits

LEMMA OverwrittenFits ==
  ASSUME NEW ino, HasKey(files, ino), Get(files, ino) \in Seq(Byte),
         NEW pos \in Nat, NEW bytes \in Seq(Byte), ~Overruns(pos, Len(bytes))
  PROVE  /\ Overwritten(Get(files, ino), pos, bytes) \in Seq(Byte)
         /\ Fits(Overwritten(Get(files, ino), pos, bytes), ino)
<1> DEFINE data == Get(files, ino)
<1>1. Len(data) \in Nat /\ Len(bytes) \in Nat BY LenProperties
<1>2. DataLen(files, ino) = Len(data) BY DEF DataLen
<1>3. pos + Len(bytes) <= MaxLen BY <1>1, IOAssumption DEF Overruns
<1>4. Overwritten(data, pos, bytes) \in Seq(Byte)
      /\ Len(Overwritten(data, pos, bytes)) = Max({Len(data), pos + Len(bytes)})
  BY OverwrittenFacts
<1>5. Max({Len(data), pos + Len(bytes)}) \in {Len(data), pos + Len(bytes)}
  BY <1>1, MaxOfTwo
<1> QED BY <1>1, <1>2, <1>3, <1>4, <1>5 DEF Fits

LEMMA SetFileSizeEffect ==
  ASSUME IInv, NEW ino \in Nat, InodeExists(ino), NEW len \in Nat, NEW call, NEW names,
         SetFileSize(ino, len, call, names)
  PROVE  ContentEffect
<1>1. CASE Panics(call, names) BY <1>1, NothingFails
<1>2. CASE /\ HasKey(files, ino) => len <= MaxLen
           /\ files' = Update(files, ino, Resized(Get(files, ino), len))
           /\ SizeRefreshed(ino)
  <2>1. CASE HasKey(files, ino)
    <3>1. Get(files, ino) \in Seq(Byte) BY <2>1, ContentType DEF IInv, FilesOK
    <3>2. Resized(Get(files, ino), len) \in Seq(Byte) /\ Fits(Resized(Get(files, ino), len), ino)
      BY <1>2, <2>1, <3>1, ResizedFits
    <3> QED BY <1>2, <3>2 DEF ContentEffect, ContentAssigned
  <2>2. CASE ~HasKey(files, ino)
    <3>1. \A d : Update(files, ino, d) = files BY <2>2 DEF Update
    <3>2. PICK e \in Seq(Byte) : e = <<>> BY EmptySeq
    <3>3. files' = Update(files, ino, e) BY <1>2, <3>1
    <3>4. Fits(e, ino) BY <3>2, IOAssumption DEF Fits
    <3> QED BY <1>2, <3>3, <3>4 DEF ContentEffect, ContentAssigned
  <2> QED BY <2>1, <2>2
<1> QED BY <1>1, <1>2 DEF SetFileSize

LEMMA CopyEffect ==
  ASSUME IInv, NEW call \in {"sendfile", "splice"}, NEW in_fd, NEW off_in \in Int \cup {Nowhere},
         NEW out_fd, NEW off_out \in Int \cup {Nowhere}, NEW count \in Nat,
         Copy(call, in_fd, off_in, out_fd, off_out, count)
  PROVE  ContentEffect
<1> DEFINE in == HandleAt(in_fd)
           out == HandleAt(out_fd)
           readPos == AsUsize(IF off_in = Nowhere THEN in.position ELSE off_in)
           toEnd == out.append_mode /\ off_out = Nowhere
           writePos == IF toEnd THEN Len(ContentAt(out_fd))
                       ELSE AsUsize(IF off_out = Nowhere THEN out.position ELSE off_out)
           n == Min({count, Len(ContentAt(in_fd)) - readPos})
           part == SubSeq(ContentAt(in_fd), readPos + 1, readPos + n)
           data == Overwritten(ContentAt(out_fd), writePos, part)
<1>1. CASE Fails(call, <<>>) \/ Panics(call, <<>>) BY <1>1, NothingFails
<1>2. CASE UNCHANGED <<inodes, files>> BY <1>2 DEF ContentEffect
<1>3. ASSUME Accessible(in_fd), Accessible(out_fd), readPos < Len(ContentAt(in_fd)),
             ~Overruns(writePos, n),
             files' = Update(files, out.inode_number, data), UNCHANGED inodes, last'.call = call
      PROVE  ContentEffect
  <2>1. writePos \in Nat /\ part \in Seq(Byte) BY <1>3, CopyFacts
  <2>2. Len(part) = n BY <1>3, CopyFacts, ZenonT(120)
  <2>3. PICK ino \in Nat : ino = out.inode_number /\ InodeExists(ino)
    BY <1>3, AccessibleFacts
  <2>4. data \in Seq(Byte) /\ Fits(data, ino)
    <3>1. /\ HasKey(files, ino)
          /\ Get(files, ino) = ContentAt(out_fd) /\ Get(files, ino) \in Seq(Byte)
      BY <1>3, <2>3, AccessibleFacts DEF Accessible, ContentAt
    <3>2. ~Overruns(writePos, Len(part)) BY <1>3, <2>2
    <3> HIDE DEF n, part, writePos
    <3> QED BY <2>1, <3>1, <3>2, OverwrittenFits
  <2> HIDE DEF data, out
  <2> QED BY <1>3, <2>3, <2>4 DEF ContentEffect, ContentAssigned
<1> QED BY <1>1, <1>2, <1>3 DEF Copy, Returns

LEMMA WritingEffect ==
  ASSUME IInv, NEW fd, NEW bytes \in Seq(Byte), NEW offset \in Int,
         Write(fd, bytes) \/ Pwrite64(fd, bytes, offset)
  PROVE  ContentEffect
<1>1. ASSUME NEW call, Fails(call, <<>>) \/ Panics(call, <<>>) PROVE ContentEffect
  BY <1>1, NothingFails
<1>2. ASSUME Accessible(fd), NEW pos \in Int, ~Overruns(AsUsize(pos), Len(bytes)),
             SizeRefreshed(HandleAt(fd).inode_number),
             files' = Update(files, HandleAt(fd).inode_number,
                             Overwritten(ContentAt(fd), AsUsize(pos), bytes))
      PROVE  ContentEffect
  <2>1. PICK ino \in Nat : ino = HandleAt(fd).inode_number /\ InodeExists(ino)
    BY <1>2, AccessibleFacts
  <2>2. HasKey(files, ino) /\ Get(files, ino) = ContentAt(fd) /\ Get(files, ino) \in Seq(Byte)
    BY <1>2, <2>1, AccessibleFacts DEF Accessible, ContentAt
  <2>3. /\ Overwritten(ContentAt(fd), AsUsize(pos), bytes) \in Seq(Byte)
        /\ Fits(Overwritten(ContentAt(fd), AsUsize(pos), bytes), ino)
    <3>1. AsUsize(pos) \in Nat BY AsUsizeType
    <3> QED BY <1>2, <2>2, <3>1, OverwrittenFits
  <2> QED BY <1>2, <2>1, <2>3 DEF ContentEffect, ContentAssigned
<1>3. CASE Write(fd, bytes)
  <2>1. Accessible(fd) => WriteStart(fd) \in Int
    BY AccessibleFacts, LenProperties DEF WriteStart
  <2> QED BY <1>1, <1>2, <1>3, <2>1 DEF Write
<1>4. CASE Pwrite64(fd, bytes, offset) BY <1>1, <1>2, <1>4 DEF Pwrite64
<1> QED BY <1>3, <1>4

LEMMA ResizingEffect ==
  ASSUME IInv, NEW path \in Path, NEW fd, NEW length \in Int, NEW len \in Int,
         \/ Truncate(path, length) \/ Ftruncate(fd, length)
         \/ Fallocate(fd, length, len)
  PROVE  ContentEffect
<1>1. ASSUME NEW call, NEW names, Fails(call, names) \/ Panics(call, names)
      PROVE  ContentEffect
  BY <1>1, NothingFails
<1>2. ASSUME NEW ino, NEW call, NEW names, ino \in Nat, InodeExists(ino),
             SetFileSize(ino, AsUsize(length), call, names)
      PROVE  ContentEffect
  BY <1>2, AsUsizeType, SetFileSizeEffect
<1>3. CASE Truncate(path, length)
  BY <1>1, <1>2, <1>3, LookupExists DEF Truncate, IInv
<1>4. CASE Ftruncate(fd, length)
  BY <1>1, <1>2, <1>4 DEF Ftruncate, IInv, DescriptorsOK
<1>5. CASE Fallocate(fd, length, len)
  <2> DEFINE end == Max({AsUsize(length + len), DataLen(files, fd_table[fd])})
  <2>1. ASSUME fd \in DOMAIN fd_table, HasKey(files, fd_table[fd]),
               AsUsize(length + len) <= MaxLen,
               files' = Update(files, fd_table[fd], Resized(Get(files, fd_table[fd]), end)),
               SizeRefreshed(fd_table[fd])
        PROVE  ContentEffect
    <3>1. PICK ino \in Nat : ino = fd_table[fd] /\ InodeExists(ino)
      BY <2>1 DEF IInv, DescriptorsOK
    <3>2. Get(files, ino) \in Seq(Byte) /\ DataLen(files, ino) \in Nat
      BY <2>1, <3>1, ContentType DEF IInv, FilesOK
    <3>3. end \in Nat /\ (end <= MaxLen \/ end <= DataLen(files, ino))
      <4>1. AsUsize(length + len) \in Nat BY AsUsizeType
      <4>2. end \in Nat /\ end \in {AsUsize(length + len), DataLen(files, ino)}
        BY <3>1, <3>2, <4>1, MaxOfTwo
      <4> QED BY <2>1, <3>2, <4>2
    <3> HIDE DEF end
    <3>4. /\ Resized(Get(files, ino), end) \in Seq(Byte)
          /\ Fits(Resized(Get(files, ino), end), ino)
      BY <3>2, <3>3, ResizedFits
    <3> QED BY <2>1, <3>1, <3>4 DEF ContentEffect, ContentAssigned
  <2> QED BY <1>1, <1>5, <2>1 DEF Fallocate
<1> QED BY <1>3, <1>4, <1>5

\* Every step, seen from the inodes and the contents.
LEMMA EffectOnContents ==
  ASSUME IInv, [Next]_vars
  PROVE  ContentEffect
<1> USE ArgAssumption
<1>1. CASE UNCHANGED vars BY <1>1 DEF vars, ContentEffect
<1>2. CASE DescriptorNext
  <2>1. ASSUME NEW fd, NEW newfd, Close(fd) \/ Dup(fd) \/ Dup2(fd, newfd)
        PROVE  ContentEffect
    BY <2>1, NothingFails DEF Close, Dup, Dup2, ContentEffect
  <2>2. {"O_CREAT", "O_TRUNC"} \in SUBSET OpenFlags BY DEF OpenFlags
  <2> QED BY <1>2, <2>1, <2>2, OpenEffect DEF DescriptorNext, Openat, Creat
<1>3. CASE NamespaceNext BY <1>3, NamespaceEffect
<1>4. CASE IONext
  <2>1. ASSUME NEW fd, NEW count, NEW offset, NEW whence,
               Read(fd, count) \/ Pread64(fd, count, offset) \/ Lseek(fd, offset, whence)
        PROVE  ContentEffect
    BY <2>1, NothingFails DEF Read, Pread64, Lseek, Seeks, ContentEffect
  <2>2. ASSUME NEW in \in FdArg, NEW out \in FdArg, NEW from \in OffsetArg \cup {Nowhere},
               NEW to \in OffsetArg \cup {Nowhere}, NEW count \in CountArg,
               Splice(in, from, out, to, count)
        PROVE  ContentEffect
    BY <2>2, CopyEffect DEF Splice
  <2>3. ASSUME NEW in \in FdArg, NEW out \in FdArg, NEW from \in OffsetArg \cup {Nowhere},
               NEW count \in CountArg, Sendfile(out, in, from, count)
        PROVE  ContentEffect
    BY <2>3, CopyEffect DEF Sendfile
  <2>4. ASSUME NEW fd \in FdArg, NEW bytes \in DataArg, Write(fd, bytes)
        PROVE  ContentEffect
    <3>1. 0 \in Int OBVIOUS
    <3> QED BY <2>4, <3>1, WritingEffect
  <2>5. ASSUME NEW fd \in FdArg, NEW bytes \in DataArg, NEW offset \in OffsetArg,
               Pwrite64(fd, bytes, offset)
        PROVE  ContentEffect
    BY <2>5, WritingEffect
  <2>6. ASSUME NEW fd \in FdArg, NEW offset \in OffsetArg, NEW len \in OffsetArg,
               Ftruncate(fd, offset) \/ Fallocate(fd, offset, len)
        PROVE  ContentEffect
    <3>1. Root \in Path BY DEF Root, Path, Segment
    <3> QED BY <2>6, <3>1, ResizingEffect
  <2>7. ASSUME NEW path \in PathArg, NEW length \in OffsetArg, Truncate(path, length)
        PROVE  ContentEffect
    BY <2>7, ResizingEffect
  <2> QED BY <1>4, <2>1, <2>2, <2>3, <2>4, <2>5, <2>6, <2>7
          DEF IONext, Sendfile64, PosixFallocate
<1>5. CASE ListingNext
  BY <1>5, NothingFails DEF ListingNext, Getdents64, Getdents, ContentEffect
<1>6. CASE AttributeNext
  <2>1. ASSUME NEW path, NEW fd, NEW mode, NEW count,
               \/ Stat(path) \/ Fstat(fd) \/ Access(path, mode)
               \/ Readlink(path, count) \/ Getcwd \/ NoOp \/ Umask(mode)
        PROVE  ContentEffect
    BY <2>1, NothingFails DEF Stat, Fstat, Access, Readlink, Getcwd, NoOp, Umask,
       Reports, ContentEffect
  <2>2. ASSUME NEW path, NEW fd, NEW mode, NEW owner, NEW group,
               \/ Chmod(path, mode) \/ Fchmod(fd, mode)
               \/ Chown(path, owner, group) \/ Fchown(fd, owner, group)
        PROVE  UNCHANGED files
    BY <2>2 DEF Chmod, Fchmod, Chown, Fchown, SetsInode, Fails
  <2> QED BY <1>6, <2>1, <2>2 DEF AttributeNext, ContentEffect, AttributesSet
<1> QED BY <1>1, <1>2, <1>3, <1>4, <1>5, <1>6 DEF Next

-----------------------------------------------------------------------------
(* Contents that files lack, sizes, attributes                             *)

\* An assignment to a content, if there is one, as every other inode sees it.
LEMMA AssignedContents ==
  ASSUME NEW c, IsMap(c, FilesCap, Nat, Seq(Byte)), NEW ino, NEW d \in Seq(Byte)
  PROVE  /\ \A j : HasKey(Update(c, ino, d), j) <=> HasKey(c, j)
         /\ Full(FilesCap, Update(c, ino, d)) <=> Full(FilesCap, c)
         /\ \A j : j # ino => SameAt(c, Update(c, ino, d), j)
         /\ HasKey(c, ino) => Get(Update(c, ino, d), ino) = d
<1> DEFINE K == Nat
           V == Seq(Byte)
<1>1. IsMap(c, FilesCap, K, V) /\ d \in V /\ FilesCap \in Nat BY FsAssumption
<1> HIDE DEF K, V
<1> QED BY <1>1, UpdateKeepsKeys, UpdateKeepsOthers, GetUpdated

\* What open makes of the contents: none is lost, and no other inode's changed.
LEMMA PreparedContents ==
  ASSUME NEW c, IsMap(c, FilesCap, Nat, Seq(Byte)), NEW ino \in Nat, NEW flags
  PROVE  /\ \A j : HasKey(c, j) => HasKey(Prepared(c, ino, flags), j)
         /\ Full(FilesCap, c) => Full(FilesCap, Prepared(c, ino, flags))
         /\ \A j : j # ino => SameAt(c, Prepared(c, ino, flags), j)
<1>1. PICK e \in Seq(Byte) : e = <<>> BY EmptySeq
<1>2. CASE Prepared(c, ino, flags) = Update(c, ino, e) BY <1>2, AssignedContents
<1>3. CASE Prepared(c, ino, flags) = c BY <1>3 DEF SameAt
<1>4. CASE Prepared(c, ino, flags) = Insert(FilesCap, c, ino, e)
  BY <1>4, KeysOnlyGrow, InsertKeepsOthers, FsAssumption
<1> QED BY <1>1, <1>2, <1>3, <1>4 DEF Prepared

LEMMA ContentsMap ==
  ASSUME IInv
  PROVE  /\ IsMap(files, FilesCap, Nat, Seq(Byte))
         /\ IsMap(CreatedFiles, FilesCap, Nat, Seq(Byte))
         /\ next_inode_number = Len(inodes) /\ next_inode_number \in Nat
<1>1. next_inode_number = Len(inodes) /\ next_inode_number \in Nat
  BY DEF IInv, InodesOK, NumbersAreIndices
<1>2. ContentsOK(files, Len(inodes)) BY DEF IInv, FilesOK
<1>3. ContentsOK(CreatedFiles, Len(inodes) + 1)
  BY <1>1, <1>2, NewNumberHasNoContent, ContentsAfterInsert DEF CreatedFiles
<1> QED BY <1>1, <1>2, <1>3 DEF ContentsOK

LEMMA SameDataLen ==
  ASSUME IInv, NEW ino, SameAt(files, files', ino)
  PROVE  DataLen(files', ino) = DataLen(files, ino)
<1> DEFINE K == Nat
           V == Seq(Byte)
<1>1. IsMap(files, FilesCap, K, V) /\ FilesCap \in Nat BY ContentsMap, FsAssumption
<1> HIDE DEF K, V
<1> QED BY <1>1, SameLookup DEF DataLen

\* What create_file and mkdir make of the contents.
LEMMA CreatedContents ==
  ASSUME NEW j
  PROVE  /\ HasKey(files, j) => HasKey(CreatedFiles, j)
         /\ Full(FilesCap, files) => Full(FilesCap, CreatedFiles)
         /\ HasKey(CreatedFiles, next_inode_number) \/ Full(FilesCap, CreatedFiles)
         /\ j # next_inode_number => SameAt(files, CreatedFiles, j)
<1> DEFINE e == <<>>
           n == next_inode_number
           r == Insert(FilesCap, files, n, e)
<1>1. FilesCap \in Nat BY FsAssumption
<1> HIDE DEF e, n
<1>2. /\ HasKey(files, j) => HasKey(r, j)
      /\ Full(FilesCap, files) => Full(FilesCap, r)
      /\ HasKey(r, n) \/ Full(FilesCap, r)
      /\ j # n => SameAt(files, r, j)
  BY <1>1, KeysOnlyGrow, InsertedOrFull, InsertKeepsOthers
<1> QED BY <1>2 DEF CreatedFiles, e, n

\* No step takes a content away, or a slot from the table.
LEMMA ContentsStay ==
  ASSUME IInv, ContentEffect
  PROVE  /\ \A j : HasKey(files, j) => HasKey(files', j)
         /\ Full(FilesCap, files) => Full(FilesCap, files')
<1>1. CASE UNCHANGED files BY <1>1
<1>2. CASE ContentAssigned BY <1>2, ContentsMap, AssignedContents DEF ContentAssigned
<1>3. CASE ExistingOpened BY <1>3, ContentsMap, PreparedContents DEF ExistingOpened
<1>4. CASE InodeAdded
  <2>1. CASE files' = CreatedFiles BY <2>1, CreatedContents
  <2>2. ASSUME NEW flags, files' = Prepared(CreatedFiles, next_inode_number, flags)
        PROVE  /\ \A j : HasKey(files, j) => HasKey(files', j)
               /\ Full(FilesCap, files) => Full(FilesCap, files')
    BY <2>2, ContentsMap, CreatedContents, PreparedContents
  <2> QED BY <1>1, <1>4, <2>1, <2>2 DEF InodeAdded
<1> QED BY <1>1, <1>2, <1>3, <1>4 DEF ContentEffect, AttributesSet

\* The inode vector grows only by an inode added at its end.
LEMMA InodesAdded ==
  ASSUME IInv, Grows, ContentEffect
  PROVE  /\ Len(inodes) \in Nat /\ Len(inodes') \in Nat
         /\ ~InodeAdded => Len(inodes') = Len(inodes)
         /\ InodeAdded => /\ Len(inodes') = Len(inodes) + 1
                          /\ \A n \in 0..(Len(inodes) - 1) : inodes'[n + 1] = inodes[n + 1]
<1>1. /\ inodes \in Seq(Inode) /\ inodes' \in Seq(Inode)
      /\ Len(inodes) \in Nat /\ Len(inodes') \in Nat
      /\ DOMAIN inodes = 1..Len(inodes) /\ DOMAIN inodes' = 1..Len(inodes')
  BY LenProperties DEF IInv, InodesOK, Grows
<1>2. CASE DOMAIN inodes' = DOMAIN inodes
  <2>1. ASSUME Len(inodes) < Len(inodes') PROVE FALSE
    <3>1. Len(inodes') \in 1..Len(inodes') BY <1>1, <2>1
    <3> QED BY <1>1, <1>2, <2>1, <3>1
  <2>2. ~InodeAdded
    <3>1. ASSUME InodeAdded PROVE FALSE
      <4>1. PICK new : new \in Inode /\ inodes' = Append(inodes, new)
        BY <3>1, NewInodeType, ContentsMap DEF InodeAdded
      <4> QED BY <1>1, <2>1, <4>1, AppendProperties
    <3> QED BY <3>1
  <2>3. Len(inodes') = Len(inodes)
    <3>1. Len(inodes) <= Len(inodes') BY DEF Grows
    <3>2. Len(inodes) \in Nat /\ Len(inodes') \in Nat BY <1>1
    <3> QED BY <2>1, <3>1, <3>2
  <2> QED BY <1>1, <2>2, <2>3
<1>3. CASE InodeAdded
  <2>1. PICK new : new \in Inode /\ inodes' = Append(inodes, new)
    BY <1>3, NewInodeType, ContentsMap DEF InodeAdded
  <2> QED BY <1>1, <1>3, <2>1, AppendProperties
<1>4. InodeAdded \/ DOMAIN inodes' = DOMAIN inodes
  <2>1. CASE AttributesSet
    BY <2>1 DEF AttributesSet, Chmod, Fchmod, Chown, Fchown, SetsInode, Fails
  <2>2. CASE ContentAssigned BY <2>2 DEF ContentAssigned, SizeRefreshed
  <2> QED BY <2>1, <2>2 DEF ContentEffect, ExistingOpened
<1> QED BY <1>2, <1>3, <1>4

LEMMA ContentUnlessFullStep ==
  ASSUME IInv, ContentUnlessFull, [Next]_vars
  PROVE  ContentUnlessFull'
<1>1. IInv' /\ Grows BY InvariantStep
<1>2. ContentEffect BY EffectOnContents
<1>3. Len(inodes) = next_inode_number /\ Len(inodes) \in Nat /\ Len(inodes') \in Nat
  BY <1>1, ContentsMap, LenProperties DEF Grows
<1>4. ASSUME NEW n \in 0..(Len(inodes) - 1), InodeAt(n)'.kind = "File"
      PROVE  HasKey(files', n) \/ Full(FilesCap, files')
  BY <1>1, <1>2, <1>4, ContentsStay DEF ContentUnlessFull, Grows, InodeAt
<1>5. ASSUME NEW n \in 0..(Len(inodes') - 1), n >= Len(inodes), InodeAt(n)'.kind = "File"
      PROVE  HasKey(files', n) \/ Full(FilesCap, files')
  <2>1. InodeAdded /\ n = Len(inodes) BY <1>1, <1>2, <1>5, InodesAdded
  <2>2. PICK mode, kind :
          /\ kind \in Kind
          /\ inodes' = Append(inodes, NewInode(next_inode_number, mode, kind))
          /\ \/ /\ kind = "File" /\ last'.call = "open"
                /\ \E flags \in SUBSET OpenFlags :
                     files' = Prepared(CreatedFiles, next_inode_number, flags)
             \/ kind = "Directory" /\ files' = CreatedFiles
             \/ kind = "SymbolicLink" /\ UNCHANGED files
    BY <2>1 DEF InodeAdded
  <2>3. kind = "File"
    <3>1. NewInode(next_inode_number, mode, kind) \in Inode
      BY <2>2, NewInodeType, ContentsMap
    <3>2. inodes'[Len(inodes) + 1] = NewInode(next_inode_number, mode, kind)
      BY <2>2, <3>1, AppendProperties DEF IInv, InodesOK
    <3> QED BY <1>5, <2>1, <3>2 DEF InodeAt, NewInode
  <2>4. PICK flags : files' = Prepared(CreatedFiles, n, flags)
    BY <1>3, <2>1, <2>2, <2>3
  <2>5. HasKey(CreatedFiles, n) \/ Full(FilesCap, CreatedFiles)
    BY <1>3, <2>1, CreatedContents
  <2> QED BY <1>3, <2>1, <2>4, <2>5, ContentsMap, PreparedContents
<1> QED BY <1>3, <1>4, <1>5 DEF ContentUnlessFull

\* A file lacks a content only because the content table was full: whatever
\* calls come after, no content is dropped and the table stays full.
THEOREM FilesHaveContents == Spec => []ContentUnlessFull
<1>1. Init => ContentUnlessFull
  <2> SUFFICES ASSUME Init PROVE ContentUnlessFull OBVIOUS
  <2>1. inodes = <<NewInode(0, {}, "Directory")>> BY DEF Init, FsInit
  <2> QED BY <2>1 DEF ContentUnlessFull, InodeAt, NewInode
<1>2. IInv /\ ContentUnlessFull /\ [Next]_vars => ContentUnlessFull'
  BY ContentUnlessFullStep
<1> QED BY <1>1, <1>2, Invariant, PTL DEF Spec

\* fallocate meets no file without a content, other than one made while the
\* content table was full: the unwrap() there spares files.
THEOREM FallocateIsSafe == Spec => FallocateSparesFiles
<1> DEFINE A == last'.call = "fallocate" /\ trapped' =>
                  \A fd \in FdArg, offset, len \in OffsetArg :
                    Fallocate(fd, offset, len) /\ AsUsize(offset + len) <= MaxLen =>
                      Full(FilesCap, files) \/ ~(InodeAt(fd_table[fd]).kind = "File")
<1>1. IInv /\ ContentUnlessFull /\ [Next]_vars => [A]_vars
  <2> SUFFICES ASSUME IInv, ContentUnlessFull, trapped',
                      NEW fd \in FdArg, NEW offset \in OffsetArg, NEW len \in OffsetArg,
                      Fallocate(fd, offset, len), AsUsize(offset + len) <= MaxLen,
                      InodeAt(fd_table[fd]).kind = "File"
               PROVE  Full(FilesCap, files)
    OBVIOUS
  <2> DEFINE ino == fd_table[fd]
             end == AsUsize(offset + len)
  <2>1. end \in Nat /\ MaxLen \in Nat BY AsUsizeType, ArgAssumption, IOAssumption
  <2>2. fd \in DOMAIN fd_table /\ (~HasKey(files, ino) \/ end > MaxLen)
    BY DEF Fallocate, Fails, Returns
  <2>3. ~HasKey(files, ino) BY <2>1, <2>2
  <2>4. ino \in Nat /\ ino < Len(inodes) /\ Len(inodes) \in Nat
    BY <2>2, ContentsMap DEF IInv, DescriptorsOK, InodeExists
  <2> QED BY <2>3, <2>4 DEF ContentUnlessFull
<1> QED BY <1>1, Invariant, FilesHaveContents, PTL DEF Spec, FallocateSparesFiles

\* What chmod and chown do to inode n: nothing, or what they were asked for
\* through a name or a descriptor of it.
AttributeChange(n) ==
  \/ inodes'[n + 1] = inodes[n + 1]
  \/ \E mode \in ModeArg :
       /\ inodes'[n + 1] = WithMode(n, mode)
       /\ \/ \E path \in PathArg : /\ Known(Absolute(path)) /\ InodeOf(Absolute(path)) = n
                                   /\ Chmod(path, mode)
          \/ \E fd \in FdArg \cap DOMAIN fd_table : fd_table[fd] = n /\ Fchmod(fd, mode)
  \/ \E owner, group \in OwnerArg :
       /\ inodes'[n + 1] = WithOwner(n, owner, group)
       /\ \/ \E path \in PathArg : /\ Known(Absolute(path)) /\ InodeOf(Absolute(path)) = n
                                   /\ Chown(path, owner, group)
          \/ \E fd \in FdArg \cap DOMAIN fd_table : fd_table[fd] = n /\ Fchown(fd, owner, group)

LEMMA InodeRewritten ==
  ASSUME IInv, NEW ino, NEW new, inodes' = [inodes EXCEPT ![ino + 1] = new],
         ino \in Nat, InodeExists(ino), NEW n \in 0..(Len(inodes) - 1)
  PROVE  /\ n = ino => inodes'[n + 1] = new
         /\ n # ino => inodes'[n + 1] = inodes[n + 1]
<1>1. inodes \in Seq(Inode) /\ Len(inodes) \in Nat /\ DOMAIN inodes = 1..Len(inodes)
  BY LenProperties DEF IInv, InodesOK
<1> QED BY <1>1 DEF InodeExists

LEMMA InodeType ==
  ASSUME IInv, NEW n \in 0..(Len(inodes) - 1)
  PROVE  n \in Nat /\ InodeExists(n) /\ InodeAt(n) \in Inode
<1>1. inodes \in Seq(Inode) /\ Len(inodes) \in Nat BY LenProperties DEF IInv, InodesOK
<1> QED BY <1>1, ElementOfSeq DEF InodeAt, InodeExists

LEMMA AttributesSetChanges ==
  ASSUME IInv, AttributesSet, NEW n \in 0..(Len(inodes) - 1)
  PROVE  AttributeChange(n)
<1>1. ASSUME NEW call, NEW names, Fails(call, names) PROVE AttributeChange(n)
  BY <1>1 DEF Fails, AttributeChange
<1>2. ASSUME NEW path \in PathArg, NEW mode \in ModeArg, Chmod(path, mode)
      PROVE  AttributeChange(n)
  <2> DEFINE abs == Absolute(path)
  <2>1. ASSUME Known(abs), SetsInode(InodeOf(abs), WithMode(InodeOf(abs), mode), "chmod", <<abs>>)
        PROVE  AttributeChange(n)
    BY <1>2, <2>1, LookupExists, InodeRewritten DEF SetsInode, IInv, AttributeChange
  <2> QED BY <1>1, <1>2, <2>1 DEF Chmod
<1>3. ASSUME NEW fd \in FdArg, NEW mode \in ModeArg, Fchmod(fd, mode)
      PROVE  AttributeChange(n)
  <2>1. ASSUME fd \in DOMAIN fd_table, SetsInode(fd_table[fd], WithMode(fd_table[fd], mode), "fchmod", <<>>)
        PROVE  AttributeChange(n)
    <3>1. fd_table[fd] \in Nat /\ InodeExists(fd_table[fd]) BY <2>1 DEF IInv, DescriptorsOK
    <3> QED BY <1>3, <2>1, <3>1, InodeRewritten DEF SetsInode, AttributeChange
  <2> QED BY <1>1, <1>3, <2>1 DEF Fchmod
<1>4. ASSUME NEW path \in PathArg, NEW owner \in OwnerArg, NEW group \in OwnerArg,
             Chown(path, owner, group)
      PROVE  AttributeChange(n)
  <2> DEFINE abs == Absolute(path)
  <2>1. ASSUME Known(abs),
               SetsInode(InodeOf(abs), WithOwner(InodeOf(abs), owner, group), "chown", <<abs>>)
        PROVE  AttributeChange(n)
    BY <1>4, <2>1, LookupExists, InodeRewritten DEF SetsInode, IInv, AttributeChange
  <2> QED BY <1>1, <1>4, <2>1 DEF Chown
<1>5. ASSUME NEW fd \in FdArg, NEW owner \in OwnerArg, NEW group \in OwnerArg,
             Fchown(fd, owner, group)
      PROVE  AttributeChange(n)
  <2>1. ASSUME fd \in DOMAIN fd_table,
               SetsInode(fd_table[fd], WithOwner(fd_table[fd], owner, group), "fchown", <<>>)
        PROVE  AttributeChange(n)
    <3>1. fd_table[fd] \in Nat /\ InodeExists(fd_table[fd]) BY <2>1 DEF IInv, DescriptorsOK
    <3> QED BY <1>5, <2>1, <3>1, InodeRewritten DEF SetsInode, AttributeChange
  <2> QED BY <1>1, <1>5, <2>1 DEF Fchown
<1> QED BY <1>2, <1>3, <1>4, <1>5 DEF AttributesSet

\* A step that is not chmod or chown leaves an inode as it is but for its size.
LEMMA SizesOnly ==
  ASSUME IInv, Grows, ContentEffect, ~AttributesSet, NEW n \in 0..(Len(inodes) - 1)
  PROVE  /\ inodes'[n + 1].permissions = InodeAt(n).permissions
         /\ inodes'[n + 1].user_id = InodeAt(n).user_id
         /\ inodes'[n + 1].group_id = InodeAt(n).group_id
<1>1. ASSUME NEW ino \in Nat, InodeExists(ino), SizeRefreshed(ino)
      PROVE  /\ inodes'[n + 1].permissions = InodeAt(n).permissions
             /\ inodes'[n + 1].user_id = InodeAt(n).user_id
             /\ inodes'[n + 1].group_id = InodeAt(n).group_id
  <2>1. inodes' = [inodes EXCEPT ![ino + 1] = [inodes[ino + 1] EXCEPT !.size = DataLen(files', ino)]]
    BY <1>1 DEF SizeRefreshed
  <2> DEFINE new == [inodes[ino + 1] EXCEPT !.size = DataLen(files', ino)]
  <2>2. ino \in Nat => new.permissions = inodes[ino + 1].permissions
                       /\ new.user_id = inodes[ino + 1].user_id
                       /\ new.group_id = inodes[ino + 1].group_id
    OBVIOUS
  <2> HIDE DEF new
  <2>3. n = ino => inodes'[n + 1] = new BY <1>1, <2>1, InodeRewritten DEF new
  <2>4. n # ino => inodes'[n + 1] = inodes[n + 1] BY <1>1, <2>1, InodeRewritten
  <2> QED BY <2>2, <2>3, <2>4 DEF InodeAt
<1>2. CASE InodeAdded BY <1>2, InodesAdded DEF InodeAt
<1> QED BY <1>1, <1>2 DEF ContentEffect, ContentAssigned, ExistingOpened, InodeAt

\* Permissions and owners change as a chmod or a chown asked, through one of
\* the file's names or descriptors, and by no other call.
THEOREM AttributesFollowCalls == Spec => AttributesChangeAsAsked
<1> DEFINE byPath(n) == {path \in PathArg : Known(Absolute(path)) /\ InodeOf(Absolute(path)) = n}
           byFd(n) == {fd \in FdArg \cap DOMAIN fd_table : fd_table[fd] = n}
           Asked(n) ==
             /\ inodes'[n + 1].permissions # InodeAt(n).permissions =>
                  \E mode \in ModeArg :
                    /\ inodes'[n + 1].permissions = mode \cap PermBits
                    /\ \/ \E path \in byPath(n) : Chmod(path, mode)
                       \/ \E fd \in byFd(n) : Fchmod(fd, mode)
             /\ <<inodes'[n + 1].user_id, inodes'[n + 1].group_id>>
                  # <<InodeAt(n).user_id, InodeAt(n).group_id>> =>
                  \/ \E path \in byPath(n) :
                       Chown(path, inodes'[n + 1].user_id, inodes'[n + 1].group_id)
                  \/ \E fd \in byFd(n) :
                       Fchown(fd, inodes'[n + 1].user_id, inodes'[n + 1].group_id)
           A == \A n \in 0..(Len(inodes) - 1) : Asked(n)
<1>1. IInv /\ [Next]_vars => [A]_vars
  <2> SUFFICES ASSUME IInv, [Next]_vars, NEW n \in 0..(Len(inodes) - 1)
               PROVE  Asked(n)
    OBVIOUS
  <2>1. ContentEffect /\ Grows BY EffectOnContents, InvariantStep
  <2>2. CASE ~AttributesSet BY <2>1, <2>2, SizesOnly
  <2>3. InodeAt(n) \in Inode BY InodeType
  <2>4. CASE inodes'[n + 1] = inodes[n + 1] BY <2>4 DEF InodeAt
  <2>5. ASSUME NEW mode \in ModeArg, inodes'[n + 1] = WithMode(n, mode),
               \/ \E path \in byPath(n) : Chmod(path, mode)
               \/ \E fd \in byFd(n) : Fchmod(fd, mode)
        PROVE  Asked(n)
    <3>1. /\ inodes'[n + 1].permissions = mode \cap PermBits
          /\ inodes'[n + 1].user_id = InodeAt(n).user_id
          /\ inodes'[n + 1].group_id = InodeAt(n).group_id
      BY <2>3, <2>5 DEF WithMode, Inode
    <3> HIDE DEF byPath, byFd
    <3> QED BY <2>5, <3>1
  <2>6. ASSUME NEW owner \in OwnerArg, NEW group \in OwnerArg,
               inodes'[n + 1] = WithOwner(n, owner, group),
               \/ \E path \in byPath(n) : Chown(path, owner, group)
               \/ \E fd \in byFd(n) : Fchown(fd, owner, group)
        PROVE  Asked(n)
    <3>1. /\ inodes'[n + 1].permissions = InodeAt(n).permissions
          /\ inodes'[n + 1].user_id = owner /\ inodes'[n + 1].group_id = group
      BY <2>3, <2>6 DEF WithOwner, Inode
    <3> HIDE DEF byPath, byFd
    <3> QED BY <2>6, <3>1
  <2>7. CASE AttributesSet
    <3>1. AttributeChange(n) BY <2>7, AttributesSetChanges
    <3> QED BY <2>4, <2>5, <2>6, <3>1 DEF AttributeChange
  <2> QED BY <2>2, <2>7
<1> QED BY <1>1, Invariant, PTL DEF Spec, AttributesChangeAsAsked

\* A content as long as its inode says stays so, but for an open that truncates,
\* a sendfile or a splice.
THEOREM SizesFollowContents == Spec => SizesStrayOnlyBy
<1> DEFINE A == \A n \in 0..(Len(inodes) - 1) :
                  InodeAt(n).size = DataLen(files, n) /\ inodes'[n + 1].size # DataLen(files', n) =>
                    last'.call \in {"open", "sendfile", "splice"}
<1>1. IInv /\ [Next]_vars => [A]_vars
  <2> SUFFICES ASSUME IInv, [Next]_vars, NEW n \in 0..(Len(inodes) - 1),
                      InodeAt(n).size = DataLen(files, n),
                      last'.call \notin {"open", "sendfile", "splice"}
               PROVE  inodes'[n + 1].size = DataLen(files', n)
    OBVIOUS
  <2>1. ContentEffect /\ Grows BY EffectOnContents, InvariantStep
  <2>2. n \in Nat /\ InodeExists(n) /\ InodeAt(n) \in Inode BY InodeType
  <2>3. CASE UNCHANGED <<inodes, files>> BY <2>3 DEF InodeAt
  <2>4. CASE AttributesSet
    <3>1. AttributeChange(n) /\ UNCHANGED files
      BY <2>4, AttributesSetChanges DEF AttributesSet
    <3>2. inodes'[n + 1].size = InodeAt(n).size
      BY <2>2, <3>1 DEF AttributeChange, WithMode, WithOwner, Inode, InodeAt
    <3> QED BY <3>1, <3>2
  <2>5. ASSUME NEW ino \in Nat, NEW d \in Seq(Byte), InodeExists(ino),
               files' = Update(files, ino, d), SizeRefreshed(ino)
        PROVE  inodes'[n + 1].size = DataLen(files', n)
    <3> DEFINE new == [inodes[ino + 1] EXCEPT !.size = DataLen(files', ino)]
    <3>1. inodes' = [inodes EXCEPT ![ino + 1] = new] BY <2>5 DEF SizeRefreshed
    <3>2. CASE n = ino
      <4>1. new.size = DataLen(files', ino) BY <2>2, <3>2 DEF Inode, InodeAt
      <4> HIDE DEF new
      <4>2. inodes'[n + 1] = new BY <2>5, <3>1, <3>2, InodeRewritten
      <4> QED BY <3>2, <4>1, <4>2
    <3>3. CASE n # ino
      <4>1. inodes'[n + 1] = inodes[n + 1]
        <5> HIDE DEF new
        <5> QED BY <2>5, <3>1, <3>3, InodeRewritten
      <4>2. SameAt(files, files', n) BY <2>5, <3>3, ContentsMap, AssignedContents
      <4>3. DataLen(files', n) = DataLen(files, n) BY <4>2, SameDataLen
      <4> QED BY <4>1, <4>3 DEF InodeAt
    <3> QED BY <3>2, <3>3
  <2>6. CASE InodeAdded
    <3>1. inodes'[n + 1] = inodes[n + 1] BY <2>1, <2>6, InodesAdded
    <3>2. UNCHANGED files \/ SameAt(files, files', n)
      <4>1. n # next_inode_number BY <2>2, ContentsMap DEF InodeExists
      <4> QED BY <2>6, <4>1, CreatedContents DEF InodeAdded
    <3>3. DataLen(files', n) = DataLen(files, n) BY <3>2, SameDataLen
    <3> QED BY <3>1, <3>3 DEF InodeAt
  <2> QED BY <2>1, <2>3, <2>4, <2>5, <2>6 DEF ContentEffect, ContentAssigned, ExistingOpened
<1> QED BY <1>1, Invariant, PTL DEF Spec, SizesStrayOnlyBy

-----------------------------------------------------------------------------
(* Descriptors                                                             *)

\* Handles keep their slots, and those nobody asked to move their positions.
PositionsMoved ==
  /\ UNCHANGED fd_table
  /\ \A d : SlotsOf(open_files', d) = SlotsOf(open_files, d)
  /\ \A d : d \notin last'.fds => SameAt(open_files, open_files', d)

DescriptorAdded ==
  \E fd, ino, h :
    /\ fd \in Fd \ DOMAIN fd_table /\ ~HasKey(open_files, fd)
    /\ fd_table' = FdTableWith(fd, ino)
    /\ open_files' = Insert(OpenFilesCap, open_files, fd, h)

DescriptorClosed ==
  \E fd \in last'.fds :
    /\ fd_table' = Restrict(fd_table, DOMAIN fd_table \ {fd})
    /\ open_files' = Remove(open_files, fd)

\* dup2, with newfd's handle gone.
DescriptorReplaced ==
  \E oldfd, newfd, left :
    /\ oldfd \in DOMAIN fd_table /\ newfd \in last'.fds /\ oldfd # newfd
    /\ fd_table' = FdTableWith(newfd, fd_table[oldfd])
    /\ left = IF newfd \in DOMAIN fd_table THEN Remove(open_files, newfd) ELSE open_files
    /\ open_files' = IF HasKey(left, oldfd)
                     THEN Insert(OpenFilesCap, left, newfd, Get(left, oldfd)) ELSE left

DescriptorEffect ==
  \/ UNCHANGED <<fd_table, open_files>>
  \/ PositionsMoved \/ DescriptorAdded \/ DescriptorClosed \/ DescriptorReplaced

LEMMA NoDescriptors ==
  ASSUME NEW call, NEW names, Fails(call, names) \/ Panics(call, names)
  PROVE  DescriptorEffect
  BY DEF Fails, Panics, DescriptorEffect

\* One handle's position is set, or that of another one after it.
LEMMA PositionSet ==
  ASSUME NEW handles, HandlesOK(handles), NEW fd, NEW pos
  PROVE  /\ \A d : SlotsOf(Positioned(handles, fd, pos), d) = SlotsOf(handles, d)
         /\ \A d : d # fd => SameAt(handles, Positioned(handles, fd, pos), d)
<1>1. IsMap(handles, OpenFilesCap, Fd, Handle) /\ OpenFilesCap \in Nat
  BY ProcAssumption DEF HandlesOK
<1> QED BY <1>1, UpdateKeepsKeys, UpdateKeepsOthers DEF Positioned

LEMMA PositionEffect ==
  ASSUME IInv, NEW fd, NEW pos, fd \in last'.fds, UNCHANGED fd_table,
         open_files' = Positioned(open_files, fd, pos)
  PROVE  DescriptorEffect
<1>1. HandlesOK(open_files) BY HandlesOfDescriptors DEF IInv
<1> QED BY <1>1, PositionSet DEF DescriptorEffect, PositionsMoved

LEMMA SameAtTwice ==
  ASSUME NEW m, NEW r, NEW q, NEW k, SameAt(m, r, k), SameAt(r, q, k)
  PROVE  SameAt(m, q, k)
  BY DEF SameAt

LEMMA CopyDescriptors ==
  ASSUME IInv, NEW call, NEW in_fd, NEW off_in \in Int \cup {Nowhere},
         NEW out_fd, NEW off_out \in Int \cup {Nowhere}, NEW count \in Nat,
         Copy(call, in_fd, off_in, out_fd, off_out, count)
  PROVE  DescriptorEffect
<1> DEFINE in == HandleAt(in_fd)
           out == HandleAt(out_fd)
           readPos == AsUsize(IF off_in = Nowhere THEN in.position ELSE off_in)
           toEnd == out.append_mode /\ off_out = Nowhere
           n == Min({count, Len(ContentAt(in_fd)) - readPos})
           handles == IF off_in = Nowhere
                      THEN Positioned(open_files, in_fd, in.position + n) ELSE open_files
           outFrom == OutFrom(call, handles, out_fd)
           moved == (IF off_in = Nowhere THEN {in_fd} ELSE {})
                      \cup (IF off_out = Nowhere THEN {out_fd} ELSE {})
<1>1. CASE Fails(call, <<>>) \/ Panics(call, <<>>) BY <1>1, NoDescriptors
<1>2. CASE UNCHANGED <<fd_table, open_files>> BY <1>2 DEF DescriptorEffect
<1>3. ASSUME Accessible(in_fd), Accessible(out_fd), readPos < Len(ContentAt(in_fd)),
             open_files' =
               IF off_out # Nowhere THEN handles
               ELSE Positioned(handles, out_fd,
                               IF toEnd THEN DataLen(files', out.inode_number)
                               ELSE outFrom + n),
             last'.fds = moved, UNCHANGED fd_table
      PROVE  DescriptorEffect
  <2>1. HandlesOK(handles) BY <1>3, CopyFacts
  <2>2. HandlesOK(open_files) BY HandlesOfDescriptors DEF IInv
  <2>3. /\ \A d : SlotsOf(handles, d) = SlotsOf(open_files, d)
        /\ \A d : d \notin last'.fds => SameAt(open_files, handles, d)
    <3>1. CASE off_in = Nowhere
      <4>1. PICK pos : handles = Positioned(open_files, in_fd, pos) BY <3>1
      <4>2. in_fd \in last'.fds BY <1>3, <3>1
      <4> HIDE DEF handles
      <4> QED BY <2>2, <4>1, <4>2, PositionSet
    <3>2. CASE off_in # Nowhere BY <3>2 DEF SameAt
    <3> QED BY <3>1, <3>2
  <2>4. /\ \A d : SlotsOf(open_files', d) = SlotsOf(handles, d)
        /\ \A d : d \notin last'.fds => SameAt(handles, open_files', d)
    <3>1. CASE off_out = Nowhere
      <4>1. PICK pos : open_files' = Positioned(handles, out_fd, pos) BY <1>3, <3>1
      <4>2. out_fd \in last'.fds BY <1>3, <3>1
      <4> HIDE DEF handles
      <4> QED BY <2>1, <4>1, <4>2, PositionSet
    <3>2. CASE off_out # Nowhere
      <4>1. open_files' = handles BY <1>3, <3>2
      <4> HIDE DEF handles
      <4> QED BY <4>1 DEF SameAt
    <3> QED BY <3>1, <3>2
  <2> HIDE DEF handles, moved
  <2> QED BY <1>3, <2>3, <2>4, SameAtTwice DEF DescriptorEffect, PositionsMoved
<1> QED BY <1>1, <1>2, <1>3 DEF Copy, Returns

LEMMA DescriptorAllocated ==
  ASSUME IInv, FreeFds # {}, NEW ino, NEW h,
         fd_table' = FdTableWith(AllocateFd, ino),
         open_files' = Insert(OpenFilesCap, open_files, AllocateFd, h)
  PROVE  DescriptorEffect
  BY AllocatedIsFree DEF IInv, DescriptorEffect, DescriptorAdded

LEMMA OpenDescriptors ==
  ASSUME IInv, NEW path, NEW flags, NEW mode, Open(path, flags, mode)
  PROVE  DescriptorEffect
<1>1. ASSUME NEW ino, NEW contents, OpenDescriptor(path, ino, contents, flags)
      PROVE  DescriptorEffect
  BY <1>1, DescriptorAllocated DEF OpenDescriptor, DescriptorEffect
<1> QED BY <1>1, NoDescriptors DEF Open, OpenMissing, OpenExisting, OpenCreating

LEMMA CopiedDescriptors ==
  ASSUME IInv, NEW oldfd, NEW newfd, Close(oldfd) \/ Dup(oldfd) \/ Dup2(oldfd, newfd)
  PROVE  DescriptorEffect
<1>1. ASSUME NEW call, Fails(call, <<>>) PROVE DescriptorEffect BY <1>1, NoDescriptors
<1>2. CASE Close(oldfd)
  <2>1. ASSUME fd_table' = Restrict(fd_table, DOMAIN fd_table \ {oldfd}),
               open_files' = Remove(open_files, oldfd), oldfd \in last'.fds
        PROVE  DescriptorEffect
    BY <2>1 DEF DescriptorEffect, DescriptorClosed
  <2>2. Returns("close", <<>>, {oldfd}, 0) => oldfd \in last'.fds BY DEF Returns
  <2> QED BY <1>1, <1>2, <2>1, <2>2 DEF Close
<1>3. CASE Dup(oldfd) BY <1>1, <1>3, DescriptorAllocated DEF Dup
<1>4. CASE Dup2(oldfd, newfd)
  <2>1. CASE UNCHANGED <<fd_table, open_files>> BY <2>1 DEF DescriptorEffect
  <2>2. CASE oldfd \in DOMAIN fd_table /\ newfd \in Fd /\ oldfd # newfd
    <3>1. PICK left :
            left = IF newfd \in DOMAIN fd_table THEN Remove(open_files, newfd) ELSE open_files
      OBVIOUS
    <3>2. /\ open_files' = IF HasKey(left, oldfd)
                           THEN Insert(OpenFilesCap, left, newfd, Get(left, oldfd)) ELSE left
          /\ fd_table' = FdTableWith(newfd, fd_table[oldfd])
          /\ newfd \in last'.fds
      BY <1>4, <2>2, <3>1 DEF Dup2, Fails, Returns
    <3>3. DescriptorReplaced BY <2>2, <3>1, <3>2 DEF DescriptorReplaced
    <3> QED BY <3>3 DEF DescriptorEffect
  <2> QED BY <1>1, <1>4, <2>1, <2>2 DEF Dup2
<1> QED BY <1>2, <1>3, <1>4

\* The calls that move the position of one handle at most.
LEMMA MovingDescriptors ==
  ASSUME IInv, NEW fd, NEW bytes, NEW count, NEW offset, NEW whence,
         \/ Read(fd, count) \/ Write(fd, bytes) \/ Lseek(fd, offset, whence)
         \/ Getdents(fd, count)
  PROVE  DescriptorEffect
<1>1. ASSUME NEW call, Fails(call, <<>>) \/ Panics(call, <<>>) PROVE DescriptorEffect
  BY <1>1, NoDescriptors
<1>2. ASSUME NEW call, NEW val, NEW pos, Returns(call, <<>>, {fd}, val),
             open_files' = Positioned(open_files, fd, pos), UNCHANGED fd_table
      PROVE  DescriptorEffect
  BY <1>2, PositionEffect DEF Returns
<1>3. CASE Read(fd, count) BY <1>1, <1>2, <1>3 DEF Read
<1>4. CASE Write(fd, bytes) BY <1>1, <1>2, <1>4 DEF Write
<1>5. CASE Lseek(fd, offset, whence) BY <1>1, <1>2, <1>5 DEF Lseek, Seeks
<1>6. CASE Getdents(fd, count) BY <1>1, <1>2, <1>6 DEF Getdents
<1> QED BY <1>3, <1>4, <1>5, <1>6

\* The calls that leave all descriptors and positions alone.
LEMMA QuietNames == NamespaceNext => DescriptorEffect
<1>1. ASSUME NEW call, NEW names, Fails(call, names) \/ Panics(call, names)
      PROVE  DescriptorEffect
  BY <1>1, NoDescriptors
<1> QED BY <1>1 DEF NamespaceNext, DescriptorEffect, Rename, Link, Unlink, Symlink, Mkdir,
                    Rmdir, Chdir, Fchdir

LEMMA QuietAttributes == AttributeNext => DescriptorEffect
<1>1. ASSUME NEW call, NEW names, Fails(call, names) PROVE DescriptorEffect
  BY <1>1, NoDescriptors
<1> QED BY <1>1 DEF AttributeNext, DescriptorEffect, Chmod, Fchmod, Chown, Fchown, SetsInode,
                    Umask, Stat, Fstat, Access, Readlink, Getcwd, NoOp, Reports

LEMMA QuietResizes ==
  ASSUME NEW fd, NEW path, NEW bytes, NEW count, NEW offset, NEW len,
         \/ Pread64(fd, count, offset) \/ Pwrite64(fd, bytes, offset)
         \/ Truncate(path, len) \/ Ftruncate(fd, len) \/ Fallocate(fd, offset, len)
  PROVE  DescriptorEffect
<1>1. ASSUME NEW call, NEW names, Fails(call, names) \/ Panics(call, names)
      PROVE  DescriptorEffect
  BY <1>1, NoDescriptors
<1>2. CASE UNCHANGED <<fd_table, open_files>> BY <1>2 DEF DescriptorEffect
<1> QED BY <1>1, <1>2 DEF Pread64, Pwrite64, Truncate, Ftruncate, SetFileSize, Fallocate

\* Every step, seen from the descriptors.
LEMMA EffectOnDescriptors ==
  ASSUME IInv, [Next]_vars
  PROVE  DescriptorEffect
<1> USE ArgAssumption
<1>1. CASE UNCHANGED vars BY <1>1 DEF vars, DescriptorEffect
<1>2. CASE DescriptorNext
  <2>1. ASSUME NEW fd, Close(fd) \/ Dup(fd) PROVE DescriptorEffect
    BY <2>1, CopiedDescriptors
  <2>2. ASSUME NEW oldfd, NEW newfd, Dup2(oldfd, newfd) PROVE DescriptorEffect
    BY <2>2, CopiedDescriptors
  <2> QED BY <1>2, <2>1, <2>2, OpenDescriptors DEF DescriptorNext, Openat, Creat
<1>3. CASE NamespaceNext BY <1>3, QuietNames
<1>4. CASE IONext
  <2>1. ASSUME NEW in \in FdArg, NEW out \in FdArg, NEW from \in OffsetArg \cup {Nowhere},
               NEW to \in OffsetArg \cup {Nowhere}, NEW count \in CountArg,
               Splice(in, from, out, to, count)
        PROVE  DescriptorEffect
    BY <2>1, CopyDescriptors DEF Splice
  <2>2. ASSUME NEW in \in FdArg, NEW out \in FdArg, NEW from \in OffsetArg \cup {Nowhere},
               NEW count \in CountArg, Sendfile(out, in, from, count)
        PROVE  DescriptorEffect
    BY <2>2, CopyDescriptors DEF Sendfile
  <2>3. ASSUME NEW fd, NEW count, Read(fd, count) PROVE DescriptorEffect
    BY <2>3, MovingDescriptors
  <2>4. ASSUME NEW fd, NEW bytes, Write(fd, bytes) PROVE DescriptorEffect
    BY <2>4, MovingDescriptors
  <2>5. ASSUME NEW fd, NEW offset, NEW whence, Lseek(fd, offset, whence)
        PROVE  DescriptorEffect
    BY <2>5, MovingDescriptors
  <2>6. ASSUME NEW fd, NEW count, NEW offset, Pread64(fd, count, offset)
        PROVE  DescriptorEffect
    BY <2>6, QuietResizes
  <2>7. ASSUME NEW fd, NEW bytes, NEW offset, Pwrite64(fd, bytes, offset)
        PROVE  DescriptorEffect
    BY <2>7, QuietResizes
  <2>8. ASSUME NEW path, NEW fd, NEW offset, NEW len,
               Truncate(path, len) \/ Ftruncate(fd, len) \/ Fallocate(fd, offset, len)
        PROVE  DescriptorEffect
    BY <2>8, QuietResizes
  <2> QED BY <1>4, <2>1, <2>2, <2>3, <2>4, <2>5, <2>6, <2>7, <2>8
          DEF IONext, Sendfile64, PosixFallocate
<1>5. CASE ListingNext
  <2>1. ASSUME NEW fd, NEW room, Getdents(fd, room) PROVE DescriptorEffect
    BY <2>1, MovingDescriptors
  <2> QED BY <1>5, <2>1 DEF ListingNext, Getdents64
<1>6. CASE AttributeNext BY <1>6, QuietAttributes
<1> QED BY <1>1, <1>2, <1>3, <1>4, <1>5, <1>6 DEF Next

-----------------------------------------------------------------------------
(* What no call does to a descriptor                                       *)

\* dup2 takes nothing from a descriptor but the one it replaces.
LEMMA ReplacedKeepsOthers ==
  ASSUME HandlesOK(open_files), NEW oldfd, NEW newfd, NEW left, NEW fd, fd # newfd,
         left = IF newfd \in DOMAIN fd_table THEN Remove(open_files, newfd) ELSE open_files,
         open_files' = IF HasKey(left, oldfd)
                       THEN Insert(OpenFilesCap, left, newfd, Get(left, oldfd)) ELSE left
  PROVE  SameAt(open_files, open_files', fd)
<1>1. IsMap(open_files, OpenFilesCap, Fd, Handle) /\ OpenFilesCap \in Nat
  BY ProcAssumption DEF HandlesOK
<1>2. SameAt(open_files, left, fd) BY <1>1, RemoveKeepsOthers DEF SameAt
<1>3. SameAt(left, open_files', fd) BY <1>1, InsertKeepsOthers DEF SameAt
<1> QED BY <1>2, <1>3, SameAtTwice

\* A descriptor the caller did not ask to change stays, on its inode, with its
\* handle: close, dup2 and allocate_fd touch no other.
THEOREM DescriptorsOfOthersKept == Spec => OtherDescriptorsKept
<1> DEFINE A == \A fd \in DOMAIN fd_table \ last'.fds :
                  /\ fd \in DOMAIN fd_table' /\ fd_table'[fd] = fd_table[fd]
                  /\ {open_files[i].val : i \in SlotsOf(open_files, fd)}
                       = {open_files'[i].val : i \in SlotsOf(open_files', fd)}
<1>1. IInv /\ [Next]_vars => [A]_vars
  <2> SUFFICES ASSUME IInv, [Next]_vars, NEW fd \in DOMAIN fd_table \ last'.fds
               PROVE  /\ fd \in DOMAIN fd_table' /\ fd_table'[fd] = fd_table[fd]
                      /\ {open_files[i].val : i \in SlotsOf(open_files, fd)}
                           = {open_files'[i].val : i \in SlotsOf(open_files', fd)}
    OBVIOUS
  <2> SUFFICES /\ fd \in DOMAIN fd_table' /\ fd_table'[fd] = fd_table[fd]
               /\ SameAt(open_files, open_files', fd)
    BY DEF SameAt
  <2>1. DescriptorEffect BY EffectOnDescriptors
  <2>2. HandlesOK(open_files) BY HandlesOfDescriptors DEF IInv
  <2>3. IsMap(open_files, OpenFilesCap, Fd, Handle) /\ OpenFilesCap \in Nat
    BY <2>2, ProcAssumption DEF HandlesOK
  <2>4. CASE UNCHANGED <<fd_table, open_files>> BY <2>4 DEF SameAt
  <2>5. CASE PositionsMoved BY <2>5 DEF PositionsMoved
  <2>6. CASE DescriptorAdded
    BY <2>3, <2>6, InsertKeepsOthers DEF DescriptorAdded, FdTableWith
  <2>7. CASE DescriptorClosed
    BY <2>3, <2>7, RemoveKeepsOthers DEF DescriptorClosed, Restrict
  <2>8. CASE DescriptorReplaced
    BY <2>2, <2>8, ReplacedKeepsOthers DEF DescriptorReplaced, FdTableWith
  <2> QED BY <2>1, <2>4, <2>5, <2>6, <2>7, <2>8 DEF DescriptorEffect
<1> QED BY <1>1, Invariant, PTL DEF Spec, OtherDescriptorsKept

\* Where every descriptor had a handle, one goes without only for want of a
\* slot: neither close nor dup2 leaves one without.
THEOREM HandlesLostWhenFull == Spec => HandleLostWhenFull
<1> DEFINE A == Bare = {} /\ Bare' # {} => Full(OpenFilesCap, open_files)
<1>1. IInv /\ [Next]_vars => [A]_vars
  <2> SUFFICES ASSUME IInv, [Next]_vars, Bare = {}, ~Full(OpenFilesCap, open_files),
                      NEW fd \in DOMAIN fd_table'
               PROVE  HasKey(open_files', fd)
    BY DEF Bare
  <2>1. DescriptorEffect BY EffectOnDescriptors
  <2>2. IsMap(open_files, OpenFilesCap, Fd, Handle) /\ OpenFilesCap \in Nat
    BY ProcAssumption DEF IInv, DescriptorsOK
  <2>3. \A d \in DOMAIN fd_table : HasKey(open_files, d) BY DEF Bare
  <2>4. CASE UNCHANGED <<fd_table, open_files>> BY <2>3, <2>4
  <2>5. CASE PositionsMoved BY <2>3, <2>5 DEF PositionsMoved, HasKey
  <2>6. CASE DescriptorAdded
    BY <2>2, <2>3, <2>6, InsertedOrFull, KeysOnlyGrow DEF DescriptorAdded, FdTableWith
  <2>7. CASE DescriptorClosed
    <3>1. PICK gone : /\ fd_table' = Restrict(fd_table, DOMAIN fd_table \ {gone})
                      /\ open_files' = Remove(open_files, gone)
      BY <2>7 DEF DescriptorClosed
    <3>2. fd \in DOMAIN fd_table /\ fd # gone BY <3>1 DEF Restrict
    <3> QED BY <2>2, <2>3, <3>1, <3>2, RemoveKeepsOthers DEF SameAt, HasKey
  <2>8. CASE DescriptorReplaced
    <3>1. PICK oldfd, newfd, left :
            /\ oldfd \in DOMAIN fd_table /\ oldfd # newfd
            /\ fd_table' = FdTableWith(newfd, fd_table[oldfd])
            /\ left = IF newfd \in DOMAIN fd_table THEN Remove(open_files, newfd)
                      ELSE open_files
            /\ open_files' = IF HasKey(left, oldfd)
                             THEN Insert(OpenFilesCap, left, newfd, Get(left, oldfd)) ELSE left
      BY <2>8 DEF DescriptorReplaced
    <3>2. \A d \in DOMAIN fd_table : d # newfd => HasKey(left, d)
      BY <2>2, <2>3, <3>1, RemoveKeepsOthers DEF SameAt, HasKey
    <3>3. DOMAIN left \subseteq DOMAIN open_files BY <2>2, <3>1, RemoveProperties
    <3>4. ~Full(OpenFilesCap, left) BY <3>3 DEF Full
    <3>5. open_files' = Insert(OpenFilesCap, left, newfd, Get(left, oldfd))
      BY <3>1, <3>2
    <3>6. fd = newfd \/ (fd \in DOMAIN fd_table /\ fd # newfd) BY <3>1 DEF FdTableWith
    <3> QED BY <2>2, <3>2, <3>4, <3>5, <3>6, InsertedOrFull, KeysOnlyGrow
  <2> QED BY <2>1, <2>4, <2>5, <2>6, <2>7, <2>8 DEF DescriptorEffect
<1> QED BY <1>1, Invariant, PTL DEF Spec, HandleLostWhenFull

-----------------------------------------------------------------------------
(* Names                                                                   *)

\* The calls a success of which is about a name.
NamingCalls == {"unlink", "rmdir", "rename", "link", "symlink", "mkdir", "open"}

NothingAsked == UNCHANGED path_map /\ last'.val = -1

OtherAsked ==
  /\ UNCHANGED path_map /\ last'.val >= 0
  /\ last'.call \in NamingCalls => last'.call = "open" /\ Known(last'.names[1])

NameDropped ==
  \E path :
    /\ last'.call \in {"unlink", "rmdir"} /\ last'.names = <<path>> /\ last'.val >= 0
    /\ \/ last'.call = "unlink" /\ ~IsDirectory(InodeOf(path))
       \/ last'.call = "rmdir" /\ \A p \in KeysOf(path_map) : ~IsEntryOf(p, path)
    /\ path_map' = Remove(path_map, path)

NameMoved ==
  \E old, new \in Path :
    /\ last'.call = "rename" /\ last'.names = <<old, new>> /\ last'.val >= 0
    /\ Known(old)
    /\ path_map' = Insert(PathMapCap, Remove(path_map, old), new, InodeOf(old))

NameLinked ==
  \E old, new \in Path :
    /\ last'.call = "link" /\ last'.names = <<old, new>> /\ last'.val >= 0
    /\ Known(old)
    /\ path_map' = Insert(PathMapCap, path_map, new, InodeOf(old))

NameMade ==
  \E path \in Path :
    /\ last'.call \in {"symlink", "mkdir", "open"} /\ last'.names = <<path>>
    /\ last'.call = "symlink" \/ ~Known(path)
    /\ last'.val >= 0 \/ (last'.call = "open" /\ FreeFds = {})
    /\ path_map' = Insert(PathMapCap, path_map, path, next_inode_number)

NamesEffect ==
  NothingAsked \/ OtherAsked \/ NameDropped \/ NameMoved \/ NameLinked \/ NameMade

LEMMA NamesNotAsked ==
  ASSUME NEW call, NEW names, Fails(call, names) \/ Panics(call, names)
  PROVE  NamesEffect
  BY DEF Fails, Panics, Returns, NamesEffect, NothingAsked

LEMMA OtherNames ==
  ASSUME NEW call, call \notin NamingCalls, NEW names, NEW fds, NEW val,
         val >= 0 \/ val = -1, Returns(call, names, fds, val), UNCHANGED path_map
  PROVE  NamesEffect
  BY DEF Returns, NamesEffect, OtherAsked, NothingAsked

LEMMA NamespaceNames ==
  ASSUME IInv, NamespaceNext
  PROVE  NamesEffect
<1> USE ArgAssumption
<1>1. ASSUME NEW call, NEW names, Fails(call, names) \/ Panics(call, names)
      PROVE  NamesEffect
  BY <1>1, NamesNotAsked
<1>2. \A path \in Path : Absolute(path) \in Path BY AbsolutePath DEF IInv
<1>3. ASSUME NEW old \in PathArg, NEW new \in PathArg, Rename(old, new) \/ Link(old, new)
      PROVE  NamesEffect
  <2>1. PICK from \in Path : from = Absolute(old) BY <1>2
  <2>2. PICK to \in Path : to = Absolute(new) BY <1>2
  <2>3. CASE Rename(old, new)
    BY <1>1, <2>1, <2>2, <2>3 DEF Rename, Returns, NamesEffect, NameMoved
  <2>4. CASE Link(old, new)
    BY <1>1, <2>1, <2>2, <2>4 DEF Link, Returns, NamesEffect, NameLinked
  <2> QED BY <1>3, <2>3, <2>4
<1>4. ASSUME NEW path, Unlink(path) \/ Rmdir(path)
      PROVE  NamesEffect
  BY <1>1, <1>4 DEF Unlink, Rmdir, Returns, NamesEffect, NameDropped
<1>5. ASSUME NEW path \in PathArg, NEW mode, Symlink(path) \/ Mkdir(path, mode)
      PROVE  NamesEffect
  <2>1. PICK name \in Path : name = Absolute(path) BY <1>2
  <2> QED BY <1>1, <1>5, <2>1
          DEF Symlink, Mkdir, InsertDirectoryEntry, Returns, NamesEffect, NameMade
<1>6. ASSUME NEW path, NEW fd, Chdir(path) \/ Fchdir(fd)
      PROVE  NamesEffect
  BY <1>1, <1>6, OtherNames DEF Chdir, Fchdir, NamingCalls
<1> QED BY <1>3, <1>4, <1>5, <1>6 DEF NamespaceNext

LEMMA OpenNames ==
  ASSUME IInv, NEW path \in Path, NEW flags, NEW mode, Open(path, flags, mode)
  PROVE  NamesEffect
<1>1. ASSUME NEW ino, NEW contents, OpenDescriptor(path, ino, contents, flags)
      PROVE  /\ last'.call = "open" /\ last'.names = <<path>>
             /\ last'.val >= 0 \/ (last'.val = -1 /\ FreeFds = {})
  BY <1>1, AllocatedIsFree DEF OpenDescriptor, Returns, IInv, Fd
<1>2. CASE OpenMissing(path, flags) BY <1>2, NamesNotAsked DEF OpenMissing
<1>3. CASE OpenExisting(path, flags)
  BY <1>1, <1>3 DEF OpenExisting, NamesEffect, OtherAsked, NothingAsked
<1>4. CASE OpenCreating(path, flags, mode)
  BY <1>1, <1>4 DEF OpenCreating, CreateFile, NamesEffect, NameMade
<1> QED BY <1>2, <1>3, <1>4 DEF Open

LEMMA IONames ==
  ASSUME IInv, IONext
  PROVE  NamesEffect
<1> USE ArgAssumption DEF NamingCalls
<1>1. ASSUME NEW call, NEW names, Fails(call, names) \/ Panics(call, names)
      PROVE  NamesEffect
  BY <1>1, NamesNotAsked
<1>2. ASSUME NEW fd, NEW pos \in Int, NEW count \in Nat, Accessible(fd)
      PROVE  Available(ContentAt(fd), AsUsize(pos), count) >= 0
  BY <1>2, AccessibleFacts, AsUsizeType, AvailableType
<1>3. ASSUME NEW fd, NEW count \in Nat, NEW offset \in Int,
             Read(fd, count) \/ Pread64(fd, count, offset)
      PROVE  NamesEffect
  BY <1>1, <1>2, <1>3, AccessibleFacts, OtherNames DEF Read, Pread64
<1>4. ASSUME NEW fd, NEW bytes \in DataArg, NEW offset,
             Write(fd, bytes) \/ Pwrite64(fd, bytes, offset)
      PROVE  NamesEffect
  <2>1. Len(bytes) >= 0 BY LenProperties
  <2> QED BY <1>1, <1>4, <2>1, OtherNames DEF Write, Pwrite64
<1>5. ASSUME NEW call \in {"sendfile", "splice"}, NEW in, NEW from \in Int \cup {Nowhere},
             NEW out, NEW to \in Int \cup {Nowhere}, NEW count \in Nat,
             Copy(call, in, from, out, to, count)
      PROVE  NamesEffect
  <2> DEFINE readPos == AsUsize(IF from = Nowhere THEN HandleAt(in).position ELSE from)
             n == Min({count, Len(ContentAt(in)) - readPos})
  <2>1. Accessible(in) /\ Accessible(out) /\ readPos < Len(ContentAt(in)) => n \in Nat
    BY CopyFacts
  <2> HIDE DEF readPos
  <2>2. CASE Fails(call, <<>>) \/ Panics(call, <<>>) BY <1>1, <2>2
  <2>3. ASSUME NEW fds, NEW val \in Nat, Returns(call, <<>>, fds, val), UNCHANGED path_map
        PROVE  NamesEffect
    BY <2>3, OtherNames
  <2> QED BY <1>5, <2>1, <2>2, <2>3 DEF Copy, readPos
<1>6. ASSUME NEW fd, NEW offset, NEW whence, Lseek(fd, offset, whence)
      PROVE  NamesEffect
  BY <1>1, <1>6, OtherNames DEF Lseek, Seeks
<1>7. ASSUME NEW fd, NEW path, NEW length, NEW len,
             Truncate(path, length) \/ Ftruncate(fd, length) \/ Fallocate(fd, length, len)
      PROVE  NamesEffect
  BY <1>1, <1>7, OtherNames DEF Truncate, Ftruncate, SetFileSize, Fallocate
<1>8. ASSUME NEW in \in FdArg, NEW out \in FdArg, NEW from \in OffsetArg \cup {Nowhere},
             NEW to \in OffsetArg \cup {Nowhere}, NEW count \in CountArg,
             Sendfile(out, in, from, count) \/ Splice(in, from, out, to, count)
      PROVE  NamesEffect
  BY <1>5, <1>8 DEF Sendfile, Splice
<1> QED BY <1>3, <1>4, <1>6, <1>7, <1>8 DEF IONext, Sendfile64, PosixFallocate

LEMMA AttributeNames ==
  ASSUME AttributeNext
  PROVE  NamesEffect
<1> USE ArgAssumption DEF NamingCalls
<1>1. ASSUME NEW call, NEW names, Fails(call, names) PROVE NamesEffect
  BY <1>1, NamesNotAsked
<1>2. ASSUME NEW call, call \notin NamingCalls, NEW names, NEW val, val >= 0 \/ val = -1,
             Reports(call, names, val)
      PROVE  NamesEffect
  BY <1>2, OtherNames DEF Reports
<1>3. ASSUME NEW path, NEW fd, NEW mode, NEW owner, NEW group,
             \/ Chmod(path, mode) \/ Fchmod(fd, mode) \/ Umask(mode)
             \/ Chown(path, owner, group) \/ Fchown(fd, owner, group)
      PROVE  NamesEffect
  BY <1>1, <1>3, OtherNames DEF Chmod, Fchmod, Chown, Fchown, Umask, SetsInode
<1>4. ASSUME NEW path, NEW count \in CountArg, Stat(path) \/ Readlink(path, count)
      PROVE  NamesEffect
  BY <1>1, <1>2, <1>4 DEF Stat, Readlink
<1>5. ASSUME NEW path, NEW fd, NEW mode,
             Fstat(fd) \/ Access(path, mode) \/ Getcwd \/ NoOp
      PROVE  NamesEffect
  BY <1>2, <1>5 DEF Fstat, Access, Getcwd, NoOp
<1> QED BY <1>3, <1>4, <1>5 DEF AttributeNext

\* Every call, seen from the names.
LEMMA EffectOnNames ==
  ASSUME IInv, Next
  PROVE  NamesEffect
<1> USE ArgAssumption DEF NamingCalls
<1>1. ASSUME NEW call, NEW names, Fails(call, names) \/ Panics(call, names)
      PROVE  NamesEffect
  BY <1>1, NamesNotAsked
<1>2. CASE DescriptorNext
  <2>1. ASSUME NEW fd, NEW newfd \in Int, Close(fd) \/ Dup(fd) \/ Dup2(fd, newfd)
        PROVE  NamesEffect
    BY <1>1, <2>1, OtherNames, AllocatedIsFree DEF Close, Dup, Dup2, IInv, Fd
  <2> QED BY <1>2, <2>1, OpenNames DEF DescriptorNext, Openat, Creat
<1>3. CASE NamespaceNext BY <1>3, NamespaceNames
<1>4. CASE IONext BY <1>4, IONames
<1>5. CASE ListingNext
  <2>1. ASSUME NEW fd, NEW room, Getdents(fd, room) PROVE NamesEffect
    <3>1. Cardinality(Listed(fd, room)) \in Nat BY ListedIsFinite
    <3> QED BY <1>1, <2>1, <3>1, OtherNames DEF Getdents
  <2> QED BY <1>5, <2>1 DEF ListingNext, Getdents64
<1>6. CASE AttributeNext BY <1>6, AttributeNames
<1> QED BY <1>2, <1>3, <1>4, <1>5, <1>6 DEF Next

LEMMA NamesMap ==
  IInv => /\ IsMap(path_map, PathMapCap, Path, Nat) /\ PathMapCap \in Nat
          /\ next_inode_number \in Nat
  BY FsAssumption DEF IInv, PathsOK, InodesOK

\* A name comes to be held twice only by rename, link or symlink putting it
\* although it is taken: open and mkdir, which look first, never double one.
THEOREM NamesDoubledOnlyByReplacing == Spec => DoubledOnlyByReplacing
<1> DEFINE A == UniqueKeys(path_map) /\ ~UniqueKeys(path_map') =>
                  /\ last'.call \in {"rename", "link", "symlink"}
                  /\ Known(last'.names[Len(last'.names)])
<1>1. IInv /\ [Next]_vars => [A]_vars
  <2> SUFFICES ASSUME IInv, Next, UniqueKeys(path_map), ~UniqueKeys(path_map')
               PROVE  /\ last'.call \in {"rename", "link", "symlink"}
                      /\ Known(last'.names[Len(last'.names)])
    OBVIOUS
  <2>1. IsMap(path_map, PathMapCap, Path, Nat) /\ PathMapCap \in Nat
        /\ next_inode_number \in Nat
    BY NamesMap
  <2>2. NamesEffect BY EffectOnNames
  <2>3. path_map' # path_map OBVIOUS
  <2>4. CASE NameDropped BY <2>1, <2>4, RemoveProperties DEF NameDropped
  <2>5. CASE NameMoved
    <3>1. PICK old \in Path, new \in Path :
            /\ last'.call = "rename" /\ last'.names = <<old, new>> /\ Known(old)
            /\ path_map' = Insert(PathMapCap, Remove(path_map, old), new, InodeOf(old))
      BY <2>5 DEF NameMoved
    <3> DEFINE left == Remove(path_map, old)
    <3>2. /\ IsMap(left, PathMapCap, Path, Nat) /\ UniqueKeys(left)
          /\ HasKey(left, new) => Known(new)
      BY <2>1, RemoveProperties DEF Known, HasKey, SlotsOf
    <3>3. InodeOf(old) \in Nat BY <3>1, LookupExists DEF IInv
    <3> HIDE DEF left
    <3>4. HasKey(left, new) BY <2>1, <3>1, <3>2, <3>3, InsertAbsentUnique DEF left
    <3> QED BY <3>1, <3>2, <3>4
  <2>6. CASE NameLinked
    <3>1. PICK old \in Path, new \in Path :
            /\ last'.call = "link" /\ last'.names = <<old, new>> /\ Known(old)
            /\ path_map' = Insert(PathMapCap, path_map, new, InodeOf(old))
      BY <2>6 DEF NameLinked
    <3>2. InodeOf(old) \in Nat BY <3>1, LookupExists DEF IInv
    <3>3. Known(new) BY <2>1, <3>1, <3>2, InsertAbsentUnique DEF Known
    <3> QED BY <3>1, <3>3
  <2>7. CASE NameMade
    <3>1. PICK path \in Path :
            /\ last'.names = <<path>> /\ last'.call \in {"symlink", "mkdir", "open"}
            /\ last'.call = "symlink" \/ ~Known(path)
            /\ path_map' = Insert(PathMapCap, path_map, path, next_inode_number)
      BY <2>7 DEF NameMade
    <3>2. Known(path) BY <2>1, <3>1, InsertAbsentUnique DEF Known
    <3> QED BY <3>1, <3>2
  <2> QED BY <2>2, <2>3, <2>4, <2>5, <2>6, <2>7
          DEF NamesEffect, NothingAsked, OtherAsked
<1> QED BY <1>1, Invariant, PTL DEF Spec, DoubledOnlyByReplacing

\* A directory whose name's slots no step touches is the same one after it.
LEMMA DirectoryKept ==
  ASSUME IInv, [Next]_vars, NEW d, Known(d), IsDirectory(InodeOf(d)),
         SameAt(path_map, path_map', d)
  PROVE  Known(d)' /\ IsDirectory(InodeOf(d))'
<1>1. IsMap(path_map, PathMapCap, Path, Nat) /\ PathMapCap \in Nat BY NamesMap
<1>2. PICK n : n = InodeOf(d) OBVIOUS
<1>3. Known(d)' /\ InodeOf(d)' = n BY <1>1, <1>2, SameLookup DEF Known, InodeOf
<1>4. n \in Nat /\ InodeExists(n) /\ IsDirectory(n) BY <1>2, LookupExists DEF IInv
<1>5. Grows BY InvariantStep
<1>6. IsDirectory(n)' BY <1>4, <1>5, StillExists DEF IInv
<1> QED BY <1>3, <1>6

\* An entry loses its directory only to a rename, link or symlink that takes or
\* replaces the directory's name: rmdir looks for entries before it removes a
\* name, unlink at what the name leads to, and nothing turns a directory into
\* another kind of inode.
THEOREM OrphansFollowReplacing == Spec => OrphansOnlyByReplacing
<1> DEFINE A == \A p \in KeysOf(path_map) : Housed(p) /\ Known(p)' /\ ~Housed(p)' =>
                  /\ last'.call \in {"rename", "link", "symlink"}
                  /\ \E k \in DOMAIN last'.names : IsEntryOf(p, last'.names[k])
<1>1. IInv /\ [Next]_vars => [A]_path_map
  <2> SUFFICES ASSUME IInv, Next, path_map' # path_map,
                      NEW p \in KeysOf(path_map), Housed(p), ~Housed(p)'
               PROVE  /\ last'.call \in {"rename", "link", "symlink"}
                      /\ \E k \in DOMAIN last'.names : IsEntryOf(p, last'.names[k])
    BY DEF vars
  <2>1. IsMap(path_map, PathMapCap, Path, Nat) /\ PathMapCap \in Nat BY NamesMap
  <2>2. NamesEffect BY EffectOnNames
  <2>3. PICK d : d = Parent(p) OBVIOUS
  <2>4. Known(d) /\ IsDirectory(InodeOf(d)) /\ IsEntryOf(p, d)
    BY <2>3 DEF Housed, IsEntryOf
  <2>5. ~SameAt(path_map, path_map', d)
    <3>1. ~(Known(d)' /\ IsDirectory(InodeOf(d))') BY <2>3 DEF Housed
    <3> QED BY <2>4, <3>1, DirectoryKept
  <2>6. ~NameDropped
    <3>1. ASSUME NEW path, path_map' = Remove(path_map, path) PROVE path = d
      BY <2>1, <2>5, <3>1, RemoveKeepsOthers
    <3> QED BY <2>4, <3>1 DEF NameDropped
  <2>7. CASE NameMoved
    <3>1. PICK old \in Path, new \in Path :
            /\ last'.call = "rename" /\ last'.names = <<old, new>>
            /\ path_map' = Insert(PathMapCap, Remove(path_map, old), new, InodeOf(old))
      BY <2>7 DEF NameMoved
    <3>2. d = old \/ d = new
      BY <2>1, <2>5, <3>1, RemoveKeepsOthers, InsertKeepsOthers DEF SameAt
    <3> QED BY <2>4, <3>1, <3>2
  <2>8. CASE NameLinked
    <3>1. PICK old, new :
            /\ last'.call = "link" /\ last'.names = <<old, new>>
            /\ path_map' = Insert(PathMapCap, path_map, new, InodeOf(old))
      BY <2>8 DEF NameLinked
    <3>2. d = new BY <2>1, <2>5, <3>1, InsertKeepsOthers
    <3> QED BY <2>4, <3>1, <3>2
  <2>9. CASE NameMade
    <3>1. PICK path :
            /\ last'.names = <<path>> /\ last'.call \in {"symlink", "mkdir", "open"}
            /\ last'.call = "symlink" \/ ~Known(path)
            /\ path_map' = Insert(PathMapCap, path_map, path, next_inode_number)
      BY <2>9 DEF NameMade
    <3>2. d = path BY <2>1, <2>5, <3>1, InsertKeepsOthers
    <3> QED BY <2>4, <3>1, <3>2
  <2> QED BY <2>2, <2>6, <2>7, <2>8, <2>9 DEF NamesEffect, NothingAsked, OtherAsked
<1> QED BY <1>1, Invariant, PTL DEF Spec, OrphansOnlyByReplacing

\* NameTable counts names with its own instance of FiniteSets.
LEMMA TableCardinality == \A S : Table!Cardinality(S) = Cardinality(S)
  BY DEF Table!Cardinality, Cardinality

\* insert() as the put of a name, in a table that lacks doubled names.
LEMMA PutNames ==
  ASSUME IInv, UniqueKeys(path_map), UniqueKeys(path_map'), NEW path \in Path, NEW ino \in Nat,
         path_map' = Insert(PathMapCap, path_map, path, ino)
  PROVE  \/ UNCHANGED Names /\ Full(PathMapCap, path_map)
         \/ Table!Put(path, ino)
<1>1. IsMap(path_map, PathMapCap, Path, Nat) /\ PathMapCap \in Nat BY NamesMap
<1>2. DOMAIN Names = KeysOf(path_map) BY DEF Names, DictOf
<1>3. CASE path_map' = path_map /\ Full(PathMapCap, path_map) BY <1>3 DEF Names
<1>4. CASE /\ DictOf(path_map') = DictWith(DictOf(path_map), path, ino)
           /\ path \in KeysOf(path_map) \/ Cardinality(KeysOf(path_map)) < PathMapCap
  BY <1>2, <1>4, TableCardinality DEF Table!Put, Names, DictWith
<1> QED BY <1>1, <1>3, <1>4, DictOfInsert

\* rename, which frees a slot first, is never without room.
LEMMA MoveNames ==
  ASSUME IInv, UniqueKeys(path_map), UniqueKeys(path_map'),
         NEW old, Known(old), NEW new \in Path,
         path_map' = Insert(PathMapCap, Remove(path_map, old), new, InodeOf(old))
  PROVE  Table!Move(old, new)
<1> DEFINE left == Remove(path_map, old)
           ino == InodeOf(old)
<1>1. IsMap(path_map, PathMapCap, Path, Nat) /\ PathMapCap \in Nat BY NamesMap
<1>2. /\ IsMap(left, PathMapCap, Path, Nat) /\ UniqueKeys(left)
      /\ ~Full(PathMapCap, left)
  BY <1>1, RemoveProperties, RemoveMakesRoom DEF Known
<1>3. DictOf(left) = DictWithout(Names, old) BY <1>1, DictOfRemove DEF Names
<1>4. ino \in Nat BY LookupExists DEF IInv
<1>5. old \in DOMAIN Names /\ Names[old] = ino
  BY DEF Names, DictOf, Known, HasKey, SlotsOf, KeysOf, InodeOf
<1> HIDE DEF left, ino
<1>6. DictOf(path_map') = DictWith(DictOf(left), new, ino)
  BY <1>1, <1>2, <1>4, DictOfInsert DEF left, ino
<1>7. Names' = DictWith(DictWithout(Names, old), new, ino) BY <1>3, <1>6 DEF Names
<1> QED BY <1>5, <1>7 DEF Table!Move, DictWith, DictWithout

\* Without doubled names every call does to the names what it was asked, or
\* nothing: NameTable is what the calls implement.
THEOREM NamesFollowCalls == Spec => NamesChangeAsAsked
<1> DEFINE A == UniqueKeys(path_map) /\ UniqueKeys(path_map') =>
                  \/ /\ last'.val >= 0 \/ (last'.call = "open" /\ FreeFds = {})
                     /\ NameEffect(last'.call, last'.names)
                  \/ UNCHANGED Names /\ (last'.val = -1 \/ Full(PathMapCap, path_map))
<1>1. IInv /\ [Next]_vars => [A]_vars
  <2> SUFFICES ASSUME IInv, Next, UniqueKeys(path_map), UniqueKeys(path_map')
               PROVE  \/ /\ last'.val >= 0 \/ (last'.call = "open" /\ FreeFds = {})
                         /\ NameEffect(last'.call, last'.names)
                      \/ UNCHANGED Names /\ (last'.val = -1 \/ Full(PathMapCap, path_map))
    OBVIOUS
  <2>1. IsMap(path_map, PathMapCap, Path, Nat) /\ PathMapCap \in Nat
        /\ next_inode_number \in Nat
    BY NamesMap
  <2>2. NamesEffect BY EffectOnNames
  <2>3. \A path : path \in DOMAIN Names <=> Known(path)
    BY DEF Names, DictOf, Known, HasKey, SlotsOf, KeysOf
  <2>4. \A path : Known(path) => Names[path] = InodeOf(path)
    BY <2>3 DEF Names, DictOf, InodeOf
  <2>5. CASE NothingAsked BY <2>5 DEF NothingAsked, Names
  <2>6. CASE OtherAsked
    <3>1. UNCHANGED Names /\ last'.val >= 0 BY <2>6 DEF OtherAsked, Names
    <3>2. NameEffect(last'.call, last'.names)
      BY <2>3, <2>6, <3>1 DEF OtherAsked, NamingCalls, NameEffect
    <3> QED BY <3>1, <3>2
  <2>7. CASE NameDropped
    <3>1. PICK path : /\ last'.call \in {"unlink", "rmdir"} /\ last'.names = <<path>>
                      /\ last'.val >= 0 /\ path_map' = Remove(path_map, path)
      BY <2>7 DEF NameDropped
    <3>2. Names' = DictWithout(Names, path) BY <2>1, <3>1, DictOfRemove DEF Names
    <3>3. Table!Delete(path) BY <3>2 DEF Table!Delete, DictWithout
    <3> QED BY <3>1, <3>3 DEF NameEffect
  <2>8. CASE NameMoved
    <3>1. PICK old \in Path, new \in Path :
            /\ last'.call = "rename" /\ last'.names = <<old, new>> /\ last'.val >= 0
            /\ Known(old)
            /\ path_map' = Insert(PathMapCap, Remove(path_map, old), new, InodeOf(old))
      BY <2>8 DEF NameMoved
    <3>2. Table!Move(old, new) BY <3>1, MoveNames
    <3> QED BY <3>1, <3>2 DEF NameEffect
  <2>9. CASE NameLinked
    <3>1. PICK old \in Path, new \in Path :
            /\ last'.call = "link" /\ last'.names = <<old, new>> /\ last'.val >= 0
            /\ Known(old)
            /\ path_map' = Insert(PathMapCap, path_map, new, InodeOf(old))
      BY <2>9 DEF NameLinked
    <3>2. InodeOf(old) \in Nat BY <3>1, LookupExists DEF IInv
    <3>3. Names[old] = InodeOf(old) BY <2>4, <3>1
    <3>4. \/ UNCHANGED Names /\ Full(PathMapCap, path_map)
          \/ Table!Put(new, Names[old])
      BY <3>1, <3>2, <3>3, PutNames
    <3> QED BY <3>1, <3>4 DEF NameEffect
  <2>10. CASE NameMade
    <3>1. PICK path \in Path :
            /\ last'.call \in {"symlink", "mkdir", "open"} /\ last'.names = <<path>>
            /\ last'.call = "symlink" \/ ~Known(path)
            /\ last'.val >= 0 \/ (last'.call = "open" /\ FreeFds = {})
            /\ path_map' = Insert(PathMapCap, path_map, path, next_inode_number)
      BY <2>10 DEF NameMade
    <3>2. \/ UNCHANGED Names /\ Full(PathMapCap, path_map)
          \/ Table!Put(path, next_inode_number)
      BY <2>1, <3>1, PutNames
    <3>3. last'.call = "open" => path \notin DOMAIN Names BY <2>3, <3>1
    <3> QED BY <3>1, <3>2, <3>3 DEF NameEffect
  <2> QED BY <2>2, <2>5, <2>6, <2>7, <2>8, <2>9, <2>10 DEF NamesEffect
<1> QED BY <1>1, Invariant, PTL DEF Spec, NamesChangeAsAsked

-----------------------------------------------------------------------------
(* Offsets                                                                 *)

\* No content is longer than a vector can be: an append starts at the end of
\* the content, and not where the end would be with its upper half dropped.
Fitting(contents) == \A i \in DOMAIN contents : Len(contents[i].val) <= MaxLen
ContentsFit == Fitting(files)

LEMMA FittingChanges ==
  ASSUME NEW c, IsMap(c, FilesCap, Nat, Seq(Byte)), Fitting(c),
         NEW ino \in Nat, NEW d \in Seq(Byte), Len(d) <= MaxLen
  PROVE  Fitting(Update(c, ino, d)) /\ Fitting(Insert(FilesCap, c, ino, d))
<1> DEFINE K == Nat
           V == Seq(Byte)
<1>1. IsMap(c, FilesCap, K, V) /\ d \in V /\ ino \in K /\ FilesCap \in Nat BY FsAssumption
<1> HIDE DEF K, V
<1>2. \A r \in {Insert(FilesCap, c, ino, d), Update(c, ino, d)} : \A i \in DOMAIN r :
        r[i].val = d \/ (i \in DOMAIN c /\ r[i] = c[i])
  BY <1>1, ValuesAfterChange
<1>3. \A r \in {Insert(FilesCap, c, ino, d), Update(c, ino, d)} : Fitting(r)
  BY <1>2 DEF Fitting
<1> QED BY <1>3

LEMMA FittingPrepared ==
  ASSUME NEW c, IsMap(c, FilesCap, Nat, Seq(Byte)), Fitting(c),
         NEW ino \in Nat, NEW flags
  PROVE  Fitting(Prepared(c, ino, flags))
<1>1. PICK e \in Seq(Byte) : e = <<>> BY EmptySeq
<1>2. Len(e) <= MaxLen BY <1>1, IOAssumption
<1> QED BY <1>1, <1>2, FittingChanges DEF Prepared

LEMMA ContentsFitStep == IInv /\ ContentsFit /\ [Next]_vars => ContentsFit'
<1> SUFFICES ASSUME IInv, Fitting(files), [Next]_vars PROVE Fitting(files')
  BY DEF ContentsFit
<1>1. /\ IsMap(files, FilesCap, Nat, Seq(Byte)) /\ next_inode_number \in Nat
      /\ IsMap(CreatedFiles, FilesCap, Nat, Seq(Byte))
  BY ContentsMap
<1>2. Fitting(CreatedFiles)
  <2>1. PICK e \in Seq(Byte) : e = <<>> BY EmptySeq
  <2>2. Len(e) <= MaxLen BY <2>1, IOAssumption
  <2> QED BY <1>1, <2>1, <2>2, FittingChanges DEF CreatedFiles
<1>3. ContentEffect BY EffectOnContents
<1>4. CASE UNCHANGED files BY <1>4
<1>5. CASE ContentAssigned
  <2>1. PICK ino \in Nat, d \in Seq(Byte) : Fits(d, ino) /\ files' = Update(files, ino, d)
    BY <1>5 DEF ContentAssigned
  <2>2. DataLen(files, ino) <= MaxLen
    <3> DEFINE K == Nat
               V == Seq(Byte)
               s == Min(SlotsOf(files, ino))
    <3>1. IsMap(files, FilesCap, K, V) /\ FilesCap \in Nat BY <1>1, FsAssumption
    <3> HIDE DEF K, V
    <3>2. HasKey(files, ino) => s \in DOMAIN files BY <3>1, FirstSlot
    <3> QED BY <3>2, IOAssumption DEF DataLen, Get, Fitting
  <2>3. DataLen(files, ino) \in Nat BY ContentType DEF IInv, FilesOK
  <2>4. Len(d) <= MaxLen BY <2>1, <2>2, <2>3, LenProperties, IOAssumption DEF Fits
  <2> QED BY <1>1, <2>1, <2>4, FittingChanges
<1>6. CASE ExistingOpened
  BY <1>1, <1>6, FittingPrepared DEF ExistingOpened
<1>7. CASE InodeAdded
  BY <1>1, <1>2, <1>7, FittingPrepared DEF InodeAdded
<1> QED BY <1>3, <1>4, <1>5, <1>6, <1>7 DEF ContentEffect, AttributesSet

LEMMA ContentsAlwaysFit == Spec => [](IInv /\ ContentsFit)
<1>1. Init => ContentsFit BY DEF Init, FsInit, EmptyMap, ContentsFit, Fitting
<1> QED BY <1>1, Invariant, ContentsFitStep, PTL DEF Spec

\* The calls whose results are about offsets, and what else carries their names.
OffsetCalls == {"read", "write", "lseek", "sendfile", "splice"}

LEMMA OtherCalls ==
  ASSUME DescriptorNext \/ NamespaceNext \/ ListingNext \/ AttributeNext
  PROVE  last'.call \notin OffsetCalls
<1> USE DEF OffsetCalls
<1>1. ASSUME NEW call, NEW names, Fails(call, names) \/ Panics(call, names)
      PROVE  last'.call = call
  BY <1>1 DEF Fails, Panics, Returns
<1>2. ASSUME NEW call, NEW names, NEW fds, NEW val, Returns(call, names, fds, val)
      PROVE  last'.call = call
  BY <1>2 DEF Returns
<1>3. CASE DescriptorNext
  <2>1. ASSUME NEW path, NEW flags, NEW mode, Open(path, flags, mode)
        PROVE  last'.call = "open"
    BY <1>1, <1>2, <2>1
    DEF Open, OpenMissing, OpenExisting, OpenCreating, OpenDescriptor
  <2>2. ASSUME NEW fd, NEW newfd, Close(fd) \/ Dup(fd) \/ Dup2(fd, newfd)
        PROVE  last'.call \in {"close", "dup", "dup2"}
    BY <1>1, <1>2, <2>2 DEF Close, Dup, Dup2
  <2> QED BY <1>3, <2>1, <2>2 DEF DescriptorNext, Openat, Creat
<1>4. CASE NamespaceNext
  BY <1>1, <1>2, <1>4
  DEF NamespaceNext, Rename, Link, Unlink, Symlink, Mkdir, Rmdir, Chdir, Fchdir
<1>5. CASE ListingNext BY <1>1, <1>2, <1>5 DEF ListingNext, Getdents64, Getdents
<1>6. CASE AttributeNext
  BY <1>1, <1>2, <1>6
  DEF AttributeNext, Chmod, Fchmod, Chown, Fchown, SetsInode, Umask, Stat, Fstat, Access,
      Readlink, Getcwd, NoOp, Reports
<1> QED BY <1>3, <1>4, <1>5, <1>6

\* A step with the name of one of them is that call.
OffsetCall(call) ==
  CASE call = "read" -> \E fd \in FdArg, count \in CountArg : Read(fd, count)
    [] call = "write" -> \E fd \in FdArg, bytes \in DataArg : Write(fd, bytes)
    [] call = "lseek" ->
         \E fd \in FdArg, offset \in OffsetArg, whence \in 0..3 : Lseek(fd, offset, whence)
    [] call = "sendfile" ->
         \E in, out \in FdArg, from \in OffsetArg \cup {Nowhere}, count \in CountArg :
           Copy("sendfile", in, from, out, Nowhere, count)
    [] call = "splice" ->
         \E in, out \in FdArg, from, to \in OffsetArg \cup {Nowhere}, count \in CountArg :
           Copy("splice", in, from, out, to, count)

LEMMA CallsByName ==
  ASSUME Next, last'.call \in OffsetCalls
  PROVE  OffsetCall(last'.call)
<1> USE DEF OffsetCalls, OffsetCall
<1>1. ASSUME NEW call, NEW names, Fails(call, names) \/ Panics(call, names)
      PROVE  last'.call = call
  BY <1>1 DEF Fails, Panics, Returns
<1>2. ASSUME NEW call, NEW names, NEW fds, NEW val, Returns(call, names, fds, val)
      PROVE  last'.call = call
  BY <1>2 DEF Returns
<1>3. IONext BY OtherCalls DEF Next
<1>4. ASSUME NEW fd \in FdArg, NEW count \in CountArg, Read(fd, count)
      PROVE  OffsetCall(last'.call)
  <2>1. last'.call = "read" BY <1>1, <1>2, <1>4 DEF Read
  <2> QED BY <1>4, <2>1
<1>5. ASSUME NEW fd \in FdArg, NEW bytes \in DataArg, Write(fd, bytes)
      PROVE  OffsetCall(last'.call)
  <2>1. last'.call = "write" BY <1>1, <1>2, <1>5 DEF Write
  <2> QED BY <1>5, <2>1
<1>6. ASSUME NEW fd \in FdArg, NEW offset \in OffsetArg, NEW whence \in 0..3,
             Lseek(fd, offset, whence)
      PROVE  OffsetCall(last'.call)
  <2>1. last'.call = "lseek" BY <1>1, <1>2, <1>6 DEF Lseek, Seeks
  <2> QED BY <1>6, <2>1
<1>7. ASSUME NEW call, NEW in, NEW from, NEW out, NEW to, NEW count,
             Copy(call, in, from, out, to, count)
      PROVE  last'.call = call
  BY <1>1, <1>2, <1>7 DEF Copy
<1>8. ASSUME NEW in \in FdArg, NEW out \in FdArg, NEW from \in OffsetArg \cup {Nowhere},
             NEW count \in CountArg, Sendfile(out, in, from, count)
      PROVE  OffsetCall(last'.call)
  <2>1. last'.call = "sendfile" BY <1>7, <1>8 DEF Sendfile
  <2> QED BY <1>8, <2>1 DEF Sendfile
<1>9. ASSUME NEW in \in FdArg, NEW out \in FdArg, NEW from \in OffsetArg \cup {Nowhere},
             NEW to \in OffsetArg \cup {Nowhere}, NEW count \in CountArg,
             Splice(in, from, out, to, count)
      PROVE  OffsetCall(last'.call)
  <2>1. last'.call = "splice" BY <1>7, <1>9 DEF Splice
  <2> QED BY <1>9, <2>1 DEF Splice
<1>10. ASSUME NEW fd, NEW path, NEW bytes, NEW count, NEW offset, NEW len,
             \/ Pread64(fd, count, offset) \/ Pwrite64(fd, bytes, offset)
             \/ Truncate(path, offset) \/ Ftruncate(fd, offset) \/ Fallocate(fd, offset, len)
      PROVE  last'.call \notin OffsetCalls
  BY <1>1, <1>2, <1>10 DEF Pread64, Pwrite64, Truncate, Ftruncate, SetFileSize, Fallocate
<1> QED BY <1>3, <1>4, <1>5, <1>6, <1>8, <1>9, <1>10 DEF IONext, Sendfile64, PosixFallocate

\* The one slot of a descriptor that has a handle, and its position set.
LEMMA HandleMoved ==
  ASSUME NEW handles, HandlesOK(handles), NEW fd, NEW i \in SlotsOf(handles, fd), NEW pos
  PROVE  /\ i \in DOMAIN handles /\ handles[i].val \in Handle
         /\ Get(handles, fd) = handles[i].val
         /\ i \in SlotsOf(Positioned(handles, fd, pos), fd)
         /\ Positioned(handles, fd, pos)[i].val.position = pos
<1>1. IsMap(handles, OpenFilesCap, Fd, Handle) /\ OpenFilesCap \in Nat /\ UniqueKeys(handles)
  BY ProcAssumption DEF HandlesOK
<1>2. HasKey(handles, fd) /\ i \in DOMAIN handles /\ handles[i].key = fd
  BY DEF HasKey, SlotsOf
<1>3. Min(SlotsOf(handles, fd)) = i BY <1>1, <1>2, FirstSlot DEF UniqueKeys
<1>4. handles[i] \in [key : Fd, val : Handle] BY <1>1, <1>2 DEF IsMap
<1>5. SlotsOf(Positioned(handles, fd, pos), fd) = SlotsOf(handles, fd) BY PositionSet
<1>6. Get(handles, fd) = handles[i].val BY <1>3 DEF Get
<1>7. Positioned(handles, fd, pos)
        = [handles EXCEPT ![i].val = [handles[i].val EXCEPT !.position = pos]]
  BY <1>2, <1>3, <1>6 DEF Positioned, Update
<1>8. Positioned(handles, fd, pos)[i].val.position = pos
  BY <1>2, <1>4, <1>7 DEF Handle
<1> QED BY <1>2, <1>4, <1>5, <1>6, <1>8

LEMMA SlotsOfOne == \A fd, i : i \in HandleSlots({fd}) => i \in SlotsOf(open_files, fd)
  BY DEF HandleSlots, SlotsOf

\* lseek puts a descriptor where it says, or nowhere.
THEOREM SeeksSayWhere == Spec => SeeksAreExact
<1> DEFINE A == last'.call = "lseek" =>
                  IF last'.val >= 0
                  THEN \A i \in HandleSlots(last'.fds) : open_files'[i].val.position = last'.val
                  ELSE UNCHANGED open_files
<1>1. IInv /\ [Next]_vars => [A]_vars
  <2> SUFFICES ASSUME IInv, Next, last'.call = "lseek"
               PROVE  IF last'.val >= 0
                      THEN \A i \in HandleSlots(last'.fds) :
                             open_files'[i].val.position = last'.val
                      ELSE UNCHANGED open_files
    OBVIOUS
  <2>1. HandlesOK(open_files) BY HandlesOfDescriptors DEF IInv
  <2>2. PICK fd \in FdArg, offset \in OffsetArg, whence \in 0..3 : Lseek(fd, offset, whence)
    BY CallsByName DEF OffsetCalls, OffsetCall
  <2>3. CASE Fails("lseek", <<>>) \/ Panics("lseek", <<>>)
    BY <2>3 DEF Fails, Panics, Returns
  <2>4. ASSUME NEW pos \in 0..MaxPosition, Seeks(fd, pos)
        PROVE  /\ last'.val = pos /\ last'.val >= 0 /\ last'.fds = {fd}
               /\ open_files' = Positioned(open_files, fd, pos)
    BY <2>4, IOAssumption DEF Seeks, Returns
  <2>5. ASSUME NEW pos \in 0..MaxPosition, Seeks(fd, pos),
               NEW i \in HandleSlots(last'.fds)
        PROVE  open_files'[i].val.position = last'.val
    <3>1. last'.val = pos /\ open_files' = Positioned(open_files, fd, pos) BY <2>4, <2>5
    <3>2. i \in SlotsOf(open_files, fd) BY <2>4, <2>5, SlotsOfOne
    <3> QED BY <2>1, <3>1, <3>2, HandleMoved
  <2> QED BY <2>2, <2>3, <2>4, <2>5 DEF Lseek
<1> QED BY <1>1, Invariant, PTL DEF Spec, SeeksAreExact

\* Where a write leaves the descriptor: after what it wrote, or at the end.
LEMMA WriteMoves ==
  ASSUME IInv, ContentsFit, NEW fd, NEW bytes \in Seq(Byte), Write(fd, bytes),
         NEW i \in HandleSlots(last'.fds)
  PROVE  LET pos == open_files'[i].val.position
             h == open_files[i].val
         IN /\ i \in SlotsOf(open_files, fd) /\ Accessible(fd) /\ HandleAt(fd) = h
            /\ files' = Update(files, h.inode_number,
                               Overwritten(ContentAt(fd), AsUsize(WriteStart(fd)), bytes))
            /\ ContentAt(fd) \in Seq(Byte)
            /\ AsUsize(Len(ContentAt(fd))) = Len(ContentAt(fd))
            /\ pos = WriteStart(fd) + Len(bytes)
            /\ last'.val = Len(bytes)
<1>1. ~Fails("write", <<>>) /\ ~Panics("write", <<>>)
  BY DEF Fails, Panics, Returns, HandleSlots
<1>2. /\ Accessible(fd) /\ last'.fds = {fd} /\ last'.val = Len(bytes)
      /\ files' = Update(files, HandleAt(fd).inode_number,
                         Overwritten(ContentAt(fd), AsUsize(WriteStart(fd)), bytes))
      /\ open_files' = Positioned(open_files, fd, WriteStart(fd) + Len(bytes))
  BY <1>1 DEF Write, Returns
<1>3. i \in SlotsOf(open_files, fd) BY <1>2, SlotsOfOne
<1>4. HandlesOK(open_files) BY HandlesOfDescriptors DEF IInv
<1>5. /\ HandleAt(fd) = open_files[i].val
      /\ open_files'[i].val.position = WriteStart(fd) + Len(bytes)
  BY <1>2, <1>3, <1>4, HandleMoved DEF HandleAt
<1>6. ContentAt(fd) \in Seq(Byte) BY <1>2, AccessibleFacts
<1>7. Len(ContentAt(fd)) <= MaxLen
  <2> DEFINE K == Nat
             V == Seq(Byte)
             ino == HandleAt(fd).inode_number
             s == Min(SlotsOf(files, ino))
  <2>1. IsMap(files, FilesCap, K, V) /\ FilesCap \in Nat BY ContentsMap, FsAssumption
  <2> HIDE DEF K, V
  <2>2. s \in DOMAIN files BY <1>2, <2>1, FirstSlot DEF Accessible
  <2> QED BY <2>2 DEF ContentAt, Get, ContentsFit, Fitting
<1>8. AsUsize(Len(ContentAt(fd))) = Len(ContentAt(fd))
  BY <1>6, <1>7, LenProperties, IOAssumption DEF AsUsize
<1> QED BY <1>2, <1>3, <1>5, <1>6, <1>8

\* Where a copy leaves a descriptor.
LEMMA CopyMoves ==
  ASSUME IInv, NEW call, call \in {"sendfile", "splice"},
         NEW in_fd, NEW off_in \in Int \cup {Nowhere},
         NEW out_fd, NEW off_out \in Int \cup {Nowhere}, NEW count \in Nat,
         Copy(call, in_fd, off_in, out_fd, off_out, count), NEW i \in HandleSlots(last'.fds)
  PROVE  LET pos == open_files'[i].val.position
             h == open_files[i].val
         IN /\ h.position \in Nat /\ last'.val \in Nat
            /\ \/ pos = h.position + last'.val
               \/ h.append_mode /\ pos = DataLen(files', h.inode_number)
               \/ call = "splice" /\ pos = h.position + 2 * last'.val
<1> DEFINE in == HandleAt(in_fd)
           out == HandleAt(out_fd)
           readPos == AsUsize(IF off_in = Nowhere THEN in.position ELSE off_in)
           toEnd == out.append_mode /\ off_out = Nowhere
           n == Min({count, Len(ContentAt(in_fd)) - readPos})
           handles == IF off_in = Nowhere
                      THEN Positioned(open_files, in_fd, in.position + n) ELSE open_files
           outFrom == OutFrom(call, handles, out_fd)
           end == DataLen(files', out.inode_number)
           h == open_files[i].val
<1>1. last'.fds # {} BY DEF HandleSlots
<1>2. /\ Accessible(in_fd) /\ Accessible(out_fd) /\ readPos < Len(ContentAt(in_fd))
      /\ open_files' = IF off_out # Nowhere THEN handles
                       ELSE Positioned(handles, out_fd, IF toEnd THEN end ELSE outFrom + n)
      /\ last'.val = n
      /\ last'.fds = (IF off_in = Nowhere THEN {in_fd} ELSE {})
                       \cup (IF off_out = Nowhere THEN {out_fd} ELSE {})
  BY <1>1 DEF Copy, Fails, Panics, Returns
<1>3. n \in Nat /\ HandlesOK(handles) BY <1>2, CopyFacts
<1>4. HandlesOK(open_files) BY HandlesOfDescriptors DEF IInv
<1>5. \/ i \in SlotsOf(open_files, in_fd) /\ off_in = Nowhere
      \/ i \in SlotsOf(open_files, out_fd) /\ off_out = Nowhere
  <2>1. i \in DOMAIN open_files /\ open_files[i].key \in last'.fds BY DEF HandleSlots
  <2>2. last'.fds = (IF off_in = Nowhere THEN {in_fd} ELSE {})
                      \cup (IF off_out = Nowhere THEN {out_fd} ELSE {})
    BY <1>2
  <2> HIDE DEF in, out, readPos, toEnd, n, handles, outFrom, end, h
  <2> QED BY <2>1, <2>2 DEF SlotsOf
<1>6. \A fd : i \in SlotsOf(open_files, fd) => h = HandleAt(fd) /\ h.position \in Nat
  BY <1>4, HandleMoved DEF HandleAt, Handle
<1> HIDE DEF n, readPos, end
<1> SUFFICES LET pos == open_files'[i].val.position
             IN \/ pos = h.position + last'.val
                \/ h.append_mode /\ pos = DataLen(files', h.inode_number)
                \/ call = "splice" /\ pos = h.position + 2 * last'.val
  BY <1>2, <1>3, <1>5, <1>6
<1>7. handles[i].val.position = IF off_in = Nowhere /\ i \in SlotsOf(open_files, in_fd)
                                THEN h.position + n ELSE h.position
  <2>1. CASE off_in = Nowhere /\ i \in SlotsOf(open_files, in_fd)
    BY <1>4, <1>6, <2>1, HandleMoved
  <2>2. CASE off_in = Nowhere /\ i \notin SlotsOf(open_files, in_fd)
    <3>1. i \in SlotsOf(open_files, out_fd) /\ out_fd # in_fd BY <1>5, <2>2
    <3>2. SameAt(open_files, handles, out_fd) BY <1>4, <2>2, <3>1, PositionSet
    <3> QED BY <2>2, <3>1, <3>2 DEF SameAt
  <2>3. CASE off_in # Nowhere BY <2>3
  <2> QED BY <2>1, <2>2, <2>3
<1>8. \A d : SlotsOf(handles, d) = SlotsOf(open_files, d)
  BY <1>4, PositionSet
<1>9. CASE off_out = Nowhere /\ i \in SlotsOf(open_files, out_fd)
  <2>1. i \in SlotsOf(handles, out_fd) BY <1>8, <1>9
  <2>2. /\ Get(handles, out_fd) = handles[i].val
        /\ open_files'[i].val.position = IF toEnd THEN end ELSE outFrom + n
    <3> HIDE DEF handles
    <3> QED BY <1>2, <1>3, <1>9, <2>1, HandleMoved
  <2>3. outFrom = IF call = "splice" THEN handles[i].val.position ELSE h.position
    BY <1>6, <1>9, <2>2 DEF OutFrom
  <2>4. h.position \in Nat /\ h = out BY <1>6, <1>9
  <2>5. CASE toEnd BY <1>9, <2>2, <2>4, <2>5 DEF end
  <2>6. CASE ~toEnd
    <3> HIDE DEF handles, toEnd, outFrom
    <3> QED BY <1>2, <1>3, <1>7, <2>2, <2>3, <2>4, <2>6
  <2> QED BY <2>5, <2>6
<1>10. CASE ~(off_out = Nowhere /\ i \in SlotsOf(open_files, out_fd))
  <2>1. open_files'[i] = handles[i]
    <3>1. CASE off_out # Nowhere BY <1>2, <3>1
    <3>2. CASE off_out = Nowhere
      <4>1. i \in SlotsOf(handles, in_fd) /\ in_fd # out_fd BY <1>5, <1>8, <1>10, <3>2
      <4>2. open_files' = Positioned(handles, out_fd, IF toEnd THEN end ELSE outFrom + n)
        BY <1>2, <3>2
      <4> HIDE DEF handles, toEnd, outFrom
      <4>3. SameAt(handles, open_files', in_fd) BY <1>3, <4>1, <4>2, PositionSet
      <4> QED BY <4>1, <4>3 DEF SameAt
    <3> QED BY <3>1, <3>2
  <2> QED BY <1>2, <1>5, <1>7, <1>10, <2>1
<1> QED BY <1>9, <1>10

\* An append leaves the descriptor at the end of the file, and what the file
\* held in its place.
LEMMA AppendedTo ==
  ASSUME IInv, NEW ino, HasKey(files, ino), NEW bytes \in Seq(Byte),
         files' = Update(files, ino, Overwritten(Get(files, ino), DataLen(files, ino), bytes))
  PROVE  /\ DataLen(files, ino) \in Nat
         /\ DataLen(files', ino) = DataLen(files, ino) + Len(bytes)
         /\ SubSeq(Get(files', ino), 1, DataLen(files, ino)) = Get(files, ino)
<1> DEFINE old == Get(files, ino)
           data == Overwritten(old, Len(old), bytes)
<1>1. old \in Seq(Byte) BY ContentType DEF IInv, FilesOK
<1>2. DataLen(files, ino) = Len(old) /\ Len(old) \in Nat BY <1>1, LenProperties DEF DataLen
<1>3. files' = Update(files, ino, data) BY <1>2
<1>4. Len(data) = Len(old) + Len(bytes) /\ SubSeq(data, 1, Len(old)) = old
  BY <1>1, OverwrittenAtEnd
<1> HIDE DEF data, old
<1>5. HasKey(files', ino) /\ Get(files', ino) = data
  <2> DEFINE K == Nat
             V == Seq(Byte)
  <2>1. IsMap(files, FilesCap, K, V) /\ FilesCap \in Nat BY ContentsMap, FsAssumption
  <2> HIDE DEF K, V
  <2> QED BY <1>3, <2>1, GetUpdated, UpdateKeepsKeys DEF HasKey
<1>6. DataLen(files', ino) = Len(data) BY <1>5 DEF DataLen
<1> QED BY <1>2, <1>4, <1>5, <1>6 DEF old

\* Offsets move by what the calls return, or to the end of the file.
THEOREM OffsetsFollowCalls == Spec => OffsetsFollowResults
<1> DEFINE A == last'.call \in {"read", "write", "sendfile", "splice"} /\ last'.val >= 0 =>
                  \A i \in HandleSlots(last'.fds) :
                    LET moved == open_files'[i].val.position - open_files[i].val.position
                    IN \/ moved = last'.val
                       \/ /\ open_files[i].val.append_mode
                          /\ open_files'[i].val.position
                               = DataLen(files', open_files[i].val.inode_number)
                       \/ last'.call = "splice" /\ moved = 2 * last'.val
<1>1. IInv /\ ContentsFit /\ [Next]_vars => [A]_vars
  <2> SUFFICES ASSUME IInv, ContentsFit, Next,
                      last'.call \in {"read", "write", "sendfile", "splice"}, last'.val >= 0,
                      NEW i \in HandleSlots(last'.fds)
               PROVE  LET pos == open_files'[i].val.position
                          h == open_files[i].val
                      IN \/ pos - h.position = last'.val
                         \/ h.append_mode /\ pos = DataLen(files', h.inode_number)
                         \/ last'.call = "splice" /\ pos - h.position = 2 * last'.val
    OBVIOUS
  <2> DEFINE h == open_files[i].val
             pos == open_files'[i].val.position
  <2>1. HandlesOK(open_files) BY HandlesOfDescriptors DEF IInv
  <2>2. OffsetCall(last'.call) BY CallsByName DEF OffsetCalls
  <2>3. ASSUME NEW fd, i \in SlotsOf(open_files, fd)
        PROVE  HandleAt(fd) = h /\ h.position \in Nat
    BY <2>1, <2>3, HandleMoved DEF HandleAt, Handle
  <2>4. CASE last'.call = "read"
    <3>1. PICK fd \in FdArg, count \in CountArg : Read(fd, count)
      BY <2>2, <2>4 DEF OffsetCall
    <3>2. ~Fails("read", <<>>) BY DEF Fails, Returns
    <3>3. /\ last'.fds = {fd}
          /\ open_files' = Positioned(open_files, fd, HandleAt(fd).position + last'.val)
          /\ last'.val \in Nat
      <4> DEFINE n == Available(ContentAt(fd), AsUsize(HandleAt(fd).position), count)
      <4>1. Accessible(fd) BY <3>1, <3>2 DEF Read
      <4>2. /\ open_files' = Positioned(open_files, fd, HandleAt(fd).position + n)
            /\ last'.val = n /\ last'.fds = {fd}
        BY <3>1, <3>2 DEF Read, Returns
      <4>3. n \in Nat
        <5>1. AsUsize(HandleAt(fd).position) \in Nat /\ ContentAt(fd) \in Seq(Byte)
          BY <4>1, AccessibleFacts, AsUsizeType
        <5> QED BY <5>1, ArgAssumption, AvailableType
      <4> HIDE DEF n
      <4> QED BY <4>2, <4>3
    <3>4. i \in SlotsOf(open_files, fd) BY <3>3, SlotsOfOne
    <3>5. pos = h.position + last'.val BY <2>1, <2>3, <3>3, <3>4, HandleMoved
    <3> HIDE DEF pos, h
    <3>6. h.position \in Nat BY <2>3, <3>4
    <3>7. pos - h.position = last'.val BY <3>3, <3>5, <3>6
    <3> QED BY <3>7 DEF pos, h
  <2>5. CASE last'.call = "write"
    <3>1. PICK fd \in FdArg, bytes \in Seq(Byte) : Write(fd, bytes)
      BY <2>2, <2>5, ArgAssumption DEF OffsetCall
    <3>2. /\ i \in SlotsOf(open_files, fd) /\ Accessible(fd) /\ HandleAt(fd) = h
          /\ files' = Update(files, h.inode_number,
                             Overwritten(ContentAt(fd), AsUsize(WriteStart(fd)), bytes))
          /\ ContentAt(fd) \in Seq(Byte)
          /\ AsUsize(Len(ContentAt(fd))) = Len(ContentAt(fd))
          /\ pos = WriteStart(fd) + Len(bytes)
          /\ last'.val = Len(bytes)
      BY <3>1, WriteMoves
    <3>3. h.position \in Nat /\ Len(bytes) \in Nat BY <2>3, <3>2, LenProperties
    <3>4. CASE h.append_mode
      <4> DEFINE ino == h.inode_number
      <4>1. HasKey(files, ino) /\ ContentAt(fd) = Get(files, ino)
        BY <3>2 DEF Accessible, ContentAt
      <4>2. WriteStart(fd) = DataLen(files, ino) /\ AsUsize(WriteStart(fd)) = DataLen(files, ino)
        BY <3>2, <3>4, <4>1 DEF WriteStart, DataLen
      <4> HIDE DEF ino, pos
      <4>3. files' = Update(files, ino, Overwritten(Get(files, ino), DataLen(files, ino), bytes))
        BY <3>2, <4>1, <4>2 DEF ino
      <4>4. pos = DataLen(files', ino)
        BY <3>2, <4>1, <4>2, <4>3, AppendedTo
      <4> QED BY <3>4, <4>4 DEF ino, pos
    <3>5. CASE ~h.append_mode
      <4>1. pos = h.position + last'.val BY <3>2, <3>5 DEF WriteStart
      <4> HIDE DEF pos, h
      <4>2. pos - h.position = last'.val BY <3>2, <3>3, <4>1
      <4> QED BY <4>2 DEF pos, h
    <3> QED BY <3>4, <3>5
  <2>6. ASSUME last'.call \in {"sendfile", "splice"},
               NEW in_fd, NEW off_in \in Int \cup {Nowhere},
               NEW out_fd, NEW off_out \in Int \cup {Nowhere}, NEW count \in Nat,
               Copy(last'.call, in_fd, off_in, out_fd, off_out, count)
        PROVE  \/ pos - h.position = last'.val
               \/ h.append_mode /\ pos = DataLen(files', h.inode_number)
               \/ last'.call = "splice" /\ pos - h.position = 2 * last'.val
    <3>1. /\ h.position \in Nat /\ last'.val \in Nat
          /\ \/ pos = h.position + last'.val
             \/ h.append_mode /\ pos = DataLen(files', h.inode_number)
             \/ last'.call = "splice" /\ pos = h.position + 2 * last'.val
      BY <2>6, CopyMoves
    <3> HIDE DEF pos, h
    <3> QED BY <3>1
  <2>7. Nowhere \in Int \cup {Nowhere} /\ OffsetArg \cup {Nowhere} \in SUBSET (Int \cup {Nowhere})
        /\ CountArg \in SUBSET Nat
    BY ArgAssumption
  <2>8. CASE last'.call = "sendfile"
    <3>1. PICK in, out \in FdArg, from \in OffsetArg \cup {Nowhere}, count \in CountArg :
             Copy("sendfile", in, from, out, Nowhere, count)
      BY <2>2, <2>8 DEF OffsetCall
    <3> QED BY <2>6, <2>7, <2>8, <3>1
  <2>9. CASE last'.call = "splice"
    <3>1. PICK in, out \in FdArg, from, to \in OffsetArg \cup {Nowhere}, count \in CountArg :
             Copy("splice", in, from, out, to, count)
      BY <2>2, <2>9 DEF OffsetCall
    <3> QED BY <2>6, <2>7, <2>9, <3>1
  <2> QED BY <2>4, <2>5, <2>8, <2>9
<1> QED BY <1>1, ContentsAlwaysFit, PTL DEF Spec, OffsetsFollowResults

\* An append to one content takes nothing from any.
LEMMA AppendKeeps ==
  ASSUME IInv, NEW out, HasKey(files, out), NEW bytes \in Seq(Byte),
         files' = Update(files, out, Overwritten(Get(files, out), DataLen(files, out), bytes)),
         NEW ino, HasKey(files, ino)
  PROVE  /\ DataLen(files', ino) >= DataLen(files, ino)
         /\ SubSeq(Get(files', ino), 1, DataLen(files, ino)) = Get(files, ino)
<1>1. CASE ino = out
  <2>1. DataLen(files, ino) \in Nat /\ Len(bytes) \in Nat BY LenProperties, ContentType DEF IInv, FilesOK
  <2>2. /\ DataLen(files', ino) = DataLen(files, ino) + Len(bytes)
        /\ SubSeq(Get(files', ino), 1, DataLen(files, ino)) = Get(files, ino)
    BY <1>1, AppendedTo
  <2> QED BY <2>1, <2>2
<1>2. CASE ino # out
  <2>1. HasKey(files', ino) /\ Get(files', ino) = Get(files, ino)
    <3> DEFINE K == Nat
               V == Seq(Byte)
               v == Overwritten(Get(files, out), DataLen(files, out), bytes)
    <3>1. IsMap(files, FilesCap, K, V) /\ FilesCap \in Nat BY ContentsMap, FsAssumption
    <3> HIDE DEF K, V, v
    <3>2. SameAt(files, files', ino) BY <1>2, <3>1, UpdateKeepsOthers
    <3> QED BY <3>1, <3>2, SameLookup
  <2>2. Get(files, ino) \in Seq(Byte) BY ContentType DEF IInv, FilesOK
  <2> DEFINE data == Get(files, ino)
  <2>3. /\ DataLen(files', ino) = Len(data) /\ DataLen(files, ino) = Len(data)
        /\ Get(files', ino) = data
    BY <2>1 DEF DataLen
  <2>4. data \in Seq(Byte) BY <2>2
  <2> HIDE DEF data
  <2>5. Len(data) \in Nat /\ SubSeq(data, 1, Len(data)) = data BY <2>4, LenProperties
  <2> QED BY <2>3, <2>5 DEF data
<1> QED BY <1>1, <1>2

\* A copy to a descriptor that appends, with no offset of the caller's, is one.
LEMMA CopyAppends ==
  ASSUME IInv, NEW call, NEW in_fd, NEW off_in \in Int \cup {Nowhere}, NEW out_fd,
         NEW count \in Nat, Copy(call, in_fd, off_in, out_fd, Nowhere, count), last'.fds # {}
  PROVE  /\ Accessible(out_fd) /\ out_fd \in last'.fds
         /\ HandleAt(out_fd).append_mode =>
              \E bytes \in Seq(Byte) :
                LET ino == HandleAt(out_fd).inode_number
                IN files' = Update(files, ino, Overwritten(Get(files, ino), DataLen(files, ino),
                                                           bytes))
<1> DEFINE in == HandleAt(in_fd)
           out == HandleAt(out_fd)
           readPos == AsUsize(IF off_in = Nowhere THEN in.position ELSE off_in)
           n == Min({count, Len(ContentAt(in_fd)) - readPos})
           part == SubSeq(ContentAt(in_fd), readPos + 1, readPos + n)
<1>1. ~Fails(call, <<>>) /\ ~Panics(call, <<>>) BY DEF Fails, Panics, Returns
<1>2. /\ Accessible(in_fd) /\ Accessible(out_fd) /\ readPos < Len(ContentAt(in_fd))
      /\ out_fd \in last'.fds
      /\ out.append_mode =>
           files' = Update(files, out.inode_number,
                           Overwritten(ContentAt(out_fd), Len(ContentAt(out_fd)), part))
  BY <1>1 DEF Copy, Returns
<1>3. part \in Seq(Byte) BY <1>2, CopyFacts
<1>4. /\ ContentAt(out_fd) = Get(files, out.inode_number)
      /\ Len(ContentAt(out_fd)) = DataLen(files, out.inode_number)
  BY <1>2 DEF ContentAt, Accessible, DataLen
<1> QED BY <1>2, <1>3, <1>4

\* A file that is written to by appending alone loses nothing.
THEOREM AppendsLoseNothing == Spec => AppendsKeepContents
<1> DEFINE Kept(ino) == HasKey(files, ino) =>
                          /\ DataLen(files', ino) >= DataLen(files, ino)
                          /\ SubSeq(Get(files', ino), 1, DataLen(files, ino)) = Get(files, ino)
           A == /\ last'.call \in {"write", "sendfile"}
                /\ \A i \in HandleSlots(last'.fds) : open_files[i].val.append_mode
                => \A i \in HandleSlots(last'.fds) : Kept(open_files[i].val.inode_number)
<1>1. IInv /\ ContentsFit /\ [Next]_vars => [A]_vars
  <2> SUFFICES ASSUME IInv, ContentsFit, Next, last'.call \in {"write", "sendfile"},
                      \A i \in HandleSlots(last'.fds) : open_files[i].val.append_mode,
                      NEW i \in HandleSlots(last'.fds), NEW ino
               PROVE  Kept(ino)
    OBVIOUS
  <2>1. HandlesOK(open_files) BY HandlesOfDescriptors DEF IInv
  <2>2. OffsetCall(last'.call) BY CallsByName DEF OffsetCalls
  <2>3. ASSUME NEW out, HasKey(files, out), NEW bytes \in Seq(Byte),
               files' = Update(files, out, Overwritten(Get(files, out), DataLen(files, out), bytes))
        PROVE  Kept(ino)
    BY <2>3, AppendKeeps
  <2> HIDE DEF Kept
  <2>4. CASE last'.call = "write"
    <3>1. PICK fd \in FdArg, bytes \in Seq(Byte) : Write(fd, bytes)
      BY <2>2, <2>4, ArgAssumption DEF OffsetCall
    <3> DEFINE h == open_files[i].val
    <3>2. /\ Accessible(fd) /\ HandleAt(fd) = h /\ h.append_mode
          /\ files' = Update(files, h.inode_number,
                             Overwritten(ContentAt(fd), AsUsize(WriteStart(fd)), bytes))
          /\ AsUsize(Len(ContentAt(fd))) = Len(ContentAt(fd))
      BY <3>1, WriteMoves
    <3>3. /\ HasKey(files, h.inode_number) /\ ContentAt(fd) = Get(files, h.inode_number)
          /\ AsUsize(WriteStart(fd)) = DataLen(files, h.inode_number)
      BY <3>2 DEF Accessible, ContentAt, WriteStart, DataLen
    <3> HIDE DEF h
    <3> QED BY <2>3, <3>2, <3>3
  <2>5. CASE last'.call = "sendfile"
    <3>1. PICK in, out \in FdArg, from \in OffsetArg \cup {Nowhere}, count \in CountArg :
             Copy("sendfile", in, from, out, Nowhere, count)
      BY <2>2, <2>5 DEF OffsetCall
    <3>2. last'.fds # {} BY DEF HandleSlots
    <3>3. from \in Int \cup {Nowhere} /\ count \in Nat BY <3>1, ArgAssumption
    <3>4. Accessible(out) /\ out \in last'.fds BY <3>1, <3>2, <3>3, CopyAppends
    <3>5. PICK s \in SlotsOf(open_files, out) : TRUE BY <3>4 DEF Accessible, HasKey
    <3>6. s \in HandleSlots(last'.fds) BY <3>4, <3>5 DEF HandleSlots, SlotsOf
    <3>7. HandleAt(out).append_mode BY <2>1, <3>5, <3>6, HandleMoved DEF HandleAt
    <3>8. PICK bytes \in Seq(Byte) :
             LET o == HandleAt(out).inode_number
             IN files' = Update(files, o, Overwritten(Get(files, o), DataLen(files, o), bytes))
      BY <3>1, <3>2, <3>3, <3>7, CopyAppends
    <3> QED BY <2>3, <3>4, <3>8 DEF Accessible
  <2> QED BY <2>4, <2>5
<1> QED BY <1>1, ContentsAlwaysFit, PTL DEF Spec, AppendsKeepContents
=============================================================================
