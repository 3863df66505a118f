------------------------------ MODULE VfsProofs ------------------------------
(***************************************************************************)
(* The invariant of TableProofs is kept by every call, and what follows:   *)
(* the type invariant, the agreement of the tables with one another, and   *)
(* the permanence of inodes.  The calls of FileIO come first: whatever     *)
(* offsets and counts they are given, they assign only to contents that    *)
(* there are, to positions and to sizes.                                   *)
(***************************************************************************)
EXTENDS TableProofs, FiniteSetTheorems

LEMMA MaxOfTwo ==
  ASSUME NEW m \in Nat, NEW n \in Nat
  PROVE  /\ Max({m, n}) \in Nat
         /\ Max({m, n}) \in {m, n} /\ Max({m, n}) >= m /\ Max({m, n}) >= n
<1>1. \E x \in {m, n} : \A y \in {m, n} : x >= y
  <2>1. CASE m >= n BY <2>1
  <2>2. CASE n >= m BY <2>2
  <2> QED BY <2>1, <2>2
<1> QED BY <1>1 DEF Max

LEMMA AsUsizeType == ASSUME NEW n \in Int PROVE AsUsize(n) \in Nat
  BY IOAssumption DEF AsUsize

LEMMA ResizedType ==
  ASSUME NEW data \in Seq(Byte), NEW len \in Nat
  PROVE  Resized(data, len) \in Seq(Byte) /\ DOMAIN Resized(data, len) = 1..len
<1>1. \A i \in 1..Len(data) : data[i] \in Byte BY ElementOfSeq
<1>2. Resized(data, len) \in [1..len -> Byte]
  BY <1>1, LenProperties, IOAssumption DEF Resized
<1> QED BY <1>2, SeqDef

\* However far beyond the end it starts.
LEMMA OverwrittenFacts ==
  ASSUME NEW data \in Seq(Byte), NEW pos \in Nat, NEW bytes \in Seq(Byte)
  PROVE  /\ Overwritten(data, pos, bytes) \in Seq(Byte)
         /\ Len(Overwritten(data, pos, bytes)) = Max({Len(data), pos + Len(bytes)})
<1> DEFINE len == Max({Len(data), pos + Len(bytes)})
           grown == Resized(data, len)
<1>1. Len(data) \in Nat /\ Len(bytes) \in Nat BY LenProperties
<1>2. len \in Nat BY <1>1, MaxOfTwo
<1>3. grown \in Seq(Byte) /\ DOMAIN grown = 1..len BY <1>2, ResizedType
<1>4. \A i \in 1..Len(bytes) : bytes[i] \in Byte BY ElementOfSeq
<1>5. \A i \in DOMAIN grown : grown[i] \in Byte
  BY <1>2, <1>3, ElementOfSeq, LenProperties
<1>6. Overwritten(data, pos, bytes)
        = [i \in 1..len |-> IF i > pos /\ i <= pos + Len(bytes)
                            THEN bytes[i - pos] ELSE grown[i]]
  BY <1>3 DEF Overwritten
<1> HIDE DEF len, grown
<1>7. Overwritten(data, pos, bytes) \in [1..len -> Byte]
  <2>1. ASSUME NEW i \in 1..len
        PROVE  (IF i > pos /\ i <= pos + Len(bytes) THEN bytes[i - pos] ELSE grown[i]) \in Byte
    BY <1>1, <1>2, <1>3, <1>4, <1>5
  <2> QED BY <1>6, <2>1
<1>8. Overwritten(data, pos, bytes) \in Seq(Byte) BY <1>2, <1>7, SeqDef
<1>9. Len(Overwritten(data, pos, bytes)) = len BY <1>2, <1>7, <1>8, LenProperties
<1> QED BY <1>8, <1>9 DEF len

\* Bytes that go to the end leave the others as they are.
LEMMA OverwrittenAtEnd ==
  ASSUME NEW data \in Seq(Byte), NEW bytes \in Seq(Byte)
  PROVE  LET r == Overwritten(data, Len(data), bytes)
         IN Len(r) = Len(data) + Len(bytes) /\ SubSeq(r, 1, Len(data)) = data
<1> DEFINE len == Len(data)
           n == Len(bytes)
           r == Overwritten(data, len, bytes)
           grown == Resized(data, Max({len, len + n}))
<1>1. len \in Nat /\ n \in Nat BY LenProperties
<1>2. Max({len, len + n}) = len + n BY <1>1, MaxOfTwo
<1>3. r \in Seq(Byte) /\ Len(r) = len + n BY <1>1, <1>2, OverwrittenFacts
<1>4. DOMAIN r = 1..(len + n) BY <1>3, LenProperties
<1>5. \A i \in DOMAIN r : r[i] = IF i > len /\ i <= len + n THEN bytes[i - len] ELSE grown[i]
  BY DEF Overwritten
<1>6. \A i \in 1..len : grown[i] = data[i] BY <1>1, <1>2 DEF Resized
<1> HIDE DEF r, grown
<1>7. \A i \in 1..len : r[i] = data[i] BY <1>1, <1>4, <1>5, <1>6
<1> DEFINE q == SubSeq(r, 1, len)
<1>8. /\ q \in Seq(Byte) /\ Len(q) = len
      /\ \A i \in 1..len : q[i] = r[i]
  BY <1>1, <1>3, <1>4, SubSeqProperties, ElementOfSeq
<1> HIDE DEF q, len
<1>9. q = data BY <1>7, <1>8, SeqEqual DEF len
<1> QED BY <1>3, <1>9 DEF r, q, len, n

\* An inode is rewritten, but for its number and kind.
LEMMA AfterRewriting ==
  ASSUME InodesOK, NEW ino \in Nat, InodeExists(ino), NEW new \in Inode,
         new.number = InodeAt(ino).number, new.kind = InodeAt(ino).kind,
         inodes' = [inodes EXCEPT ![ino + 1] = new], UNCHANGED next_inode_number
  PROVE  InodesOK' /\ Grows
<1>1. inodes \in Seq(Inode) /\ Len(inodes) \in Nat /\ ino < Len(inodes)
  BY LenProperties DEF InodesOK, InodeExists
<1>2. /\ inodes' \in Seq(Inode) /\ Len(inodes') = Len(inodes)
      /\ \A i \in 1..Len(inodes) : inodes'[i] = IF i = ino + 1 THEN new ELSE inodes[i]
  BY <1>1, ExceptSeq
<1>3. \A n \in 0..(Len(inodes) - 1) : /\ inodes'[n + 1].number = inodes[n + 1].number
                                      /\ inodes'[n + 1].kind = inodes[n + 1].kind
  BY <1>1, <1>2 DEF InodeAt
<1>4. Grows BY <1>1, <1>2, <1>3 DEF Grows
<1>5. NumbersAreIndices'
  BY <1>1, <1>2, <1>3 DEF InodesOK, NumbersAreIndices, InodeAt
<1> QED BY <1>2, <1>4, <1>5 DEF InodesOK

\* The size of an inode is set.
LEMMA AfterSizeRefreshed ==
  ASSUME InodesOK, NEW ino \in Nat, InodeExists(ino), DataLen(files', ino) \in Nat,
         SizeRefreshed(ino), UNCHANGED next_inode_number
  PROVE  InodesOK' /\ Grows
<1> DEFINE s == DataLen(files', ino)
<1>1. inodes' = [inodes EXCEPT ![ino + 1].size = s] /\ s \in Nat BY DEF SizeRefreshed
<1>2. inodes[ino + 1] \in Inode
  BY LenProperties, ElementOfSeq DEF InodesOK, InodeExists
<1> HIDE DEF s
<1> DEFINE new == [inodes[ino + 1] EXCEPT !.size = s]
<1>3. new \in Inode /\ new.number = InodeAt(ino).number /\ new.kind = InodeAt(ino).kind
  BY <1>1, <1>2 DEF Inode, InodeAt
<1>4. inodes' = [inodes EXCEPT ![ino + 1] = new] BY <1>1
<1> HIDE DEF new
<1> QED BY <1>3, <1>4, AfterRewriting

-----------------------------------------------------------------------------
(* Handles                                                                 *)

HandlesOK(handles) ==
  /\ IsMap(handles, OpenFilesCap, Fd, Handle)
  /\ UniqueKeys(handles)
  /\ \A i \in DOMAIN handles :
       /\ handles[i].key \in DOMAIN fd_table
       /\ handles[i].val.inode_number = fd_table[handles[i].key]

LEMMA HandlesOfDescriptors == DescriptorsOK => HandlesOK(open_files)
  BY DEF DescriptorsOK, HandlesMatchTable, HandlesOK

LEMMA PositionedHandles ==
  ASSUME NEW handles, HandlesOK(handles), NEW fd, HasKey(handles, fd), NEW pos \in Nat
  PROVE  /\ HandlesOK(Positioned(handles, fd, pos))
         /\ \A d : HasKey(handles, d) => HasKey(Positioned(handles, fd, pos), d)
<1> DEFINE s == Min(SlotsOf(handles, fd))
           v == [Get(handles, fd) EXCEPT !.position = pos]
           r == Update(handles, fd, v)
<1>1. IsMap(handles, OpenFilesCap, Fd, Handle) /\ OpenFilesCap \in Nat
  BY ProcAssumption DEF HandlesOK
<1>2. /\ s \in DOMAIN handles /\ handles[s].key = fd /\ Get(handles, fd) \in Handle
      /\ Get(handles, fd) = handles[s].val
  BY <1>1, FirstSlot DEF Get
<1>3. v \in Handle /\ v.inode_number = fd_table[fd]
  BY <1>2 DEF Handle, HandlesOK
<1> HIDE DEF s, v
<1>4. /\ IsMap(r, OpenFilesCap, Fd, Handle) /\ DOMAIN r = DOMAIN handles
      /\ \A i \in DOMAIN handles :
           /\ r[i].key = handles[i].key
           /\ r[i] = handles[i] \/ (handles[i].key = fd /\ r[i].val = v)
      /\ UniqueKeys(r)
  BY <1>1, <1>3, UpdateProperties DEF HandlesOK
<1>5. Positioned(handles, fd, pos) = r BY DEF Positioned, v
<1> HIDE DEF r
<1>6. HandlesOK(r) BY <1>3, <1>4 DEF HandlesOK
<1>7. \A d : HasKey(handles, d) => HasKey(r, d)
  BY <1>4 DEF HasKey, SlotsOf
<1> QED BY <1>5, <1>6, <1>7

\* What a descriptor leads to.
LEMMA AccessibleFacts ==
  ASSUME IInv, NEW fd, Accessible(fd)
  PROVE  /\ HandleAt(fd) \in Handle
         /\ HandleAt(fd).inode_number \in Nat /\ HandleAt(fd).position \in Nat
         /\ InodeExists(HandleAt(fd).inode_number)
         /\ ContentAt(fd) \in Seq(Byte)
<1>1. HasKey(open_files, fd) /\ HasKey(files, HandleAt(fd).inode_number) BY DEF Accessible
<1>2. HandleAt(fd) \in Handle /\ InodeExists(HandleAt(fd).inode_number)
  BY <1>1, HandleOf DEF IInv, DescriptorsOK, HandleAt
<1>3. ContentAt(fd) \in Seq(Byte)
  BY <1>1, ContentType DEF IInv, FilesOK, ContentAt
<1> QED BY <1>2, <1>3 DEF Handle

\* A step that assigns to one content at most, with the size of its inode, and
\* to positions.
LEMMA IOStep ==
  ASSUME IInv, NEW ino \in Nat, InodeExists(ino),
         files' = files \/ (\E d \in Seq(Byte) : files' = Update(files, ino, d)),
         UNCHANGED inodes \/ SizeRefreshed(ino),
         HandlesOK(open_files'),
         UNCHANGED <<next_inode_number, current_directory, path_map>>,
         UNCHANGED <<fd_table, umask_value, trapped>>
  PROVE  IInv' /\ Grows
<1>1. Len(inodes) \in Nat BY LenProperties DEF IInv, InodesOK
<1>2. ContentsOK(files', Len(inodes))
  BY <1>1, ContentsAfterUpdate DEF IInv, FilesOK
<1>3. DataLen(files', ino) \in Nat BY <1>2, ContentType
<1>4. InodesOK' /\ Grows
  <2>1. CASE UNCHANGED inodes
    BY <2>1, GrowsWhenUnchanged DEF IInv, InodesOK, NumbersAreIndices, InodeAt
  <2>2. CASE SizeRefreshed(ino) BY <1>3, <2>2, AfterSizeRefreshed DEF IInv
  <2> QED BY <2>1, <2>2
<1>5. Len(inodes') = Len(inodes)
  BY <1>4 DEF IInv, InodesOK, NumbersAreIndices
<1>6. PathsOK' BY <1>4, PathsKept DEF IInv
<1>7. FilesOK' BY <1>2, <1>5 DEF FilesOK
<1>8. DescriptorsOK'
  <2>1. \A d \in DOMAIN fd_table : InodeExists(fd_table[d])'
    BY <1>4, DescriptorsNotDangling DEF IInv
  <2> QED BY <2>1 DEF IInv, DescriptorsOK, HandlesOK, HandlesMatchTable
<1> QED BY <1>4, <1>6, <1>7, <1>8 DEF IInv, CwdOK, FlagsOK

\* A call that returns -1 early, or panics before it has changed anything.
LEMMA FailStep ==
  ASSUME IInv, NEW call, NEW names, Fails(call, names) \/ Panics(call, names)
  PROVE  IInv' /\ Grows
  BY QuietStep DEF Fails, Panics, Returns, IInv, FlagsOK

-----------------------------------------------------------------------------
(* One lemma for each action                                               *)

\* How far a read gets.
LEMMA AvailableType ==
  ASSUME NEW data \in Seq(Byte), NEW pos \in Nat, NEW count \in Nat
  PROVE  Available(data, pos, count) \in Nat
<1>1. Len(data) \in Nat BY LenProperties
<1>2. CASE pos < Len(data)
  <2> DEFINE s == {count, Len(data) - pos}
  <2>1. s \in SUBSET Nat /\ s # {} BY <1>1, <1>2
  <2>2. Min(s) \in s BY <2>1, MinOfNats
  <2> QED BY <1>1, <1>2, <2>1, <2>2 DEF Available
<1> QED BY <1>1, <1>2 DEF Available

LEMMA ReadStep ==
  ASSUME IInv, NEW fd, NEW count \in Nat, Read(fd, count)
  PROVE  IInv' /\ Grows
<1>1. CASE Fails("read", <<>>) BY <1>1, FailStep
<1>2. CASE ~Fails("read", <<>>)
  <2> DEFINE h == HandleAt(fd)
             n == Available(ContentAt(fd), AsUsize(h.position), count)
  <2>1. /\ Accessible(fd) /\ open_files' = Positioned(open_files, fd, h.position + n)
        /\ UNCHANGED <<inodes, next_inode_number, current_directory, files, path_map>>
        /\ UNCHANGED <<fd_table, umask_value, trapped>>
    BY <1>2 DEF Read, Returns
  <2>2. h.position \in Nat /\ ContentAt(fd) \in Seq(Byte) BY <2>1, AccessibleFacts
  <2>3. n \in Nat
    <3> DEFINE pos == h.position
    <3>1. pos \in Int BY <2>2
    <3> HIDE DEF pos
    <3>2. AsUsize(pos) \in Nat BY <3>1, AsUsizeType
    <3> QED BY <2>2, <3>2, AvailableType DEF pos
  <2>4. HandlesOK(open_files) /\ HasKey(open_files, fd)
    BY <2>1, HandlesOfDescriptors DEF IInv, Accessible
  <2> HIDE DEF h, n
  <2>5. HandlesOK(open_files') BY <2>1, <2>2, <2>3, <2>4, PositionedHandles
  <2>6. PICK ino \in Nat : InodeExists(ino) BY <2>1, AccessibleFacts
  <2> QED BY <2>1, <2>5, <2>6, IOStep
<1> QED BY <1>1, <1>2

LEMMA WriteStep ==
  ASSUME IInv, NEW fd, NEW bytes \in Seq(Byte), Write(fd, bytes)
  PROVE  IInv' /\ Grows
<1>1. CASE Fails("write", <<>>) \/ Panics("write", <<>>) BY <1>1, FailStep
<1>2. CASE ~(Fails("write", <<>>) \/ Panics("write", <<>>))
  <2>1. Accessible(fd) BY <1>2 DEF Write
  <2>2. PICK ino \in Nat : ino = HandleAt(fd).inode_number /\ InodeExists(ino)
    BY <2>1, AccessibleFacts
  <2>3. /\ files' = Update(files, ino,
                           Overwritten(ContentAt(fd), AsUsize(WriteStart(fd)), bytes))
        /\ SizeRefreshed(ino)
        /\ open_files' = Positioned(open_files, fd, WriteStart(fd) + Len(bytes))
        /\ UNCHANGED <<next_inode_number, current_directory, path_map>>
        /\ UNCHANGED <<fd_table, umask_value, trapped>>
    BY <1>2, <2>2 DEF Write, Returns
  <2>4. ContentAt(fd) \in Seq(Byte) /\ WriteStart(fd) \in Nat
    BY <2>1, AccessibleFacts, LenProperties DEF WriteStart
  <2>5. Overwritten(ContentAt(fd), AsUsize(WriteStart(fd)), bytes) \in Seq(Byte)
    <3>1. AsUsize(WriteStart(fd)) \in Nat BY <2>4, AsUsizeType
    <3> QED BY <2>4, <3>1, OverwrittenFacts
  <2>6. HandlesOK(open_files) /\ HasKey(open_files, fd)
    BY <2>1, HandlesOfDescriptors DEF IInv, Accessible
  <2>7. WriteStart(fd) + Len(bytes) \in Nat BY <2>4, LenProperties
  <2>8. HandlesOK(open_files') BY <2>3, <2>6, <2>7, PositionedHandles
  <2> QED BY <2>2, <2>3, <2>5, <2>8, IOStep
<1> QED BY <1>1, <1>2

LEMMA Pread64Step ==
  ASSUME IInv, NEW fd, NEW count, NEW offset, Pread64(fd, count, offset)
  PROVE  IInv' /\ Grows
<1>1. CASE Fails("pread64", <<>>) BY <1>1, FailStep
<1>2. CASE ~Fails("pread64", <<>>)
  BY <1>2, QuietStep DEF Pread64, Returns, IInv, FlagsOK
<1> QED BY <1>1, <1>2

LEMMA Pwrite64Step ==
  ASSUME IInv, NEW fd, NEW bytes \in Seq(Byte), NEW offset \in Int,
         Pwrite64(fd, bytes, offset)
  PROVE  IInv' /\ Grows
<1>1. CASE Fails("pwrite64", <<>>) \/ Panics("pwrite64", <<>>) BY <1>1, FailStep
<1>2. CASE ~(Fails("pwrite64", <<>>) \/ Panics("pwrite64", <<>>))
  <2>1. Accessible(fd) BY <1>2 DEF Pwrite64
  <2>2. PICK ino \in Nat : ino = HandleAt(fd).inode_number /\ InodeExists(ino)
    BY <2>1, AccessibleFacts
  <2>3. /\ files' = Update(files, ino, Overwritten(ContentAt(fd), AsUsize(offset), bytes))
        /\ SizeRefreshed(ino)
        /\ UNCHANGED <<next_inode_number, current_directory, path_map>>
        /\ UNCHANGED <<fd_table, open_files, umask_value, trapped>>
    BY <1>2, <2>2 DEF Pwrite64, Returns
  <2>4. ContentAt(fd) \in Seq(Byte) BY <2>1, AccessibleFacts
  <2>5. Overwritten(ContentAt(fd), AsUsize(offset), bytes) \in Seq(Byte)
    BY <2>4, AsUsizeType, OverwrittenFacts
  <2>6. HandlesOK(open_files')
    BY <2>3, HandlesOfDescriptors DEF IInv, HandlesOK
  <2> QED BY <2>2, <2>3, <2>5, <2>6, IOStep
<1> QED BY <1>1, <1>2

LEMMA LseekStep ==
  ASSUME IInv, NEW fd, NEW offset \in Int, NEW whence, Lseek(fd, offset, whence)
  PROVE  IInv' /\ Grows
<1> DEFINE sum == SeekFrom(fd, whence) + offset
<1>1. CASE Fails("lseek", <<>>) \/ Panics("lseek", <<>>) BY <1>1, FailStep
<1>2. CASE Accessible(fd) /\ sum \in 0..MaxPosition /\ Seeks(fd, sum)
  <2> HIDE DEF sum
  <2>1. PICK pos \in Nat : pos = sum BY <1>2, IOAssumption
  <2>2. /\ open_files' = Positioned(open_files, fd, pos)
        /\ UNCHANGED <<inodes, next_inode_number, current_directory, files, path_map>>
        /\ UNCHANGED <<fd_table, umask_value, trapped>>
    BY <1>2, <2>1 DEF Seeks, Returns
  <2>3. HandlesOK(open_files) /\ HasKey(open_files, fd)
    BY <1>2, HandlesOfDescriptors DEF IInv, Accessible
  <2>4. HandlesOK(open_files') BY <2>2, <2>3, PositionedHandles
  <2>5. PICK ino \in Nat : InodeExists(ino) BY <1>2, AccessibleFacts
  <2> QED BY <2>2, <2>4, <2>5, IOStep
<1> QED BY <1>1, <1>2 DEF Lseek

LEMMA SetFileSizeStep ==
  ASSUME IInv, NEW ino \in Nat, InodeExists(ino), NEW len \in Nat, NEW call, NEW names,
         SetFileSize(ino, len, call, names)
  PROVE  IInv' /\ Grows
<1>1. CASE Panics(call, names) BY <1>1, FailStep
<1>2. CASE ~Panics(call, names)
  <2>1. /\ files' = Update(files, ino, Resized(Get(files, ino), len))
        /\ SizeRefreshed(ino)
        /\ UNCHANGED <<next_inode_number, current_directory, path_map>>
        /\ UNCHANGED <<fd_table, open_files, umask_value, trapped>>
    BY <1>2 DEF SetFileSize, Returns
  <2>2. HandlesOK(open_files')
    BY <2>1, HandlesOfDescriptors DEF IInv, HandlesOK
  <2>3. CASE HasKey(files, ino)
    <3>1. Get(files, ino) \in Seq(Byte) BY <2>3, ContentType DEF IInv, FilesOK
    <3>2. Resized(Get(files, ino), len) \in Seq(Byte) BY <3>1, ResizedType
    <3> QED BY <2>1, <2>2, <3>2, IOStep
  <2>4. CASE ~HasKey(files, ino)
    <3>1. files' = files BY <2>1, <2>4 DEF Update
    <3> QED BY <2>1, <2>2, <3>1, IOStep
  <2> QED BY <2>3, <2>4
<1> QED BY <1>1, <1>2

LEMMA TruncateStep ==
  ASSUME IInv, NEW path \in Path, NEW length \in Int, Truncate(path, length)
  PROVE  IInv' /\ Grows
<1>1. CASE Fails("truncate", <<Absolute(path)>>) BY <1>1, FailStep
<1>2. CASE ~Fails("truncate", <<Absolute(path)>>)
  <2>1. PICK ino \in Nat : ino = InodeOf(Absolute(path)) /\ InodeExists(ino)
    BY <1>2, LookupExists DEF IInv, Truncate
  <2>2. SetFileSize(ino, AsUsize(length), "truncate", <<Absolute(path)>>)
    BY <1>2, <2>1 DEF Truncate
  <2> QED BY <2>1, <2>2, AsUsizeType, SetFileSizeStep
<1> QED BY <1>1, <1>2

LEMMA FtruncateStep ==
  ASSUME IInv, NEW fd, NEW length \in Int, Ftruncate(fd, length)
  PROVE  IInv' /\ Grows
<1>1. CASE Fails("ftruncate", <<>>) BY <1>1, FailStep
<1>2. CASE ~Fails("ftruncate", <<>>)
  <2>1. PICK ino \in Nat : ino = fd_table[fd] /\ InodeExists(ino)
    BY <1>2 DEF Ftruncate, IInv, DescriptorsOK
  <2>2. SetFileSize(ino, AsUsize(length), "ftruncate", <<>>)
    BY <1>2, <2>1 DEF Ftruncate
  <2> QED BY <2>1, <2>2, AsUsizeType, SetFileSizeStep
<1> QED BY <1>1, <1>2

LEMMA FallocateStep ==
  ASSUME IInv, NEW fd, NEW offset \in Int, NEW len \in Int, Fallocate(fd, offset, len)
  PROVE  IInv' /\ Grows
<1>1. CASE Fails("fallocate", <<>>) \/ Panics("fallocate", <<>>) BY <1>1, FailStep
<1>2. CASE ~(Fails("fallocate", <<>>) \/ Panics("fallocate", <<>>))
  <2>1. PICK ino \in Nat : ino = fd_table[fd] /\ InodeExists(ino)
    BY <1>2 DEF Fallocate, IInv, DescriptorsOK
  <2> DEFINE end == Max({AsUsize(offset + len), DataLen(files, ino)})
  <2>2. /\ HasKey(files, ino)
        /\ files' = Update(files, ino, Resized(Get(files, ino), end))
        /\ SizeRefreshed(ino)
        /\ UNCHANGED <<next_inode_number, current_directory, path_map>>
        /\ UNCHANGED <<fd_table, open_files, umask_value, trapped>>
    BY <1>2, <2>1 DEF Fallocate, Returns
  <2>3. Get(files, ino) \in Seq(Byte) /\ DataLen(files, ino) \in Nat
    BY <2>2, ContentType DEF IInv, FilesOK
  <2>4. end \in Nat
    <3>1. AsUsize(offset + len) \in Nat BY AsUsizeType
    <3> QED BY <2>3, <3>1, MaxOfTwo
  <2> HIDE DEF end
  <2>5. Resized(Get(files, ino), end) \in Seq(Byte) BY <2>3, <2>4, ResizedType
  <2>6. HandlesOK(open_files')
    BY <2>2, HandlesOfDescriptors DEF IInv, HandlesOK
  <2> QED BY <2>1, <2>2, <2>5, <2>6, IOStep
<1> QED BY <1>1, <1>2

\* What a copy computes before it assigns: how much, from what, to where.
LEMMA CopyFacts ==
  ASSUME IInv, NEW call, NEW in_fd, NEW off_in \in Int \cup {Nowhere},
         NEW out_fd, NEW off_out \in Int \cup {Nowhere}, NEW count \in Nat,
         Accessible(in_fd), Accessible(out_fd)
  PROVE  LET in == HandleAt(in_fd)
             out == HandleAt(out_fd)
             readPos == AsUsize(IF off_in = Nowhere THEN in.position ELSE off_in)
             toEnd == out.append_mode /\ off_out = Nowhere
             writePos == IF toEnd THEN Len(ContentAt(out_fd))
                         ELSE AsUsize(IF off_out = Nowhere THEN out.position ELSE off_out)
             n == Min({count, Len(ContentAt(in_fd)) - readPos})
             handles == IF off_in = Nowhere
                        THEN Positioned(open_files, in_fd, in.position + n) ELSE open_files
             part == SubSeq(ContentAt(in_fd), readPos + 1, readPos + n)
         IN readPos < Len(ContentAt(in_fd)) =>
              /\ n \in Nat /\ writePos \in Nat /\ part \in Seq(Byte) /\ Len(part) = n
              /\ Overwritten(ContentAt(out_fd), writePos, part) \in Seq(Byte)
              /\ HandlesOK(handles) /\ HasKey(handles, out_fd)
              /\ OutFrom(call, handles, out_fd) \in Nat
<1> USE IOAssumption
<1> DEFINE in == HandleAt(in_fd)
           out == HandleAt(out_fd)
           readPos == AsUsize(IF off_in = Nowhere THEN in.position ELSE off_in)
           toEnd == out.append_mode /\ off_out = Nowhere
           writePos == IF toEnd THEN Len(ContentAt(out_fd))
                       ELSE AsUsize(IF off_out = Nowhere THEN out.position ELSE off_out)
           n == Min({count, Len(ContentAt(in_fd)) - readPos})
           handles == IF off_in = Nowhere
                      THEN Positioned(open_files, in_fd, in.position + n) ELSE open_files
           part == SubSeq(ContentAt(in_fd), readPos + 1, readPos + n)
           data == Overwritten(ContentAt(out_fd), writePos, part)
<1> SUFFICES ASSUME readPos < Len(ContentAt(in_fd))
             PROVE  /\ n \in Nat /\ writePos \in Nat /\ part \in Seq(Byte) /\ Len(part) = n
                    /\ data \in Seq(Byte)
                    /\ HandlesOK(handles) /\ HasKey(handles, out_fd)
                    /\ OutFrom(call, handles, out_fd) \in Nat
  OBVIOUS
<1>1. /\ in \in Handle /\ in.position \in Nat /\ ContentAt(in_fd) \in Seq(Byte)
      /\ out \in Handle /\ out.position \in Nat /\ ContentAt(out_fd) \in Seq(Byte)
      /\ Len(ContentAt(in_fd)) \in Nat /\ Len(ContentAt(out_fd)) \in Nat
  BY AccessibleFacts, LenProperties
<1>2. readPos \in Nat /\ writePos \in Nat
  <2> DEFINE from == IF off_in = Nowhere THEN in.position ELSE off_in
             to == IF off_out = Nowhere THEN out.position ELSE off_out
  <2>1. from \in Int /\ to \in Int BY <1>1
  <2> HIDE DEF from, to
  <2>2. AsUsize(from) \in Nat /\ AsUsize(to) \in Nat BY <2>1, AsUsizeType
  <2> QED BY <1>1, <2>2 DEF from, to
<1>3. n \in Nat /\ n <= Len(ContentAt(in_fd)) - readPos
  <2> DEFINE s == {count, Len(ContentAt(in_fd)) - readPos}
  <2>1. s \in SUBSET Nat /\ s # {} BY <1>1, <1>2
  <2>2. Min(s) \in s /\ \A m \in s : Min(s) <= m BY <2>1, MinOfNats
  <2> QED BY <2>1, <2>2
<1> HIDE DEF in, out, readPos, toEnd, writePos, n
<1>4. part \in Seq(Byte) /\ Len(part) = n BY <1>1, <1>2, <1>3, SubSeqProperties
<1> HIDE DEF part
<1>5. data \in Seq(Byte) BY <1>1, <1>2, <1>4, OverwrittenFacts
<1> HIDE DEF data
<1>6. HandlesOK(open_files) /\ HasKey(open_files, in_fd) /\ HasKey(open_files, out_fd)
  BY HandlesOfDescriptors DEF IInv, Accessible
<1>7. HandlesOK(handles) /\ HasKey(handles, out_fd)
  <2>1. CASE off_in = Nowhere
    <3>1. in.position + n \in Nat BY <1>1, <1>3
    <3>2. HandlesOK(handles) BY <1>6, <2>1, <3>1, PositionedHandles
    <3>3. HasKey(handles, out_fd) BY <1>6, <2>1, <3>1, PositionedHandles
    <3> QED BY <3>2, <3>3
  <2> QED BY <1>6, <2>1
<1>8. OutFrom(call, handles, out_fd) \in Nat
  <2>1. IsMap(handles, OpenFilesCap, Fd, Handle) BY <1>7 DEF HandlesOK
  <2>2. Get(handles, out_fd) \in Handle BY <1>7, <2>1, FirstSlot, ProcAssumption
  <2> QED BY <1>1, <2>2 DEF OutFrom, Handle, out
<1> QED BY <1>2, <1>3, <1>4, <1>5, <1>7, <1>8

LEMMA CopyStep ==
  ASSUME IInv, NEW call, NEW in_fd, NEW off_in \in Int \cup {Nowhere},
         NEW out_fd, NEW off_out \in Int \cup {Nowhere}, NEW count \in Nat,
         Copy(call, in_fd, off_in, out_fd, off_out, count)
  PROVE  IInv' /\ Grows
<1> USE IOAssumption
<1> DEFINE in == HandleAt(in_fd)
           out == HandleAt(out_fd)
           readPos == AsUsize(IF off_in = Nowhere THEN in.position ELSE off_in)
           toEnd == out.append_mode /\ off_out = Nowhere
           writePos == IF toEnd THEN Len(ContentAt(out_fd))
                       ELSE AsUsize(IF off_out = Nowhere THEN out.position ELSE off_out)
           n == Min({count, Len(ContentAt(in_fd)) - readPos})
           handles == IF off_in = Nowhere
                      THEN Positioned(open_files, in_fd, in.position + n) ELSE open_files
           outFrom == OutFrom(call, handles, out_fd)
           part == SubSeq(ContentAt(in_fd), readPos + 1, readPos + n)
           data == Overwritten(ContentAt(out_fd), writePos, part)
<1>1. CASE Fails(call, <<>>) \/ Panics(call, <<>>) BY <1>1, FailStep
<1>2. CASE UNCHANGED <<inodes, next_inode_number, current_directory, files, path_map,
                       fd_table, open_files, umask_value, trapped>>
  BY <1>2, QuietStep DEF IInv, FlagsOK
<1>3. ASSUME Accessible(in_fd), Accessible(out_fd), readPos < Len(ContentAt(in_fd)),
             files' = Update(files, out.inode_number, data),
             open_files' =
               IF off_out # Nowhere THEN handles
               ELSE Positioned(handles, out_fd,
                               IF toEnd THEN DataLen(files', out.inode_number)
                               ELSE outFrom + n),
             UNCHANGED <<inodes, next_inode_number, current_directory, path_map>>,
             UNCHANGED <<fd_table, umask_value, trapped>>
      PROVE  IInv' /\ Grows
  <2>1. PICK ino \in Nat : ino = out.inode_number /\ InodeExists(ino)
    BY <1>3, AccessibleFacts
  <2>2. /\ n \in Nat /\ data \in Seq(Byte)
        /\ HandlesOK(handles) /\ HasKey(handles, out_fd)
        /\ outFrom \in Nat
    BY <1>3, CopyFacts
  <2> HIDE DEF n, data, handles, outFrom
  <2>3. DataLen(files', out.inode_number) \in Nat
    <3>1. Len(inodes) \in Nat BY LenProperties DEF IInv, InodesOK
    <3>2. ContentsOK(files', Len(inodes))
      BY <1>3, <2>2, <3>1, ContentsAfterUpdate DEF IInv, FilesOK
    <3> QED BY <3>2, ContentType
  <2> HIDE DEF toEnd, in, out
  <2>4. HandlesOK(open_files')
    <3>1. CASE off_out # Nowhere BY <1>3, <2>2, <3>1
    <3>2. CASE off_out = Nowhere
      <4>1. PICK pos \in Nat : open_files' = Positioned(handles, out_fd, pos)
        BY <1>3, <2>2, <2>3, <3>2
      <4> QED BY <2>2, <4>1, PositionedHandles
    <3> QED BY <3>1, <3>2
  <2> QED BY <1>3, <2>1, <2>2, <2>4, IOStep
<1> QED BY <1>1, <1>2, <1>3 DEF Copy, Returns

-----------------------------------------------------------------------------
(* The other calls                                                         *)

\* A known name is put for another name's inode, with or without the other
\* name being given up: what rename and link do.
LEMMA NamePutStep ==
  ASSUME IInv, NEW old, Known(old), NEW newpath \in Path,
         NEW m, m = path_map \/ m = Remove(path_map, old),
         path_map' = Insert(PathMapCap, m, Absolute(newpath), InodeOf(old)),
         UNCHANGED <<inodes, next_inode_number, current_directory, files>>,
         UNCHANGED <<fd_table, open_files, umask_value, trapped>>
  PROVE  IInv' /\ Grows
<1>1. InodesOK /\ PathsOK /\ CwdOK /\ Grows BY GrowsWhenUnchanged DEF IInv, InodesOK
<1>2. PICK p \in Path : p = Absolute(newpath) /\ IsAbsolute(p)
  BY <1>1, AbsolutePath
<1>3. PICK n \in Nat : n = InodeOf(old) /\ InodeExists(n)
  BY <1>1, LookupExists
<1>4. InodeExists(n)' BY <1>3 DEF InodeExists
<1>5. path_map' = Insert(PathMapCap, m, p, n) BY <1>2, <1>3
<1>6. m = path_map \/ \E k : m = Remove(path_map, k) OBVIOUS
<1>7. PathsOK' BY <1>1, <1>2, <1>4, <1>5, <1>6, PathsAfterInsert
<1> QED BY <1>1, <1>7, NamesStep DEF CwdOK

LEMMA NameDropStep ==
  ASSUME IInv, NEW path, path_map' = Remove(path_map, path),
         UNCHANGED <<inodes, next_inode_number, current_directory, files>>,
         UNCHANGED <<fd_table, open_files, umask_value, trapped>>
  PROVE  IInv' /\ Grows
<1>1. PathsOK' BY PathsAfterRemove DEF IInv
<1> QED BY <1>1, NamesStep DEF IInv, CwdOK

LEMMA RenameStep ==
  ASSUME IInv, NEW oldpath \in Path, NEW newpath \in Path, Rename(oldpath, newpath)
  PROVE  IInv' /\ Grows
<1> DEFINE old == Absolute(oldpath)
           new == Absolute(newpath)
<1>1. CASE /\ Known(old)
           /\ path_map' = Insert(PathMapCap, Remove(path_map, old), new, InodeOf(old))
           /\ Returns("rename", <<old, new>>, {}, 0)
           /\ UNCHANGED <<inodes, next_inode_number, current_directory, files>>
           /\ UNCHANGED <<fd_table, open_files, umask_value>>
  BY <1>1, NamePutStep DEF Returns
<1>2. CASE Fails("rename", <<old, new>>)
  BY <1>2, QuietStep DEF Fails, Returns, IInv, FlagsOK
<1> QED BY <1>1, <1>2 DEF Rename

LEMMA LinkStep ==
  ASSUME IInv, NEW oldpath \in Path, NEW newpath \in Path, Link(oldpath, newpath)
  PROVE  IInv' /\ Grows
<1> DEFINE old == Absolute(oldpath)
           new == Absolute(newpath)
<1>1. CASE /\ Known(old)
           /\ path_map' = Insert(PathMapCap, path_map, new, InodeOf(old))
           /\ Returns("link", <<old, new>>, {}, 0)
           /\ UNCHANGED <<inodes, next_inode_number, current_directory, files>>
           /\ UNCHANGED <<fd_table, open_files, umask_value>>
  BY <1>1, NamePutStep DEF Returns
<1>2. CASE Fails("link", <<old, new>>)
  BY <1>2, QuietStep DEF Fails, Returns, IInv, FlagsOK
<1> QED BY <1>1, <1>2 DEF Link

LEMMA UnlinkStep ==
  ASSUME IInv, NEW pathname \in Path, Unlink(pathname)
  PROVE  IInv' /\ Grows
<1>1. CASE Fails("unlink", <<Absolute(pathname)>>)
  BY <1>1, QuietStep DEF Fails, Returns, IInv, FlagsOK
<1>2. CASE ~Fails("unlink", <<Absolute(pathname)>>)
  BY <1>2, NameDropStep DEF Unlink, Returns
<1> QED BY <1>1, <1>2

LEMMA RmdirStep ==
  ASSUME IInv, NEW pathname \in Path, Rmdir(pathname)
  PROVE  IInv' /\ Grows
<1>1. CASE Fails("rmdir", <<Absolute(pathname)>>)
  BY <1>1, QuietStep DEF Fails, Returns, IInv, FlagsOK
<1>2. CASE ~Fails("rmdir", <<Absolute(pathname)>>)
  BY <1>2, NameDropStep DEF Rmdir, Returns
<1> QED BY <1>1, <1>2

LEMMA ChdirStep ==
  ASSUME IInv, NEW pathname \in Path, Chdir(pathname)
  PROVE  IInv' /\ Grows
<1> DEFINE path == Absolute(pathname)
<1>1. CASE Fails("chdir", <<path>>)
  BY <1>1, QuietStep DEF Fails, Returns, IInv, FlagsOK
<1>2. CASE /\ current_directory' = path
           /\ Returns("chdir", <<path>>, {}, 0)
           /\ UNCHANGED <<inodes, next_inode_number, files, path_map>>
           /\ UNCHANGED <<fd_table, open_files, umask_value>>
  <2>1. CwdOK' BY <1>2, AbsolutePath DEF IInv, CwdOK
  <2>2. PathsOK' BY <1>2, PathsKept, GrowsWhenUnchanged DEF IInv
  <2> QED BY <1>2, <2>1, <2>2, NamesStep DEF Returns
<1> QED BY <1>1, <1>2 DEF Chdir

LEMMA FchdirStep ==
  ASSUME IInv, NEW fd, Fchdir(fd)
  PROVE  IInv' /\ Grows
<1>1. CASE Fails("fchdir", <<>>)
  BY <1>1, QuietStep DEF Fails, Returns, IInv, FlagsOK
<1>2. CASE Panics("fchdir", <<>>)
  BY <1>2, QuietStep DEF Panics
<1> DEFINE slots == NameSlots(fd_table[fd])
<1>3. CASE /\ IsDirectory(fd_table[fd])
           /\ slots # {}
           /\ current_directory' = path_map[Min(slots)].key
           /\ Returns("fchdir", <<>>, {}, 0)
           /\ UNCHANGED <<inodes, next_inode_number, files, path_map>>
           /\ UNCHANGED <<fd_table, open_files, umask_value>>
  <2>1. PathsOK /\ IsMap(path_map, PathMapCap, Path, Nat) BY DEF IInv, PathsOK
  <2>2. slots \in SUBSET Nat BY <2>1, FsAssumption DEF NameSlots, IsMap
  <2>3. Min(slots) \in slots BY <1>3, <2>2, MinOfNats
  <2> DEFINE i == Min(slots)
  <2>4. i \in DOMAIN path_map /\ path_map[i].val = fd_table[fd]
    BY <2>3 DEF NameSlots
  <2> HIDE DEF i
  <2>5. path_map[i].key \in Path /\ IsAbsolute(path_map[i].key)
    BY <1>3, <2>1, <2>4 DEF PathsOK, IsMap
  <2>6. CwdOK' BY <1>3, <2>5 DEF CwdOK, i
  <2>7. PathsOK' BY <1>3, PathsKept, GrowsWhenUnchanged DEF IInv
  <2> QED BY <1>3, <2>6, <2>7, NamesStep DEF Returns
<1> QED BY <1>1, <1>2, <1>3 DEF Fchdir

LEMMA EntryStep ==
  ASSUME IInv, NEW path \in Path, IsAbsolute(path), NEW mode,
         NEW kind \in {"SymbolicLink", "Directory"},
         InsertDirectoryEntry(path, mode, kind),
         UNCHANGED <<current_directory, fd_table, open_files, umask_value, trapped>>
  PROVE  IInv' /\ Grows
<1> DEFINE n == next_inode_number
           new == NewInode(n, mode, kind)
<1>1. n \in Nat /\ Len(inodes) = n /\ InodesOK BY DEF IInv, InodesOK, NumbersAreIndices
<1>2. new \in Inode /\ new.number = n
  BY <1>1, NewInodeType DEF Kind, NewInode
<1>3. inodes' = Append(inodes, new) /\ n' = n + 1
  BY <1>1, <1>2, GrownIsAppend DEF InsertDirectoryEntry
<1> HIDE DEF new
<1>4. InodesOK' /\ Grows /\ Len(inodes') = n + 1
  BY <1>1, <1>2, <1>3, AppendInodes
<1>5. PathsOK'
  <2>1. PICK k \in Nat : k = next_inode_number BY <1>1
  <2>2. k < Len(inodes') /\ path_map' = Insert(PathMapCap, path_map, path, k)
    BY <1>1, <1>4, <2>1 DEF InsertDirectoryEntry
  <2>3. InodeExists(k)' BY <2>2 DEF InodeExists
  <2> QED BY <1>1, <1>4, <2>1, <2>2, <2>3, PathsAfterInsert DEF IInv
<1>6. FilesOK'
  <2>1. ~HasKey(files, n) /\ ContentsOK(files, n + 1)
    BY <1>1, NewNumberHasNoContent DEF IInv, FilesOK
  <2>2. ContentsOK(Insert(FilesCap, files, n, <<>>), n + 1)
    BY <1>1, <2>1, ContentsAfterInsert
  <2> QED BY <1>4, <2>1, <2>2 DEF FilesOK, InsertDirectoryEntry
<1>7. DescriptorsOK' BY <1>1, <1>4, DescriptorsKept DEF IInv
<1> QED BY <1>4, <1>5, <1>6, <1>7 DEF IInv, CwdOK, FlagsOK

LEMMA SymlinkStep ==
  ASSUME IInv, NEW linkpath \in Path, Symlink(linkpath)
  PROVE  IInv' /\ Grows
<1>1. PICK p \in Path : p = Absolute(linkpath) /\ IsAbsolute(p)
  BY AbsolutePath DEF IInv
<1> QED BY <1>1, EntryStep DEF Symlink, Returns

LEMMA MkdirStep ==
  ASSUME IInv, NEW pathname \in Path, NEW mode, Mkdir(pathname, mode)
  PROVE  IInv' /\ Grows
<1>1. PICK p \in Path : p = Absolute(pathname) /\ IsAbsolute(p)
  BY AbsolutePath DEF IInv
<1>2. CASE Fails("mkdir", <<p>>)
  BY <1>2, QuietStep DEF Fails, Returns, IInv, FlagsOK
<1>3. CASE ~Fails("mkdir", <<p>>)
  BY <1>1, <1>3, EntryStep DEF Mkdir, Returns
<1> QED BY <1>2, <1>3

\* The two ways the descriptor steps of open can end, ino being an inode and
\* contents the content table by then.
LEMMA OpenDescriptorStep ==
  ASSUME InodesOK, Grows, DescriptorsOK,
         NEW path, NEW ino \in Nat, InodeExists(ino)', NEW flags,
         NEW len, NEW contents, ContentsOK(contents, len),
         OpenDescriptor(path, ino, contents, flags)
  PROVE  DescriptorsOK'
<1>1. CASE UNCHANGED <<fd_table, open_files>> BY <1>1, DescriptorsKept
<1>2. ASSUME FreeFds # {}, NEW position \in Nat, NEW append \in BOOLEAN,
             fd_table' = FdTableWith(AllocateFd, ino),
             open_files' = Insert(OpenFilesCap, open_files, AllocateFd,
                                  NewHandle(ino, position, append))
      PROVE  DescriptorsOK'
  <2>1. PICK fd \in Fd : /\ fd = AllocateFd /\ fd \notin DOMAIN fd_table
                         /\ ~HasKey(open_files, fd)
    BY <1>2, AllocatedIsFree
  <2> DEFINE h == NewHandle(ino, position, append)
  <2>2. /\ h \in Handle /\ h.inode_number = ino
        /\ open_files' = Insert(OpenFilesCap, open_files, fd, h)
        /\ fd_table' = FdTableWith(fd, ino)
    BY <1>2, <2>1 DEF Handle, NewHandle
  <2> HIDE DEF h
  <2>3. IsMap(open_files, OpenFilesCap, Fd, Handle) /\ UniqueKeys(open_files)
    BY DEF DescriptorsOK, HandlesMatchTable
  <2> QED BY <2>1, <2>2, <2>3, DescriptorsAfterPut
<1>3. DataLen(contents, ino) \in Nat BY ContentType
<1>4. CASE ~UNCHANGED <<fd_table, open_files>>
  <2> DEFINE position == IF "O_APPEND" \in flags THEN DataLen(contents, ino) ELSE 0
             append == "O_APPEND" \in flags
  <2>1. position \in Nat /\ append \in BOOLEAN BY <1>3
  <2>2. /\ FreeFds # {}
        /\ fd_table' = FdTableWith(AllocateFd, ino)
        /\ open_files' = Insert(OpenFilesCap, open_files, AllocateFd,
                                NewHandle(ino, position, append))
    BY <1>4 DEF OpenDescriptor
  <2> HIDE DEF position, append
  <2> QED BY <1>2, <2>1, <2>2
<1> QED BY <1>1, <1>4

LEMMA OpenExistingStep ==
  ASSUME IInv, NEW path \in Path, NEW flags, OpenExisting(path, flags)
  PROVE  IInv' /\ Grows
<1>1. PICK ino \in Nat : ino = InodeOf(path) /\ InodeExists(ino)
  BY LookupExists DEF IInv, OpenExisting
<1>2. /\ files' = Prepared(files, ino, flags)
      /\ OpenDescriptor(path, ino, files', flags)
      /\ UNCHANGED <<inodes, next_inode_number, current_directory, path_map, umask_value>>
  BY <1>1 DEF OpenExisting
<1>3. Len(inodes) \in Nat /\ ino < Len(inodes) /\ InodeExists(ino)' /\ Grows
  BY <1>1, <1>2, LenProperties, GrowsWhenUnchanged DEF IInv, InodesOK, InodeExists
<1>4. ContentsOK(files', Len(inodes))
  BY <1>2, <1>3, ContentsAfterPrepared DEF IInv, FilesOK
<1>5. DescriptorsOK'
  BY <1>2, <1>3, <1>4, OpenDescriptorStep DEF IInv
<1> QED BY <1>2, <1>4, <1>5, DescriptorsStep DEF FilesOK, OpenDescriptor, Returns

LEMMA OpenCreatingStep ==
  ASSUME IInv, NEW path \in Path, NEW flags, NEW mode, OpenCreating(path, flags, mode)
  PROVE  IInv' /\ Grows
<1>1. PICK n \in Nat : n = next_inode_number /\ Len(inodes) = n
  BY DEF IInv, InodesOK, NumbersAreIndices
<1>2. PICK new \in Inode : new = NewInode(n, mode, "File")
  BY <1>1, NewInodeType DEF Kind
<1>3. /\ next_inode_number' = next_inode_number + 1
      /\ inodes' = Append(inodes, new)
      /\ path_map' = Insert(PathMapCap, path_map, path, n)
      /\ files' = Prepared(Insert(FilesCap, files, n, <<>>), n, flags)
      /\ OpenDescriptor(path, n, files', flags)
      /\ UNCHANGED <<current_directory, umask_value>>
  BY <1>1, <1>2 DEF OpenCreating, CreateFile, CreatedFiles
<1>4. new.number = n /\ new.kind = "File" BY <1>2 DEF NewInode
<1>5. InodesOK' /\ Grows /\ Len(inodes') = n + 1 /\ inodes'[n + 1] = new
  BY <1>1, <1>3, <1>4, AppendInodes DEF IInv
<1>6. InodeExists(n)' /\ ~IsDirectory(n)'
  BY <1>4, <1>5 DEF InodeExists, IsDirectory, InodeAt
<1>7. PathsOK' BY <1>3, <1>5, <1>6, PathsAfterInsert DEF IInv
<1>8. ContentsOK(files', n + 1)
  <2>1. ~HasKey(files, n) /\ ContentsOK(files, n + 1)
    BY <1>1, NewNumberHasNoContent DEF IInv, FilesOK
  <2> DEFINE c == Insert(FilesCap, files, n, <<>>)
  <2>2. ContentsOK(c, n + 1) BY <2>1, ContentsAfterInsert
  <2>3. files' = Prepared(c, n, flags) BY <1>3
  <2> HIDE DEF c
  <2> QED BY <2>2, <2>3, ContentsAfterPrepared
<1>9. DescriptorsOK' BY <1>3, <1>5, <1>6, <1>8, OpenDescriptorStep DEF IInv
<1>10. FlagsOK' BY <1>3 DEF IInv, FlagsOK, OpenDescriptor, Returns
<1> QED BY <1>3, <1>5, <1>7, <1>8, <1>9, <1>10 DEF IInv, CwdOK, FilesOK

LEMMA OpenStep ==
  ASSUME IInv, NEW path \in Path, NEW flags, NEW mode, Open(path, flags, mode)
  PROVE  IInv' /\ Grows
<1>1. CASE Fails("open", <<path>>)
  BY <1>1, QuietStep DEF Fails, Returns, IInv, FlagsOK
<1> QED BY <1>1, OpenExistingStep, OpenCreatingStep DEF Open, OpenMissing

\* A descriptor is given up, together with its handle if it has one.
LEMMA CloseStep ==
  ASSUME IInv, NEW fd, Close(fd)
  PROVE  IInv' /\ Grows
<1>1. CASE Fails("close", <<>>)
  BY <1>1, QuietStep DEF Fails, Returns, IInv, FlagsOK
<1>2. CASE /\ fd \in DOMAIN fd_table
           /\ fd_table' = Restrict(fd_table, DOMAIN fd_table \ {fd})
           /\ open_files' = Remove(open_files, fd)
           /\ Returns("close", <<>>, {fd}, 0)
           /\ UNCHANGED <<inodes, next_inode_number, current_directory, files, path_map,
                          umask_value>>
  <2>1. /\ IsMap(open_files, OpenFilesCap, Fd, Handle) /\ UniqueKeys(open_files)
        /\ OpenFilesCap \in Nat
    BY ProcAssumption DEF IInv, DescriptorsOK, HandlesMatchTable
  <2>2. /\ IsMap(open_files', OpenFilesCap, Fd, Handle)
        /\ DOMAIN open_files' \subseteq DOMAIN open_files
        /\ \A i \in DOMAIN open_files' : open_files'[i] = open_files[i]
        /\ UniqueKeys(open_files') /\ ~HasKey(open_files', fd)
    BY <1>2, <2>1, RemoveProperties
  <2>3. /\ DOMAIN fd_table' = DOMAIN fd_table \ {fd}
        /\ \A d \in DOMAIN fd_table' : fd_table'[d] = fd_table[d]
        /\ fd_table' = [d \in DOMAIN fd_table' |-> fd_table'[d]]
    BY <1>2 DEF Restrict
  <2>4. \A d \in DOMAIN fd_table : fd_table[d] \in Nat /\ fd_table[d] < Len(inodes')
    BY <1>2 DEF IInv, DescriptorsOK, InodeExists
  <2>5. /\ DOMAIN fd_table' \subseteq Fd
        /\ fd_table' \in [DOMAIN fd_table' -> Nat]
        /\ \A d \in DOMAIN fd_table' : fd_table'[d] < Len(inodes')
    BY <2>3, <2>4 DEF IInv, DescriptorsOK
  <2>6. ASSUME NEW i \in DOMAIN open_files'
        PROVE  /\ open_files'[i].key \in DOMAIN fd_table'
               /\ open_files'[i].val.inode_number = fd_table'[open_files'[i].key]
    <3>1. open_files'[i].key # fd BY <2>2 DEF HasKey, SlotsOf
    <3>2. /\ open_files'[i].key \in DOMAIN fd_table
          /\ open_files'[i].val.inode_number = fd_table[open_files'[i].key]
      BY <2>2 DEF IInv, DescriptorsOK, HandlesMatchTable
    <3> QED BY <2>3, <3>1, <3>2
  <2>7. DescriptorsOK'
    BY <2>2, <2>5, <2>6 DEF DescriptorsOK, HandlesMatchTable, InodeExists
  <2>8. FilesOK' BY <1>2 DEF IInv, FilesOK
  <2> QED BY <1>2, <2>7, <2>8, DescriptorsStep DEF Returns
<1> QED BY <1>1, <1>2 DEF Close

LEMMA DupStep ==
  ASSUME IInv, NEW oldfd, Dup(oldfd)
  PROVE  IInv' /\ Grows
<1>1. CASE Fails("dup", <<>>)
  BY <1>1, QuietStep DEF Fails, Returns, IInv, FlagsOK
<1>2. CASE ~Fails("dup", <<>>)
  <2>1. /\ HasKey(open_files, oldfd) /\ FreeFds # {}
        /\ fd_table' = FdTableWith(AllocateFd, Get(open_files, oldfd).inode_number)
        /\ open_files' = Insert(OpenFilesCap, open_files, AllocateFd, Get(open_files, oldfd))
        /\ UNCHANGED <<inodes, next_inode_number, current_directory, files, path_map>>
        /\ UNCHANGED <<umask_value, trapped>>
    BY <1>2 DEF Dup, Returns
  <2>2. PICK fd \in Fd : fd = AllocateFd /\ ~HasKey(open_files, fd)
    BY <2>1, AllocatedIsFree DEF IInv
  <2>3. PICK h \in Handle : h = Get(open_files, oldfd) /\ h.inode_number = fd_table[oldfd]
    BY <2>1, HandleOf DEF IInv
  <2>4. PICK ino \in Nat : ino = h.inode_number BY DEF Handle
  <2>5. oldfd \in DOMAIN fd_table BY <2>1, HandleOf DEF IInv
  <2>6. InodeExists(ino)' BY <2>1, <2>3, <2>4, <2>5 DEF IInv, DescriptorsOK, InodeExists
  <2>7. IsMap(open_files, OpenFilesCap, Fd, Handle) /\ UniqueKeys(open_files)
    BY DEF IInv, DescriptorsOK, HandlesMatchTable
  <2>8. /\ fd_table' = FdTableWith(fd, ino)
        /\ open_files' = Insert(OpenFilesCap, open_files, fd, h)
    BY <2>1, <2>2, <2>3, <2>4
  <2>9. InodesOK /\ Grows /\ DescriptorsOK BY <2>1, GrowsWhenUnchanged DEF IInv
  <2>10. DescriptorsOK'
    BY <2>2, <2>4, <2>6, <2>7, <2>8, <2>9, DescriptorsAfterPut
  <2>11. FilesOK' BY <2>1 DEF IInv, FilesOK
  <2> QED BY <2>1, <2>10, <2>11, DescriptorsStep
<1> QED BY <1>1, <1>2

LEMMA Dup2Step ==
  ASSUME IInv, NEW oldfd, NEW newfd, Dup2(oldfd, newfd)
  PROVE  IInv' /\ Grows
<1>1. CASE /\ UNCHANGED <<inodes, next_inode_number, current_directory, files, path_map>>
           /\ UNCHANGED <<fd_table, open_files, umask_value, trapped>>
  BY <1>1, QuietStep DEF IInv, FlagsOK
<1>2. CASE /\ oldfd \in DOMAIN fd_table /\ newfd \in Fd /\ oldfd # newfd
           /\ LET left == IF newfd \in DOMAIN fd_table
                          THEN Remove(open_files, newfd) ELSE open_files
              IN open_files' = IF HasKey(left, oldfd)
                               THEN Insert(OpenFilesCap, left, newfd, Get(left, oldfd))
                               ELSE left
           /\ fd_table' = FdTableWith(newfd, fd_table[oldfd])
           /\ UNCHANGED <<inodes, next_inode_number, current_directory, files, path_map>>
           /\ UNCHANGED <<umask_value, trapped>>
  <2>1. InodesOK /\ Grows /\ DescriptorsOK BY <1>2, GrowsWhenUnchanged DEF IInv
  <2>2. PICK ino \in Nat : ino = fd_table[oldfd] /\ InodeExists(ino)
    BY <1>2, <2>1 DEF DescriptorsOK
  <2>3. InodeExists(ino)' BY <1>2, <2>2 DEF InodeExists
  <2>4. /\ IsMap(open_files, OpenFilesCap, Fd, Handle) /\ UniqueKeys(open_files)
        /\ OpenFilesCap \in Nat
    BY <2>1, ProcAssumption DEF DescriptorsOK, HandlesMatchTable
  <2>5. PICK m : m = IF newfd \in DOMAIN fd_table THEN Remove(open_files, newfd) ELSE open_files
    OBVIOUS
  <2>6. /\ IsMap(m, OpenFilesCap, Fd, Handle) /\ UniqueKeys(m) /\ ~HasKey(m, newfd)
        /\ DOMAIN m \subseteq DOMAIN open_files
        /\ \A i \in DOMAIN m : m[i] = open_files[i]
    <3>1. CASE newfd \in DOMAIN fd_table
      BY <2>4, <2>5, <3>1, RemoveProperties
    <3>2. CASE newfd \notin DOMAIN fd_table
      BY <2>1, <2>4, <2>5, <3>2, HandleOf
    <3> QED BY <3>1, <3>2
  <2>7. fd_table' = FdTableWith(newfd, ino) BY <1>2, <2>2
  <2>8. DescriptorsOK'
    <3>1. CASE ~HasKey(m, oldfd)
      <4>1. open_files' = m BY <1>2, <2>5, <3>1
      <4> QED BY <1>2, <2>1, <2>3, <2>6, <2>7, <4>1, DescriptorsAfterPut
    <3>2. CASE HasKey(m, oldfd)
      <4> DEFINE s == Min(SlotsOf(m, oldfd))
      <4>1. s \in DOMAIN m /\ m[s].key = oldfd /\ Get(m, oldfd) \in Handle
        BY <2>4, <2>6, <3>2, FirstSlot
      <4>2. PICK h \in Handle : h = Get(m, oldfd) BY <4>1
      <4>3. h = open_files[s].val /\ s \in DOMAIN open_files /\ open_files[s].key = oldfd
        BY <2>6, <4>1, <4>2 DEF Get
      <4>4. h.inode_number = ino
        BY <2>1, <2>2, <4>3 DEF DescriptorsOK, HandlesMatchTable
      <4>5. open_files' = Insert(OpenFilesCap, m, newfd, h)
        BY <1>2, <2>5, <3>2, <4>2
      <4> QED BY <1>2, <2>1, <2>3, <2>6, <2>7, <4>4, <4>5, DescriptorsAfterPut
    <3> QED BY <3>1, <3>2
  <2>9. FilesOK' BY <1>2 DEF IInv, FilesOK
  <2> QED BY <1>2, <2>8, <2>9, DescriptorsStep
<1> QED BY <1>1, <1>2 DEF Dup2, Fails, Returns

\* A call of getdents returns finitely many entries.
LEMMA ListedIsFinite ==
  ASSUME IInv, NEW fd, NEW room
  PROVE  /\ Listed(fd, room) \subseteq 1..PathMapCap
         /\ IsFiniteSet(Listed(fd, room)) /\ Cardinality(Listed(fd, room)) \in Nat
<1>1. Listed(fd, room) \subseteq 1..PathMapCap
  BY DEF Listed, EntrySlots, IInv, PathsOK, IsMap
<1>2. 1 \in Int /\ PathMapCap \in Int BY FsAssumption
<1>3. IsFiniteSet(1..PathMapCap) BY <1>2, FS_Interval
<1>4. IsFiniteSet(Listed(fd, room)) BY <1>1, <1>3, FS_Subset
<1> QED BY <1>1, <1>4, FS_CardinalityType

\* getdents moves the position of a handle, by a number of slots.
LEMMA GetdentsStep ==
  ASSUME IInv, NEW fd, NEW room, Getdents(fd, room)
  PROVE  IInv' /\ Grows
<1>1. CASE Fails("getdents", <<>>) BY <1>1, FailStep
<1>2. CASE ~Fails("getdents", <<>>)
  <2> DEFINE pos == HandleAt(fd).position
             n == Cardinality(Listed(fd, room))
  <2>1. /\ HasKey(open_files, fd)
        /\ open_files' = Positioned(open_files, fd, pos + n)
        /\ UNCHANGED <<inodes, next_inode_number, current_directory, files, path_map>>
        /\ UNCHANGED <<fd_table, umask_value, trapped>>
    BY <1>2 DEF Getdents, Returns, Counted
  <2>2. /\ HandlesOK(open_files) /\ HandleAt(fd) \in Handle
        /\ InodeExists(HandleAt(fd).inode_number)
    BY <2>1, HandlesOfDescriptors, HandleOf DEF IInv, DescriptorsOK, HandleAt
  <2>3. n \in Nat BY ListedIsFinite
  <2>4. pos \in Nat /\ HandleAt(fd).inode_number \in Nat BY <2>2 DEF Handle
  <2> HIDE DEF pos, n
  <2>5. HandlesOK(open_files') BY <2>1, <2>2, <2>3, <2>4, PositionedHandles
  <2> QED BY <2>1, <2>2, <2>4, <2>5, IOStep
<1> QED BY <1>1, <1>2

\* A change of permissions or owner.
LEMMA SetsInodeStep ==
  ASSUME IInv, NEW ino \in Nat, InodeExists(ino), NEW call, NEW names, NEW new,
         new \in Inode, new.number = InodeAt(ino).number, new.kind = InodeAt(ino).kind,
         SetsInode(ino, new, call, names)
  PROVE  IInv' /\ Grows
<1>1. /\ inodes' = [inodes EXCEPT ![ino + 1] = new]
      /\ UNCHANGED <<next_inode_number, current_directory, files, path_map>>
      /\ UNCHANGED <<fd_table, open_files, umask_value, trapped>>
  BY DEF SetsInode, Returns
<1>2. InodesOK' /\ Grows BY <1>1, AfterRewriting DEF IInv
<1>3. Len(inodes') = Len(inodes)
  BY <1>1, <1>2 DEF IInv, InodesOK, NumbersAreIndices
<1>4. PathsOK' BY <1>1, <1>2, PathsKept DEF IInv
<1>5. FilesOK' BY <1>1, <1>3 DEF IInv, FilesOK
<1>6. DescriptorsOK' BY <1>1, <1>2, DescriptorsKept DEF IInv
<1> QED BY <1>1, <1>2, <1>4, <1>5, <1>6 DEF IInv, CwdOK, FlagsOK

\* What chmod and chown make of an inode.
LEMMA RewrittenInode ==
  ASSUME IInv, NEW ino \in Nat, InodeExists(ino),
         NEW mode, NEW owner \in Nat, NEW group \in Nat,
         NEW new, new = WithMode(ino, mode) \/ new = WithOwner(ino, owner, group)
  PROVE  new \in Inode /\ new.number = InodeAt(ino).number /\ new.kind = InodeAt(ino).kind
<1>1. InodeAt(ino) \in Inode
  BY LenProperties, ElementOfSeq DEF IInv, InodesOK, InodeExists, InodeAt
<1> QED BY <1>1 DEF WithMode, WithOwner, Inode

LEMMA ChangeStep ==
  ASSUME IInv, NEW ino \in Nat, InodeExists(ino), NEW call, NEW names,
         NEW mode, NEW owner \in Nat, NEW group \in Nat,
         \/ SetsInode(ino, WithMode(ino, mode), call, names)
         \/ SetsInode(ino, WithOwner(ino, owner, group), call, names)
  PROVE  IInv' /\ Grows
<1>1. PICK new : /\ SetsInode(ino, new, call, names)
                 /\ new = WithMode(ino, mode) \/ new = WithOwner(ino, owner, group)
  OBVIOUS
<1>2. /\ new \in Inode /\ new.number = InodeAt(ino).number
      /\ new.kind = InodeAt(ino).kind
  BY <1>1, RewrittenInode
<1> QED BY <1>1, <1>2, SetsInodeStep

\* chmod and chown, by path or by descriptor.
LEMMA AttributeStep ==
  ASSUME IInv, NEW path, NEW fd, NEW mode, NEW owner \in Nat, NEW group \in Nat,
         \/ Chmod(path, mode) \/ Fchmod(fd, mode)
         \/ Chown(path, owner, group) \/ Fchown(fd, owner, group)
  PROVE  IInv' /\ Grows
<1> DEFINE abs == Absolute(path)
<1>1. ASSUME NEW call, NEW names, Fails(call, names) PROVE IInv' /\ Grows
  BY <1>1, FailStep
<1>2. ASSUME NEW call, NEW names, Known(abs),
             \/ SetsInode(InodeOf(abs), WithMode(InodeOf(abs), mode), call, names)
             \/ SetsInode(InodeOf(abs), WithOwner(InodeOf(abs), owner, group), call, names)
      PROVE  IInv' /\ Grows
  <2>1. PICK ino \in Nat : ino = InodeOf(abs) /\ InodeExists(ino)
    BY <1>2, LookupExists DEF IInv
  <2> QED BY <1>2, <2>1, ChangeStep
<1>3. ASSUME NEW call, NEW names, fd \in DOMAIN fd_table,
             \/ SetsInode(fd_table[fd], WithMode(fd_table[fd], mode), call, names)
             \/ SetsInode(fd_table[fd], WithOwner(fd_table[fd], owner, group), call, names)
      PROVE  IInv' /\ Grows
  <2>1. PICK ino \in Nat : ino = fd_table[fd] /\ InodeExists(ino)
    BY <1>3 DEF IInv, DescriptorsOK
  <2> QED BY <1>3, <2>1, ChangeStep
<1> QED BY <1>1, <1>2, <1>3 DEF Chmod, Fchmod, Chown, Fchown

LEMMA UmaskStep ==
  ASSUME IInv, NEW mask, Umask(mask)
  PROVE  IInv' /\ Grows
<1>1. /\ umask_value' \in SUBSET PermBits
      /\ UNCHANGED <<inodes, next_inode_number, current_directory, files, path_map>>
      /\ UNCHANGED <<fd_table, open_files, trapped>>
  BY DEF Umask, Returns
<1>2. InodesOK' /\ Grows
  BY <1>1, GrowsWhenUnchanged DEF IInv, InodesOK, NumbersAreIndices, InodeAt
<1>3. PathsOK' BY <1>1, <1>2, PathsKept DEF IInv
<1>4. FilesOK' BY <1>1 DEF IInv, FilesOK
<1>5. DescriptorsOK' BY <1>1, <1>2, DescriptorsKept DEF IInv
<1> QED BY <1>1, <1>2, <1>3, <1>4, <1>5 DEF IInv, CwdOK, FlagsOK

\* A call that only reports.
LEMMA ReportStep ==
  ASSUME IInv, NEW call, NEW names, NEW val, Reports(call, names, val)
  PROVE  IInv' /\ Grows
  BY QuietStep DEF Reports, Returns, IInv, FlagsOK

LEMMA QueryStep ==
  ASSUME IInv, NEW path, NEW fd, NEW wanted, NEW count,
         \/ Stat(path) \/ Fstat(fd) \/ Access(path, wanted)
         \/ Readlink(path, count) \/ Getcwd \/ NoOp
  PROVE  IInv' /\ Grows
  BY ReportStep, FailStep DEF Stat, Fstat, Access, Readlink, Getcwd, NoOp

-----------------------------------------------------------------------------
(* The invariant, and what it implies                                      *)

LEMMA InvariantInit == Init => IInv
<1> SUFFICES ASSUME Init PROVE IInv OBVIOUS
<1> DEFINE first == NewInode(0, {}, "Directory")
<1>1. first \in Inode /\ first.number = 0
  BY NewInodeType DEF Kind, NewInode
<1>2. inodes = <<first>> /\ next_inode_number = 1 BY DEF Init, FsInit
<1> HIDE DEF first
<1>3. InodesOK BY <1>1, <1>2 DEF InodesOK, NumbersAreIndices, InodeAt
<1>4. Root \in Path /\ IsAbsolute(Root) BY DEF Root, Path, Segment, IsAbsolute
<1>5. PathsOK
  <2>1. IsMap(EmptyMap, PathMapCap, Path, Nat) /\ PathMapCap \in Nat
    BY EmptyMapProperties, FsAssumption
  <2>2. path_map = Insert(PathMapCap, EmptyMap, Root, 0) BY DEF Init, FsInit
  <2>3. /\ IsMap(path_map, PathMapCap, Path, Nat)
        /\ \A i \in DOMAIN path_map : \/ i \in DOMAIN EmptyMap
                                      \/ path_map[i] = [key |-> Root, val |-> 0]
    BY <1>4, <2>1, <2>2, InsertProperties
  <2>4. DOMAIN EmptyMap = {} BY DEF EmptyMap
  <2> QED BY <1>2, <1>4, <2>3, <2>4 DEF PathsOK, InodeExists
<1>6. FilesOK
  BY EmptyMapProperties, FsAssumption DEF Init, FsInit, FilesOK, ContentsOK, EmptyMap
<1>7. DescriptorsOK
  BY EmptyMapProperties, ProcAssumption DEF Init, DescriptorsOK, HandlesMatchTable, EmptyMap
<1> QED BY <1>3, <1>4, <1>5, <1>6, <1>7
        DEF IInv, CwdOK, FlagsOK, Init, FsInit, PermBits

LEMMA InvariantStep == IInv /\ [Next]_vars => IInv' /\ Grows
<1> SUFFICES ASSUME IInv, [Next]_vars PROVE IInv' /\ Grows OBVIOUS
<1> USE ArgAssumption
<1>1. CASE UNCHANGED vars BY <1>1, QuietStep DEF vars, IInv, FlagsOK
<1>2. CASE DescriptorNext
  BY <1>2, OpenStep, CloseStep, DupStep, Dup2Step DEF DescriptorNext, Openat, Creat
<1>3. CASE NamespaceNext
  BY <1>3, RenameStep, LinkStep, UnlinkStep, SymlinkStep, RmdirStep, ChdirStep,
     MkdirStep, FchdirStep
  DEF NamespaceNext
<1>4. CASE IONext
  <2>1. ASSUME NEW fd \in FdArg, NEW offset \in OffsetArg, NEW whence \in 0..3,
               Lseek(fd, offset, whence)
        PROVE  IInv' /\ Grows
    BY <2>1, LseekStep
  <2>2. ASSUME NEW in \in FdArg, NEW out \in FdArg, NEW from \in OffsetArg \cup {Nowhere},
               NEW to \in OffsetArg \cup {Nowhere}, NEW count \in CountArg,
               NEW call, Copy(call, in, from, out, to, count)
        PROVE  IInv' /\ Grows
    BY <2>2, CopyStep
  <2>3. ASSUME NEW in \in FdArg, NEW out \in FdArg, NEW from \in OffsetArg \cup {Nowhere},
               NEW count \in CountArg, Sendfile(out, in, from, count)
        PROVE  IInv' /\ Grows
    BY <2>3, CopyStep DEF Sendfile
  <2> QED BY <1>4, <2>1, <2>2, <2>3, ReadStep, WriteStep, Pread64Step, Pwrite64Step,
             TruncateStep, FtruncateStep, FallocateStep
          DEF IONext, Sendfile64, Splice, PosixFallocate
<1>5. CASE ListingNext BY <1>5, GetdentsStep DEF ListingNext, Getdents64
<1>6. CASE AttributeNext
  <2>1. ASSUME NEW path, NEW fd, NEW mode, NEW owner \in OwnerArg, NEW group \in OwnerArg,
               Chown(path, owner, group) \/ Fchown(fd, owner, group)
        PROVE  IInv' /\ Grows
    BY <2>1, AttributeStep
  <2>2. ASSUME NEW path, NEW fd, NEW mode, Chmod(path, mode) \/ Fchmod(fd, mode)
        PROVE  IInv' /\ Grows
    <3>1. 0 \in Nat OBVIOUS
    <3> QED BY <2>2, <3>1, AttributeStep
  <2> QED BY <1>6, <2>1, <2>2, UmaskStep, QueryStep DEF AttributeNext
<1> QED BY <1>1, <1>2, <1>3, <1>4, <1>5, <1>6 DEF Next

LEMMA Invariant == Spec => []IInv
  BY InvariantInit, InvariantStep, PTL DEF Spec

\* The tables have, in every reachable state, the types that the program's
\* struct definitions give them.
THEOREM VfsTypeOK == Spec => []TypeOK
  BY Invariant, IInvImplies, PTL

\* The inode vector and the counter agree: the number of an inode is its index.
THEOREM InodeNumbersAreIndices == Spec => []NumbersAreIndices
  BY Invariant, IInvImplies, PTL

\* No path, descriptor or content is for an inode that does not exist.
THEOREM NothingDangles == Spec => []NoDanglingNumber
  BY Invariant, IInvImplies, PTL

\* The two descriptor tables agree, although each has its own limit.
THEOREM DescriptorTablesAgree == Spec => []HandlesMatchTable
  BY Invariant, IInvImplies, PTL

\* The working directory is an absolute path.
THEOREM WorkingDirectoryIsAbsolute == Spec => []CwdIsAbsolute
  BY Invariant, IInvImplies, PTL

\* An inode, once created, keeps its number and its kind.
THEOREM InodesStay == Spec => InodesArePermanent
<1> DEFINE A == \A n \in 0..(next_inode_number - 1) :
                  /\ n < next_inode_number'
                  /\ inodes'[n + 1].number = InodeAt(n).number
                  /\ inodes'[n + 1].kind = InodeAt(n).kind
<1>1. IInv /\ [Next]_vars => [A]_vars
  <2> SUFFICES ASSUME IInv, [Next]_vars PROVE A OBVIOUS
  <2>1. IInv' /\ Grows BY InvariantStep
  <2>2. /\ next_inode_number = Len(inodes) /\ next_inode_number \in Nat
        /\ next_inode_number' = Len(inodes') /\ next_inode_number' \in Nat
    BY <2>1 DEF IInv, InodesOK, NumbersAreIndices
  <2> QED BY <2>1, <2>2 DEF Grows, InodeAt
<1> QED BY <1>1, Invariant, PTL DEF Spec, InodesArePermanent
=============================================================================
