------------------------------- MODULE FileIO -------------------------------
(***************************************************************************)
(* The calls of src/system.rs that move bytes and offsets: read, write     *)
(* (descriptor 1 apart, which goes to the host before any state is used),  *)
(* pread64, pwrite64, sendfile, sendfile64, splice, lseek, truncate,       *)
(* ftruncate, fallocate, posix_fallocate.                                  *)
(*                                                                         *)
(* Offsets are 64 bits wide, lengths and indices are usize: every          *)
(* "as usize" is AsUsize, which on the 32-bit target drops the upper half. *)
(* The bytes a read puts in its caller's buffer, and the offsets sendfile  *)
(* and splice write back through a pointer, are left out.                  *)
(***************************************************************************)
EXTENDS Proc

CONSTANTS
  UsizeMod,      \* 2^32 on the wasm32 target
  MaxLen,        \* the longest Vec<u8> there can be: a longer one panics
  MaxPosition,   \* the last position, 2^63 - 1 in the program
  Nowhere        \* a null offset pointer

ASSUME IOAssumption ==
  /\ UsizeMod \in Nat \ {0} /\ MaxLen \in Nat /\ MaxLen < UsizeMod
  /\ MaxPosition \in Nat
  /\ 0 \in Byte
  /\ Nowhere \notin Int

AsUsize(n) == n % UsizeMod

\* truncate() or resize(.., 0)
Resized(data, len) ==
  [i \in 1..len |-> IF i <= Len(data) THEN data[i] ELSE 0]

\* What is there after bytes were copied to index pos, the vector having been
\* grown if need be.  No bytes at all still make it reach up to pos.
Overwritten(data, pos, bytes) ==
  LET grown == Resized(data, Max({Len(data), pos + Len(bytes)}))
  IN [i \in DOMAIN grown |->
        IF i > pos /\ i <= pos + Len(bytes) THEN bytes[i - pos] ELSE grown[i]]

\* Indices up to pos + n cannot be had: resize() panics, or, if the sum wraps
\* around, the copy is out of bounds and nothing is promised any more.
Overruns(pos, n) == pos + n > MaxLen

\* The handle and the content behind a descriptor, if it has both.
HandleAt(fd) == Get(open_files, fd)
Accessible(fd) == HasKey(open_files, fd) /\ HasKey(files, HandleAt(fd).inode_number)
ContentAt(fd) == Get(files, HandleAt(fd).inode_number)

\* Slip: descriptors of one file share its position.
PositionedShared(handles, fd, pos) ==
  [i \in DOMAIN handles |->
     IF handles[i].val.inode_number = Get(handles, fd).inode_number
     THEN [handles[i] EXCEPT !.val.position = pos] ELSE handles[i]]

\* The handle table with fd's position set: None in, nothing out.
Positioned(handles, fd, pos) ==
  Update(handles, fd, [Get(handles, fd) EXCEPT !.position = pos])

\* Slip: inode.size is forgotten.
SizeForgotten(ino) == UNCHANGED inodes

\* inode.size brought in line with the content.
SizeRefreshed(ino) ==
  inodes' = [inodes EXCEPT ![ino + 1].size = DataLen(files', ino)]

\* How many bytes a read of count at index pos gets.
Available(data, pos, count) ==
  IF pos >= Len(data) THEN 0 ELSE Min({count, Len(data) - pos})

-----------------------------------------------------------------------------
Read(fd, count) ==
  \/ /\ Accessible(fd)
     /\ LET h == HandleAt(fd)
            n == Available(ContentAt(fd), AsUsize(h.position), count)
        IN /\ h.position + n <= MaxPosition
           /\ open_files' = Positioned(open_files, fd, h.position + n)
           /\ Returns("read", <<>>, {fd}, n)
     /\ UNCHANGED <<inodes, next_inode_number, current_directory, files, path_map>>
     /\ UNCHANGED <<fd_table, umask_value>>
  \/ ~Accessible(fd) /\ Fails("read", <<>>)

\* Slip: the mode of the handle is not looked at.
WriteStartAtPosition(fd) == HandleAt(fd).position

\* An append starts from the end, whatever the position.
WriteStart(fd) ==
  IF HandleAt(fd).append_mode THEN Len(ContentAt(fd)) ELSE HandleAt(fd).position

Write(fd, bytes) ==
  /\ fd # 1
  /\ \/ /\ Accessible(fd)
        /\ ~Overruns(AsUsize(WriteStart(fd)), Len(bytes))
        /\ WriteStart(fd) + Len(bytes) <= MaxPosition
        /\ LET ino == HandleAt(fd).inode_number
           IN /\ files' = Update(files, ino, Overwritten(ContentAt(fd),
                                               AsUsize(WriteStart(fd)), bytes))
              /\ SizeRefreshed(ino)
        /\ open_files' = Positioned(open_files, fd, WriteStart(fd) + Len(bytes))
        /\ Returns("write", <<>>, {fd}, Len(bytes))
        /\ UNCHANGED <<next_inode_number, current_directory, path_map>>
        /\ UNCHANGED <<fd_table, umask_value>>
     \/ /\ Accessible(fd)
        /\ Overruns(AsUsize(WriteStart(fd)), Len(bytes))
        /\ Panics("write", <<>>)
     \/ ~Accessible(fd) /\ Fails("write", <<>>)

Pread64(fd, count, offset) ==
  \/ /\ Accessible(fd)
     /\ Returns("pread64", <<>>, {}, Available(ContentAt(fd), AsUsize(offset), count))
     /\ UNCHANGED <<inodes, next_inode_number, current_directory, files, path_map>>
     /\ UNCHANGED <<fd_table, open_files, umask_value>>
  \/ ~Accessible(fd) /\ Fails("pread64", <<>>)

\* append_mode plays no part.
Pwrite64(fd, bytes, offset) ==
  \/ /\ Accessible(fd)
     /\ ~Overruns(AsUsize(offset), Len(bytes))
     /\ LET ino == HandleAt(fd).inode_number
        IN /\ files' = Update(files, ino,
                              Overwritten(ContentAt(fd), AsUsize(offset), bytes))
           /\ SizeRefreshed(ino)
     /\ Returns("pwrite64", <<>>, {}, Len(bytes))
     /\ UNCHANGED <<next_inode_number, current_directory, path_map>>
     /\ UNCHANGED <<fd_table, open_files, umask_value>>
  \/ /\ Accessible(fd)
     /\ Overruns(AsUsize(offset), Len(bytes))
     /\ Panics("pwrite64", <<>>)
  \/ ~Accessible(fd) /\ Fails("pwrite64", <<>>)

-----------------------------------------------------------------------------
(* Copies between descriptors.  An offset that is not Nowhere is used, and *)
(* advanced for the caller, in place of the handle's position.             *)

\* Where the output stood: sendfile takes it from before the input's handle
\* moved, splice from after, which differs when the two are one descriptor.
OutFromNow(call, handles, out_fd) == Get(handles, out_fd).position   \* slip
OutFrom(call, handles, out_fd) ==
  IF call = "splice" THEN Get(handles, out_fd).position ELSE HandleAt(out_fd).position

\* A snapshot of the input is read; n bytes of it go to the output, whose
\* inode's size is left as it was.  Then the input's handle moves, and then
\* the output's.
Copy(call, in_fd, off_in, out_fd, off_out, count) ==
  LET in == HandleAt(in_fd)
      out == HandleAt(out_fd)
      readPos == AsUsize(IF off_in = Nowhere THEN in.position ELSE off_in)
      toEnd == out.append_mode /\ off_out = Nowhere
      writePos == IF toEnd THEN Len(ContentAt(out_fd))
                  ELSE AsUsize(IF off_out = Nowhere THEN out.position ELSE off_out)
      n == Min({count, Len(ContentAt(in_fd)) - readPos})
      handles == IF off_in = Nowhere
                 THEN Positioned(open_files, in_fd, in.position + n) ELSE open_files
      outFrom == OutFrom(call, handles, out_fd)
      moved == (IF off_in = Nowhere THEN {in_fd} ELSE {})
                 \cup (IF off_out = Nowhere THEN {out_fd} ELSE {})
      readable == /\ Accessible(in_fd) /\ HasKey(open_files, out_fd)
                  /\ readPos < Len(ContentAt(in_fd))
  IN \/ /\ \/ ~Accessible(in_fd)
           \/ ~HasKey(open_files, out_fd)
           \/ readable /\ ~Accessible(out_fd)
        /\ Fails(call, <<>>)
     \/ /\ Accessible(in_fd) /\ HasKey(open_files, out_fd) /\ ~readable
        /\ Returns(call, <<>>, {}, 0)
        /\ UNCHANGED <<inodes, next_inode_number, current_directory, files, path_map>>
        /\ UNCHANGED <<fd_table, open_files, umask_value>>
     \/ /\ readable /\ Accessible(out_fd)
        /\ Overruns(writePos, n)
        /\ Panics(call, <<>>)
     \/ /\ readable /\ Accessible(out_fd)
        /\ ~Overruns(writePos, n)
        /\ in.position + n <= MaxPosition /\ outFrom + n <= MaxPosition
        /\ files' = Update(files, out.inode_number,
                           Overwritten(ContentAt(out_fd), writePos,
                                       SubSeq(ContentAt(in_fd), readPos + 1, readPos + n)))
        /\ open_files' =
             IF off_out # Nowhere THEN handles
             ELSE Positioned(handles, out_fd,
                             IF toEnd THEN DataLen(files', out.inode_number) ELSE outFrom + n)
        /\ Returns(call, <<>>, moved, n)
        /\ UNCHANGED <<inodes, next_inode_number, current_directory, path_map>>
        /\ UNCHANGED <<fd_table, umask_value>>

Sendfile(out_fd, in_fd, offset, count) ==
  Copy("sendfile", in_fd, offset, out_fd, Nowhere, count)
Sendfile64(out_fd, in_fd, offset, count) == Sendfile(out_fd, in_fd, offset, count)

\* The flags are ignored.
Splice(fd_in, off_in, fd_out, off_out, len) ==
  Copy("splice", fd_in, off_in, fd_out, off_out, len)

-----------------------------------------------------------------------------
\* whence: 0 SEEK_SET, 1 SEEK_CUR, 2 SEEK_END.
SeekFrom(fd, whence) ==
  CASE whence = 0 -> 0
    [] whence = 1 -> HandleAt(fd).position
    [] whence = 2 -> Len(ContentAt(fd))

Seeks(fd, pos) ==
  /\ open_files' = Positioned(open_files, fd, pos)
  /\ Returns("lseek", <<>>, {fd}, pos)
  /\ UNCHANGED <<inodes, next_inode_number, current_directory, files, path_map>>
  /\ UNCHANGED <<fd_table, umask_value>>

\* Slip: the handle is moved before the new position is looked at, in usize.
LseekEarly(fd, offset, whence) ==
  \/ /\ Accessible(fd) /\ whence \in {0, 1, 2}
     /\ open_files' = Positioned(open_files, fd, AsUsize(SeekFrom(fd, whence) + offset))
     /\ Returns("lseek", <<>>, {fd},
                IF SeekFrom(fd, whence) + offset < 0 THEN -1 ELSE SeekFrom(fd, whence) + offset)
     /\ UNCHANGED <<inodes, next_inode_number, current_directory, files, path_map>>
     /\ UNCHANGED <<fd_table, umask_value>>
  \/ ~(Accessible(fd) /\ whence \in {0, 1, 2}) /\ Fails("lseek", <<>>)

\* A sum beyond the last position wraps around to a negative one, or, where
\* the build checks arithmetic, panics.
Lseek(fd, offset, whence) ==
  LET legal == Accessible(fd) /\ whence \in {0, 1, 2}
      sum == SeekFrom(fd, whence) + offset
  IN \/ legal /\ sum \in 0..MaxPosition /\ Seeks(fd, sum)
     \/ (legal => sum \notin 0..MaxPosition) /\ Fails("lseek", <<>>)
     \/ legal /\ sum > MaxPosition /\ Panics("lseek", <<>>)

\* set_file_size: without a content there is nothing to resize.
SetFileSize(ino, len, call, names) ==
  \/ /\ HasKey(files, ino) => len <= MaxLen
     /\ files' = Update(files, ino, Resized(Get(files, ino), len))
     /\ SizeRefreshed(ino)
     /\ Returns(call, names, {}, 0)
     /\ UNCHANGED <<next_inode_number, current_directory, path_map>>
     /\ UNCHANGED <<fd_table, open_files, umask_value>>
  \/ /\ HasKey(files, ino) /\ len > MaxLen
     /\ Panics(call, names)

Truncate(path, length) ==
  \/ /\ Known(Absolute(path)) /\ length >= 0
     /\ SetFileSize(InodeOf(Absolute(path)), AsUsize(length), "truncate", <<Absolute(path)>>)
  \/ /\ ~Known(Absolute(path)) \/ length < 0
     /\ Fails("truncate", <<Absolute(path)>>)

\* A handle is not needed.
Ftruncate(fd, length) ==
  \/ /\ fd \in DOMAIN fd_table /\ length >= 0
     /\ SetFileSize(fd_table[fd], AsUsize(length), "ftruncate", <<>>)
  \/ /\ fd \notin DOMAIN fd_table \/ length < 0
     /\ Fails("ftruncate", <<>>)

\* The mode is ignored; the content is taken for granted with unwrap().
Fallocate(fd, offset, len) ==
  LET ino == fd_table[fd]
      end == AsUsize(offset + len)
      legal == fd \in DOMAIN fd_table /\ offset >= 0 /\ len >= 0
  IN \/ ~legal /\ Fails("fallocate", <<>>)
     \/ /\ legal
        /\ ~HasKey(files, ino) \/ end > MaxLen
        /\ Panics("fallocate", <<>>)
     \/ /\ legal
        /\ HasKey(files, ino) /\ end <= MaxLen
        /\ files' = Update(files, ino,
                           Resized(Get(files, ino), Max({end, DataLen(files, ino)})))
        /\ SizeRefreshed(ino)
        /\ Returns("fallocate", <<>>, {}, 0)
        /\ UNCHANGED <<next_inode_number, current_directory, path_map>>
        /\ UNCHANGED <<fd_table, open_files, umask_value>>

PosixFallocate(fd, offset, len) == Fallocate(fd, offset, len)
=============================================================================
