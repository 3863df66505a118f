# A TLA+ development of wasm-vfs

wasm-vfs is an in-memory POSIX-like file system compiled to WebAssembly. Its
calls are `extern "C"` functions (`wasm_vfs_open`, `wasm_vfs_read`, ...) over one
global `Proc` value behind a spinlock. This directory holds TLA+ modules of
that program, TLC configurations that check them on small instances, and proofs
that TLAPS checks for every instance. Paths below are those of the repository;
line numbers are in `src/system.rs` unless another file is named.

## The system

| Component | State | Operations | Correct when |
|---|---|---|---|
| `HashMap` (`src/collections/mod.rs`) | a vector of `CAP` optional (key, value) slots | `insert` (first slot that is empty or has the key), `get`, `get_mut`, `remove`, `contains_key`, `clear`, `iter` | it acts as a map of at most `CAP` keys; each key held once |
| `PathBuf` (`src/path/mod.rs`) | none: a string | `join`, `parent`, `file_name`, `is_absolute` | resolved paths are absolute |
| `FileSystem` (`src/filesystem.rs`) | `inodes`, `next_inode_number`, `current_directory`, `files` (contents), `path_map` (names) | `new`, `create_file`, `lookup_inode_by_path` | inode n is at index n for ever; every number kept anywhere has an inode |
| `Proc` (54-172) | the file system, `fd_table` (1024), `open_files` (256 handles), `umask_value` | `allocate_fd`, `get_absolute_path`, `insert_directory_entry`, `set_file_size`, `check_access` | the two descriptor tables agree |
| Descriptor calls (253-333, 445-508) | | `open`, `creat`, `openat`, `close`, `dup`, `dup2` | a call touches the descriptors it was asked to, no other |
| Reading and writing (336-440, 511-874, 991-1024, 1436-1499) | | `read`, `write`, `pread64`, `pwrite64`, `sendfile`, `sendfile64`, `splice`, `lseek`, `truncate`, `ftruncate`, `fallocate`, `posix_fallocate` | offsets move by what was read or written; appends keep contents; `inode.size` follows the content |
| Namespace calls (1085-1121, 1247-1433) | | `rename`, `link`, `unlink`, `symlink`, `mkdir`, `rmdir`, `chdir`, `fchdir`, their `-at` forms | exactly the names asked for change |
| Attributes (207-245, 1027-1065, 1124-1244) | | `stat`, `chmod`, `chown`, `access`, `umask` and relatives | `stat` reports the last change |
| Directory listing (877-988) | the handle's `position` | `getdents`, `getdents64` | each entry listed once over a series of calls |
| Standard output (366-403) | `STDOUT_LINE_ACCUM`, a static outside the lock | `write` to descriptor 1 | lines reach the host whole and in order |
| Global process (178-197, 1676-1733), `src/sync` | `GLOBAL_PROC`, the lock bit | `get_or_init_proc`, `lock`, `unlock`, `wasm_vfs_mount_in_memory` | one `Proc`; every call gets the lock in the end |
| No-ops (1502-1580) | none | `flock`, `mmap`, `sync`, ... | |
| `src/ffi`, `src/lazy_static` (unused), `src/cmp`, `src/init.rs`, `src/lib.rs` | none | string conversion, `min`, declarations | |

How they interact: a call converts its strings, takes the lock and keeps it to
its return, and works on `Proc` by plain function calls; nothing is persisted
and no messages pass. What makes the program hard is therefore less
interleaving than *sequences* of calls: a first-fit table whose insert may
duplicate a key, tables that are full and say nothing, two descriptor tables of
different size, numbers and names kept in several places, early returns after
half of the work, `unwrap`s with the lock held, and casts from 64-bit offsets
to a 32-bit `usize`. Concurrency enters at the edges: the first call, the lock,
a panic under it, and the line buffer. `PROJECT.json` lists each hazard at its
line, with the properties that watch it.

## Modules

Two groups of modules. In the first, over `Proc`, each call is one action, because
it holds the lock from its first use of the state to its return. The second,
over `GlobalProc` and `Stdout`, takes the calls apart, step by step and caller by
caller, and shows how far that lock can be relied on.

| Module | Extends | Models |
|---|---|---|
| `HashMap` | | slots as a function from slot numbers in use to `[key, val]`; `Insert`, `Get`, `Update` (through `get_mut`), `Remove` |
| `BoundedMap` | | the specification of a map with at most `Cap` keys |
| `FreshMap` | `HashMap` | the table under the discipline "insert absent keys, `get_mut` present ones"; `Abstract` maps it to `BoundedMap` |
| `NameTable` | `BoundedMap` | adds `Move`, what a rename promises |
| `PathBuf` | | a path is a sequence of segments, `Nil` for the empty one: `/a` is `<<Nil, a>>`, `/a/` is `<<Nil, a, Nil>>`, `/` is `<<Nil, Nil>>`. No normalisation, as in the code |
| `FileSystem` | `HashMap`, `PathBuf` | `inodes[n + 1]` is inode n; `files` and `path_map` are `HashMap`s |
| `Proc` | `FileSystem` | `fd_table` as a function on the slots in use, `open_files`, the helpers; `Returns`, `Fails` and `Panics` say how a call ends |
| `Descriptors`, `Namespace`, `FileIO`, `Attributes` | `Proc` | the calls, one operator each; `NoOp` of `Attributes` stands for all calls that do nothing |
| `Dirents` | `Namespace`, `FileIO` | `getdents`: the entries of a directory are slots of `path_map`, in order; `Listed` is what a call returns, `Counted` how far the position moves |
| `Vfs` | the five | `Next`, the invariants, the action properties |
| `Listing` | `Vfs` | clients that list a directory while names change; a history variable `listings` per descriptor, on which no call depends |
| `GlobalProc` | | callers, `GLOBAL_PROC` and its assignment in parts, the spinlock, guards, and of the `Proc` the descriptors in use |
| `DescriptorPool` | | what the lock is for: descriptors given out and taken back in single steps |
| `Stdout` | | the line buffer behind descriptor 1, and the host |
| `Callers` | `GlobalProc`, instance of `Stdout` | both together, with fairness |
| `MCVfs`, `MCListing`, `MCCallers` | | instances for TLC |
| `HashMapProofs`, `FreshMapProofs`, `TableProofs`, `VfsProofs`, `StepProofs`, `ListingProofs`, `GlobalProcProofs`, `CallersProofs` | | theorems |

Two variables are not the program's. `trapped` is TRUE once a call has
panicked: the target is built with `panic-strategy: abort`
(`no-libc-wasm32.json`), nothing unwinds, the guard is not dropped, so no later
call returns; every action requires `~trapped`. `last` records the latest call:
the paths it looked up, in order, the descriptors its caller asked it to change,
and its result. It guards nothing.

In `GlobalProc` a caller is in one call at a time: `pc` says where, and `stack` holds
the calls it is to make, those that a mount makes before the mount itself.

| Code | Step |
|---|---|
| `get_or_init_proc`, 192 | `Enter`: finds `GLOBAL_PROC` there, or begins to assign it |
| 193, one store of `Some(Mutex::new(Proc::new()))` after another | `Assign(c, part)`: the tag of the `Option`, the flag, the `Proc`, in any order |
| `lock`, `src/sync/mod.rs` 24-34 | `Acquire`: the attempt that succeeds; those that fail change nothing |
| `open` from 284 on | `Find`, then `Store`; or `FindNone`, the return of -1 |
| `close` | `Drop` |
| any other call | `Other`, which may panic: `pc` is "dead", with the guard kept |
| the loop of `wasm_vfs_mount_in_memory` | `MountFile` puts open, write and close before the mount on the stack; `MountEnd` |
| drop of the guard, `src/sync/mod.rs` 69-73 | `Unlock` clears the flag, whoever set it |

`raced` turns TRUE when a caller enters while another is assigning; it is the program's
data race, and what the properties say of the lock holds until then. The `Proc` that is
replaced in such a race is not dropped step by step: only the parts that end up in
`GLOBAL_PROC` are kept.

In `Stdout` each byte of a write is a step, and so are the call of the host function and the
`clear` after it: another writer, which may be the host function itself calling
back, can come between any two. Two appends at once are a data race in a `Vec`; its
modelled outcome is the loss of one of the bytes.

Threads: the target as configured has one. The concurrency modelled is what the code
provides for, a spinlock and `unsafe impl Sync`; with one caller, `Callers` is the
program as built today, and that instance is where the mount deadlocks.

Abstractions: bytes are small numbers; an inode's times (always 0) and a link's
target (only `readlink` reads it) are left out; flags that no code tests are
left out; the caller's buffer is represented by the bytes written and by the
count returned.

Constants that stand for the program's: `FilesCap` and `PathMapCap` (256),
`FdTableLen` (1024), `OpenFilesCap` (256), `UsizeMod` (2^32). Bounds of the model
alone, each tested in a guard: `MaxInodes` on `next_inode_number`, `MaxLen` on the
length of a content, `MaxPosition` on offsets. A write, copy or resize past `MaxLen`
panics in `FileIO`: it stands for the allocation that cannot be met.

Operators commented *slip* are plausible mistakes in a definition, with
`PROJECT.json` saying which property each of them breaks; nothing uses them.

## Runs

| Run | Configuration | Asks |
|---|---|---|
| `fresh_map` | `FreshMap.cfg` | is the first-fit table a map, if insert meets absent keys only? |
| `descriptors` | `MCDescriptors.cfg` | do the two descriptor tables stay in step, and no call touch another's descriptor? |
| `namespace` | `MCNamespace.cfg` | does each namespace call change exactly the names it should? |
| `file_io` | `MCFileIO.cfg` | do offsets, sizes and contents follow the calls? |
| `attributes` | `MCAttributes.cfg` | do permissions and owners change only where a caller asked? |
| `listing` | `MCListing.cfg` | what does a series of `getdents` calls return while names change? |
| `callers` | `MCCallers.cfg` | does the lock exclude, do calls return, are output lines whole? |
| `unlink_removes_name` | `MCUnlink.cfg` | violated: a name entered twice survives `unlink` |
| `fchdir_returns` | `MCFchdir.cfg` | violated: `fchdir` panics on a directory without a name |
| `truncate_sets_size` | `MCTruncate.cfg` | violated: a length beyond `usize` wraps |
| `mount_returns` | `MCMount.cfg` | violated: a mount of a file waits for the lock it holds |
| `deleted_files_make_room` | `MCDeletion.cfg` | violated: a deleted file keeps its place in the content table |

Bounds, and why they are enough:

- `fresh_map`: four keys over three slots, so the table fills, overflows and has
  holes before and after a key.
- `descriptors`: two paths and the root, six entries in `fd_table`, of which
  three may be handed out, two handles and one content, so each of the tables is
  full before the next one; descriptor arguments include -1, 1 and one too large.
- `namespace`: the root, an absolute name and a relative one that, under a working
  directory `/a`, is a third name; three names and three inodes fill both tables.
  Three entries are the fewest in which a name lies behind a hole. `ShallowCwd`
  stops at working directories deeper than `/a`; `NamesOnce` checks the step that
  doubles a name and goes no further, as the properties speak of tables without
  doubles. Descriptors are few here: `fchdir` needs one.
- `file_io`: a file and the root, two descriptors and so two on one file, opened one after
  the other or copied with `dup`, offsets
  before the start, inside and beyond a content of at most two bytes, and equal
  to the width of `usize`, here 3. `FewBytes` goes on from
  states whose bytes and offsets add up to at most three: each offset, and each
  content of the file, still occurs, but not all of them at once.
- `attributes`: `/b` and the relative `b`, which the working directory `/` makes the same name
  for `chmod` and a different one for `open`, so that both can exist; two modes, one with a
  bit beyond the nine; an owner other than the one files begin with; the root and two more
  inodes; one descriptor. `chdir` from the root to a directory `/b`, and no deeper
  (`OneBelowRoot`), after which `b` is resolved to another name.
- `listing`: the root, three names below it, one of them too long for a record, and
  one name below a directory; four slots, so that names move between slots before and
  after the position; records for one or two entries in the buffer. `Disturb` leaves the
  name of the root in place: without it open could begin no listing. Names held twice, which
  renames and links make here too, are included.
- `callers`: two callers, one descriptor to give (`FdTableLen` 4), so that a second `open`
  finds none; a mount of at most one file; writes of a line, of a line with the start of
  the next and of a part, and at most two bytes in all (`MaxSent`, tested when a write
  begins), so that two writes can meet with a newline in either. `FirstCallsApart` checks a
  state in which first calls have met and goes no further: what is claimed beyond it
  is types, which `CallersKeepTypes` proves. It cuts no behaviour in which the first
  calls do not meet, so the liveness properties are checked on whole behaviours.
- `mount_returns`: one caller, so that nobody else can hold the lock.
- `deleted_files_make_room`: two names, `open`, `unlink` and `close` (`DeletionSpec`), room
  for one content.

The runs use `VIEW WithoutLast`, which leaves `last` out of a state's
fingerprint; TLC still evaluates action properties on every step. Deadlock is not
an error where a panic or a bound stops every call. `FreshMap` and `descriptors`
check it.

### Fairness

Stated in `Callers` alone: a call over `Proc` is one step that always ends. `Fairness`
is `WF(Continue(c))` for each caller: inside a call nothing stops a caller but the
lock, the host function returns, and a thread is scheduled in the end. There is no
strong fairness, because `lock` is a loop of compare-and-exchange without a queue: a
caller may lose every attempt, and `CallReturnsWhenAlone` claims no more than that
it returns when the others are out. `Begin` has no fairness: no caller need call.
Each exception in these properties is a behaviour of the code: `Dead` (a panic
keeps the guard), `Mounting` (the deadlock below) and `raced`.

### What the properties say

- Full tables. `ContentUnlessFull`: a file lacks a content, and so refuses every
  write, only because the content table was full. `HandleLostWhenFull`: a
  descriptor without a handle first appears when `open_files` is full.
  `NamesChangeAsAsked`: a name is dropped only by a full `path_map`.
- Tables that must agree. `HandlesMatchTable`, `NoDanglingNumber`,
  `NumbersAreIndices`, `InodesArePermanent`, `CwdIsAbsolute`.
- One descriptor among many. `OtherDescriptorsKept`: what a caller did not name
  stays as it was, which is false as soon as `allocate_fd` hands out a slot in use
  or a duplicate shares its position. `OffsetsFollowResults`: an offset moves by
  the result of the call, except that a splice from a descriptor to itself moves
  it twice. `AppendsKeepContents`.
- Sizes. `SizesStrayOnlyBy`: `inode.size` stops being the content's length only in
  `open` with `O_TRUNC`, `sendfile` and `splice`, which do not set it.
- Panics. `FallocateSparesFiles`: the `unwrap` in `fallocate` is met only by what
  is not a file, or by a full content table.
- Offsets. `SeeksAreExact`: `lseek` returns -1 and moves nothing, or moves to where it says,
  also when the sum of position and offset overflows.
- Attributes. `AttributesChangeAsAsked`: not by an open that would create the file once
  more, nor by a rename, a resize or the umask, and not another file's by a path that is
  resolved differently.
- Listings. `NoneMissedUnlessRemoved`: a listing that went on until nothing was returned
  has returned every entry that was there throughout, unless one was removed meanwhile,
  which shifts the rest below the position. `NoneRepeatedUnlessAdded`: the converse, with one
  more exception, an entry behind a name too long for a record, which the position does not
  count: the entries before it are not repeated.
  `ListingIsBounded`: whatever happens in between, a client's loop over `getdents` ends.
- The lock. `GuardIsExclusive`, `DescriptorsHaveOneOwner`, `ImplementsPool`: `open` and `close`
  take several steps and act as if they took one, until first calls meet. `RacesOnlyAtFirst` bounds that exception: they meet before anybody
  has had the lock or a descriptor, and by the theorem `RacesAreOver` not once somebody has
  had the lock without. `LockIsReleased`:
  every early return gives the lock back. `CallReturnsWhenAlone`, `StdoutReturns`: the latter
  even when the lock is lost for ever.
- Output. `LinesAreWhole`: without overlapping writes each line reaches the host whole and
  once, and what has not gone out is the rest. With an overlap nothing like it holds, not even
  on one thread, where the host function may write in turn (see below).
- Names. `DoubledOnlyByReplacing`: the three calls that insert a name without
  looking whether it is taken are the only ones that can double it.
  `OrphansOnlyByReplacing`: the same three are the only ones that can leave an entry without
  its directory, because no call moves the names below one.

### What disagrees with the documentation

1. `HashMap::insert` stops at the first empty slot. After `unlink` of a name has left
   a hole, `rename`, `link` or `symlink` onto a name behind the hole enters it a second
   time; `unlink` then removes one entry, and the name still resolves (README,
   `unlink`: "Deletes a name from the filesystem").
2. `fchdir` (1115) unwraps the search for the directory's name. A directory that
   was opened and then removed has none.
3. `wasm_vfs_mount_in_memory` (1691) holds its guard while it calls `wasm_vfs_open`, which
   locks again: with a file to copy it never returns. The comment at 1676 speaks of
   "a single file to copy into the Wasm VFS".
4. `truncate` (1448) casts its `i64` length to `usize`; beyond 32 bits the file gets
   another size and the call returns 0.
5. `unlink` (1317) and `close` leave the inode and its content where they are, also when
   nothing leads to them any more (README, `unlink`: "If this name was the last link to a
   file and no processes have it open, the file is deleted"). Contents of such files fill the
   table, and a new file then has none.

A run shows each of these. Four more were met while modelling; the definitions have them, and
no run asks for them:

- `open` (267) creates a file with the mode as given; the comment at 66 says that the umask
  is subtracted, as `mkdir` (1393) and `symlink` (153) do.
- `dup` (467) and `dup2` (498) copy the offset; in POSIX, which the README claims and refers
  to, a descriptor and its copies share it.
- `getdents` (906) of a directory that has lost its names returns the entries of the root,
  where the README has it read "the contents of a directory".
- `write` to descriptor 1 (393) clears the line after the host function has returned. One
  that writes in turn gets its line once more, together with what it wrote, and not "a
  single line (including the trailing newline)" (372).

## Proofs

`tlapm` checks every theorem for all values of the constants that satisfy the
named assumptions (`FsAssumption`, `ProcAssumption`, `IOAssumption`,
`ArgAssumption`, `LongNameAssumption`, `NilAssumption`, `CapAssumption`,
`GlobalAssumption`, `StdoutAssumption`, `ListingAssumption`): capacities are natural
numbers, arguments have their types, `Nil` is no name, a table has fewer slots than
`usize` has values (it is indexed by it). The set of callers is arbitrary. Nothing else
is assumed. Every invariant and every action property of a passing run is proved; only
liveness is not.

- `HashMapProofs`: what `Insert`, `Update` and `Remove` do to the keys, the values
  and the well-formedness of a table, what they leave alone (`SameAt`: the slots of
  another key and what they hold), and what they do to the dictionary that lookups see.
  `DictOfInsert`: where keys are held once before and after it, an insert is a put, or drops
  the key and the table was full.
- `FreshMapProofs`: `FreshMapTypes`, `FreshMapInvariant` (`FMTypeOK` and `KeysHeldOnce`) and
  `FreshMapImplementsBoundedMap`. Each key held once is what makes `DictOf` of a table
  after `Remove` the old dictionary without the key: with a double, the other
  entry would come to light.
- `TableProofs`, `VfsProofs`: the invariant `IInv` of the whole of
  `Spec`, with one lemma per call. It conjoins `TypeOK`, `NumbersAreIndices`,
  `NoDanglingNumber`, `HandlesMatchTable` and `CwdIsAbsolute`, and `UniqueKeys(files)`. They
  support one another: a handle's number exists because the descriptor's does
  (`HandlesMatchTable`); `create_file` pushes an inode at the right index because
  the vector is as long as the next number; a content is held once because none has a
  number yet to come; a directory's kind is defined for every
  entry because none dangles; `CwdIsAbsolute` needs every name of a directory to be
  absolute because `fchdir` takes one of them. `Grows` (inodes keep number and
  kind) is what every call does to `inodes`, and lets the other parts survive. The
  theorems `VfsTypeOK`, `InodeNumbersAreIndices`, `NothingDangles`,
  `DescriptorTablesAgree`, `WorkingDirectoryIsAbsolute` and `InodesStay` follow. What a
  positioned write or a copy makes of a content (`OverwrittenFacts`, `CopyFacts`) is here too.
- `StepProofs`: what a step may do, proved for each group of tables in two stages. First one
  lemma says what any call at all does to the group, in a handful of forms; then the
  properties follow from the forms.
  - `EffectOnContents` (`ContentEffect`): inodes and contents stay, or attributes are set, or
    one content is assigned to, or an existing file is opened, or an inode is added. It gives
    `FilesHaveContents` (no form takes a content out, and a full table stays full),
    `FallocateIsSafe`, `AttributesFollowCalls` and `SizesFollowContents`.
  - `EffectOnDescriptors` (`DescriptorEffect`): nothing, one more, one fewer, one replaced,
    or positions moved. It gives `DescriptorsOfOthersKept`, and `HandlesLostWhenFull`, for
    which a `dup2` onto a descriptor in use must find room for the copy in the slot that it
    has emptied.
  - `EffectOnNames`: what each call, by its name and its paths, does to `path_map`. It gives
    `NamesDoubledOnlyByReplacing` and `NamesFollowCalls`, where the premise that names are
    held once after the step, too, is what rules out an insert into a hole before the name.
    `OrphansFollowReplacing` asks which call touches the slots of the directory's name:
    `unlink` and `rmdir` are ruled out by their guards, `open` and `mkdir` by the name being
    free, and that the inode stays a directory is `Grows`.
  - `SeeksSayWhere`, `OffsetsFollowCalls` and `AppendsLoseNothing` look into the calls that
    `last` names. They need one invariant more, `ContentsFit` (no content is longer than
    `MaxLen`): the end of a file, at which an append writes, is a `usize`, so that the cast
    leaves it alone.
- `ListingProofs`: listings over several calls. A position counts the entries given, while the
  next call takes those whose rank, among all entries of the directory, is at least the position.
  The invariant `ListingInv` relates the two: whoever holds the handle is where the listing is
  (`AtGiven`); until an entry is added, what was returned and is still there has a rank, among
  the names short enough for a record, below the position (`Behind`); until one is removed, what
  was there all along and has not been returned has a rank of at least the position (`Ahead`).
  `RankGrows` carries the last two through a change of names, `TakenCounts` and `NotTaken`
  through a call. `ListingsEnd`, `NoneMissed` and `NoneRepeated` follow. The ranks differ, one
  counting long names and the other not; they agree where no long name comes before (`SameRank`),
  and the rest is the exception `NoneRepeatedUnlessAdded` makes.
- `GlobalProcProofs`: the invariant `GlobalInv` of `GlobalSpec`, one lemma per step. Its parts:
  `GlobalTypeOK`; for each caller `OneCaller`, which ties `pc` to the stack and to
  what is left to assign (a caller that holds no call is idle, one in `Store` has an
  `open` on top); and, as long as first calls have not met, `Apart`: `Fresh` (until the tag is there
  nobody is past the assignment, and the one who assigns is alone), `Exclusive` (a guard
  exists exactly while a caller is inside, mounts included, and then the flag is set), `Owned`
  (descriptors held are in use and have one owner) and `Dropped` (a descriptor whose
  close has begun is nobody's). `Exclusive` is not inductive without `Fresh`, since an assignment clears the
  flag; `Owned` rests on `Exclusive`, since `Find` and `Store` are two steps
  (`AloneUnderLock`: nobody else is between them). `CallersKeepTypes`, `LockExcludes` and
  `OneOwnerEach` follow; `CallersShareAPool` maps `Store` to `Give`, `EnterClose`
  to `TakeBack`, and every other step to a stutter; once first calls have met, the pool
  promises nothing. (A mount never gets as far as its `close`.) `RacesAreEarly` and
  `RacesAreOver` are about that exception, and rest on `Fresh`: while somebody assigns nobody is
  past the assignment, so once somebody is, everybody finds `GLOBAL_PROC` there (`Settled`).
- `CallersProofs`: `CallersImplementGlobalProc`, every behaviour of `Callers` is one of `GlobalProc`;
  so `LockExcludesWriters` needs no proof of its own, and the other three carry over.
  `WholeLines` has an invariant of its own, `StdoutInv`: as long as no two writes overlap, at most
  one writer is inside, each line the host has ends in its only newline, the accumulator has a newline
  only when it is to go out, and what was `sent` is the lines followed by the accumulator, unless the
  host has just been given that too (`Out`). `FlattenSeq` is a recursion over a sequence, and
  induction is out of reach; that it appends a line where one is appended (`FlattenAppend`) is shown by
  taking the least prefix for which it would not.

Out of the prover's reach, and left to TLC: liveness (`LockIsReleased`, `CallReturnsWhenAlone`,
`StdoutReturns`), with the `ENABLED` of its fairness. The five runs that find a violation are
counterexamples, and need no proof.

## Plan

Every call that the library exports and that does something is modelled, and every safety
property that a passing run checks is proved. What is left:

1. `PathBuf` against a reference definition over bounded paths.

## Not modelled

- The C string conversion in `src/ffi`, pointer casts over guest memory: the models begin
  with the path it yields. Null and invalid pointers; a null array given to a mount is an
  empty one.
- The contents of the buffers that `stat`, `getcwd`, `readlink` and `getdents` fill, but
  for which entries `getdents` returns; `d_off` and `d_reclen`, of which the code makes constants.
- What a data race does to memory beyond a lost byte or a flag cleared.
- `src/lazy_static` and `init_global_proc` (182-188), which nothing uses, `Mutex::get_mut`, the
  accessor past the lock, which nothing calls, `wasm_vfs_init_proc`, which is `unimplemented!()`, and
  the commented-out host mount (1582-1673).
- `src/cmp` (a `min`), `src/init.rs` (all comments) and `src/lib.rs` (declarations).
