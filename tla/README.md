# Models and proofs of system-sw

TLA+ specifications of the programs in this repository: a small file system (a
Linux kernel module and its formatter), two memory allocators, a simulator of
virtual memory and a library of stacked state machines. The specifications are
written from the code, model-checked with TLC on small instances, and proved
about with TLAPS.

- [Inventory](#inventory)
- [Plan](#plan)
- [The modules](#the-modules)
- [Runs: what is checked, and the bounds](#runs)
- [Fairness](#fairness)
- [Proofs](#proofs)
- [Where the code and its comments disagree](#findings)
- [What is only checked, and what is not modelled](#limits)

## Inventory

### ffs: directories and files (`src/fs/ffs.c`, `ffs.h`, `const.h`)

State. On disk: a superblock, a bitmap of blocks, a bitmap of descriptors, a
table of descriptors (`struct ffs_fd`: type, datablock, links, size); each file
has a *datablock* that lists its blocks, and a directory is a file of entries
(`struct ffs_directory_entry`: descriptor, name). In memory: both bitmaps, a
copy of the descriptor in each inode (`FFS_I(inode)->fd`), and `sbi->inodes`,
the list `ffs_iget` searches.

Operations. `ffs_lookup`, `ffs_create`, `ffs_mkdir`, `ffs_symlink` (all three
through `create_entry`), `ffs_link`, `ffs_unlink`, `ffs_rmdir` (through
`remove_from_dir`, and `ffs_clear_fd` when the last name goes), `ffs_setattr`,
`ffs_follow_link`, `file_read`, `file_write`, `ffs_readdir`, mount
(`ffs_read_root`, `ffs_fill_super`) and unmount.

Interaction. The VFS calls these with the mutex of the parent directory held,
except `write` and `read`, which hold nothing. Every disk write is synchronous:
mark the buffer, sync it, wait. There is no journal and no order between
operations other than that of these writes.

What is hard. A crash between any two of the five to twelve writes of an
operation; a full device half way through `create_entry` or `file_write`; the
link count and the names, written by different writes; blocks freed one by one;
memory and disk that must agree for the next mount to see what the last one saw.

Contents. `file_write` extends a file block by block and sleeps at every one;
nothing serialises two writes of one file, or a write and a truncation.
`file_read` copies block by block. `ffs_setattr` changes the size. `ffs_unlink`
frees a file with its last name, open or not.

What makes it correct. A name leads to a descriptor in use and to allocated
blocks at every moment, no block has two owners, sizes never run ahead of
blocks, names are unique, link counts are exact, no directory with entries is cut
off from the root, nothing leaks without a crash, and each call changes the
namespace in one step or not at all. A read gives what
was written last, and every block of a file is its own.

### ffs: the list of inodes (`sbi->inodes`)

`ffs_read_root` and `create_entry` put an inode on the list, `ffs_unlink` takes
it off, `ffs_iget` walks it for `ffs_lookup`. The only protection is the mutex of
the directory each call is made in, so calls in two directories meet. The VFS
keeps a dentry for what a lookup found and may drop it, and the inode with it,
whose memory `new_inode` hands out again. Correct when the list holds the inode
of every file and no other, and a lookup finds the inode of its name.

### ffs: bitmaps and locks (`ffs_get_empty_fd`, `ffs_get_empty_block`, `ffs_clear_fd`)

State. The two bitmaps, their buffers, the disk; two global spinlocks;
the mutexes of directories.

What is hard. The search tests a bit without the lock. The bitmap is copied to
its buffer and written, and waited for, with the spinlock held.
`ffs_clear_fd` holds both.

What makes it correct. A set bit belongs to one file, what a file has is marked
on the disk, a bitmap at rest is the same on disk and in memory, and every call
returns.

### mkfs.ffs (`src/fs/mkfs.ffs/mkfs.c`)

One pass that writes the image: geometry, bitmaps, three descriptors (the root
and the files `hello` and `world`), their datablocks and contents. The driver
computes the same geometry again, from the same numbers but not in the same way,
loads the bitmaps at a mount and writes one block of them after each change.
Correct when both mean the same blocks, and a mount loads what was written.

### virtual memory simulator (`src/virtual-memory/mem.py`, `mem2.py`)

State. Processes (`PCB`: pages, last page), virtual pages with flags, a physical
page and a countdown, the stack `empty_pages`. Operations: a quantum (a page is
chosen or requested, made resident, touched), replacement with one of three
algorithms, renewal of a process (its pages are killed), resetting of flags
after each quantum. One thread; the choices are random. Correct when no frame
is lost or held twice through any sequence of faults, replacements and renewals,
no process knows a killed page, and a fault is always served.

### linear allocator (`src/linear-allocator/allocator.c`, `main.c`)

State. One array of blocks with headers (busy flag, size, size of the block
before). Operations: `alc_init`, `mem_alloc` (first fit), `mem_free` (merging),
`mem_realloc` (shrink; grow to the right, the left, both sides; move). Correct
when what an owner wrote stays until it frees or rewrites it, the headers tile
the memory, and free memory comes back whole.

### zone allocator (`src/zone-allocator/allocator.c`, `main.c`)

State. Pages with a state each (free, busy, part of a multi-page block, or a
descriptor with a list of free blocks of one size class), lists of pages per
class; descriptors live in the page itself or in a block of another page, which
`mem_alloc` and `mem_free` call each other for. Correct when no block is given
out twice and pages come back. Hard: a full page loses its descriptor and gets a
new one with the next free; that needs an allocation, which can fail.

### state machine library (`src/email/machine.py`) and recognisers (`email.py`, `email2.py`, `conf2.py`)

State. A stack of running machines; per context the transitions, the triggers
that push another machine, a flag that disables triggers. Operations:
`process` (a character to the machine on top), a trigger (push), `stop` (pop,
and send pushed-back characters to the parent). Correct when each character is
consumed by one machine, and pops match pushes: `conf2.py` parses its text
without the comments. `email.py` (written by hand) and `email2.py` (a table)
should print the same addresses.

### Not programs

`email/conf.py` does not parse and `email/email3.py` raises at its start. The
Makefiles, `fs/test.sh` and `fs/sftp-config.json` build and deploy.

## Plan

In order of importance; (x) is done.

1. (x) `Ffs` with `FfsProofs`: directory operations, contiguous writes, crashes.
2. (x) `FfsNamespace`, `FfsRefinement`: what the operations promise, and that
   `Ffs` keeps it.
3. (x) `FfsBitmap` with `FfsBitmapProofs`: the same calls, overlapping.
4. (x) `VirtualMemory` with `VirtualMemoryProofs`.
5. (x) `LinearAllocator`.
6. (x) `FfsFile`: contents of files, truncation, gaps, open files that lose
   their name, overlapping writes.
7. (x) `FfsLayout` with `FfsLayoutProofs`: mkfs's geometry against the driver's.
8. (x) `FfsInodes`: the list of inodes, access by access.
9. (x) `Heap`; `ZoneAllocator`; both allocators implement it.
10. (x) `Machine`, `ConfParser`, `Emails`.
11. (x) `FfsProofs`: the crash invariants of `Ffs` for every size.
12. (x) `FfsProofs`, last part: each step of `Ffs` as a step or stutter of
    `FfsNamespace`.
13. (x) `FfsFileProofs`: contents and blocks of files.
14. (x) `LinearAllocatorProofs`: the boundary-tag heap, and that it implements
    `Heap`.
15. (x) `FfsInodesProofs`: the list of inodes while one directory changes.
16. (x) `ZoneAllocatorProofs`: the zone allocator's tables, and that it
    implements `Heap`.

## The modules

### Ffs

One action per disk write, so that a crash (`Crash`) may fall between any two.
One operation runs at a time; `op` holds its program counter and registers.

| Actions | Code |
|---|---|
| `BeginCreate`, `GetBlock`, `ZeroIndex`, `WriteFd` | `create_entry`, for create, mkdir, symlink |
| `BeginWrite`; `WriteAlloc`, `WriteIndex`, `WriteData`, `WriteSize` | `ffs_file_write`; the loop of `file_write` |
| `BeginLink`, `IncLinks` | `ffs_link` |
| `BeginUnlink`, `Shrink`, `DecLinks` | `ffs_unlink`, `ffs_rmdir`, `remove_from_dir` |
| `ClearBlock`, `ClearIndex`, `ClearFd` | `ffs_clear_fd` |
| `Crash` | the machine stops; `ffs_read_root` mounts the image |

`file_write` is entered from four places (appending an entry, the target of a
symlink, moving the tail of a directory, the system call); `op.ret` says where
it returns to. Data is counted in *cells* of 16 bytes, one directory entry: user
data is a `Blank` cell. `NoBlock` is the -1 that results when
`ffs_get_empty_block` finds nothing and the caller does not look; a thread that
uses it dies in `Oops` with its directory's mutex held, and what it wrote stays.

Two things need care. A crash can leave a file with more names than its link
count (`ffs_link` writes the name first), or an entry twice (`remove_from_dir`
moves the tail first). The variable `torn` is a history of those files and of
files that later share a name with them; the safety properties speak of the
files outside it (`Intact`). Nothing in the code repairs a torn file, and an
unlink of one of its names frees it under the other: that is what the driver
does, and `OpsOnTorn` says whether operations go on after such a crash. The
properties would be false without the exception; the run `ffs_core` keeps
`OpsOnTorn = TRUE` to show that the damage does not spread to other files.
`TearsAreKnown` says what the exception is worth: a file is torn by a crash
between the two writes of `ffs_link`, which tears the file it links, or between
moving the tail and shortening the directory, which tears the file whose entry
was moved last, and by nothing else.

`NothingCutOff` is about `ffs_rmdir` (404), which looks at the directory's size
before a dozen writes: no directory that has entries on the disk is ever off the
path from the root. `BeginUnlink` moves the tail of a directory as the code means
to. The code uses `memcpy` (266) on a source and a destination that overlap,
which C leaves undefined and `memmove` would do right; a copy that starts at the lower end, which
the kernel's `memcpy` is, gives the same result here.

### FfsNamespace and FfsRefinement

The abstract specification is a set `ns` of triples (directory, name, file) and
at most one call. A call takes effect in one step (`Bind`, `Unbind`), returns
only after it, and a crash (`Cut`) forgets the call and keeps the namespace.
`FfsRefinement` maps `ns` to `Triples(table)`, the entries a *remount* would
find. A call of the code has up to twelve disk writes; the refinement says that
exactly one of them is where it takes effect. `FfsNamespace` has no run of its
own: what it says of the code, it says through the refinement.

### FfsBitmap

Processes that create, write and unlink, each with one file. A search reads one
bit per step; the steps of `ffs_write_*_bitmask` are the copy and the end of the
input-output. The scheduler is explicit: `cpu` is the set of running processes,
a process in a disk write is not in it, one that waits for a spinlock is. The
model has its own small notion of a file (`held`), for its subject is who gets
which bit. `MCFfsBitmapCpus` runs it on a machine of one CPU or of two.

### FfsFile

Contents: a block is an array of words, and a datablock is such an array too
(word 0 the count, word i the i-th block), so that a number can be taken for
data and data for a number, as in the code. `Write` is the entry of `file_write`,
with what it reads before it sleeps; `Grow`, `SetSlot`, `Put` and `WriteEnd` are
the parts of its loop between two sleeps. `SetSize` is `ffs_setattr`, `Unlink`
the freeing part of `ffs_unlink`, `FileRead` the loop of `file_read` and
`ReadTurn` its body. `want` is
what POSIX says the file holds. A directory entry is abstracted to `named`, an
open file to the process that holds it.

The driver is right for a part of what programs may do and wrong for the rest.
`Uses` names the rest: truncation by a block or more (`"shrink"`), truncation to
a larger size (`"expand"`), writes beyond the end (`"gap"`), unlinking an open
file (`"orphan"`), two calls at once on one file (`"overlap"`): a write, or a
truncation of any kind, while a write of the file sleeps. No lock of the driver
keeps those apart, so that a program must. Without any of
them the run `file_contents` holds; what each of them breaks, and reads at an
offset and files longer than the index, is under [what does not
hold](#does-not-hold).

### FfsLayout

`Geometry`, `Mkfs`: what mkfs writes in the two bitmaps. `Mount`: the loading
loops of `ffs_read_root`, whose offset `Copied(i)` goes down. `TakeBlock`,
`TakeFd`, `FreeBlock`, `FreeFd`: one bit of a bitmap and `Written`, the block of
the bitmap that holds it. `Unmount` is also the power cut: nothing is written. A
block of the disk is the set of its bits; blocks without a bitmap are not looked
at. `blocks` and `fds` are a history of what belongs to files.

### FfsInodes

The list as pointers, and one action per access to it: `Add1` to `Add4` are the
four stores of `hlist_add_head`, `Del1` to `Del3` those of `hlist_del`, `Walk`
one turn of `ffs_iget`. `Create`, `Enter`, `Unlink`, `ClearFd`, `Gone` are what
surrounds them, `Busy` the mutex of a directory. A dentry holds the only
reference to its inode except where `create_entry` took one more with `dget`
(`pinned`); `Shrink` is the VFS dropping a dentry. `oops` means that a process
followed a poisoned pointer or read a freed inode: nothing is known after that.
`Reach` is what the walk from the head passes.

An inode is a piece of memory of the cache (`ffs_alloc_inode`,
`ffs_destroy_inode`). `Create` takes one that was freed, whatever its `list_node`
still says, or one not used yet (`Spare`). What was freed may still be in the
list, when the VFS has dropped its dentry; a create that is given such an inode
sets the history variable `relisted`, and its `hlist_add_head` bends the list
into a circle. That is what the driver does, and no property of the list
survives it: all of them speak of the time before ([what does not
hold](#does-not-hold)). `PlaceKept` is about lookups that meet a removal
elsewhere: a lookup on the list stays on it, from store to store, until it has
found its file, unless the inode it stands on is itself removed; and a pointer
into nowhere is met only by a lookup that lost its place so, or where a dropped
inode is still listed.

### VirtualMemory

Both programs, chosen by `Variant`; the three algorithms, chosen by `Algorithm`.
`MCVirtualMemory` lets a behaviour be one of either. One action for each step of
a quantum. The lifetime of a process, its choice of page and whether it writes
are random in the code and nondeterministic here. The counters that the programs
print are left out.

### LinearAllocator

Memory in units of 4 bytes, to which `ceil_4` rounds. A unit holds a header's
first or later part, or a unit of data with its owner's name: a header that
lands in data, or data in a header, can be told. `Alloc`, `Free`, and one action
per branch of `mem_realloc`; owners fill blocks as `main.c` does. A request that
differs from the size of a block by less than a unit rewrites the header as it
was and is left out. The code calls `memfree`, which nothing defines;
`ReallocMove` takes it to be `mem_free`.

Two branches of `mem_realloc` leave the heap inconsistent: taking all of a free
block on the left when there is a nonempty block before it
(`allocator.c:171-185`), and growing to both sides when something is left over
that is not more than a header (`allocator.c:193-211`): the grown block gets the
size asked for, and what follows it is neither part of it nor a block. `Corrupting`
says which of the two happen. The run `linear_heap` excludes both, to show that
everything else is right.

### Heap

What an allocator promises: a block handed out, or moved by `mem_realloc`, lies
in memory and shares nothing with the blocks others hold. `LinearAllocator` and
`ZoneAllocator` map what their callers hold to `held`, and `HeapSpec` is that
every call of theirs is a step of the heap, or none if it returns NULL.

### ZoneAllocator

Memory in units of the smallest block, which is what `round_pow_2` makes of a
descriptor; class k has blocks of 2^k units. `mi` holds the tables; the
descriptor of a page of the smallest class lies in its first block, that of any
other page in a block of the smallest class. `mem_alloc` and `mem_free` call each
other for those, once and never deeper: `MemAlloc0` and `MemFree0` are the inner
calls. An operator takes a state and gives the state after the call (allocating:
one for each block that may be returned, as the model does not keep the order of
a free list). `lost` is a history of what failed calls have made unreachable
(no descriptor for a new page, or for a freed block of a full page), `hit` of
writes to descriptors that are none. `Wide` tells a build with pointers wider
than int: there the index of a full page is read from memory its descriptor no
longer owns. `AsChar` is the type of `page_classes`. Pages are a power of two,
which the code does not ask of `-p`.

The model has no data. `ContentsKept`, which `main.c` tests with a checksum, is
therefore only that no block with an owner is written as if it were a
descriptor. That lists, links and descriptors lie in nobody's block is `Accounted`, in
`WellFormed`; that `mem_realloc` copies the right bytes is not modelled (it is in
`LinearAllocator`).

### Machine, ConfParser, Emails

`Machine` has the lookup of `machine.py`. `ConfParser` is `conf2.py` on it, with
the stack, the triggers and the characters that a comment pushes back when it
stops; its reference, `Stripped`, removes the comments from the text without any
machine. `Emails` runs `email.py` and `email2.py` on the same text. `MCMachines`
takes one or the other.

### Mutants

Operators marked `Mutant` are altered forms of the definition they precede, each
a plausible slip (a guard dropped, a write forgotten, an off-by-one). No
specification uses them. Each property is known to be violated when one of them
takes the place of the original, which shows that the property is about the code
and the bounds are large enough to see it.

## Runs

| Run | What it asks | Bounds |
|---|---|---|
| `ffs_core` | What do four operations and a crash anywhere leave: `NoDangling`, `SizesFit`, `ExclusiveBlocks`, `LinkCounts`, `NoLeak`, `MemoryIsDisk`, `UniqueNames`, `NothingCutOff`? Which crashes tear a file (`TearsAreKnown`)? Does each call take effect in one of its disk writes, and end? | 9 blocks, of which mkfs leaves 2; 4 descriptors, 1 free; 2 cells to a block; 3 names |
| `bitmap_one_directory` | Is the unlocked search safe under the mutex? | 3 processes, 4 bits |
| `bitmap_calls` | Can bitmap writes overtake each other, does every call return, when does the system stop? | 2 processes, 2 directories, 1 or 2 CPUs, 3 bits, all three calls |
| `bitmap_race` | Is the bit still clear when it is set? No: see below | 2 processes, 2 directories |
| `vm` | Are frames and pages conserved in both programs? Does every quantum end? | 2 frames, 2 processes of 2 pages, 3 pages requested; `mem2.py` with `choice_nru`, `mem.py` with `choice_lru` |
| `linear_heap` | Does the heap survive any order of calls? | 21 units, header of 2, 3 blocks, requests of 1, 2, 6 |
| `file_contents` | Does a file read back what was written, does it own its blocks, are they freed? | 5 calls of 2 processes on 2 files, 3 words to a block, files of 2 blocks, 5 data blocks, which two files fill |
| `layout_remount` | Does every mount load what belongs to files, are the bitmaps on the disk right at any time? | blocks of 2 bytes, images of 14, 15 and 16 blocks, 3 or 5 descriptors |
| `inodes` | Is the list right between calls, does a lookup find its file and keep its place, does every call return? | 2 processes, 2 directories, one of which changes; 4 numbers, memory for 4 inodes; dentries are dropped |
| `zone_heap` | Is memory accounted for, are the lists exact, does it come back whole, do callers see a heap, even when there is no room for a descriptor? | 3 pages of 8 units, requests of 1, 2, 4 and 16 units, 7 blocks |
| `zone_wide` | Does an owner find its data in a 64-bit build? No: see below | 3 pages of 8 units, requests of 1, 2 and 4 units, 7 blocks |
| `machines` | Does `conf2.py` parse the text without its comments? Do the two address programs agree, and print what is in the text? | all texts of 6 characters, for `conf2.py` from 9 classes and after 3 beginnings |

Several properties are conjunctions. `MarksAreRight` of `FfsBitmap` is its type
invariant, `HeldIsOnDisk` (what a file has is marked on the disk) and
`NothingLost` (what is marked belongs to a file). `WellFormed` of
`LinearAllocator`: `Tiled` (the headers cover the memory, each knows the size of
the one before) and `BusyIsOwned` (a busy block has one owner). `WellFormed` of
`ZoneAllocator`: `Accounted` (every unit is part of one thing: an owner's block,
a free one of some page, a descriptor, or what is lost) and `Listed` (the lists
say what the pages say). `BlocksOwned`: every block of a file is marked and its
own. `ListSound`: between calls the list holds the inode of each file, doubly
linked. `NoLeak` includes `CrashCost`, at most one descriptor lost per crash.
`AddressesOfText` is `SameAddresses` and `PrintedIsThere`. The type invariants
of `Ffs` and `VirtualMemory` are not checked but proved.

Why the bounds are enough. With 2 free blocks and 1 free descriptor the device
fills in every third operation, so the paths without a block and without a
descriptor are reached together with every kind of operation. Two cells to a
block make every second entry cross into a new block, and moving the tail of a
directory spans blocks. A fourth operation can reuse what the third freed and
the first allocated; a longer history would only repeat such pairs, since names,
blocks and descriptors are reused by then; what it could still show is left to
the proofs. In `FfsBitmap` a race has two parties; the third process shows that
a waiter in between does no harm. In `VirtualMemory` three pages in two frames
force replacement, and one of them is killed while swapped out. In
`LinearAllocator` the requests are such that a remainder is smaller than, as
large as and larger than a header, and every branch is taken, the one to both
sides with and without a remainder. In `FfsFile` a write of four words crosses a
block of three, fills the index (two slots) and may meet a full device; five
calls let a file take what another has freed and read it back. In `FfsLayout`
the counts of blocks and files are and are not multiples of eight. In
`FfsInodes` numbers and inodes are reused, and the searches of the other
directory meet every store of a create or an unlink. In `ZoneAllocator` both pages that callers
can have fill up with descriptors and blocks of both kinds, a block of two pages
takes both, and a block of 16 units leaves no page for a descriptor: calls fail
and what they lose is counted. In `MCVirtualMemory` each program is run with the
algorithm that reads the flags it resets. Six characters of `conf2.py`'s text
are enough for a comment of each kind with a character before and after it,
nested starts and ends, and a quoted comment sign.

`CHECK_DEADLOCK FALSE` stands where the bounds end a behaviour (`MaxOps`,
`MaxVpid`, `MaxCrashes`, `NInodes`, `MaxLen`, `MaxLive` with no request that
still fits) or the system really stops: a dead thread, or every
CPU spinning, which `KnownStops` states to be the only two reasons in
`FfsBitmap`.

## Fairness

- `Ffs`: `WF_vars(Step)`. A system call that has begun runs; operations do not
  overlap in this model, so nothing it waits for is taken. Beginning an
  operation and crashing are not fair.
- `FfsBitmap`: a process on a CPU runs (weak); `Enter`, `Lock` and `IoDone` are
  strongly fair: the mutex queues its waiters, the spinlocks of the kernel are
  ticket locks, the disk answers and the scheduler serves whom it answers.
    `EveryCallReturns` is false as it stands on one CPU, where the holder of a
  spinlock may sleep while another spins, and on a full device, where a thread
  dies with its locks; it says that a call returns unless the system is in one of
  those states (`Stopped`), which `KnownStops` shows to be the only ends.
- `FfsInodes`: `WF_vars(Step(p))` for each process: a call that has begun runs,
  for nothing it does waits (the mutex is taken when it begins). `CallsReturn`
  says that no walk runs in a circle, unless one has strayed or the list was bent
  into one (`relisted`).
- `VirtualMemory`: weak fairness of `Next`: one thread without input.

## Proofs

The theorems hold for every value of the constants that satisfies the named
assumptions, and no bound of a run enters them other than as a constant.

`FfsProofs`. `TypeCorrect` and `RemountChangesNothing` from `IInv ==
TypeOK /\ MemInv /\ ShrinkInv`. `MemoryIsDisk` speaks of rest only and is not
inductive; `MemInv` says what holds in between: the copy in memory may be ahead
of the disk for one descriptor, the one `create_entry` has not yet written or
`ffs_clear_fd` is tearing down (`Pending`). `ShrinkInv` is needed for the types:
a directory is shortened only when it has an entry. One lemma per action.

In the same module, `NothingDangles`, `SizesNeverRunAhead`, `BlocksAreExclusive`,
`LinksAreCounted`, `NamesAreUnique`, `NothingLeaks` and `DirectoriesStayReachable`:
what the run `ffs_core` asks of a crash, for every size of device, table and block
and any number of operations and crashes. None of the seven is inductive, and they need each other:
that a freed block has no second owner needs the link count to be right, the
link count needs a name to be there once, and names are read through blocks.
`SafeInv` says where each thing is while an operation is between two of its
writes. Its main parts:

- `FilesInv`: a file that an entry leads to, or that the operation is about, is
  `Sound` (descriptor and blocks marked, none listed twice, the size covered),
  and no two such files (`Live`) share a block. `FlightInv` and `PendingInv`: the
  blocks and the descriptor that the operation has marked and not yet put to
  use, or has still to free, belong to nobody.
- `RemoveInv` and `HoleInv`: while `remove_from_dir` moves the tail down, one
  position (`Hole`) holds either the entry that goes or a second copy of the one
  just moved. All the other entries (`Firm`) are as they should be.
- `CountInv`: the names of a file, and what the operation under way has still to
  add or take (`Owed`), are at most its link count. `LostInv`: the descriptors
  that are marked and lead nowhere, or count more names than there are, are no
  more than the crashes.
- `ReachInv`: the entries of all directories on the disk are on a path from the
  root (which is `NothingCutOff`); this is why the proof may speak of all of them
  at once (`Spots`).

The seven assume `OpsOnTorn = FALSE`, that nothing is done to an image that a crash
has torn (see [Ffs](#ffs)); any number of crashes may fall otherwise.
`SoundUntilTorn` is the same without the assumption, up to the crash that tears
a file. Which crashes do that (`TearsAreKnown`), and that the damage of a
torn file spreads to no other by further operations, is not proved; `ffs_core`
checks it for one crash.

Last in that module, `CallsTakeEffectOnce` is `ImplementsNamespace`, the
refinement that `ffs_core` checks, without any assumption: a torn file never
heals in the model, so up to the first one `SafeInv` holds. `RefinesTheNamespace` is
the whole abstract specification, `NsSpec`, when `OpsOnTorn = FALSE`. One lemma
per action says which abstract step it is. The begin of a call that changes names
is `Invoke`; the write of the directory's size that covers the new entry is
`Bind`; the first block of the tail written over the entry that goes, or the
size where there is no tail, is `Unbind`; an end of the call after that is
`Return`, a crash is `Cut`, and all other writes stutter or, being part of a
removed tail, change the namespace no further. `CallInv` is what that needs
beside `SafeInv`: the abstract call recorded by the mapping is the one the
registers speak of, and it has had its effect exactly in the program counters
behind that write.

`FfsBitmapProofs`. `BitmapOnDisk` needs no assumption on calls or directories:
`LockInv` ties each program counter to the locks held, and `DiskInv` lets a
bitmap differ from the disk only while its holder writes it.
`SerializedAllocationIsSafe` and `SerializedSearchFindsEmptyBit` assume
`Serialized`, that one mutex covers all calls and there is no `write`: exactly
what fails in the run `bitmap_race`. `BitInv` is the step between: from its test
to the end of the search, the bit found is nobody's. `SerializedMarksAreRight` adds
the other direction, that no bit is lost: `MarkInv` accounts for every bit that is
set by a file that holds it, the call that has just set it or the one about to
clear it.

`VirtualMemoryProofs`. `TypesHold`, `FramesAreConserved`, `PagesAreOwned`,
`FlagsFollowResidence` and `ThereIsAVictim`, from `Invariance`; the strengthening
is `Fresh` (indices not yet given out are in no page table) and `OwnPage` (the page
of a quantum belongs to the process whose quantum it is). `ThereIsAVictim` needs
`FramesConserved`: when the stack is empty, frame 0 is held by a resident page,
and a finite, nonempty set of weights has a least and a greatest.

`FfsLayoutProofs`. `RemountRemembers` and `BitmapsStayInPlace` assume
`OneBlock`: each bitmap has at least a byte and fits in a block, and the image
has room for what mkfs puts there; the two lines about `FfsLayout` under [what
does not hold](#does-not-hold) show that the assumption is needed. `IInv` says
that both bitmaps on the disk are what belongs to files and that a mounted
driver has the same. The arithmetic (`CeilOne`, `BytesHold`) is in lemmas, and
`LoadedIsThere` and `WrittenIsThere` reduce the two loops to one assignment
each, on such images.

`FfsFileProofs`. `FilesReadBack`, `BlocksAreOwned`, `NothingStaysMarked`: the three
properties of the run `file_contents`, for any
files, processes and calls, any size of device and of block, and files of any
size, also when the device is full or the index of a file is. They assume `Uses = {}`, the
programs that the driver gets right, in which no two calls on one file overlap;
each use left out breaks one of them (see [what
does not hold](#does-not-hold)), and once a thread has left a buffer (`oops`)
nothing is claimed. The invariant is `FInv`, that while `oops` is false:

- `OwnInv`: a bit is set exactly when it is of the service area or there is one place
  `<<file, slot>>` for it. The block that `ffs_get_empty_block` has just marked has
  a place before its number is in the datablock: `At(f, i)` takes it from the
  register of the writer while that sleeps (`Waiting`).
- `SizeOK`, `WriteOK`: the blocks of a file are as many as its size and what is being
  written need, and those before the writer's position are there. `LackOK`: a full
  device leaves a slot without a block only where the writer will step next, so
  that the thread is lost there, before the size covers it.
- `WordsOK`: each word of a file is the one last written there, but for those the
  writer has still to put (`Due`).

One lemma per action; `Elsewhere` is what they share: a step that writes blocks
of one file, free blocks or the bitmap moves no other file, however many files
grow at once. `FilesReadBack` needs the loop of `file_read` too, a recursive
function: `TurnReads` is one turn, and `LoopReads` goes through all of them with
the least turn at which the loop and what it should have read differ (`LeastOf`).

`FfsInodesProofs`. `NamesLeadToTheirFiles`, `ListHoldsEveryFile` and
`LookupsKeepTheirPlace`: the three safety properties of the run `inodes`, for any
processes, directories, numbers and inodes. They assume
`OneChanging`, that files are created and removed in one directory, as in the run;
[with two](#does-not-hold) the list is corrupted. Lookups in all directories walk
meanwhile, between any two stores. They end with the create that is given an
inode still in the list; `NoInodeIsListedTwice` says that without dropped dentries
(`Shrinking = FALSE`) there is none, though inodes of removed files are used
again. As memory is used again, an inode says nothing of its place in the list.
The invariant `IInv(rk)` holds of some ranks `rk` of the inodes (`Order`), of which
`Create` gives its inode the highest:

- `ChainInv`: the inodes behind names, and that of a call which has linked its
  inode already or has not unlinked it yet, are `Listed`; `first` is the one of
  highest rank and `next` of each the next lower, also from one that is `Leaving`.
- `AddInv`: an inode about to be linked is not in the list and ranks above it.
- `BackInv`: `pprev` of each is what points to it, except for the one inode that
  the call under way is about to tell.
- `NamesInv`: a number belongs to one name, or to the call; in a directory that
  does not change no other inode has it, listed or not.
- `WalkInv`: a lookup has not passed the inode it looks for. Where files change it
  holds the mutex, so it stands on a listed inode; elsewhere it may stand on one
  that is leaving, or poisoned already.

`Mutex` is where the assumption enters: one process at most is about the list. One
lemma per action shows `IInv` of the same ranks, or of the raised ones; where the
memory handed out is still listed, `relisted` is set and nothing is left to show.
Two steps go from `IInv` to the walk: what is reached is listed, as `next` leads
from listed to listed; and what is listed is reached, by the one of highest rank
that would not be. From that follow `ListComplete` and `KeepsPlace`. `TypesHold`
needs no assumption and holds after `oops` and `relisted` as well.
`CreatesLeadNobodyAstray` is a consequence: where nothing is removed and no dentry
dropped, `oops` is never set.

`LinearAllocatorProofs`. `HeapIsWellFormed`, `OwnersFindTheirData`,
`EverythingComesBack` and `AllocatorIsAHeap`: the four properties of the run
`linear_heap`, for every size of the memory and of a header, any requests and
any number of owners, with `Rewrites` or without. They assume what the run assumes,
`Corrupting = {}`: that the two branches of `mem_realloc` which break the heap
(see [LinearAllocator](#linearallocator)) are not taken. Every other branch is in the
proof, the three of `mem_realloc` that split or absorb a neighbour included.

`Tiled` finds the headers by walking them, which is of no use to a proof: the
invariant `IInv` says instead that there is a set of headers (`Tiles`) that
starts at 0, ends at the last header and is closed under "next", whose `prev`
fields are right and of which no two neighbours are free; that the busy ones are
the first, the last and those of the owners, each large enough and none owned
twice (`Owns`); and that every payload is what its owner wrote (`Keeps`). `WalkIs`
gets back from there to the walk of the code. The argument has four layers:

- `Cut`, `CutOne`, `CutTwo`: memory that changes from one header to another only,
  and is tiled in between by one block or two, is tiled.
- `WholeIs`, `SplitIs`, `SplitLate`: so it is after the one or two calls of
  `write_header` a branch makes, in both orders the code has.
- `Settle`, `Regranted`, `Regrants`: when only one owner had a block between those
  two headers, and gets one of those that are there now, the others keep theirs.
- `PayloadApart`, `MoveIs`, `KeptOutside`: no header is written into a payload that is
  still of use, and `memmove` copies what the owner will look for, before or after.

Then one lemma per branch (`ShrinkInv`, `RightInv`, `LeftInv`, `AbsorbInv`,
`BothInv`, `MoveInv`, `AllocInv`, `FreeInv`), which find their stretch of memory
with `BlockIs` and `Room`.

`ZoneAllocatorProofs`. `HeapIsWellFormed`, `HeapBecomesWhole` and
`ZonesAreAHeap`: the three properties of the run `zone_heap`, for every number of
pages, size of a page, set of requests and number of owners. They assume three
things, and the code is wrong without any of them (see
[below](#does-not-hold)). `Wide = FALSE`: a pointer is as wide as an int,
so the index of a descriptor that has just been freed can still be read; the
default build of today is not such a build.
`Countable`: no request can get a block of more than 127 pages, which is what
the char of `page_classes` counts. And, in `ZoneAssumption`, pages of a power of
two. Every way a call can fail is in the proof,
and so are the calls that `mem_alloc` and `mem_free` make of each other.

`WellFormed` is not inductive: it does not say where a page stands between the
two writes of a nested call, nor whom an address belongs to that a caller gives
back. `InvOf` sorts the pages into three kinds and says what is true of each:

- `Smallest`, of pages of the smallest class and free pages. A page with room is
  on the list of class 0 and its descriptor is its first block. `MemAlloc0` and
  `MemFree0` need only this and keep it, whatever state the other pages are in
  (`MemAlloc0Keeps`, `MemFree0Keeps`): it is the contract under which the outer
  calls use the inner ones.
- `Pages`, `Lists` and `NoneWhole`, of pages cut into larger blocks (`G`). A
  page with room is on the list of its class, its descriptor is a unit that a
  page of the smallest class has handed out, and counts its free blocks; between
  calls none of these pages is free altogether.
- `Wholes`, of blocks of whole pages: every one is an owner's, with its number
  of pages in its first page.

`Owned` is the ledger that joins them: the units handed out by pages of the
smallest class are the owners' small blocks and the descriptors, never both; the
blocks handed out by larger pages are the owners' or lost, never both. A page of
none of the three kinds is page 0 or was lost whole. The proof has these layers:

- `BlockFacts`, `BlockCount`, `FreeSetFacts`, `CountFits`: a page holds
  `MaxBlocks` blocks, one less with its descriptor inside, and the count of
  those that are free fits where it is kept. `IsList` and its lemmas: a list is
  a sequence without repetition of a given set, and stays one through `Tail`,
  `Append` and `Unlinked`.
- `OnePage`, `OnlyPage`: a change of one page of the smallest class leaves
  `Smallest`.
- `StepIsSound`: what is owed by a change of one larger page, or of a run of
  pages, and of the ledger with it.
- one lemma per branch of `mem_alloc` and `mem_free` (`AllocUnit`, `TakeMid`,
  `AllocInNewPage`, `PageIsLost`, `AllocLarge`, `FreeUnit`, `FreeOfFullPage`,
  `BlockIsLost`, `FreeOfListedPage`, `FreeOfLastBlock`, `FreeLarge`);
  `mem_realloc` is the one after the other.
- `OneOwner`, `ThingFilled` and `Covering` get back from the ledger to units: a
  unit is part of one thing only (`Owns`), each thing owns all of its units, and
  those of a page in use are all owned. `HoldsAccounted`, `HoldsListed`,
  `HoldsWhole` and `CallMaps` conclude from that.

`Doubling`, an assumption of the module that TLC evaluates, is what the proofs
know of powers of two: the provers have no theory of `2^k`.

## Findings

`bitmap_race`, `src/fs/ffs.c:155`: the comment at 151 says "find empty block and
set bit in bitmask"; the bit is tested before the lock is taken and not again, so
two processes in two directories (or two that write) get the same block or
descriptor. The shortest behaviour is two searches in step.

`zone_wide`, `src/zone-allocator/allocator.c:216`: `main.c:54` prints "ERROR
CHECKSUM" when an owner does not find what it wrote. `page->index` is read after
the page's descriptor was freed at 214, and where a pointer is wider than an int the
link that `mem_free` wrote there has covered it: page 0 is marked busy, or what
the link's upper half selects, and not the page that is full. The shortest
behaviour is five calls: four blocks of two units each fill page 1, whose entry
goes on pointing to the freed descriptor; `mem_realloc` of one of them gets just
that block for its contents, and freeing the old one writes the count and the
list of page 1 into it.

<a name="does-not-hold"></a>
### What does not hold

The passing runs leave out cases that the code gets wrong, by constants of the
models. Each line gives the change to a run's configuration with which TLC finds
the property violated, in a few seconds to a minute (the property as the only
one of the configuration).

| Run | Change | Violated | What the code does |
|---|---|---|---|
| `file_contents` | `Uses = {"shrink"}` | `Reclaimed` | `ffs.c:435`, "free unused blocks", resets the bit whose number is the count of blocks: the dropped blocks leak, and a service block is marked free |
| | `Uses = {"expand"}` | `BlocksOwned` | 428-440: the numbers of the new blocks go over the count, and the count over them: blocks without a number |
| | `Uses = {"gap"}` | `BlocksOwned` | 518-527: one block is added for a gap of several |
| | `Uses = {"orphan"}` | `ReadsBack` | 391: the blocks of an open file go to the next file |
| | `Uses = {"overlap"}` | `NothingLost` | 505: two appends start at the same place |
| | `Uses = {"overlap"}` | `ReadsBack`, `BlocksOwned`, `Reclaimed` | 434-440: a truncation inside the last block, while an append sleeps in `ffs_get_empty_block`, takes the count that 520 has raised for the file's own: it sets it back and resets a bit |
| | none | `NoOverrun` | 521-523: on a full device the number -1 is stored ("TODO: check free space on device", 519) and block -1 is read |
| | `MaxSize = 7`, `NBlocks = 9` | `NoOverrun` | 521: the number of one block more than the index has slots is stored past the buffer |
| | none | `ReadsAnyPart` | 589: a read in the middle of a block gives its beginning; 587: a read of several turns may return more than was asked for |
| `layout_remount` | `Counts = {18}` | `BitmapsInPlace` | `mkfs.c:63` rounds down, `ffs.c:689` up: the driver writes the last bits of blocks into the bitmap of descriptors |
| | `Counts = {24}` | `MountRemembers` | `ffs.c:701`: the offset goes down, and all but the first block of a bitmap is lost at a mount |
| `inodes` | `Changing = {d1, d2}`, `Removing = FALSE`, `Shrinking = FALSE` | `ListSound` | 339: two `hlist_add_head` at once lose an inode |
| | none | `~ oops` | 395: a lookup follows the pointers of an inode that an unlink elsewhere removes; 126: `ffs_iget` takes no reference, so the inode of a dropped dentry is freed and still listed. `PlaceKept` says that these are the only ways |
| | none, `relisted` not excepted | `NamesResolve`, `ListComplete`, `CallsReturn` | 339: `new_inode` hands out an inode that was dropped and is still listed, and `hlist_add_head` makes it its own successor or that of one before it: a circle, without what stood behind |
| `linear_heap` | `Corrupting = {"absorb"}`, `Rewrites = TRUE` | `ContentsKept` | `linear-allocator/allocator.c:173`: the third of three blocks takes the place of the second, which has moved; `prev_size` is then the size of the first, and lines 180-185 take it for a remainder of the second and write a free header over the grown block's own. Five calls of the kind `test_mem` makes |
| `zone_heap` | `NPages = 130`, `Requests = {9, 10}` | `AllFreeIsWhole` | 235: 128 pages do not fit in a char |
| | a page size that is not a power of two (outside the model) | | 223: in pages of 1000 bytes a request of 129 to 256 is rounded to 256, which is no class of such a page, and to 0 pages: `find_free_pages` (178) returns page 1, whatever it holds |

The README of `fs` lists what works in one word each ("write/append file"); the
table says for which programs that is so.

## Limits

Only model-checked. All liveness (`OpsEnd`, `EveryCallReturns`, `QuantumEnds`,
`CallsReturn`) and `KnownStops`, which uses ENABLED, are beyond the prover.
`ConfParser` and `Emails` are only checked; so is what happens to the list of
inodes when two directories change, which the model shows to be wrong. What the
parsers compute of every text is an induction over the text, which the provers
cannot do.

Modelled in part. `Ffs` has crashes and no overlapping operations, `FfsBitmap` and
`FfsInodes` overlap them without contents, `FfsFile` overlaps writes of whole words
without crashes. Reading is an operator (`CellAt`, `FileRead`) and takes no time.
Names have no length. `readdir` and `readlink` copy out what these read.
`ffs_setattr` runs in one step, so its race with a search of the bitmap (it takes
no lock) does not occur: it resets the wrong bit in any case. `FfsFile` with
`"overlap"` lets that step fall wherever a write of the same file sleeps; without,
which is what the run and the theorems are about, it waits for the write.

Not modelled. `ffs_kill_block_super`, which reads the next inode from one it has
just freed; memory that cannot be allocated in `ffs_fill_super`; the registration
of the module and its caches, which is glue; tables of the zone allocator that
outgrow page 0; the output of all programs, but for the addresses of the two
recognisers; and the files listed under "Not programs": `conf.py` has a syntax
error in line 26, and `email3.py` unpacks eight names from seven values.
