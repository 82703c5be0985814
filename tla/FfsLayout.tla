----------------------------- MODULE FfsLayout -----------------------------
(***************************************************************************)
(* The geometry mkfs.ffs/mkfs.c gives an image, and what fs/ffs.c makes of *)
(* it: ffs_read_root loads the two bitmaps, ffs_get_empty_block,           *)
(* ffs_get_empty_fd and ffs_clear_fd change them and write one block of    *)
(* them back.  Block 0 holds the geometry, then come the bitmap of blocks, *)
(* the bitmap of descriptors, the descriptors, and the blocks of files.    *)
(* Descriptors and data are the subject of Ffs; here a block is the set of *)
(* its bits, and only what lies in a bitmap is looked at.                  *)
(***************************************************************************)
EXTENDS Integers

CONSTANTS
  BlockSize,   \* FFS_BLOCK_SIZE, in bytes
  FdPerBlock,  \* FFS_BLOCK_SIZE / sizeof(struct ffs_fd)
  Counts,      \* the block_count an image may have
  FileCounts   \* the max_file_count it may have

Bits == 8 * BlockSize

ASSUME LayoutAssumption ==
  /\ BlockSize \in Nat \ {0} /\ FdPerBlock \in Nat \ {0}
  /\ Counts \subseteq Nat \ {0}
  /\ FileCounts \subseteq Nat \ (0 .. 2)      \* room for what mkfs puts there

VARIABLES
  info,     \* struct ffs_metainfo_sector, in block 0
  disk,     \* disk[b]: the bits set in block b
  mounted,
  b_bitmask, fd_bitmask,   \* of ffs_sb_info: the bits set
  blocks, fds              \* history: what mkfs and the driver gave to files

mem  == <<mounted, b_bitmask, fd_bitmask>>
vars == <<info, disk, mem, blocks, fds>>

Ceil(n, d)  == (n + d - 1) \div d
Least(a, b) == IF a < b THEN a ELSE b

-----------------------------------------------------------------------------
(* mkfs.c: the number of bytes is rounded down for blocks, up for files.   *)
Geometry(count, files) ==
  [block_count    |-> count,
   max_file_count |-> files,
   b_bm_blocks    |-> Ceil(count \div 8, BlockSize),
   fd_bm_blocks   |-> Ceil(Ceil(files, 8), BlockSize),
   fd_blocks      |-> Ceil(files, FdPerBlock)]

FdBitmap == 1 + info.b_bm_blocks                  \* FFS_FD_BITMASK_BLOCK
FdList   == FdBitmap + info.fd_bm_blocks          \* FFS_FD_LIST_BLOCK
Service  == FdList + info.fd_blocks               \* service_blocks

(* Mutant: the data of the second file is not marked.                      *)
MkfsBlocksFew == 0 .. Service + 4
(* The service blocks, the datablocks of the root and of two files, and a  *)
(* block of data for each.                                                 *)
MkfsBlocks == 0 .. Service + 5
MkfsFds    == 0 .. 2

(* The bits of s that fall in the i-th block of a bitmap.                  *)
Page(s, i) == {k \in 0 .. Bits - 1 : i * Bits + k \in s}

Mkfs(count, files) ==
  /\ info = Geometry(count, files)
  /\ disk = [b \in 0 .. count - 1 |->
               IF b \in 1 .. FdBitmap - 1 THEN Page(MkfsBlocks, b - 1)
               ELSE IF b = FdBitmap THEN MkfsFds ELSE {}]
  /\ blocks = 0 .. Service + 5 /\ fds = MkfsFds
  /\ mounted = FALSE /\ b_bitmask = {} /\ fd_bitmask = {}

-----------------------------------------------------------------------------
(* ffs_read_root: to_copy bytes of the i-th block go to offset copied of   *)
(* the bitmap, which goes down by a block each time.  Bytes before the     *)
(* bitmap are not part of it.                                              *)
Copied(i) == -(i * BlockSize)
Loaded(first, n, len) ==
  {b \in 0 .. 8 * len - 1 :
     \E i \in 0 .. n - 1 :
       b - 8 * Copied(i)
         \in disk[first + i] \cap (0 .. 8 * Least(len - Copied(i), BlockSize) - 1)}

BLen  == Ceil(info.block_count, 8)                \* b_bitmask_len
FdLen == Ceil(info.max_file_count, 8)             \* fd_bitmask_len

Mount ==
  /\ ~ mounted /\ mounted' = TRUE
  /\ b_bitmask' = Loaded(1, info.b_bm_blocks, BLen)
  /\ fd_bitmask' = Loaded(FdBitmap, info.fd_bm_blocks, FdLen)
  /\ UNCHANGED <<info, disk, blocks, fds>>

(* umount, or the power goes: nothing is written.                          *)
Unmount ==
  /\ mounted /\ mounted' = FALSE
  /\ b_bitmask' = {} /\ fd_bitmask' = {}
  /\ UNCHANGED <<info, disk, blocks, fds>>

(* Mutant: the whole bitmap is meant, but one byte is copied.              *)
WrittenByte(first, len, s, n) ==
  LET page  == n \div Bits
  IN  [disk EXCEPT ![first + page] =
         (Page(s, page) \cap (0 .. 7)) \cup {k \in @ : k >= 8}]
(* ffs_write_b_bitmask, ffs_write_fd_bitmask: the block of bit n, up to    *)
(* the end of the bitmap.                                                  *)
Written(first, len, s, n) ==
  LET page  == n \div Bits
      bytes == Least(len - page * BlockSize, BlockSize)
  IN  [disk EXCEPT ![first + page] =
         (Page(s, page) \cap (0 .. 8 * bytes - 1)) \cup {k \in @ : k >= 8 * bytes}]

(* ffs_get_empty_block, ffs_get_empty_fd: the first clear bit below limit. *)
Empty(s, limit, n) == n \in 0 .. limit - 1 /\ n \notin s /\ 0 .. n - 1 \subseteq s

TakeBlock(n) ==
  /\ mounted /\ Empty(b_bitmask, info.block_count, n)
  /\ b_bitmask' = b_bitmask \cup {n}
  /\ disk' = Written(1, BLen, b_bitmask', n)
  /\ blocks' = blocks \cup {n}
  /\ UNCHANGED <<info, mounted, fd_bitmask, fds>>
TakeFd(n) ==
  /\ mounted /\ Empty(fd_bitmask, info.max_file_count, n)
  /\ fd_bitmask' = fd_bitmask \cup {n}
  /\ disk' = Written(FdBitmap, FdLen, fd_bitmask', n)
  /\ fds' = fds \cup {n}
  /\ UNCHANGED <<info, mounted, b_bitmask, blocks>>

(* ffs_clear_fd, one bit of it: of a file that is not the root directory.  *)
FreeBlock(n) ==
  /\ mounted /\ n \in blocks \ (0 .. Service)
  /\ b_bitmask' = b_bitmask \ {n}
  /\ disk' = Written(1, BLen, b_bitmask', n)
  /\ blocks' = blocks \ {n}
  /\ UNCHANGED <<info, mounted, fd_bitmask, fds>>
FreeFd(n) ==
  /\ mounted /\ n \in fds \ {0}
  /\ fd_bitmask' = fd_bitmask \ {n}
  /\ disk' = Written(FdBitmap, FdLen, fd_bitmask', n)
  /\ fds' = fds \ {n}
  /\ UNCHANGED <<info, mounted, b_bitmask, blocks>>

Init == \E count \in Counts, files \in FileCounts : Mkfs(count, files)

Next ==
  \/ Mount \/ Unmount
  \/ \E n \in 0 .. info.block_count - 1 : TakeBlock(n) \/ FreeBlock(n)
  \/ \E n \in 0 .. info.max_file_count - 1 : TakeFd(n) \/ FreeFd(n)

Spec == Init /\ [][Next]_vars
-----------------------------------------------------------------------------
TypeOK ==
  /\ info \in [block_count : Counts, max_file_count : FileCounts,
               b_bm_blocks : Nat, fd_bm_blocks : Nat, fd_blocks : Nat]
  /\ disk \in [0 .. info.block_count - 1 -> SUBSET (0 .. Bits - 1)]
  /\ mounted \in BOOLEAN
  /\ b_bitmask \subseteq 0 .. 8 * BLen - 1 /\ blocks \subseteq 0 .. info.block_count - 1
  /\ fd_bitmask \subseteq 0 .. 8 * FdLen - 1 /\ fds \subseteq 0 .. info.max_file_count - 1

(* ffs.c:677, "reads initial state of FS from device": whatever was taken  *)
(* and freed before, and however often it was mounted, the driver knows    *)
(* exactly the blocks and descriptors that belong to files.                *)
MountRemembers == mounted => b_bitmask = blocks /\ fd_bitmask = fds

(* const.h:14-15: the blocks that mkfs sets aside for the bitmaps hold     *)
(* them at all times, so that the power may go at any.                     *)
BitmapsInPlace ==
  /\ \A i \in 0 .. info.b_bm_blocks - 1 : disk[1 + i] = Page(blocks, i)
  /\ \A i \in 0 .. info.fd_bm_blocks - 1 : disk[FdBitmap + i] = Page(fds, i)
=============================================================================
