-------------------------- MODULE FfsLayoutProofs --------------------------
(***************************************************************************)
(* Proofs about FfsLayout: on images whose two bitmaps fit in a block each *)
(* the driver and mkfs.ffs agree, for every size of block and descriptor.  *)
(* The runs that violate the same properties show what happens past it.    *)
(***************************************************************************)
EXTENDS FfsLayout, TLAPS

(* The images in question: at least a byte of bitmap, at most a block of   *)
(* it, and room for what mkfs.ffs writes.                                  *)
OneBlock ==
  /\ \A c \in Counts : 8 <= c /\ c <= Bits
  /\ \A f \in FileCounts : f <= Bits
  /\ \A c \in Counts, f \in FileCounts : 9 + Ceil(f, FdPerBlock) <= c

(* A block and a bit round up to one block.                                *)
LEMMA CeilOne ==
  ASSUME NEW n \in Nat, NEW d \in Nat \ {0}, 1 <= n, n <= d
  PROVE  Ceil(n, d) = 1
<1> DEFINE a == n + d - 1
           q == a \div d
<1>1. a \in Nat /\ q \in Int /\ d * q <= a /\ a < d * q + d
  OBVIOUS
<1>2. d <= a /\ a < 2 * d
  OBVIOUS
<1>3. ~ (q <= 0)
  <2> SUFFICES ASSUME q <= 0 PROVE FALSE
    OBVIOUS
  <2>1. d * q <= 0
    BY <1>1, SMT
  <2> QED BY <1>1, <1>2, <2>1
<1>4. ~ (q >= 2)
  <2> SUFFICES ASSUME q >= 2 PROVE FALSE
    OBVIOUS
  <2>1. d * q >= d * 2
    BY <1>1, SMT
  <2> QED BY <1>1, <1>2, <2>1
<1> QED BY <1>1, <1>3, <1>4 DEF Ceil

(* Bytes for n bits hold n bits.                                           *)
LEMMA BytesHold ==
  ASSUME NEW n \in Nat
  PROVE  Ceil(n, 8) \in Nat /\ n <= 8 * Ceil(n, 8) /\ 8 * Ceil(n, 8) <= n + 7
BY DEF Ceil

(* What the state looks like when each bitmap has its block.               *)
Shape ==
  /\ info.block_count \in Counts /\ info.max_file_count \in FileCounts
  /\ info.b_bm_blocks = 1 /\ info.fd_bm_blocks = 1
  /\ disk \in [0 .. info.block_count - 1 -> SUBSET Int]
  /\ blocks \subseteq 0 .. info.block_count - 1
  /\ fds \subseteq 0 .. info.max_file_count - 1
InBlocks == disk[1] = blocks /\ disk[2] = fds
IInv == Shape /\ InBlocks /\ MountRemembers

(* What an invariant state says about the numbers.                         *)
LEMMA Numbers ==
  ASSUME OneBlock, Shape
  PROVE  /\ info.block_count \in Nat /\ 8 <= info.block_count
         /\ info.max_file_count \in Nat
         /\ Bits = 8 * BlockSize /\ BlockSize \in Nat \ {0}
         /\ info.block_count <= Bits /\ info.max_file_count <= Bits
         /\ FdBitmap = 2
         /\ BLen \in Nat /\ info.block_count <= 8 * BLen /\ BLen <= BlockSize
         /\ FdLen \in Nat /\ info.max_file_count <= 8 * FdLen /\ FdLen <= BlockSize
<1>1. /\ info.block_count \in Nat /\ 8 <= info.block_count
      /\ info.max_file_count \in Nat
      /\ Bits = 8 * BlockSize /\ BlockSize \in Nat \ {0}
      /\ info.block_count <= Bits /\ info.max_file_count <= Bits
  BY LayoutAssumption DEF OneBlock, Shape, Bits
<1>2. FdBitmap = 2
  BY DEF Shape, FdBitmap
<1>3. BLen \in Nat /\ info.block_count <= 8 * BLen /\ 8 * BLen <= info.block_count + 7
  BY <1>1, BytesHold DEF BLen
<1>4. FdLen \in Nat /\ info.max_file_count <= 8 * FdLen
        /\ 8 * FdLen <= info.max_file_count + 7
  BY <1>1, BytesHold DEF FdLen
<1> QED BY <1>1, <1>2, <1>3, <1>4

(* The first block of a bitmap that has no other is all of it.             *)
LEMMA PageZero ==
  ASSUME Bits \in Nat, NEW s, s \subseteq 0 .. Bits - 1
  PROVE  Page(s, 0) = s
<1>1. \A k \in 0 .. Bits - 1 : 0 * Bits + k = k
  OBVIOUS
<1>2. Page(s, 0) = {k \in 0 .. Bits - 1 : k \in s}
  BY <1>1 DEF Page
<1> QED BY <1>2

(* A bitmap of one block is what was written last.                         *)
LEMMA LoadedIsThere ==
  ASSUME NEW first \in Nat, NEW len \in Nat, len <= BlockSize,
         BlockSize \in Nat \ {0}, NEW s, disk[first] = s, s \subseteq 0 .. 8 * len - 1
  PROVE  Loaded(first, 1, len) = s
<1>1. Copied(0) = 0
  BY DEF Copied
<1>2. Least(len - 0, BlockSize) = len
  BY DEF Least
<1>3. 0 .. 1 - 1 = {0}
  OBVIOUS
<1>4. Loaded(first, 1, len) =
        {b \in 0 .. 8 * len - 1 : b - 8 * 0 \in disk[first + 0] \cap (0 .. 8 * Least(len - 0, BlockSize) - 1)}
  BY <1>1, <1>3, Zenon DEF Loaded
<1>5. \A b \in 0 .. 8 * len - 1 : b - 8 * 0 = b
  OBVIOUS
<1>6. Loaded(first, 1, len) = {b \in 0 .. 8 * len - 1 : b \in s}
  BY <1>2, <1>4, <1>5
<1> QED BY <1>6

(* The disk with a bitmap written over.                                    *)
With(first, s) == [disk EXCEPT ![first] = s]

(* It is a disk of as many blocks.                                         *)
LEMMA WithIsADisk ==
  ASSUME NEW D, disk \in [D -> SUBSET Int], NEW first, NEW s \in SUBSET Int
  PROVE  With(first, s) \in [D -> SUBSET Int]
BY DEF With

(* Writing the block of a bit writes the bitmap, and nothing else.         *)
LEMMA WrittenIsThere ==
  ASSUME NEW first \in Nat, NEW len \in Nat, len <= BlockSize, BlockSize \in Nat \ {0},
         NEW s, s \subseteq 0 .. 8 * len - 1, NEW n \in 0 .. 8 * len - 1,
         disk[first] \subseteq 0 .. 8 * len - 1
  PROVE  Written(first, len, s, n) = With(first, s)
<1>1. Bits \in Nat \ {0} /\ n < Bits /\ 8 * len <= Bits
  BY DEF Bits
<1>2. n \div Bits = 0
  <2> DEFINE q == n \div Bits
  <2>1. q \in Int /\ Bits * q <= n /\ n < Bits * q + Bits
    BY <1>1
  <2>2. ~ (q >= 1)
    <3> SUFFICES ASSUME q >= 1 PROVE FALSE
      OBVIOUS
    <3>1. Bits * q >= Bits
      BY <1>1, <2>1, SMT
    <3> QED BY <1>1, <2>1, <3>1
  <2>3. ~ (q <= -1)
    <3> SUFFICES ASSUME q <= -1 PROVE FALSE
      OBVIOUS
    <3>1. Bits * q <= -Bits
      BY <1>1, <2>1, SMT
    <3> QED BY <1>1, <2>1, <3>1
  <2> QED BY <2>1, <2>2, <2>3
<1>3. Least(len - 0 * BlockSize, BlockSize) = len
  BY DEF Least
<1>4. Page(s, 0) = s
  <2>1. s \subseteq 0 .. Bits - 1
    BY <1>1
  <2> QED BY <1>1, <2>1, PageZero
<1>5. (s \cap (0 .. 8 * len - 1)) \cup {k \in disk[first] : k >= 8 * len} = s
  <2>1. \A k \in disk[first] : k \in 0 .. 8 * len - 1
    OBVIOUS
  <2>2. \A k \in 0 .. 8 * len - 1 : ~ (k >= 8 * len)
    OBVIOUS
  <2>3. {k \in disk[first] : k >= 8 * len} = {}
    BY <2>1, <2>2
  <2> QED BY <2>3
<1>6. first + 0 = first
  OBVIOUS
<1> QED BY <1>2, <1>3, <1>4, <1>5, <1>6 DEF Written, With

(* The image of mkfs.ffs is an invariant state.                            *)
LEMMA InitInv == ASSUME OneBlock, Init PROVE IInv
<1>1. PICK count \in Counts, files \in FileCounts : Mkfs(count, files)
  BY DEF Init
<1>2. count \in Nat /\ files \in Nat \ (0 .. 2) /\ 8 <= count /\ count <= Bits
        /\ files <= Bits /\ BlockSize \in Nat \ {0} /\ Bits = 8 * BlockSize
        /\ 9 + Ceil(files, FdPerBlock) <= count
  BY LayoutAssumption DEF OneBlock, Bits
<1>3. Ceil(count \div 8, BlockSize) = 1
  <2>1. count \div 8 \in Nat /\ 1 <= count \div 8 /\ count \div 8 <= BlockSize
    BY <1>2
  <2> QED BY <1>2, <2>1, CeilOne
<1>4. Ceil(Ceil(files, 8), BlockSize) = 1
  <2>1. Ceil(files, 8) \in Nat /\ 1 <= Ceil(files, 8) /\ Ceil(files, 8) <= BlockSize
    <3>1. files \in Nat /\ 1 <= files /\ files <= 8 * BlockSize
      BY <1>2
    <3>2. Ceil(files, 8) \in Nat /\ files <= 8 * Ceil(files, 8)
            /\ 8 * Ceil(files, 8) <= files + 7
      BY <3>1, BytesHold
    <3> QED BY <1>2, <3>1, <3>2
  <2> QED BY <1>2, <2>1, CeilOne
<1>5. info = [block_count |-> count, max_file_count |-> files, b_bm_blocks |-> 1,
              fd_bm_blocks |-> 1, fd_blocks |-> Ceil(files, FdPerBlock)]
  BY <1>1, <1>3, <1>4 DEF Mkfs, Geometry
<1>6. FdBitmap = 2 /\ Service = 3 + Ceil(files, FdPerBlock)
  <2>1. FdBitmap = 2
    BY <1>5 DEF FdBitmap
  <2>2. FdList = 3
    BY <1>5, <2>1 DEF FdList
  <2> QED BY <1>5, <2>1, <2>2 DEF Service
<1>7. Ceil(files, FdPerBlock) \in Int
  BY <1>2, LayoutAssumption DEF Ceil
<1>8. blocks \subseteq 0 .. count - 1 /\ fds \subseteq 0 .. files - 1
  BY <1>1, <1>2, <1>6, <1>7 DEF Mkfs, MkfsFds
<1>9. disk \in [0 .. count - 1 -> SUBSET Int]
  <2>1. \A t, i : Page(t, i) \subseteq Int
    BY <1>2 DEF Page
  <2>2. MkfsFds \subseteq Int
    BY DEF MkfsFds
  <2> QED BY <1>1, <2>1, <2>2 DEF Mkfs
<1>10. disk[1] = Page(MkfsBlocks, 0) /\ disk[2] = MkfsFds
  <2>1. 1 \in 0 .. count - 1 /\ 2 \in 0 .. count - 1 /\ 1 \in 1 .. FdBitmap - 1
          /\ 2 \notin 1 .. FdBitmap - 1 /\ 1 - 1 = 0
    BY <1>2, <1>6
  <2> QED BY <1>1, <1>6, <2>1 DEF Mkfs
<1>11. Page(MkfsBlocks, 0) = blocks
  <2>1. MkfsBlocks = blocks
    BY <1>1 DEF Mkfs, MkfsBlocks
  <2>2. blocks \subseteq 0 .. Bits - 1
    BY <1>2, <1>8
  <2>3. Bits \in Nat
    BY <1>2
  <2> QED BY <2>1, <2>2, <2>3, PageZero
<1>12. fds = MkfsFds /\ ~ mounted
  BY <1>1 DEF Mkfs
<1> QED
  BY <1>5, <1>8, <1>9, <1>10, <1>11, <1>12 DEF IInv, Shape, InBlocks, MountRemembers

(* Mounting, and each change of a bitmap, keeps it.                        *)
LEMMA NextInv == ASSUME OneBlock, IInv, [Next]_vars PROVE IInv'
<1>s. Shape /\ InBlocks /\ MountRemembers
  BY DEF IInv
<1>0. /\ info.block_count \in Nat /\ 8 <= info.block_count
      /\ info.max_file_count \in Nat /\ FdBitmap = 2
      /\ BLen \in Nat /\ info.block_count <= 8 * BLen /\ BLen <= BlockSize
      /\ FdLen \in Nat /\ info.max_file_count <= 8 * FdLen /\ FdLen <= BlockSize
      /\ BlockSize \in Nat \ {0}
  BY <1>s, Numbers
<1>a. blocks \subseteq 0 .. 8 * BLen - 1 /\ fds \subseteq 0 .. 8 * FdLen - 1
  BY <1>0, <1>s DEF Shape
<1>b. disk[1] = blocks /\ disk[2] = fds /\ 1 \in Nat /\ 2 \in Nat
  BY <1>s DEF InBlocks
<1>c. \A s : /\ With(1, s)[1] = s /\ With(1, s)[2] = disk[2]
            /\ With(2, s)[2] = s /\ With(2, s)[1] = disk[1]
  BY <1>0, <1>s DEF Shape, With
<1>1. CASE Mount
  <2>1. Loaded(1, 1, BLen) = blocks
    BY <1>0, <1>a, <1>b, LoadedIsThere
  <2>2. Loaded(2, 1, FdLen) = fds
    BY <1>0, <1>a, <1>b, LoadedIsThere
  <2>3. b_bitmask' = blocks /\ fd_bitmask' = fds
    BY <1>0, <1>1, <1>s, <2>1, <2>2 DEF Mount, Shape
  <2> QED BY <1>1, <1>s, <2>3 DEF Mount, IInv, Shape, InBlocks, MountRemembers
<1>2. CASE Unmount
  BY <1>2, <1>s DEF Unmount, IInv, Shape, InBlocks, MountRemembers
<1>3. ASSUME NEW n \in 0 .. info.block_count - 1, TakeBlock(n) PROVE IInv'
  <2>1. b_bitmask' = blocks \cup {n} /\ blocks' = blocks \cup {n}
    BY <1>3, <1>s DEF TakeBlock, MountRemembers
  <2>2. blocks' \subseteq 0 .. info.block_count - 1
    BY <1>s, <2>1 DEF Shape
  <2>3. disk' = With(1, blocks')
    <3>1. blocks' \subseteq 0 .. 8 * BLen - 1 /\ n \in 0 .. 8 * BLen - 1
      BY <1>0, <2>2
    <3>2. Written(1, BLen, blocks', n) = With(1, blocks')
      BY <1>0, <1>a, <1>b, <3>1, WrittenIsThere
    <3>3. b_bitmask' = blocks'
      BY <2>1
    <3> QED BY <1>0, <1>3, <3>2, <3>3 DEF TakeBlock
  <2>4. blocks' \in SUBSET Int
    BY <2>2
  <2>5. Shape'
    <3>1. info' = info /\ fds' = fds
      BY <1>3 DEF TakeBlock
    <3>2. disk' \in [0 .. info.block_count - 1 -> SUBSET Int]
      <4>1. disk \in [0 .. info.block_count - 1 -> SUBSET Int]
        BY <1>s DEF Shape
      <4>2. With(1, blocks') \in [0 .. info.block_count - 1 -> SUBSET Int]
        BY <2>4, <4>1, WithIsADisk, Zenon
      <4> QED BY <2>3, <4>2
    <3> QED BY <1>s, <2>2, <3>1, <3>2, Zenon DEF Shape
  <2>6. InBlocks'
    <3>1. With(1, blocks')[1] = blocks' /\ With(1, blocks')[2] = disk[2]
      BY <1>c
    <3>2. fds' = fds
      BY <1>3 DEF TakeBlock
    <3> QED BY <1>b, <2>3, <3>1, <3>2 DEF InBlocks
  <2>7. MountRemembers'
    BY <1>3, <1>s, <2>1 DEF TakeBlock, MountRemembers
  <2> QED BY <2>5, <2>6, <2>7 DEF IInv
<1>4. ASSUME NEW n \in 0 .. info.block_count - 1, FreeBlock(n) PROVE IInv'
  <2>1. b_bitmask' = blocks \ {n} /\ blocks' = blocks \ {n}
    BY <1>4, <1>s DEF FreeBlock, MountRemembers
  <2>2. disk' = With(1, blocks')
    <3>1. blocks' \subseteq 0 .. 8 * BLen - 1 /\ n \in 0 .. 8 * BLen - 1
      BY <1>0, <1>a, <2>1
    <3>2. Written(1, BLen, blocks', n) = With(1, blocks')
      BY <1>0, <1>a, <1>b, <3>1, WrittenIsThere
    <3>3. b_bitmask' = blocks'
      BY <2>1
    <3> QED BY <1>0, <1>4, <3>2, <3>3 DEF FreeBlock
  <2>3. blocks' \subseteq 0 .. info.block_count - 1
    BY <1>s, <2>1 DEF Shape
  <2>4. blocks' \in SUBSET Int
    BY <2>3
  <2>5. Shape'
    <3>1. info' = info /\ fds' = fds
      BY <1>4 DEF FreeBlock
    <3>2. disk' \in [0 .. info.block_count - 1 -> SUBSET Int]
      <4>1. disk \in [0 .. info.block_count - 1 -> SUBSET Int]
        BY <1>s DEF Shape
      <4>2. With(1, blocks') \in [0 .. info.block_count - 1 -> SUBSET Int]
        BY <2>4, <4>1, WithIsADisk, Zenon
      <4> QED BY <2>2, <4>2
    <3> QED BY <1>s, <2>3, <3>1, <3>2, Zenon DEF Shape
  <2>6. InBlocks'
    <3>1. With(1, blocks')[1] = blocks' /\ With(1, blocks')[2] = disk[2]
      BY <1>c
    <3>2. fds' = fds
      BY <1>4 DEF FreeBlock
    <3> QED BY <1>b, <2>2, <3>1, <3>2 DEF InBlocks
  <2>7. MountRemembers'
    BY <1>4, <1>s, <2>1 DEF FreeBlock, MountRemembers
  <2> QED BY <2>5, <2>6, <2>7 DEF IInv
<1>5. ASSUME NEW n \in 0 .. info.max_file_count - 1, TakeFd(n) PROVE IInv'
  <2>1. fd_bitmask' = fds \cup {n} /\ fds' = fds \cup {n}
    BY <1>5, <1>s DEF TakeFd, MountRemembers
  <2>2. fds' \subseteq 0 .. info.max_file_count - 1
    BY <1>s, <2>1 DEF Shape
  <2>3. disk' = With(2, fds')
    <3>1. fds' \subseteq 0 .. 8 * FdLen - 1 /\ n \in 0 .. 8 * FdLen - 1
      BY <1>0, <2>2
    <3>2. Written(2, FdLen, fds', n) = With(2, fds')
      BY <1>0, <1>a, <1>b, <3>1, WrittenIsThere
    <3>3. fd_bitmask' = fds'
      BY <2>1
    <3> QED BY <1>0, <1>5, <3>2, <3>3 DEF TakeFd
  <2>4. fds' \in SUBSET Int
    BY <2>2
  <2>5. Shape'
    <3>1. info' = info /\ blocks' = blocks
      BY <1>5 DEF TakeFd
    <3>2. disk' \in [0 .. info.block_count - 1 -> SUBSET Int]
      <4>1. disk \in [0 .. info.block_count - 1 -> SUBSET Int]
        BY <1>s DEF Shape
      <4>2. With(2, fds') \in [0 .. info.block_count - 1 -> SUBSET Int]
        BY <2>4, <4>1, WithIsADisk, Zenon
      <4> QED BY <2>3, <4>2
    <3> QED BY <1>s, <2>2, <3>1, <3>2, Zenon DEF Shape
  <2>6. InBlocks'
    <3>1. With(2, fds')[2] = fds' /\ With(2, fds')[1] = disk[1]
      BY <1>c
    <3>2. blocks' = blocks
      BY <1>5 DEF TakeFd
    <3> QED BY <1>b, <2>3, <3>1, <3>2 DEF InBlocks
  <2>7. MountRemembers'
    BY <1>5, <1>s, <2>1 DEF TakeFd, MountRemembers
  <2> QED BY <2>5, <2>6, <2>7 DEF IInv
<1>6. ASSUME NEW n \in 0 .. info.max_file_count - 1, FreeFd(n) PROVE IInv'
  <2>1. fd_bitmask' = fds \ {n} /\ fds' = fds \ {n}
    BY <1>6, <1>s DEF FreeFd, MountRemembers
  <2>2. disk' = With(2, fds')
    <3>1. fds' \subseteq 0 .. 8 * FdLen - 1 /\ n \in 0 .. 8 * FdLen - 1
      BY <1>0, <1>a, <2>1
    <3>2. Written(2, FdLen, fds', n) = With(2, fds')
      BY <1>0, <1>a, <1>b, <3>1, WrittenIsThere
    <3>3. fd_bitmask' = fds'
      BY <2>1
    <3> QED BY <1>0, <1>6, <3>2, <3>3 DEF FreeFd
  <2>3. fds' \subseteq 0 .. info.max_file_count - 1
    BY <1>s, <2>1 DEF Shape
  <2>4. fds' \in SUBSET Int
    BY <2>3
  <2>5. Shape'
    <3>1. info' = info /\ blocks' = blocks
      BY <1>6 DEF FreeFd
    <3>2. disk' \in [0 .. info.block_count - 1 -> SUBSET Int]
      <4>1. disk \in [0 .. info.block_count - 1 -> SUBSET Int]
        BY <1>s DEF Shape
      <4>2. With(2, fds') \in [0 .. info.block_count - 1 -> SUBSET Int]
        BY <2>4, <4>1, WithIsADisk, Zenon
      <4> QED BY <2>2, <4>2
    <3> QED BY <1>s, <2>3, <3>1, <3>2, Zenon DEF Shape
  <2>6. InBlocks'
    <3>1. With(2, fds')[2] = fds' /\ With(2, fds')[1] = disk[1]
      BY <1>c
    <3>2. blocks' = blocks
      BY <1>6 DEF FreeFd
    <3> QED BY <1>b, <2>2, <3>1, <3>2 DEF InBlocks
  <2>7. MountRemembers'
    BY <1>6, <1>s, <2>1 DEF FreeFd, MountRemembers
  <2> QED BY <2>5, <2>6, <2>7 DEF IInv
<1>7. CASE UNCHANGED vars
  BY <1>7, <1>s DEF vars, mem, IInv, Shape, InBlocks, MountRemembers
<1> QED BY <1>1, <1>2, <1>3, <1>4, <1>5, <1>6, <1>7 DEF Next

(* The invariant gives both properties.                                    *)
LEMMA InPlace == ASSUME OneBlock, IInv PROVE BitmapsInPlace
<1>1. info.b_bm_blocks = 1 /\ info.fd_bm_blocks = 1 /\ FdBitmap = 2
        /\ Bits \in Nat /\ blocks \subseteq 0 .. Bits - 1 /\ fds \subseteq 0 .. Bits - 1
  <2>1. Shape
    BY DEF IInv
  <2>2. Bits \in Nat /\ FdBitmap = 2 /\ info.block_count \in Nat
          /\ info.max_file_count \in Nat
          /\ info.block_count <= Bits /\ info.max_file_count <= Bits
    BY <2>1, Numbers
  <2> QED BY <2>1, <2>2 DEF Shape
<1>2. Page(blocks, 0) = blocks /\ Page(fds, 0) = fds
  BY <1>1, PageZero
<1>3. 0 .. 1 - 1 = {0}
  OBVIOUS
<1> QED BY <1>1, <1>2, <1>3 DEF BitmapsInPlace, IInv, InBlocks

(* Whatever was taken, freed and mounted again: the driver knows exactly   *)
(* what belongs to files.                                                  *)
THEOREM RemountRemembers == ASSUME OneBlock PROVE Spec => []MountRemembers
<1>1. Init => IInv
  BY InitInv
<1>2. IInv /\ [Next]_vars => IInv'
  BY NextInv
<1>3. IInv => MountRemembers
  BY DEF IInv
<1> QED BY <1>1, <1>2, <1>3, PTL DEF Spec

(* The two bitmaps on the disk are right after every step, so that the     *)
(* power may go at any time, and they stay in their own blocks.            *)
THEOREM BitmapsStayInPlace == ASSUME OneBlock PROVE Spec => []BitmapsInPlace
<1>1. Init => IInv
  BY InitInv
<1>2. IInv /\ [Next]_vars => IInv'
  BY NextInv
<1>3. IInv => BitmapsInPlace
  BY InPlace
<1> QED BY <1>1, <1>2, <1>3, PTL DEF Spec
=============================================================================
