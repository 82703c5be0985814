------------------------------ MODULE FfsFile ------------------------------
(***************************************************************************)
(* The contents of regular files in fs/ffs.c: file_write, file_read,       *)
(* ffs_setattr, and ffs_unlink of a file that may still be open.           *)
(*                                                                         *)
(* A block of the device is an array of cells of one 32-bit word, because  *)
(* ffs keeps in them, without telling them apart, the words of a datablock *)
(* (word 0 the count, word i the number of the i-th block) and file data.  *)
(* The buffer cache and the disk agree, every write being synchronous; a   *)
(* process may be overtaken wherever a write sleeps.  Crashes and          *)
(* directories are the subject of Ffs, the two searches of a bitmap of     *)
(* FfsBitmap: here ffs_get_empty_block is one step.                        *)
(*                                                                         *)
(* Uses says what the processes do beyond the sequential writes and whole  *)
(* reads that the driver gets right.  Two calls on one file are kept apart *)
(* by no lock: ffs_file_write takes none, and the mutex under which the    *)
(* VFS calls ffs_setattr is not known to it.  That they overlap all the    *)
(* same, two writes or a write and a truncation, is "overlap".             *)
(***************************************************************************)
EXTENDS Integers, Sequences, FiniteSets

CONSTANTS
  NBlocks,      \* sbi->block_count
  Service,      \* blocks of the superblock, bitmaps, fd table and root directory
  PerBlock,     \* words in a block: FFS_BLOCK_SIZE / 4
  Files,        \* inodes
  Procs,        \* processes, each with one file open at most
  Values,       \* words of user data
  Uses,         \* a subset of AllUses
  MaxSize,      \* bound: words in a file
  MaxLen,       \* bound: words in a write
  MaxOps        \* bound: creates, writes, truncations, unlinks

AllUses == {"shrink", "expand", "gap", "orphan", "overlap"}

ASSUME FileAssumption ==
  /\ PerBlock \in Nat /\ PerBlock >= 2 /\ Service \in Nat /\ Service >= 2
  /\ NBlocks \in Nat /\ NBlocks > Service
  /\ MaxSize \in Nat /\ MaxLen \in Nat /\ MaxOps \in Nat /\ Uses \subseteq AllUses
  /\ \A v \in Values : v \in Nat /\ v >= NBlocks

VARIABLES
  bits,   \* b_bitmask: the blocks marked
  blk,    \* blk[b]: the words of block b
  db,     \* fd.datablock_id of each inode
  size,   \* i_size (and fd.file_size), in words
  named,  \* the inodes with a name (link_count 1)
  pr,     \* what each process does
  want,   \* history: what POSIX says the file holds
  oops,   \* a thread used memory outside a buffer: nothing is known from there
  nops

vars == <<bits, blk, db, size, named, pr, want, oops, nops>>

Block   == 0 .. NBlocks - 1
Word    == 0 .. PerBlock - 1
NoBlock == -1            \* ffs_get_empty_block() - 1 when it returned 0
Meta    == 0             \* what the service blocks hold, not told apart
Blank   == [w \in Word |-> Meta]
Bitmap  == 1             \* FFS_B_BITMASK_BLOCK
Closed  == [pc |-> "closed"]

(* pc: "open" between calls; in file_write "write" at the top of the loop  *)
(* and "slot" asleep in ffs_get_empty_block. bc is block_count, left is    *)
(* copy_left, got the block found.                                         *)
PrRec == {Closed} \cup
         [pc : {"open", "write", "slot"}, f : Files, bc : Nat, pos : Nat,
          left : Nat, val : Values \cup {Meta}, got : Block \cup {NoBlock}]

TypeOK ==
  /\ bits \subseteq Block /\ named \subseteq Files /\ oops \in BOOLEAN /\ nops \in Nat
  /\ blk \in [Block -> [Word -> Nat \cup {NoBlock}]]
  /\ db \in [Files -> Block] /\ size \in [Files -> Nat]
  /\ pr \in [Procs -> PrRec]
  /\ want \in [Files -> Seq(Values \cup {Meta})]

-----------------------------------------------------------------------------
Least(a, b)  == IF a < b THEN a ELSE b
BlocksFor(n) == (n + PerBlock - 1) \div PerBlock

(* ffs_get_empty_block: the lowest clear bit. It also writes the bitmap    *)
(* block (Saved), over whatever a file may have put there.                 *)
Clear    == Block \ bits
EmptyBlk == IF Clear = {} THEN NoBlock ELSE CHOOSE b \in Clear : \A c \in Clear : b <= c

(* Mutant: SET_BIT forgotten.                                              *)
NotMarked(b) == bits

Marked(b) == bits \cup ({b} \cap Block)
Saved(m) == [m EXCEPT ![Bitmap] = Blank]

Count(f)   == blk[db[f]][0]
Holders(f) == {p \in Procs : pr[p] # Closed /\ pr[p].f = f}
Writers(f) == {p \in Holders(f) : pr[p].pc # "open"}

(* What POSIX makes of n words v written at pos; holes read as zeros.      *)
Overlay(s, pos, n, v) ==
  [i \in 1 .. (IF Len(s) > pos + n THEN Len(s) ELSE pos + n) |->
     IF i \in pos + 1 .. pos + n THEN v ELSE IF i <= Len(s) THEN s[i] ELSE Meta]

Op == ~ oops /\ nops < MaxOps /\ nops' = nops + 1
Oops == oops' = TRUE /\ UNCHANGED <<bits, blk, db, size, named, pr, want>>

-----------------------------------------------------------------------------
(* create_entry: a datablock, zeroed.                                      *)
Create(f) ==
  /\ Op /\ f \notin named /\ Holders(f) = {}
  /\ IF EmptyBlk = NoBlock THEN Oops       \* sb_bread of block -1, not checked
     ELSE /\ bits' = Marked(EmptyBlk)
          /\ blk' = [Saved(blk) EXCEPT ![EmptyBlk] = Blank]
          /\ db' = [db EXCEPT ![f] = EmptyBlk]
          /\ size' = [size EXCEPT ![f] = 0] /\ want' = [want EXCEPT ![f] = <<>>]
          /\ named' = named \cup {f}
          /\ UNCHANGED <<pr, oops>>

(* open(2) and close(2), of which ffs.c sees nothing.                      *)
Open(p, f) ==
  /\ ~ oops /\ f \in named /\ pr[p] = Closed
  /\ pr' = [pr EXCEPT ![p] = [pc |-> "open", f |-> f, bc |-> 0, pos |-> 0,
                              left |-> 0, val |-> Meta, got |-> NoBlock]]
  /\ UNCHANGED <<bits, blk, db, size, named, want, oops, nops>>
Close(p) ==
  /\ ~ oops /\ pr[p] # Closed /\ pr[p].pc = "open"
  /\ pr' = [pr EXCEPT ![p] = Closed]
  /\ UNCHANGED <<bits, blk, db, size, named, want, oops, nops>>

-----------------------------------------------------------------------------
(* file_write. The count and, with O_APPEND, the position are read before  *)
(* the first sleep.                                                        *)
Write(p, append, at, n, v) ==
  LET f   == pr[p].f
      pos == IF append THEN size[f] ELSE at
  IN
  /\ pr[p] # Closed /\ pr[p].pc = "open" /\ Op
  /\ Writers(f) = {} \/ "overlap" \in Uses
  /\ pos <= size[f] \/ "gap" \in Uses
  /\ append => at = 0
  /\ pos + n <= MaxSize
  /\ pr' = [pr EXCEPT ![p] = [@ EXCEPT !.pc = "write", !.bc = Count(f), !.pos = pos,
                                       !.left = n, !.val = v]]
  /\ want' = [want EXCEPT ![f] = Overlay(@, IF append THEN Len(@) ELSE at, n, v)]
  /\ UNCHANGED <<bits, blk, db, size, named, oops>>

Index(p) == pr[p].pos \div PerBlock                            \* block_index
Beyond(p) == Index(p) + 1 > pr[p].bc
Looping(p) == ~ oops /\ pr[p] # Closed /\ pr[p].pc = "write" /\ pr[p].left > 0

(* The count goes up, then ffs_get_empty_block marks a block and sleeps.   *)
Grow(p) ==
  /\ Looping(p) /\ Beyond(p)
  /\ bits' = Marked(EmptyBlk)
  /\ blk' = Saved([blk EXCEPT ![db[pr[p].f]][0] = @ + 1])
  /\ pr' = [pr EXCEPT ![p].pc = "slot", ![p].got = EmptyBlk]
  /\ UNCHANGED <<db, size, named, want, oops, nops>>

Stored(p) == pr[p].got

(* Its number goes into the datablock; there are PerBlock - 1 slots.       *)
SetSlot(p) ==
  /\ ~ oops /\ pr[p] # Closed /\ pr[p].pc = "slot"
  /\ IF Index(p) + 1 \in Word
     THEN /\ blk' = [blk EXCEPT ![db[pr[p].f]][Index(p) + 1] = Stored(p)]
          /\ pr' = [pr EXCEPT ![p].pc = "write", ![p].bc = @ + 1, ![p].got = NoBlock]
          /\ UNCHANGED <<bits, db, size, named, want, oops>>
     ELSE Oops
  /\ UNCHANGED nops

(* Mutant: last_block_num is not read again for the next block.            *)
TargetOld(p) == blk[db[pr[p].f]][IF Index(p) > 0 THEN Index(p) ELSE 1]

(* last_block_num of the turn.                                             *)
Target(p) == blk[db[pr[p].f]][Index(p) + 1]

(* Up to the end of the block is copied.                                   *)
Chunk(p) == Least(pr[p].left, (Index(p) + 1) * PerBlock - pr[p].pos)
Put(p) ==
  /\ Looping(p) /\ ~ Beyond(p)
  /\ IF Index(p) + 1 \in Word /\ Target(p) \in Block
     THEN /\ blk' = [blk EXCEPT ![Target(p)] =
                [w \in Word |-> IF Index(p) * PerBlock + w
                                     \in pr[p].pos .. pr[p].pos + Chunk(p) - 1
                                THEN pr[p].val ELSE @[w]]]
          /\ pr' = [pr EXCEPT ![p].pos = @ + Chunk(p), ![p].left = @ - Chunk(p)]
          /\ UNCHANGED <<bits, db, size, named, want, oops>>
     ELSE Oops
  /\ UNCHANGED nops

WriteEnd(p) ==
  /\ ~ oops /\ pr[p] # Closed /\ pr[p].pc = "write" /\ pr[p].left = 0
  /\ size' = [size EXCEPT ![pr[p].f] = IF pr[p].pos < @ THEN @ ELSE pr[p].pos]
  /\ pr' = [pr EXCEPT ![p].pc = "open", ![p].bc = 0, ![p].pos = 0, ![p].val = Meta]
  /\ UNCHANGED <<bits, blk, db, named, want, oops, nops>>

-----------------------------------------------------------------------------
(* ffs_setattr with a new size. Shrinking resets, once per block dropped,  *)
(* the bit whose number is the count itself; growing takes blocks and      *)
(* keeps none of their numbers.  It takes the count for what the size      *)
(* needs, which in the midst of a write it is not.                         *)
LowestClear(k) == {b \in Clear : Cardinality({c \in Clear : c < b}) < k}

Truncated(f, n) == [i \in 1 .. n |-> IF i <= Len(want[f]) THEN want[f][i] ELSE Meta]

SetSize(f, n) ==
  LET prev == Count(f)
      new  == BlocksFor(n)
  IN
  /\ Op /\ f \in named /\ n # size[f]
  /\ Writers(f) = {} \/ "overlap" \in Uses
  /\ bits' = IF n > size[f] THEN bits \cup LowestClear(new - 2 * prev)
             ELSE IF prev > new THEN bits \ {prev} ELSE bits
  /\ blk' = [(IF bits' = bits THEN blk ELSE Saved(blk)) EXCEPT ![db[f]][0] = new]
  /\ size' = [size EXCEPT ![f] = n]
  /\ want' = [want EXCEPT ![f] = Truncated(f, n)]
  /\ UNCHANGED <<db, named, pr, oops>>

(* Without "shrink" and "expand" a file only loses words of its last block.*)
Resize(f, n) ==
  /\ n > size[f] => "expand" \in Uses
  /\ n < size[f] => "shrink" \in Uses \/ BlocksFor(n) = BlocksFor(size[f])
  /\ SetSize(f, n)

-----------------------------------------------------------------------------
(* Mutant: the loop of ffs_clear_fd stops one block early.                 *)
ListedShort(f) == {blk[db[f]][i] : i \in 1 .. Least(Count(f) - 1, PerBlock - 1)}

(* The blocks of slots 1 to count.                                         *)
Listed(f) == {blk[db[f]][i] : i \in 1 .. Least(Count(f), PerBlock - 1)}

(* ffs_unlink of the last name: ffs_clear_fd frees the blocks and the      *)
(* datablock at once, open or not. A datablock that has been given to      *)
(* somebody else may hold anything.                                        *)
Unlink(f) ==
  /\ Op /\ f \in named /\ (Holders(f) = {} \/ "orphan" \in Uses)
  /\ IF Count(f) \in Word /\ Listed(f) \subseteq Block
     THEN /\ bits' = bits \ (Listed(f) \cup {db[f]})
          /\ blk' = Saved(blk)
          /\ named' = named \ {f}
          /\ UNCHANGED <<db, size, pr, want, oops>>
     ELSE Oops

-----------------------------------------------------------------------------
(* A turn of file_read, as the code has it: it copies from the start of the *)
(* block, and as much as max, however much was read before.                *)
ReadTurn(f, max, s) ==
  LET i    == s.off \div PerBlock
      rest == size[f] - s.off                                  \* till_end
      n    == Least(Least(rest, PerBlock - (s.off % PerBlock)), max)
      b    == IF i + 1 \in Word THEN blk[db[f]][i + 1] ELSE NoBlock
  IN  IF Len(s.got) >= max \/ rest <= 0 THEN s
      ELSE [off |-> s.off + n,
            got |-> s.got \o [w \in 1 .. n |-> IF b \in Block THEN blk[b][w - 1] ELSE Meta]]

(* The loop: MaxSize turns are enough.                                     *)
FileRead(f, at, max) ==
  LET turn[k \in 0 .. MaxSize] ==
        IF k = 0 THEN [off |-> at, got |-> <<>>] ELSE ReadTurn(f, max, turn[k - 1])
  IN  turn[MaxSize].got

-----------------------------------------------------------------------------
Init ==
  /\ bits = 0 .. Service - 1
  /\ blk = [b \in Block |-> Blank]
  /\ db = [f \in Files |-> 0] /\ size = [f \in Files |-> 0] /\ named = {}
  /\ pr = [p \in Procs |-> Closed]
  /\ want = [f \in Files |-> <<>>] /\ oops = FALSE /\ nops = 0

Step(p) == Grow(p) \/ SetSlot(p) \/ Put(p) \/ WriteEnd(p)
Call(p) ==
  \/ \E f \in Files : Open(p, f)
  \/ Close(p)
  \/ \E a \in BOOLEAN, at \in 0 .. MaxSize, n \in 1 .. MaxLen, v \in Values :
       Write(p, a, at, n, v)
ByName(f) == Create(f) \/ Unlink(f) \/ \E n \in 0 .. MaxSize : Resize(f, n)

Next == (\E p \in Procs : Step(p) \/ Call(p)) \/ (\E f \in Files : ByName(f))

Spec == Init /\ [][Next]_vars
-----------------------------------------------------------------------------
Settled(f) == f \in named /\ Writers(f) = {} /\ ~ oops

(* A file read from its start with a buffer that holds it gives what was   *)
(* last written everywhere, whatever other files did meanwhile.            *)
ReadsBack == \A f \in Files : Settled(f) => FileRead(f, 0, MaxSize) = want[f]

(* So does any read of any part of it.                                     *)
ReadsAnyPart ==
  \A f \in Files : Settled(f) =>
    \A at \in 0 .. MaxSize, max \in 1 .. MaxSize :
      FileRead(f, at, max) = SubSeq(want[f], at + 1, Least(at + max, Len(want[f])))

(* The blocks of the files with names are marked, lie outside the service  *)
(* area, and no block serves twice, also while files grow side by side and *)
(* when the device is full.                                                *)
Owned(f) == {db[f]} \cup (Listed(f) \ {Meta, NoBlock})
OwnBlocks ==
  ~ oops => \A f \in named :
    /\ Owned(f) \subseteq bits \ (0 .. Service - 1)
    /\ Settled(f) => Cardinality(Owned(f)) = 1 + BlocksFor(size[f])
    /\ \A g \in named \ {f} : Owned(f) \cap Owned(g) = {}

(* The types of the state, and who owns which block.                       *)
BlocksOwned == TypeOK /\ OwnBlocks

(* With no write under way the bitmap marks what the files own and nothing *)
(* else: what truncation drops and unlink frees is free.                   *)
Reclaimed ==
  (\A f \in Files : Writers(f) = {}) /\ ~ oops =>
    bits = (0 .. Service - 1) \cup UNION {Owned(f) : f \in named}

(* Every write has its place in the file: none is lost to another.         *)
NothingLost == \A f \in Files : Settled(f) => size[f] = Len(want[f])

(* No thread leaves the buffer of a block.                                 *)
NoOverrun == ~ oops
=============================================================================
