-------------------------------- MODULE Ffs --------------------------------
(***************************************************************************)
(* The directory and allocation layer of the ffs kernel module (fs/ffs.c): *)
(* create, mkdir, symlink, link, unlink, rmdir, and the contiguous writes  *)
(* of file_write, on an image laid out by mkfs.ffs.                        *)
(*                                                                         *)
(* Every write of ffs.c is synchronous (mark_buffer_dirty,                 *)
(* sync_dirty_buffer, wait_on_buffer), so there is one action per disk     *)
(* write, and a crash may fall between any two of them.  One operation     *)
(* runs at a time; operations that overlap are the subject of FfsBitmap.   *)
(*                                                                         *)
(* Data is counted in cells of one directory entry (16 bytes): a directory *)
(* cell holds [fd, name], a cell of user data is Blank.                    *)
(***************************************************************************)
EXTENDS Integers, Sequences, FiniteSets

CONSTANTS
  NBlocks,      \* sbi->block_count
  Service,      \* blocks of the superblock, the bitmaps and the fd table
  MaxFiles,     \* sbi->max_file_count
  PerBlock,     \* cells in a block: FFS_BLOCK_SIZE / sizeof(entry)
  Names, NoName,
  Hello, World, \* the two files mkfs.ffs puts in the root directory
  MaxSize,      \* bound: cells in a file that a write may reach
  MaxOps,       \* bound: operations started
  MaxCrashes,   \* bound: crashes
  OpsOnTorn     \* whether operations go on after a crash that tore a file

ASSUME SizesAssumption ==
  /\ Service \in Nat \ {0} /\ PerBlock \in Nat /\ PerBlock >= 2
  /\ NBlocks \in Nat /\ NBlocks >= Service + 6
  /\ MaxFiles \in Nat /\ MaxFiles >= 3
ASSUME NamesAssumption ==
  /\ {Hello, World} \subseteq Names /\ Hello # World /\ NoName \notin Names
ASSUME BoundsAssumption ==
  /\ MaxSize \in Nat /\ MaxOps \in Nat /\ MaxCrashes \in Nat
  /\ OpsOnTorn \in BOOLEAN

VARIABLES
  bbm,     \* b_bitmask: the blocks whose bit is set, in memory and on disk
  fbm,     \* fd_bitmask: the descriptors whose bit is set
  index,   \* index[b]: the block numbers listed in block b, when it is a datablock
  cells,   \* cells[b]: the cells of block b, when it holds data
  table,   \* the descriptor table on disk (struct ffs_fd)
  fd,      \* FFS_I(inode)->fd, in memory
  inodes,  \* sbi->inodes: the inodes ffs_iget can find
  op,      \* the operation under way and where it stands
  crashes, nops,
  torn     \* history: files a crash left with too many entries, and their namesakes

vars == <<bbm, fbm, index, cells, table, fd, inodes, op, crashes, nops, torn>>
disk == <<bbm, fbm, index, cells, table>>

Block   == 0 .. NBlocks - 1
Fd      == 0 .. MaxFiles - 1
Slot    == 0 .. PerBlock - 1
Root    == 0
NoBlock == -1     \* ffs_get_empty_block() - 1 when it returned 0
NoFd    == -1
Types   == {"FFS_REG", "FFS_DIR", "FFS_SLINK"}
FdRec   == [type : Types, datablock : Block \cup {NoBlock}, links : Int, size : Nat]
Cell    == [fd : Fd \cup {NoFd}, name : Names \cup {NoName}]
Blank   == [fd |-> NoFd, name |-> NoName]
Kinds   == {"none", "create", "symlink", "link", "unlink", "write"}
Pcs     == {"idle", "get_block", "zero", "write_fd", "file_write", "w_index",
            "shrink", "inc", "dec", "clear", "clear_fd", "oops"}
Returns == {"done", "target", "shrink", "inc"}

(* The registers of an operation: the entry it is about (dir, name, ino),  *)
(* the file_write it is inside (wino, pos, data, blk, ret: what to do when *)
(* it returns) and the loop index of ffs_clear_fd (k).                     *)
OpRec == [kind : Kinds, pc : Pcs, dir : Fd, name : Names \cup {NoName},
          ino : Fd, type : Types, wino : Fd, pos : Nat, data : Seq(Cell),
          blk : Block \cup {NoBlock}, ret : Returns, k : Nat]
NoOp  == [kind |-> "none", pc |-> "idle", dir |-> Root, name |-> NoName,
          ino |-> Root, type |-> "FFS_REG", wino |-> Root, pos |-> 0,
          data |-> <<>>, blk |-> NoBlock, ret |-> "done", k |-> 0]

TypeOK ==
  /\ bbm \subseteq Block /\ fbm \subseteq Fd /\ inodes \subseteq Fd
  /\ index \in [Block -> Seq(Block \cup {NoBlock})]
  /\ cells \in [Block -> [Slot -> Cell]]
  /\ table \in [Fd -> FdRec] /\ fd \in [Fd -> FdRec]
  /\ op \in OpRec
  /\ crashes \in Nat /\ nops \in Nat /\ torn \subseteq Fd

-----------------------------------------------------------------------------
(* Reading directories. t is the table they are read through: fd for what  *)
(* ffs_lookup sees now, table for what a remount would see.                *)

(* The cell at position i of file d (file_read from offset 0).  A position *)
(* in no block of the device is never read: see SizesFit.                  *)
CellAt(t, d, i) ==
  LET b == index[t[d].datablock][i \div PerBlock + 1]
  IN  IF b \in Block THEN cells[b][i % PerBlock] ELSE Blank

(* Position i holds the first entry of that name (remove_from_dir's loop). *)
FirstNamed(t, d, n, i) ==
  /\ i \in 0 .. t[d].size - 1
  /\ CellAt(t, d, i).name = n
  /\ \A j \in 0 .. i - 1 : CellAt(t, d, j).name # n

(* ffs_lookup: the first entry of that name whose inode ffs_iget can find. *)
Lookup(d, n, f) ==
  \E i \in 0 .. fd[d].size - 1 :
     /\ CellAt(fd, d, i) = [fd |-> f, name |-> n] /\ f \in inodes
     /\ \A j \in 0 .. i - 1 : CellAt(fd, d, j).name = n => CellAt(fd, d, j).fd \notin inodes

Absent(d, n) == \A f \in Fd : ~ Lookup(d, n, f)

(* The directories a path from the root can reach, and the entries in them.*)
Subdirs(t) ==
  {e \in fbm \X fbm :
     /\ t[e[1]].type = "FFS_DIR" /\ t[e[2]].type = "FFS_DIR"
     /\ \E i \in 0 .. t[e[1]].size - 1 : CellAt(t, e[1], i).fd = e[2]}
Tree(sub) ==
  {f \in Fd : \A S \in SUBSET Fd :
                Root \in S /\ f \notin S => \E e \in sub : e[1] \in S /\ e[2] \notin S}
DirTree(t) == Tree(Subdirs(t))
Places(t) == UNION {{<<d, i>> : i \in 0 .. t[d].size - 1} : d \in DirTree(t)}
Triples(t) == {<<p[1], CellAt(t, p[1], p[2]).name, CellAt(t, p[1], p[2]).fd>> : p \in Places(t)}
Entries(t, f) == Cardinality({p \in Places(t) : CellAt(t, p[1], p[2]).fd = f})
Named(t) == {Root} \cup {e[3] : e \in Triples(t)}

-----------------------------------------------------------------------------
(* Steps shared by the operations.                                         *)

(* ffs_get_empty_fd, ffs_get_empty_block: the first clear bit, or none.    *)
EmptyBit(bm, n, i) ==
  \/ i \in 0 .. n - 1 /\ i \notin bm /\ \A j \in 0 .. i - 1 : j \in bm
  \/ i = NoBlock /\ 0 .. n - 1 \subseteq bm

Goto(pc) == op' = [op EXCEPT !.pc = pc]

(* sb_bread of block number (unsigned)-1 gives NULL, and the caller uses   *)
(* it: the thread dies where it stands, with its directory's mutex held.   *)
Oops ==
  /\ Goto("oops")
  /\ UNCHANGED <<disk, fd, inodes>>

(* o enters file_write(inode w, data, position).                           *)
Writing(o, w, pos, data, ret) ==
  [o EXCEPT !.pc = "file_write", !.wino = w, !.pos = pos, !.data = data, !.ret = ret]

Datablock(f) == fd[f].datablock

Start ==
  /\ op.pc = "idle" /\ nops < MaxOps
  /\ OpsOnTorn \/ torn = {}
  /\ nops' = nops + 1
  /\ UNCHANGED crashes

(* A file that takes a name which a torn file still bears shares its fate: *)
(* remove_from_dir goes by the name and may remove the other's entry.      *)
SharesName(d, n, f) ==
  torn' = IF \E i \in 0 .. fd[d].size - 1 :
               CellAt(fd, d, i).name = n /\ CellAt(fd, d, i).fd \in torn
          THEN torn \cup ({f} \ {NoFd}) ELSE torn

Continue == UNCHANGED <<crashes, nops, torn>>

-----------------------------------------------------------------------------
(* create_entry (create, mkdir, symlink), with the VFS's precondition that *)
(* d is a directory of the tree with no such name.                         *)

BeginCreate(d, n, t, f) ==
  /\ Start
  /\ d \in DirTree(fd) /\ Absent(d, n) /\ SharesName(d, n, f)
  /\ EmptyBit(fbm, MaxFiles, f)
  /\ \/ /\ f = NoFd                      \* -EINVAL
        /\ UNCHANGED <<disk, fd, inodes, op>>
     \/ /\ f \in Fd
        /\ fbm' = fbm \cup {f}
        /\ op' = [NoOp EXCEPT !.kind = IF t = "FFS_SLINK" THEN "symlink" ELSE "create",
                              !.pc = "get_block", !.dir = d, !.name = n,
                              !.ino = f, !.type = t]
        /\ UNCHANGED <<bbm, index, cells, table, fd, inodes>>

GetBlock ==
  /\ op.pc = "get_block" /\ Continue
  /\ \E b \in Block \cup {NoBlock} :
       /\ EmptyBit(bbm, NBlocks, b)
       /\ bbm' = bbm \cup ({b} \ {NoBlock})
       /\ fd' = [fd EXCEPT ![op.ino] =
                   [type |-> op.type, datablock |-> b, links |-> 1, size |-> 0]]
  /\ Goto("zero")
  /\ UNCHANGED <<fbm, index, cells, table, inodes>>

ZeroIndex ==
  /\ op.pc = "zero" /\ Continue
  /\ \/ Datablock(op.ino) \notin Block /\ Oops
     \/ /\ Datablock(op.ino) \in Block
        /\ index' = [index EXCEPT ![Datablock(op.ino)] = <<>>]
        /\ inodes' = inodes \cup {op.ino}
        /\ Goto("write_fd")
        /\ UNCHANGED <<bbm, fbm, cells, table, fd>>

(* ffs_write_inode of the new file, then add_to_dir appends its entry.     *)
Entry == [fd |-> op.ino, name |-> op.name]

(* Mutant: the new descriptor is never written.                          *)
WriteFdLost ==
  /\ op.pc = "write_fd" /\ Continue
  /\ op' = Writing(op, op.dir, fd[op.dir].size, <<Entry>>,
                   IF op.kind = "symlink" THEN "target" ELSE "done")
  /\ UNCHANGED <<disk, fd, inodes>>

WriteFd ==
  /\ op.pc = "write_fd" /\ Continue
  /\ table' = [table EXCEPT ![op.ino] = fd[op.ino]]
  /\ op' = Writing(op, op.dir, fd[op.dir].size, <<Entry>>,
                   IF op.kind = "symlink" THEN "target" ELSE "done")
  /\ UNCHANGED <<bbm, fbm, index, cells, fd, inodes>>

-----------------------------------------------------------------------------
(* file_write on inode op.wino: one turn of its loop per block, up to      *)
(* three disk writes a turn, and the inode last.                           *)

WBlock == op.pos \div PerBlock                 \* block_index
WIndex == index[Datablock(op.wino)]            \* count and list of the file
Full   == WBlock + 1 > Len(WIndex)             \* (block_index+1) > block_count
Chunk  == LET room == (WBlock + 1) * PerBlock - op.pos
          IN  IF Len(op.data) < room THEN Len(op.data) ELSE room

WriteAlloc ==
  /\ op.pc = "file_write" /\ op.data # <<>> /\ Full /\ Continue
  /\ \E b \in Block \cup {NoBlock} :
       /\ EmptyBit(bbm, NBlocks, b)
       /\ bbm' = bbm \cup ({b} \ {NoBlock})
       /\ op' = [op EXCEPT !.pc = "w_index", !.blk = b]
  /\ UNCHANGED <<fbm, index, cells, table, fd, inodes>>

WriteIndex ==
  /\ op.pc = "w_index" /\ Continue
  /\ index' = [index EXCEPT ![Datablock(op.wino)] = Append(@, op.blk)]
  /\ Goto("file_write")
  /\ UNCHANGED <<bbm, fbm, cells, table, fd, inodes>>

WriteData ==
  /\ op.pc = "file_write" /\ op.data # <<>> /\ ~ Full /\ Continue
  /\ LET b == WIndex[WBlock + 1] IN
     \/ b \notin Block /\ Oops
     \/ /\ b \in Block
        /\ cells' = [cells EXCEPT ![b] =
             [s \in Slot |-> LET i == WBlock * PerBlock + s - op.pos + 1
                             IN  IF i \in 1 .. Chunk THEN op.data[i] ELSE @[s]]]
        /\ op' = [op EXCEPT !.pos = @ + Chunk,
                            !.data = SubSeq(@, Chunk + 1, Len(@))]
        /\ UNCHANGED <<bbm, fbm, index, table, fd, inodes>>

(* Mutant: a write leaves the size one past its end.                     *)
GrownOneMore == [fd[op.wino] EXCEPT !.size = IF op.pos < @ THEN @ ELSE op.pos + 1]

Grown == [fd[op.wino] EXCEPT !.size = IF op.pos < @ THEN @ ELSE op.pos]

(* The inode is written and file_write returns to its caller.              *)
WriteSize ==
  /\ op.pc = "file_write" /\ op.data = <<>> /\ Continue
  /\ fd' = [fd EXCEPT ![op.wino] = Grown]
  /\ table' = [table EXCEPT ![op.wino] = Grown]
  /\ CASE op.ret = "done"   -> op' = NoOp
       [] op.ret = "target" -> op' = Writing(op, op.ino, 0, <<Blank>>, "done")
       [] op.ret = "shrink" -> Goto("shrink")
       [] op.ret = "inc"    -> Goto("inc")
  /\ UNCHANGED <<bbm, fbm, index, cells, inodes>>

(* ffs_file_write: an append, or a write that starts inside the file.      *)
BeginWrite(f, pos, len) ==
  /\ Start
  /\ f \in Named(fd) \cap inodes /\ fd[f].type = "FFS_REG"
  /\ pos <= fd[f].size /\ pos + len <= MaxSize
  /\ op' = Writing([NoOp EXCEPT !.kind = "write", !.ino = f], f, pos,
                   [i \in 1 .. len |-> Blank], "done")
  /\ UNCHANGED <<disk, fd, inodes, torn>>

-----------------------------------------------------------------------------
(* ffs_link: the entry first, the link count after it.                     *)

BeginLink(d, n, f) ==
  /\ Start
  /\ d \in DirTree(fd) /\ Absent(d, n) /\ SharesName(d, n, f)
  /\ \E e \in Triples(fd) : e[3] = f /\ Lookup(e[1], e[2], f)
  /\ fd[f].type # "FFS_DIR"
  /\ op' = Writing([NoOp EXCEPT !.kind = "link", !.dir = d, !.name = n, !.ino = f],
                   d, fd[d].size, <<[fd |-> f, name |-> n]>>, "inc")
  /\ UNCHANGED <<disk, fd, inodes>>

(* Mutant: the new link count stays in memory.                           *)
IncLinksInMemory ==
  /\ op.pc = "inc" /\ Continue
  /\ fd' = [fd EXCEPT ![op.ino].links = @ + 1]
  /\ op' = NoOp
  /\ UNCHANGED <<disk, inodes>>

IncLinks ==
  /\ op.pc = "inc" /\ Continue
  /\ LET r == [fd[op.ino] EXCEPT !.links = @ + 1]
     IN  fd' = [fd EXCEPT ![op.ino] = r] /\ table' = [table EXCEPT ![op.ino] = r]
  /\ op' = NoOp
  /\ UNCHANGED <<bbm, fbm, index, cells, inodes>>

-----------------------------------------------------------------------------
(* ffs_unlink and ffs_rmdir: remove_from_dir writes the tail of the        *)
(* directory over the entry, then the shorter size; then the link count,   *)
(* or the blocks one by one, their datablock and the descriptor's bit.     *)

(* The code moves the tail with memcpy (266), whose ranges overlap; it is  *)
(* modelled as the move that the kernel's memcpy, copying upwards, makes.  *)

(* Mutant: the tail is copied from the entry itself.                     *)
TailOff(d, i) == [j \in 1 .. fd[d].size - i - 1 |-> CellAt(fd, d, i + j - 1)]

Tail1(d, i) == [j \in 1 .. fd[d].size - i - 1 |-> CellAt(fd, d, i + j)]

(* Mutant: a directory may be removed with entries in it.                *)
BeginUnlinkFull(d, n, f) ==
  /\ Start
  /\ d \in DirTree(fd) /\ Lookup(d, n, f)
  /\ \E i \in 0 .. fd[d].size - 1 :
       /\ FirstNamed(fd, d, n, i)
       /\ op' = Writing([NoOp EXCEPT !.kind = "unlink", !.dir = d, !.name = n, !.ino = f],
                        d, i, Tail1(d, i), "shrink")
  /\ UNCHANGED <<disk, fd, inodes, torn>>

BeginUnlink(d, n, f) ==
  /\ Start
  /\ d \in DirTree(fd) /\ Lookup(d, n, f)
  /\ fd[f].type = "FFS_DIR" => f # Root /\ fd[f].size = 0   \* else -ENOTEMPTY
  /\ \E i \in 0 .. fd[d].size - 1 :
       /\ FirstNamed(fd, d, n, i)
       /\ op' = Writing([NoOp EXCEPT !.kind = "unlink", !.dir = d, !.name = n, !.ino = f],
                        d, i, Tail1(d, i), "shrink")
  /\ UNCHANGED <<disk, fd, inodes, torn>>

(* Mutant: the tail is moved, and the directory not shortened.           *)
ShrinkForgotten ==
  /\ op.pc = "shrink" /\ Continue
  /\ Goto("dec")
  /\ UNCHANGED <<disk, fd, inodes>>

(* Mutant: the shorter size stays in memory.                             *)
ShrinkInMemory ==
  /\ op.pc = "shrink" /\ Continue
  /\ fd' = [fd EXCEPT ![op.dir].size = @ - 1]
  /\ Goto("dec")
  /\ UNCHANGED <<disk, inodes>>

Shrink ==
  /\ op.pc = "shrink" /\ Continue
  /\ LET r == [fd[op.dir] EXCEPT !.size = @ - 1]
     IN  fd' = [fd EXCEPT ![op.dir] = r] /\ table' = [table EXCEPT ![op.dir] = r]
  /\ Goto("dec")
  /\ UNCHANGED <<bbm, fbm, index, cells, inodes>>

(* Mutant: a file is freed with one name left.                           *)
DecLinksToOne ==
  /\ op.pc = "dec" /\ Continue
  /\ LET r == [fd[op.ino] EXCEPT !.links = @ - 1] IN
     /\ fd' = [fd EXCEPT ![op.ino] = r]
     /\ \/ /\ r.links <= 1
           /\ op' = [op EXCEPT !.pc = "clear", !.k = 1]
           /\ UNCHANGED table
        \/ /\ r.links > 1
           /\ table' = [table EXCEPT ![op.ino] = r]
           /\ op' = NoOp
  /\ UNCHANGED <<bbm, fbm, index, cells, inodes>>

DecLinks ==
  /\ op.pc = "dec" /\ Continue
  /\ LET r == [fd[op.ino] EXCEPT !.links = @ - 1] IN
     /\ fd' = [fd EXCEPT ![op.ino] = r]
     /\ \/ /\ r.links = 0
           /\ op' = [op EXCEPT !.pc = "clear", !.k = 1]
           /\ UNCHANGED table
        \/ /\ r.links # 0
           /\ table' = [table EXCEPT ![op.ino] = r]
           /\ op' = NoOp
  /\ UNCHANGED <<bbm, fbm, index, cells, inodes>>

(* ffs_clear_fd, one bit at a time; each reset is written at once.         *)
FIndex == index[Datablock(op.ino)]

(* Mutant: the loop does not move on.                                    *)
ClearBlockStuck ==
  /\ op.pc = "clear" /\ op.k \in 1 .. Len(FIndex) /\ Continue
  /\ FIndex[op.k] \in Block
  /\ bbm' = bbm \ {FIndex[op.k]}
  /\ UNCHANGED <<fbm, index, cells, table, fd, inodes, op>>

ClearBlock ==
  /\ op.pc = "clear" /\ op.k \in 1 .. Len(FIndex) /\ Continue
  /\ \/ FIndex[op.k] \notin Block /\ Oops   \* RESET_BIT far outside the bitmap
     \/ /\ FIndex[op.k] \in Block
        /\ bbm' = bbm \ {FIndex[op.k]}
        /\ op' = [op EXCEPT !.k = @ + 1]
        /\ UNCHANGED <<fbm, index, cells, table, fd, inodes>>

ClearIndex ==
  /\ op.pc = "clear" /\ op.k > Len(FIndex) /\ Continue
  /\ bbm' = bbm \ {Datablock(op.ino)}
  /\ Goto("clear_fd")
  /\ UNCHANGED <<fbm, index, cells, table, fd, inodes>>

(* Mutant: the descriptor's bit is not reset.                            *)
ClearFdForgotten ==
  /\ op.pc = "clear_fd" /\ Continue
  /\ inodes' = inodes \ {op.ino}
  /\ op' = NoOp
  /\ UNCHANGED <<disk, fd>>

ClearFd ==
  /\ op.pc = "clear_fd" /\ Continue
  /\ fbm' = fbm \ {op.ino} /\ inodes' = inodes \ {op.ino}
  /\ op' = NoOp
  /\ UNCHANGED <<bbm, index, cells, table, fd>>

-----------------------------------------------------------------------------
(* The machine stops, and the image is mounted again (ffs_read_root): what *)
(* was in memory is read back from the disk.                               *)
Undercounted(f) == Entries(table, f) > table[f].links
Doubled(f) ==
  \E p, q \in Places(table) :
    /\ p # q /\ p[1] = q[1]
    /\ CellAt(table, p[1], p[2]).fd = f
    /\ CellAt(table, p[1], p[2]) = CellAt(table, q[1], q[2])
Crash ==
  /\ crashes < MaxCrashes
  /\ crashes' = crashes + 1
  /\ fd' = [f \in Fd |-> IF f \in fbm THEN table[f] ELSE fd[f]]
  /\ inodes' = fbm
  /\ op' = NoOp
  /\ torn' = torn \cup {f \in Fd : Undercounted(f) \/ Doubled(f)}
  /\ UNCHANGED <<disk, nops>>

(* The image of mkfs.ffs, mounted.                                         *)
MkfsFd(f) == IF f = 0 THEN [type |-> "FFS_DIR", datablock |-> Service, links |-> 1, size |-> 2]
             ELSE IF f \in {1, 2}
             THEN [type |-> "FFS_REG", datablock |-> Service + f, links |-> 1, size |-> 1]
             ELSE [type |-> "FFS_REG", datablock |-> 0, links |-> 0, size |-> 0]
Init ==
  /\ bbm = 0 .. Service + 5 /\ fbm = {0, 1, 2} /\ inodes = {0, 1, 2}
  /\ index = [b \in Block |-> IF b \in Service .. Service + 2 THEN <<b + 3>> ELSE <<>>]
  /\ cells = [b \in Block |-> [s \in Slot |->
                IF b # Service + 3 \/ s > 1 THEN Blank
                ELSE [fd |-> s + 1, name |-> IF s = 0 THEN Hello ELSE World]]]
  /\ table = [f \in Fd |-> MkfsFd(f)] /\ fd = table
  /\ op = NoOp /\ crashes = 0 /\ nops = 0 /\ torn = {}

Begin ==
  \/ \E d \in Fd, n \in Names, t \in Types, f \in Fd \cup {NoFd} : BeginCreate(d, n, t, f)
  \/ \E d \in Fd, n \in Names, f \in Fd : BeginLink(d, n, f)
  \/ \E d \in Fd, n \in Names, f \in Fd : BeginUnlink(d, n, f)
  \/ \E f \in Fd, pos \in 0 .. MaxSize, len \in 1 .. MaxSize : BeginWrite(f, pos, len)
Step ==
  \/ GetBlock \/ ZeroIndex \/ WriteFd
  \/ WriteAlloc \/ WriteIndex \/ WriteData \/ WriteSize
  \/ IncLinks \/ Shrink \/ DecLinks \/ ClearBlock \/ ClearIndex \/ ClearFd

Next == Begin \/ Step \/ Crash

Spec == Init /\ [][Next]_vars

(* A system call that has begun keeps running: every lock it may wait for  *)
(* is free when operations do not overlap.                                 *)
FairSpec == Spec /\ WF_vars(Step)
-----------------------------------------------------------------------------
(* What a file owns on disk: its datablock and the blocks listed there.    *)
Listed(f) == {index[table[f].datablock][i] : i \in 1 .. Len(index[table[f].datablock])}
Owned(f)  == ({table[f].datablock} \cup Listed(f)) \ {NoBlock}
Intact    == Named(table) \ torn
AtRest    == op.pc = "idle"

(* Between any two disk writes, so after any crash, a name on disk leads   *)
(* to a descriptor in use whose datablock and blocks are marked: the order *)
(* of writes in create_entry, file_write and remove_from_dir is safe.      *)
NoDangling == \A f \in Intact : f \in fbm /\ Owned(f) \subseteq bbm

(* The size of a file never runs ahead of its blocks: what a reader finds  *)
(* below it was allocated, listed and written before.                      *)
SizesFit ==
  \A f \in Intact :
    \A i \in 0 .. table[f].size - 1 :
      LET list == index[table[f].datablock]
      IN  i \div PerBlock < Len(list) /\ list[i \div PerBlock + 1] \in Block

(* No block belongs to two files, twice to one file, or to the service     *)
(* area, whatever was freed and allocated again in between.                *)
ExclusiveBlocks ==
  \A f \in Intact :
    /\ Owned(f) \cap (0 .. Service - 1) = {}
    /\ Cardinality(Owned(f)) =
         1 + Cardinality({i \in 1 .. Len(index[table[f].datablock]) :
                            index[table[f].datablock][i] # NoBlock})
    /\ \A g \in Intact \ {f} : Owned(f) \cap Owned(g) = {}

(* A link count never promises fewer names than there are, at rest; it is  *)
(* exact unless a crash cut an unlink after the name was gone.             *)
LinkCounts ==
  AtRest => \A f \in Intact \ {Root} :
              /\ table[f].links >= Entries(table, f)
              /\ crashes = 0 => table[f].links = Entries(table, f)

(* A crash costs at most one descriptor: at rest nothing is lost but the   *)
(* descriptors of operations that a crash cut.                             *)
CrashCost == AtRest => Cardinality(fbm \ Named(table)) <= crashes

(* Without a crash nothing leaks: what is marked is what names reach.  With*)
(* one, see CrashCost.                                                     *)
NoLeak ==
  /\ AtRest /\ crashes = 0 =>
       /\ fbm = Named(table)
       /\ bbm = (0 .. Service - 1) \cup UNION {Owned(f) : f \in Named(table)}
  /\ CrashCost

(* At rest the memory is what a remount would read.                        *)
MemoryIsDisk == AtRest => inodes = fbm /\ \A f \in fbm : fd[f] = table[f]

(* A name stands in its directory once.                                    *)
UniqueNames ==
  AtRest => \A p, q \in Places(table) :
    LET c == CellAt(table, p[1], p[2])
        e == CellAt(table, q[1], q[2])
    IN  p[1] = q[1] /\ c.name = e.name /\ {c.fd, e.fd} \cap torn = {}
          => p = q

(* A directory that has entries on the disk is on a path from the root:    *)
(* ffs_rmdir looks at the size (404) before a dozen writes, in none of     *)
(* which, nor after a crash in one, what is below a directory is cut off.  *)
NothingCutOff ==
  \A d \in fbm \ torn :
    table[d].type = "FFS_DIR" /\ table[d].size > 0 => d \in DirTree(table)

(* What the properties above except, a crash leaves in two places only: in *)
(* ffs_link between the entry and the link count, the file it links; and   *)
(* in remove_from_dir between the first of the tail and the shorter size,  *)
(* one file, the one whose entry was moved last.                           *)
TearsAreKnown ==
  [][torn = {} /\ torn' # {} =>
       \E f \in Fd :
         /\ torn' = {f}
         /\ \/ op.kind = "link" /\ op.pc = "inc" /\ f = op.ino
            \/ /\ op.kind = "unlink" /\ op.pc \in {"file_write", "shrink"}
               /\ CellAt(table, op.dir, op.pos).fd = f]_vars

(* An operation that has begun ends, unless the thread dies.               *)
OpsEnd == (op.pc # "idle") ~> (op.pc \in {"idle", "oops"})
=============================================================================
