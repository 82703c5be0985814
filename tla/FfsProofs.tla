------------------------------ MODULE FfsProofs ------------------------------
(***************************************************************************)
(* Proofs about Ffs, for every size of the image, of the descriptor table  *)
(* and of a block, and any number of operations and crashes.               *)
(*                                                                         *)
(* First (IInv): types are right, and at rest the memory is what a remount *)
(* would read.                                                             *)
(*                                                                         *)
(* Then (SafeInv): what a crash can cost, as long as no operation starts   *)
(* on an image that a crash tore (OpsOnTorn is FALSE).  Names lead to      *)
(* sound files, blocks belong to one file, link counts are right, names    *)
(* are unique, nothing is lost but what a crash cut.                       *)
(*                                                                         *)
(* Last (CallInv): Ffs implements FfsNamespace.  A call of ffs.c, a dozen  *)
(* disk writes long, changes the namespace that a remount would find in    *)
(* one of them, by its own entry, and a crash in none.                     *)
(***************************************************************************)
EXTENDS FfsRefinement, FiniteSetTheorems, TLAPS

(* The descriptor whose in-memory copy runs ahead of the disk: while       *)
(* create_entry has not written it, or ffs_clear_fd is tearing it down.    *)
Pending == IF op.pc \in {"get_block", "zero", "write_fd", "clear", "clear_fd"}
           THEN {op.ino} ELSE {}
Unlisted == IF op.pc \in {"get_block", "zero"} THEN {op.ino} ELSE {}

MemInv ==
  op.pc # "oops" =>
    /\ inodes = fbm \ Unlisted
    /\ Unlisted \subseteq fbm
    /\ \A f \in fbm \ Pending : fd[f] = table[f]

(* remove_from_dir shrinks a directory that has an entry.                  *)
ShrinkInv ==
  \/ op.pc = "shrink"
  \/ op.ret = "shrink" /\ op.pc \in {"file_write", "w_index"}
  => fd[op.dir].size >= 1

IInv == TypeOK /\ MemInv /\ ShrinkInv

(* The cell a size points at lies in a block and a slot of it.             *)
LEMMA DivMod ==
  ASSUME NEW a \in Nat
  PROVE  /\ a \div PerBlock \in Nat /\ a % PerBlock \in Slot
         /\ (a \div PerBlock + 1) * PerBlock - a \in 1 .. PerBlock
BY SizesAssumption DEF Slot

(* A directory reads as cells, whatever the disk holds.                    *)
LEMMA CellAtType ==
  ASSUME TypeOK, NEW t, NEW d, NEW i \in Nat
  PROVE  CellAt(t, d, i) \in Cell
<1>1. CASE index[t[d].datablock][i \div PerBlock + 1] \in Block
  BY <1>1, DivMod DEF CellAt, TypeOK
<1>2. CASE index[t[d].datablock][i \div PerBlock + 1] \notin Block
  BY <1>2 DEF CellAt, Cell, Blank
<1> QED BY <1>1, <1>2

(* The idle operation is an operation.                                     *)
LEMMA NoOpType == NoOp \in OpRec
BY SizesAssumption DEF NoOp, OpRec, Kinds, Pcs, Returns, Root, Fd, Types, Block, NoBlock, Cell

(* Entering file_write sets an operation of the right type.                *)
LEMMA WritingType ==
  ASSUME NEW o \in OpRec, NEW w \in Fd, NEW pos \in Nat, NEW data \in Seq(Cell),
         NEW ret \in Returns
  PROVE  /\ Writing(o, w, pos, data, ret) \in OpRec
         /\ Writing(o, w, pos, data, ret).pc = "file_write"
         /\ Writing(o, w, pos, data, ret).ret = ret
         /\ Writing(o, w, pos, data, ret).dir = o.dir
         /\ Writing(o, w, pos, data, ret).ino = o.ino
BY DEF Writing, OpRec, Pcs

(* The image of mkfs.ffs, mounted, satisfies the invariant.                *)
LEMMA InitInv == Init => IInv
<1> SUFFICES ASSUME Init PROVE IInv
  OBVIOUS
<1> USE SizesAssumption, NamesAssumption
<1>1. table \in [Fd -> FdRec]
  BY DEF Init, MkfsFd, FdRec, Types, Fd, Block
<1>2. index \in [Block -> Seq(Block \cup {NoBlock})]
  <2>1. ASSUME NEW b \in Block
        PROVE  (IF b \in Service .. Service + 2 THEN <<b + 3>> ELSE <<>>)
                 \in Seq(Block \cup {NoBlock})
    <3>1. CASE b \in Service .. Service + 2
      <4>1. b + 3 \in Block
        BY <3>1 DEF Block
      <4> QED BY <3>1, <4>1
    <3>2. CASE b \notin Service .. Service + 2
      BY <3>2
    <3> QED BY <3>1, <3>2
  <2> QED BY <2>1 DEF Init
<1>3. cells \in [Block -> [Slot -> Cell]]
  BY DEF Init, Block, Slot, Cell, Blank, Fd, NoFd
<1>4. TypeOK
  <2>1. bbm \subseteq Block /\ fbm \subseteq Fd /\ inodes \subseteq Fd
    BY DEF Init, Block, Fd
  <2>2. fd = table /\ op = NoOp /\ crashes = 0 /\ nops = 0 /\ torn = {}
    BY DEF Init
  <2> QED BY <1>1, <1>2, <1>3, <2>1, <2>2, NoOpType DEF TypeOK
<1>5. MemInv
  BY DEF Init, MemInv, Pending, Unlisted, NoOp
<1>6. ShrinkInv
  BY DEF Init, ShrinkInv, NoOp
<1> QED BY <1>4, <1>5, <1>6 DEF IInv

-----------------------------------------------------------------------------
(* One lemma per part of the next-state relation.                          *)

(* The first half of create_entry, up to the descriptor.                   *)
LEMMA BeginCreateInv ==
  ASSUME IInv, NEW d \in Fd, NEW n \in Names, NEW t \in Types,
         NEW f \in Fd \cup {NoFd}, BeginCreate(d, n, t, f)
  PROVE  IInv'
<1> USE DEF IInv
<1>0. torn' \subseteq Fd
  BY DEF BeginCreate, SharesName, TypeOK, Fd, NoFd
<1>1. CASE f = NoFd /\ UNCHANGED <<disk, fd, inodes, op>>
  <2>1. TypeOK'
    BY <1>0, <1>1 DEF BeginCreate, Start, disk, TypeOK
  <2>2. MemInv' /\ ShrinkInv'
    BY <1>1 DEF disk, MemInv, Pending, Unlisted, ShrinkInv
  <2> QED BY <2>1, <2>2
<1>2. CASE f \in Fd /\ fbm' = fbm \cup {f}
            /\ op' = [NoOp EXCEPT !.kind = IF t = "FFS_SLINK" THEN "symlink" ELSE "create",
                              !.pc = "get_block", !.dir = d, !.name = n,
                              !.ino = f, !.type = t]
            /\ UNCHANGED <<bbm, index, cells, table, fd, inodes>>
  <2>1. /\ op' \in OpRec /\ op'.pc = "get_block" /\ op'.ino = f /\ op'.ret = "done"
    BY <1>2, NoOpType DEF OpRec, Kinds, Pcs, Returns, NoOp
  <2>2. TypeOK'
    BY <1>0, <1>2, <2>1 DEF BeginCreate, Start, TypeOK
  <2>3. f \notin fbm
    BY <1>2 DEF BeginCreate, EmptyBit, Fd, NoBlock
  <2>4. MemInv'
    BY <1>2, <2>1, <2>3 DEF BeginCreate, Start, MemInv, Pending, Unlisted
  <2>5. ShrinkInv'
    BY <2>1 DEF ShrinkInv
  <2> QED BY <2>2, <2>4, <2>5
<1> QED BY <1>1, <1>2 DEF BeginCreate

(* Entering file_write from rest changes nothing but the operation.        *)
LEMMA BeginWritingInv ==
  ASSUME IInv, op.pc = "idle",
         NEW o \in OpRec, NEW w \in Fd, NEW pos \in Nat, NEW data \in Seq(Cell),
         NEW ret \in Returns,
         op' = Writing(o, w, pos, data, ret),
         ret = "shrink" => fd[o.dir].size >= 1,
         torn' \subseteq Fd, nops' \in Nat, crashes' \in Nat,
         UNCHANGED <<disk, fd, inodes>>
  PROVE  IInv'
<1> USE DEF IInv
<1>1. TypeOK'
  BY WritingType DEF TypeOK, disk
<1>2. MemInv'
  BY WritingType DEF MemInv, Pending, Unlisted, disk
<1>3. ShrinkInv'
  BY WritingType DEF ShrinkInv, disk
<1> QED BY <1>1, <1>2, <1>3


(* The call of ffs_file_write keeps the invariant.                         *)
LEMMA BeginWriteInv ==
  ASSUME IInv, NEW f \in Fd, NEW pos \in 0 .. MaxSize, NEW len \in 1 .. MaxSize,
         BeginWrite(f, pos, len)
  PROVE  IInv'
<1> DEFINE o == [NoOp EXCEPT !.kind = "write", !.ino = f]
           data == [i \in 1 .. len |-> Blank]
<1>1. o \in OpRec
  BY NoOpType DEF OpRec, Kinds
<1>2. pos \in Nat /\ data \in Seq(Cell)
  BY BoundsAssumption DEF Blank, Cell
<1>3. /\ op.pc = "idle" /\ op' = Writing(o, f, pos, data, "done")
      /\ UNCHANGED <<disk, fd, inodes>>
      /\ torn' \subseteq Fd /\ nops' \in Nat /\ crashes' \in Nat
  BY DEF BeginWrite, Start, IInv, TypeOK
<1> HIDE DEF o, data
<1> QED BY <1>1, <1>2, <1>3, BeginWritingInv DEF Returns

(* ffs_link enters file_write with the link it was given.                  *)
LEMMA BeginLinkInv ==
  ASSUME IInv, NEW d \in Fd, NEW n \in Names, NEW f \in Fd, BeginLink(d, n, f)
  PROVE  IInv'
<1> DEFINE o == [NoOp EXCEPT !.kind = "link", !.dir = d, !.name = n, !.ino = f]
           data == <<[fd |-> f, name |-> n]>>
<1>1. o \in OpRec
  BY NoOpType DEF OpRec, Kinds
<1>2. fd[d].size \in Nat /\ data \in Seq(Cell)
  BY DEF IInv, TypeOK, FdRec, Cell
<1>3. /\ op.pc = "idle" /\ op' = Writing(o, d, fd[d].size, data, "inc")
      /\ UNCHANGED <<disk, fd, inodes>>
      /\ torn' \subseteq Fd /\ nops' \in Nat /\ crashes' \in Nat
  BY DEF BeginLink, Start, SharesName, IInv, TypeOK
<1> HIDE DEF o, data
<1> QED BY <1>1, <1>2, <1>3, BeginWritingInv DEF Returns

(* remove_from_dir overwrites one cell with the tail, and the size it is   *)
(* about to write is one below the size it read.                           *)
LEMMA BeginUnlinkInv ==
  ASSUME IInv, NEW d \in Fd, NEW n \in Names, NEW f \in Fd, BeginUnlink(d, n, f)
  PROVE  IInv'
<1> DEFINE o == [NoOp EXCEPT !.kind = "unlink", !.dir = d, !.name = n, !.ino = f]
<1>0. fd[d].size \in Nat
  BY DEF IInv, TypeOK, FdRec
<1>1. PICK i \in 0 .. fd[d].size - 1 : op' = Writing(o, d, i, Tail1(d, i), "shrink")
  BY DEF BeginUnlink
<1>2. o \in OpRec /\ o.dir = d
  BY NoOpType DEF OpRec, Kinds, NoOp
<1>3. Tail1(d, i) \in Seq(Cell)
  <2>1. \A j \in 1 .. fd[d].size - i - 1 : CellAt(fd, d, i + j) \in Cell
    BY <1>0, CellAtType DEF IInv
  <2> QED BY <1>0, <2>1 DEF Tail1
<1>4. /\ op.pc = "idle" /\ UNCHANGED <<disk, fd, inodes>>
      /\ torn' \subseteq Fd /\ nops' \in Nat /\ crashes' \in Nat
  BY DEF BeginUnlink, Start, IInv, TypeOK
<1> HIDE DEF o
<1> QED BY <1>0, <1>1, <1>2, <1>3, <1>4, BeginWritingInv DEF Returns


(* A step of the program counter keeps the rest of the operation.          *)
LEMMA GotoType ==
  ASSUME op \in OpRec, NEW pc \in Pcs, Goto(pc)
  PROVE  op' \in OpRec /\ op'.pc = pc /\ op'.ino = op.ino /\ op'.ret = op.ret
         /\ op'.dir = op.dir
BY DEF Goto, OpRec

(* A dead thread leaves the disk and the memory as they are.               *)
LEMMA OopsInv == ASSUME IInv, Oops, Continue PROVE IInv'
<1>1. op' \in OpRec /\ op'.pc = "oops"
  BY GotoType DEF Oops, IInv, TypeOK, Pcs
<1>2. TypeOK'
  BY <1>1 DEF IInv, TypeOK, Oops, Continue, disk
<1> QED BY <1>1, <1>2 DEF IInv, MemInv, ShrinkInv

(* Taking a block for the index.                                           *)
LEMMA GetBlockInv == ASSUME IInv, GetBlock PROVE IInv'
<1> USE DEF IInv
<1>1. PICK b \in Block \cup {NoBlock} :
        /\ bbm' = bbm \cup ({b} \ {NoBlock})
        /\ fd' = [fd EXCEPT ![op.ino] =
                    [type |-> op.type, datablock |-> b, links |-> 1, size |-> 0]]
  BY DEF GetBlock
<1>2. op' \in OpRec /\ op'.pc = "zero" /\ op'.ino = op.ino
  BY GotoType DEF GetBlock, TypeOK, Pcs
<1>3. fd' \in [Fd -> FdRec] /\ bbm' \subseteq Block
  BY <1>1 DEF TypeOK, OpRec, FdRec
<1>4. TypeOK'
  BY <1>2, <1>3 DEF GetBlock, Continue, TypeOK
<1>5. MemInv'
  BY <1>1, <1>2 DEF GetBlock, MemInv, Pending, Unlisted, TypeOK, OpRec
<1>6. ShrinkInv'
  BY <1>2 DEF ShrinkInv
<1> QED BY <1>4, <1>5, <1>6

(* Clearing the index block.                                               *)
LEMMA ZeroIndexInv == ASSUME IInv, ZeroIndex PROVE IInv'
<1> USE DEF IInv
<1>1. CASE Oops
  BY <1>1, OopsInv DEF ZeroIndex
<1>2. CASE /\ Datablock(op.ino) \in Block
           /\ index' = [index EXCEPT ![Datablock(op.ino)] = <<>>]
           /\ inodes' = inodes \cup {op.ino}
           /\ Goto("write_fd")
           /\ UNCHANGED <<bbm, fbm, cells, table, fd>>
  <2>1. op' \in OpRec /\ op'.pc = "write_fd" /\ op'.ino = op.ino
    BY <1>2, GotoType DEF TypeOK, Pcs
  <2>2. op.ino \in Fd
    BY DEF TypeOK, OpRec
  <2>3. TypeOK'
    BY <1>2, <2>1, <2>2 DEF ZeroIndex, Continue, TypeOK
  <2>4. MemInv'
    BY <1>2, <2>1 DEF ZeroIndex, MemInv, Pending, Unlisted
  <2>5. ShrinkInv'
    BY <2>1 DEF ShrinkInv
  <2> QED BY <2>3, <2>4, <2>5
<1> QED BY <1>1, <1>2 DEF ZeroIndex

(* Writing the descriptor.                                                 *)
LEMMA WriteFdInv == ASSUME IInv, WriteFd PROVE IInv'
<1> USE DEF IInv
<1> DEFINE ret == IF op.kind = "symlink" THEN "target" ELSE "done"
<1>1. /\ op \in OpRec /\ op.dir \in Fd /\ op.ino \in Fd /\ Entry \in Cell
      /\ fd[op.dir].size \in Nat
  BY DEF TypeOK, OpRec, Cell, Entry, FdRec
<1>2. /\ op' = Writing(op, op.dir, fd[op.dir].size, <<Entry>>, ret)
      /\ ret \in Returns /\ ret # "shrink" /\ <<Entry>> \in Seq(Cell)
  BY <1>1 DEF WriteFd, Returns
<1> HIDE DEF ret
<1>3. op' \in OpRec /\ op'.pc = "file_write" /\ op'.ret # "shrink"
  BY <1>1, <1>2, WritingType
<1>4. TypeOK'
  BY <1>1, <1>3 DEF WriteFd, Continue, TypeOK
<1>5. MemInv'
  BY <1>1, <1>3 DEF WriteFd, MemInv, Pending, Unlisted, TypeOK
<1>6. ShrinkInv'
  BY <1>3 DEF ShrinkInv
<1> QED BY <1>4, <1>5, <1>6

-----------------------------------------------------------------------------
(* file_write                                                              *)

(* Taking a block for the data.                                            *)
LEMMA WriteAllocInv == ASSUME IInv, WriteAlloc PROVE IInv'
<1> USE DEF IInv
<1>1. PICK b \in Block \cup {NoBlock} :
        /\ bbm' = bbm \cup ({b} \ {NoBlock})
        /\ op' = [op EXCEPT !.pc = "w_index", !.blk = b]
  BY DEF WriteAlloc
<1>2. op' \in OpRec /\ op'.pc = "w_index" /\ op'.ret = op.ret /\ op'.dir = op.dir
  BY <1>1 DEF TypeOK, OpRec, Pcs
<1>3. TypeOK'
  BY <1>1, <1>2 DEF WriteAlloc, Continue, TypeOK
<1>4. MemInv' /\ ShrinkInv'
  BY <1>2 DEF WriteAlloc, MemInv, Pending, Unlisted, ShrinkInv
<1> QED BY <1>3, <1>4

(* Writing the number of the block to the index.                           *)
LEMMA WriteIndexInv == ASSUME IInv, WriteIndex PROVE IInv'
<1> USE DEF IInv
<1>1. /\ op' \in OpRec /\ op'.pc = "file_write" /\ op'.ret = op.ret
      /\ op'.dir = op.dir /\ op.blk \in Block \cup {NoBlock}
  BY GotoType DEF WriteIndex, TypeOK, Pcs, OpRec
<1>2. index' \in [Block -> Seq(Block \cup {NoBlock})]
  <2>1. ASSUME NEW q \in Seq(Block \cup {NoBlock})
        PROVE  Append(q, op.blk) \in Seq(Block \cup {NoBlock})
    BY <1>1
  <2> QED BY <2>1 DEF WriteIndex, TypeOK
<1>3. TypeOK'
  BY <1>1, <1>2 DEF WriteIndex, Continue, TypeOK
<1>4. MemInv' /\ ShrinkInv'
  BY <1>1 DEF WriteIndex, MemInv, Pending, Unlisted, ShrinkInv
<1> QED BY <1>3, <1>4


(* What file_write writes at once stays within a block and the request.    *)
LEMMA ChunkType ==
  ASSUME TypeOK, op.data # <<>>
  PROVE  Chunk \in 1 .. Len(op.data)
<1>1. op.pos \in Nat /\ op.data \in Seq(Cell)
  BY DEF TypeOK, OpRec
<1>2. (WBlock + 1) * PerBlock - op.pos \in 1 .. PerBlock
  BY <1>1, DivMod DEF WBlock
<1>3. Len(op.data) \in Nat \ {0}
  BY <1>1
<1> QED BY <1>2, <1>3, SizesAssumption DEF Chunk

(* Writing the cells of a block.                                           *)
LEMMA WriteDataInv == ASSUME IInv, WriteData PROVE IInv'
<1> USE DEF IInv
<1> DEFINE b == WIndex[WBlock + 1]
<1>1. CASE Oops
  BY <1>1, OopsInv DEF WriteData
<1>2. CASE b \in Block /\ ~ Oops
  <2>1. /\ cells' = [cells EXCEPT ![b] =
              [s \in Slot |-> LET i == WBlock * PerBlock + s - op.pos + 1
                              IN  IF i \in 1 .. Chunk THEN op.data[i] ELSE @[s]]]
        /\ op' = [op EXCEPT !.pos = @ + Chunk,
                            !.data = SubSeq(@, Chunk + 1, Len(@))]
        /\ UNCHANGED <<bbm, fbm, index, table, fd, inodes>>
        /\ op.pc = "file_write" /\ Continue
    BY <1>2 DEF WriteData
  <2>2. Chunk \in 1 .. Len(op.data) /\ op.data \in Seq(Cell) /\ op.pos \in Nat
    BY ChunkType DEF WriteData, TypeOK, OpRec
  <2>3. \A i \in 1 .. Chunk : op.data[i] \in Cell
    BY <2>2
  <2>4. cells' \in [Block -> [Slot -> Cell]]
    BY <2>1, <2>3 DEF TypeOK
  <2>5. SubSeq(op.data, Chunk + 1, Len(op.data)) \in Seq(Cell)
    BY <2>2
  <2>6. op' \in OpRec /\ op'.pc = op.pc /\ op'.ret = op.ret /\ op'.dir = op.dir
    <3>1. op \in OpRec /\ op.pos + Chunk \in Nat
      BY <2>2 DEF TypeOK
    <3> HIDE DEF b
    <3> QED BY <2>1, <2>5, <3>1 DEF OpRec
  <2>7. TypeOK'
    BY <2>1, <2>4, <2>6 DEF Continue, TypeOK
  <2>8. MemInv' /\ ShrinkInv'
    BY <2>1, <2>6 DEF MemInv, Pending, Unlisted, ShrinkInv
  <2> QED BY <2>7, <2>8
<1> QED BY <1>1, <1>2 DEF WriteData

(* A write never shortens a file.                                          *)
LEMMA GrownType ==
  ASSUME TypeOK
  PROVE  Grown \in FdRec /\ Grown.size >= fd[op.wino].size
<1>1. fd[op.wino] \in FdRec /\ op.pos \in Nat
  BY DEF TypeOK, OpRec
<1> QED BY <1>1 DEF FdRec, Grown

(* Writing the new size, on the disk and in memory.                        *)
LEMMA WriteSizeInv == ASSUME IInv, WriteSize PROVE IInv'
<1> USE DEF IInv
<1>1. /\ fd' = [fd EXCEPT ![op.wino] = Grown]
      /\ table' = [table EXCEPT ![op.wino] = Grown]
      /\ UNCHANGED <<bbm, fbm, index, cells, inodes>>
      /\ op.pc = "file_write" /\ op \in OpRec /\ Continue
  BY DEF WriteSize, TypeOK
<1>2. op' \in OpRec /\ op'.pc \in {"idle", "file_write", "shrink", "inc"}
  <2>1. CASE op.ret = "done"
    BY <2>1, NoOpType DEF WriteSize, NoOp
  <2>2. CASE op.ret = "target"
    <3>1. op' = Writing(op, op.ino, 0, <<Blank>>, "done") /\ <<Blank>> \in Seq(Cell)
      BY <2>2 DEF WriteSize, Blank, Cell
    <3>2. op \in OpRec /\ op.ino \in Fd /\ "done" \in Returns /\ 0 \in Nat
      BY <1>1 DEF OpRec, Returns
    <3>3. op' \in OpRec /\ op'.pc = "file_write"
      BY <3>1, <3>2, WritingType
    <3> QED BY <3>3
  <2>3. CASE op.ret = "shrink"
    BY <1>1, <2>3, GotoType DEF WriteSize, Pcs
  <2>4. CASE op.ret = "inc"
    BY <1>1, <2>4, GotoType DEF WriteSize, Pcs
  <2> QED BY <1>1, <2>1, <2>2, <2>3, <2>4 DEF OpRec, Returns
<1>3. TypeOK'
  BY <1>1, <1>2, GrownType DEF Continue, TypeOK
<1>4. MemInv'
  <2>1. op'.pc \notin {"get_block", "zero", "write_fd", "clear", "clear_fd", "oops"}
    BY <1>2
  <2>2. \A f \in fbm : fd'[f] = table'[f]
    BY <1>1 DEF TypeOK, MemInv, Pending
  <2> QED BY <1>1, <2>1, <2>2 DEF MemInv, Pending, Unlisted
<1>5. ShrinkInv'
  <2>1. CASE op.ret = "shrink"
    <3>1. op'.dir = op.dir
      BY <1>1, <2>1, GotoType DEF WriteSize, Pcs
    <3>2. fd[op.dir].size >= 1 /\ op.dir \in Fd
      BY <1>1, <2>1 DEF ShrinkInv, OpRec
    <3>3. fd'[op.dir].size >= 1
      BY <1>1, <3>2, GrownType DEF TypeOK, FdRec
    <3> QED BY <3>1, <3>3 DEF ShrinkInv
  <2>2. CASE op.ret # "shrink"
    <3>1. op'.pc # "shrink" /\ op'.ret # "shrink"
      <4>1. CASE op.ret = "done"
        BY <4>1 DEF WriteSize, NoOp
      <4>2. CASE op.ret = "target"
        BY <4>2 DEF WriteSize, Writing, TypeOK, OpRec
      <4>3. CASE op.ret = "inc"
        BY <1>1, <4>3, GotoType DEF WriteSize, Pcs
      <4> QED BY <1>1, <2>2, <4>1, <4>2, <4>3 DEF OpRec, Returns
    <3> QED BY <3>1 DEF ShrinkInv
  <2> QED BY <2>1, <2>2
<1> QED BY <1>3, <1>4, <1>5


-----------------------------------------------------------------------------
(* Link counts, the shrinking directory, and ffs_clear_fd                  *)

(* Counting the new link.                                                  *)
LEMMA IncLinksInv == ASSUME IInv, IncLinks PROVE IInv'
<1> USE DEF IInv
<1> DEFINE r == [fd[op.ino] EXCEPT !.links = @ + 1]
<1>1. r \in FdRec
  <2>1. fd[op.ino] \in FdRec
    BY DEF TypeOK, OpRec
  <2> QED BY <2>1 DEF FdRec
<1>2. /\ fd' = [fd EXCEPT ![op.ino] = r] /\ table' = [table EXCEPT ![op.ino] = r]
      /\ op' = NoOp /\ op.pc = "inc" /\ Continue
      /\ UNCHANGED <<bbm, fbm, index, cells, inodes>>
  BY DEF IncLinks
<1> HIDE DEF r
<1>3. TypeOK'
  BY <1>1, <1>2, NoOpType DEF TypeOK, Continue
<1>4. MemInv' /\ ShrinkInv'
  BY <1>2 DEF MemInv, Pending, Unlisted, ShrinkInv, NoOp, TypeOK
<1> QED BY <1>3, <1>4

(* Writing the shorter size of the directory.                              *)
LEMMA ShrinkStepInv == ASSUME IInv, Shrink PROVE IInv'
<1> USE DEF IInv
<1> DEFINE r == [fd[op.dir] EXCEPT !.size = @ - 1]
<1>1. r \in FdRec
  <2>1. fd[op.dir] \in FdRec
    BY DEF TypeOK, OpRec
  <2>2. fd[op.dir].size >= 1
    BY DEF Shrink, ShrinkInv
  <2> QED BY <2>1, <2>2 DEF FdRec
<1>2. /\ fd' = [fd EXCEPT ![op.dir] = r] /\ table' = [table EXCEPT ![op.dir] = r]
      /\ op' \in OpRec /\ op'.pc = "dec" /\ op.pc = "shrink" /\ Continue
      /\ UNCHANGED <<bbm, fbm, index, cells, inodes>>
  BY GotoType DEF Shrink, TypeOK, Pcs
<1> HIDE DEF r
<1>3. TypeOK'
  BY <1>1, <1>2 DEF TypeOK, Continue
<1>4. MemInv' /\ ShrinkInv'
  BY <1>2 DEF MemInv, Pending, Unlisted, ShrinkInv, TypeOK
<1> QED BY <1>3, <1>4

(* Counting the removed link.                                              *)
LEMMA DecLinksInv == ASSUME IInv, DecLinks PROVE IInv'
<1> USE DEF IInv
<1> DEFINE r == [fd[op.ino] EXCEPT !.links = @ - 1]
<1>1. r \in FdRec
  <2>1. fd[op.ino] \in FdRec
    BY DEF TypeOK, OpRec
  <2> QED BY <2>1 DEF FdRec
<1>2. /\ fd' = [fd EXCEPT ![op.ino] = r] /\ op.pc = "dec" /\ Continue
      /\ UNCHANGED <<bbm, fbm, index, cells, inodes>>
  BY DEF DecLinks
<1>3. CASE op' = [op EXCEPT !.pc = "clear", !.k = 1] /\ UNCHANGED table
  <2>1. op' \in OpRec /\ op'.pc = "clear" /\ op'.ino = op.ino
    BY <1>3 DEF TypeOK, OpRec, Pcs
  <2> HIDE DEF r
  <2>2. TypeOK'
    BY <1>1, <1>2, <1>3, <2>1 DEF TypeOK, Continue
  <2>3. MemInv' /\ ShrinkInv'
    BY <1>2, <1>3, <2>1 DEF MemInv, Pending, Unlisted, ShrinkInv
  <2> QED BY <2>2, <2>3
<1>4. CASE table' = [table EXCEPT ![op.ino] = r] /\ op' = NoOp
  <2> HIDE DEF r
  <2>1. TypeOK'
    BY <1>1, <1>2, <1>4, NoOpType DEF TypeOK, Continue
  <2>2. MemInv' /\ ShrinkInv'
    BY <1>2, <1>4 DEF MemInv, Pending, Unlisted, ShrinkInv, NoOp, TypeOK
  <2> QED BY <2>1, <2>2
<1> QED BY <1>3, <1>4 DEF DecLinks

(* Freeing a block of data.                                                *)
LEMMA ClearBlockInv == ASSUME IInv, ClearBlock PROVE IInv'
<1> USE DEF IInv
<1>1. CASE Oops
  BY <1>1, OopsInv DEF ClearBlock
<1>2. CASE /\ bbm' = bbm \ {FIndex[op.k]} /\ op' = [op EXCEPT !.k = @ + 1]
           /\ UNCHANGED <<fbm, index, cells, table, fd, inodes>>
  <2>1. op' \in OpRec /\ op'.pc = "clear" /\ op'.ino = op.ino /\ op.pc = "clear"
    <3>1. op \in OpRec /\ op.k + 1 \in Nat /\ op.pc = "clear"
      BY DEF ClearBlock, TypeOK, OpRec
    <3> QED BY <1>2, <3>1 DEF OpRec
  <2>2. TypeOK'
    BY <1>2, <2>1 DEF ClearBlock, Continue, TypeOK
  <2>3. MemInv' /\ ShrinkInv'
    BY <1>2, <2>1 DEF MemInv, Pending, Unlisted, ShrinkInv
  <2> QED BY <2>2, <2>3
<1> QED BY <1>1, <1>2 DEF ClearBlock

(* Freeing the index block.                                                *)
LEMMA ClearIndexInv == ASSUME IInv, ClearIndex PROVE IInv'
<1> USE DEF IInv
<1>1. op' \in OpRec /\ op'.pc = "clear_fd" /\ op'.ino = op.ino /\ op.pc = "clear"
  BY GotoType DEF ClearIndex, TypeOK, Pcs
<1>2. TypeOK'
  BY <1>1 DEF ClearIndex, Continue, TypeOK
<1>3. MemInv' /\ ShrinkInv'
  BY <1>1 DEF ClearIndex, MemInv, Pending, Unlisted, ShrinkInv
<1> QED BY <1>2, <1>3

(* Freeing the descriptor.                                                 *)
LEMMA ClearFdInv == ASSUME IInv, ClearFd PROVE IInv'
<1> USE DEF IInv
<1>1. TypeOK'
  BY NoOpType DEF ClearFd, Continue, TypeOK
<1>2. MemInv' /\ ShrinkInv'
  BY DEF ClearFd, MemInv, Pending, Unlisted, ShrinkInv, NoOp
<1> QED BY <1>1, <1>2

(* A crash and the remount after it.                                       *)
LEMMA CrashInv == ASSUME IInv, Crash PROVE IInv'
<1> USE DEF IInv
<1>1. fd' \in [Fd -> FdRec]
  BY DEF Crash, TypeOK
<1>2. torn' \subseteq Fd
  BY DEF Crash, TypeOK
<1>3. TypeOK'
  BY <1>1, <1>2, NoOpType DEF Crash, TypeOK, disk
<1>4. MemInv' /\ ShrinkInv'
  BY DEF Crash, MemInv, Pending, Unlisted, ShrinkInv, NoOp, TypeOK, disk
<1> QED BY <1>3, <1>4

(* Every step of the driver, a crash included, keeps the invariant.        *)
LEMMA NextInv == IInv /\ [Next]_vars => IInv'
<1> SUFFICES ASSUME IInv, [Next]_vars PROVE IInv'
  OBVIOUS
<1>1. CASE Begin
  BY <1>1, BeginCreateInv, BeginLinkInv, BeginUnlinkInv, BeginWriteInv DEF Begin
<1>2. CASE Step
  BY <1>2, GetBlockInv, ZeroIndexInv, WriteFdInv, WriteAllocInv, WriteIndexInv,
     WriteDataInv, WriteSizeInv, IncLinksInv, ShrinkStepInv, DecLinksInv,
     ClearBlockInv, ClearIndexInv, ClearFdInv DEF Step
<1>3. CASE Crash
  BY <1>3, CrashInv
<1>4. CASE UNCHANGED vars
  BY <1>4 DEF vars, IInv, TypeOK, MemInv, Pending, Unlisted, ShrinkInv
<1> QED BY <1>1, <1>2, <1>3, <1>4 DEF Next

-----------------------------------------------------------------------------
(* The registers and the image of ffs.c keep their types: in particular no *)
(* operation of ffs.c shrinks a directory below zero entries.              *)
THEOREM TypeCorrect == Spec => []TypeOK
<1>1. IInv => TypeOK
  BY DEF IInv
<1> QED BY InitInv, NextInv, <1>1, PTL DEF Spec

(* Whenever no operation is under way, the inodes and descriptors that     *)
(* ffs.c holds in memory are those ffs_read_root would load: mounting      *)
(* again changes nothing.                                                  *)
THEOREM RemountChangesNothing == Spec => []MemoryIsDisk
<1>1. IInv => MemoryIsDisk
  BY DEF IInv, MemInv, MemoryIsDisk, AtRest, Pending, Unlisted
<1> QED BY InitInv, NextInv, <1>1, PTL DEF Spec

-----------------------------------------------------------------------------
(***************************************************************************)
(* What a crash can cost.  The invariant follows the operation under way   *)
(* disk write by disk write.  It speaks of all the entries on disk,        *)
(* whether a path leads to them or not, and shows (ReachInv) that a path   *)
(* leads to each.                                                          *)
(***************************************************************************)

(* The descriptors on disk typed as directories, the positions of their    *)
(* entries, and the files that those entries are about.                    *)
Dirs  == {d \in Fd : table[d].type = "FFS_DIR"}
Spots == UNION {{<<d, i>> : i \in 0 .. table[d].size - 1} : d \in Dirs}
At(p) == CellAt(table, p[1], p[2])
Base  == {Root} \cup {f \in Fd : \E p \in Spots : f \in {p[1], At(p).fd}}

(* The file an operation is about lives from the write of its descriptor   *)
(* to the end, or to the moment ffs_clear_fd begins to take it apart.      *)
Live == Base \cup (IF op.pc \in {"file_write", "w_index", "shrink", "inc", "dec"}
                   THEN {op.ino} ELSE {})

(* A live file: its blocks are marked, its own, listed once, and cover its *)
(* size.                                                                   *)
List(f) == index[table[f].datablock]
Fits(f, i) == /\ i \div PerBlock + 1 \in 1 .. Len(List(f))
              /\ List(f)[i \div PerBlock + 1] \in Block
ListedOnce(f) ==
  \A i \in 1 .. Len(List(f)) :
    /\ List(f)[i] # table[f].datablock
    /\ \A j \in 1 .. Len(List(f)) : List(f)[i] = List(f)[j] => i = j \/ List(f)[i] = NoBlock
Sound(f) ==
  /\ f \in fbm /\ table[f].datablock \in Block
  /\ Owned(f) \subseteq bbm /\ Owned(f) \cap (0 .. Service - 1) = {}
  /\ ListedOnce(f)
  /\ \A i \in 0 .. table[f].size - 1 : Fits(f, i)
FilesInv ==
  /\ \A f \in Live : Sound(f)
  /\ \A f, g \in Live : f # g => Owned(f) \cap Owned(g) = {}
  /\ 0 .. Service - 1 \subseteq bbm /\ Root \in Dirs

(* The blocks an operation has in its hands, which no live file owns: the  *)
(* ones it has just marked, and the ones it is about to free.              *)
Flight ==
  CASE op.pc \in {"zero", "write_fd"} -> {Datablock(op.ino)} \ {NoBlock}
    [] op.pc = "w_index" -> {op.blk} \ {NoBlock}
    [] op.pc = "clear" -> ({Datablock(op.ino)} \cup {FIndex[i] : i \in op.k .. Len(FIndex)})
                            \ {NoBlock}
    [] OTHER -> {}
FlightInv ==
  /\ Flight \cap (0 .. Service - 1) = {} /\ \A f \in Live : Flight \cap Owned(f) = {}
  /\ op.pc # "clear" => Flight \subseteq bbm

(* The descriptor of a file not yet written or about to be freed.          *)
PendingInv ==
  /\ Pending \subseteq fbm \ Base
  /\ op.pc = "get_block" => (op.kind = "symlink" => op.type # "FFS_DIR")
  /\ op.pc \in {"zero", "write_fd"} =>
       /\ fd[op.ino].links = 1 /\ fd[op.ino].size = 0
       /\ op.kind = "symlink" => fd[op.ino].type # "FFS_DIR"
  /\ op.pc = "write_fd" => Datablock(op.ino) \in Block /\ index[Datablock(op.ino)] = <<>>
  /\ op.pc = "clear" => Datablock(op.ino) \in Block
(* A file_write is inside a live file and has covered what it has passed.  *)
(* It appends to a directory, fills a file, or removes from a directory.   *)
Writes    == op.pc \in {"file_write", "w_index"}
Appending == Writes /\ op.ret # "shrink" /\ op.wino \in Dirs
Filling   == Writes /\ op.ret # "shrink" /\ op.wino \notin Dirs
Removing  == op.pc \in {"file_write", "w_index", "shrink"} /\ op.ret = "shrink"
WriteInv ==
  /\ Writes => op.wino \in Live /\ \A i \in 0 .. op.pos - 1 : Fits(op.wino, i)
  /\ op.pc = "w_index" => ~ Removing
  /\ Filling => op.ret = "done"
  /\ Filling \/ op.pc = "inc" => op.ino \in Base

(* The directory of the operation is one that a path leads to, and its     *)
(* name is not there until its entry is.                                   *)
Adding == op.pc \in {"get_block", "zero", "write_fd"} \/ Appending
DirInv == Adding \/ Removing => op.dir \in DirTree(table)
AbsentInv == Adding => \A p \in Spots : p[1] = op.dir => At(p).name # op.name
AppendInv ==
  Appending =>
    /\ op.wino = op.dir /\ op.ino # Root
    /\ \/ op.data = <<Entry>> /\ op.pos = table[op.dir].size
       \/ /\ op.data = <<>> /\ op.pos = table[op.dir].size + 1 /\ op.pc = "file_write"
          /\ CellAt(table, op.dir, table[op.dir].size) = Entry
    /\ op.ret = "target" => table[op.ino].type # "FFS_DIR"

(* remove_from_dir moves the tail down by one.  The hole, at its position, *)
(* is the entry that goes, or a second copy of the one moved last.         *)
RemoveInv ==
  /\ Removing =>
       /\ op.wino = op.dir /\ op.dir \in Dirs
       /\ op.pos + Len(op.data) = table[op.dir].size - 1
       /\ op.pc = "shrink" => op.data = <<>>
       /\ \A k \in 1 .. Len(op.data) : op.data[k] = CellAt(table, op.dir, op.pos + k)
  /\ Removing \/ op.pc = "dec" => op.ino # Root /\ \A p \in Spots : p[1] # op.ino
  /\ op.pc = "shrink" => Removing
Hole == IF Removing THEN {<<op.dir, op.pos>>} ELSE {}
Firm == Spots \ Hole
HoleInv == \A h \in Hole : \/ At(h).fd = op.ino
                           \/ \E q \in Firm : q[1] = op.dir /\ At(q) = At(h)

(* Entries lead to files, paths lead to entries, a name is there once.     *)
CellsInv == \A p \in Spots : At(p).fd \in Fd \ {Root}
ReachInv == \A p \in Spots : p[1] \in DirTree(table)
NamesInv ==
  /\ \A p, q \in Spots : p[1] = q[1] /\ At(p).name = At(q).name => At(p) = At(q)
  /\ torn = {} => \A p, q \in Firm : p[1] = q[1] /\ At(p).name = At(q).name => p = q

(* The link count of a file against its entries, less the hole, and what   *)
(* the operation under way still owes it.                                  *)
Bearers(f) == {p \in Firm : At(p).fd = f}
Owed(f) == IF f # op.ino THEN 0
           ELSE IF (Appending /\ op.ret # "inc") \/ Removing \/ op.pc = "dec" THEN 1
           ELSE IF op.pc = "inc" THEN -1 ELSE 0
Count(f) == Cardinality(Bearers(f)) + Owed(f)
CountInv == torn = {} => \A f \in Live \ {Root} : Count(f) <= table[f].links

(* A descriptor is lost when it is marked and leads nowhere, or counts     *)
(* more names than it has.  Only a crash can do that, to one at a time.    *)
Exact(f) == f \in Live \cup Pending /\ (f \in Live \ {Root} => Count(f) >= table[f].links)
Lost == {f \in fbm : ~ Exact(f)}
LostInv == /\ op.pc # "oops" => Cardinality(Lost) <= crashes
           /\ op.pc = "oops" => Cardinality(Lost \ {op.ino}) <= crashes
MarksInv ==
  crashes = 0 /\ op.pc # "oops" =>
    bbm \subseteq (0 .. Service - 1) \cup Flight \cup UNION {Owned(f) : f \in Live}

TornInv ==
  torn # {} => /\ op = NoOp /\ crashes > 0
               /\ \A f \in Fd : Undercounted(f) \/ Doubled(f) => f \in torn

SafeInv ==
  /\ IInv /\ FilesInv /\ FlightInv /\ PendingInv /\ WriteInv
  /\ DirInv /\ AbsentInv /\ AppendInv /\ RemoveInv /\ HoleInv
  /\ CellsInv /\ ReachInv /\ NamesInv
  /\ CountInv /\ LostInv /\ MarksInv /\ TornInv

-----------------------------------------------------------------------------
(* The tree of a relation.                                                 *)

(* The root is in the tree, and the tree is closed.                        *)
LEMMA TreeClosed ==
  ASSUME NEW sub
  PROVE  /\ Root \in Tree(sub) /\ Tree(sub) \subseteq Fd
         /\ \A d, f \in Fd : <<d, f>> \in sub /\ d \in Tree(sub) => f \in Tree(sub)
<1>1. Root \in Fd
  BY SizesAssumption DEF Root, Fd
<1> QED BY <1>1 DEF Tree

(* The tree is the least closed set.                                       *)
LEMMA TreeLeast ==
  ASSUME NEW sub, NEW S \in SUBSET Fd, Root \in S,
         \A e \in sub : e[1] \in S => e[2] \in S
  PROVE  Tree(sub) \subseteq S
BY DEF Tree

(* Edges that only lead into a set of leaves may be dropped: the tree      *)
(* loses leaves and nothing else.                                          *)
LEMMA TreeKeeps ==
  ASSUME NEW old \in SUBSET (Fd \X Fd), NEW new, NEW X \in SUBSET Fd,
         \A d, f \in Fd : <<d, f>> \in old => d \notin X /\ (f \in X \/ <<d, f>> \in new)
  PROVE  Tree(old) \subseteq Tree(new) \cup X
<1> DEFINE S == Tree(new) \cup X
<1>1. S \in SUBSET Fd /\ Root \in S
  BY TreeClosed
<1>2. ASSUME NEW e \in old, e[1] \in S PROVE e[2] \in S
  <2>1. PICK d \in Fd, f \in Fd : e = <<d, f>>
    BY <1>2
  <2>2. d \in Tree(new) /\ (f \in X \/ <<d, f>> \in new)
    BY <1>2, <2>1
  <2> QED BY <2>1, <2>2, TreeClosed
<1> HIDE DEF S
<1>3. Tree(old) \subseteq S
  BY <1>1, <1>2, TreeLeast
<1> QED BY <1>3 DEF S

-----------------------------------------------------------------------------
(* Entries and the paths to them.                                          *)

(* A position of an entry is a directory and a number below its size, and  *)
(* there are finitely many.                                                *)
SpotsOK ==
  /\ \A p \in Spots : /\ p = <<p[1], p[2]>> /\ p[1] \in Dirs
                      /\ p[2] \in 0 .. table[p[1]].size - 1
  /\ \A d \in Dirs : \A i \in 0 .. table[d].size - 1 : <<d, i>> \in Spots
  /\ IsFiniteSet(Spots)
LEMMA SpotsAre == TypeOK => SpotsOK
<1> SUFFICES ASSUME TypeOK PROVE SpotsOK
  OBVIOUS
<1> DEFINE In(d) == {<<d, i>> : i \in 0 .. table[d].size - 1}
<1>1. \A d \in Fd : table[d].size \in Nat
  BY DEF TypeOK, FdRec
<1>2. Spots = UNION {In(d) : d \in Dirs} /\ Dirs \subseteq Fd
  BY DEF Spots, Dirs
<1>3. IsFiniteSet(Dirs)
  <2>1. IsFiniteSet(Fd)
    BY SizesAssumption, FS_Interval DEF Fd
  <2> QED BY <1>2, <2>1, FS_Subset
<1>4. ASSUME NEW d \in Dirs PROVE IsFiniteSet(In(d))
  <2> DEFINE I == 0 .. table[d].size - 1
             g == [i \in I |-> <<d, i>>]
  <2>1. IsFiniteSet(I)
    BY <1>1, <1>2, FS_Interval
  <2>2. g \in Surjection(I, In(d))
    BY DEF Surjection
  <2> QED BY <2>1, <2>2, FS_Surjection
<1>5. IsFiniteSet({In(d) : d \in Dirs})
  <2> DEFINE T == {In(d) : d \in Dirs}
             g == [d \in Dirs |-> In(d)]
  <2>1. g \in Surjection(Dirs, T)
    BY DEF Surjection
  <2> HIDE DEF T, g
  <2>2. IsFiniteSet(T)
    BY <1>3, <2>1, FS_Surjection
  <2> QED BY <2>2 DEF T
<1>6. IsFiniteSet(Spots)
  <2>1. \A T \in {In(d) : d \in Dirs} : IsFiniteSet(T)
    BY <1>4
  <2> HIDE DEF In
  <2> QED BY <1>2, <1>5, <2>1, FS_UNION
<1>7. ASSUME NEW p \in Spots
      PROVE  p = <<p[1], p[2]>> /\ p[1] \in Dirs /\ p[2] \in 0 .. table[p[1]].size - 1
  BY <1>2
<1>8. ASSUME NEW d \in Dirs, NEW i \in 0 .. table[d].size - 1
      PROVE  <<d, i>> \in Spots
  BY <1>2
<1> QED BY <1>6, <1>7, <1>8 DEF SpotsOK
LEMMA SpotsAreNext == TypeOK' => SpotsOK'
BY SpotsAre, PTL

(* The step from a directory to a subdirectory is an entry about it.       *)
EdgesOK == \A d, f \in Fd : <<d, f>> \in Subdirs(table) <=>
                              f \in Dirs /\ \E p \in Spots : p[1] = d /\ At(p).fd = f
LEMMA EdgesAre == TypeOK /\ Base \subseteq fbm => EdgesOK
<1> SUFFICES ASSUME TypeOK, Base \subseteq fbm, NEW d \in Fd, NEW f \in Fd
             PROVE  <<d, f>> \in Subdirs(table) <=>
                      f \in Dirs /\ \E p \in Spots : p[1] = d /\ At(p).fd = f
  BY DEF EdgesOK
<1>0. SpotsOK
  BY SpotsAre
<1>1. ASSUME <<d, f>> \in Subdirs(table)
      PROVE  f \in Dirs /\ \E p \in Spots : p[1] = d /\ At(p).fd = f
  <2>1. /\ d \in Dirs /\ f \in Dirs
        /\ \E i \in 0 .. table[d].size - 1 : CellAt(table, d, i).fd = f
    BY <1>1 DEF Subdirs, Dirs
  <2>2. PICK i \in 0 .. table[d].size - 1 : CellAt(table, d, i).fd = f
    BY <2>1
  <2>3. <<d, i>> \in Spots
    BY <1>0, <2>1 DEF SpotsOK
  <2> QED BY <2>1, <2>2, <2>3 DEF At
<1>2. ASSUME f \in Dirs, NEW p \in Spots, p[1] = d, At(p).fd = f
      PROVE  <<d, f>> \in Subdirs(table)
  <2>1. p[1] \in Dirs /\ p[2] \in 0 .. table[p[1]].size - 1
    BY <1>0 DEF SpotsOK
  <2>2. d \in fbm /\ f \in fbm
    BY <1>2 DEF Base
  <2>3. \E i \in 0 .. table[d].size - 1 : CellAt(table, d, i).fd = f
    BY <1>2, <2>1 DEF At
  <2> QED BY <1>2, <2>1, <2>2, <2>3 DEF Subdirs, Dirs
<1> QED BY <1>1, <1>2
LEMMA EdgesAreNext == TypeOK' /\ (Base \subseteq fbm)' => EdgesOK'
BY EdgesAre, PTL

(* What the VFS finds along paths is all there is on disk.                 *)
PlacesOK == /\ DirTree(table) \subseteq Base \cap Dirs
            /\ Places(table) = Spots
LEMMA PlacesAre == TypeOK /\ ReachInv /\ Base \subseteq fbm /\ Root \in Dirs => PlacesOK
<1> SUFFICES ASSUME TypeOK, ReachInv, Base \subseteq fbm, Root \in Dirs PROVE PlacesOK
  OBVIOUS
<1>1. SpotsOK /\ EdgesOK
  BY SpotsAre, EdgesAre
<1>2. DirTree(table) \subseteq Base \cap Dirs
  <2> DEFINE S == Base \cap Dirs
  <2>1. S \in SUBSET Fd /\ Root \in S
    BY DEF Dirs, Base
  <2>2. ASSUME NEW e \in Subdirs(table), e[1] \in S PROVE e[2] \in S
    <3>1. PICK d \in Fd, f \in Fd : e = <<d, f>>
      BY DEF Subdirs, TypeOK
    <3>2. f \in Dirs /\ \E p \in Spots : At(p).fd = f
      BY <1>1, <3>1 DEF EdgesOK
    <3> QED BY <3>1, <3>2 DEF Base
  <2> HIDE DEF S
  <2>3. Tree(Subdirs(table)) \subseteq S
    BY <2>1, <2>2, TreeLeast
  <2> QED BY <2>3 DEF DirTree, S
<1>3. Places(table) = UNION {{<<d, i>> : i \in 0 .. table[d].size - 1} : d \in DirTree(table)}
  BY DEF Places
<1>4. Places(table) \subseteq Spots
  BY <1>2, <1>3 DEF Spots
<1>5. ASSUME NEW p \in Spots PROVE p \in Places(table)
  <2>1. p = <<p[1], p[2]>> /\ p[2] \in 0 .. table[p[1]].size - 1 /\ p[1] \in DirTree(table)
    BY <1>1 DEF SpotsOK, ReachInv
  <2> QED BY <1>3, <2>1
<1> QED BY <1>2, <1>4, <1>5 DEF PlacesOK
LEMMA PlacesAreNext ==
  TypeOK' /\ ReachInv' /\ (Base \subseteq fbm)' /\ (Root \in Dirs)' => PlacesOK'
BY PlacesAre, PTL

-----------------------------------------------------------------------------
(* What a step leaves alone.                                               *)

(* A live directory is read within its blocks.                             *)
LEMMA LiveSound ==
  ASSUME SafeInv
  PROVE  /\ Base \subseteq Live /\ Live \subseteq fbm /\ Base \subseteq fbm
         /\ SpotsOK /\ EdgesOK /\ PlacesOK
         /\ \A p \in Spots : p[1] \in Base /\ At(p).fd \in Base /\ Fits(p[1], p[2])
<1>1. Base \subseteq Live /\ Live \subseteq fbm
  BY DEF Live, SafeInv, FilesInv, Sound
<1>2. TypeOK /\ ReachInv /\ Root \in Dirs
  BY DEF SafeInv, IInv, FilesInv
<1>3. SpotsOK /\ EdgesOK /\ PlacesOK
  BY <1>1, <1>2, SpotsAre, EdgesAre, PlacesAre
<1>4. ASSUME NEW p \in Spots
      PROVE  p[1] \in Base /\ At(p).fd \in Base /\ Fits(p[1], p[2])
  <2>1. p[1] \in Dirs /\ p[2] \in 0 .. table[p[1]].size - 1
    BY <1>3 DEF SpotsOK
  <2>2. p[1] \in Base /\ At(p).fd \in Base
    <3>1. p[1] \in Fd /\ At(p).fd \in Fd
      BY <2>1 DEF Dirs, SafeInv, CellsInv
    <3> QED BY <3>1 DEF Base
  <2>3. Sound(p[1])
    BY <1>1, <2>2 DEF SafeInv, FilesInv
  <2> QED BY <2>1, <2>2, <2>3 DEF Sound
<1> QED BY <1>1, <1>3, <1>4

(* The hole is a position of an entry.                                     *)
LEMMA HoleIn == ASSUME SafeInv PROVE Hole \subseteq Spots
<1> SUFFICES ASSUME Removing PROVE <<op.dir, op.pos>> \in Spots
  BY DEF Hole
<1>1. /\ op.dir \in Dirs /\ op.pos + Len(op.data) = table[op.dir].size - 1
      /\ op.pos \in Nat /\ Len(op.data) \in Nat /\ table[op.dir].size \in Nat
  BY DEF SafeInv, RemoveInv, IInv, TypeOK, OpRec, FdRec
<1>2. op.pos \in 0 .. table[op.dir].size - 1
  BY <1>1
<1> QED BY <1>1, <1>2, LiveSound DEF SpotsOK

SameEntries == Spots' = Spots /\ \A p \in Spots : At(p)' = At(p)

(* While the entries stay, so does the tree.                               *)
LEMMA TreeFrame ==
  ASSUME SafeInv, TypeOK', SameEntries, Base \subseteq fbm',
         \A f \in Base : f \in Dirs <=> (f \in Dirs)'
  PROVE  /\ Base' = Base /\ DirTree(table)' = DirTree(table)
         /\ CellsInv' /\ ReachInv'
<1>1. Base' = Base
  BY DEF SameEntries, Base
<1>2. DirTree(table)' = DirTree(table)
  <2>1. EdgesOK /\ EdgesOK'
    BY <1>1, LiveSound, EdgesAreNext
  <2>2. /\ Subdirs(table) \subseteq Fd \X Fd
        /\ Subdirs(table)' \subseteq Fd \X Fd
    BY DEF Subdirs, SafeInv, IInv, TypeOK
  <2>3. ASSUME NEW d \in Fd, NEW f \in Fd
        PROVE  <<d, f>> \in Subdirs(table) <=> <<d, f>> \in Subdirs(table)'
    <3>1. (\E p \in Spots : p[1] = d /\ At(p).fd = f)
            <=> (\E p \in Spots : p[1] = d /\ At(p).fd = f)'
      BY DEF SameEntries
    <3>2. (\E p \in Spots : p[1] = d /\ At(p).fd = f) => f \in Base
      BY DEF Base
    <3>3. <<d, f>> \in Subdirs(table)' <=>
            (f \in Dirs /\ \E p \in Spots : p[1] = d /\ At(p).fd = f)'
      BY <2>1 DEF EdgesOK
    <3> QED BY <2>1, <3>1, <3>2, <3>3 DEF EdgesOK
  <2>4. Subdirs(table)' = Subdirs(table)
    BY <2>2, <2>3
  <2> QED BY <2>4 DEF DirTree, Tree
<1>3. CellsInv'
  BY DEF SafeInv, CellsInv, SameEntries
<1>4. ReachInv'
  BY <1>2 DEF SafeInv, ReachInv, SameEntries
<1> QED BY <1>1, <1>2, <1>3, <1>4

(* While the entries and the hole stay, so does what is known of names.    *)
LEMMA NamesFrame ==
  ASSUME SafeInv, TypeOK', SameEntries, Base \subseteq fbm',
         \A f \in Base : f \in Dirs <=> (f \in Dirs)',
         Hole' = Hole, Hole = {} \/ (op'.ino = op.ino /\ op'.dir = op.dir),
         torn' = torn
  PROVE  /\ Base' = Base /\ DirTree(table)' = DirTree(table)
         /\ Firm' = Firm /\ \A f \in Fd : Bearers(f)' = Bearers(f)
         /\ CellsInv' /\ ReachInv' /\ NamesInv' /\ HoleInv'
<1>1. /\ Base' = Base /\ DirTree(table)' = DirTree(table)
      /\ CellsInv' /\ ReachInv'
  BY TreeFrame
<1>2. Firm' = Firm /\ Firm \subseteq Spots
  BY DEF Firm, SameEntries
<1>3. \A f \in Fd : Bearers(f)' = Bearers(f)
  BY <1>2 DEF Bearers, SameEntries
<1>4. NamesInv'
  BY <1>2 DEF SafeInv, NamesInv, SameEntries
<1>5. HoleInv'
  <2>1. Hole \subseteq Spots
    BY HoleIn
  <2>2. \A h \in Hole : At(h)' = At(h)
    BY <2>1 DEF SameEntries
  <2>3. \A q \in Firm : At(q)' = At(q)
    BY <1>2 DEF SameEntries
  <2> QED BY <1>2, <2>2, <2>3 DEF SafeInv, HoleInv
<1> QED BY <1>1, <1>2, <1>3, <1>4, <1>5

(* Files whose descriptor and list stay are as sound as before, as long as *)
(* their marks stay and their size is covered.                             *)
LEMMA FilesFrame ==
  ASSUME SafeInv, Live' \subseteq Live,
         \A f \in Live : table'[f].datablock = table[f].datablock /\ List(f)' = List(f),
         \A f \in Live' : /\ f \in fbm' /\ Owned(f) \subseteq bbm'
                          /\ \A i \in 0 .. table'[f].size - 1 : Fits(f, i),
         0 .. Service - 1 \subseteq bbm', (Root \in Dirs)'
  PROVE  FilesInv' /\ \A f \in Live : Owned(f)' = Owned(f)
<1>1. ASSUME NEW f \in Live PROVE Owned(f)' = Owned(f)
  BY DEF Owned, Listed, List
<1>2. ASSUME NEW f \in Live' PROVE Sound(f)'
  <2>1. f \in Live /\ Sound(f)
    BY DEF SafeInv, FilesInv
  <2>2. List(f)' = List(f) /\ table'[f].datablock = table[f].datablock
    BY <2>1
  <2>3. ListedOnce(f)' /\ \A i \in 0 .. table'[f].size - 1 : Fits(f, i)'
    BY <2>1, <2>2 DEF Sound, ListedOnce, Fits
  <2> QED BY <1>1, <2>1, <2>2, <2>3 DEF Sound
<1>3. ASSUME NEW f \in Live', NEW g \in Live', f # g PROVE Owned(f)' \cap Owned(g)' = {}
  BY <1>1, <1>3 DEF SafeInv, FilesInv
<1> QED BY <1>1, <1>2, <1>3 DEF FilesInv

(* Counts are numbers.                                                     *)
CountsOK == \A f \in Fd : /\ IsFiniteSet(Bearers(f)) /\ Cardinality(Bearers(f)) \in Nat
                          /\ Count(f) \in Int
LEMMA CountsAre == TypeOK => CountsOK
<1> SUFFICES ASSUME TypeOK, NEW f \in Fd
             PROVE  /\ IsFiniteSet(Bearers(f)) /\ Cardinality(Bearers(f)) \in Nat
                    /\ Count(f) \in Int
  BY DEF CountsOK
<1>1. Bearers(f) \subseteq Spots
  BY DEF Bearers, Firm
<1>2. IsFiniteSet(Bearers(f)) /\ Cardinality(Bearers(f)) \in Nat
  BY <1>1, SpotsAre, FS_Subset, FS_CardinalityType DEF SpotsOK
<1>3. Owed(f) \in {-1, 0, 1}
  BY DEF Owed
<1> QED BY <1>2, <1>3 DEF Count
LEMMA CountsAreNext == TypeOK' => CountsOK'
BY CountsAre, PTL

(* Few descriptors can be lost.                                            *)
LEMMA LostFinite == ASSUME TypeOK PROVE IsFiniteSet(Lost)
<1>1. Lost \subseteq fbm /\ fbm \subseteq Fd
  BY DEF Lost, TypeOK
<1>2. IsFiniteSet(Fd)
  BY SizesAssumption, FS_Interval DEF Fd
<1> QED BY <1>1, <1>2, FS_Subset

(* A step that changes link counts with the names keeps the counts right   *)
(* and loses nothing.                                                      *)
LEMMA CountFrame ==
  ASSUME SafeInv, TypeOK', torn' = torn, crashes' = crashes,
         op.pc # "oops", op'.pc # "oops",
         \A f \in Live' \ {Root} :
           \/ Count(f)' = table'[f].links
           \/ f \in Live /\ Count(f)' - table'[f].links = Count(f) - table[f].links,
         \A f \in fbm' : f \in Lost \/ f \in (Live \cup Pending)'
  PROVE  CountInv' /\ LostInv'
<1>1. Live \subseteq fbm /\ CountsOK /\ CountsOK'
  BY LiveSound, CountsAre, CountsAreNext DEF SafeInv, IInv
<1>2. ASSUME NEW f \in Fd
      PROVE  /\ Count(f) \in Int /\ table[f].links \in Int
             /\ Count(f)' \in Int /\ table'[f].links \in Int
  BY <1>1 DEF CountsOK, SafeInv, IInv, TypeOK, FdRec
<1>3. Live \subseteq Fd /\ Live' \subseteq Fd
  <2>1. op.ino \in Fd /\ op'.ino \in Fd /\ Root \in Fd
    BY SizesAssumption DEF SafeInv, IInv, TypeOK, OpRec, Root, Fd
  <2> QED BY <2>1 DEF Live, Base
<1>4. CountInv'
  BY <1>2, <1>3 DEF SafeInv, CountInv
<1>5. ASSUME NEW f \in Lost' PROVE f \in Lost
  <2> SUFFICES ASSUME f \notin Lost PROVE FALSE
    OBVIOUS
  <2>1. f \in fbm' /\ f \in (Live \cup Pending)' /\ f \in Live' \ {Root}
        /\ ~ (Count(f)' >= table'[f].links)
    BY DEF Lost, Exact
  <2>2. f \in Live /\ Count(f)' - table'[f].links = Count(f) - table[f].links /\ f \in Fd
    BY <1>2, <1>3, <2>1
  <2>3. ~ (Count(f) >= table[f].links)
    <3>1. /\ Count(f) \in Int /\ table[f].links \in Int
          /\ Count(f)' \in Int /\ table'[f].links \in Int
      BY <1>2, <2>2
    <3> HIDE DEF Count
    <3> QED BY <2>1, <2>2, <3>1
  <2>4. ~ Exact(f)
    BY <2>1, <2>2, <2>3 DEF Exact
  <2>5. f \in fbm
    BY <1>1, <2>2
  <2> QED BY <2>4, <2>5 DEF Lost
<1>6. IsFiniteSet(Lost)
  BY LostFinite DEF SafeInv, IInv
<1>7. Cardinality(Lost') <= Cardinality(Lost) /\ Cardinality(Lost) \in Nat
      /\ Cardinality(Lost') \in Nat
  BY <1>5, <1>6, FS_Subset, FS_CardinalityType
<1>8. Cardinality(Lost) <= crashes /\ crashes \in Nat
  BY DEF SafeInv, LostInv, IInv, TypeOK
<1> QED BY <1>4, <1>7, <1>8 DEF LostInv

-----------------------------------------------------------------------------
(* Between operations the driver reads in memory what is on the disk.      *)
LEMMA RestView ==
  ASSUME SafeInv, op.pc = "idle"
  PROVE  /\ inodes = fbm /\ \A f \in fbm : fd[f] = table[f]
         /\ DirTree(fd) = DirTree(table)
         /\ DirTree(fd) \subseteq Base \cap Dirs
         /\ \A d \in DirTree(fd) : \A i \in 0 .. fd[d].size - 1 :
              <<d, i>> \in Spots /\ CellAt(fd, d, i) = At(<<d, i>>)
         /\ Named(fd) \subseteq Base
<1>1. inodes = fbm /\ \A f \in fbm : fd[f] = table[f]
  BY DEF SafeInv, IInv, MemInv, Pending, Unlisted
<1>2. Base \subseteq fbm /\ fbm \subseteq Fd /\ SpotsOK /\ PlacesOK
  BY LiveSound DEF SafeInv, IInv, TypeOK
<1>3. Subdirs(fd) = Subdirs(table)
  <2>1. ASSUME NEW d \in fbm, NEW f \in fbm
        PROVE  /\ fd[d].type = table[d].type /\ fd[f].type = table[f].type
               /\ fd[d].size = table[d].size
               /\ \A i : CellAt(fd, d, i) = CellAt(table, d, i)
    BY <1>1 DEF CellAt
  <2> QED BY <2>1 DEF Subdirs
<1>4. DirTree(fd) = DirTree(table)
  BY <1>3 DEF DirTree
<1>5. DirTree(fd) \subseteq Base \cap Dirs
  BY <1>2, <1>4 DEF PlacesOK
<1>6. ASSUME NEW d \in DirTree(fd), NEW i \in 0 .. fd[d].size - 1
      PROVE  <<d, i>> \in Spots /\ CellAt(fd, d, i) = At(<<d, i>>)
  <2>1. d \in Dirs /\ fd[d] = table[d]
    BY <1>1, <1>2, <1>5
  <2> QED BY <1>2, <2>1 DEF SpotsOK, At, CellAt
<1>7. ASSUME NEW f \in Named(fd) PROVE f \in Base
  <2>1. CASE f = Root
    BY <2>1 DEF Base
  <2>2. CASE f # Root
    <3>1. PICK p \in Places(fd) : f = CellAt(fd, p[1], p[2]).fd
      BY <2>2 DEF Named, Triples
    <3>2. PICK d \in DirTree(fd) : \E i \in 0 .. fd[d].size - 1 : p = <<d, i>>
      BY <3>1 DEF Places
    <3>3. PICK i \in 0 .. fd[d].size - 1 : <<d, i>> \in Spots /\ f = At(<<d, i>>).fd
      BY <1>6, <3>1, <3>2
    <3> QED BY <3>3, LiveSound
  <2> QED BY <2>1, <2>2
<1> QED BY <1>1, <1>4, <1>5, <1>6, <1>7

(* Between operations a name is there once in its directory.               *)
LEMMA RestNames ==
  ASSUME SafeInv, op.pc = "idle", torn = {}
  PROVE  /\ Hole = {} /\ Firm = Spots
         /\ \A p, q \in Spots : p[1] = q[1] /\ At(p).name = At(q).name => p = q
BY DEF Hole, Firm, Removing, SafeInv, NamesInv

(* A name that ffs_lookup does not find is not in the directory.           *)
LEMMA AbsentMeans ==
  ASSUME SafeInv, op.pc = "idle", torn = {}, NEW d \in DirTree(fd), NEW n, Absent(d, n)
  PROVE  \A p \in Spots : p[1] = d => At(p).name # n
<1> SUFFICES ASSUME NEW p \in Spots, p[1] = d, At(p).name = n PROVE FALSE
  OBVIOUS
<1> DEFINE i == p[2]
<1>1. /\ d \in Base \cap Dirs /\ inodes = fbm /\ Base \subseteq fbm /\ d \in fbm
      /\ fd[d] = table[d] /\ SpotsOK
  BY RestView, LiveSound
<1>2. i \in 0 .. fd[d].size - 1 /\ p = <<d, i>> /\ fd[d].size \in Nat
  BY <1>1 DEF SpotsOK, SafeInv, IInv, TypeOK, FdRec
<1>3. PICK f \in Fd : f = At(p).fd /\ f \in inodes
  BY <1>1, LiveSound DEF SafeInv, CellsInv
<1>4. CellAt(fd, d, i) = [fd |-> f, name |-> n]
  <2>1. CellAt(fd, d, i) = At(p)
    BY <1>2, RestView
  <2>2. At(p) \in Cell
    BY <1>2, CellAtType DEF At, SafeInv, IInv
  <2> QED BY <1>3, <2>1, <2>2 DEF Cell
<1>5. ASSUME NEW j \in 0 .. i - 1, CellAt(fd, d, j).name = n PROVE FALSE
  <2>1. j \in 0 .. fd[d].size - 1 /\ j # i
    BY <1>2
  <2>2. <<d, j>> \in Spots /\ At(<<d, j>>).name = n
    BY <1>5, <2>1, RestView
  <2>3. <<d, j>> = p
    BY <2>2, RestNames
  <2> QED BY <1>2, <2>1, <2>3
<1> HIDE DEF i
<1>6. Lookup(d, n, f)
  BY <1>2, <1>3, <1>4, <1>5 DEF Lookup
<1> QED BY <1>6 DEF Absent

-----------------------------------------------------------------------------
(* The calls.                                                              *)

(* A step that writes no index, no cells and no descriptor.                *)
LEMMA DiskFrame ==
  ASSUME UNCHANGED <<index, cells, table>>
  PROVE  /\ SameEntries /\ Dirs' = Dirs
         /\ \A f : List(f)' = List(f) /\ Owned(f)' = Owned(f)
         /\ \A f, i : Fits(f, i)' <=> Fits(f, i)
BY DEF SameEntries, Spots, Dirs, At, CellAt, List, Owned, Listed, Fits

(* Nothing is in flight between operations.                                *)
LEMMA AtRestEmpty ==
  ASSUME op.pc = "idle"
  PROVE  /\ Hole = {} /\ Flight = {} /\ Pending = {} /\ Live = Base
         /\ \A f : Owed(f) = 0
BY DEF Hole, Removing, Flight, Pending, Live, Owed, Appending, Writes

(* ffs_file_write on a regular file that has a name.                       *)
LEMMA BeginWriteSafe ==
  ASSUME SafeInv, IInv', torn = {},
         NEW f \in Fd, NEW pos \in 0 .. MaxSize, NEW len \in 1 .. MaxSize,
         BeginWrite(f, pos, len)
  PROVE  SafeInv'
<1> DEFINE o == [NoOp EXCEPT !.kind = "write", !.ino = f]
           data == [i \in 1 .. len |-> Blank]
<1>1. /\ op.pc = "idle" /\ torn = {} /\ torn' = torn /\ crashes' = crashes
      /\ UNCHANGED <<bbm, fbm, index, cells, table, fd, inodes>>
      /\ f \in Named(fd) \cap inodes /\ fd[f].type = "FFS_REG" /\ pos <= fd[f].size
      /\ op' = Writing(o, f, pos, data, "done")
  BY DEF BeginWrite, Start, disk
<1>2. /\ op'.pc = "file_write" /\ op'.wino = f /\ op'.ino = f /\ op'.ret = "done"
      /\ op'.pos = pos
  BY <1>1 DEF Writing, NoOp
<1>3. f \in Base /\ f \notin Dirs /\ pos <= table[f].size /\ Base \subseteq fbm
  BY <1>1, RestView, LiveSound DEF Dirs
<1>4. SameEntries /\ Dirs' = Dirs /\ TypeOK'
  BY <1>1, DiskFrame DEF IInv
<1>5. /\ Hole = {} /\ Flight = {} /\ Live = Base /\ \A g : Owed(g) = 0
      /\ Hole' = {} /\ Flight' = {} /\ Pending' = {} /\ Pending = {}
  BY <1>1, <1>2, AtRestEmpty DEF Hole, Removing, Flight, Pending
<1>6. /\ Base' = Base /\ \A g \in Fd : Bearers(g)' = Bearers(g)
      /\ CellsInv' /\ ReachInv' /\ NamesInv' /\ HoleInv'
  BY <1>1, <1>3, <1>4, <1>5, NamesFrame
<1>7. Live' = Live /\ ~ Appending' /\ ~ Removing' /\ op'.pc \notin {"inc", "dec", "shrink"}
  BY <1>2, <1>3, <1>4, <1>5, <1>6 DEF Live, Appending, Removing
<1>8. \A g \in Live : Sound(g)
  BY DEF SafeInv, FilesInv
<1>9. FilesInv' /\ \A g \in Live : Owned(g)' = Owned(g)
  BY <1>1, <1>4, <1>7, <1>8, DiskFrame, FilesFrame DEF Sound, SafeInv, FilesInv
<1>10. FlightInv' /\ PendingInv'
  BY <1>2, <1>5 DEF FlightInv, PendingInv
<1>11. WriteInv'
  <2>1. \A i \in 0 .. pos - 1 : Fits(f, i)'
    BY <1>1, <1>3, <1>5, <1>8, DiskFrame DEF Sound, SafeInv, IInv, TypeOK, FdRec
  <2> QED BY <1>2, <1>3, <1>5, <1>6, <1>7, <2>1 DEF WriteInv
<1>12. DirInv' /\ AbsentInv' /\ AppendInv' /\ RemoveInv'
  BY <1>2, <1>7 DEF DirInv, AbsentInv, AppendInv, RemoveInv, Adding
<1>13. CountInv' /\ LostInv'
  <2>1. \A g \in Fd : Owed(g)' = 0
    BY <1>2, <1>7 DEF Owed
  <2>2. \A g \in Fd : Count(g)' = Count(g)
    BY <1>5, <1>6, <2>1 DEF Count
  <2>3. Live \subseteq Fd
    BY <1>5, <1>6, LiveSound DEF SafeInv, IInv, TypeOK
  <2>4. \A g \in fbm' : g \in Lost \/ g \in (Live \cup Pending)'
    BY <1>1, <1>5, <1>7 DEF Lost, Exact
  <2> QED BY <1>1, <1>2, <1>4, <1>7, <2>2, <2>3, <2>4, CountFrame
<1>14. MarksInv'
  BY <1>1, <1>2, <1>5, <1>7, <1>9 DEF SafeInv, MarksInv
<1>15. TornInv'
  BY <1>1 DEF TornInv
<1> QED BY <1>6, <1>9, <1>10, <1>11, <1>12, <1>13, <1>14, <1>15 DEF SafeInv

(* A call that fails at once changes nothing.                              *)
LEMMA StutterSafe ==
  ASSUME SafeInv, IInv', UNCHANGED <<bbm, fbm, index, cells, table, fd, op, crashes, torn>>
  PROVE  SafeInv'
<1>1. /\ SameEntries /\ Dirs' = Dirs /\ Hole' = Hole /\ TypeOK'
      /\ Pending' = Pending /\ Flight' = Flight
  BY DiskFrame DEF Hole, Removing, Pending, Flight, Datablock, FIndex, IInv
<1>2. /\ Base' = Base /\ DirTree(table)' = DirTree(table)
      /\ \A g \in Fd : Bearers(g)' = Bearers(g)
      /\ CellsInv' /\ ReachInv' /\ NamesInv' /\ HoleInv'
  BY <1>1, LiveSound, NamesFrame
<1>3. Live' = Live /\ Appending' = Appending /\ Removing' = Removing /\ Filling' = Filling
      /\ Adding' = Adding /\ Writes' = Writes
  BY <1>1, <1>2 DEF Live, Appending, Removing, Filling, Adding, Writes
<1>4. FilesInv' /\ \A g \in Live : Owned(g)' = Owned(g)
  BY <1>1, <1>3, DiskFrame, FilesFrame DEF Sound, SafeInv, FilesInv
<1>5. FlightInv'
  BY <1>1, <1>3, <1>4 DEF SafeInv, FlightInv
<1>6. PendingInv'
  BY <1>1, <1>2 DEF SafeInv, PendingInv, Datablock
<1>7. WriteInv'
  BY <1>2, <1>3, DiskFrame DEF SafeInv, WriteInv
<1>8. DirInv' /\ AbsentInv'
  BY <1>1, <1>2, <1>3 DEF SafeInv, DirInv, AbsentInv, SameEntries
<1>9. AppendInv'
  BY <1>3 DEF SafeInv, AppendInv, CellAt, Entry
<1>10. RemoveInv'
  BY <1>1, <1>3 DEF SafeInv, RemoveInv, CellAt, SameEntries
<1>11. CountInv' /\ LostInv'
  <2>1. \A g \in Fd : Count(g)' = Count(g)
    BY <1>2, <1>3 DEF Count, Owed
  <2>2. Live \subseteq Fd /\ fbm \subseteq Fd
    BY LiveSound DEF SafeInv, IInv, TypeOK
  <2>3. \A g \in fbm : Exact(g)' = Exact(g)
    BY <1>1, <1>3, <2>1, <2>2 DEF Exact
  <2>4. Lost' = Lost
    BY <2>3 DEF Lost
  <2> QED BY <1>3, <2>1, <2>2, <2>4 DEF SafeInv, CountInv, LostInv
<1>12. MarksInv'
  BY <1>1, <1>3, <1>4 DEF SafeInv, MarksInv
<1>13. TornInv'
  <2>1. Places(table)' = Places(table) /\ \A d, i : CellAt(table, d, i)' = CellAt(table, d, i)
    BY <1>2 DEF Places, CellAt
  <2>2. \A f \in Fd : (Undercounted(f) \/ Doubled(f))' => Undercounted(f) \/ Doubled(f)
    BY <2>1 DEF Undercounted, Doubled, Entries
  <2> QED BY <2>2 DEF SafeInv, TornInv
<1> QED BY <1>2, <1>4, <1>5, <1>6, <1>7, <1>8, <1>9, <1>10, <1>11, <1>12, <1>13 DEF SafeInv

(* create_entry takes a descriptor: it is marked, and leads nowhere yet.   *)
LEMMA BeginCreateSafe ==
  ASSUME SafeInv, IInv', torn = {},
         NEW d \in Fd, NEW n \in Names, NEW t \in Types, NEW f \in Fd \cup {NoFd},
         BeginCreate(d, n, t, f)
  PROVE  SafeInv'
<1>1. /\ op.pc = "idle" /\ torn = {} /\ torn' = torn /\ crashes' = crashes
      /\ d \in DirTree(fd) /\ Absent(d, n)
      /\ UNCHANGED <<bbm, index, cells, table, fd, inodes>>
  BY DEF BeginCreate, Start, disk, SharesName
<1>2. CASE UNCHANGED <<fbm, op>>
  BY <1>1, <1>2, StutterSafe
<1>3. CASE /\ f \in Fd /\ f \notin fbm /\ fbm' = fbm \cup {f}
           /\ op' = [NoOp EXCEPT !.kind = IF t = "FFS_SLINK" THEN "symlink" ELSE "create",
                                 !.pc = "get_block", !.dir = d, !.name = n,
                                 !.ino = f, !.type = t]
  <2>1. /\ op'.pc = "get_block" /\ op'.dir = d /\ op'.name = n /\ op'.ino = f
        /\ op'.kind = "symlink" => op'.type # "FFS_DIR"
    BY <1>3 DEF NoOp
  <2>2. SameEntries /\ Dirs' = Dirs /\ TypeOK' /\ Base \subseteq fbm /\ fbm \subseteq Fd
    BY <1>1, DiskFrame, LiveSound DEF SafeInv, IInv, TypeOK
  <2>3. /\ Hole = {} /\ Flight = {} /\ Live = Base /\ \A g : Owed(g) = 0
        /\ Hole' = {} /\ Flight' = {} /\ Pending' = {f} /\ Pending = {}
    BY <1>1, <2>1, AtRestEmpty DEF Hole, Removing, Flight, Pending
  <2>4. /\ Base' = Base /\ DirTree(table)' = DirTree(table)
        /\ \A g \in Fd : Bearers(g)' = Bearers(g)
        /\ CellsInv' /\ ReachInv' /\ NamesInv' /\ HoleInv'
    BY <1>1, <1>3, <2>2, <2>3, NamesFrame
  <2>5. /\ Live' = Live /\ ~ Appending' /\ ~ Removing' /\ ~ Filling' /\ ~ Writes'
    BY <2>1, <2>3, <2>4 DEF Live, Appending, Removing, Filling, Writes
  <2>6. \A g \in Live : Sound(g)
    BY DEF SafeInv, FilesInv
  <2>7. FilesInv' /\ \A g \in Live : Owned(g)' = Owned(g)
    BY <1>1, <1>3, <2>2, <2>5, <2>6, DiskFrame, FilesFrame DEF Sound, SafeInv, FilesInv
  <2>8. FlightInv' /\ WriteInv' /\ AppendInv' /\ RemoveInv'
    BY <2>1, <2>3, <2>5 DEF FlightInv, WriteInv, AppendInv, RemoveInv
  <2>9. PendingInv'
    BY <1>3, <2>1, <2>2, <2>3, <2>4 DEF PendingInv
  <2>10. DirInv'
    BY <1>1, <2>1, <2>4, RestView DEF DirInv
  <2>11. AbsentInv'
    BY <1>1, <2>1, <2>2, AbsentMeans DEF AbsentInv, SameEntries
  <2>12. CountInv' /\ LostInv'
    <3>1. \A g \in Fd : Owed(g)' = 0
      BY <2>1, <2>5 DEF Owed
    <3>2. \A g \in Fd : Count(g)' = Count(g)
      BY <2>3, <2>4, <3>1 DEF Count
    <3>3. Live \subseteq Fd
      BY <2>2, <2>3
    <3>4. \A g \in fbm' : g \in Lost \/ g \in (Live \cup Pending)'
      BY <1>3, <2>3, <2>5 DEF Lost, Exact
    <3> QED BY <1>1, <2>1, <2>2, <2>5, <3>2, <3>3, <3>4, CountFrame
  <2>13. MarksInv'
    BY <1>1, <2>1, <2>3, <2>5, <2>7 DEF SafeInv, MarksInv
  <2>14. TornInv'
    BY <1>1 DEF TornInv
  <2> QED BY <2>4, <2>7, <2>8, <2>9, <2>10, <2>11, <2>12, <2>13, <2>14 DEF SafeInv
<1> QED BY <1>1, <1>2, <1>3 DEF BeginCreate, EmptyBit, disk, NoBlock, Fd

(* ffs_link enters file_write with a file that has a name.                 *)
LEMMA BeginLinkSafe ==
  ASSUME SafeInv, IInv', torn = {},
         NEW d \in Fd, NEW n \in Names, NEW f \in Fd, BeginLink(d, n, f)
  PROVE  SafeInv'
<1> DEFINE o == [NoOp EXCEPT !.kind = "link", !.dir = d, !.name = n, !.ino = f]
           e == [fd |-> f, name |-> n]
<1>1. /\ op.pc = "idle" /\ torn = {} /\ torn' = torn /\ crashes' = crashes
      /\ d \in DirTree(fd) /\ Absent(d, n)
      /\ UNCHANGED <<bbm, fbm, index, cells, table, fd, inodes>>
      /\ f \in Named(fd)
      /\ op' = Writing(o, d, fd[d].size, <<e>>, "inc")
  BY DEF BeginLink, Start, disk, SharesName, Named
<1>2. /\ op'.pc = "file_write" /\ op'.wino = d /\ op'.dir = d /\ op'.ino = f
      /\ op'.ret = "inc" /\ op'.pos = fd[d].size /\ op'.data = <<e>> /\ Entry' = e
  BY <1>1 DEF Writing, NoOp, Entry
<1>3. /\ f \in Base /\ d \in Base /\ d \in Dirs /\ Base \subseteq fbm /\ fd[d] = table[d]
      /\ DirTree(fd) = DirTree(table)
  BY <1>1, RestView, LiveSound
<1>4. SameEntries /\ Dirs' = Dirs /\ TypeOK'
  BY <1>1, DiskFrame DEF IInv
<1>5. /\ Hole = {} /\ Flight = {} /\ Live = Base /\ \A g : Owed(g) = 0
      /\ Hole' = {} /\ Flight' = {} /\ Pending' = {} /\ Pending = {}
  BY <1>1, <1>2, AtRestEmpty DEF Hole, Removing, Flight, Pending
<1>6. /\ Base' = Base /\ DirTree(table)' = DirTree(table)
      /\ \A g \in Fd : Bearers(g)' = Bearers(g)
      /\ CellsInv' /\ ReachInv' /\ NamesInv' /\ HoleInv'
  BY <1>1, <1>3, <1>4, <1>5, NamesFrame
<1>7. Live' = Live /\ ~ Filling' /\ ~ Removing' /\ op'.pc \notin {"inc", "dec", "shrink"}
  BY <1>2, <1>3, <1>4, <1>5, <1>6 DEF Live, Filling, Removing
<1>8. \A g \in Live : Sound(g)
  BY DEF SafeInv, FilesInv
<1>9. FilesInv' /\ \A g \in Live : Owned(g)' = Owned(g)
  BY <1>1, <1>4, <1>7, <1>8, DiskFrame, FilesFrame DEF Sound, SafeInv, FilesInv
<1>10. FlightInv' /\ PendingInv'
  BY <1>2, <1>5 DEF FlightInv, PendingInv
<1>11. WriteInv'
  <2>1. \A i \in 0 .. fd[d].size - 1 : Fits(d, i)'
    BY <1>1, <1>3, <1>5, <1>8, DiskFrame DEF Sound
  <2> QED BY <1>2, <1>3, <1>5, <1>6, <1>7, <2>1 DEF WriteInv
<1>12. DirInv' /\ AbsentInv'
  BY <1>1, <1>2, <1>3, <1>4, <1>6, AbsentMeans DEF DirInv, AbsentInv, SameEntries, Writing, NoOp
<1>13. AppendInv' /\ RemoveInv'
  <2>1. f # Root
    <3>1. Root \in Dirs /\ Root \in fbm
      BY <1>3 DEF SafeInv, FilesInv, Base, Dirs
    <3>2. fd[Root].type = "FFS_DIR"
      BY <1>1, <3>1, RestView DEF Dirs
    <3> QED BY <3>2 DEF BeginLink
  <2> QED BY <1>1, <1>2, <1>3, <1>7, <2>1 DEF AppendInv, RemoveInv
<1>14. CountInv' /\ LostInv'
  <2>1. \A g \in Fd : Owed(g)' = 0
    BY <1>2, <1>7 DEF Owed
  <2>2. \A g \in Fd : Count(g)' = Count(g)
    BY <1>5, <1>6, <2>1 DEF Count
  <2>3. Live \subseteq Fd
    BY <1>5, <1>6, LiveSound DEF SafeInv, IInv, TypeOK
  <2>4. \A g \in fbm' : g \in Lost \/ g \in (Live \cup Pending)'
    BY <1>1, <1>5, <1>7 DEF Lost, Exact
  <2> QED BY <1>1, <1>2, <1>4, <1>7, <2>2, <2>3, <2>4, CountFrame
<1>15. MarksInv'
  BY <1>1, <1>2, <1>5, <1>7, <1>9 DEF SafeInv, MarksInv
<1>16. TornInv'
  BY <1>1 DEF TornInv
<1> QED BY <1>6, <1>9, <1>10, <1>11, <1>12, <1>13, <1>14, <1>15, <1>16 DEF SafeInv

(* ffs_unlink and ffs_rmdir find the entry: from here on it is the hole,   *)
(* which no longer counts for the file.                                    *)
LEMMA BeginUnlinkSafe ==
  ASSUME SafeInv, IInv', torn = {},
         NEW d \in Fd, NEW n \in Names, NEW f \in Fd, BeginUnlink(d, n, f)
  PROVE  SafeInv'
<1> DEFINE o == [NoOp EXCEPT !.kind = "unlink", !.dir = d, !.name = n, !.ino = f]
<1>1. PICK i \in 0 .. fd[d].size - 1 :
        /\ FirstNamed(fd, d, n, i)
        /\ op' = Writing(o, d, i, Tail1(d, i), "shrink")
  BY DEF BeginUnlink
<1> DEFINE h == <<d, i>>
<1>2. /\ op.pc = "idle" /\ torn = {} /\ torn' = torn /\ crashes' = crashes
      /\ d \in DirTree(fd) /\ Lookup(d, n, f)
      /\ fd[f].type = "FFS_DIR" => f # Root /\ fd[f].size = 0
      /\ UNCHANGED <<bbm, fbm, index, cells, table, fd, inodes>>
  BY DEF BeginUnlink, Start, disk
<1>3. /\ op'.pc = "file_write" /\ op'.wino = d /\ op'.dir = d /\ op'.ino = f
      /\ op'.ret = "shrink" /\ op'.pos = i /\ op'.data = Tail1(d, i)
  BY <1>1 DEF Writing, NoOp
<1>4. /\ d \in Base /\ d \in Dirs /\ Base \subseteq fbm /\ fbm \subseteq Fd /\ fd[d] = table[d]
      /\ DirTree(fd) = DirTree(table) /\ table[d].size \in Nat
  BY <1>2, RestView, LiveSound DEF SafeInv, IInv, TypeOK, FdRec
<1>5. /\ Hole = {} /\ Flight = {} /\ Live = Base /\ \A g : Owed(g) = 0
      /\ Hole' = {h} /\ Flight' = {} /\ Pending' = {} /\ Pending = {}
      /\ Removing' /\ Writes' /\ ~ Appending' /\ ~ Filling'
  BY <1>2, <1>3, AtRestEmpty
     DEF Hole, Removing, Flight, Pending, Writes, Appending, Filling
<1>6. h \in Spots /\ At(h) = [fd |-> f, name |-> n]
  <2>1. PICK j \in 0 .. fd[d].size - 1 : CellAt(fd, d, j) = [fd |-> f, name |-> n]
    BY <1>2 DEF Lookup
  <2>2. /\ <<d, j>> \in Spots /\ At(<<d, j>>) = [fd |-> f, name |-> n]
        /\ h \in Spots /\ At(h).name = n
    BY <1>1, <1>2, <2>1, RestView DEF FirstNamed
  <2>3. <<d, j>> = h
    BY <1>2, <2>2, RestNames
  <2> QED BY <2>2, <2>3
<1>7. f \in Base /\ f # Root /\ \A p \in Spots : p[1] # f
  <2>1. f \in Base /\ f # Root
    BY <1>6, LiveSound DEF SafeInv, CellsInv
  <2>2. ASSUME NEW p \in Spots, p[1] = f PROVE FALSE
    <3>1. f \in Dirs /\ p[2] \in 0 .. table[f].size - 1
      BY <2>2, LiveSound DEF SpotsOK
    <3>2. fd[f] = table[f]
      BY <1>2, <1>4, <2>1, RestView
    <3>3. table[f].size = 0
      BY <1>2, <3>1, <3>2 DEF Dirs
    <3> QED BY <3>1, <3>3
  <2> QED BY <2>1, <2>2
<1>8. SameEntries /\ Dirs' = Dirs /\ TypeOK'
  BY <1>2, DiskFrame DEF IInv
<1>9. /\ Base' = Base /\ DirTree(table)' = DirTree(table) /\ CellsInv' /\ ReachInv'
  BY <1>2, <1>4, <1>8, TreeFrame
<1>10. Firm = Spots /\ Firm' = Spots \ {h}
  BY <1>5, <1>8 DEF Firm, SameEntries
<1>11. NamesInv'
  <2>1. \A p, q \in Spots : p[1] = q[1] /\ At(p).name = At(q).name => p = q
    BY <1>2, RestNames
  <2> QED BY <1>8, <1>10, <2>1 DEF NamesInv, SameEntries
<1>12. HoleInv'
  BY <1>3, <1>5, <1>6, <1>8 DEF HoleInv, SameEntries
<1>13. Live' = Live
  BY <1>3, <1>5, <1>7, <1>9 DEF Live
<1>14. \A g \in Live : Sound(g)
  BY DEF SafeInv, FilesInv
<1>15. FilesInv' /\ \A g \in Live : Owned(g)' = Owned(g)
  BY <1>2, <1>8, <1>13, <1>14, DiskFrame, FilesFrame DEF Sound, SafeInv, FilesInv
<1>16. FlightInv' /\ PendingInv'
  BY <1>3, <1>5 DEF FlightInv, PendingInv
<1>17. WriteInv'
  <2>1. \A j \in 0 .. i - 1 : Fits(d, j)'
    BY <1>1, <1>2, <1>4, <1>5, <1>14, DiskFrame DEF Sound
  <2> QED BY <1>3, <1>4, <1>5, <1>13, <2>1 DEF WriteInv
<1>18. DirInv' /\ AbsentInv' /\ AppendInv'
  BY <1>2, <1>3, <1>4, <1>5, <1>9 DEF DirInv, AbsentInv, AppendInv, Adding
<1>19. RemoveInv'
  <2>1. /\ Len(op'.data) = table[d].size - i - 1
        /\ \A k \in 1 .. table[d].size - i - 1 : op'.data[k] = CellAt(fd, d, i + k)
    <3> DEFINE m == table[d].size - i - 1
               cell(j) == CellAt(fd, d, i + j)
    <3>1. m \in Nat /\ op'.data = [j \in 1 .. m |-> cell(j)]
      BY <1>1, <1>3, <1>4 DEF Tail1
    <3> HIDE DEF m, cell
    <3>2. Len(op'.data) = m /\ \A k \in 1 .. m : op'.data[k] = cell(k)
      BY <3>1
    <3> QED BY <3>2 DEF m, cell
  <2>2. \A k : CellAt(fd, d, k) = CellAt(table, d, k)'
    BY <1>2, <1>4 DEF CellAt
  <2>3. i + Len(op'.data) = table[d].size - 1
    BY <1>1, <1>4, <2>1
  <2>4. op'.dir = d /\ table' = table
    BY <1>2, <1>3
  <2>5. \A k \in 1 .. Len(op'.data) : op'.data[k] = CellAt(table, op.dir, op.pos + k)'
    BY <1>3, <2>1, <2>2
  <2> QED BY <1>3, <1>4, <1>5, <1>7, <1>8, <2>3, <2>4, <2>5 DEF RemoveInv, SameEntries
<1>20. CountInv' /\ LostInv'
  <2>1. ASSUME NEW g \in Fd PROVE Count(g)' = Count(g)
    <3>1. IsFiniteSet(Bearers(g)) /\ Cardinality(Bearers(g)) \in Nat
      BY CountsAre DEF CountsOK, SafeInv, IInv
    <3>2. Bearers(g)' = Bearers(g) \ {h}
      BY <1>8, <1>10 DEF Bearers, SameEntries
    <3>3. CASE g = f
      <4>1. h \in Bearers(g) /\ Owed(g)' = 1
        BY <1>3, <1>5, <1>6, <1>10, <3>3 DEF Bearers, Owed
      <4>2. Cardinality(Bearers(g) \ {h}) = Cardinality(Bearers(g)) - 1
        BY <3>1, <4>1, FS_RemoveElement
      <4> QED BY <1>5, <3>1, <3>2, <4>1, <4>2 DEF Count
    <3>4. CASE g # f
      <4>1. h \notin Bearers(g) /\ Owed(g)' = 0
        BY <1>3, <1>6, <3>4 DEF Bearers, Owed
      <4>2. Bearers(g)' = Bearers(g)
        BY <3>2, <4>1
      <4> QED BY <1>5, <4>1, <4>2 DEF Count
    <3> QED BY <3>3, <3>4
  <2>2. Live \subseteq Fd
    BY <1>4, <1>5
  <2>3. \A g \in fbm' : g \in Lost \/ g \in (Live \cup Pending)'
    BY <1>2, <1>5, <1>13 DEF Lost, Exact
  <2> QED BY <1>2, <1>3, <1>8, <1>13, <2>1, <2>2, <2>3, CountFrame
<1>21. MarksInv'
  BY <1>2, <1>3, <1>5, <1>13, <1>15 DEF SafeInv, MarksInv
<1>22. TornInv'
  BY <1>2 DEF TornInv
<1> QED BY <1>9, <1>11, <1>12, <1>15, <1>16, <1>17, <1>18, <1>19, <1>20, <1>21, <1>22 DEF SafeInv

-----------------------------------------------------------------------------
(* create_entry                                                            *)

(* A step of the program counter keeps the registers.                      *)
LEMMA GotoKeeps ==
  ASSUME op \in OpRec, NEW pc, Goto(pc)
  PROVE  /\ op'.pc = pc /\ op'.kind = op.kind /\ op'.dir = op.dir /\ op'.name = op.name
         /\ op'.ino = op.ino /\ op'.type = op.type /\ op'.wino = op.wino
         /\ op'.pos = op.pos /\ op'.data = op.data /\ op'.blk = op.blk
         /\ op'.ret = op.ret /\ op'.k = op.k
BY DEF Goto, OpRec

(* The block that is marked for the index belongs to no file.              *)
LEMMA GetBlockSafe ==
  ASSUME SafeInv, IInv', GetBlock
  PROVE  SafeInv'
<1>1. PICK b \in Block \cup {NoBlock} :
        /\ EmptyBit(bbm, NBlocks, b)
        /\ bbm' = bbm \cup ({b} \ {NoBlock})
        /\ fd' = [fd EXCEPT ![op.ino] =
                    [type |-> op.type, datablock |-> b, links |-> 1, size |-> 0]]
  BY DEF GetBlock
<1>2. /\ op.pc = "get_block" /\ torn' = torn /\ crashes' = crashes /\ op \in OpRec
      /\ UNCHANGED <<fbm, index, cells, table, inodes>>
  BY DEF GetBlock, Continue, SafeInv, IInv, TypeOK
<1>3. /\ op'.pc = "zero" /\ op'.ino = op.ino /\ op'.dir = op.dir /\ op'.name = op.name
      /\ op'.kind = op.kind
  BY <1>2, GotoKeeps DEF GetBlock
<1>4. fd'[op.ino] = [type |-> op.type, datablock |-> b, links |-> 1, size |-> 0]
  BY <1>1, <1>2 DEF OpRec, SafeInv, IInv, TypeOK
<1>5. SameEntries /\ Dirs' = Dirs /\ TypeOK' /\ Base \subseteq fbm
  BY <1>2, DiskFrame, LiveSound DEF IInv
<1>6. /\ Hole = {} /\ Flight = {} /\ Live = Base /\ Pending = {op.ino}
      /\ Hole' = {} /\ Flight' = {b} \ {NoBlock} /\ Pending' = {op.ino}
      /\ ~ Appending' /\ ~ Removing' /\ ~ Filling' /\ ~ Writes'
      /\ ~ Appending /\ ~ Removing /\ Adding
  BY <1>2, <1>3, <1>4
     DEF Hole, Removing, Flight, Pending, Live, Appending, Filling, Writes, Datablock, Adding
<1>7. /\ Base' = Base /\ DirTree(table)' = DirTree(table)
      /\ \A g \in Fd : Bearers(g)' = Bearers(g)
      /\ CellsInv' /\ ReachInv' /\ NamesInv' /\ HoleInv'
  BY <1>2, <1>3, <1>5, <1>6, NamesFrame
<1>8. Live' = Live /\ Live \subseteq Fd
  BY <1>3, <1>6, <1>7, LiveSound DEF Live, SafeInv, IInv, TypeOK
<1>9. \A g \in Live : Sound(g)
  BY DEF SafeInv, FilesInv
<1>10. FilesInv' /\ \A g \in Live : Owned(g)' = Owned(g)
  BY <1>1, <1>2, <1>5, <1>8, <1>9, DiskFrame, FilesFrame DEF Sound, SafeInv, FilesInv
<1>11. FlightInv'
  <2>1. b = NoBlock \/ b \notin bbm
    BY <1>1 DEF EmptyBit
  <2>2. Flight' \cap bbm = {} /\ Flight' \subseteq bbm'
    BY <1>1, <1>6, <2>1
  <2>3. 0 .. Service - 1 \subseteq bbm /\ \A g \in Live : Owned(g) \subseteq bbm
    BY <1>9 DEF Sound, SafeInv, FilesInv
  <2> QED BY <1>8, <1>10, <2>2, <2>3 DEF FlightInv
<1>12. PendingInv'
  BY <1>2, <1>3, <1>4, <1>6, <1>7 DEF SafeInv, PendingInv
<1>13. WriteInv' /\ AppendInv' /\ RemoveInv'
  BY <1>3, <1>6 DEF WriteInv, AppendInv, RemoveInv
<1>14. DirInv' /\ AbsentInv'
  BY <1>3, <1>5, <1>6, <1>7 DEF SafeInv, DirInv, AbsentInv, SameEntries
<1>15. CountInv' /\ LostInv'
  <2>1. \A g \in Fd : Owed(g)' = 0 /\ Owed(g) = 0
    BY <1>2, <1>3, <1>6 DEF Owed
  <2>2. \A g \in Fd : Count(g)' = Count(g)
    BY <1>7, <2>1 DEF Count
  <2>3. \A g \in fbm' : g \in Lost \/ g \in (Live \cup Pending)'
    BY <1>2, <1>6, <1>8 DEF Lost, Exact
  <2> QED BY <1>2, <1>3, <1>5, <1>8, <2>2, <2>3, CountFrame
<1>16. MarksInv'
  BY <1>1, <1>2, <1>3, <1>6, <1>8, <1>10 DEF SafeInv, MarksInv
<1>17. TornInv'
  BY <1>2 DEF SafeInv, TornInv, NoOp
<1> QED BY <1>7, <1>10, <1>11, <1>12, <1>13, <1>14, <1>15, <1>16, <1>17 DEF SafeInv

(* A step that writes no descriptor, no cells, and no list of a live file. *)
LEMMA ListFrame ==
  ASSUME SafeInv, UNCHANGED <<cells, table>>, \A f \in Live : List(f)' = List(f)
  PROVE  SameEntries /\ Dirs' = Dirs
<1>1. Dirs' = Dirs /\ Spots' = Spots
  BY DEF Dirs, Spots
<1>2. ASSUME NEW p \in Spots PROVE At(p)' = At(p)
  <2>1. List(p[1])' = List(p[1])
    BY LiveSound
  <2> QED BY <2>1 DEF At, CellAt, List
<1> QED BY <1>1, <1>2 DEF SameEntries

(* The block of the index is cleared in no file.                           *)
LEMMA ZeroIndexSafe ==
  ASSUME SafeInv, IInv', ZeroIndex, ~ Oops
  PROVE  SafeInv' /\ SameEntries
<1> DEFINE b == Datablock(op.ino)
<1>1. /\ op.pc = "zero" /\ torn' = torn /\ crashes' = crashes /\ op \in OpRec
      /\ UNCHANGED <<bbm, fbm, cells, table, fd>>
      /\ b \in Block /\ index' = [index EXCEPT ![b] = <<>>]
      /\ TypeOK /\ TypeOK'
  BY DEF ZeroIndex, Continue, SafeInv, IInv, TypeOK
<1>2. /\ op'.pc = "write_fd" /\ op'.ino = op.ino /\ op'.dir = op.dir /\ op'.name = op.name
      /\ op'.kind = op.kind
  BY <1>1, GotoKeeps DEF ZeroIndex
<1>3. /\ Hole = {} /\ Flight = {b} /\ Live = Base /\ Pending = {op.ino}
      /\ Hole' = {} /\ Flight' = {b} /\ Pending' = {op.ino}
      /\ ~ Appending' /\ ~ Removing' /\ ~ Filling' /\ ~ Writes'
      /\ ~ Appending /\ ~ Removing /\ Adding /\ NoBlock \notin Block
  BY <1>1, <1>2, SizesAssumption
     DEF Hole, Removing, Flight, Pending, Live, Appending, Filling, Writes, Datablock, Adding,
         Block, NoBlock
<1>4. \A g \in Live : Sound(g) /\ b \notin Owned(g)
  BY <1>3 DEF SafeInv, FilesInv, FlightInv
<1>5. \A g \in Live : List(g)' = List(g)
  <2>1. \A g \in Live : table[g].datablock # b /\ table[g].datablock \in Block
    BY <1>3, <1>4 DEF Owned, Sound
  <2> QED BY <1>1, <2>1 DEF List
<1>6. SameEntries /\ Dirs' = Dirs /\ Base \subseteq fbm
  BY <1>1, <1>5, ListFrame, LiveSound
<1>7. /\ Base' = Base /\ DirTree(table)' = DirTree(table)
      /\ \A g \in Fd : Bearers(g)' = Bearers(g)
      /\ CellsInv' /\ ReachInv' /\ NamesInv' /\ HoleInv'
  BY <1>1, <1>2, <1>3, <1>6, NamesFrame
<1>8. Live' = Live /\ Live \subseteq Fd
  BY <1>2, <1>3, <1>7, LiveSound DEF Live, SafeInv, IInv, TypeOK
<1>9. FilesInv' /\ \A g \in Live : Owned(g)' = Owned(g)
  BY <1>1, <1>4, <1>5, <1>6, <1>8, FilesFrame DEF Sound, SafeInv, FilesInv
<1>10. FlightInv'
  BY <1>1, <1>2, <1>3, <1>8, <1>9 DEF SafeInv, FlightInv
<1>11. PendingInv'
  BY <1>1, <1>2, <1>3, <1>7 DEF SafeInv, PendingInv, Datablock, TypeOK
<1>12. WriteInv' /\ AppendInv' /\ RemoveInv'
  BY <1>2, <1>3 DEF WriteInv, AppendInv, RemoveInv
<1>13. DirInv' /\ AbsentInv'
  BY <1>2, <1>3, <1>6, <1>7 DEF SafeInv, DirInv, AbsentInv, SameEntries
<1>14. CountInv' /\ LostInv'
  <2>1. \A g \in Fd : Owed(g)' = 0 /\ Owed(g) = 0
    BY <1>1, <1>2, <1>3 DEF Owed
  <2>2. \A g \in Fd : Count(g)' = Count(g)
    BY <1>7, <2>1 DEF Count
  <2>3. \A g \in fbm' : g \in Lost \/ g \in (Live \cup Pending)'
    BY <1>1, <1>3, <1>8 DEF Lost, Exact
  <2> QED BY <1>1, <1>2, <1>8, <2>2, <2>3, CountFrame
<1>15. MarksInv'
  BY <1>1, <1>2, <1>3, <1>8, <1>9 DEF SafeInv, MarksInv
<1>16. TornInv'
  BY <1>1 DEF SafeInv, TornInv, NoOp
<1> QED BY <1>6, <1>7, <1>9, <1>10, <1>11, <1>12, <1>13, <1>14, <1>15, <1>16 DEF SafeInv

(* A thread that dies leaves one more descriptor that may lead nowhere: it *)
(* never dies while it removes an entry.                                   *)
LEMMA OopsSafe ==
  ASSUME SafeInv, IInv', Oops, Continue, op.pc \notin {"idle", "oops", "inc"}, ~ Removing
  PROVE  SafeInv'
<1>1. /\ torn' = torn /\ crashes' = crashes /\ op \in OpRec
      /\ UNCHANGED <<bbm, fbm, index, cells, table, fd, inodes>>
      /\ TypeOK /\ TypeOK'
  BY DEF Oops, Continue, disk, SafeInv, IInv, TypeOK
<1>2. op'.pc = "oops" /\ op'.ino = op.ino /\ op'.dir = op.dir
  BY <1>1, GotoKeeps DEF Oops
<1>3. torn = {}
  BY DEF SafeInv, TornInv, NoOp
<1>4. SameEntries /\ Dirs' = Dirs /\ Base \subseteq fbm /\ Base \subseteq Live
      /\ Live \subseteq fbm /\ fbm \subseteq Fd
  BY <1>1, DiskFrame, LiveSound DEF TypeOK
<1>5. /\ Hole = {} /\ Hole' = {} /\ Flight' = {} /\ Pending' = {}
      /\ ~ Appending' /\ ~ Removing' /\ ~ Filling' /\ ~ Writes' /\ ~ Adding'
  BY <1>2
     DEF Hole, Removing, Flight, Pending, Appending, Filling, Writes, Adding
<1>6. /\ Base' = Base /\ DirTree(table)' = DirTree(table)
      /\ \A g \in Fd : Bearers(g)' = Bearers(g)
      /\ CellsInv' /\ ReachInv' /\ NamesInv' /\ HoleInv'
  BY <1>1, <1>4, <1>5, NamesFrame
<1>7. Live' = Base
  BY <1>2, <1>6 DEF Live
<1>8. \A g \in Live : Sound(g)
  BY DEF SafeInv, FilesInv
<1>9. FilesInv'
  BY <1>1, <1>4, <1>7, <1>8, DiskFrame, FilesFrame DEF Sound, SafeInv, FilesInv
<1>10. FlightInv' /\ PendingInv' /\ WriteInv' /\ AppendInv' /\ RemoveInv'
       /\ DirInv' /\ AbsentInv' /\ MarksInv'
  BY <1>2, <1>5 DEF FlightInv, PendingInv, WriteInv, AppendInv, RemoveInv, DirInv,
                    AbsentInv, MarksInv
<1>13. CountInv'
  <2> SUFFICES ASSUME NEW g \in Base \ {Root} PROVE Count(g)' <= table[g].links
    BY <1>1, <1>7 DEF CountInv
  <2>1. g \in Live \ {Root} /\ g \in Fd /\ Bearers(g)' = Bearers(g)
    BY <1>1, <1>4, <1>6
  <2>2. Count(g) <= table[g].links
    BY <1>3, <2>1 DEF SafeInv, CountInv
  <2>3. Cardinality(Bearers(g)) \in Nat /\ table[g].links \in Int
    BY <1>1, <2>1, CountsAre DEF CountsOK, TypeOK, FdRec
  <2>4. Owed(g) \in {0, 1} /\ Owed(g)' = 0
    BY <1>2, <1>5 DEF Owed
  <2> QED BY <2>1, <2>2, <2>3, <2>4 DEF Count
<1>11. LostInv'
  <2>1. ASSUME NEW g \in Lost' \ {op.ino} PROVE g \in Lost
    <3>1. g \in fbm /\ g \in Fd /\ g # op.ino
      BY <1>1, <1>4 DEF Lost
    <3>2. Owed(g) = 0 /\ Owed(g)' = 0 /\ table'[g] = table[g]
      BY <1>1, <1>2, <3>1 DEF Owed
    <3>3. Count(g)' = Count(g)
      BY <1>6, <3>1, <3>2 DEF Count
    <3>4. g \in Live => g \in Live'
      BY <1>7, <3>1 DEF Live
    <3>5. g \notin Pending
      BY <3>1 DEF Pending
    <3>6. Exact(g) => Exact(g)'
      BY <3>2, <3>3, <3>4, <3>5 DEF Exact
    <3> QED BY <3>1, <3>6 DEF Lost
  <2>2. IsFiniteSet(Lost)
    BY <1>1, LostFinite
  <2>3. /\ Cardinality(Lost' \ {op.ino}) <= Cardinality(Lost) /\ Cardinality(Lost) \in Nat
        /\ Cardinality(Lost' \ {op.ino}) \in Nat
    BY <2>1, <2>2, FS_Subset, FS_CardinalityType
  <2>4. Cardinality(Lost) <= crashes /\ crashes \in Nat
    BY <1>1 DEF SafeInv, LostInv, TypeOK
  <2> QED BY <1>1, <1>2, <2>3, <2>4 DEF LostInv
<1>12. TornInv'
  BY <1>1, <1>3 DEF TornInv
<1> QED BY <1>6, <1>9, <1>10, <1>11, <1>12, <1>13 DEF SafeInv

(* With its descriptor on the disk, the file lives and is owed its entry.  *)
LEMMA WriteFdSafe ==
  ASSUME SafeInv, IInv', WriteFd
  PROVE  SafeInv' /\ SameEntries
<1>0. PICK ino \in Fd, dir \in Fd, b \in Block \cup {NoBlock}, ret \in Returns :
        /\ ino = op.ino /\ dir = op.dir /\ b = Datablock(ino)
        /\ ret = IF op.kind = "symlink" THEN "target" ELSE "done"
  BY DEF SafeInv, IInv, TypeOK, OpRec, Datablock, FdRec, Returns
<1>1. /\ op.pc = "write_fd" /\ torn' = torn /\ crashes' = crashes /\ op \in OpRec
      /\ UNCHANGED <<bbm, fbm, index, cells, fd, inodes>>
      /\ table' = [table EXCEPT ![ino] = fd[ino]]
      /\ op' = Writing(op, dir, fd[dir].size, <<Entry>>, ret)
      /\ TypeOK /\ TypeOK' /\ ino \in Fd /\ fbm \subseteq Fd
  BY <1>0 DEF WriteFd, Continue, SafeInv, IInv, TypeOK, OpRec
<1>2. /\ op'.pc = "file_write" /\ op'.ino = ino /\ op'.dir = dir /\ op'.name = op.name
      /\ op'.wino = dir /\ op'.pos = fd[dir].size /\ op'.data = <<Entry>> /\ op'.ret = ret
      /\ Entry' = Entry /\ ret # "shrink" /\ ret # "inc"
  BY <1>0, <1>1 DEF Writing, OpRec, Entry
<1>3. table'[ino] = fd[ino] /\ \A g \in Fd \ {ino} : table'[g] = table[g]
  BY <1>1 DEF TypeOK
<1>4. /\ ino \in fbm /\ ino \notin Base /\ fd[ino].links = 1 /\ fd[ino].size = 0
      /\ op.kind = "symlink" => fd[ino].type # "FFS_DIR"
      /\ b \in Block /\ index[b] = <<>>
  BY <1>0, <1>1 DEF SafeInv, PendingInv, Pending
<1>5. /\ Hole = {} /\ Flight = {b} /\ Live = Base /\ Pending = {ino}
      /\ Hole' = {} /\ Flight' = {} /\ Pending' = {} /\ Live' = Base' \cup {ino}
      /\ ~ Removing' /\ Writes' /\ ~ Appending /\ ~ Removing /\ Adding
  <2>1. NoBlock \notin Block
    BY SizesAssumption DEF Block, NoBlock
  <2>2. ~ Removing' /\ Writes' /\ ~ Appending /\ ~ Removing /\ Adding
    BY <1>1, <1>2 DEF Removing, Writes, Appending, Adding
  <2>3. Hole = {} /\ Live = Base /\ Pending = {ino}
    BY <1>0, <1>1, <2>2 DEF Hole, Live, Pending
  <2>4. Hole' = {} /\ Pending' = {} /\ Live' = Base' \cup {ino} /\ Flight' = {}
    BY <1>2, <2>2 DEF Hole, Live, Pending, Flight
  <2>5. Flight = {b}
    BY <1>0, <1>1, <1>4, <2>1 DEF Flight
  <2> QED BY <2>2, <2>3, <2>4, <2>5
<1>6. /\ Base \subseteq fbm /\ SpotsOK /\ SpotsOK' /\ Root \in Base
      /\ \A p \in Spots : p[1] \in Base \ {ino} /\ At(p).fd # ino
  BY <1>1, <1>4, LiveSound, SpotsAreNext, SizesAssumption DEF Base, Root, Fd
<1>7. dir \in Base /\ dir \in Dirs /\ dir # ino /\ fd[dir] = table[dir] /\ dir \in Fd
      /\ dir \in DirTree(table)
  <2>1. dir \in DirTree(table) /\ DirTree(table) \subseteq Base \cap Dirs
    BY <1>0, <1>5, LiveSound DEF SafeInv, DirInv, PlacesOK
  <2> QED BY <1>1, <1>4, <1>5, <1>6, <2>1 DEF SafeInv, IInv, MemInv, Dirs
<1>8. \A g \in Base : g \in Dirs <=> (g \in Dirs)'
  BY <1>1, <1>3, <1>4, <1>6 DEF Dirs
<1>9. SameEntries
  <2>1. ASSUME NEW p \in Spots PROVE p \in Spots' /\ At(p)' = At(p)
    <3>1. p[1] \in Base /\ p[1] \in Fd \ {ino} /\ table'[p[1]] = table[p[1]]
      BY <1>1, <1>3, <1>6
    <3>2. p[1] \in Dirs' /\ p = <<p[1], p[2]>> /\ p[2] \in 0 .. table'[p[1]].size - 1
      BY <1>6, <1>8, <3>1 DEF SpotsOK
    <3>3. p \in Spots'
      BY <1>6, <3>2 DEF SpotsOK
    <3>4. At(p)' = At(p)
      BY <1>1, <3>1 DEF At, CellAt
    <3> QED BY <3>3, <3>4
  <2>2. ASSUME NEW p \in Spots' PROVE p \in Spots
    <3>1. p[1] \in Dirs' /\ p = <<p[1], p[2]>> /\ p[2] \in 0 .. table'[p[1]].size - 1
      BY <1>6 DEF SpotsOK
    <3>2. p[1] # ino
      BY <1>3, <1>4, <3>1
    <3>3. p[1] \in Dirs /\ table'[p[1]] = table[p[1]]
      BY <1>3, <3>1, <3>2 DEF Dirs
    <3> QED BY <1>6, <3>1, <3>3 DEF SpotsOK
  <2> QED BY <2>1, <2>2 DEF SameEntries
<1>10. /\ Base' = Base /\ DirTree(table)' = DirTree(table)
       /\ \A g \in Fd : Bearers(g)' = Bearers(g)
       /\ CellsInv' /\ ReachInv' /\ NamesInv' /\ HoleInv'
  BY <1>1, <1>5, <1>6, <1>8, <1>9, NamesFrame
<1>11. \A g \in Base : Sound(g) /\ g # ino /\ g \in Fd /\ b \notin Owned(g)
  BY <1>1, <1>4, <1>5, <1>6 DEF SafeInv, FilesInv, FlightInv
<1>12. ASSUME NEW g \in Base
       PROVE  /\ table'[g] = table[g] /\ List(g)' = List(g) /\ Owned(g)' = Owned(g)
              /\ \A i : Fits(g, i)' <=> Fits(g, i)
  <2>1. table'[g] = table[g]
    BY <1>3, <1>11
  <2>2. List(g)' = List(g)
    BY <1>1, <2>1 DEF List
  <2> QED BY <1>1, <2>1, <2>2 DEF List, Owned, Listed, Fits
<1>13. ASSUME NEW g \in Base PROVE Sound(g)'
  <2>1. Sound(g) /\ g \in Base
    BY <1>11
  <2>2. ListedOnce(g)'
    BY <1>12, <2>1 DEF Sound, ListedOnce
  <2> QED BY <1>1, <1>12, <2>1, <2>2 DEF Sound
<1>14. Owned(ino)' = {b} /\ List(ino)' = <<>> /\ table'[ino].datablock = b
  <2>1. List(ino)' = <<>> /\ table'[ino].datablock = b
    BY <1>0, <1>1, <1>3, <1>4 DEF List, Datablock
  <2>2. Listed(ino)' = {}
    BY <2>1 DEF Listed, List
  <2>3. b # NoBlock
    BY <1>4, SizesAssumption DEF Block, NoBlock
  <2> QED BY <2>1, <2>2, <2>3 DEF Owned
<1>15. Sound(ino)'
  <2>1. b \in bbm /\ b \notin 0 .. Service - 1
    BY <1>1, <1>5 DEF SafeInv, FlightInv
  <2>2. ListedOnce(ino)'
    BY <1>14 DEF ListedOnce
  <2> QED BY <1>1, <1>3, <1>4, <1>14, <2>1, <2>2 DEF Sound
<1>16. FilesInv'
  <2>1. ASSUME NEW f \in Live', NEW g \in Live', f # g PROVE Owned(f)' \cap Owned(g)' = {}
    <3>1. CASE f \in Base /\ g \in Base
      BY <1>5, <1>12, <2>1, <3>1 DEF SafeInv, FilesInv
    <3>2. CASE f = ino
      BY <1>5, <1>10, <1>11, <1>12, <1>14, <2>1, <3>2
    <3>3. CASE g = ino
      BY <1>5, <1>10, <1>11, <1>12, <1>14, <2>1, <3>3
    <3> QED BY <1>5, <1>10, <3>1, <3>2, <3>3
  <2>2. \A f \in Live' : Sound(f)'
    BY <1>5, <1>10, <1>13, <1>15
  <2>3. 0 .. Service - 1 \subseteq bbm' /\ (Root \in Dirs)'
    BY <1>1, <1>6, <1>8 DEF SafeInv, FilesInv
  <2> QED BY <2>1, <2>2, <2>3 DEF FilesInv
<1>17. FlightInv' /\ PendingInv' /\ RemoveInv'
  BY <1>2, <1>5 DEF FlightInv, PendingInv, RemoveInv
<1>18. /\ Appending' /\ ~ Filling' /\ Adding'
       /\ table'[dir] = table[dir] /\ dir \in Live'
  BY <1>2, <1>5, <1>7, <1>8, <1>10, <1>12 DEF Appending, Filling, Adding
<1>19. WriteInv'
  <2>1. \A i \in 0 .. table[dir].size - 1 : Fits(dir, i)'
    BY <1>7, <1>11, <1>12 DEF Sound
  <2> QED BY <1>2, <1>5, <1>7, <1>18, <2>1 DEF WriteInv
<1>20. DirInv' /\ AbsentInv'
  BY <1>0, <1>2, <1>5, <1>7, <1>9, <1>10 DEF SafeInv, DirInv, AbsentInv, SameEntries
<1>21. AppendInv'
  <2>1. op'.ret = "target" => table'[ino].type # "FFS_DIR"
    BY <1>0, <1>2, <1>3, <1>4
  <2> QED BY <1>2, <1>4, <1>6, <1>7, <1>18, <2>1 DEF AppendInv
<1>22. CountInv' /\ LostInv'
  <2>1. Count(ino)' = 1
    <3>1. Bearers(ino)' = {}
      BY <1>1, <1>6, <1>10 DEF Bearers, Firm
    <3>2. Owed(ino)' = 1
      BY <1>2, <1>18 DEF Owed
    <3> QED BY <3>1, <3>2, FS_EmptySet DEF Count
  <2>2. ASSUME NEW g \in Base PROVE Count(g)' = Count(g) /\ table'[g].links = table[g].links
    <3>1. Owed(g) = 0 /\ Owed(g)' = 0
      BY <1>0, <1>1, <1>2, <1>11, <2>2 DEF Owed
    <3> QED BY <1>10, <1>11, <1>12, <2>2, <3>1 DEF Count
  <2>3. ASSUME NEW g \in Base
        PROVE  Count(g)' - table'[g].links = Count(g) - table[g].links
    BY <2>2
  <2>4. ASSUME NEW g \in fbm' PROVE g \in Lost \/ g \in (Live \cup Pending)'
    BY <1>1, <1>5, <1>10 DEF Lost, Exact
  <2>5. op.pc # "oops" /\ op'.pc # "oops"
    BY <1>1, <1>2
  <2>6. table'[ino].links = 1
    BY <1>3, <1>4
  <2>7. \A g \in Live' \ {Root} :
           \/ Count(g)' = table'[g].links
           \/ g \in Live /\ Count(g)' - table'[g].links = Count(g) - table[g].links
    BY <1>5, <1>10, <2>1, <2>3, <2>6
  <2> QED BY <1>1, <2>4, <2>5, <2>7, CountFrame
<1>23. MarksInv'
  <2> SUFFICES ASSUME crashes = 0
               PROVE  bbm \subseteq (0 .. Service - 1) \cup UNION {Owned(f)' : f \in Live'}
    BY <1>1, <1>5 DEF MarksInv
  <2>1. bbm \subseteq (0 .. Service - 1) \cup {b} \cup UNION {Owned(f) : f \in Base}
    BY <1>1, <1>5 DEF SafeInv, MarksInv
  <2>2. {b} \subseteq UNION {Owned(f)' : f \in Live'}
    BY <1>5, <1>14
  <2>3. UNION {Owned(f) : f \in Base} \subseteq UNION {Owned(f)' : f \in Live'}
    BY <1>5, <1>10, <1>12
  <2> QED BY <2>1, <2>2, <2>3
<1>24. TornInv'
  BY <1>1 DEF SafeInv, TornInv, NoOp
<1> QED BY <1>9, <1>10, <1>16, <1>17, <1>19, <1>20, <1>21, <1>22, <1>23, <1>24 DEF SafeInv

-----------------------------------------------------------------------------
(* file_write                                                              *)

(* What file_write reads in memory is what the disk says, and what         *)
(* remove_from_dir writes over is there.                                   *)
LEMMA InWrite ==
  ASSUME SafeInv, Writes
  PROVE  /\ op.wino \in Live /\ op.wino \in Fd /\ op.wino \in fbm /\ Sound(op.wino)
         /\ fd[op.wino] = table[op.wino] /\ WIndex = List(op.wino)
         /\ Datablock(op.wino) = table[op.wino].datablock
         /\ Removing /\ op.data # <<>> => Fits(op.wino, op.pos)
         /\ torn = {} /\ Flight \subseteq {op.blk} /\ Pending = {}
<1>1. op.wino \in Live /\ Live \subseteq fbm /\ fbm \subseteq Fd /\ Sound(op.wino)
  BY LiveSound DEF SafeInv, WriteInv, FilesInv, IInv, TypeOK
<1>2. Pending = {} /\ op.pc # "oops" /\ Flight \subseteq {op.blk}
  BY DEF Writes, Pending, Flight
<1>3. fd[op.wino] = table[op.wino]
  BY <1>1, <1>2 DEF SafeInv, IInv, MemInv
<1>4. ASSUME Removing, op.data # <<>> PROVE Fits(op.wino, op.pos)
  <2>1. /\ op.wino = op.dir /\ op.pos + Len(op.data) = table[op.dir].size - 1
        /\ op.pos \in Nat /\ Len(op.data) \in Nat \ {0} /\ table[op.dir].size \in Nat
    BY <1>4 DEF SafeInv, RemoveInv, IInv, TypeOK, OpRec, FdRec
  <2>2. op.pos \in 0 .. table[op.wino].size - 1
    BY <2>1
  <2> QED BY <1>1, <2>2 DEF Sound
<1>5. torn = {}
  BY DEF SafeInv, TornInv, Writes, NoOp
<1> QED BY <1>1, <1>2, <1>3, <1>4, <1>5 DEF WIndex, List, Datablock

(* The block that is marked for data belongs to no file, and none is taken *)
(* while an entry is removed.                                              *)
LEMMA WriteAllocSafe ==
  ASSUME SafeInv, IInv', WriteAlloc
  PROVE  SafeInv'
<1>1. PICK b \in Block \cup {NoBlock} :
        /\ EmptyBit(bbm, NBlocks, b)
        /\ bbm' = bbm \cup ({b} \ {NoBlock})
        /\ op' = [op EXCEPT !.pc = "w_index", !.blk = b]
  BY DEF WriteAlloc
<1>2. /\ op.pc = "file_write" /\ op.data # <<>> /\ Full
      /\ torn' = torn /\ crashes' = crashes /\ op \in OpRec
      /\ UNCHANGED <<fbm, index, cells, table, fd, inodes>>
      /\ TypeOK /\ TypeOK' /\ op.pos \in Nat
  BY DEF WriteAlloc, Continue, SafeInv, IInv, TypeOK, OpRec
<1>3. /\ op'.pc = "w_index" /\ op'.blk = b /\ op'.kind = op.kind /\ op'.dir = op.dir
      /\ op'.name = op.name /\ op'.ino = op.ino /\ op'.wino = op.wino
      /\ op'.pos = op.pos /\ op'.data = op.data /\ op'.ret = op.ret
  BY <1>1, <1>2 DEF OpRec
<1>4. Writes /\ ~ Removing
  <2>1. Writes
    BY <1>2 DEF Writes
  <2>2. Len(WIndex) \in Nat /\ op.pos \div PerBlock \in Nat
    <3>1. WIndex \in Seq(Block \cup {NoBlock})
      BY <1>2, <2>1, InWrite DEF WIndex, TypeOK, Sound
    <3> QED BY <1>2, <3>1, DivMod
  <2>3. ~ (op.pos \div PerBlock + 1 \in 1 .. Len(WIndex))
    BY <1>2, <2>2 DEF Full, WBlock
  <2> QED BY <1>2, <2>1, <2>3, InWrite DEF Fits
<1>5. SameEntries /\ Dirs' = Dirs /\ Base \subseteq fbm
  BY <1>2, DiskFrame, LiveSound
<1>6. /\ Hole = {} /\ Flight = {} /\ Pending = {} /\ torn = {}
      /\ Hole' = {} /\ Flight' = {b} \ {NoBlock} /\ Pending' = {}
      /\ ~ Removing' /\ Writes' /\ Appending' = Appending /\ Filling' = Filling
      /\ Adding' = Adding
  <2>1. ~ Removing' /\ Writes' /\ Appending' = Appending /\ Filling' = Filling
    BY <1>2, <1>3, <1>4, <1>5 DEF Removing, Writes, Appending, Filling
  <2> QED BY <1>2, <1>3, <1>4, <2>1, InWrite DEF Hole, Flight, Pending, Adding
<1>7. /\ Base' = Base /\ DirTree(table)' = DirTree(table)
      /\ \A g \in Fd : Bearers(g)' = Bearers(g)
      /\ CellsInv' /\ ReachInv' /\ NamesInv' /\ HoleInv'
  BY <1>2, <1>3, <1>5, <1>6, NamesFrame
<1>8. Live' = Live /\ Live \subseteq Fd
  BY <1>2, <1>3, <1>7, LiveSound DEF Live, SafeInv, IInv, TypeOK
<1>9. \A g \in Live : Sound(g)
  BY DEF SafeInv, FilesInv
<1>10. FilesInv' /\ \A g \in Live : Owned(g)' = Owned(g)
  BY <1>1, <1>2, <1>5, <1>8, <1>9, DiskFrame, FilesFrame DEF Sound, SafeInv, FilesInv
<1>11. FlightInv'
  <2>1. b = NoBlock \/ b \notin bbm
    BY <1>1 DEF EmptyBit
  <2>2. Flight' \cap bbm = {} /\ Flight' \subseteq bbm'
    BY <1>1, <1>6, <2>1
  <2>3. 0 .. Service - 1 \subseteq bbm /\ \A g \in Live : Owned(g) \subseteq bbm
    BY <1>9 DEF Sound, SafeInv, FilesInv
  <2> QED BY <1>8, <1>10, <2>2, <2>3 DEF FlightInv
<1>12. PendingInv'
  BY <1>3, <1>6 DEF PendingInv
<1>13. WriteInv'
  <2>1. \A i \in 0 .. op.pos - 1 : Fits(op.wino, i)'
    BY <1>2, <1>3, <1>4, DiskFrame DEF SafeInv, WriteInv, Fits, List
  <2> QED BY <1>3, <1>4, <1>6, <1>7, <1>8, <2>1 DEF SafeInv, WriteInv
<1>14. AppendInv'
  <2> SUFFICES ASSUME Appending'
               PROVE  AppendInv'
    BY DEF AppendInv
  <2>1. /\ op.wino = op.dir /\ op.data = <<Entry>> /\ op.pos = table[op.dir].size
        /\ op.ino # Root
        /\ op.ret = "target" => table[op.ino].type # "FFS_DIR"
    BY <1>2, <1>6 DEF SafeInv, AppendInv
  <2>2. Entry' = Entry
    BY <1>3 DEF Entry
  <2> QED BY <1>2, <1>3, <2>1, <2>2 DEF AppendInv
<1>15. DirInv' /\ AbsentInv' /\ RemoveInv'
  BY <1>3, <1>4, <1>5, <1>6, <1>7 DEF SafeInv, DirInv, AbsentInv, RemoveInv, SameEntries
<1>16. CountInv' /\ LostInv'
  <2>1. \A g \in Fd : Owed(g)' = Owed(g)
    BY <1>2, <1>3, <1>4, <1>6 DEF Owed
  <2>2. \A g \in Fd : Count(g)' = Count(g)
    BY <1>7, <2>1 DEF Count
  <2>3. \A g \in fbm' : g \in Lost \/ g \in (Live \cup Pending)'
    BY <1>2, <1>6, <1>8 DEF Lost, Exact
  <2> QED BY <1>2, <1>3, <1>8, <2>2, <2>3, CountFrame
<1>17. MarksInv'
  BY <1>1, <1>2, <1>3, <1>6, <1>8, <1>10 DEF SafeInv, MarksInv
<1>18. TornInv'
  BY <1>2, <1>6 DEF TornInv
<1> QED BY <1>7, <1>10, <1>11, <1>12, <1>13, <1>14, <1>15, <1>16, <1>17, <1>18 DEF SafeInv

(* The block that was marked joins the list of the file that is written.   *)
LEMMA WriteIndexSafe ==
  ASSUME SafeInv, IInv', WriteIndex
  PROVE  SafeInv' /\ SameEntries /\ Dirs' = Dirs
<1>0. PICK w \in Fd, b \in Block \cup {NoBlock}, D \in Block :
        w = op.wino /\ b = op.blk /\ D = table[w].datablock
  <2>1. Writes
    BY DEF WriteIndex, Writes
  <2> QED BY <2>1, InWrite DEF SafeInv, IInv, TypeOK, OpRec, Sound
<1>1. /\ op.pc = "w_index" /\ torn' = torn /\ crashes' = crashes /\ op \in OpRec
      /\ UNCHANGED <<bbm, fbm, cells, table, fd, inodes>> /\ fbm \subseteq Fd
      /\ TypeOK /\ TypeOK' /\ NoBlock \notin Block /\ Writes
  <2>1. NoBlock \notin Block
    BY SizesAssumption DEF Block, NoBlock
  <2> QED BY <2>1 DEF WriteIndex, Continue, SafeInv, IInv, TypeOK, Writes
<1>2. index' = [index EXCEPT ![D] = Append(@, b)]
  BY <1>0, <1>1, InWrite DEF WriteIndex
<1>3. /\ op'.pc = "file_write" /\ op'.kind = op.kind /\ op'.dir = op.dir
      /\ op'.name = op.name /\ op'.ino = op.ino /\ op'.wino = w
      /\ op'.pos = op.pos /\ op'.data = op.data /\ op'.ret = op.ret
  BY <1>0, <1>1, GotoKeeps DEF WriteIndex
<1>4. \A g \in Live : /\ Sound(g) /\ g \in Fd /\ table[g].datablock \in Owned(g)
                      /\ b = NoBlock \/ b \notin Owned(g)
  <2>1. ASSUME NEW g \in Live PROVE Sound(g) /\ g \in Fd /\ Flight \cap Owned(g) = {}
    BY <1>1, LiveSound DEF SafeInv, FilesInv, FlightInv
  <2>2. Flight = {b} \ {NoBlock}
    BY <1>0, <1>1 DEF Flight
  <2> QED BY <1>1, <2>1, <2>2 DEF Sound, Owned
<1>5. w \in Live
  BY <1>0, <1>1, InWrite
<1>6. /\ \A g \in Live \ {w} : List(g)' = List(g)
      /\ List(w)' = Append(List(w), b) /\ List(w) \in Seq(Block \cup {NoBlock})
  <2>1. ASSUME NEW g \in Live \ {w} PROVE table[g].datablock # D
    BY <1>0, <1>4, <1>5 DEF SafeInv, FilesInv
  <2> QED BY <1>0, <1>1, <1>2, <2>1 DEF List, TypeOK
<1>7. /\ Len(List(w)') = Len(List(w)) + 1 /\ List(w)'[Len(List(w)) + 1] = b
      /\ \A i \in 1 .. Len(List(w)) : List(w)'[i] = List(w)[i]
      /\ Len(List(w)) \in Nat
  BY <1>6
<1>8. ASSUME NEW g \in Live, NEW i, Fits(g, i) PROVE Fits(g, i)'
  BY <1>6, <1>7, <1>8 DEF Fits
<1>9. SameEntries /\ Dirs' = Dirs /\ Base \subseteq fbm
  <2>1. Dirs' = Dirs /\ Spots' = Spots
    BY <1>1 DEF Dirs, Spots
  <2>2. ASSUME NEW p \in Spots PROVE At(p)' = At(p)
    <3>1. p[1] \in Live /\ Fits(p[1], p[2])
      BY LiveSound
    <3>2. List(p[1])'[p[2] \div PerBlock + 1] = List(p[1])[p[2] \div PerBlock + 1]
      BY <1>6, <1>7, <3>1 DEF Fits
    <3> QED BY <1>1, <3>2 DEF At, CellAt, List
  <2> QED BY <2>1, <2>2, LiveSound DEF SameEntries
<1>10. ~ Removing /\ ~ Removing' /\ Writes' /\ Appending' = Appending /\ Filling' = Filling
       /\ Adding' = Adding
  <2>1. ~ Removing
    BY <1>1 DEF SafeInv, WriteInv
  <2> QED BY <1>0, <1>1, <1>3, <1>9, <2>1 DEF Removing, Writes, Appending, Filling, Adding
<1>11. /\ Hole = {} /\ Flight = {b} \ {NoBlock} /\ Pending = {} /\ torn = {}
       /\ Hole' = {} /\ Flight' = {} /\ Pending' = {}
  BY <1>0, <1>1, <1>3, <1>10, InWrite DEF Hole, Flight, Pending
<1>12. /\ Base' = Base /\ DirTree(table)' = DirTree(table)
       /\ \A g \in Fd : Bearers(g)' = Bearers(g)
       /\ CellsInv' /\ ReachInv' /\ NamesInv' /\ HoleInv'
  BY <1>1, <1>3, <1>9, <1>11, NamesFrame
<1>13. Live' = Live
  BY <1>1, <1>3, <1>12 DEF Live
<1>14. ASSUME NEW g \in Live
       PROVE  Owned(g)' = Owned(g) \cup (IF g = w THEN {b} \ {NoBlock} ELSE {})
  <2>1. CASE g = w
    <3>1. Listed(g)' = Listed(g) \cup {b}
      <4>1. /\ Listed(w) = {List(w)[i] : i \in 1 .. Len(List(w))}
            /\ Listed(w)' = {List(w)'[i] : i \in 1 .. Len(List(w)')}
        BY DEF Listed, List
      <4> HIDE DEF List, Listed
      <4>2. ASSUME NEW x \in Listed(w)' PROVE x \in Listed(w) \cup {b}
        <5>1. PICK i \in 1 .. Len(List(w)) + 1 : x = List(w)'[i]
          BY <1>7, <4>1
        <5> QED BY <1>7, <4>1, <5>1
      <4>3. ASSUME NEW x \in Listed(w) PROVE x \in Listed(w)'
        BY <1>7, <4>1
      <4>4. b \in Listed(w)'
        BY <1>7, <4>1
      <4> QED BY <2>1, <4>2, <4>3, <4>4
    <3> QED BY <1>1, <2>1, <3>1 DEF Owned
  <2>2. CASE g # w
    BY <1>1, <1>6, <2>2 DEF Owned, Listed, List
  <2> QED BY <2>1, <2>2
<1>15. ASSUME NEW g \in Live PROVE Sound(g)'
  <2>1. Owned(g)' \subseteq bbm /\ Owned(g)' \cap (0 .. Service - 1) = {}
    BY <1>1, <1>4, <1>11, <1>14 DEF Sound, SafeInv, FlightInv
  <2>2. ListedOnce(g)'
    <3>1. CASE g = w
      <4>1. ListedOnce(w) /\ table[w].datablock \in Block
            /\ \A i \in 1 .. Len(List(w)) : List(w)[i] = NoBlock \/ List(w)[i] \in Owned(w)
        BY <1>4, <1>5 DEF Sound, Owned, Listed, List
      <4>2. b # table[w].datablock
        BY <1>1, <1>4, <1>5, <4>1
      <4>3. \A i \in 1 .. Len(List(w)) : List(w)[i] = b => b = NoBlock
        BY <1>4, <1>5, <4>1
      <4> DEFINE L == List(w)
                 M == List(w)'
      <4>4. ASSUME NEW i \in 1 .. Len(M), NEW j \in 1 .. Len(M)
            PROVE  M[i] # table[w].datablock /\ (M[i] = M[j] => i = j \/ M[i] = NoBlock)
        <5>1. CASE i \in 1 .. Len(L) /\ j \in 1 .. Len(L)
          BY <1>7, <4>1, <5>1 DEF ListedOnce
        <5>2. CASE i = Len(L) + 1 /\ j \in 1 .. Len(L)
          BY <1>7, <4>2, <4>3, <5>2
        <5>3. CASE i \in 1 .. Len(L) /\ j = Len(L) + 1
          BY <1>7, <4>1, <4>3, <5>3 DEF ListedOnce
        <5>4. CASE i = Len(L) + 1 /\ j = Len(L) + 1
          BY <1>7, <4>2, <5>4
        <5> HIDE DEF L, M
        <5>5. Len(M) = Len(L) + 1 /\ Len(L) \in Nat
          BY <1>7 DEF L, M
        <5> QED BY <5>1, <5>2, <5>3, <5>4, <5>5
      <4>5. ListedOnce(w)'
        BY <1>1, <4>4 DEF ListedOnce
      <4> QED BY <3>1, <4>5
    <3>2. CASE g # w
      BY <1>1, <1>4, <1>6, <3>2 DEF Sound, ListedOnce
    <3> QED BY <3>1, <3>2
  <2>3. \A i \in 0 .. table'[g].size - 1 : Fits(g, i)'
    BY <1>1, <1>4, <1>8 DEF Sound
  <2> QED BY <1>1, <1>4, <2>1, <2>2, <2>3 DEF Sound
<1>16. FilesInv'
  <2>1. ASSUME NEW f \in Live, NEW g \in Live, f # g PROVE Owned(f)' \cap Owned(g)' = {}
    <3>1. Owned(f) \cap Owned(g) = {}
      BY <2>1 DEF SafeInv, FilesInv
    <3> QED BY <1>4, <1>14, <2>1, <3>1
  <2> QED BY <1>1, <1>9, <1>13, <1>15, <2>1 DEF SafeInv, FilesInv
<1>17. FlightInv' /\ PendingInv' /\ RemoveInv'
  BY <1>3, <1>10, <1>11 DEF FlightInv, PendingInv, RemoveInv
<1>18. WriteInv'
  <2>1. \A i \in 0 .. op.pos - 1 : Fits(w, i)'
    BY <1>0, <1>1, <1>5, <1>8 DEF SafeInv, WriteInv
  <2> QED BY <1>3, <1>5, <1>10, <1>12, <1>13, <2>1 DEF SafeInv, WriteInv
<1>19. AppendInv'
  <2> SUFFICES ASSUME Appending'
               PROVE  AppendInv'
    BY DEF AppendInv
  <2>1. /\ w = op.dir /\ op.data = <<Entry>> /\ op.pos = table[op.dir].size
        /\ op.ino # Root
        /\ op.ret = "target" => table[op.ino].type # "FFS_DIR"
    BY <1>0, <1>1, <1>10 DEF SafeInv, AppendInv
  <2>2. Entry' = Entry
    BY <1>3 DEF Entry
  <2> QED BY <1>1, <1>3, <2>1, <2>2 DEF AppendInv
<1>20. DirInv' /\ AbsentInv'
  BY <1>3, <1>9, <1>10, <1>12 DEF SafeInv, DirInv, AbsentInv, SameEntries
<1>21. CountInv' /\ LostInv'
  <2>1. \A g \in Fd : Owed(g)' = Owed(g)
    BY <1>1, <1>3, <1>10 DEF Owed
  <2>2. \A g \in Fd : Count(g)' = Count(g)
    BY <1>12, <2>1 DEF Count
  <2>3. \A g \in fbm' : g \in Lost \/ g \in (Live \cup Pending)'
    BY <1>1, <1>11, <1>13 DEF Lost, Exact
  <2> QED BY <1>1, <1>3, <1>4, <1>13, <2>2, <2>3, CountFrame
<1>22. MarksInv'
  <2> SUFFICES ASSUME crashes = 0
               PROVE  bbm \subseteq (0 .. Service - 1) \cup UNION {Owned(f)' : f \in Live}
    BY <1>1, <1>11, <1>13 DEF MarksInv
  <2>1. bbm \subseteq (0 .. Service - 1) \cup ({b} \ {NoBlock}) \cup UNION {Owned(f) : f \in Live}
    BY <1>1, <1>11 DEF SafeInv, MarksInv
  <2>2. {b} \ {NoBlock} \subseteq UNION {Owned(f)' : f \in Live}
    BY <1>5, <1>14
  <2>3. UNION {Owned(f) : f \in Live} \subseteq UNION {Owned(f)' : f \in Live}
    BY <1>14
  <2> QED BY <2>1, <2>2, <2>3
<1>23. TornInv'
  BY <1>1, <1>11 DEF TornInv
<1> QED BY <1>9, <1>12, <1>16, <1>17, <1>18, <1>19, <1>20, <1>21, <1>22, <1>23 DEF SafeInv

-----------------------------------------------------------------------------
(* The cells a write reaches.                                              *)

(* A number is its block and its slot, and they are determined by it.      *)
LEMMA DivSplit ==
  ASSUME NEW a \in Nat
  PROVE  a = (a \div PerBlock) * PerBlock + (a % PerBlock)
BY SizesAssumption
LEMMA DivUnique ==
  ASSUME NEW a \in Nat, NEW q \in Nat, q * PerBlock <= a, a < (q + 1) * PerBlock
  PROVE  a \div PerBlock = q
<1> DEFINE e == a \div PerBlock
<1>1. /\ e \in Nat /\ PerBlock \in Nat
      /\ e * PerBlock <= a /\ a < (e + 1) * PerBlock
  BY DivMod, DivSplit, SizesAssumption DEF Slot
<1> HIDE DEF e
<1>2. ASSUME NEW x \in Nat, NEW y \in Nat, x + 1 <= y PROVE (x + 1) * PerBlock <= y * PerBlock
  <2>1. PICK k \in Nat : y = (x + 1) + k
    BY <1>2
  <2>2. y * PerBlock = (x + 1) * PerBlock + k * PerBlock
    BY <1>1, <2>1
  <2>3. k * PerBlock \in Nat /\ (x + 1) * PerBlock \in Nat
    BY <1>1
  <2> QED BY <2>2, <2>3
<1>3. CASE e + 1 <= q
  <2>1. (e + 1) * PerBlock <= q * PerBlock
    BY <1>1, <1>2, <1>3
  <2>2. (e + 1) * PerBlock \in Nat /\ q * PerBlock \in Nat
    BY <1>1
  <2> QED BY <1>1, <2>1, <2>2
<1>4. CASE q + 1 <= e
  <2>1. (q + 1) * PerBlock <= e * PerBlock
    BY <1>1, <1>2, <1>4
  <2>2. (q + 1) * PerBlock \in Nat /\ e * PerBlock \in Nat
    BY <1>1
  <2> QED BY <1>1, <2>1, <2>2
<1>5. e = q
  BY <1>1, <1>3, <1>4
<1> QED BY <1>5 DEF e

(* What one turn of file_write covers lies in one block of the file.       *)
LEMMA ChunkIs ==
  ASSUME SafeInv, op.pc = "file_write", op.data # <<>>, ~ Full, WIndex[WBlock + 1] \in Block
  PROVE  /\ Chunk \in 1 .. Len(op.data) /\ op.pos \in Nat /\ Len(op.data) \in Nat
         /\ \A i \in op.pos .. op.pos + Chunk - 1 :
              i \div PerBlock = WBlock /\ Fits(op.wino, i)
<1>1. /\ Chunk \in 1 .. Len(op.data) /\ op.pos \in Nat /\ op.data \in Seq(Cell) /\ TypeOK
      /\ Len(op.data) \in Nat
  BY ChunkType DEF SafeInv, IInv, TypeOK, OpRec
<1>2. Writes
  BY DEF Writes
<1>3. WBlock + 1 \in 1 .. Len(List(op.wino)) /\ WBlock \in Nat
  <2>1. WIndex = List(op.wino) /\ WIndex \in Seq(Block \cup {NoBlock})
    BY <1>1, <1>2, InWrite DEF Sound, WIndex, TypeOK
  <2>2. WBlock \in Nat /\ Len(WIndex) \in Nat
    <3>1. op.pos \div PerBlock \in Nat
      BY <1>1, DivMod
    <3>2. Len(WIndex) \in Nat
      BY <2>1
    <3> QED BY <3>1, <3>2 DEF WBlock
  <2> QED BY <2>1, <2>2 DEF Full
<1>4. /\ Chunk <= (WBlock + 1) * PerBlock - op.pos
      /\ WBlock * PerBlock <= op.pos
      /\ WBlock * PerBlock \in Nat /\ (WBlock + 1) * PerBlock \in Nat
  <2>1. op.pos = WBlock * PerBlock + (op.pos % PerBlock) /\ op.pos % PerBlock \in Nat
    <3>1. op.pos = (op.pos \div PerBlock) * PerBlock + (op.pos % PerBlock)
      BY <1>1, DivSplit
    <3>2. op.pos % PerBlock \in Slot
      BY <1>1, DivMod
    <3>3. \A s \in Slot : s \in Nat
      BY SizesAssumption DEF Slot
    <3> QED BY <3>1, <3>2, <3>3 DEF WBlock
  <2>2. PerBlock \in Nat
    BY SizesAssumption
  <2>3. WBlock * PerBlock \in Nat /\ (WBlock + 1) * PerBlock \in Nat
    BY <1>3, <2>2
  <2>4. Chunk <= (WBlock + 1) * PerBlock - op.pos
    BY <1>1, <2>3 DEF Chunk
  <2> QED BY <1>1, <2>1, <2>3, <2>4
<1>5. ASSUME NEW i \in op.pos .. op.pos + Chunk - 1
      PROVE  i \div PerBlock = WBlock /\ Fits(op.wino, i)
  <2>1. i \in Nat /\ WBlock * PerBlock <= i /\ i < (WBlock + 1) * PerBlock
    BY <1>1, <1>4
  <2>2. i \div PerBlock = WBlock
    BY <1>3, <2>1, DivUnique
  <2> QED BY <1>2, <1>3, <2>2, InWrite DEF Fits
<1> QED BY <1>1, <1>5

(* A write changes the cells it is told to, and no other of any file.      *)
LEMMA CellsWritten ==
  ASSUME SafeInv, WriteData, ~ Oops, NEW d \in Live, NEW i \in Nat, Fits(d, i)
  PROVE  CellAt(table, d, i)' = IF d = op.wino /\ i \in op.pos .. op.pos + Chunk - 1
                                THEN op.data[i - op.pos + 1] ELSE CellAt(table, d, i)
<1> DEFINE w == op.wino
           b == WIndex[WBlock + 1]
           e == List(d)[i \div PerBlock + 1]
           r == i % PerBlock
<1>1. /\ op.pc = "file_write" /\ op.data # <<>> /\ ~ Full /\ b \in Block /\ Writes
      /\ cells' = [cells EXCEPT ![b] =
             [s \in Slot |-> LET j == WBlock * PerBlock + s - op.pos + 1
                             IN  IF j \in 1 .. Chunk THEN op.data[j] ELSE @[s]]]
      /\ UNCHANGED <<index, table>>
      /\ cells \in [Block -> [Slot -> Cell]]
  BY DEF WriteData, Writes, SafeInv, IInv, TypeOK
<1>2. e \in Block /\ i \div PerBlock + 1 \in 1 .. Len(List(d)) /\ r \in Slot
      /\ i = (i \div PerBlock) * PerBlock + r
  BY DivMod, DivSplit DEF Fits
<1>3. CellAt(table, d, i) = cells[e][r] /\ CellAt(table, d, i)' = cells'[e][r]
  BY <1>1, <1>2 DEF CellAt, List
<1>4. /\ Chunk \in 1 .. Len(op.data) /\ op.pos \in Nat /\ Len(op.data) \in Nat
      /\ \A j \in op.pos .. op.pos + Chunk - 1 : j \div PerBlock = WBlock
      /\ w \in Live /\ b = List(w)[WBlock + 1] /\ WBlock + 1 \in 1 .. Len(List(w))
  <2>1. op.pos \in op.pos .. op.pos + Chunk - 1
    BY <1>1, ChunkIs
  <2>2. WBlock + 1 \in 1 .. Len(List(w))
    BY <1>1, <2>1, ChunkIs DEF Fits
  <2> QED BY <1>1, <2>2, ChunkIs, InWrite
<1>5. CASE d # w
  <2>1. e \in Owned(d) /\ b \in Owned(w)
    <3>1. NoBlock \notin Block
      BY SizesAssumption DEF NoBlock, Block
    <3> QED BY <1>1, <1>2, <1>4, <3>1 DEF Owned, Listed, List
  <2>2. e # b
    BY <1>4, <1>5, <2>1 DEF SafeInv, FilesInv
  <2> QED BY <1>1, <1>2, <1>3, <1>5, <2>2
<1>6. CASE d = w /\ i \div PerBlock # WBlock
  <2>1. e # b
    <3>1. ListedOnce(w)
      BY <1>4 DEF SafeInv, FilesInv, Sound
    <3>2. e = b => i \div PerBlock + 1 = WBlock + 1
      <4>1. b # NoBlock
        BY <1>1, SizesAssumption DEF NoBlock, Block
      <4> QED BY <1>2, <1>4, <1>6, <3>1, <4>1 DEF ListedOnce
    <3>3. i \div PerBlock \in Nat /\ WBlock \in Nat
      BY <1>4, DivMod DEF WBlock
    <3> QED BY <1>6, <3>2, <3>3
  <2>2. i \notin op.pos .. op.pos + Chunk - 1
    BY <1>4, <1>6
  <2> QED BY <1>1, <1>2, <1>3, <2>1, <2>2
<1>7. CASE d = w /\ i \div PerBlock = WBlock
  <2>1. e = b
    BY <1>4, <1>7
  <2> DEFINE j == WBlock * PerBlock + r - op.pos + 1
  <2>2. cells'[b][r] = IF j \in 1 .. Chunk THEN op.data[j] ELSE cells[b][r]
    BY <1>1, <1>2
  <2>3. j = i - op.pos + 1
    <3> DEFINE m == WBlock * PerBlock
    <3>1. i = m + r
      BY <1>2, <1>7
    <3>2. m \in Nat /\ r \in Nat
      <4>1. WBlock \in Nat /\ PerBlock \in Nat
        BY <1>7, DivMod, SizesAssumption
      <4> QED BY <1>2, <4>1 DEF Slot
    <3> HIDE DEF m, r
    <3>3. m + r - op.pos + 1 = i - op.pos + 1
      BY <1>4, <3>1, <3>2
    <3> QED BY <3>3 DEF m, r
  <2>4. j \in 1 .. Chunk <=> i \in op.pos .. op.pos + Chunk - 1
    BY <1>4, <2>3
  <2> QED BY <1>3, <1>7, <2>1, <2>2, <2>3, <2>4
<1> QED BY <1>5, <1>6, <1>7

(* While an entry is removed every other entry stays somewhere in its      *)
(* directory: paths lead where they led, but for the file that goes.       *)
LEMMA RemoveFrame ==
  ASSUME SafeInv, Removing, TypeOK', fbm' = fbm, Dirs' = Dirs,
         \A p \in Spots' : \E q \in Spots : q[1] = p[1] /\ At(q) = At(p)',
         \A q \in Firm : \E p \in Spots' : p[1] = q[1] /\ At(p)' = At(q)
  PROVE  /\ Base' \subseteq Base /\ Base \subseteq Base' \cup {op.ino}
         /\ CellsInv' /\ ReachInv' /\ op.dir \in DirTree(table)'
<1>1. /\ op.ino \in Fd /\ op.ino # Root /\ \A p \in Spots : p[1] # op.ino
      /\ HoleInv /\ Root \in Dirs /\ CellsInv /\ ReachInv
      /\ op.dir \in DirTree(table)
  BY DEF SafeInv, RemoveInv, FilesInv, IInv, TypeOK, OpRec, DirInv
<1>2. /\ SpotsOK /\ EdgesOK /\ Base \subseteq fbm /\ Hole = {<<op.dir, op.pos>>}
      /\ Hole \subseteq Spots
  BY LiveSound, HoleIn DEF Hole
<1>3. Base' \subseteq Base
  <2> SUFFICES ASSUME NEW f \in Base', f # Root PROVE f \in Base
    BY DEF Base
  <2>1. f \in Fd /\ \E p \in Spots' : f \in {p[1], At(p)'.fd}
    BY DEF Base
  <2>2. \E q \in Spots : f \in {q[1], At(q).fd}
    BY <2>1
  <2> QED BY <2>1, <2>2 DEF Base
<1>4. SpotsOK' /\ EdgesOK'
  BY <1>2, <1>3, SpotsAreNext, EdgesAreNext
<1>5. ASSUME NEW q \in Spots
      PROVE  \/ At(q).fd = op.ino
             \/ \E p \in Spots' : p[1] = q[1] /\ At(p)' = At(q)
  <2>1. CASE q \in Firm
    BY <2>1
  <2>2. CASE q \in Hole
    <3>1. q[1] = op.dir
      BY <1>2, <2>2
    <3> QED BY <1>1, <2>2, <3>1 DEF HoleInv
  <2> QED BY <2>1, <2>2 DEF Firm
<1>6. /\ Subdirs(table) \subseteq Fd \X Fd
      /\ Subdirs(table)' \subseteq Fd \X Fd
  BY DEF Subdirs, SafeInv, IInv, TypeOK
<1>7. ASSUME NEW d \in Fd, NEW f \in Fd, <<d, f>> \in Subdirs(table)
      PROVE  d \notin {op.ino} /\ (f \in {op.ino} \/ <<d, f>> \in Subdirs(table)')
  <2>1. PICK q \in Spots : q[1] = d /\ At(q).fd = f
    BY <1>2, <1>7 DEF EdgesOK
  <2>2. f \in Dirs
    BY <1>2, <1>7 DEF EdgesOK
  <2>3. f = op.ino \/ \E p \in Spots' : p[1] = d /\ At(p)'.fd = f
    BY <1>5, <2>1
  <2>4. (f \in Dirs /\ \E p \in Spots : p[1] = d /\ At(p).fd = f)' => <<d, f>> \in Subdirs(table)'
    BY <1>4 DEF EdgesOK
  <2> QED BY <1>1, <2>1, <2>2, <2>3, <2>4
<1>8. DirTree(table) \subseteq DirTree(table)' \cup {op.ino}
  <2> DEFINE old == Subdirs(table)
             new == Subdirs(table)'
  <2>1. old \in SUBSET (Fd \X Fd) /\ {op.ino} \in SUBSET Fd
    BY <1>1, <1>6
  <2>2. \A d, f \in Fd : <<d, f>> \in old =>
            d \notin {op.ino} /\ (f \in {op.ino} \/ <<d, f>> \in new)
    BY <1>7
  <2> HIDE DEF old, new
  <2>3. Tree(old) \subseteq Tree(new) \cup {op.ino}
    BY <2>1, <2>2, TreeKeeps
  <2> QED BY <2>3 DEF DirTree, Tree, old, new
<1>9. ReachInv'
  <2> SUFFICES ASSUME NEW p \in Spots' PROVE p[1] \in DirTree(table)'
    BY DEF ReachInv
  <2>1. PICK q \in Spots : q[1] = p[1]
    OBVIOUS
  <2>2. q[1] \in DirTree(table) /\ q[1] # op.ino
    BY <1>1 DEF ReachInv
  <2> QED BY <1>8, <2>1, <2>2
<1>10. CellsInv'
  <2> SUFFICES ASSUME NEW p \in Spots' PROVE At(p)'.fd \in Fd \ {Root}
    BY DEF CellsInv
  <2>1. PICK q \in Spots : At(q) = At(p)'
    OBVIOUS
  <2> QED BY <1>1, <2>1 DEF CellsInv
<1>11. op.dir \in DirTree(table)'
  <2>1. op.dir # op.ino
    BY <1>1, <1>2
  <2> QED BY <1>1, <1>8, <2>1
<1>12. DirTree(table)' \subseteq Base'
  BY <1>1, <1>2, <1>3, <1>9, PlacesAreNext DEF PlacesOK
<1>13. ASSUME NEW f \in Base PROVE f \in Base' \cup {op.ino}
  <2>1. CASE f = Root
    BY <2>1 DEF Base
  <2>2. CASE f # Root
    <3>1. PICK q \in Spots : f \in {q[1], At(q).fd}
      BY <2>2 DEF Base
    <3>2. f \in Fd
      BY <2>2 DEF Base
    <3>3. CASE f = At(q).fd
      <4>1. f = op.ino \/ \E p \in Spots' : At(p)'.fd = f
        BY <1>5, <3>3
      <4> QED BY <3>2, <4>1 DEF Base
    <3>4. CASE f = q[1]
      <4>1. f \in DirTree(table) /\ f # op.ino
        BY <1>1, <3>4 DEF ReachInv
      <4> QED BY <1>8, <1>12, <4>1
    <3> QED BY <3>1, <3>3, <3>4
  <2> QED BY <2>1, <2>2
<1> QED BY <1>3, <1>9, <1>10, <1>11, <1>13

(* Entries that only move keep their number.                               *)
LEMMA SameCount ==
  ASSUME TypeOK, NEW phi \in Bijection(Firm', Firm),
         \A p \in Firm' : At(phi[p]) = At(p)',
         NEW f \in Fd
  PROVE  Cardinality(Bearers(f)') = Cardinality(Bearers(f))
<1> DEFINE S == Bearers(f)
           T == Bearers(f)'
           g == [p \in T |-> phi[p]]
<1>1. /\ phi \in [Firm' -> Firm] /\ \A q \in Firm : \E p \in Firm' : phi[p] = q
      /\ \A p, q \in Firm' : phi[p] = phi[q] => p = q
  BY DEF Bijection, Injection, IsInjective, Surjection
<1>2. S = {p \in Firm : At(p).fd = f} /\ T = {p \in Firm' : At(p)'.fd = f}
  BY DEF Bearers
<1> HIDE DEF S, T
<1>3. g \in Bijection(T, S)
  <2>1. \A p \in T : phi[p] \in S
    BY <1>1, <1>2
  <2>2. \A q \in S : \E p \in T : phi[p] = q
    BY <1>1, <1>2
  <2>3. \A p, q \in T : phi[p] = phi[q] => p = q
    BY <1>1, <1>2
  <2> QED BY <2>1, <2>2, <2>3 DEF Bijection, Injection, IsInjective, Surjection
<1>4. IsFiniteSet(S)
  BY CountsAre DEF CountsOK, S
<1>5. IsFiniteSet(T)
  <2>1. T \subseteq T /\ g \in Injection(T, S)
    BY <1>3 DEF Bijection
  <2> QED BY <1>4, <2>1, FS_Injection
<1>6. Cardinality(S) = Cardinality(T)
  <2>1. ExistsBijection(T, S)
    BY <1>3 DEF ExistsBijection
  <2> QED BY <1>5, <2>1, FS_Bijection
<1> QED BY <1>6 DEF S, T

(* A turn of file_write fills a file, or puts an entry beyond the end of a *)
(* directory: no entry changes.                                            *)
LEMMA WriteDataSafe ==
  ASSUME SafeInv, IInv', WriteData, ~ Oops, ~ Removing
  PROVE  SafeInv' /\ SameEntries /\ Dirs' = Dirs
<1>0. PICK w \in Fd, c \in Nat : w = op.wino /\ c = Chunk
  BY ChunkType DEF WriteData, SafeInv, IInv, TypeOK, OpRec
<1>1. /\ op.pc = "file_write" /\ op.data # <<>> /\ ~ Full /\ WIndex[WBlock + 1] \in Block
      /\ torn' = torn /\ crashes' = crashes /\ op \in OpRec
      /\ UNCHANGED <<bbm, fbm, index, table, fd, inodes>>
      /\ TypeOK /\ TypeOK' /\ Writes /\ fbm \subseteq Fd
      /\ op' = [op EXCEPT !.pos = @ + Chunk, !.data = SubSeq(@, Chunk + 1, Len(@))]
  BY DEF WriteData, Continue, SafeInv, IInv, TypeOK, Writes
<1>2. /\ op'.pc = "file_write" /\ op'.kind = op.kind /\ op'.dir = op.dir
      /\ op'.name = op.name /\ op'.ino = op.ino /\ op'.wino = w
      /\ op'.pos = op.pos + c /\ op'.data = SubSeq(op.data, c + 1, Len(op.data))
      /\ op'.ret = op.ret
  BY <1>0, <1>1 DEF OpRec
<1>3. /\ c \in 1 .. Len(op.data) /\ op.pos \in Nat /\ Len(op.data) \in Nat
      /\ \A i \in op.pos .. op.pos + c - 1 : Fits(w, i)
      /\ w \in Live
  BY <1>0, <1>1, ChunkIs, InWrite
<1>4. Appending => /\ w = op.dir /\ op.data = <<Entry>> /\ op.pos = table[w].size
                   /\ op.ino # Root
                   /\ op.ret = "target" => table[op.ino].type # "FFS_DIR"
  BY <1>0, <1>1 DEF SafeInv, AppendInv
<1>5. SameEntries /\ Dirs' = Dirs /\ Base \subseteq fbm
  <2>1. Dirs' = Dirs /\ Spots' = Spots
    BY <1>1 DEF Dirs, Spots
  <2>2. ASSUME NEW p \in Spots PROVE At(p)' = At(p)
    <3>1. /\ p[1] \in Live /\ Fits(p[1], p[2]) /\ p[1] \in Dirs
          /\ p[2] \in 0 .. table[p[1]].size - 1
      BY LiveSound DEF SpotsOK
    <3>2. ~ (p[1] = w /\ p[2] \in op.pos .. op.pos + c - 1)
      <4>1. CASE Appending
        <5>1. table[w].size \in Nat
          BY <1>1 DEF TypeOK, FdRec
        <5> QED BY <1>3, <1>4, <3>1, <4>1, <5>1
      <4>2. CASE ~ Appending
        BY <1>0, <1>1, <3>1, <4>2 DEF Appending, Removing
      <4> QED BY <4>1, <4>2
    <3>3. p[2] \in Nat
      BY <1>1, <3>1 DEF Dirs, TypeOK, FdRec
    <3>4. CellAt(table, p[1], p[2])' = CellAt(table, p[1], p[2])
      BY <1>0, <3>1, <3>2, <3>3, CellsWritten
    <3> QED BY <3>4 DEF At
  <2> QED BY <2>1, <2>2, LiveSound DEF SameEntries
<1>6. /\ ~ Removing' /\ Writes' /\ Appending' = Appending /\ Filling' = Filling
      /\ Adding' = Adding
  BY <1>0, <1>1, <1>2, <1>5 DEF Removing, Writes, Appending, Filling, Adding
<1>7. /\ Hole = {} /\ Flight = {} /\ Pending = {} /\ torn = {}
      /\ Hole' = {} /\ Flight' = {} /\ Pending' = {}
  BY <1>1, <1>2, <1>6, InWrite DEF Hole, Flight, Pending
<1>8. /\ Base' = Base /\ DirTree(table)' = DirTree(table)
      /\ \A g \in Fd : Bearers(g)' = Bearers(g)
      /\ CellsInv' /\ ReachInv' /\ NamesInv' /\ HoleInv'
  BY <1>1, <1>2, <1>5, <1>7, NamesFrame
<1>9. Live' = Live /\ Live \subseteq Fd
  BY <1>1, <1>2, <1>8, LiveSound DEF Live
<1>10. \A g \in Live : Sound(g) /\ List(g)' = List(g)
  BY <1>1 DEF SafeInv, FilesInv, List
<1>11. FilesInv' /\ \A g \in Live : Owned(g)' = Owned(g)
  BY <1>1, <1>5, <1>9, <1>10, FilesFrame DEF Sound, SafeInv, FilesInv
<1>12. FlightInv' /\ PendingInv' /\ RemoveInv'
  BY <1>2, <1>6, <1>7 DEF FlightInv, PendingInv, RemoveInv
<1>13. WriteInv'
  <2>1. \A i \in 0 .. op.pos - 1 : Fits(w, i)
    BY <1>0, <1>1 DEF SafeInv, WriteInv
  <2>2. \A i \in 0 .. op.pos + c - 1 : Fits(w, i)
    <3>1. ASSUME NEW i \in 0 .. op.pos + c - 1
          PROVE  i \in 0 .. op.pos - 1 \/ i \in op.pos .. op.pos + c - 1
      BY <1>3
    <3> QED BY <1>3, <2>1, <3>1
  <2>3. \A i \in 0 .. op.pos + c - 1 : Fits(w, i)'
    BY <1>1, <2>2 DEF Fits, List
  <2> QED BY <1>1, <1>2, <1>3, <1>6, <1>8, <1>9, <2>3 DEF SafeInv, WriteInv
<1>14. AppendInv'
  <2> SUFFICES ASSUME Appending'
               PROVE  AppendInv'
    BY DEF AppendInv
  <2>1. /\ w = op.dir /\ op.data = <<Entry>> /\ op.pos = table[w].size
        /\ op.ino # Root
        /\ op.ret = "target" => table[op.ino].type # "FFS_DIR"
    BY <1>4, <1>6
  <2>2. c = 1 /\ Len(op.data) = 1
    BY <1>3, <2>1
  <2>3. op'.data = <<>> /\ op'.pos = table[w].size + 1
    BY <1>2, <2>1, <2>2
  <2> PICK s \in Nat : s = op.pos
    BY <1>3
  <2>4. CellAt(table, w, s)' = Entry
    <3>1. s \in op.pos .. op.pos + c - 1 /\ Fits(w, s) /\ s - op.pos + 1 = 1
      BY <1>3, <2>2
    <3>2. CellAt(table, w, s)' = op.data[s - op.pos + 1]
      BY <1>0, <1>3, <3>1, CellsWritten
    <3> QED BY <2>1, <3>1, <3>2
  <2>5. Entry' = Entry
    BY <1>2 DEF Entry
  <2>6. CellAt(table, op.dir, table[op.dir].size)' = Entry'
    <3>1. op'.dir = w /\ table'[w].size = s
      BY <1>1, <1>2, <2>1
    <3> QED BY <2>4, <2>5, <3>1
  <2> QED BY <1>1, <1>2, <2>1, <2>3, <2>6 DEF AppendInv
<1>15. DirInv' /\ AbsentInv'
  BY <1>2, <1>5, <1>6, <1>8 DEF SafeInv, DirInv, AbsentInv, SameEntries
<1>16. CountInv' /\ LostInv'
  <2>1. \A g \in Fd : Owed(g)' = Owed(g)
    BY <1>1, <1>2, <1>6 DEF Owed
  <2>2. \A g \in Fd : Count(g)' = Count(g)
    BY <1>8, <2>1 DEF Count
  <2>3. \A g \in fbm' : g \in Lost \/ g \in (Live \cup Pending)'
    BY <1>1, <1>7, <1>9 DEF Lost, Exact
  <2> QED BY <1>1, <1>2, <1>9, <2>2, <2>3, CountFrame
<1>17. MarksInv'
  BY <1>1, <1>2, <1>7, <1>9, <1>11 DEF SafeInv, MarksInv
<1>18. TornInv'
  BY <1>1, <1>7 DEF TornInv
<1> QED BY <1>5, <1>8, <1>11, <1>12, <1>13, <1>14, <1>15, <1>16, <1>17, <1>18 DEF SafeInv

(* A turn of file_write moves entries of a directory down by one: each     *)
(* still stands once beside the hole, which moves on to the last of them.  *)
LEMMA MoveDataSafe ==
  ASSUME SafeInv, IInv', WriteData, ~ Oops, Removing
  PROVE  /\ SafeInv'
         /\ \A p \in Spots' : \E q \in Firm : q[1] = p[1] /\ At(q) = At(p)'
         /\ \A q \in Firm : \E p \in Firm' : p[1] = q[1] /\ At(p)' = At(q)
<1>0. PICK w \in Fd, c \in Nat, s \in Nat, n \in Nat :
        w = op.wino /\ c = Chunk /\ s = op.pos /\ n = Len(op.data)
  <2>1. op.wino \in Fd /\ op.pos \in Nat /\ op.data \in Seq(Cell) /\ TypeOK /\ op.data # <<>>
    BY DEF WriteData, Oops, SafeInv, IInv, TypeOK, OpRec
  <2>2. Chunk \in 1 .. Len(op.data) /\ Len(op.data) \in Nat
    BY <2>1, ChunkType
  <2>3. Chunk \in Nat
    BY <2>2
  <2> HIDE DEF Chunk
  <2> QED BY <2>1, <2>2, <2>3
<1>1. /\ op.pc = "file_write" /\ op.data # <<>> /\ ~ Full /\ WIndex[WBlock + 1] \in Block
      /\ torn' = torn /\ crashes' = crashes /\ op \in OpRec
      /\ UNCHANGED <<bbm, fbm, index, table, fd, inodes>>
      /\ TypeOK /\ TypeOK' /\ Writes /\ fbm \subseteq Fd
      /\ op' = [op EXCEPT !.pos = @ + Chunk, !.data = SubSeq(@, Chunk + 1, Len(@))]
      /\ op.data \in Seq(Cell)
  BY DEF WriteData, Continue, SafeInv, IInv, TypeOK, OpRec, Writes
<1>2. /\ op'.pc = "file_write" /\ op'.kind = op.kind /\ op'.dir = op.dir
      /\ op'.name = op.name /\ op'.ino = op.ino /\ op'.wino = w
      /\ op'.pos = s + c /\ op'.data = SubSeq(op.data, c + 1, n)
      /\ op'.ret = op.ret
  BY <1>0, <1>1 DEF OpRec
<1>3. /\ c \in 1 .. n /\ \A i \in s .. s + c - 1 : Fits(w, i)
      /\ w \in Live /\ Sound(w)
  BY <1>0, <1>1, ChunkIs, InWrite
<1>4. /\ w = op.dir /\ w \in Dirs /\ s + n = table[w].size - 1 /\ table[w].size \in Nat
      /\ \A k \in 1 .. n : op.data[k] = CellAt(table, w, s + k)
      /\ op.ino # Root /\ \A p \in Spots : p[1] # op.ino
  BY <1>0, <1>1 DEF SafeInv, RemoveInv, TypeOK, FdRec
<1>5. Dirs' = Dirs /\ Spots' = Spots /\ SpotsOK /\ Base \subseteq fbm
  BY <1>1, LiveSound DEF Dirs, Spots
<1>6. /\ Removing' /\ Writes' /\ ~ Appending /\ ~ Appending' /\ ~ Filling' /\ ~ Adding'
  BY <1>1, <1>2 DEF Removing, Writes, Appending, Filling, Adding
<1>7. /\ Hole = {<<w, s>>} /\ Hole' = {<<w, s + c>>} /\ Flight = {} /\ Flight' = {}
      /\ Pending = {} /\ Pending' = {} /\ torn = {}
  BY <1>0, <1>1, <1>2, <1>4, <1>6, InWrite DEF Hole, Flight, Pending
<1> DEFINE In(p) == p[1] = w /\ p[2] \in s .. s + c - 1
           up(p) == IF In(p) THEN <<w, p[2] + 1>> ELSE p
<1>8. ASSUME NEW p \in Spots
      PROVE  up(p) \in Spots /\ up(p)[1] = p[1] /\ At(up(p)) = At(p)'
  <2>1. /\ p[1] \in Live /\ Fits(p[1], p[2]) /\ p[1] \in Dirs /\ p = <<p[1], p[2]>>
        /\ p[2] \in 0 .. table[p[1]].size - 1 /\ p[2] \in Nat
    BY <1>1, LiveSound DEF SpotsOK, Dirs, TypeOK, FdRec
  <2>2. CellAt(table, p[1], p[2])' =
          IF In(p) THEN op.data[p[2] - s + 1] ELSE CellAt(table, p[1], p[2])
    BY <1>0, <2>1, CellsWritten
  <2>3. CASE In(p)
    <3>1. p[2] - s + 1 \in 1 .. n /\ s + (p[2] - s + 1) = p[2] + 1
          /\ p[2] + 1 \in 0 .. table[w].size - 1
      BY <1>3, <1>4, <2>1, <2>3
    <3>2. CellAt(table, p[1], p[2])' = CellAt(table, w, p[2] + 1)
      BY <1>4, <2>2, <2>3, <3>1
    <3>3. <<w, p[2] + 1>> \in Spots
      BY <1>4, <1>5, <3>1 DEF SpotsOK
    <3> QED BY <2>3, <3>2, <3>3 DEF At
  <2>4. CASE ~ In(p)
    BY <2>2, <2>4 DEF At
  <2> QED BY <2>3, <2>4
<1>9. Firm = Spots \ {<<w, s>>} /\ Firm' = Spots \ {<<w, s + c>>}
  BY <1>5, <1>7 DEF Firm
<1>10. ASSUME NEW q \in Firm PROVE \E p \in Firm' : up(p) = q
  <2>1. /\ q \in Spots /\ q = <<q[1], q[2]>> /\ q[2] \in Nat /\ q # <<w, s>>
        /\ q[2] \in 0 .. table[q[1]].size - 1
    BY <1>1, <1>5, <1>9 DEF SpotsOK, Dirs, TypeOK, FdRec
  <2>2. CASE q[1] = w /\ q[2] \in s + 1 .. s + c
    <3> DEFINE p == <<w, q[2] - 1>>
    <3>1. q[2] - 1 \in s .. s + c - 1 /\ q[2] - 1 \in 0 .. table[w].size - 1 /\ q[2] - 1 # s + c
          /\ q[2] - 1 + 1 = q[2]
      BY <1>4, <2>1, <2>2
    <3>2. p \in Spots /\ p # <<w, s + c>>
      BY <1>4, <1>5, <3>1 DEF SpotsOK
    <3>3. up(p) = q
      BY <2>1, <2>2, <3>1
    <3> QED BY <1>9, <3>2, <3>3
  <2>3. CASE ~ (q[1] = w /\ q[2] \in s + 1 .. s + c)
    <3>1. ~ In(q) /\ q # <<w, s + c>>
      BY <1>3, <2>1, <2>3
    <3> QED BY <1>9, <2>1, <3>1
  <2> QED BY <2>2, <2>3
<1>11. ASSUME NEW p \in Firm' PROVE up(p) \in Firm
  <2>1. p \in Spots /\ p # <<w, s + c>> /\ p = <<p[1], p[2]>> /\ p[2] \in Nat
    BY <1>1, <1>5, <1>9 DEF SpotsOK, Dirs, TypeOK, FdRec
  <2>2. up(p) # <<w, s>>
    BY <1>3, <2>1
  <2> QED BY <1>8, <1>9, <2>1, <2>2
<1>12. ASSUME NEW p \in Firm', NEW q \in Firm', up(p) = up(q) PROVE p = q
  <2>1. /\ p \in Spots /\ p # <<w, s + c>> /\ p = <<p[1], p[2]>> /\ p[2] \in Nat
        /\ q \in Spots /\ q # <<w, s + c>> /\ q = <<q[1], q[2]>> /\ q[2] \in Nat
    BY <1>1, <1>5, <1>9 DEF SpotsOK, Dirs, TypeOK, FdRec
  <2>2. CASE In(p) /\ In(q)
    <3>1. p[2] + 1 = q[2] + 1 /\ p[1] = q[1]
      BY <1>12, <2>2
    <3> QED BY <2>1, <3>1
  <2>3. CASE ~ In(p) /\ ~ In(q)
    BY <1>12, <2>3
  <2>4. CASE In(p) /\ ~ In(q)
    <3>1. q[1] = w /\ q[2] = p[2] + 1
      BY <1>12, <2>4
    <3>2. q[2] = s + c
      BY <1>3, <2>1, <2>4, <3>1
    <3> QED BY <2>1, <3>1, <3>2
  <2>5. CASE ~ In(p) /\ In(q)
    <3>1. p[1] = w /\ p[2] = q[2] + 1
      BY <1>12, <2>5
    <3>2. p[2] = s + c
      BY <1>3, <2>1, <2>5, <3>1
    <3> QED BY <2>1, <3>1, <3>2
  <2> QED BY <2>2, <2>3, <2>4, <2>5
<1>13. <<w, s + c - 1>> \in Firm' /\ up(<<w, s + c - 1>>) = <<w, s + c>>
       /\ <<w, s + c>> \in Spots /\ up(<<w, s + c>>) = <<w, s + c>>
  <2>1. /\ s + c - 1 \in s .. s + c - 1 /\ s + c \in 0 .. table[w].size - 1
        /\ s + c - 1 \in 0 .. table[w].size - 1 /\ s + c - 1 + 1 = s + c
        /\ s + c - 1 # s + c /\ s + c \notin s .. s + c - 1
    BY <1>3, <1>4
  <2> QED BY <1>4, <1>5, <1>9, <2>1 DEF SpotsOK
<1> HIDE DEF up, In
<1>14. /\ Base' \subseteq Base /\ Base \subseteq Base' \cup {op.ino}
       /\ CellsInv' /\ ReachInv' /\ op.dir \in DirTree(table)'
  <2>1. \A p \in Spots' : \E q \in Spots : q[1] = p[1] /\ At(q) = At(p)'
    BY <1>5, <1>8
  <2>2. ASSUME NEW q \in Firm PROVE \E p \in Spots' : p[1] = q[1] /\ At(p)' = At(q)
    <3>1. PICK p \in Firm' : up(p) = q
      BY <1>10
    <3> QED BY <1>5, <1>8, <1>9, <3>1
  <2>3. fbm' = fbm /\ Dirs' = Dirs /\ TypeOK'
    BY <1>1, <1>5
  <2> QED BY <2>1, <2>2, <2>3, RemoveFrame
<1>15. NamesInv'
  <2>1. ASSUME NEW p \in Spots, NEW q \in Spots, p[1] = q[1], At(p)'.name = At(q)'.name
        PROVE  At(p)' = At(q)'
    BY <1>8, <2>1 DEF SafeInv, NamesInv
  <2>2. ASSUME NEW p \in Firm', NEW q \in Firm', p[1] = q[1], At(p)'.name = At(q)'.name
        PROVE  p = q
    <3>1. p \in Spots /\ q \in Spots
      BY <1>9
    <3>2. up(p) \in Firm /\ up(q) \in Firm
      BY <1>11
    <3>3. up(p) = up(q)
      BY <1>7, <1>8, <2>2, <3>1, <3>2 DEF SafeInv, NamesInv
    <3> QED BY <1>12, <3>3
  <2> QED BY <1>5, <2>1, <2>2 DEF NamesInv
<1>16. HoleInv'
  <2>1. At(<<w, s + c - 1>>)' = At(<<w, s + c>>) /\ At(<<w, s + c>>)' = At(<<w, s + c>>)
    BY <1>8, <1>9, <1>13
  <2>2. op'.dir = w /\ <<w, s + c - 1>>[1] = w
    BY <1>2, <1>4
  <2> QED BY <1>7, <1>13, <2>1, <2>2 DEF HoleInv
<1>17. Live' = Live /\ Live \subseteq Fd
  BY <1>1, <1>2, <1>14, LiveSound DEF Live
<1>18. \A g \in Live : Sound(g) /\ List(g)' = List(g)
  BY <1>1 DEF SafeInv, FilesInv, List
<1>19. FilesInv' /\ \A g \in Live : Owned(g)' = Owned(g)
  BY <1>1, <1>5, <1>17, <1>18, FilesFrame DEF Sound, SafeInv, FilesInv
<1>20. FlightInv' /\ PendingInv' /\ AppendInv' /\ AbsentInv' /\ DirInv'
  BY <1>2, <1>6, <1>7, <1>14 DEF FlightInv, PendingInv, AppendInv, AbsentInv, DirInv
<1>21. WriteInv'
  <2>1. \A i \in 0 .. s - 1 : Fits(w, i)
    BY <1>0, <1>1 DEF SafeInv, WriteInv
  <2>2. \A i \in 0 .. s + c - 1 : Fits(w, i)
    <3>1. ASSUME NEW i \in 0 .. s + c - 1
          PROVE  i \in 0 .. s - 1 \/ i \in s .. s + c - 1
      BY <1>3
    <3> QED BY <1>3, <2>1, <3>1
  <2>3. \A i \in 0 .. s + c - 1 : Fits(w, i)'
    BY <1>1, <2>2 DEF Fits, List
  <2> QED BY <1>2, <1>3, <1>6, <1>17, <2>3 DEF WriteInv
<1>22. RemoveInv'
  <2>1. Len(op'.data) = n - c /\ \A k \in 1 .. n - c : op'.data[k] = op.data[c + k]
    <3>1. op.data \in Seq(Cell) /\ n = Len(op.data) /\ c \in 1 .. n
      BY <1>0, <1>1, <1>3
    <3> QED BY <1>2, <3>1
  <2>2. s + c + Len(op'.data) = table[w].size - 1
    BY <1>3, <1>4, <2>1
  <2>3. ASSUME NEW k \in 1 .. n - c
        PROVE  op'.data[k] = CellAt(table, w, s + c + k)'
    <3>1. op'.data[k] = CellAt(table, w, s + c + k)
      <4>1. c + k \in 1 .. n /\ s + (c + k) = s + c + k
        BY <1>3
      <4> QED BY <1>4, <2>1, <4>1
    <3>2. <<w, s + c + k>> \in Spots /\ ~ In(<<w, s + c + k>>)
      <4>1. s + c + k \in 0 .. table[w].size - 1 /\ s + c + k \notin s .. s + c - 1
        BY <1>3, <1>4
      <4> QED BY <1>4, <1>5, <4>1 DEF SpotsOK, In
    <3>3. At(<<w, s + c + k>>)' = At(<<w, s + c + k>>)
      BY <1>8, <3>2 DEF up
    <3> QED BY <3>1, <3>3 DEF At
  <2>4. \A k \in 1 .. Len(op'.data) : op'.data[k] = CellAt(table, op.dir, op.pos + k)'
    <3>1. op'.dir = w /\ op'.pos = s + c
      BY <1>2, <1>4
    <3> QED BY <2>1, <2>3, <3>1
  <2>5. op'.wino = w /\ op'.dir = w /\ w \in Dirs' /\ op'.ino = op.ino
        /\ op'.pos + Len(op'.data) = table'[w].size - 1 /\ op'.pc = "file_write"
    BY <1>1, <1>2, <1>4, <1>5, <2>2
  <2> QED BY <1>4, <1>5, <1>6, <2>4, <2>5 DEF RemoveInv
<1>23. CountInv' /\ LostInv'
  <2>1. \A g \in Fd : Owed(g)' = Owed(g)
    BY <1>1, <1>2, <1>6 DEF Owed
  <2>2. ASSUME NEW g \in Fd PROVE Cardinality(Bearers(g)') = Cardinality(Bearers(g))
    <3> DEFINE phi == [p \in Firm' |-> up(p)]
    <3>1. phi \in Bijection(Firm', Firm)
      BY <1>10, <1>11, <1>12 DEF Bijection, Injection, IsInjective, Surjection
    <3>2. \A p \in Firm' : At(phi[p]) = At(p)'
      BY <1>8, <1>9
    <3> HIDE DEF phi
    <3> QED BY <1>1, <3>1, <3>2, SameCount
  <2>3. \A g \in Fd : Count(g)' = Count(g)
    BY <2>1, <2>2 DEF Count
  <2>4. \A g \in fbm' : g \in Lost \/ g \in (Live \cup Pending)'
    BY <1>1, <1>7, <1>17 DEF Lost, Exact
  <2> QED BY <1>1, <1>2, <1>17, <2>3, <2>4, CountFrame
<1>24. MarksInv'
  BY <1>1, <1>2, <1>7, <1>17, <1>19 DEF SafeInv, MarksInv
<1>25. TornInv'
  BY <1>1, <1>7 DEF TornInv
<1>26. ASSUME NEW p \in Spots' PROVE \E q \in Firm : q[1] = p[1] /\ At(q) = At(p)'
  <2>1. CASE p \in Firm'
    BY <1>5, <1>8, <1>11, <2>1
  <2>2. CASE p = <<w, s + c>>
    BY <1>8, <1>11, <1>13, <2>2
  <2> QED BY <1>5, <1>9, <2>1, <2>2
<1>27. ASSUME NEW q \in Firm PROVE \E p \in Firm' : p[1] = q[1] /\ At(p)' = At(q)
  <2>1. PICK p \in Firm' : up(p) = q
    BY <1>10
  <2> QED BY <1>8, <1>9, <2>1
<1> QED BY <1>26, <1>27, <1>14, <1>15, <1>16, <1>19, <1>20, <1>21, <1>22, <1>23, <1>24, <1>25 DEF SafeInv

(* The inode is written back as it was when a directory's tail has moved.  *)
LEMMA MovedSizeSafe ==
  ASSUME SafeInv, IInv', WriteSize, Removing
  PROVE  SafeInv' /\ SameEntries
<1>1. /\ op.pc = "file_write" /\ op.data = <<>> /\ op.ret = "shrink" /\ torn' = torn
      /\ crashes' = crashes /\ op \in OpRec /\ Goto("shrink") /\ fbm \subseteq Fd
      /\ table' = [table EXCEPT ![op.wino] = Grown]
      /\ UNCHANGED <<bbm, fbm, index, cells, inodes>> /\ TypeOK /\ TypeOK' /\ Writes
  BY DEF WriteSize, Continue, SafeInv, IInv, TypeOK, Writes, Removing
<1>2. /\ op'.pc = "shrink" /\ op'.kind = op.kind /\ op'.dir = op.dir
      /\ op'.name = op.name /\ op'.ino = op.ino /\ op'.wino = op.wino
      /\ op'.pos = op.pos /\ op'.data = op.data /\ op'.ret = op.ret
  BY <1>1, GotoKeeps
<1>3. /\ op.wino = op.dir /\ op.dir \in Dirs /\ op.pos = table[op.dir].size - 1
      /\ op.ino # Root /\ \A p \in Spots : p[1] # op.ino
      /\ op.dir \in DirTree(table)
  <2>1. op.pos + Len(op.data) = table[op.dir].size - 1 /\ Len(op.data) = 0
    BY <1>1 DEF SafeInv, RemoveInv
  <2>2. op.pos \in Nat
    BY <1>1 DEF OpRec
  <2>3. op.pos = table[op.dir].size - 1
    BY <2>1, <2>2
  <2> QED BY <2>3 DEF SafeInv, RemoveInv, DirInv
<1>4. table' = table
  <2>1. fd[op.wino] = table[op.wino] /\ op.wino \in Fd
    BY <1>1, InWrite
  <2>2. table[op.wino].size \in Nat /\ op.pos < table[op.wino].size /\ table[op.wino] \in FdRec
    BY <1>1, <1>3, <2>1 DEF TypeOK, FdRec
  <2>3. Grown = table[op.wino]
    BY <2>1, <2>2 DEF Grown, FdRec
  <2> QED BY <1>1, <2>1, <2>3 DEF TypeOK
<1>5. SameEntries /\ Dirs' = Dirs /\ Base \subseteq fbm
  BY <1>1, <1>4, DiskFrame, LiveSound
<1>6. /\ Removing' /\ ~ Writes' /\ ~ Appending /\ ~ Appending' /\ ~ Filling' /\ ~ Adding'
  BY <1>1, <1>2 DEF Removing, Writes, Appending, Filling, Adding
<1>7. /\ Hole' = Hole /\ Flight = {} /\ Flight' = {} /\ Pending = {} /\ Pending' = {}
      /\ torn = {}
  BY <1>1, <1>2, <1>6, InWrite DEF Hole, Flight, Pending
<1>8. /\ Base' = Base /\ DirTree(table)' = DirTree(table)
      /\ \A g \in Fd : Bearers(g)' = Bearers(g)
      /\ CellsInv' /\ ReachInv' /\ NamesInv' /\ HoleInv'
  BY <1>1, <1>2, <1>5, <1>7, NamesFrame
<1>9. Live' = Live /\ Live \subseteq Fd
  BY <1>1, <1>2, <1>8, LiveSound DEF Live
<1>10. FilesInv' /\ \A g \in Live : Owned(g)' = Owned(g)
  BY <1>1, <1>4, <1>5, <1>9, DiskFrame, FilesFrame DEF Sound, SafeInv, FilesInv
<1>11. FlightInv' /\ PendingInv' /\ AppendInv' /\ AbsentInv' /\ WriteInv'
  BY <1>2, <1>6, <1>7 DEF FlightInv, PendingInv, AppendInv, AbsentInv, WriteInv
<1>12. DirInv' /\ RemoveInv'
  <2>1. /\ op'.data = <<>> /\ Len(op'.data) = 0 /\ 1 .. Len(op'.data) = {}
        /\ op'.pos + Len(op'.data) = table'[op'.dir].size - 1
    BY <1>1, <1>2, <1>3, <1>4 DEF OpRec
  <2> QED BY <1>1, <1>2, <1>3, <1>4, <1>5, <1>6, <1>8, <2>1 DEF DirInv, RemoveInv, SameEntries
<1>13. CountInv' /\ LostInv'
  <2>1. \A g \in Fd : Owed(g)' = Owed(g)
    BY <1>1, <1>2, <1>6 DEF Owed
  <2>2. \A g \in Fd : Count(g)' = Count(g)
    BY <1>8, <2>1 DEF Count
  <2>3. \A g \in fbm' : g \in Lost \/ g \in (Live \cup Pending)'
    BY <1>1, <1>7, <1>9 DEF Lost, Exact
  <2> QED BY <1>1, <1>2, <1>4, <1>9, <2>2, <2>3, CountFrame
<1>14. MarksInv'
  BY <1>1, <1>2, <1>7, <1>9, <1>10 DEF SafeInv, MarksInv
<1>15. TornInv'
  BY <1>1, <1>7 DEF TornInv
<1> QED BY <1>5, <1>8, <1>10, <1>11, <1>12, <1>13, <1>14, <1>15 DEF SafeInv

(* The size of a file grows over the blocks that were written.             *)
LEMMA FilledSizeSafe ==
  ASSUME SafeInv, IInv', WriteSize, Filling
  PROVE  SafeInv' /\ SameEntries
<1>0. PICK w \in Fd : w = op.wino
  BY DEF SafeInv, IInv, TypeOK, OpRec
<1>1. /\ op.pc = "file_write" /\ op.data = <<>> /\ op.ret = "done" /\ torn' = torn
      /\ crashes' = crashes /\ op \in OpRec /\ op' = NoOp /\ fbm \subseteq Fd
      /\ table' = [table EXCEPT ![w] = Grown] /\ op.ino \in Base
      /\ UNCHANGED <<bbm, fbm, index, cells, inodes>> /\ TypeOK /\ TypeOK' /\ Writes
      /\ w \notin Dirs /\ op.pos \in Nat
  BY <1>0 DEF WriteSize, Continue, SafeInv, IInv, TypeOK, Writes, WriteInv, Filling, OpRec
<1>2. op'.pc = "idle" /\ ~ Removing
  BY <1>1 DEF NoOp, Removing
<1>3. /\ w \in Live /\ Live = Base /\ Base \subseteq fbm /\ SpotsOK /\ SpotsOK'
  BY <1>0, <1>1, InWrite, LiveSound, SpotsAreNext DEF Live
<1>4. /\ \A g \in Fd \ {w} : table'[g] = table[g]
      /\ table'[w].type = table[w].type /\ table'[w].links = table[w].links
      /\ table'[w].datablock = table[w].datablock
      /\ table'[w].size \in {table[w].size, op.pos}
  <2>1. fd[w] = table[w] /\ table[w] \in FdRec
    BY <1>0, <1>1, InWrite DEF TypeOK
  <2> QED BY <1>0, <1>1, <2>1 DEF Grown, TypeOK, FdRec
<1>5. Dirs' = Dirs
  BY <1>4 DEF Dirs
<1>6. SameEntries
  <2>1. \A d \in Dirs : table'[d] = table[d]
    BY <1>1, <1>4 DEF Dirs
  <2>2. Spots' = Spots
    BY <1>5, <2>1 DEF Spots
  <2>3. ASSUME NEW p \in Spots PROVE At(p)' = At(p)
    BY <1>1, <1>3, <2>1 DEF At, CellAt, SpotsOK
  <2> QED BY <2>2, <2>3 DEF SameEntries
<1>7. /\ Hole = {} /\ Hole' = {} /\ Flight = {} /\ Flight' = {} /\ Pending = {}
      /\ Pending' = {} /\ torn = {} /\ Live' = Base' /\ \A g : Owed(g)' = 0
  <2>1. Hole' = {} /\ Flight' = {} /\ Pending' = {} /\ Live' = Base' /\ \A g : Owed(g)' = 0
    BY <1>2 DEF Hole, Removing, Flight, Pending, Live, Owed, Appending, Writes
  <2> QED BY <1>1, <1>2, <2>1, InWrite DEF Hole, Flight, Pending
<1>8. /\ Base' = Base /\ DirTree(table)' = DirTree(table)
      /\ \A g \in Fd : Bearers(g)' = Bearers(g)
      /\ CellsInv' /\ ReachInv' /\ NamesInv' /\ HoleInv'
  BY <1>1, <1>3, <1>5, <1>6, <1>7, NamesFrame
<1>9. Live' = Live /\ Live \subseteq Fd
  BY <1>1, <1>3, <1>7, <1>8
<1>10. \A g \in Live : Sound(g) /\ table'[g].datablock = table[g].datablock
  BY <1>4, <1>9 DEF SafeInv, FilesInv
<1>11. FilesInv' /\ \A g \in Live : Owned(g)' = Owned(g)
  <2>1. \A i \in 0 .. table'[w].size - 1 : Fits(w, i)
    <3>1. \A i \in 0 .. op.pos - 1 : Fits(w, i)
      BY <1>0, <1>1 DEF SafeInv, WriteInv
    <3>2. \A i \in 0 .. table[w].size - 1 : Fits(w, i)
      BY <1>3, <1>10 DEF Sound
    <3> QED BY <1>4, <3>1, <3>2
  <2>2. \A g \in Live : \A i \in 0 .. table'[g].size - 1 : Fits(g, i)
    BY <1>4, <1>9, <1>10, <2>1 DEF Sound
  <2>3. \A g \in Live : List(g)' = List(g)
    BY <1>1, <1>10 DEF List
  <2> QED BY <1>1, <1>5, <1>9, <1>10, <2>2, <2>3, FilesFrame DEF Sound, SafeInv, FilesInv
<1>12. /\ FlightInv' /\ PendingInv' /\ AppendInv' /\ AbsentInv' /\ WriteInv' /\ DirInv'
       /\ RemoveInv'
  BY <1>2, <1>7 DEF FlightInv, PendingInv, AppendInv, AbsentInv, WriteInv, DirInv, RemoveInv,
     Adding, Appending, Removing, Filling, Writes
<1>13. CountInv' /\ LostInv'
  <2>1. \A g \in Fd : Owed(g) = 0
    BY <1>1, <1>2 DEF Owed, Appending, Filling
  <2>2. \A g \in Fd : Count(g)' = Count(g)
    BY <1>7, <1>8, <2>1 DEF Count
  <2>3. \A g \in fbm' : g \in Lost \/ g \in (Live \cup Pending)'
    BY <1>1, <1>7, <1>9 DEF Lost, Exact
  <2>4. \A g \in Fd : table'[g].links = table[g].links
    BY <1>4
  <2> QED BY <1>1, <1>2, <1>9, <2>2, <2>3, <2>4, CountFrame
<1>14. MarksInv'
  BY <1>1, <1>2, <1>7, <1>9, <1>11 DEF SafeInv, MarksInv
<1>15. TornInv'
  BY <1>1, <1>7 DEF TornInv
<1> QED BY <1>6, <1>8, <1>11, <1>12, <1>13, <1>14, <1>15 DEF SafeInv

(* With the size of its directory the new entry comes to be: the count of  *)
(* its file is paid, or a link count is owed.                              *)
LEMMA AddedSizeSafe ==
  ASSUME SafeInv, IInv', WriteSize, Appending
  PROVE  /\ SafeInv'
         /\ \E new : /\ Spots' = Spots \cup {new} /\ new[1] = op.dir /\ At(new)' = Entry
                     /\ \A p \in Spots : At(p)' = At(p)
<1>0. PICK w \in Fd, ino \in Fd, s \in Nat, e \in Cell :
        w = op.wino /\ ino = op.ino /\ s = table[w].size /\ e = Entry
  <2>1. op.wino \in Fd /\ op.ino \in Fd /\ table[op.wino].size \in Nat
    BY DEF SafeInv, IInv, TypeOK, OpRec, FdRec
  <2>2. Entry \in Cell
    BY DEF SafeInv, IInv, TypeOK, OpRec, Entry, Cell
  <2> QED BY <2>1, <2>2
<1> DEFINE new == <<w, s>>
<1>1. /\ op.pc = "file_write" /\ op.data = <<>> /\ op.ret # "shrink" /\ torn' = torn
      /\ crashes' = crashes /\ op \in OpRec /\ fbm \subseteq Fd
      /\ table' = [table EXCEPT ![w] = Grown]
      /\ UNCHANGED <<bbm, fbm, index, cells, inodes>> /\ TypeOK /\ TypeOK' /\ Writes
      /\ w \in Dirs
  BY <1>0 DEF WriteSize, Continue, SafeInv, IInv, TypeOK, Writes, Appending
<1>2. /\ w = op.dir /\ ino # Root /\ op.pos = s + 1 /\ CellAt(table, w, s) = e
      /\ op.ret = "target" => table[ino].type # "FFS_DIR"
      /\ w \in DirTree(table) /\ e.fd = ino /\ e.name = op.name
      /\ \A p \in Spots : p[1] = w => At(p).name # e.name
  <2>1. op.data # <<Entry>>
    BY <1>1
  <2> QED BY <1>0, <2>1 DEF SafeInv, AppendInv, DirInv, AbsentInv, Adding, Entry
<1>3. /\ w \in Live /\ w \in Base /\ Live = Base \cup {ino} /\ Base \subseteq fbm
      /\ Live \subseteq fbm /\ SpotsOK /\ SpotsOK' /\ EdgesOK
  <2>1. w \in Base
    BY <1>2, LiveSound DEF PlacesOK
  <2> QED BY <1>0, <1>1, <2>1, LiveSound, SpotsAreNext DEF Live
<1>4. /\ \A g \in Fd \ {w} : table'[g] = table[g]
      /\ table'[w].type = table[w].type /\ table'[w].links = table[w].links
      /\ table'[w].datablock = table[w].datablock
      /\ table'[w].size = s + 1
  <2>1. fd[w] = table[w] /\ table[w] \in FdRec
    BY <1>0, <1>1, InWrite DEF TypeOK
  <2>2. Grown = [table[w] EXCEPT !.size = s + 1]
    <3>1. ~ (op.pos < fd[w].size) /\ op.pos = s + 1
      <4>1. op.pos = s + 1 /\ fd[w].size = s /\ s \in Nat
        BY <1>0, <1>2, <2>1
      <4> QED BY <4>1
    <3> QED BY <1>0, <2>1, <3>1 DEF Grown
  <2> QED BY <1>1, <2>1, <2>2 DEF TypeOK, FdRec
<1>5. Dirs' = Dirs
  BY <1>4 DEF Dirs
<1>6. Spots' = Spots \cup {new} /\ new \notin Spots
  <2>1. ASSUME NEW p \in Spots' PROVE p \in Spots \cup {new}
    <3>1. p[1] \in Dirs' /\ p = <<p[1], p[2]>> /\ p[2] \in 0 .. table'[p[1]].size - 1
      BY <1>3 DEF SpotsOK
    <3>2. CASE p[1] = w
      <4>1. p[2] = s \/ p[2] \in 0 .. table[w].size - 1
        BY <1>0, <1>4, <3>1, <3>2
      <4> QED BY <1>1, <1>3, <3>1, <3>2, <4>1 DEF SpotsOK
    <3>3. CASE p[1] # w
      <4>1. p[2] \in 0 .. table[p[1]].size - 1 /\ p[1] \in Dirs
        BY <1>4, <1>5, <3>1, <3>3 DEF Dirs
      <4> QED BY <1>3, <3>1, <4>1 DEF SpotsOK
    <3> QED BY <3>2, <3>3
  <2>2. ASSUME NEW p \in Spots PROVE p \in Spots'
    <3>1. p[1] \in Dirs /\ p = <<p[1], p[2]>> /\ p[2] \in 0 .. table[p[1]].size - 1
      BY <1>3 DEF SpotsOK
    <3>2. p[2] \in 0 .. table'[p[1]].size - 1
      BY <1>0, <1>4, <3>1 DEF Dirs
    <3>3. <<p[1], p[2]>> \in Spots'
      BY <1>3, <1>5, <3>1, <3>2 DEF SpotsOK
    <3> QED BY <3>1, <3>3
  <2>3. new \in Spots'
    <3>1. s \in 0 .. table'[w].size - 1
      BY <1>4
    <3> QED BY <1>1, <1>3, <1>5, <3>1 DEF SpotsOK
  <2>4. new \notin Spots
    <3>1. ~ (s \in 0 .. table[w].size - 1)
      BY <1>0
    <3> QED BY <1>3, <3>1 DEF SpotsOK
  <2> QED BY <2>1, <2>2, <2>3, <2>4
<1>7. /\ \A p \in Spots : At(p)' = At(p)
      /\ At(new)' = e
  <2>1. \A d \in Fd : table'[d].datablock = table[d].datablock
    BY <1>4
  <2>2. \A d \in Fd : \A i : CellAt(table, d, i)' = CellAt(table, d, i)
    BY <1>1, <2>1 DEF CellAt
  <2> QED BY <1>2, <1>3, <2>2 DEF At, SpotsOK, Dirs
<1> HIDE DEF new
<1>8. /\ ~ Removing /\ ~ Removing' /\ ~ Appending' /\ ~ Adding' /\ op'.pc # "oops"
      /\ op'.pc \in {"idle", "file_write", "inc"}
      /\ Filling' => op'.pos = 0 /\ op'.wino = ino /\ op'.ino = ino /\ op'.ret = "done"
      /\ Writes' => Filling'
      /\ op'.pc = "inc" => op'.ino = ino
      /\ Owed(ino) = (IF op.ret = "inc" THEN 0 ELSE 1)
      /\ Owed(ino)' = (IF op.ret = "inc" THEN -1 ELSE 0)
      /\ \A g \in Fd \ {ino} : Owed(g) = 0 /\ Owed(g)' = 0
  <2>0. /\ ~ Removing /\ \A g \in Fd \ {ino} : Owed(g) = 0
        /\ Owed(ino) = (IF op.ret = "inc" THEN 0 ELSE 1)
    BY <1>0, <1>1 DEF Removing, Owed
  <2>1. CASE op.ret = "done"
    <3>1. op'.pc = "idle"
      BY <1>1, <2>1 DEF WriteSize, NoOp
    <3>2. ~ Removing' /\ ~ Appending' /\ ~ Filling' /\ ~ Writes' /\ ~ Adding' /\ \A g : Owed(g)' = 0
      BY <3>1 DEF Removing, Appending, Filling, Writes, Adding, Owed
    <3> QED BY <2>0, <2>1, <3>1, <3>2
  <2>2. CASE op.ret = "target"
    <3>1. /\ op'.pc = "file_write" /\ op'.wino = ino /\ op'.ino = ino /\ op'.ret = "done"
          /\ op'.pos = 0
      BY <1>0, <1>1, <2>2 DEF WriteSize, Writing, OpRec
    <3>2. ino \notin Dirs'
      BY <1>2, <1>5, <2>2 DEF Dirs
    <3>3. ~ Removing' /\ ~ Appending' /\ Filling' /\ ~ Adding' /\ \A g : Owed(g)' = 0
      BY <3>1, <3>2 DEF Removing, Appending, Filling, Writes, Adding, Owed
    <3> QED BY <2>0, <2>2, <3>1, <3>3
  <2>3. CASE op.ret = "inc"
    <3>1. op'.pc = "inc" /\ op'.ino = ino
      BY <1>0, <1>1, <2>3, GotoKeeps DEF WriteSize
    <3>2. ~ Removing' /\ ~ Appending' /\ ~ Filling' /\ ~ Writes' /\ ~ Adding'
          /\ \A g : Owed(g)' = IF g = ino THEN -1 ELSE 0
      BY <3>1 DEF Removing, Appending, Filling, Writes, Adding, Owed
    <3> QED BY <2>0, <2>3, <3>1, <3>2
  <2> QED BY <1>1, <2>1, <2>2, <2>3 DEF OpRec, Returns
<1>9. /\ Hole = {} /\ Hole' = {} /\ Flight = {} /\ Flight' = {} /\ Pending = {}
      /\ Pending' = {} /\ torn = {}
  BY <1>1, <1>8, InWrite DEF Hole, Flight, Pending
<1>10. Firm = Spots /\ Firm' = Spots \cup {new}
  BY <1>6, <1>9 DEF Firm
<1>11. Base' = Base \cup {ino}
  <2>1. Base \subseteq Base'
    BY <1>6, <1>7 DEF Base
  <2>2. ino \in Base'
    BY <1>2, <1>6, <1>7 DEF Base
  <2>3. new[1] = w
    BY DEF new
  <2>4. ASSUME NEW f \in Base', f # ino PROVE f \in Base
    <3>1. CASE f = Root
      BY <3>1 DEF Base
    <3>2. CASE f # Root
      <4>1. PICK p \in Spots' : f \in {p[1], At(p)'.fd}
        BY <3>2 DEF Base
      <4>2. f \in Fd
        BY <3>2 DEF Base
      <4>3. CASE p \in Spots
        BY <1>7, <4>1, <4>2, <4>3 DEF Base
      <4>4. CASE p = new
        BY <1>2, <1>3, <1>7, <2>3, <2>4, <4>1, <4>4
      <4> QED BY <1>6, <4>3, <4>4
    <3> QED BY <3>1, <3>2
  <2> QED BY <2>1, <2>2, <2>4
<1>12. Live' = Live /\ Live \subseteq Fd /\ Live' = Base'
  <2>1. op'.pc \in {"file_write", "inc"} => op'.ino = ino
    BY <1>8 DEF Writes
  <2>2. Live' = Base'
    BY <1>8, <1>11, <2>1 DEF Live
  <2> QED BY <1>1, <1>3, <1>11, <2>2
<1>13. DirTree(table) \subseteq DirTree(table)'
  <2>1. EdgesOK'
    BY <1>1, <1>3, <1>11, EdgesAreNext
  <2>2. /\ Subdirs(table) \subseteq Fd \X Fd
        /\ Subdirs(table)' \subseteq Fd \X Fd
    BY <1>1 DEF Subdirs
  <2>3. ASSUME NEW d \in Fd, NEW f \in Fd, <<d, f>> \in Subdirs(table)
        PROVE  <<d, f>> \in Subdirs(table)'
    <3>1. f \in Dirs /\ \E p \in Spots : p[1] = d /\ At(p).fd = f
      BY <1>3, <2>3 DEF EdgesOK
    <3>2. (f \in Dirs /\ \E p \in Spots : p[1] = d /\ At(p).fd = f)'
      BY <1>5, <1>6, <1>7, <3>1
    <3>3. (f \in Dirs /\ \E p \in Spots : p[1] = d /\ At(p).fd = f)'
             => <<d, f>> \in Subdirs(table)'
      BY <2>1 DEF EdgesOK
    <3> QED BY <3>2, <3>3
  <2> DEFINE old == Subdirs(table)
             nxt == Subdirs(table)'
  <2>4. old \in SUBSET (Fd \X Fd) /\ {} \in SUBSET Fd
    BY <2>2
  <2>5. \A d, f \in Fd : <<d, f>> \in old => d \notin {} /\ (f \in {} \/ <<d, f>> \in nxt)
    BY <2>3
  <2> HIDE DEF old, nxt
  <2>6. Tree(old) \subseteq Tree(nxt) \cup {}
    BY <2>4, <2>5, TreeKeeps
  <2> QED BY <2>6 DEF DirTree, Tree, old, nxt
<1>14. CellsInv' /\ ReachInv'
  <2>1. new[1] = w
    BY DEF new
  <2> QED BY <1>2, <1>6, <1>7, <1>13, <2>1 DEF SafeInv, CellsInv, ReachInv
<1>15. NamesInv'
  <2>1. new[1] = w
    BY DEF new
  <2>2. \A p, q \in Spots : p[1] = q[1] /\ At(p).name = At(q).name => At(p) = At(q) /\ p = q
    BY <1>9, <1>10 DEF SafeInv, NamesInv
  <2>3. ASSUME NEW p \in Spots', NEW q \in Spots', p[1] = q[1], At(p)'.name = At(q)'.name
        PROVE  p = q
    <3>1. CASE p \in Spots /\ q \in Spots
      BY <1>7, <2>2, <2>3, <3>1
    <3>2. CASE p = new /\ q \in Spots
      BY <1>2, <1>7, <2>1, <2>3, <3>2
    <3>3. CASE p \in Spots /\ q = new
      BY <1>2, <1>7, <2>1, <2>3, <3>3
    <3> QED BY <1>6, <3>1, <3>2, <3>3
  <2> QED BY <1>6, <1>10, <2>3 DEF NamesInv
<1>16. HoleInv'
  BY <1>9 DEF HoleInv
<1>17. \A g \in Live : Sound(g) /\ table'[g].datablock = table[g].datablock
  BY <1>4, <1>12 DEF SafeInv, FilesInv
<1>18. FilesInv' /\ \A g \in Live : Owned(g)' = Owned(g)
  <2>1. \A i \in 0 .. table'[w].size - 1 : Fits(w, i)
    <3>1. \A i \in 0 .. op.pos - 1 : Fits(w, i)
      BY <1>0, <1>1 DEF SafeInv, WriteInv
    <3> QED BY <1>2, <1>4, <3>1
  <2>2. \A g \in Live : \A i \in 0 .. table'[g].size - 1 : Fits(g, i)
    BY <1>4, <1>12, <1>17, <2>1 DEF Sound
  <2>3. \A g \in Live : List(g)' = List(g)
    BY <1>1, <1>17 DEF List
  <2> QED BY <1>1, <1>5, <1>12, <1>17, <2>2, <2>3, FilesFrame DEF Sound, SafeInv, FilesInv
<1>19. WriteInv'
  BY <1>8, <1>11, <1>12 DEF WriteInv
<1>20. FlightInv' /\ PendingInv' /\ AppendInv' /\ AbsentInv' /\ DirInv' /\ RemoveInv'
  BY <1>8, <1>9 DEF FlightInv, PendingInv, AppendInv, AbsentInv, DirInv, RemoveInv
<1>21. CountInv' /\ LostInv'
  <2>1. ASSUME NEW g \in Fd PROVE Count(g)' = Count(g) /\ table'[g].links = table[g].links
    <3>1. IsFiniteSet(Bearers(g)) /\ Cardinality(Bearers(g)) \in Nat
      BY <1>1, CountsAre DEF CountsOK
    <3>2. CASE g = ino
      <4>1. Bearers(g)' = Bearers(g) \cup {new} /\ new \notin Bearers(g)
        BY <1>2, <1>6, <1>7, <1>10, <3>2 DEF Bearers
      <4>2. Cardinality(Bearers(g)') = Cardinality(Bearers(g)) + 1
        BY <3>1, <4>1, FS_AddElement
      <4>3. Owed(g)' = Owed(g) - 1 /\ Owed(g) \in Int
        BY <1>8, <3>2
      <4> QED BY <1>4, <3>1, <4>2, <4>3 DEF Count
    <3>3. CASE g # ino
      <4>1. Bearers(g)' = Bearers(g)
        BY <1>2, <1>7, <1>10, <3>3 DEF Bearers
      <4> QED BY <1>4, <1>8, <3>3, <4>1 DEF Count
    <3> QED BY <3>2, <3>3
  <2>2. \A g \in fbm' : g \in Lost \/ g \in (Live \cup Pending)'
    BY <1>1, <1>9, <1>12 DEF Lost, Exact
  <2> QED BY <1>1, <1>8, <1>12, <2>1, <2>2, CountFrame
<1>22. MarksInv'
  BY <1>1, <1>8, <1>9, <1>12, <1>18 DEF SafeInv, MarksInv
<1>23. TornInv'
  BY <1>1, <1>9 DEF TornInv
<1>24. \E x : /\ Spots' = Spots \cup {x} /\ x[1] = op.dir /\ At(x)' = Entry
              /\ \A p \in Spots : At(p)' = At(p)
  <2>1. new[1] = op.dir
    BY <1>2 DEF new
  <2> QED BY <1>0, <1>6, <1>7, <2>1
<1> QED BY <1>24, <1>14, <1>15, <1>16, <1>18, <1>19, <1>20, <1>21, <1>22, <1>23 DEF SafeInv

-----------------------------------------------------------------------------
(* Link counts, and the end of an entry                                    *)

(* A step that changes link counts and no other thing on the disk.         *)
LEMMA LinksFrame ==
  ASSUME TypeOK, UNCHANGED <<index, cells>>,
         \A g \in Fd : /\ table'[g].type = table[g].type /\ table'[g].size = table[g].size
                       /\ table'[g].datablock = table[g].datablock
  PROVE  /\ SameEntries /\ Dirs' = Dirs
         /\ \A g \in Fd : List(g)' = List(g) /\ Owned(g)' = Owned(g)
<1>1. Dirs' = Dirs /\ Dirs \subseteq Fd /\ SpotsOK
  BY SpotsAre DEF Dirs
<1>2. Spots' = Spots
  BY <1>1 DEF Spots
<1>3. \A p \in Spots : At(p)' = At(p)
  BY <1>1 DEF At, CellAt, SpotsOK
<1>4. \A g \in Fd : List(g)' = List(g) /\ Owned(g)' = Owned(g)
  BY DEF List, Owned, Listed
<1> QED BY <1>1, <1>2, <1>3, <1>4 DEF SameEntries

(* ffs_link counts the name it has added.                                  *)
LEMMA IncLinksSafe ==
  ASSUME SafeInv, IInv', IncLinks
  PROVE  SafeInv' /\ SameEntries
<1>0. PICK ino \in Fd : ino = op.ino
  BY DEF SafeInv, IInv, TypeOK, OpRec
<1>1. /\ op.pc = "inc" /\ torn' = torn /\ crashes' = crashes /\ op' = NoOp
      /\ fbm \subseteq Fd /\ table' = [table EXCEPT ![ino] = [fd[ino] EXCEPT !.links = @ + 1]]
      /\ UNCHANGED <<bbm, fbm, index, cells, inodes>> /\ TypeOK /\ TypeOK' /\ ino \in Base
  BY <1>0 DEF IncLinks, Continue, SafeInv, IInv, TypeOK, WriteInv
<1>2. op'.pc = "idle" /\ torn = {}
  BY <1>1 DEF NoOp, SafeInv, TornInv
<1>3. Live = Base /\ Base \subseteq fbm
  BY <1>0, <1>1, LiveSound DEF Live
<1>4. /\ Hole = {} /\ Hole' = {} /\ Flight = {} /\ Flight' = {} /\ Pending = {} /\ Pending' = {}
      /\ Live' = Base' /\ \A g : Owed(g)' = 0 /\ Owed(g) = IF g = ino THEN -1 ELSE 0
  <2>1. Hole' = {} /\ Flight' = {} /\ Pending' = {} /\ Live' = Base' /\ \A g : Owed(g)' = 0
    BY <1>2 DEF Hole, Removing, Flight, Pending, Live, Owed, Appending, Writes
  <2>2. Hole = {} /\ Flight = {} /\ Pending = {}
    BY <1>1 DEF Hole, Removing, Flight, Pending
  <2>3. \A g : Owed(g) = IF g = ino THEN -1 ELSE 0
    BY <1>0, <1>1 DEF Owed, Appending, Writes, Removing
  <2> QED BY <2>1, <2>2, <2>3
<1>5. /\ \A g \in Fd \ {ino} : table'[g] = table[g]
      /\ table'[ino] = [table[ino] EXCEPT !.links = @ + 1]
      /\ table'[ino].links = table[ino].links + 1 /\ table[ino].links \in Int
      /\ \A g \in Fd : /\ table'[g].type = table[g].type /\ table'[g].size = table[g].size
                       /\ table'[g].datablock = table[g].datablock
  <2>1. fd[ino] = table[ino] /\ table[ino] \in FdRec
    BY <1>1, <1>3, <1>4 DEF SafeInv, IInv, MemInv, TypeOK
  <2> QED BY <1>1, <2>1 DEF TypeOK, FdRec
<1>6. SameEntries /\ Dirs' = Dirs /\ \A g \in Fd : List(g)' = List(g)
  BY <1>1, <1>5, LinksFrame
<1>7. /\ Base' = Base /\ DirTree(table)' = DirTree(table)
      /\ \A g \in Fd : Bearers(g)' = Bearers(g)
      /\ CellsInv' /\ ReachInv' /\ NamesInv' /\ HoleInv'
  BY <1>1, <1>3, <1>4, <1>6, NamesFrame
<1>8. Live' = Live /\ Live \subseteq Fd
  BY <1>1, <1>3, <1>4, <1>7
<1>9. FilesInv' /\ \A g \in Live : Owned(g)' = Owned(g)
  <2>1. \A g \in Live : Sound(g)
    BY DEF SafeInv, FilesInv
  <2> QED BY <1>1, <1>5, <1>6, <1>8, <2>1, FilesFrame DEF Sound, SafeInv, FilesInv
<1>10. /\ FlightInv' /\ PendingInv' /\ AppendInv' /\ AbsentInv' /\ WriteInv' /\ DirInv'
       /\ RemoveInv'
  BY <1>2, <1>4 DEF FlightInv, PendingInv, AppendInv, AbsentInv, WriteInv, DirInv, RemoveInv,
     Adding, Appending, Removing, Filling, Writes
<1>11. CountInv' /\ LostInv'
  <2>1. ASSUME NEW g \in Fd PROVE Count(g)' - table'[g].links = Count(g) - table[g].links
    <3>1. Cardinality(Bearers(g)) \in Nat
      BY <1>1, CountsAre DEF CountsOK
    <3>2. CASE g = ino
      <4> DEFINE n == Cardinality(Bearers(g))
                 l == table[g].links
      <4>1. Count(g)' = n + 0 /\ Count(g) = n + (-1)
        BY <1>4, <1>7, <3>2 DEF Count
      <4>2. table'[g].links = l + 1 /\ l \in Int /\ n \in Nat
        BY <1>5, <3>1, <3>2
      <4>3. n + 0 - (l + 1) = n + (-1) - l
        BY <4>2
      <4> HIDE DEF n
      <4> QED BY <4>1, <4>2, <4>3
    <3>3. CASE g # ino
      BY <1>4, <1>5, <1>7, <3>3 DEF Count
    <3> QED BY <3>2, <3>3
  <2>2. \A g \in fbm' : g \in Lost \/ g \in (Live \cup Pending)'
    BY <1>1, <1>4, <1>8 DEF Lost, Exact
  <2> QED BY <1>1, <1>2, <1>8, <2>1, <2>2, CountFrame
<1>12. MarksInv'
  BY <1>1, <1>2, <1>4, <1>8, <1>9 DEF SafeInv, MarksInv
<1>13. TornInv'
  BY <1>1, <1>2 DEF TornInv
<1> QED BY <1>6, <1>7, <1>9, <1>10, <1>11, <1>12, <1>13 DEF SafeInv

(* With the size of its directory the hole goes.                           *)
LEMMA ShrinkSafe ==
  ASSUME SafeInv, IInv', Shrink
  PROVE  SafeInv' /\ Spots' = Firm /\ \A p \in Firm : At(p)' = At(p)
<1>0. PICK w \in Fd, ino \in Fd, s \in Nat : w = op.dir /\ ino = op.ino /\ s = op.pos
  BY DEF SafeInv, IInv, TypeOK, OpRec
<1>1. /\ op.pc = "shrink" /\ torn' = torn /\ crashes' = crashes /\ op \in OpRec
      /\ Goto("dec") /\ fbm \subseteq Fd
      /\ table' = [table EXCEPT ![w] = [fd[w] EXCEPT !.size = @ - 1]]
      /\ UNCHANGED <<bbm, fbm, index, cells, inodes>> /\ TypeOK /\ TypeOK'
  BY <1>0 DEF Shrink, Continue, SafeInv, IInv, TypeOK
<1>2. op'.pc = "dec" /\ op'.dir = w /\ op'.ino = ino /\ torn = {}
  BY <1>0, <1>1, GotoKeeps DEF SafeInv, TornInv, NoOp
<1>3. /\ Removing /\ w \in Dirs /\ s = table[w].size - 1 /\ table[w].size \in Nat
      /\ ino # Root /\ \A p \in Spots : p[1] # ino
      /\ w \in DirTree(table)
  <2>1. /\ Removing /\ w \in Dirs /\ op.data = <<>>
        /\ s + Len(op.data) = table[w].size - 1 /\ ino # Root /\ \A p \in Spots : p[1] # ino
    BY <1>0, <1>1 DEF SafeInv, RemoveInv
  <2>2. s = table[w].size - 1 /\ table[w].size \in Nat
    BY <1>1, <2>1 DEF TypeOK, FdRec
  <2> QED BY <1>0, <2>1, <2>2 DEF SafeInv, DirInv
<1>4. /\ SpotsOK /\ SpotsOK' /\ Base \subseteq Live /\ Live \subseteq fbm
      /\ Live = Base \cup {ino} /\ Live' = Base' \cup {ino}
  BY <1>0, <1>1, <1>2, LiveSound, SpotsAreNext DEF Live
<1>5. /\ Hole = {<<w, s>>} /\ Hole' = {} /\ Flight = {} /\ Flight' = {}
      /\ Pending = {} /\ Pending' = {}
      /\ ~ Removing' /\ ~ Appending /\ ~ Appending' /\ ~ Writes' /\ ~ Filling' /\ ~ Adding'
  BY <1>0, <1>1, <1>2, <1>3
     DEF Hole, Flight, Pending, Removing, Appending, Writes, Filling, Adding
<1>6. /\ \A g \in Fd \ {w} : table'[g] = table[g]
      /\ table'[w].type = table[w].type /\ table'[w].links = table[w].links
      /\ table'[w].datablock = table[w].datablock
      /\ table'[w].size = s
  <2>1. w \in Base
    BY <1>3, LiveSound DEF PlacesOK
  <2>2. fd[w] = table[w] /\ table[w] \in FdRec
    BY <1>1, <1>4, <1>5, <2>1 DEF SafeInv, IInv, MemInv, TypeOK
  <2> QED BY <1>1, <1>3, <2>2 DEF TypeOK, FdRec
<1>7. Dirs' = Dirs
  BY <1>6 DEF Dirs
<1>8. Spots' = Spots \ {<<w, s>>}
  <2>1. ASSUME NEW p \in Spots' PROVE p \in Spots /\ p # <<w, s>>
    <3>1. p[1] \in Dirs' /\ p = <<p[1], p[2]>> /\ p[2] \in 0 .. table'[p[1]].size - 1
      BY <1>4 DEF SpotsOK
    <3>2. p[2] \in 0 .. table[p[1]].size - 1 /\ p # <<w, s>>
      <4>1. CASE p[1] = w
        BY <1>3, <1>6, <3>1, <4>1
      <4>2. CASE p[1] # w
        BY <1>6, <1>7, <3>1, <4>2 DEF Dirs
      <4> QED BY <4>1, <4>2
    <3>3. <<p[1], p[2]>> \in Spots
      BY <1>4, <1>7, <3>1, <3>2 DEF SpotsOK
    <3> QED BY <3>1, <3>2, <3>3
  <2>2. ASSUME NEW p \in Spots, p # <<w, s>> PROVE p \in Spots'
    <3>1. p[1] \in Dirs /\ p = <<p[1], p[2]>> /\ p[2] \in 0 .. table[p[1]].size - 1
      BY <1>4 DEF SpotsOK
    <3>2. p[2] \in 0 .. table'[p[1]].size - 1
      <4>1. CASE p[1] = w
        <5>1. p[2] # s
          BY <2>2, <3>1, <4>1
        <5> QED BY <1>3, <1>6, <3>1, <4>1, <5>1
      <4>2. CASE p[1] # w
        BY <1>6, <3>1, <4>2 DEF Dirs
      <4> QED BY <4>1, <4>2
    <3>3. <<p[1], p[2]>> \in Spots'
      BY <1>4, <1>7, <3>1, <3>2 DEF SpotsOK
    <3> QED BY <3>1, <3>3
  <2> QED BY <2>1, <2>2
<1>9. \A p \in Spots : At(p)' = At(p)
  <2>1. \A d \in Fd : table'[d].datablock = table[d].datablock
    BY <1>6
  <2> QED BY <1>1, <1>4, <2>1 DEF At, CellAt, SpotsOK, Dirs
<1>10. Firm = Spots' /\ Firm' = Spots'
  BY <1>5, <1>8 DEF Firm
<1>11. /\ Base' \subseteq Base /\ Base \subseteq Base' \cup {ino}
       /\ CellsInv' /\ ReachInv'
  <2>1. \A p \in Spots' : \E q \in Spots : q[1] = p[1] /\ At(q) = At(p)'
    BY <1>8, <1>9
  <2>2. \A q \in Firm : \E p \in Spots' : p[1] = q[1] /\ At(p)' = At(q)
    BY <1>8, <1>9, <1>10
  <2> QED BY <1>0, <1>1, <1>3, <1>7, <2>1, <2>2, RemoveFrame
<1>12. NamesInv' /\ HoleInv'
  BY <1>2, <1>5, <1>8, <1>9, <1>10 DEF SafeInv, NamesInv, HoleInv
<1>13. Live' = Live /\ Live \subseteq Fd
  BY <1>1, <1>4, <1>11
<1>14. \A g \in Live : Sound(g) /\ table'[g].datablock = table[g].datablock
  BY <1>6, <1>13 DEF SafeInv, FilesInv
<1>15. FilesInv' /\ \A g \in Live : Owned(g)' = Owned(g)
  <2>1. ASSUME NEW g \in Live PROVE \A i \in 0 .. table'[g].size - 1 : Fits(g, i)
    <3>1. CASE g = w
      <4>1. \A i \in 0 .. table'[w].size - 1 : i \in 0 .. table[w].size - 1
        BY <1>3, <1>6
      <4> QED BY <1>14, <3>1, <4>1 DEF Sound
    <3>2. CASE g # w
      BY <1>6, <1>13, <1>14, <3>2 DEF Sound
    <3> QED BY <3>1, <3>2
  <2>2. \A g \in Live : List(g)' = List(g)
    BY <1>1, <1>14 DEF List
  <2> QED BY <1>1, <1>7, <1>13, <1>14, <2>1, <2>2, FilesFrame DEF Sound, SafeInv, FilesInv
<1>16. /\ FlightInv' /\ PendingInv' /\ AppendInv' /\ AbsentInv' /\ WriteInv' /\ DirInv'
       /\ RemoveInv'
  BY <1>2, <1>3, <1>5, <1>8 DEF FlightInv, PendingInv, AppendInv, AbsentInv, WriteInv, DirInv,
     RemoveInv
<1>17. CountInv' /\ LostInv'
  <2>1. ASSUME NEW g \in Fd PROVE Count(g)' = Count(g) /\ table'[g].links = table[g].links
    <3>1. Owed(g)' = Owed(g)
      BY <1>0, <1>2, <1>3, <1>5 DEF Owed
    <3>2. Bearers(g)' = Bearers(g)
      BY <1>8, <1>9, <1>10 DEF Bearers
    <3> QED BY <1>6, <3>1, <3>2 DEF Count
  <2>2. \A g \in fbm' : g \in Lost \/ g \in (Live \cup Pending)'
    BY <1>1, <1>5, <1>13 DEF Lost, Exact
  <2> QED BY <1>1, <1>2, <1>13, <2>1, <2>2, CountFrame
<1>18. MarksInv'
  BY <1>1, <1>2, <1>5, <1>13, <1>15 DEF SafeInv, MarksInv
<1>19. TornInv'
  BY <1>1, <1>2 DEF TornInv
<1> QED BY <1>8, <1>9, <1>10, <1>11, <1>12, <1>15, <1>16, <1>17, <1>18, <1>19 DEF SafeInv

(* What ffs_unlink knows of the file when its entry is gone: every entry   *)
(* left is counted, and the one that went is still owed.                   *)
LEMMA InDec ==
  ASSUME SafeInv, op.pc = "dec", NEW ino \in Fd, ino = op.ino
  PROVE  /\ torn = {} /\ Hole = {} /\ Flight = {} /\ Pending = {} /\ Firm = Spots
         /\ Live = Base \cup {ino} /\ Sound(ino)
         /\ ino # Root /\ \A p \in Spots : p[1] # ino
         /\ fd[ino] = table[ino] /\ table[ino] \in FdRec
         /\ Cardinality(Bearers(ino)) + 1 <= table[ino].links
         /\ \A g : Owed(g) = IF g = ino THEN 1 ELSE 0
         /\ ino \in Base <=> Bearers(ino) # {}
<1>1. torn = {}
  BY DEF SafeInv, TornInv, NoOp
<1>2. Hole = {} /\ Flight = {} /\ Pending = {} /\ Firm = Spots /\ Live = Base \cup {ino}
  BY DEF Hole, Removing, Flight, Pending, Firm, Live
<1>3. ino # Root /\ \A p \in Spots : p[1] # ino
  BY DEF SafeInv, RemoveInv
<1>4. fd[ino] = table[ino] /\ table[ino] \in FdRec /\ Sound(ino)
  BY <1>2, LiveSound DEF SafeInv, IInv, MemInv, TypeOK, FilesInv
<1>5. \A g : Owed(g) = IF g = ino THEN 1 ELSE 0
  BY DEF Owed, Appending, Writes, Removing
<1>6. Cardinality(Bearers(ino)) + 1 <= table[ino].links
  BY <1>1, <1>2, <1>3, <1>5 DEF SafeInv, CountInv, Count
<1>7. ino \in Base <=> Bearers(ino) # {}
  BY <1>2, <1>3 DEF Base, Bearers
<1> QED BY <1>1, <1>2, <1>3, <1>4, <1>5, <1>6, <1>7

(* The last name gone, the file is taken out of the living: no entry leads *)
(* to it, and its blocks are those that ffs_clear_fd will free.            *)
LEMMA LastNameSafe ==
  ASSUME SafeInv, IInv', DecLinks, op' = [op EXCEPT !.pc = "clear", !.k = 1],
         fd[op.ino].links - 1 = 0, UNCHANGED table
  PROVE  SafeInv'
<1>0. PICK ino \in Fd : ino = op.ino
  BY DEF SafeInv, IInv, TypeOK, OpRec
<1>1. /\ op.pc = "dec" /\ torn' = torn /\ crashes' = crashes /\ op \in OpRec
      /\ fbm \subseteq Fd /\ fd' = [fd EXCEPT ![ino] = [fd[ino] EXCEPT !.links = @ - 1]]
      /\ UNCHANGED <<bbm, fbm, index, cells, table>> /\ TypeOK /\ TypeOK'
  BY <1>0 DEF DecLinks, Continue, SafeInv, IInv, TypeOK
<1>2. op'.pc = "clear" /\ op'.ino = ino /\ op'.k = 1
  BY <1>0, <1>1 DEF OpRec
<1>3. /\ torn = {} /\ Hole = {} /\ Flight = {} /\ Pending = {} /\ Firm = Spots
      /\ Live = Base \cup {ino} /\ Sound(ino)
      /\ fd[ino] = table[ino] /\ table[ino] \in FdRec
      /\ Cardinality(Bearers(ino)) + 1 <= table[ino].links
      /\ \A g : Owed(g) = IF g = ino THEN 1 ELSE 0
      /\ ino \in Base <=> Bearers(ino) # {}
  BY <1>0, <1>1, InDec
<1>4. ino \notin Base
  <2>1. IsFiniteSet(Bearers(ino)) /\ Cardinality(Bearers(ino)) \in Nat
    BY <1>1, CountsAre DEF CountsOK
  <2>2. table[ino].links = 1
    BY <1>0, <1>3 DEF FdRec
  <2>3. Cardinality(Bearers(ino)) = 0
    BY <1>3, <2>1, <2>2
  <2> QED BY <1>3, <2>1, <2>3, FS_EmptySet
<1>5. fd'[ino].datablock = table[ino].datablock
  BY <1>1, <1>3 DEF FdRec, TypeOK
<1>6. SameEntries /\ Dirs' = Dirs /\ Base \subseteq fbm
  BY <1>1, DiskFrame, LiveSound
<1>7. /\ Hole' = {} /\ Flight' = Owned(ino) /\ Pending' = {ino} /\ \A g \in Base : Owed(g)' = 0
      /\ ~ Appending' /\ ~ Removing' /\ ~ Filling' /\ ~ Writes' /\ ~ Adding'
  <2>1. Flight' = Owned(ino)
    <3>1. /\ Datablock(op.ino)' = table[ino].datablock
          /\ FIndex' = index[table[ino].datablock]
      BY <1>1, <1>2, <1>5 DEF Datablock, FIndex
    <3> QED BY <1>2, <3>1 DEF Flight, Owned, Listed
  <2> QED BY <1>2, <1>4, <2>1
          DEF Hole, Removing, Pending, Appending, Filling, Writes, Adding, Owed
<1>8. /\ Base' = Base /\ DirTree(table)' = DirTree(table)
      /\ \A g \in Fd : Bearers(g)' = Bearers(g)
      /\ CellsInv' /\ ReachInv' /\ NamesInv' /\ HoleInv'
  BY <1>1, <1>3, <1>6, <1>7, NamesFrame
<1>9. Live' = Base /\ Live' \subseteq Live /\ Live \subseteq Fd
  BY <1>1, <1>2, <1>3, <1>6, <1>8 DEF Live
<1>10. \A g \in Live : Sound(g)
  BY DEF SafeInv, FilesInv
<1>11. FilesInv' /\ \A g \in Live : Owned(g)' = Owned(g)
  BY <1>1, <1>6, <1>9, <1>10, DiskFrame, FilesFrame DEF Sound, SafeInv, FilesInv
<1>12. FlightInv'
  <2>1. \A g \in Base : Owned(ino) \cap Owned(g) = {}
    BY <1>3, <1>4 DEF SafeInv, FilesInv
  <2> QED BY <1>2, <1>3, <1>7, <1>9, <1>11, <2>1 DEF FlightInv, Sound
<1>13. PendingInv'
  <2>1. Datablock(op.ino)' = table[ino].datablock /\ {ino} \subseteq fbm
    BY <1>2, <1>3, <1>5 DEF Datablock, Sound
  <2> QED BY <1>1, <1>2, <1>3, <1>4, <1>7, <1>8, <2>1 DEF PendingInv, Sound
<1>14. WriteInv' /\ AppendInv' /\ RemoveInv' /\ DirInv' /\ AbsentInv'
  BY <1>2, <1>7 DEF WriteInv, AppendInv, RemoveInv, DirInv, AbsentInv
<1>15. CountInv' /\ LostInv'
  <2>1. \A g \in Live' : Count(g)' = Count(g)
    BY <1>3, <1>4, <1>7, <1>8, <1>9 DEF Count
  <2>2. \A g \in fbm' : g \in Lost \/ g \in (Live \cup Pending)'
    BY <1>1, <1>3, <1>7, <1>9 DEF Lost, Exact
  <2> QED BY <1>1, <1>2, <1>9, <2>1, <2>2, CountFrame
<1>16. MarksInv'
  <2>1. bbm \subseteq (0 .. Service - 1) \cup UNION {Owned(g) : g \in Live} \/ crashes # 0
    BY <1>1, <1>3 DEF SafeInv, MarksInv
  <2>2. UNION {Owned(g) : g \in Live} = Owned(ino) \cup UNION {Owned(g)' : g \in Live'}
    BY <1>3, <1>9, <1>11
  <2> QED BY <1>1, <1>7, <2>1, <2>2 DEF MarksInv
<1>17. TornInv'
  BY <1>1, <1>3 DEF TornInv
<1> QED BY <1>8, <1>11, <1>12, <1>13, <1>14, <1>15, <1>16, <1>17 DEF SafeInv

(* One name less, and others left: the count follows the entry.            *)
LEMMA OneNameLessSafe ==
  ASSUME SafeInv, IInv', DecLinks, fd[op.ino].links - 1 # 0, op' = NoOp,
         table' = [table EXCEPT ![op.ino] = [fd[op.ino] EXCEPT !.links = @ - 1]]
  PROVE  SafeInv' /\ SameEntries
<1>0. PICK ino \in Fd : ino = op.ino
  BY DEF SafeInv, IInv, TypeOK, OpRec
<1>1. /\ op.pc = "dec" /\ torn' = torn /\ crashes' = crashes
      /\ fbm \subseteq Fd /\ table' = [table EXCEPT ![ino] = [fd[ino] EXCEPT !.links = @ - 1]]
      /\ UNCHANGED <<bbm, fbm, index, cells, inodes>> /\ TypeOK /\ TypeOK' /\ op'.pc = "idle"
  BY <1>0 DEF DecLinks, Continue, SafeInv, IInv, TypeOK, NoOp
<1>2. /\ torn = {} /\ Hole = {} /\ Flight = {} /\ Pending = {} /\ Firm = Spots
      /\ Live = Base \cup {ino} /\ ino # Root
      /\ fd[ino] = table[ino] /\ table[ino] \in FdRec
      /\ Cardinality(Bearers(ino)) + 1 <= table[ino].links
      /\ \A g : Owed(g) = IF g = ino THEN 1 ELSE 0
      /\ ino \in Base <=> Bearers(ino) # {}
  BY <1>0, <1>1, InDec
<1>3. Base \subseteq fbm /\ Live \subseteq fbm
  BY LiveSound
<1>4. /\ Hole' = {} /\ Flight' = {} /\ Pending' = {} /\ Live' = Base' /\ \A g : Owed(g)' = 0
  BY <1>1 DEF Hole, Removing, Flight, Pending, Live, Owed, Appending, Writes
<1>5. /\ \A g \in Fd \ {ino} : table'[g] = table[g]
      /\ table'[ino].links = table[ino].links - 1 /\ table[ino].links \in Int
      /\ \A g \in Fd : /\ table'[g].type = table[g].type /\ table'[g].size = table[g].size
                       /\ table'[g].datablock = table[g].datablock
  <2>1. table' = [table EXCEPT ![ino] = [table[ino] EXCEPT !.links = @ - 1]]
    BY <1>1, <1>2
  <2>2. /\ table'[ino] = [table[ino] EXCEPT !.links = @ - 1]
        /\ \A g \in Fd \ {ino} : table'[g] = table[g]
    BY <1>1, <2>1 DEF TypeOK
  <2>3. /\ table'[ino].type = table[ino].type /\ table'[ino].size = table[ino].size
        /\ table'[ino].datablock = table[ino].datablock
        /\ table'[ino].links = table[ino].links - 1 /\ table[ino].links \in Int
    BY <1>2, <2>2 DEF FdRec
  <2> QED BY <2>2, <2>3
<1>6. SameEntries /\ Dirs' = Dirs /\ \A g \in Fd : List(g)' = List(g)
  BY <1>1, <1>5, LinksFrame
<1>7. /\ Base' = Base /\ DirTree(table)' = DirTree(table)
      /\ \A g \in Fd : Bearers(g)' = Bearers(g)
      /\ CellsInv' /\ ReachInv' /\ NamesInv' /\ HoleInv'
  BY <1>1, <1>2, <1>3, <1>4, <1>6, NamesFrame
<1>8. Live' = Base /\ Live' \subseteq Live /\ Live \subseteq Fd
  BY <1>1, <1>2, <1>3, <1>4, <1>7
<1>9. \A g \in Live : Sound(g)
  BY DEF SafeInv, FilesInv
<1>10. FilesInv' /\ \A g \in Live : Owned(g)' = Owned(g)
  BY <1>1, <1>5, <1>6, <1>8, <1>9, FilesFrame DEF Sound, SafeInv, FilesInv
<1>11. /\ FlightInv' /\ PendingInv' /\ AppendInv' /\ AbsentInv' /\ WriteInv' /\ DirInv'
       /\ RemoveInv'
  BY <1>1, <1>4 DEF FlightInv, PendingInv, AppendInv, AbsentInv, WriteInv, DirInv, RemoveInv,
     Adding, Appending, Removing, Filling, Writes
<1>12. ino \in Base \/ ino \in Lost
  <2> SUFFICES ASSUME ino \notin Base PROVE ino \in Lost
    OBVIOUS
  <2>1. Cardinality(Bearers(ino)) = 0
    BY <1>2, FS_EmptySet
  <2>2. table[ino].links # 1 /\ table[ino].links \in Int
    BY <1>0, <1>2 DEF FdRec
  <2>3. Count(ino) = 1 /\ table[ino].links > 1
    BY <1>2, <2>1, <2>2 DEF Count
  <2> QED BY <1>2, <1>3, <2>2, <2>3 DEF Lost, Exact
<1>13. CountInv' /\ LostInv'
  <2>1. ASSUME NEW g \in Fd PROVE Count(g)' - table'[g].links = Count(g) - table[g].links
    <3>1. Cardinality(Bearers(g)) \in Nat
      BY <1>1, CountsAre DEF CountsOK
    <3>2. CASE g = ino
      <4> DEFINE n == Cardinality(Bearers(g))
                 l == table[g].links
      <4>1. Count(g)' = n + 0 /\ Count(g) = n + 1
        BY <1>2, <1>4, <1>7, <3>2 DEF Count
      <4>2. table'[g].links = l - 1 /\ l \in Int /\ n \in Nat
        BY <1>5, <3>1, <3>2
      <4>3. n + 0 - (l - 1) = n + 1 - l
        BY <4>2
      <4> HIDE DEF n
      <4> QED BY <4>1, <4>2, <4>3
    <3>3. CASE g # ino
      BY <1>2, <1>4, <1>5, <1>7, <3>3 DEF Count
    <3> QED BY <3>2, <3>3
  <2>2. \A g \in fbm' : g \in Lost \/ g \in (Live \cup Pending)'
    <3> SUFFICES ASSUME NEW g \in fbm', g \notin Lost PROVE g \in (Live \cup Pending)'
      OBVIOUS
    <3>1. g \in Live
      BY <1>1, <1>2 DEF Lost, Exact
    <3> QED BY <1>2, <1>8, <1>12, <3>1
  <2> QED BY <1>1, <1>8, <2>1, <2>2, CountFrame
<1>14. MarksInv'
  <2> SUFFICES ASSUME crashes = 0
               PROVE  bbm \subseteq (0 .. Service - 1) \cup UNION {Owned(g)' : g \in Live'}
    BY <1>1, <1>4 DEF MarksInv
  <2>1. Lost = {}
    <3>1. Cardinality(Lost) <= 0
      BY <1>1 DEF SafeInv, LostInv
    <3>2. IsFiniteSet(Lost) /\ Cardinality(Lost) \in Nat
      BY <1>1, LostFinite, FS_CardinalityType
    <3> QED BY <3>1, <3>2, FS_EmptySet
  <2>2. Live = Live'
    BY <1>2, <1>8, <1>12, <2>1
  <2>3. bbm \subseteq (0 .. Service - 1) \cup UNION {Owned(g) : g \in Live}
    BY <1>1, <1>2 DEF SafeInv, MarksInv
  <2> QED BY <1>10, <2>2, <2>3
<1>15. TornInv'
  BY <1>1, <1>2 DEF TornInv
<1> QED BY <1>6, <1>7, <1>10, <1>11, <1>13, <1>14, <1>15 DEF SafeInv

(* ffs_unlink counts the name it has removed.                              *)
LEMMA DecLinksSafe ==
  ASSUME SafeInv, IInv', DecLinks
  PROVE  SafeInv'
<1>1. \/ /\ fd[op.ino].links - 1 = 0
         /\ op' = [op EXCEPT !.pc = "clear", !.k = 1] /\ UNCHANGED table
      \/ /\ fd[op.ino].links - 1 # 0 /\ op' = NoOp
         /\ table' = [table EXCEPT ![op.ino] = [fd[op.ino] EXCEPT !.links = @ - 1]]
  <2>1. fd[op.ino] \in FdRec
    BY DEF SafeInv, IInv, TypeOK, OpRec
  <2> QED BY <2>1 DEF DecLinks, FdRec
<1> QED BY <1>1, LastNameSafe, OneNameLessSafe

(* ffs_clear_fd frees blocks that no live file owns.                       *)
LEMMA ClearBlockSafe ==
  ASSUME SafeInv, IInv', ClearBlock, ~ Oops
  PROVE  SafeInv'
<1>0. PICK ino \in Fd, k \in Nat, b \in Block : ino = op.ino /\ k = op.k /\ b = FIndex[op.k]
  BY DEF ClearBlock, SafeInv, IInv, TypeOK, OpRec
<1>1. /\ op.pc = "clear" /\ k \in 1 .. Len(FIndex) /\ torn' = torn /\ crashes' = crashes
      /\ bbm' = bbm \ {b} /\ op' = [op EXCEPT !.k = @ + 1] /\ op \in OpRec
      /\ UNCHANGED <<fbm, index, cells, table, fd>> /\ fbm \subseteq Fd /\ TypeOK /\ TypeOK'
  BY <1>0 DEF ClearBlock, Continue, SafeInv, IInv, TypeOK
<1>2. op'.pc = "clear" /\ op'.ino = ino /\ op'.k = k + 1
  BY <1>0, <1>1 DEF OpRec
<1>3. torn = {}
  BY <1>1 DEF SafeInv, TornInv, NoOp
<1>4. SameEntries /\ Dirs' = Dirs /\ Base \subseteq fbm
  BY <1>1, DiskFrame, LiveSound
<1>5. /\ Hole = {} /\ Pending = {ino} /\ Live = Base /\ \A g : Owed(g) = 0
      /\ Hole' = {} /\ Pending' = {ino} /\ \A g : Owed(g)' = 0
      /\ ~ Appending' /\ ~ Removing' /\ ~ Filling' /\ ~ Writes' /\ ~ Adding'
  BY <1>0, <1>1, <1>2
     DEF Hole, Removing, Pending, Live, Owed, Appending, Filling, Writes, Adding
<1>6. b \in Flight /\ Flight' \subseteq Flight /\ Flight \subseteq Flight' \cup {b}
  <2>1. FIndex' = FIndex /\ Datablock(op.ino)' = Datablock(op.ino)
    BY <1>0, <1>1, <1>2 DEF FIndex, Datablock
  <2>2. /\ Flight = ({Datablock(op.ino)} \cup {FIndex[i] : i \in k .. Len(FIndex)}) \ {NoBlock}
        /\ Flight' = ({Datablock(op.ino)} \cup {FIndex[i] : i \in k + 1 .. Len(FIndex)})
                        \ {NoBlock}
    BY <1>0, <1>1, <1>2, <2>1 DEF Flight
  <2>3. k \in k .. Len(FIndex) /\ k + 1 .. Len(FIndex) \subseteq k .. Len(FIndex)
        /\ \A i \in k .. Len(FIndex) : i = k \/ i \in k + 1 .. Len(FIndex)
    BY <1>1
  <2>4. b # NoBlock
    BY SizesAssumption DEF Block, NoBlock
  <2> QED BY <1>0, <2>2, <2>3, <2>4
<1>7. /\ Base' = Base /\ DirTree(table)' = DirTree(table)
      /\ \A g \in Fd : Bearers(g)' = Bearers(g)
      /\ CellsInv' /\ ReachInv' /\ NamesInv' /\ HoleInv'
  BY <1>1, <1>4, <1>5, NamesFrame
<1>8. Live' = Live /\ Live \subseteq Fd
  BY <1>1, <1>2, <1>4, <1>5, <1>7 DEF Live
<1>9. \A g \in Live : Sound(g) /\ b \notin Owned(g)
  BY <1>6 DEF SafeInv, FilesInv, FlightInv
<1>10. FilesInv' /\ \A g \in Live : Owned(g)' = Owned(g)
  <2>1. 0 .. Service - 1 \subseteq bbm' /\ Root \in Dirs
    BY <1>1, <1>6 DEF SafeInv, FilesInv, FlightInv
  <2> QED BY <1>1, <1>4, <1>8, <1>9, <2>1, DiskFrame, FilesFrame DEF Sound
<1>11. FlightInv'
  BY <1>2, <1>6, <1>8, <1>10 DEF SafeInv, FlightInv
<1>12. PendingInv'
  BY <1>1, <1>2, <1>5, <1>7 DEF SafeInv, PendingInv, Datablock
<1>13. WriteInv' /\ AppendInv' /\ RemoveInv' /\ DirInv' /\ AbsentInv'
  BY <1>2, <1>5 DEF WriteInv, AppendInv, RemoveInv, DirInv, AbsentInv
<1>14. CountInv' /\ LostInv'
  <2>1. \A g \in Fd : Count(g)' = Count(g)
    BY <1>5, <1>7 DEF Count
  <2>2. \A g \in fbm' : g \in Lost \/ g \in (Live \cup Pending)'
    BY <1>1, <1>5, <1>8 DEF Lost, Exact
  <2> QED BY <1>1, <1>2, <1>8, <2>1, <2>2, CountFrame
<1>15. MarksInv'
  <2>1. bbm \subseteq (0 .. Service - 1) \cup Flight \cup UNION {Owned(g) : g \in Live}
          \/ crashes # 0
    BY <1>1 DEF SafeInv, MarksInv
  <2>2. UNION {Owned(g)' : g \in Live'} = UNION {Owned(g) : g \in Live}
    BY <1>8, <1>10
  <2> QED BY <1>1, <1>6, <2>1, <2>2 DEF MarksInv
<1>16. TornInv'
  BY <1>1, <1>3 DEF TornInv
<1> QED BY <1>7, <1>10, <1>11, <1>12, <1>13, <1>14, <1>15, <1>16 DEF SafeInv

(* The index is freed last: then the file has no block in hand.            *)
LEMMA ClearIndexSafe ==
  ASSUME SafeInv, IInv', ClearIndex
  PROVE  SafeInv'
<1>0. PICK ino \in Fd, k \in Nat : ino = op.ino /\ k = op.k
  BY DEF SafeInv, IInv, TypeOK, OpRec
<1> DEFINE b == Datablock(op.ino)
<1>1. /\ op.pc = "clear" /\ k > Len(FIndex) /\ torn' = torn /\ crashes' = crashes
      /\ bbm' = bbm \ {b} /\ op \in OpRec
      /\ UNCHANGED <<fbm, index, cells, table, fd>> /\ fbm \subseteq Fd /\ TypeOK /\ TypeOK'
  BY <1>0 DEF ClearIndex, Continue, SafeInv, IInv, TypeOK
<1>2. op'.pc = "clear_fd" /\ op'.ino = ino
  BY <1>0, <1>1, GotoKeeps DEF ClearIndex
<1>3. torn = {}
  BY <1>1 DEF SafeInv, TornInv, NoOp
<1>4. SameEntries /\ Dirs' = Dirs /\ Base \subseteq fbm
  BY <1>1, DiskFrame, LiveSound
<1>5. /\ Hole = {} /\ Pending = {ino} /\ Live = Base /\ \A g : Owed(g) = 0
      /\ Hole' = {} /\ Pending' = {ino} /\ Flight' = {} /\ \A g : Owed(g)' = 0
      /\ ~ Appending' /\ ~ Removing' /\ ~ Filling' /\ ~ Writes' /\ ~ Adding'
  BY <1>0, <1>1, <1>2
     DEF Hole, Removing, Pending, Flight, Live, Owed, Appending, Filling, Writes, Adding
<1>6. Flight = {b} /\ b \in Block
  <2>1. b \in Block /\ NoBlock \notin Block
    BY <1>1, SizesAssumption DEF SafeInv, PendingInv, Block, NoBlock
  <2>2. Len(FIndex) \in Nat
    BY <1>1, <2>1 DEF FIndex, TypeOK
  <2>3. k .. Len(FIndex) = {}
    BY <1>1, <2>2
  <2> QED BY <1>0, <1>1, <2>1, <2>3 DEF Flight
<1>7. /\ Base' = Base /\ DirTree(table)' = DirTree(table)
      /\ \A g \in Fd : Bearers(g)' = Bearers(g)
      /\ CellsInv' /\ ReachInv' /\ NamesInv' /\ HoleInv'
  BY <1>1, <1>4, <1>5, NamesFrame
<1>8. Live' = Live /\ Live \subseteq Fd
  BY <1>1, <1>2, <1>4, <1>5, <1>7 DEF Live
<1>9. \A g \in Live : Sound(g) /\ b \notin Owned(g)
  BY <1>6 DEF SafeInv, FilesInv, FlightInv
<1>10. FilesInv' /\ \A g \in Live : Owned(g)' = Owned(g)
  <2>1. 0 .. Service - 1 \subseteq bbm' /\ Root \in Dirs
    BY <1>1, <1>6 DEF SafeInv, FilesInv, FlightInv
  <2> QED BY <1>1, <1>4, <1>8, <1>9, <2>1, DiskFrame, FilesFrame DEF Sound
<1>11. FlightInv' /\ WriteInv' /\ AppendInv' /\ RemoveInv' /\ DirInv' /\ AbsentInv'
  BY <1>2, <1>5 DEF FlightInv, WriteInv, AppendInv, RemoveInv, DirInv, AbsentInv
<1>12. PendingInv'
  BY <1>1, <1>2, <1>5, <1>7 DEF SafeInv, PendingInv
<1>13. CountInv' /\ LostInv'
  <2>1. \A g \in Fd : Count(g)' = Count(g)
    BY <1>5, <1>7 DEF Count
  <2>2. \A g \in fbm' : g \in Lost \/ g \in (Live \cup Pending)'
    BY <1>1, <1>5, <1>8 DEF Lost, Exact
  <2> QED BY <1>1, <1>2, <1>8, <2>1, <2>2, CountFrame
<1>14. MarksInv'
  <2>1. bbm \subseteq (0 .. Service - 1) \cup Flight \cup UNION {Owned(g) : g \in Live}
          \/ crashes # 0
    BY <1>1 DEF SafeInv, MarksInv
  <2>2. UNION {Owned(g)' : g \in Live'} = UNION {Owned(g) : g \in Live}
    BY <1>8, <1>10
  <2> QED BY <1>1, <1>6, <2>1, <2>2 DEF MarksInv
<1>15. TornInv'
  BY <1>1, <1>3 DEF TornInv
<1> QED BY <1>7, <1>10, <1>11, <1>12, <1>13, <1>14, <1>15 DEF SafeInv

(* The descriptor is freed: it leads nowhere and nothing leads to it.      *)
LEMMA ClearFdSafe ==
  ASSUME SafeInv, IInv', ClearFd
  PROVE  SafeInv'
<1>0. PICK ino \in Fd : ino = op.ino
  BY DEF SafeInv, IInv, TypeOK, OpRec
<1>1. /\ op.pc = "clear_fd" /\ torn' = torn /\ crashes' = crashes
      /\ fbm' = fbm \ {ino} /\ op' = NoOp /\ op'.pc = "idle"
      /\ UNCHANGED <<bbm, index, cells, table, fd>> /\ fbm \subseteq Fd /\ TypeOK /\ TypeOK'
  BY <1>0 DEF ClearFd, Continue, SafeInv, IInv, TypeOK, NoOp
<1>2. /\ Hole = {} /\ Pending = {ino} /\ Flight = {} /\ Live = Base /\ \A g : Owed(g) = 0
  BY <1>0, <1>1 DEF Hole, Removing, Pending, Flight, Live, Owed, Appending, Writes
<1>3. /\ Hole' = {} /\ Pending' = {} /\ Flight' = {} /\ Live' = Base' /\ \A g : Owed(g)' = 0
  BY <1>1 DEF Hole, Removing, Pending, Flight, Live, Owed, Appending, Writes
<1>4. SameEntries /\ Dirs' = Dirs /\ Base \subseteq fbm'
  BY <1>1, <1>2, DiskFrame, LiveSound DEF SafeInv, PendingInv
<1>5. /\ Base' = Base /\ DirTree(table)' = DirTree(table)
      /\ \A g \in Fd : Bearers(g)' = Bearers(g)
      /\ CellsInv' /\ ReachInv' /\ NamesInv' /\ HoleInv'
  BY <1>1, <1>2, <1>3, <1>4, NamesFrame
<1>6. Live' = Live /\ Live \subseteq fbm' /\ Live \subseteq Fd
  BY <1>1, <1>2, <1>3, <1>4, <1>5
<1>7. \A g \in Live : Sound(g)
  BY DEF SafeInv, FilesInv
<1>8. FilesInv' /\ \A g \in Live : Owned(g)' = Owned(g)
  <2>1. 0 .. Service - 1 \subseteq bbm' /\ (Root \in Dirs)'
    BY <1>1, <1>4 DEF SafeInv, FilesInv
  <2> QED BY <1>1, <1>6, <1>7, <2>1, DiskFrame, FilesFrame DEF Sound
<1>9. /\ FlightInv' /\ PendingInv' /\ AppendInv' /\ AbsentInv' /\ WriteInv' /\ DirInv'
      /\ RemoveInv'
  BY <1>1, <1>3 DEF FlightInv, PendingInv, AppendInv, AbsentInv, WriteInv, DirInv, RemoveInv,
     Adding, Appending, Removing, Filling, Writes
<1>10. CountInv' /\ LostInv'
  <2>1. \A g \in Fd : Count(g)' = Count(g)
    BY <1>2, <1>3, <1>5 DEF Count
  <2>2. \A g \in fbm' : g \in Lost \/ g \in (Live \cup Pending)'
    BY <1>1, <1>2, <1>6 DEF Lost, Exact
  <2> QED BY <1>1, <1>6, <2>1, <2>2, CountFrame
<1>11. MarksInv'
  BY <1>1, <1>2, <1>3, <1>6, <1>8 DEF SafeInv, MarksInv
<1>12. TornInv'
  BY <1>1 DEF SafeInv, TornInv, NoOp
<1> QED BY <1>5, <1>8, <1>9, <1>10, <1>11, <1>12 DEF SafeInv

(* A crash costs the descriptor of the operation it cuts, and no other.    *)
LEMMA CrashLoses ==
  ASSUME SafeInv, IInv', Crash, NEW ino \in Fd, ino = op.ino,
         Live' = Base, Pending' = {}, Base' = Base, \A g : Owed(g)' = 0,
         \A g \in Fd : Bearers(g)' = {p \in Spots : At(p).fd = g}
  PROVE  LostInv'
<1>1. /\ crashes' = crashes + 1 /\ UNCHANGED <<fbm, table>> /\ op'.pc = "idle"
      /\ TypeOK /\ TypeOK' /\ fbm \subseteq Fd /\ crashes \in Nat
  BY DEF Crash, disk, NoOp, SafeInv, IInv, TypeOK
<1>2. ASSUME NEW g \in Lost', g # ino PROVE g \in Lost \ {ino}
  <2>1. g \in fbm /\ g \in Fd /\ Owed(g) = 0 /\ g \notin Pending
    BY <1>1, <1>2 DEF Lost, Owed, Pending
  <2>2. g \in Live <=> g \in Base
    BY <1>2 DEF Live
  <2>3. CASE g \notin Base
    BY <1>2, <2>1, <2>2, <2>3 DEF Lost, Exact
  <2>4. CASE g \in Base
    <3> DEFINE n == Cardinality(Bearers(g))
               m == Cardinality(Bearers(g)')
    <3>1. g # Root /\ ~ (Count(g)' >= table[g].links)
      BY <1>1, <1>2, <2>1, <2>4 DEF Lost, Exact
    <3>2. Count(g)' = m + 0 /\ Count(g) = n + 0
      BY <2>1 DEF Count
    <3>3. /\ IsFiniteSet(Bearers(g)') /\ n \in Nat /\ m \in Nat /\ table[g].links \in Int
      BY <1>1, <2>1, CountsAre, CountsAreNext DEF CountsOK, TypeOK, FdRec
    <3>4. Bearers(g) \subseteq Bearers(g)'
      BY <2>1 DEF Bearers, Firm
    <3>5. n <= m
      BY <3>3, <3>4, FS_Subset
    <3> HIDE DEF n, m
    <3>6. ~ (Count(g) >= table[g].links)
      BY <3>1, <3>2, <3>3, <3>5
    <3> QED BY <1>2, <2>1, <2>2, <2>4, <3>1, <3>6 DEF Lost, Exact
  <2> QED BY <2>3, <2>4
<1> DEFINE old == Lost \ {ino}
           new == Lost'
<1>3. IsFiniteSet(Lost) /\ Cardinality(Lost) \in Nat
  BY <1>1, LostFinite, FS_CardinalityType
<1>4. IsFiniteSet(old) /\ Cardinality(old) \in Nat /\ Cardinality(old) <= Cardinality(Lost)
  <2>1. old \subseteq Lost
    OBVIOUS
  <2> HIDE DEF old
  <2> QED BY <1>3, <2>1, FS_Subset, FS_CardinalityType
<1>5. Cardinality(old) <= crashes
  <2> HIDE DEF old
  <2> QED BY <1>1, <1>3, <1>4 DEF SafeInv, LostInv, old
<1>6. new \subseteq old \cup {ino} /\ ino \notin old
  BY <1>2
<1> HIDE DEF old, new
<1>7. /\ IsFiniteSet(old \cup {ino}) /\ Cardinality(old \cup {ino}) = Cardinality(old) + 1
  BY <1>4, <1>6, FS_AddElement
<1>8. Cardinality(new) <= Cardinality(old \cup {ino}) /\ Cardinality(new) \in Nat
  BY <1>6, <1>7, FS_Subset, FS_CardinalityType
<1>9. Cardinality(new) <= crashes'
  BY <1>1, <1>4, <1>5, <1>7, <1>8
<1> QED BY <1>1, <1>9 DEF LostInv, new

(* A crash between any two disk writes, and the remount after it.          *)
LEMMA CrashSafe ==
  ASSUME SafeInv, IInv', Crash
  PROVE  SafeInv'
<1>0. PICK ino \in Fd : ino = op.ino
  BY DEF SafeInv, IInv, TypeOK, OpRec
<1>1. /\ crashes' = crashes + 1 /\ UNCHANGED <<bbm, fbm, index, cells, table>>
      /\ op' = NoOp /\ op'.pc = "idle" /\ crashes \in Nat
      /\ torn' = torn \cup {f \in Fd : Undercounted(f) \/ Doubled(f)}
      /\ TypeOK /\ TypeOK' /\ fbm \subseteq Fd
  BY DEF Crash, disk, NoOp, SafeInv, IInv, TypeOK
<1>2. SameEntries /\ Dirs' = Dirs /\ Base \subseteq fbm /\ Base \subseteq Live /\ PlacesOK
  BY <1>1, DiskFrame, LiveSound
<1>3. /\ Hole' = {} /\ Flight' = {} /\ Pending' = {} /\ Live' = Base' /\ \A g : Owed(g)' = 0
  BY <1>1 DEF Hole, Removing, Pending, Flight, Live, Owed, Appending, Writes
<1>4. Base' = Base /\ DirTree(table)' = DirTree(table) /\ CellsInv' /\ ReachInv'
  BY <1>1, <1>2, TreeFrame
<1>5. Live' = Base /\ Firm' = Spots
  BY <1>2, <1>3, <1>4 DEF Firm, SameEntries
<1>6. \A g \in Fd : Bearers(g)' = {p \in Spots : At(p).fd = g}
  BY <1>2, <1>5 DEF Bearers, SameEntries
<1>7. \A g \in Live : Sound(g)
  BY DEF SafeInv, FilesInv
<1>8. FilesInv'
  <2>1. 0 .. Service - 1 \subseteq bbm' /\ (Root \in Dirs)'
    BY <1>1, <1>2 DEF SafeInv, FilesInv
  <2> QED BY <1>1, <1>2, <1>5, <1>7, <2>1, DiskFrame, FilesFrame DEF Sound
<1>9. /\ FlightInv' /\ PendingInv' /\ AppendInv' /\ AbsentInv' /\ WriteInv' /\ DirInv'
      /\ RemoveInv' /\ HoleInv' /\ MarksInv'
  BY <1>1, <1>3 DEF FlightInv, PendingInv, AppendInv, AbsentInv, WriteInv, DirInv, RemoveInv,
     HoleInv, MarksInv, Adding, Appending, Removing, Filling, Writes
<1>10. NamesInv'
  <2>1. \A p, q \in Spots : p[1] = q[1] /\ At(p).name = At(q).name => At(p) = At(q)
    BY DEF SafeInv, NamesInv
  <2>2. ASSUME torn' = {}, NEW p \in Spots, NEW q \in Spots,
               p[1] = q[1], At(p).name = At(q).name
        PROVE  p = q
    <3>1. PICK f \in Fd : f = At(p).fd
      BY DEF SafeInv, CellsInv
    <3>2. ~ Doubled(f)
      BY <1>1, <2>2
    <3>3. p \in Places(table) /\ q \in Places(table)
      BY <1>2 DEF PlacesOK
    <3>4. At(p) = At(q)
      BY <2>1, <2>2
    <3> QED BY <2>2, <3>1, <3>2, <3>3, <3>4 DEF Doubled, At
  <2> QED BY <1>2, <1>5, <2>1, <2>2 DEF NamesInv, SameEntries
<1>11. CountInv'
  <2> SUFFICES ASSUME torn' = {}, NEW g \in Base \ {Root} PROVE Count(g)' <= table[g].links
    BY <1>1, <1>5 DEF CountInv
  <2>1. g \in Fd
    BY <1>1, <1>2
  <2>2. ~ Undercounted(g)
    BY <1>1, <2>1
  <2>3. Entries(table, g) = Cardinality(Bearers(g)')
    BY <1>2, <1>6, <2>1 DEF Entries, PlacesOK, At
  <2>4. Cardinality(Bearers(g)') \in Nat /\ table[g].links \in Int
    BY <1>1, <2>1, CountsAreNext DEF CountsOK, TypeOK, FdRec
  <2>5. Count(g)' = Cardinality(Bearers(g)') + 0
    BY <1>3 DEF Count
  <2> QED BY <2>2, <2>3, <2>4, <2>5 DEF Undercounted
<1>12. LostInv'
  BY <1>0, <1>3, <1>4, <1>5, <1>6, CrashLoses
<1>13. TornInv'
  <2>1. Places(table)' = Places(table) /\ \A d, i : CellAt(table, d, i)' = CellAt(table, d, i)
    BY <1>1, <1>4 DEF Places, CellAt
  <2>2. UNCHANGED <<table, cells, index>>
    BY <1>1
  <2>3. \A f \in Fd : (Undercounted(f) \/ Doubled(f))' => Undercounted(f) \/ Doubled(f)
    BY <2>1, <2>2 DEF Undercounted, Doubled, Entries
  <2> QED BY <1>1, <2>3 DEF TornInv
<1> QED BY <1>4, <1>8, <1>9, <1>10, <1>11, <1>12, <1>13 DEF SafeInv

-----------------------------------------------------------------------------
(* The invariant, and what follows from it.                                *)

(* A turn of file_write.  The thread does not die while it moves the tail  *)
(* of a directory: the blocks it writes to were there.                     *)
LEMMA WriteDataStepSafe ==
  ASSUME SafeInv, IInv', WriteData
  PROVE  SafeInv'
<1>1. op.pc = "file_write" /\ op.data # <<>> /\ Continue
  BY DEF WriteData
<1>2. CASE ~ Oops
  BY <1>2, WriteDataSafe, MoveDataSafe
<1>3. CASE Oops /\ ~ Removing
  BY <1>1, <1>3, OopsSafe
<1>4. CASE Oops /\ Removing
  <2>1. Writes /\ op \in OpRec
    BY <1>1 DEF Writes, SafeInv, IInv, TypeOK
  <2>2. WIndex = List(op.wino) /\ Fits(op.wino, op.pos)
    BY <1>1, <1>4, <2>1, InWrite
  <2>3. op' = [op EXCEPT !.pos = @ + Chunk, !.data = SubSeq(@, Chunk + 1, Len(@))]
    BY <2>2 DEF WriteData, Fits, WBlock
  <2>4. op'.pc = "file_write"
    BY <1>1, <2>1, <2>3 DEF OpRec
  <2>5. op'.pc = "oops"
    BY <1>4, <2>1, GotoKeeps DEF Oops
  <2> QED BY <2>4, <2>5
<1> QED BY <1>2, <1>3, <1>4

(* Every step of the driver, a crash included, keeps the invariant.        *)
LEMMA SafeNext ==
  ASSUME OpsOnTorn = FALSE \/ torn = {}, SafeInv, [Next]_vars
  PROVE  SafeInv'
<1>1. IInv'
  BY NextInv DEF SafeInv
<1>2. CASE Begin
  <2>1. torn = {}
    BY <1>2 DEF Begin, BeginCreate, BeginLink, BeginUnlink, BeginWrite, Start
  <2> QED BY <1>1, <1>2, <2>1, BeginCreateSafe, BeginLinkSafe, BeginUnlinkSafe, BeginWriteSafe
          DEF Begin
<1>3. CASE Step
  <2>1. CASE ZeroIndex
    <3>1. CASE Oops
      BY <1>1, <2>1, <3>1, OopsSafe DEF ZeroIndex, Removing
    <3> QED BY <1>1, <2>1, <3>1, ZeroIndexSafe
  <2>2. CASE WriteSize
    <3>1. Removing \/ Filling \/ Appending
      BY <2>2 DEF WriteSize, Removing, Filling, Appending, Writes
    <3> QED BY <1>1, <2>2, <3>1, MovedSizeSafe, FilledSizeSafe, AddedSizeSafe
  <2>3. CASE ClearBlock
    <3>1. CASE Oops
      BY <1>1, <2>3, <3>1, OopsSafe DEF ClearBlock, Removing
    <3> QED BY <1>1, <2>3, <3>1, ClearBlockSafe
  <2>4. CASE GetBlock \/ WriteFd
    BY <1>1, <2>4, GetBlockSafe, WriteFdSafe
  <2>5. CASE WriteAlloc \/ WriteIndex \/ WriteData
    BY <1>1, <2>5, WriteAllocSafe, WriteIndexSafe, WriteDataStepSafe
  <2>6. CASE IncLinks \/ Shrink \/ DecLinks
    BY <1>1, <2>6, IncLinksSafe, ShrinkSafe, DecLinksSafe
  <2>7. CASE ClearIndex \/ ClearFd
    BY <1>1, <2>7, ClearIndexSafe, ClearFdSafe
  <2> QED BY <1>3, <2>1, <2>2, <2>3, <2>4, <2>5, <2>6, <2>7 DEF Step
<1>4. CASE Crash
  BY <1>1, <1>4, CrashSafe
<1>5. CASE UNCHANGED vars
  BY <1>1, <1>5, StutterSafe DEF vars
<1> QED BY <1>2, <1>3, <1>4, <1>5 DEF Next

(* The image of mkfs.ffs: the root directory names two files.              *)
LEMMA InitDisk ==
  ASSUME Init
  PROVE  /\ TypeOK /\ fbm = {0, 1, 2} /\ fbm \subseteq Fd /\ bbm = 0 .. Service + 5
         /\ Dirs = {0} /\ Spots = {<<0, 0>>, <<0, 1>>} /\ Base = {0, 1, 2}
         /\ At(<<0, 0>>) = [fd |-> 1, name |-> Hello]
         /\ At(<<0, 1>>) = [fd |-> 2, name |-> World]
         /\ \A f \in {0, 1, 2} : /\ table[f].datablock = Service + f
                                 /\ List(f) = <<Service + f + 3>> /\ Service + f + 3 \in Block
                                 /\ Owned(f) = {Service + f, Service + f + 3}
                                 /\ table[f].links = 1
         /\ table[0].size = 2 /\ table[1].size = 1 /\ table[2].size = 1
<1>1. /\ TypeOK /\ fbm = {0, 1, 2} /\ fbm \subseteq Fd /\ bbm = 0 .. Service + 5
      /\ table = [f \in Fd |-> MkfsFd(f)]
      /\ index = [b \in Block |-> IF b \in Service .. Service + 2 THEN <<b + 3>> ELSE <<>>]
  BY InitInv DEF Init, IInv, TypeOK
<1>2. /\ \A f \in {0, 1, 2} : table[f].datablock = Service + f /\ table[f].links = 1
      /\ table[0].size = 2 /\ table[1].size = 1 /\ table[2].size = 1
  <2>1. \A f \in {0, 1, 2} : table[f] = MkfsFd(f)
    BY <1>1
  <2>2. Service \in Nat
    BY SizesAssumption
  <2> QED BY <2>1, <2>2 DEF MkfsFd
<1>3. Dirs = {0}
  <2>1. \A f \in Fd : table[f] = MkfsFd(f)
    BY <1>1
  <2> QED BY <1>1, <2>1 DEF Dirs, MkfsFd
<1>4. Spots = {<<0, 0>>, <<0, 1>>}
  <2>1. 0 .. table[0].size - 1 = {0, 1}
    BY <1>2
  <2> QED BY <1>3, <2>1 DEF Spots
<1>5. \A f \in {0, 1, 2} : /\ List(f) = <<Service + f + 3>> /\ Service + f + 3 \in Block
                           /\ Owned(f) = {Service + f, Service + f + 3}
  <2>1. \A f \in {0, 1, 2} : /\ Service + f \in Block /\ Service + f + 3 \in Block
                             /\ Service + f \in Service .. Service + 2
                             /\ Service + f # -1 /\ Service + f + 3 # -1
    BY SizesAssumption DEF Block
  <2>2. \A f \in {0, 1, 2} : index[table[f].datablock] = <<Service + f + 3>>
    BY <1>1, <1>2, <2>1
  <2>3. ASSUME NEW f \in {0, 1, 2} PROVE Owned(f) = {Service + f, Service + f + 3}
    <3> DEFINE s == index[table[f].datablock]
    <3>1. s = <<Service + f + 3>>
      BY <2>2
    <3> HIDE DEF s
    <3>2. Len(s) = 1 /\ s[1] = Service + f + 3
      BY <3>1
    <3>3. {s[i] : i \in 1 .. Len(s)} = {Service + f + 3}
      BY <3>2
    <3>4. Listed(f) = {Service + f + 3}
      BY <3>3 DEF Listed, s
    <3> QED BY <1>2, <2>1, <3>4 DEF Owned, NoBlock
  <2> QED BY <2>1, <2>2, <2>3 DEF List
<1>6. At(<<0, 0>>) = [fd |-> 1, name |-> Hello] /\ At(<<0, 1>>) = [fd |-> 2, name |-> World]
  <2>1. \A i \in {0, 1} : i \div PerBlock = 0 /\ i % PerBlock = i /\ i \in Slot
    BY SizesAssumption DEF Slot
  <2>2. index[table[0].datablock][1] = Service + 3 /\ Service + 3 \in Block
    <3>1. List(0) = <<Service + 0 + 3>> /\ Service + 0 + 3 \in Block /\ Service + 0 + 3 = Service + 3
      BY <1>5, SizesAssumption
    <3> QED BY <3>1 DEF List
  <2>3. \A i \in {0, 1} : CellAt(table, 0, i) = cells[Service + 3][i]
    BY <2>1, <2>2 DEF CellAt
  <2>4. \A i \in {0, 1} :
          cells[Service + 3][i] = [fd |-> i + 1, name |-> IF i = 0 THEN Hello ELSE World]
    BY <2>1, <2>2 DEF Init
  <2> QED BY <2>3, <2>4 DEF At
<1>7. Base = {0, 1, 2}
  BY <1>1, <1>4, <1>6 DEF Base, Root
<1> QED BY <1>1, <1>2, <1>3, <1>4, <1>5, <1>6, <1>7

(* That image is sound.                                                    *)
LEMMA SafeInit == Init => SafeInv
<1> SUFFICES ASSUME Init PROVE SafeInv
  OBVIOUS
<1>1. /\ TypeOK /\ fbm = {0, 1, 2} /\ fbm \subseteq Fd /\ bbm = 0 .. Service + 5
      /\ Dirs = {0} /\ Spots = {<<0, 0>>, <<0, 1>>} /\ Base = {0, 1, 2}
      /\ At(<<0, 0>>) = [fd |-> 1, name |-> Hello]
      /\ At(<<0, 1>>) = [fd |-> 2, name |-> World]
      /\ \A f \in {0, 1, 2} : /\ table[f].datablock = Service + f
                              /\ List(f) = <<Service + f + 3>> /\ Service + f + 3 \in Block
                              /\ Owned(f) = {Service + f, Service + f + 3}
                              /\ table[f].links = 1
      /\ table[0].size = 2 /\ table[1].size = 1 /\ table[2].size = 1
  BY InitDisk
<1>2. IInv /\ op.pc = "idle" /\ op = NoOp /\ torn = {} /\ crashes = 0
  BY InitInv DEF Init, NoOp
<1>3. Service \in Nat /\ PerBlock \in Nat /\ PerBlock >= 2
  BY SizesAssumption
<1>4. /\ Hole = {} /\ Flight = {} /\ Pending = {} /\ Live = Base /\ \A f : Owed(f) = 0
  BY <1>2, AtRestEmpty
<1>5. /\ Firm = Spots /\ ~ Writes /\ ~ Appending /\ ~ Removing /\ ~ Filling /\ ~ Adding
  BY <1>2, <1>4 DEF Firm, Writes, Appending, Removing, Filling, Adding
<1>6. FilesInv
  <2>1. ASSUME NEW f \in {0, 1, 2} PROVE Sound(f)
    <3> DEFINE s == List(f)
    <3>1. s = <<Service + f + 3>> /\ table[f].datablock = Service + f
      BY <1>1
    <3> HIDE DEF s
    <3>2. Len(s) = 1 /\ s[1] = Service + f + 3
      BY <3>1
    <3>3. ListedOnce(f)
      BY <1>3, <3>1, <3>2 DEF ListedOnce, s
    <3>4. ASSUME NEW i \in 0 .. table[f].size - 1 PROVE Fits(f, i)
      <4>1. i \in {0, 1}
        BY <1>1
      <4>2. i \div PerBlock = 0
        BY <1>3, <4>1
      <4> QED BY <1>1, <3>2, <4>2 DEF Fits, s
    <3>5. table[f].datablock \in Block
      BY <3>1, SizesAssumption DEF Block
    <3> QED BY <1>1, <1>3, <3>3, <3>4, <3>5 DEF Sound
  <2>2. ASSUME NEW f \in {0, 1, 2}, NEW g \in {0, 1, 2}, f # g
        PROVE  Owned(f) \cap Owned(g) = {}
    BY <1>1, <1>3, <2>2
  <2>3. 0 .. Service - 1 \subseteq bbm /\ Root \in Dirs
    BY <1>1, <1>3 DEF Root
  <2> QED BY <1>1, <1>4, <2>1, <2>2, <2>3 DEF FilesInv
<1>7. /\ FlightInv /\ PendingInv /\ AppendInv /\ AbsentInv /\ WriteInv /\ DirInv
      /\ RemoveInv /\ HoleInv
  BY <1>2, <1>4, <1>5 DEF FlightInv, PendingInv, AppendInv, AbsentInv, WriteInv, DirInv,
     RemoveInv, HoleInv
<1>8. CellsInv /\ ReachInv
  <2>1. Root \in DirTree(table)
    BY TreeClosed DEF DirTree
  <2> QED BY <1>1, <2>1 DEF CellsInv, ReachInv, Root
<1>9. NamesInv
  BY <1>1, <1>5, NamesAssumption DEF NamesInv
<1>10. \A f \in Live \ {Root} : Count(f) = table[f].links
  <2>1. Bearers(1) = {<<0, 0>>} /\ Bearers(2) = {<<0, 1>>}
    BY <1>1, <1>5 DEF Bearers
  <2>2. Cardinality(Bearers(1)) = 1 /\ Cardinality(Bearers(2)) = 1
    BY <2>1, FS_Singleton
  <2>3. Count(1) = 1 /\ Count(2) = 1
    BY <1>4, <2>2 DEF Count
  <2> QED BY <1>1, <1>4, <2>3 DEF Root
<1>11. CountInv
  BY <1>1, <1>4, <1>10 DEF CountInv
<1>12. LostInv
  <2>1. \A f \in fbm : Exact(f)
    BY <1>1, <1>4, <1>10 DEF Exact
  <2>2. Lost = {}
    BY <2>1 DEF Lost
  <2> QED BY <1>2, <2>2, FS_EmptySet DEF LostInv
<1>13. MarksInv
  <2>1. bbm \subseteq (0 .. Service - 1) \cup Owned(0) \cup Owned(1) \cup Owned(2)
    BY <1>1, <1>3
  <2> QED BY <1>1, <1>4, <2>1 DEF MarksInv
<1>14. TornInv
  BY <1>2 DEF TornInv
<1> QED BY <1>2, <1>6, <1>7, <1>8, <1>9, <1>11, <1>12, <1>13, <1>14 DEF SafeInv

(* The files that a path names are those the invariant speaks of.          *)
LEMMA NamedAre ==
  ASSUME SafeInv
  PROVE  /\ Named(table) = Base /\ Places(table) = Spots /\ Named(table) \subseteq Live
         /\ \A f \in Named(table) : Sound(f)
<1>1. Base \subseteq Live /\ PlacesOK /\ \A f \in Live : Sound(f)
  BY LiveSound DEF SafeInv, FilesInv
<1>2. Triples(table) = {<<p[1], At(p).name, At(p).fd>> : p \in Spots}
  BY <1>1 DEF Triples, PlacesOK, At
<1>3. {e[3] : e \in Triples(table)} = {At(p).fd : p \in Spots}
  <2>1. \A e \in Triples(table) : \E p \in Spots : e[3] = At(p).fd
    BY <1>2
  <2>2. ASSUME NEW p \in Spots PROVE \E e \in Triples(table) : e[3] = At(p).fd
    <3> DEFINE e == <<p[1], At(p).name, At(p).fd>>
    <3>1. e \in Triples(table)
      BY <1>2
    <3>2. e[3] = At(p).fd
      OBVIOUS
    <3> QED BY <3>1, <3>2
  <2> QED BY <2>1, <2>2
<1>4. ASSUME NEW f \in Base PROVE f = Root \/ f \in {At(p).fd : p \in Spots}
  <2> SUFFICES ASSUME f # Root, NEW p \in Spots, f = p[1] PROVE f \in {At(q).fd : q \in Spots}
    BY DEF Base
  <2>1. f \in DirTree(table)
    BY DEF SafeInv, ReachInv
  <2> DEFINE S == {Root} \cup {g \in Fd : \E q \in Spots : At(q).fd = g}
  <2>2. S \in SUBSET Fd /\ Root \in S
    BY SizesAssumption DEF Root, Fd
  <2>3. ASSUME NEW e \in Subdirs(table), e[1] \in S PROVE e[2] \in S
    <3>1. PICK d \in Fd, g \in Fd : e = <<d, g>>
      BY DEF Subdirs, SafeInv, IInv, TypeOK
    <3>2. EdgesOK
      BY LiveSound
    <3> QED BY <3>1, <3>2 DEF EdgesOK
  <2> HIDE DEF S
  <2>4. Tree(Subdirs(table)) \subseteq S
    BY <2>2, <2>3, TreeLeast
  <2> QED BY <2>1, <2>4 DEF DirTree, S
<1>5. \A p \in Spots : At(p).fd \in Base
  BY LiveSound
<1>6. Named(table) = Base
  BY <1>3, <1>4, <1>5 DEF Named, Base
<1> QED BY <1>1, <1>6 DEF PlacesOK

(* What a name leads to is live, and what is live is sound.                *)
LEMMA SafeNoDangling == SafeInv => NoDangling
BY NamedAre DEF NoDangling, Intact, Sound

(* A sound file's list covers its size.                                    *)
LEMMA SafeSizesFit == SafeInv => SizesFit
<1> SUFFICES ASSUME SafeInv PROVE SizesFit
  OBVIOUS
<1> SUFFICES ASSUME NEW f \in Intact, NEW i \in 0 .. table[f].size - 1
             PROVE  /\ i \div PerBlock < Len(List(f))
                    /\ List(f)[i \div PerBlock + 1] \in Block
  BY DEF SizesFit, List
<1>1. Sound(f)
  BY NamedAre DEF Intact
<1>2. i \div PerBlock + 1 \in 1 .. Len(List(f)) /\ List(f)[i \div PerBlock + 1] \in Block
  BY <1>1 DEF Sound, Fits
<1>3. f \in Fd
  BY LiveSound, NamedAre DEF Intact, SafeInv, IInv, TypeOK
<1>4. i \in Nat /\ Len(List(f)) \in Nat
  BY <1>1, <1>3 DEF Sound, List, SafeInv, IInv, TypeOK, FdRec
<1>5. i \div PerBlock \in Nat
  BY <1>4, DivMod
<1> QED BY <1>2, <1>4, <1>5

(* The blocks of a sound file, counted: none stands in its list twice.     *)
LEMMA OwnedCount ==
  ASSUME TypeOK, NEW f \in Fd, Sound(f)
  PROVE  Cardinality(Owned(f)) = 1 + Cardinality({i \in 1 .. Len(List(f)) : List(f)[i] # NoBlock})
<1> DEFINE s == List(f)
           I == {i \in 1 .. Len(s) : s[i] # NoBlock}
           B == {s[i] : i \in I}
           g == [i \in I |-> s[i]]
           d == table[f].datablock
<1>1. d \in Block /\ s \in Seq(Block \cup {NoBlock}) /\ d # NoBlock
  BY SizesAssumption DEF Sound, List, TypeOK, Block, NoBlock
<1>2. IsFiniteSet(I)
  <2>1. Len(s) \in Nat
    BY <1>1
  <2>2. IsFiniteSet(1 .. Len(s)) /\ I \subseteq 1 .. Len(s)
    BY <2>1, FS_Interval
  <2> HIDE DEF I
  <2> QED BY <2>2, FS_Subset
<1>3. \A i, j \in I : s[i] = s[j] => i = j
  BY DEF Sound, ListedOnce
<1>4. g \in Bijection(I, B)
  <2> HIDE DEF s, I
  <2> QED BY <1>3 DEF Bijection, Injection, IsInjective, Surjection
<1>5. IsFiniteSet(B) /\ Cardinality(B) = Cardinality(I) /\ Cardinality(B) \in Nat
  <2>1. ExistsBijection(I, B) /\ g \in Surjection(I, B)
    BY <1>4 DEF ExistsBijection, Bijection
  <2> HIDE DEF I, B, g
  <2>2. IsFiniteSet(B)
    BY <1>2, <2>1, FS_Surjection
  <2>3. Cardinality(I) = Cardinality(B)
    BY <1>2, <2>1, <2>2, FS_Bijection
  <2> QED BY <2>2, <2>3, FS_CardinalityType
<1>6. Owned(f) = B \cup {d} /\ d \notin B
  <2>1. \A i \in I : s[i] # d
    BY DEF Sound, ListedOnce
  <2>2. Owned(f) = B \cup {d}
    BY <1>1 DEF Owned, Listed, List
  <2> QED BY <2>1, <2>2
<1> HIDE DEF B, I, d
<1>7. Cardinality(Owned(f)) = Cardinality(B) + 1
  BY <1>5, <1>6, FS_AddElement
<1> QED BY <1>5, <1>7 DEF I

(* Live files share no block, so the blocks they have are as many as their *)
(* counts make together.                                                   *)
LEMMA SafeExclusiveBlocks == SafeInv => ExclusiveBlocks
<1> SUFFICES ASSUME SafeInv PROVE ExclusiveBlocks
  OBVIOUS
<1>1. /\ Intact \subseteq Live /\ Intact \subseteq Fd /\ \A f \in Intact : Sound(f)
      /\ TypeOK
  BY NamedAre, LiveSound DEF Intact, SafeInv, IInv, TypeOK
<1>2. \A f \in Intact : Owned(f) \cap (0 .. Service - 1) = {}
  BY <1>1 DEF Sound
<1>3. \A f \in Intact :
        Cardinality(Owned(f)) =
          1 + Cardinality({i \in 1 .. Len(List(f)) : List(f)[i] # NoBlock})
  BY <1>1, OwnedCount
<1>4. \A f \in Intact : \A g \in Intact \ {f} : Owned(f) \cap Owned(g) = {}
  BY <1>1 DEF SafeInv, FilesInv
<1> QED BY <1>2, <1>3, <1>4 DEF ExclusiveBlocks, List

(* At rest the entries of a file are its bearers, and nothing is owed.     *)
LEMMA RestCounts ==
  ASSUME SafeInv, AtRest, NEW f \in Named(table)
  PROVE  /\ f \in Fd /\ Count(f) = Entries(table, f) /\ Entries(table, f) \in Nat
         /\ table[f].links \in Int /\ Live = Base /\ f \in fbm /\ Firm = Spots
<1>1. op.pc = "idle"
  BY DEF AtRest
<1>2. /\ Hole = {} /\ Live = Base /\ Owed(f) = 0
  BY <1>1, AtRestEmpty
<1>3. Firm = Spots /\ Places(table) = Spots /\ f \in fbm /\ f \in Fd
  BY <1>2, LiveSound, NamedAre DEF Firm, SafeInv, IInv, TypeOK
<1>4. Entries(table, f) = Cardinality(Bearers(f))
  BY <1>3 DEF Entries, Bearers, At
<1>5. Cardinality(Bearers(f)) \in Nat /\ table[f].links \in Int
  BY <1>3, CountsAre DEF CountsOK, SafeInv, IInv, TypeOK, FdRec
<1> QED BY <1>2, <1>3, <1>4, <1>5 DEF Count

(* Without a crash nothing is lost.                                        *)
LEMMA NothingLost == ASSUME SafeInv, crashes = 0, op.pc # "oops" PROVE Lost = {}
<1>1. Cardinality(Lost) <= 0
  BY DEF SafeInv, LostInv
<1>2. IsFiniteSet(Lost) /\ Cardinality(Lost) \in Nat
  BY LostFinite, FS_CardinalityType DEF SafeInv, IInv
<1> QED BY <1>1, <1>2, FS_EmptySet

(* At rest nothing is owed: a link count is the count of entries, or ahead *)
(* of it where a crash cut a call.                                         *)
LEMMA SafeLinkCounts == SafeInv => LinkCounts
<1> SUFFICES ASSUME SafeInv PROVE LinkCounts
  OBVIOUS
<1> SUFFICES ASSUME AtRest, NEW f \in Intact \ {Root}
             PROVE  /\ table[f].links >= Entries(table, f)
                    /\ crashes = 0 => table[f].links = Entries(table, f)
  BY DEF LinkCounts
<1>1. op.pc = "idle" /\ f \in Named(table) /\ f \notin torn
  BY DEF AtRest, Intact
<1>2. /\ f \in Fd /\ Count(f) = Entries(table, f) /\ Entries(table, f) \in Nat
      /\ table[f].links \in Int /\ Live = Base /\ f \in fbm /\ f \in Live
  BY <1>1, RestCounts, NamedAre
<1>3. table[f].links >= Entries(table, f)
  <2>1. CASE torn = {}
    BY <1>1, <1>2, <2>1 DEF SafeInv, CountInv
  <2>2. CASE torn # {}
    BY <1>1, <1>2, <2>2 DEF SafeInv, TornInv, Undercounted
  <2> QED BY <2>1, <2>2
<1>4. ASSUME crashes = 0 PROVE table[f].links = Entries(table, f)
  <2>1. f \notin Lost
    BY <1>1, <1>4, NothingLost
  <2>2. Count(f) >= table[f].links
    BY <1>2, <2>1 DEF Lost, Exact
  <2> HIDE DEF Count
  <2> QED BY <1>2, <1>3, <2>2
<1> QED BY <1>3, <1>4

(* Two entries of one name exist only while an unlink moves the tail of a  *)
(* directory, or after a crash that left them torn.                        *)
LEMMA SafeUniqueNames == SafeInv => UniqueNames
<1> SUFFICES ASSUME SafeInv PROVE UniqueNames
  OBVIOUS
<1> SUFFICES ASSUME AtRest, NEW p \in Places(table), NEW q \in Places(table),
                    p[1] = q[1], At(p).name = At(q).name,
                    {At(p).fd, At(q).fd} \cap torn = {}
             PROVE  p = q
  BY DEF UniqueNames, At
<1>1. op.pc = "idle" /\ p \in Spots /\ q \in Spots
  BY NamedAre DEF AtRest
<1>2. CASE torn = {}
  BY <1>1, <1>2, RestNames
<1>3. CASE torn # {}
  <2>1. At(p) = At(q)
    BY <1>1 DEF SafeInv, NamesInv
  <2>2. PICK f \in Fd : f = At(p).fd
    BY <1>1 DEF SafeInv, CellsInv
  <2>3. ~ Doubled(f)
    BY <1>3, <2>2 DEF SafeInv, TornInv
  <2> QED BY <2>1, <2>2, <2>3 DEF Doubled, At
<1> QED BY <1>2, <1>3

(* A directory with an entry is one that a path leads to.                  *)
LEMMA SafeNothingCutOff == SafeInv => NothingCutOff
<1> SUFFICES ASSUME SafeInv, NEW d \in fbm, table[d].type = "FFS_DIR", table[d].size > 0
             PROVE  d \in DirTree(table)
  BY DEF NothingCutOff
<1>1. d \in Dirs /\ table[d].size \in Nat
  BY DEF Dirs, SafeInv, IInv, TypeOK, FdRec
<1>2. <<d, 0>> \in Spots
  BY <1>1 DEF Spots
<1> QED BY <1>2 DEF SafeInv, ReachInv

(* At rest what is marked belongs to a live file, or was lost in a crash:  *)
(* one descriptor to each.                                                 *)
LEMMA SafeNoLeak == SafeInv => NoLeak
<1> SUFFICES ASSUME SafeInv PROVE NoLeak
  OBVIOUS
<1> SUFFICES ASSUME AtRest
             PROVE  /\ crashes = 0 =>
                         /\ fbm = Named(table)
                         /\ bbm = (0 .. Service - 1) \cup UNION {Owned(f) : f \in Named(table)}
                    /\ Cardinality(fbm \ Named(table)) <= crashes
  BY DEF NoLeak, CrashCost
<1>1. /\ op.pc = "idle" /\ Flight = {} /\ Pending = {} /\ Live = Base /\ Named(table) = Base
      /\ Base \subseteq fbm /\ TypeOK
  BY AtRestEmpty, NamedAre, LiveSound DEF AtRest, SafeInv, IInv
<1>2. fbm \ Base \subseteq Lost
  BY <1>1 DEF Lost, Exact
<1>3. ASSUME crashes = 0
      PROVE  /\ fbm = Base
             /\ bbm = (0 .. Service - 1) \cup UNION {Owned(f) : f \in Base}
  <2>1. Lost = {}
    BY <1>1, <1>3, NothingLost
  <2>2. bbm \subseteq (0 .. Service - 1) \cup UNION {Owned(f) : f \in Base}
    BY <1>1, <1>3 DEF SafeInv, MarksInv
  <2>3. 0 .. Service - 1 \subseteq bbm /\ \A f \in Base : Owned(f) \subseteq bbm
    BY <1>1 DEF SafeInv, FilesInv, Sound
  <2> QED BY <1>1, <1>2, <2>1, <2>2, <2>3
<1>4. Cardinality(fbm \ Base) <= crashes
  <2> DEFINE X == fbm \ Base
  <2>1. IsFiniteSet(Lost)
    BY <1>1, LostFinite
  <2>2. X \subseteq Lost
    BY <1>2
  <2> HIDE DEF X
  <2>3. /\ Cardinality(X) <= Cardinality(Lost)
        /\ Cardinality(X) \in Nat /\ Cardinality(Lost) \in Nat
    BY <2>1, <2>2, FS_Subset, FS_CardinalityType
  <2>4. Cardinality(Lost) <= crashes /\ crashes \in Nat
    BY <1>1 DEF SafeInv, LostInv, TypeOK
  <2>5. Cardinality(X) <= crashes
    BY <2>3, <2>4
  <2> QED BY <2>5 DEF X
<1> QED BY <1>1, <1>3, <1>4

-----------------------------------------------------------------------------
(* What all this is for.                                                   *)

(* Between any two disk writes, so after any crash, a name on disk leads   *)
(* to a descriptor in use whose blocks are all marked.                     *)
THEOREM NothingDangles ==
  ASSUME OpsOnTorn = FALSE
  PROVE  Spec => []NoDangling
<1>1. SafeInv /\ [Next]_vars => SafeInv'
  BY SafeNext
<1> QED BY SafeInit, SafeNoDangling, <1>1, PTL DEF Spec

(* Below the size of a file there is always a block that was allocated and *)
(* listed: ffs.c writes the size last.                                     *)
THEOREM SizesNeverRunAhead ==
  ASSUME OpsOnTorn = FALSE
  PROVE  Spec => []SizesFit
<1>1. SafeInv /\ [Next]_vars => SafeInv'
  BY SafeNext
<1> QED BY SafeInit, SafeSizesFit, <1>1, PTL DEF Spec

(* No block belongs to two files, twice to one, or to the service area,    *)
(* whatever was freed and allocated again in between.                      *)
THEOREM BlocksAreExclusive ==
  ASSUME OpsOnTorn = FALSE
  PROVE  Spec => []ExclusiveBlocks
<1>1. SafeInv /\ [Next]_vars => SafeInv'
  BY SafeNext
<1> QED BY SafeInit, SafeExclusiveBlocks, <1>1, PTL DEF Spec

(* At rest a link count promises at least the names there are; without a   *)
(* crash it is exact.                                                      *)
THEOREM LinksAreCounted ==
  ASSUME OpsOnTorn = FALSE
  PROVE  Spec => []LinkCounts
<1>1. SafeInv /\ [Next]_vars => SafeInv'
  BY SafeNext
<1> QED BY SafeInit, SafeLinkCounts, <1>1, PTL DEF Spec

(* At rest a name stands in its directory once, wherever a crash fell.     *)
THEOREM NamesAreUnique ==
  ASSUME OpsOnTorn = FALSE
  PROVE  Spec => []UniqueNames
<1>1. SafeInv /\ [Next]_vars => SafeInv'
  BY SafeNext
<1> QED BY SafeInit, SafeUniqueNames, <1>1, PTL DEF Spec

(* At rest nothing is marked but what names reach, except the descriptors  *)
(* of the operations that crashes cut, one to each.                        *)
THEOREM NothingLeaks ==
  ASSUME OpsOnTorn = FALSE
  PROVE  Spec => []NoLeak
<1>1. SafeInv /\ [Next]_vars => SafeInv'
  BY SafeNext
<1> QED BY SafeInit, SafeNoLeak, <1>1, PTL DEF Spec

(* What is below a directory is never cut off: ffs_rmdir lets go of empty  *)
(* directories only, and no crash makes another of one.                    *)
THEOREM DirectoriesStayReachable ==
  ASSUME OpsOnTorn = FALSE
  PROVE  Spec => []NothingCutOff
<1>1. SafeInv /\ [Next]_vars => SafeInv'
  BY SafeNext
<1> QED BY SafeInit, SafeNothingCutOff, <1>1, PTL DEF Spec

(* A torn file stays torn.                                                 *)
LEMMA TornStays == [Next]_vars => (torn # {} => torn' # {})
BY DEF Next, vars, Begin, BeginCreate, BeginLink, BeginUnlink, BeginWrite, SharesName, Start,
       Step, Continue, GetBlock, ZeroIndex, WriteFd, WriteAlloc, WriteIndex, WriteData, WriteSize,
       IncLinks, Shrink, DecLinks, ClearBlock, ClearIndex, ClearFd, Crash

(* Without the hypothesis, the same holds until a crash first leaves a     *)
(* file with more names than its link count says, or an entry twice.       *)
THEOREM SoundUntilTorn ==
  Spec => [](torn = {} => /\ NoDangling /\ SizesFit /\ ExclusiveBlocks
                          /\ LinkCounts /\ UniqueNames /\ NoLeak /\ NothingCutOff)
<1> DEFINE Inv == torn = {} => SafeInv
<1>1. Init => Inv
  BY SafeInit
<1>2. Inv /\ [Next]_vars => Inv'
  BY SafeNext, TornStays
<1>3. Inv => (torn = {} => /\ NoDangling /\ SizesFit /\ ExclusiveBlocks
                           /\ LinkCounts /\ UniqueNames /\ NoLeak /\ NothingCutOff)
  BY SafeNoDangling, SafeSizesFit, SafeExclusiveBlocks, SafeLinkCounts, SafeUniqueNames,
     SafeNoLeak, SafeNothingCutOff
<1> HIDE DEF Inv
<1> QED BY <1>1, <1>2, <1>3, PTL DEF Spec

-----------------------------------------------------------------------------
(* What an entry says, and what the operation under way wants said or not. *)
Triple(p) == <<p[1], At(p).name, At(p).fd>>
Want      == <<op.dir, op.name, op.ino>>
Binds     == op.kind \in {"create", "symlink", "link"}
Making    == op.pc \in {"get_block", "zero", "write_fd"} \/ Appending
Freeing   == op.pc \in {"dec", "clear", "clear_fd"}

(* How far the call has come: before it takes effect its entry is not what *)
(* is wanted, after it is.  While a directory's tail moves, the hole says  *)
(* what is to go, or what the entry beside it says too.                    *)
CallInv ==
  /\ op.pc = "idle" => op = NoOp
  /\ op.kind = "write" => op.dir = Root
  /\ op.kind \notin {"none", "write"} => op.name \in Names
  /\ \A p \in Spots : At(p).name \in Names
  /\ Making => Binds
  /\ Filling => op.kind = "write" \/ (Binds /\ Want \in Triples(table))
  /\ op.pc = "inc" => Binds /\ Want \in Triples(table)
  /\ Removing =>
       /\ op.kind = "unlink"
       /\ \A q \in Firm : Triple(q) # Want
       /\ \A h \in Hole : Triple(h) = Want \/ \E q \in Firm : Triple(q) = Triple(h)
  /\ Freeing => op.kind = "unlink" /\ Want \notin Triples(table)

-----------------------------------------------------------------------------
(* The namespace on disk is what the entries on disk say.                  *)
LEMMA TriplesAre == SafeInv => Triples(table) = {Triple(p) : p \in Spots}
BY NamedAre DEF Triples, Triple, At
LEMMA TriplesAreNext == SafeInv' => (Triples(table) = {Triple(p) : p \in Spots})'
BY TriplesAre, PTL

LEMMA HoleInNext == SafeInv' => (Hole \subseteq Spots)'
<1>1. SafeInv => Hole \subseteq Spots
  BY HoleIn
<1> QED BY <1>1, PTL

(* Entries that stay say what they said.                                   *)
LEMMA TriplesStay ==
  ASSUME SafeInv, SafeInv', SameEntries
  PROVE  Triples(table)' = Triples(table)
<1>1. Triples(table)' = {Triple(p)' : p \in Spots'}
  BY TriplesAreNext
<1>2. Spots' = Spots /\ \A p \in Spots : Triple(p)' = Triple(p)
  BY DEF SameEntries, Triple
<1> QED BY <1>1, <1>2, TriplesAre

(* A file with an entry has a name, and so has a directory of the tree.    *)
LEMMA EntryNames ==
  ASSUME SafeInv, CallInv, NEW p \in Spots
  PROVE  Ns!HasName(At(p).fd)
<1>1. p[1] \in Fd /\ At(p).name \in Names
  BY LiveSound DEF CallInv, Base, SafeInv, IInv, TypeOK
<1>2. <<p[1], At(p).name, At(p).fd>> \in Triples(table)
  BY TriplesAre DEF Triple
<1> QED BY <1>1, <1>2 DEF Ns!HasName
LEMMA TreeIsNamed ==
  ASSUME SafeInv, CallInv, NEW d \in DirTree(table)
  PROVE  d = Root \/ Ns!HasName(d)
<1>1. d \in Named(table)
  BY NamedAre, LiveSound DEF PlacesOK
<1>2. CASE d # Root
  <2>1. PICK e \in Triples(table) : d = e[3]
    BY <1>1, <1>2 DEF Named
  <2>2. PICK p \in Spots : e = Triple(p)
    BY <2>1, TriplesAre
  <2>3. d = At(p).fd
    BY <2>1, <2>2 DEF Triple
  <2> QED BY <2>3, EntryNames
<1> QED BY <1>2

(* The call under way, as its caller sees it.                              *)
LEMMA RequestIs ==
  /\ op = NoOp => Request = Ns!NoRequest
  /\ op.kind = "write" /\ op.dir = Root => Request = Ns!NoRequest
  /\ Binds => /\ Request.call \in {"create", "link"} /\ Request # Ns!NoRequest
              /\ Request = [call |-> IF op.kind = "link" THEN "link" ELSE "create",
                            dir |-> op.dir, name |-> op.name, file |-> op.ino]
              /\ Ns!Target(Request) = Want
  /\ op.kind = "unlink" => /\ Request # Ns!NoRequest
                           /\ Request = [call |-> "unlink", dir |-> op.dir, name |-> op.name,
                                         file |-> op.ino]
                           /\ Ns!Target(Request) = Want
BY DEF Request, Ns!NoRequest, NoOp, Binds, Ns!Target, Want, Root
LEMMA RequestIsNext ==
  /\ op' = NoOp => Request' = Ns!NoRequest
  /\ op'.kind = "write" /\ op'.dir = Root => Request' = Ns!NoRequest
  /\ Binds' => Request' = [call |-> IF op'.kind = "link" THEN "link" ELSE "create",
                           dir |-> op'.dir, name |-> op'.name, file |-> op'.ino]
  /\ op'.kind = "unlink" => Request' = [call |-> "unlink", dir |-> op'.dir,
                                        name |-> op'.name, file |-> op'.ino]
BY DEF Request, Ns!NoRequest, NoOp, Binds, Root

-----------------------------------------------------------------------------
(* A step within a call that the namespace does not see.                   *)
Registers == /\ op'.kind = op.kind /\ op'.dir = op.dir
             /\ op'.name = op.name /\ op'.ino = op.ino
LEMMA SilentStep ==
  ASSUME SafeInv, CallInv, SafeInv', SameEntries, Registers, crashes' = crashes,
         op'.pc \notin {"idle", "inc"},
         Making' => Making, Filling' => Filling, Freeing' => Freeing,
         Removing' => Removing /\ op'.pos = op.pos
  PROVE  CallInv' /\ UNCHANGED Ns!nsvars
<1>1. Triples(table)' = Triples(table)
  BY TriplesStay
<1>2. Request' = Request /\ Want' = Want /\ Binds' = Binds
  BY DEF Registers, Request, Want, Binds
<1>3. /\ \A p \in Spots : Triple(p)' = Triple(p)
      /\ Removing' => Hole' = Hole /\ Firm' = Firm /\ Hole \subseteq Spots /\ Firm \subseteq Spots
  BY HoleIn DEF SameEntries, Triple, Hole, Firm, Registers
<1>4. Removing' =>
        /\ \A q \in Firm' : Triple(q)' # Want
        /\ \A h \in Hole' : Triple(h)' = Want \/ \E q \in Firm' : Triple(q)' = Triple(h)'
  BY <1>3 DEF CallInv
<1>5. CallInv'
  BY <1>1, <1>2, <1>4 DEF CallInv, SameEntries, Registers
<1> QED BY <1>1, <1>2, <1>5 DEF Ns!nsvars

(* Steps that write no entry: the bitmaps, an index, a descriptor, data of *)
(* a file, the tail of a directory written back.                           *)
LEMMA GetBlockMaps ==
  ASSUME SafeInv, CallInv, SafeInv', GetBlock
  PROVE  CallInv' /\ UNCHANGED Ns!nsvars
<1>1. SameEntries /\ crashes' = crashes /\ op.pc = "get_block" /\ op \in OpRec
  BY DiskFrame DEF GetBlock, Continue, SafeInv, IInv, TypeOK
<1>2. op'.pc = "zero" /\ Registers
  BY <1>1, GotoKeeps DEF GetBlock, Registers
<1> QED BY <1>1, <1>2, SilentStep DEF Making, Appending, Filling, Writes, Removing, Freeing

LEMMA OopsMaps ==
  ASSUME SafeInv, CallInv, SafeInv', Oops, Continue
  PROVE  CallInv' /\ UNCHANGED Ns!nsvars
<1>1. SameEntries /\ crashes' = crashes /\ op \in OpRec
  BY DiskFrame DEF Oops, disk, Continue, SafeInv, IInv, TypeOK
<1>2. op'.pc = "oops" /\ Registers
  BY <1>1, GotoKeeps DEF Oops, Registers
<1> QED BY <1>1, <1>2, SilentStep DEF Making, Appending, Filling, Writes, Removing, Freeing

LEMMA ZeroIndexMaps ==
  ASSUME SafeInv, CallInv, SafeInv', ZeroIndex
  PROVE  CallInv' /\ UNCHANGED Ns!nsvars
<1>1. CASE Oops
  BY <1>1, OopsMaps DEF ZeroIndex
<1>2. CASE ~ Oops
  <2>1. SameEntries
    BY <1>2, ZeroIndexSafe DEF SafeInv
  <2>2. crashes' = crashes /\ op.pc = "zero" /\ op \in OpRec /\ Goto("write_fd")
    BY <1>2 DEF ZeroIndex, Continue, SafeInv, IInv, TypeOK
  <2>3. op'.pc = "write_fd" /\ Registers
    BY <2>2, GotoKeeps DEF Registers
  <2> QED BY <2>1, <2>2, <2>3, SilentStep DEF Making, Appending, Filling, Writes, Removing, Freeing
<1> QED BY <1>1, <1>2

LEMMA WriteFdMaps ==
  ASSUME SafeInv, CallInv, SafeInv', WriteFd
  PROVE  CallInv' /\ UNCHANGED Ns!nsvars
<1>1. SameEntries
  BY WriteFdSafe DEF SafeInv
<1>2. /\ crashes' = crashes /\ op.pc = "write_fd" /\ op \in OpRec
      /\ op' = Writing(op, op.dir, fd[op.dir].size, <<Entry>>,
                       IF op.kind = "symlink" THEN "target" ELSE "done")
  BY DEF WriteFd, Continue, SafeInv, IInv, TypeOK
<1>3. /\ op'.pc = "file_write" /\ op'.wino = op.dir /\ op'.ret \in {"target", "done"}
      /\ Registers
  BY <1>2 DEF Writing, OpRec, Registers
<1>4. op.dir \in Dirs'
  <2>1. op.dir \in Dirs
    BY <1>2, LiveSound DEF SafeInv, DirInv, Adding, PlacesOK
  <2>2. op.dir # op.ino
    <3>1. op.dir \in Base /\ op.ino \in Pending
      BY <1>2, LiveSound DEF SafeInv, DirInv, Adding, PlacesOK, Pending
    <3> QED BY <3>1 DEF SafeInv, PendingInv
  <2> QED BY <2>1, <2>2 DEF Dirs, WriteFd, SafeInv, IInv, TypeOK
<1> QED BY <1>1, <1>2, <1>3, <1>4, SilentStep DEF Making, Appending, Filling, Writes, Removing, Freeing

LEMMA WriteAllocMaps ==
  ASSUME SafeInv, CallInv, SafeInv', WriteAlloc
  PROVE  CallInv' /\ UNCHANGED Ns!nsvars
<1>1. SameEntries /\ Dirs' = Dirs /\ crashes' = crashes /\ op.pc = "file_write" /\ op \in OpRec
  BY DiskFrame DEF WriteAlloc, Continue, SafeInv, IInv, TypeOK
<1>2. PICK b \in Block \cup {NoBlock} : op' = [op EXCEPT !.pc = "w_index", !.blk = b]
  BY DEF WriteAlloc
<1>3. op'.pc = "w_index" /\ Registers /\ op'.wino = op.wino /\ op'.ret = op.ret
      /\ op'.pos = op.pos
  BY <1>1, <1>2 DEF Registers, OpRec
<1> QED BY <1>1, <1>3, SilentStep DEF Making, Appending, Filling, Writes, Removing, Freeing

LEMMA WriteIndexMaps ==
  ASSUME SafeInv, CallInv, SafeInv', WriteIndex
  PROVE  CallInv' /\ UNCHANGED Ns!nsvars
<1>1. SameEntries /\ Dirs' = Dirs
  BY WriteIndexSafe DEF SafeInv
<1>2. crashes' = crashes /\ op.pc = "w_index" /\ op \in OpRec /\ Goto("file_write")
  BY DEF WriteIndex, Continue, SafeInv, IInv, TypeOK
<1>3. op'.pc = "file_write" /\ Registers /\ op'.wino = op.wino /\ op'.ret = op.ret
      /\ op'.pos = op.pos
  BY <1>2, GotoKeeps DEF Registers
<1> QED BY <1>1, <1>2, <1>3, SilentStep DEF Making, Appending, Filling, Writes, Removing, Freeing

LEMMA MovedSizeMaps ==
  ASSUME SafeInv, CallInv, SafeInv', WriteSize, Removing
  PROVE  CallInv' /\ UNCHANGED Ns!nsvars
<1>1. SameEntries
  BY MovedSizeSafe DEF SafeInv
<1>2. crashes' = crashes /\ op.ret = "shrink" /\ op \in OpRec /\ Goto("shrink")
  BY DEF WriteSize, Continue, SafeInv, IInv, TypeOK, Removing
<1>3. op'.pc = "shrink" /\ Registers /\ op'.pos = op.pos
  BY <1>2, GotoKeeps DEF Registers
<1> QED BY <1>1, <1>2, <1>3, SilentStep DEF Making, Appending, Filling, Writes, Removing, Freeing

LEMMA ClearingMaps ==
  ASSUME SafeInv, CallInv, SafeInv', ClearBlock \/ ClearIndex
  PROVE  CallInv' /\ UNCHANGED Ns!nsvars
<1>1. CASE ClearBlock /\ Oops
  BY <1>1, OopsMaps DEF ClearBlock
<1>2. CASE ClearBlock /\ ~ Oops
  <2>1. SameEntries /\ crashes' = crashes /\ op.pc = "clear" /\ op \in OpRec
    BY <1>2, DiskFrame DEF ClearBlock, Continue, SafeInv, IInv, TypeOK
  <2>2. op'.pc = "clear" /\ Registers
    BY <1>2, <2>1 DEF ClearBlock, Registers, OpRec
  <2> QED BY <2>1, <2>2, SilentStep DEF Making, Appending, Filling, Writes, Removing, Freeing
<1>3. CASE ClearIndex
  <2>1. SameEntries /\ crashes' = crashes /\ op.pc = "clear" /\ op \in OpRec /\ Goto("clear_fd")
    BY <1>3, DiskFrame DEF ClearIndex, Continue, SafeInv, IInv, TypeOK
  <2>2. op'.pc = "clear_fd" /\ Registers
    BY <2>1, GotoKeeps DEF Registers
  <2> QED BY <2>1, <2>2, SilentStep DEF Making, Appending, Filling, Writes, Removing, Freeing
<1> QED BY <1>1, <1>2, <1>3

(* The data of an entry or of a file, which no size covers yet.            *)
LEMMA WriteDataMaps ==
  ASSUME SafeInv, CallInv, SafeInv', WriteData, ~ Removing
  PROVE  CallInv' /\ UNCHANGED Ns!nsvars
<1>1. CASE Oops
  BY <1>1, OopsMaps DEF WriteData
<1>2. CASE ~ Oops
  <2>1. SameEntries /\ Dirs' = Dirs
    BY <1>2, WriteDataSafe DEF SafeInv
  <2>2. /\ crashes' = crashes /\ op.pc = "file_write" /\ op \in OpRec
        /\ op' = [op EXCEPT !.pos = @ + Chunk, !.data = SubSeq(@, Chunk + 1, Len(@))]
    BY <1>2 DEF WriteData, Continue, SafeInv, IInv, TypeOK
  <2>3. op'.pc = "file_write" /\ Registers /\ op'.wino = op.wino /\ op'.ret = op.ret
    BY <2>2 DEF Registers, OpRec
  <2> QED BY <2>1, <2>2, <2>3, SilentStep DEF Making, Appending, Filling, Writes, Removing, Freeing
<1> QED BY <1>1, <1>2

-----------------------------------------------------------------------------
(* The call returns: its operation is over, and its effect is there.       *)
LEMMA IdleCall ==
  ASSUME SafeInv, CallInv, SameEntries, op' = NoOp
  PROVE  CallInv'
<1>1. op'.pc = "idle" /\ op'.kind = "none"
  BY DEF NoOp
<1> QED BY <1>1 DEF CallInv, SameEntries, Making, Appending, Filling, Writes, Removing, Freeing
LEMMA ReturnStep ==
  ASSUME SafeInv, CallInv, SafeInv', SameEntries, op' = NoOp, crashes' = crashes,
         \/ Binds /\ Want \in Triples(table)
         \/ op.kind = "unlink" /\ Want \notin Triples(table)
  PROVE  CallInv' /\ Ns!Return
<1>1. Triples(table)' = Triples(table) /\ Request' = Ns!NoRequest
  BY TriplesStay, RequestIsNext
<1>2. CASE Binds
  <2>1. op.kind # "unlink"
    BY <1>2 DEF Binds
  <2> QED BY <1>1, <1>2, <2>1, IdleCall, RequestIs DEF Ns!Return
<1>3. CASE op.kind = "unlink"
  <2>1. ~ Binds /\ Request.call = "unlink"
    BY <1>3, RequestIs DEF Binds
  <2> QED BY <1>1, <1>3, <2>1, IdleCall, RequestIs DEF Ns!Return
<1> QED BY <1>2, <1>3

(* symlink, when its target is written; a write was no call.               *)
LEMMA FilledSizeMaps ==
  ASSUME SafeInv, CallInv, SafeInv', WriteSize, Filling
  PROVE  CallInv' /\ [Ns!NsNext]_(Ns!nsvars)
<1>1. SameEntries /\ crashes' = crashes /\ op' = NoOp
  BY FilledSizeSafe DEF WriteSize, Continue, SafeInv, WriteInv
<1>2. CASE op.kind = "write"
  <2>1. Request = Ns!NoRequest /\ Request' = Ns!NoRequest
    BY <1>1, <1>2, RequestIs, RequestIsNext DEF CallInv
  <2> QED BY <1>1, <2>1, IdleCall, TriplesStay DEF Ns!nsvars
<1>3. CASE op.kind # "write"
  <2>1. CallInv' /\ Ns!Return
    BY <1>1, <1>3, ReturnStep DEF CallInv
  <2> QED BY <2>1 DEF Ns!NsNext
<1> QED BY <1>2, <1>3

(* link, when the count is written; unlink, when the count or, with the    *)
(* last name, the bit of the descriptor is.                                *)
LEMMA IncLinksMaps ==
  ASSUME SafeInv, CallInv, SafeInv', IncLinks
  PROVE  CallInv' /\ Ns!Return
<1>1. SameEntries /\ crashes' = crashes /\ op' = NoOp /\ op.pc = "inc"
  BY IncLinksSafe DEF IncLinks, Continue, SafeInv
<1> QED BY <1>1, ReturnStep DEF CallInv

LEMMA ClearFdMaps ==
  ASSUME SafeInv, CallInv, SafeInv', ClearFd
  PROVE  CallInv' /\ Ns!Return
<1>1. SameEntries /\ crashes' = crashes /\ op' = NoOp /\ Freeing
  BY DiskFrame DEF ClearFd, Continue, Freeing
<1> QED BY <1>1, ReturnStep DEF CallInv

LEMMA DecLinksMaps ==
  ASSUME SafeInv, CallInv, SafeInv', DecLinks
  PROVE  CallInv' /\ [Ns!NsNext]_(Ns!nsvars)
<1>1. /\ op.pc = "dec" /\ crashes' = crashes /\ op \in OpRec /\ Freeing
      /\ UNCHANGED <<index, cells>>
  BY DEF DecLinks, Continue, SafeInv, IInv, TypeOK, Freeing
<1>2. \/ op' = [op EXCEPT !.pc = "clear", !.k = 1] /\ UNCHANGED table
      \/ /\ fd[op.ino].links - 1 # 0 /\ op' = NoOp
         /\ table' = [table EXCEPT ![op.ino] = [fd[op.ino] EXCEPT !.links = @ - 1]]
  <2>1. fd[op.ino] \in FdRec
    BY <1>1 DEF SafeInv, IInv, TypeOK, OpRec
  <2> QED BY <2>1 DEF DecLinks, FdRec
<1>3. CASE UNCHANGED table /\ op' = [op EXCEPT !.pc = "clear", !.k = 1]
  <2>1. SameEntries
    BY <1>1, <1>3, DiskFrame
  <2>2. op'.pc = "clear" /\ Registers
    BY <1>1, <1>3 DEF Registers, OpRec
  <2> QED BY <1>1, <2>1, <2>2, SilentStep DEF Making, Appending, Filling, Writes, Removing
<1>4. CASE /\ fd[op.ino].links - 1 # 0 /\ op' = NoOp
           /\ table' = [table EXCEPT ![op.ino] = [fd[op.ino] EXCEPT !.links = @ - 1]]
  <2>1. SameEntries
    BY <1>1, <1>4, OneNameLessSafe DEF SafeInv
  <2>2. CallInv' /\ Ns!Return
    BY <1>1, <1>4, <2>1, ReturnStep DEF CallInv
  <2> QED BY <2>2 DEF Ns!NsNext
<1> QED BY <1>2, <1>3, <1>4

-----------------------------------------------------------------------------
(* The call takes effect.  Without what is to go, the namespace is what    *)
(* the entries other than the hole say; the file that goes is no directory *)
(* with entries.                                                           *)
LEMMA WithoutWant ==
  ASSUME SafeInv, CallInv, Removing
  PROVE  /\ Triples(table) \ {Want} = {Triple(q) : q \in Firm}
         /\ \A e \in Triples(table) : e[1] # op.ino
<1>1. Spots = Firm \cup Hole
  BY HoleIn DEF Firm
<1>2. Triples(table) = {Triple(p) : p \in Spots}
  BY TriplesAre
<1>3. ASSUME NEW p \in Spots PROVE Triple(p) = Want \/ Triple(p) \in {Triple(q) : q \in Firm}
  BY <1>1 DEF CallInv
<1>4. \A q \in Firm : Triple(q) # Want /\ Triple(q) \in Triples(table)
  BY <1>1, <1>2 DEF CallInv
<1>5. \A p \in Spots : p[1] # op.ino
  BY DEF SafeInv, RemoveInv
<1>6. \A e \in Triples(table) : e[1] # op.ino
  BY <1>2, <1>5 DEF Triple
<1> QED BY <1>2, <1>3, <1>4, <1>6

(* unlink and rmdir: with the first block of the tail, or else with the    *)
(* size, the name is gone.                                                 *)
LEMMA UnbindStep ==
  ASSUME SafeInv, CallInv, Removing, Registers, crashes' = crashes,
         Triples(table)' = {Triple(q) : q \in Firm}
  PROVE  Ns!Unbind
<1>1. op.kind = "unlink" /\ Request' = Request
  BY DEF CallInv, Registers, Request
<1>2. Ns!Target(Request) = Want /\ Request.call = "unlink" /\ Request.file = op.ino
  BY <1>1, RequestIs
<1> QED BY <1>1, <1>2, WithoutWant DEF Ns!Unbind

LEMMA MoveDataMaps ==
  ASSUME SafeInv, CallInv, SafeInv', WriteData, ~ Oops, Removing
  PROVE  CallInv' /\ Ns!Unbind
<1>1. /\ \A p \in Spots' : \E q \in Firm : q[1] = p[1] /\ At(q) = At(p)'
      /\ \A q \in Firm : \E p \in Firm' : p[1] = q[1] /\ At(p)' = At(q)
  BY MoveDataSafe DEF SafeInv
<1>2. /\ \A p \in Spots' : \E q \in Firm : Triple(q) = Triple(p)'
      /\ \A q \in Firm : \E p \in Firm' : Triple(p)' = Triple(q)
  BY <1>1 DEF Triple
<1>3. /\ op.pc = "file_write" /\ crashes' = crashes /\ op \in OpRec
      /\ op' = [op EXCEPT !.pos = @ + Chunk, !.data = SubSeq(@, Chunk + 1, Len(@))]
  BY DEF WriteData, Continue, SafeInv, IInv, TypeOK
<1>4. op'.pc = "file_write" /\ Registers /\ op'.ret = "shrink"
  BY <1>3 DEF Registers, OpRec, Removing
<1>5. /\ Removing' /\ ~ Making' /\ ~ Filling' /\ ~ Freeing' /\ Want' = Want
      /\ Hole' \subseteq Spots' /\ Firm' \subseteq Spots' /\ Firm \subseteq Spots
  <2>1. Removing' /\ ~ Making' /\ ~ Filling' /\ ~ Freeing' /\ Want' = Want
    BY <1>4 DEF Removing, Making, Appending, Filling, Freeing, Want, Registers
  <2>2. Hole' \subseteq Spots'
    BY HoleInNext
  <2> QED BY <2>1, <2>2 DEF Firm
<1>6. Triples(table)' = {Triple(q) : q \in Firm}
  <2>1. Triples(table)' = {Triple(p)' : p \in Spots'}
    BY TriplesAreNext
  <2> QED BY <1>2, <1>5, <2>1
<1>7. /\ \A q \in Firm' : Triple(q)' # Want
      /\ \A h \in Hole' : \E q \in Firm' : Triple(q)' = Triple(h)'
  BY <1>2, <1>5 DEF CallInv
<1>8. \A p \in Spots' : At(p)'.name \in Names
  BY <1>1, <1>5 DEF CallInv
<1>9. CallInv'
  BY <1>4, <1>5, <1>7, <1>8 DEF CallInv, Registers
<1> QED BY <1>3, <1>4, <1>6, <1>9, UnbindStep

LEMMA ShrinkMaps ==
  ASSUME SafeInv, CallInv, SafeInv', Shrink
  PROVE  CallInv' /\ Ns!Unbind
<1>1. Spots' = Firm /\ \A p \in Firm : At(p)' = At(p)
  BY ShrinkSafe DEF SafeInv
<1>2. op.pc = "shrink" /\ Removing /\ crashes' = crashes /\ op \in OpRec /\ Goto("dec")
  BY DEF Shrink, Continue, SafeInv, RemoveInv, IInv, TypeOK
<1>3. op'.pc = "dec" /\ Registers
  BY <1>2, GotoKeeps DEF Registers
<1>4. ~ Making' /\ ~ Filling' /\ ~ Removing' /\ Want' = Want /\ Firm \subseteq Spots
  BY <1>3 DEF Making, Appending, Filling, Writes, Removing, Want, Registers, Firm
<1>5. Triples(table)' = {Triple(q) : q \in Firm}
  <2>1. Triples(table)' = {Triple(p)' : p \in Spots'}
    BY TriplesAreNext
  <2>2. \A q \in Firm : Triple(q)' = Triple(q)
    BY <1>1 DEF Triple
  <2> QED BY <1>1, <2>1, <2>2
<1>6. Want \notin Triples(table)'
  BY <1>2, <1>5 DEF CallInv
<1>7. CallInv'
  BY <1>1, <1>2, <1>3, <1>4, <1>6 DEF CallInv, Registers, Freeing
<1> QED BY <1>2, <1>3, <1>5, <1>7, UnbindStep

(* create, mkdir, symlink and link: with the size of the directory the     *)
(* name is there.  create and mkdir return in the same step.               *)
LEMMA AddedSizeMaps ==
  ASSUME SafeInv, CallInv, SafeInv', WriteSize, Appending
  PROVE  CallInv' /\ Ns!Bind
<1>1. PICK new : /\ Spots' = Spots \cup {new} /\ new[1] = op.dir /\ At(new)' = Entry
                 /\ \A p \in Spots : At(p)' = At(p)
  BY AddedSizeSafe DEF SafeInv
<1>2. /\ crashes' = crashes /\ op \in OpRec /\ Binds /\ op.ret # "shrink"
      /\ op.kind # "none" /\ op.kind # "write" /\ op.name \in Names
  BY DEF WriteSize, Continue, SafeInv, IInv, TypeOK, CallInv, Making, Appending, Binds
<1>3. Triples(table)' = Triples(table) \cup {Want}
  <2>1. Triples(table)' = {Triple(p)' : p \in Spots'}
    BY TriplesAreNext
  <2>2. Triple(new)' = Want /\ \A p \in Spots : Triple(p)' = Triple(p)
    BY <1>1 DEF Triple, Want, Entry
  <2>3. Triples(table) = {Triple(p) : p \in Spots}
    BY TriplesAre
  <2> QED BY <1>1, <2>1, <2>2, <2>3
<1>4. \A p \in Spots' : At(p)'.name \in Names
  BY <1>1, <1>2 DEF CallInv, Entry
<1>5. Request.call \in {"create", "link"} /\ Ns!Target(Request) = Want
  BY <1>2, RequestIs
<1>6. CASE op' = NoOp
  <2>1. op'.pc = "idle" /\ op'.kind = "none"
    BY <1>6 DEF NoOp
  <2>2. CallInv'
    BY <1>4, <1>6, <2>1
    DEF CallInv, Making, Appending, Filling, Writes, Removing, Freeing
  <2> QED BY <1>2, <1>3, <1>5, <1>6, <2>2, RequestIsNext DEF Ns!Bind
<1>7. CASE Registers /\ (op'.pc = "inc" \/ (op'.pc = "file_write" /\ op'.ret = "done"))
  <2>1. Request' = Request /\ Want' = Want /\ Binds' /\ ~ Removing' /\ ~ Freeing'
    BY <1>2, <1>7 DEF Registers, Request, Want, Binds, Removing, Freeing
  <2>2. CallInv'
    BY <1>2, <1>3, <1>4, <1>7, <2>1 DEF CallInv, Registers
  <2> QED BY <1>2, <1>3, <1>5, <2>1, <2>2 DEF Ns!Bind
<1>8. op' = NoOp \/ (Registers /\ (op'.pc = "inc" \/ (op'.pc = "file_write" /\ op'.ret = "done")))
  <2>1. CASE op.ret = "done"
    BY <2>1 DEF WriteSize
  <2>2. CASE op.ret = "target"
    <3>1. op' = Writing(op, op.ino, 0, <<Blank>>, "done")
      BY <2>2 DEF WriteSize
    <3> QED BY <1>2, <3>1 DEF Writing, Registers, OpRec
  <2>3. CASE op.ret = "inc"
    <3>1. Goto("inc")
      BY <2>3 DEF WriteSize
    <3> QED BY <1>2, <3>1, GotoKeeps DEF Registers
  <2> QED BY <1>2, <2>1, <2>2, <2>3 DEF OpRec, Returns
<1> QED BY <1>6, <1>7, <1>8

-----------------------------------------------------------------------------
(* The calls.                                                              *)

(* A new call, as its caller sees it: nothing on disk has changed.         *)
LEMMA InvokeStep ==
  ASSUME SafeInv, CallInv, SafeInv', SameEntries, op = NoOp, crashes' = crashes,
         NEW c \in {"create", "link", "unlink"}, NEW d \in DirTree(table), NEW n \in Names,
         NEW f \in Fd,
         Request' = [call |-> c, dir |-> d, name |-> n, file |-> f],
         c # "unlink" => \A p \in Spots : p[1] = d => At(p).name # n,
         c = "create" => f \notin Base,
         c = "link" => \E p \in Spots : At(p).fd = f,
         c = "unlink" => \E p \in Spots : Triple(p) = <<d, n, f>>
  PROVE  Ns!Invoke
<1>1. Request = Ns!NoRequest /\ Triples(table)' = Triples(table)
  BY RequestIs, TriplesStay
<1>2. Triples(table) = {Triple(p) : p \in Spots}
  BY TriplesAre
<1>3. d \in Fd /\ (d = Root \/ Ns!HasName(d))
  BY TreeIsNamed, TreeClosed DEF DirTree
<1>4. c # "unlink" => ~ Ns!Bound(d, n)
  BY <1>2 DEF Triple, Ns!Bound
<1>5. c = "create" => ~ Ns!HasName(f) /\ f # Root
  <2>1. ASSUME Ns!HasName(f) PROVE f \in Base
    <3>1. PICK p \in Spots : At(p).fd = f
      BY <1>2, <2>1 DEF Ns!HasName, Triple
    <3> QED BY <3>1, LiveSound
  <2>2. Root \in Base
    BY DEF Base
  <2> QED BY <2>1, <2>2
<1>6. c = "link" => Ns!HasName(f)
  BY EntryNames
<1>7. c = "unlink" => <<d, n, f>> \in Triples(table)
  BY <1>2
<1>8. /\ d = Root \/ Ns!HasName(d)
      /\ c \in {"create", "link"} => ~ Ns!Bound(d, n)
      /\ c = "create" => ~ Ns!HasName(f) /\ f # Root
      /\ c = "link" => Ns!HasName(f)
      /\ c = "unlink" => <<d, n, f>> \in Triples(table)
  BY <1>3, <1>4, <1>5, <1>6, <1>7
<1> QED BY <1>1, <1>3, <1>8 DEF Ns!Invoke, Ns!Calls

LEMMA BeginCreateMaps ==
  ASSUME SafeInv, CallInv, SafeInv', torn = {},
         NEW d \in Fd, NEW n \in Names, NEW t \in Types, NEW f \in Fd \cup {NoFd},
         BeginCreate(d, n, t, f)
  PROVE  CallInv' /\ [Ns!NsNext]_(Ns!nsvars)
<1>1. /\ op = NoOp /\ op.pc = "idle" /\ crashes' = crashes
      /\ d \in DirTree(fd) /\ Absent(d, n)
      /\ UNCHANGED <<bbm, index, cells, table, fd, inodes>>
  BY DEF BeginCreate, Start, disk, CallInv
<1>2. SameEntries
  BY <1>1, DiskFrame
<1>3. CASE UNCHANGED <<fbm, op>>
  <2>1. op'.pc = "idle" /\ op'.kind = "none" /\ Request' = Request
    BY <1>1, <1>3 DEF NoOp, Request
  <2>2. CallInv'
    BY <1>1, <1>2, <1>3, <2>1
    DEF CallInv, SameEntries, Making, Appending, Filling, Writes, Removing, Freeing
  <2> QED BY <1>1, <1>2, <2>1, <2>2, TriplesStay DEF Ns!nsvars
<1>4. CASE /\ f \in Fd /\ f \notin fbm
           /\ op' = [NoOp EXCEPT !.kind = IF t = "FFS_SLINK" THEN "symlink" ELSE "create",
                                 !.pc = "get_block", !.dir = d, !.name = n,
                                 !.ino = f, !.type = t]
  <2>1. /\ op'.pc = "get_block" /\ op'.kind \in {"create", "symlink"}
        /\ op'.dir = d /\ op'.name = n /\ op'.ino = f
    BY <1>4 DEF NoOp
  <2>2. Request' = [call |-> "create", dir |-> d, name |-> n, file |-> f]
    BY <2>1, RequestIsNext DEF Binds
  <2>3. f \notin Base /\ DirTree(fd) = DirTree(table)
    BY <1>1, <1>4, LiveSound, RestView
  <2>4. \A p \in Spots : p[1] = d => At(p).name # n
    BY <1>1, AbsentMeans
  <2>5. Ns!Invoke
    BY <1>1, <1>2, <1>4, <2>2, <2>3, <2>4, InvokeStep
  <2>6. CallInv'
    BY <1>2, <2>1 DEF CallInv, SameEntries, Binds, Appending, Filling, Writes, Removing, Freeing
  <2> QED BY <2>5, <2>6 DEF Ns!NsNext
<1> QED BY <1>1, <1>3, <1>4 DEF BeginCreate, EmptyBit, disk, NoBlock, Fd

LEMMA BeginLinkMaps ==
  ASSUME SafeInv, CallInv, SafeInv', torn = {},
         NEW d \in Fd, NEW n \in Names, NEW f \in Fd, BeginLink(d, n, f)
  PROVE  CallInv' /\ Ns!Invoke
<1> DEFINE o == [NoOp EXCEPT !.kind = "link", !.dir = d, !.name = n, !.ino = f]
           e == [fd |-> f, name |-> n]
<1>1. /\ op = NoOp /\ op.pc = "idle" /\ crashes' = crashes
      /\ d \in DirTree(fd) /\ Absent(d, n) /\ fd[f].type # "FFS_DIR"
      /\ UNCHANGED <<bbm, fbm, index, cells, table, fd, inodes>>
      /\ f \in Named(fd)
      /\ op' = Writing(o, d, fd[d].size, <<e>>, "inc")
  BY DEF BeginLink, Start, disk, CallInv, Named
<1>2. /\ op'.pc = "file_write" /\ op'.wino = d /\ op'.ret = "inc" /\ op'.kind = "link"
      /\ op'.dir = d /\ op'.name = n /\ op'.ino = f
  BY <1>1 DEF Writing, NoOp
<1>3. SameEntries /\ Dirs' = Dirs
  BY <1>1, DiskFrame
<1>4. DirTree(fd) = DirTree(table) /\ d \in Dirs /\ f \in Base
  BY <1>1, RestView
<1>5. f \notin Dirs /\ f # Root
  <2>1. f \in fbm /\ fd[f] = table[f] /\ Root \in Dirs
    BY <1>1, <1>4, LiveSound, RestView DEF SafeInv, FilesInv
  <2> QED BY <1>1, <2>1 DEF Dirs
<1>6. \E p \in Spots : At(p).fd = f
  <2>1. PICK p \in Spots : f \in {p[1], At(p).fd}
    BY <1>4, <1>5 DEF Base
  <2>2. p[1] \in Dirs
    BY LiveSound DEF SpotsOK
  <2> QED BY <1>5, <2>1, <2>2
<1>7. Request' = [call |-> "link", dir |-> d, name |-> n, file |-> f]
  BY <1>2, RequestIsNext DEF Binds
<1>8. \A p \in Spots : p[1] = d => At(p).name # n
  BY <1>1, AbsentMeans
<1>9. Ns!Invoke
  BY <1>1, <1>3, <1>4, <1>6, <1>7, <1>8, InvokeStep
<1>10. CallInv'
  BY <1>2, <1>3, <1>4 DEF CallInv, SameEntries, Binds, Filling, Removing, Freeing
<1> QED BY <1>9, <1>10

LEMMA BeginUnlinkMaps ==
  ASSUME SafeInv, CallInv, SafeInv', torn = {},
         NEW d \in Fd, NEW n \in Names, NEW f \in Fd, BeginUnlink(d, n, f)
  PROVE  CallInv' /\ Ns!Invoke
<1> DEFINE o == [NoOp EXCEPT !.kind = "unlink", !.dir = d, !.name = n, !.ino = f]
<1>1. PICK i \in 0 .. fd[d].size - 1 :
        /\ FirstNamed(fd, d, n, i)
        /\ op' = Writing(o, d, i, Tail1(d, i), "shrink")
  BY DEF BeginUnlink
<1> DEFINE h == <<d, i>>
<1>2. /\ op = NoOp /\ op.pc = "idle" /\ crashes' = crashes
      /\ d \in DirTree(fd) /\ Lookup(d, n, f)
      /\ UNCHANGED <<bbm, fbm, index, cells, table, fd, inodes>>
  BY DEF BeginUnlink, Start, disk, CallInv
<1>3. /\ op'.pc = "file_write" /\ op'.wino = d /\ op'.ret = "shrink" /\ op'.pos = i
      /\ op'.kind = "unlink" /\ op'.dir = d /\ op'.name = n /\ op'.ino = f
  BY <1>1 DEF Writing, NoOp
<1>4. SameEntries
  BY <1>2, DiskFrame
<1>5. DirTree(fd) = DirTree(table)
  BY <1>2, RestView
<1>6. h \in Spots /\ Triple(h) = <<d, n, f>>
  <2>1. PICK j \in 0 .. fd[d].size - 1 : CellAt(fd, d, j) = [fd |-> f, name |-> n]
    BY <1>2 DEF Lookup
  <2>2. /\ <<d, j>> \in Spots /\ At(<<d, j>>) = [fd |-> f, name |-> n]
        /\ h \in Spots /\ At(h).name = n
    BY <1>1, <1>2, <2>1, RestView DEF FirstNamed
  <2>3. <<d, j>> = h
    BY <1>2, <2>2, RestNames
  <2> QED BY <2>2, <2>3 DEF Triple
<1>7. Request' = [call |-> "unlink", dir |-> d, name |-> n, file |-> f]
  BY <1>3, RequestIsNext
<1>8. Ns!Invoke
  BY <1>2, <1>4, <1>5, <1>6, <1>7, InvokeStep
<1>9. /\ ~ Making' /\ ~ Filling' /\ ~ Freeing' /\ Want' = <<d, n, f>>
      /\ Hole' = {h} /\ Firm' = Spots \ {h} /\ \A p \in Spots : Triple(p)' = Triple(p)
  BY <1>3, <1>4
     DEF Making, Appending, Filling, Freeing, Want, Hole, Firm, Removing, SameEntries, Triple
<1>10. \A q \in Firm' : Triple(q)' # Want'
  <2>1. \A p \in Spots : p[1] = d /\ At(p).name = n => p = h
    BY <1>2, <1>6, RestNames DEF Triple
  <2>2. \A p \in Spots : Triple(p) = <<d, n, f>> => p = h
    BY <2>1 DEF Triple
  <2> QED BY <1>9, <2>2
<1>11. CallInv'
  BY <1>3, <1>4, <1>6, <1>9, <1>10 DEF CallInv, SameEntries
<1> QED BY <1>8, <1>11

(* A write is no call of the namespace.                                    *)
LEMMA BeginWriteMaps ==
  ASSUME SafeInv, CallInv, SafeInv', torn = {},
         NEW f \in Fd, NEW pos \in 0 .. MaxSize, NEW len \in 1 .. MaxSize,
         BeginWrite(f, pos, len)
  PROVE  CallInv' /\ UNCHANGED Ns!nsvars
<1> DEFINE o == [NoOp EXCEPT !.kind = "write", !.ino = f]
           data == [i \in 1 .. len |-> Blank]
<1>1. /\ op = NoOp /\ op.pc = "idle" /\ crashes' = crashes
      /\ UNCHANGED <<bbm, fbm, index, cells, table, fd, inodes>>
      /\ f \in Named(fd) \cap inodes /\ fd[f].type = "FFS_REG"
      /\ op' = Writing(o, f, pos, data, "done")
  BY DEF BeginWrite, Start, disk, CallInv
<1>2. /\ op'.pc = "file_write" /\ op'.wino = f /\ op'.ret = "done" /\ op'.kind = "write"
      /\ op'.dir = Root
  BY <1>1 DEF Writing, NoOp
<1>3. f \notin Dirs
  BY <1>1, RestView, LiveSound DEF Dirs
<1>4. SameEntries /\ Dirs' = Dirs
  BY <1>1, DiskFrame
<1>5. Request = Ns!NoRequest /\ Request' = Ns!NoRequest
  BY <1>1, <1>2, RequestIs, RequestIsNext
<1>6. CallInv'
  BY <1>2, <1>3, <1>4 DEF CallInv, SameEntries, Making, Appending, Removing, Freeing
<1> QED BY <1>1, <1>4, <1>5, <1>6, TriplesStay DEF Ns!nsvars

-----------------------------------------------------------------------------
(* A crash forgets the call, and what a remount finds is what was there.   *)
LEMMA CrashMaps ==
  ASSUME SafeInv, CallInv, SafeInv', Crash
  PROVE  CallInv' /\ Ns!Cut
<1>1. SameEntries /\ op' = NoOp /\ crashes < MaxCrashes /\ crashes' = crashes + 1
  BY DiskFrame DEF Crash, disk
<1> QED BY <1>1, IdleCall, TriplesStay, RequestIsNext DEF Ns!Cut

LEMMA StutterMaps ==
  ASSUME SafeInv, CallInv, SafeInv', UNCHANGED vars
  PROVE  CallInv' /\ UNCHANGED Ns!nsvars
<1>1. SameEntries /\ Dirs' = Dirs /\ op' = op /\ crashes' = crashes
  BY DiskFrame DEF vars
<1>2. Triples(table)' = Triples(table) /\ Request' = Request
  BY <1>1, TriplesStay DEF Request
<1>3. /\ Making' = Making /\ Filling' = Filling /\ Freeing' = Freeing /\ Removing' = Removing
      /\ Want' = Want /\ Binds' = Binds /\ Hole' = Hole /\ Firm' = Firm
  BY <1>1 DEF Making, Appending, Filling, Writes, Freeing, Removing, Want, Binds, Hole, Firm,
              SameEntries
<1>4. \A p \in Spots : Triple(p)' = Triple(p) /\ At(p)' = At(p)
  BY <1>1 DEF SameEntries, Triple
<1>5. Hole \subseteq Spots /\ Firm \subseteq Spots
  BY HoleIn DEF Firm
<1>6. CallInv'
  BY <1>1, <1>2, <1>3, <1>4, <1>5 DEF CallInv, SameEntries
<1> QED BY <1>1, <1>2, <1>6 DEF Ns!nsvars

(* Every step of the driver is one step of the namespace, or none.         *)
LEMMA RefinesNext ==
  ASSUME OpsOnTorn = FALSE \/ torn = {}, SafeInv, CallInv, [Next]_vars
  PROVE  SafeInv' /\ CallInv' /\ [Ns!NsNext]_(Ns!nsvars)
<1>1. SafeInv'
  BY SafeNext
<1>2. CASE Begin
  <2>1. torn = {}
    BY <1>2 DEF Begin, BeginCreate, BeginLink, BeginUnlink, BeginWrite, Start
  <2>2. CASE \E d \in Fd, n \in Names, t \in Types, f \in Fd \cup {NoFd} :
               BeginCreate(d, n, t, f)
    BY <1>1, <2>1, <2>2, BeginCreateMaps
  <2>3. CASE \E d \in Fd, n \in Names, f \in Fd : BeginLink(d, n, f)
    BY <1>1, <2>1, <2>3, BeginLinkMaps DEF Ns!NsNext
  <2>4. CASE \E d \in Fd, n \in Names, f \in Fd : BeginUnlink(d, n, f)
    BY <1>1, <2>1, <2>4, BeginUnlinkMaps DEF Ns!NsNext
  <2>5. CASE \E f \in Fd, pos \in 0 .. MaxSize, len \in 1 .. MaxSize : BeginWrite(f, pos, len)
    BY <1>1, <2>1, <2>5, BeginWriteMaps
  <2> QED BY <1>2, <2>2, <2>3, <2>4, <2>5 DEF Begin
<1>3. CASE Step
  <2>1. CASE GetBlock \/ ZeroIndex \/ WriteFd
    BY <1>1, <2>1, GetBlockMaps, ZeroIndexMaps, WriteFdMaps
  <2>2. CASE WriteAlloc \/ WriteIndex
    BY <1>1, <2>2, WriteAllocMaps, WriteIndexMaps
  <2>3. CASE WriteData
    <3>1. CASE ~ Removing
      BY <1>1, <2>3, <3>1, WriteDataMaps
    <3>2. CASE Oops
      BY <1>1, <2>3, <3>2, OopsMaps DEF WriteData
    <3>3. CASE ~ Oops /\ Removing
      BY <1>1, <2>3, <3>3, MoveDataMaps DEF Ns!NsNext
    <3> QED BY <3>1, <3>2, <3>3
  <2>4. CASE WriteSize
    <3>1. Removing \/ Filling \/ Appending
      BY <2>4 DEF WriteSize, Removing, Filling, Appending, Writes
    <3>2. CASE Removing
      BY <1>1, <2>4, <3>2, MovedSizeMaps
    <3>3. CASE Filling
      BY <1>1, <2>4, <3>3, FilledSizeMaps
    <3>4. CASE Appending
      BY <1>1, <2>4, <3>4, AddedSizeMaps DEF Ns!NsNext
    <3> QED BY <3>1, <3>2, <3>3, <3>4
  <2>5. CASE IncLinks
    BY <1>1, <2>5, IncLinksMaps DEF Ns!NsNext
  <2>6. CASE Shrink
    BY <1>1, <2>6, ShrinkMaps DEF Ns!NsNext
  <2>7. CASE DecLinks
    BY <1>1, <2>7, DecLinksMaps
  <2>8. CASE ClearBlock \/ ClearIndex
    BY <1>1, <2>8, ClearingMaps
  <2>9. CASE ClearFd
    BY <1>1, <2>9, ClearFdMaps DEF Ns!NsNext
  <2> QED BY <1>3, <2>1, <2>2, <2>3, <2>4, <2>5, <2>6, <2>7, <2>8, <2>9 DEF Step
<1>4. CASE Crash
  BY <1>1, <1>4, CrashMaps DEF Ns!NsNext
<1>5. CASE UNCHANGED vars
  BY <1>1, <1>5, StutterMaps
<1> QED BY <1>1, <1>2, <1>3, <1>4, <1>5 DEF Next

(* The image of mkfs.ffs, mounted, is the namespace of a new file system.  *)
LEMMA RefinesInit == Init => SafeInv /\ CallInv /\ Ns!NsInit
<1> SUFFICES ASSUME Init PROVE SafeInv /\ CallInv /\ Ns!NsInit
  OBVIOUS
<1>1. SafeInv
  BY SafeInit
<1>2. op = NoOp /\ op.pc = "idle" /\ op.kind = "none" /\ crashes = 0
  BY DEF Init, NoOp
<1>3. /\ Spots = {<<0, 0>>, <<0, 1>>}
      /\ At(<<0, 0>>) = [fd |-> 1, name |-> Hello]
      /\ At(<<0, 1>>) = [fd |-> 2, name |-> World]
  BY InitDisk
<1>4. CallInv
  <2>1. \A p \in Spots : At(p).name \in Names
    BY <1>3, NamesAssumption
  <2> QED BY <1>2, <2>1
          DEF CallInv, Making, Appending, Filling, Writes, Removing, Freeing
<1>5. Triples(table) = {<<Root, Hello, 1>>, <<Root, World, 2>>}
  <2>1. Triple(<<0, 0>>) = <<Root, Hello, 1>> /\ Triple(<<0, 1>>) = <<Root, World, 2>>
    BY <1>3 DEF Triple, Root
  <2>2. Triples(table) = {Triple(p) : p \in Spots}
    BY <1>1, TriplesAre
  <2> QED BY <1>3, <2>1, <2>2
<1>6. Ns!NsInit
  BY <1>2, <1>5, RequestIs DEF Ns!NsInit
<1> QED BY <1>1, <1>4, <1>6

(* Until a crash tears a file, each call of ffs.c takes effect in one of   *)
(* its disk writes: create_entry and ffs_link when the size of the         *)
(* directory is written, ffs_unlink when remove_from_dir writes the first  *)
(* block of the tail, or the size.  No other write, and no crash, changes  *)
(* what a remount finds, and no call returns before its effect is there.   *)
THEOREM CallsTakeEffectOnce == Spec => ImplementsNamespace
<1> DEFINE Inv == torn = {} => SafeInv /\ CallInv
<1>1. Init => Inv /\ Ns!NsInit
  BY RefinesInit
<1>2. Inv /\ [Next]_vars => Inv'
  BY RefinesNext, TornStays
<1>3. Inv /\ [Next]_vars => [torn = {} => Ns!NsNext]_(Ns!nsvars)
  BY RefinesNext
<1> HIDE DEF Inv
<1> QED BY <1>1, <1>2, <1>3, PTL DEF Spec, ImplementsNamespace

(* If nothing is done to an image that a crash tore, this holds for ever:  *)
(* the driver implements the whole specification of the namespace.         *)
THEOREM RefinesTheNamespace ==
  ASSUME OpsOnTorn = FALSE
  PROVE  Spec => Ns!NsSpec
<1> DEFINE Inv == SafeInv /\ CallInv
<1>1. Init => Inv /\ Ns!NsInit
  BY RefinesInit
<1>2. Inv /\ [Next]_vars => Inv' /\ [Ns!NsNext]_(Ns!nsvars)
  BY RefinesNext
<1> HIDE DEF Inv
<1> QED BY <1>1, <1>2, PTL DEF Spec, Ns!NsSpec

=============================================================================
