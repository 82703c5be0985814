--------------------------- MODULE FfsFileProofs ---------------------------
(***************************************************************************)
(* Proofs about FfsFile, for every size of the device and of a block and   *)
(* any files, processes and calls, as long as the calls on one file come   *)
(* one at a time, write up to its end, truncate within its last block, and *)
(* unlink it when it is closed (Uses = {}): which blocks belong to whom,   *)
(* what is free, and what a file holds, also while files grow side by side *)
(* and when the device is full.                                            *)
(***************************************************************************)
EXTENDS FfsFile, FiniteSetTheorems, WellFoundedInduction, TLAPS

Data == Block \ (0 .. Service - 1)

(* The process inside a file_write of a file, if there is one.             *)
Writer(f)  == CHOOSE p \in Writers(f) : TRUE
Waiting(f) == Writers(f) # {} /\ pr[Writer(f)].pc = "slot"

(* Block i of a file, counted from 1, and its datablock at 0.  A block just *)
(* found is the last of its file before its number is in the datablock.    *)
At(f, i) == IF i = 0 THEN db[f]
            ELSE IF Waiting(f) /\ i = Count(f) THEN pr[Writer(f)].got
            ELSE blk[db[f]][i]
Slots(f) == 0 .. Count(f)

(* A holder's file has a name; a file has one writer.                      *)
HoldInv ==
  /\ \A p \in Procs : pr[p] # Closed => pr[p].f \in named
  /\ \A f \in Files : \A p, q \in Writers(f) : p = q

(* The marked blocks are those of the service area and of the files, each  *)
(* in one place.                                                           *)
OwnInv ==
  /\ 0 .. Service - 1 \subseteq bits
  /\ \A f \in named : \A i \in Slots(f) : At(f, i) \in (Data \cap bits) \cup {NoBlock}
  /\ \A f, g \in named : \A i \in Slots(f), j \in Slots(g) :
       At(f, i) = At(g, j) => At(f, i) = NoBlock \/ (f = g /\ i = j)
  /\ \A b \in bits : b >= Service => \E f \in named : \E i \in Slots(f) : At(f, i) = b

(* A file has no more blocks than its size, or what is being written,      *)
(* needs, and no fewer when nothing is being written.  The slots of the    *)
(* datablock behind the last are as they were when it was made.            *)
SizeOK(f) ==
  /\ Count(f) \in Nat /\ Len(want[f]) <= MaxSize
  /\ Count(f) = 0 \/ (Count(f) - 1) * PerBlock < Len(want[f])
  /\ \A i \in Word : i > Count(f) => blk[db[f]][i] = Meta
  /\ Writers(f) = {} => /\ Len(want[f]) = size[f]
                        /\ size[f] <= Count(f) * PerBlock /\ Count(f) < PerBlock

(* A write under way: the blocks there are cover the file and the place of *)
(* the writer.                                                             *)
WriteOK(f) ==
  LET r == pr[Writer(f)] IN
  /\ size[f] <= r.bc * PerBlock /\ r.pos <= r.bc * PerBlock /\ r.bc < PerBlock
  /\ Len(want[f]) = IF size[f] > r.pos + r.left THEN size[f] ELSE r.pos + r.left
  /\ r.pc = "write" => Count(f) = r.bc
  /\ r.pc = "slot" => /\ Count(f) = r.bc + 1 /\ r.pos = r.bc * PerBlock /\ r.left > 0
                      /\ r.bc + 1 \in Word => blk[db[f]][r.bc + 1] = Meta

(* A full device leaves a file without a block only where its writer will  *)
(* step next, beyond what the file holds.                                  *)
LackOK(f) ==
  \A i \in Slots(f) : At(f, i) = NoBlock =>
    /\ i = Count(f) /\ i > 0 /\ size[f] <= (i - 1) * PerBlock
    /\ Writers(f) # {} /\ pr[Writer(f)].left > 0 /\ pr[Writer(f)].pos = (i - 1) * PerBlock

(* Each word of a file is the one last written there, but for those that   *)
(* the writer has still to put.                                            *)
Due(f) == IF Writers(f) = {} THEN {}
          ELSE pr[Writer(f)].pos .. pr[Writer(f)].pos + pr[Writer(f)].left - 1
WordsOK(f) ==
  \A k \in 0 .. Len(want[f]) - 1 :
    IF k \in Due(f) THEN want[f][k + 1] = pr[Writer(f)].val
    ELSE blk[At(f, k \div PerBlock + 1)][k % PerBlock] = want[f][k + 1]

FileOK(f) == /\ SizeOK(f) /\ LackOK(f) /\ WordsOK(f)
             /\ Writers(f) # {} => WriteOK(f)

Core == HoldInv /\ OwnInv /\ \A f \in named : FileOK(f)
FInv == TypeOK /\ (~ oops => Core)

-----------------------------------------------------------------------------
(* Numbers.                                                                *)

LEMMA Sizes == /\ PerBlock \in Nat /\ PerBlock >= 2 /\ Service \in Nat /\ Service >= 2
               /\ NBlocks \in Nat /\ Service < NBlocks /\ Bitmap \in Block /\ Bitmap \notin Data
               /\ NoBlock \notin Block /\ NoBlock \notin Data /\ 0 \in Word
BY FileAssumption DEF Bitmap, Block, Data, NoBlock, Word

(* Words in blocks: products grow, and a word lies in one block.           *)
LEMMA Products ==
  ASSUME NEW i \in Nat, NEW j \in Nat
  PROVE  /\ i * PerBlock \in Nat /\ (i + 1) * PerBlock = i * PerBlock + PerBlock
         /\ i <= j => i * PerBlock <= j * PerBlock
         /\ i < j => i * PerBlock + PerBlock <= j * PerBlock
<1>1. PerBlock \in Nat
  BY Sizes
<1>2. i * PerBlock \in Nat /\ (i + 1) * PerBlock = i * PerBlock + PerBlock
  BY <1>1
<1>3. ASSUME i <= j PROVE i * PerBlock <= j * PerBlock
  <2>1. j - i \in Nat /\ (j - i) * PerBlock >= 0
    BY <1>1, <1>3
  <2>2. j * PerBlock = i * PerBlock + (j - i) * PerBlock
    BY <1>1, <1>3
  <2> QED BY <1>1, <2>1, <2>2
<1>4. ASSUME i < j PROVE i * PerBlock + PerBlock <= j * PerBlock
  <2>1. j - i - 1 \in Nat /\ (j - i - 1) * PerBlock >= 0
    BY <1>1, <1>4
  <2>2. j * PerBlock = i * PerBlock + PerBlock + (j - i - 1) * PerBlock
    BY <1>1, <1>4
  <2> QED BY <1>1, <2>1, <2>2
<1> QED BY <1>2, <1>3, <1>4

LEMMA Dividing ==
  ASSUME NEW a \in Nat, NEW d \in Nat, d > 0
  PROVE  LET q == a \div d IN
         q \in Nat /\ a % d \in 0 .. d - 1 /\ q * d <= a /\ a < q * d + d /\ a = q * d + (a % d)
<1> DEFINE q == a \div d
<1>1. q \in Int /\ d * q <= a /\ a < d * q + d /\ a % d \in 0 .. d - 1
  OBVIOUS
<1>2. a = d * q + (a % d)
  OBVIOUS
<1>3. ~ (q <= -1)
  <2> SUFFICES ASSUME q <= -1 PROVE FALSE
    OBVIOUS
  <2> HIDE DEF q
  <2>1. d * q <= d * (-1)
    BY <1>1
  <2> QED BY <1>1, <2>1
<1>4. q \in Nat /\ d * q = q * d
  <2> HIDE DEF q
  <2> QED BY <1>1, <1>3
<1> QED BY <1>1, <1>2, <1>4
LEMMA Division ==
  ASSUME NEW a \in Nat
  PROVE  /\ a \div PerBlock \in Nat /\ a % PerBlock \in Word
         /\ (a \div PerBlock) * PerBlock <= a
         /\ a < (a \div PerBlock) * PerBlock + PerBlock
         /\ a = (a \div PerBlock) * PerBlock + (a % PerBlock)
<1>1. PerBlock \in Nat /\ PerBlock > 0
  BY Sizes
<1> QED BY <1>1, Dividing DEF Word

LEMMA Quotient ==
  ASSUME NEW a \in Nat, NEW c \in Nat, c * PerBlock <= a, a < c * PerBlock + PerBlock
  PROVE  a \div PerBlock = c
<1> DEFINE q == a \div PerBlock
<1>1. q \in Nat /\ q * PerBlock <= a /\ a < q * PerBlock + PerBlock
  BY Division
<1>2. ~ (q < c) /\ ~ (c < q)
  <2> HIDE DEF q
  <2> QED BY <1>1, Products, Sizes
<1> QED BY <1>1, <1>2

(* The blocks that so many words need.                                     *)
LEMMA NeedOf ==
  ASSUME NEW n \in Nat, NEW c \in Nat, n <= c * PerBlock, c = 0 \/ (c - 1) * PerBlock < n
  PROVE  BlocksFor(n) = c
<1>1. c * PerBlock <= n + PerBlock - 1
  <2>1. CASE c = 0
    BY <2>1, Sizes
  <2>2. CASE c # 0
    <3>1. c - 1 \in Nat /\ (c - 1 + 1) * PerBlock = (c - 1) * PerBlock + PerBlock
          /\ (c - 1) * PerBlock \in Nat
      BY <2>2, Products
    <3>2. (c - 1) + 1 = c
      OBVIOUS
    <3> QED BY <2>2, <3>1, <3>2, Sizes
  <2> QED BY <2>1, <2>2
<1>2. n + PerBlock - 1 \in Nat /\ n + PerBlock - 1 < c * PerBlock + PerBlock
  BY Sizes, Products
<1> QED BY <1>1, <1>2, Quotient DEF BlocksFor

-----------------------------------------------------------------------------
(* Processes and the files they write.                                     *)

Rec == [pc : {"open", "write", "slot"}, f : Files, bc : Nat, pos : Nat,
        left : Nat, val : Values \cup {Meta}, got : Block \cup {NoBlock}]

LEMMA RecIs == TypeOK => \A p \in Procs : /\ pr[p] # Closed => pr[p] \in Rec
                                          /\ pr[p] \in Rec => pr[p] # Closed
<1>1. Closed.pc = "closed"
  BY DEF Closed
<1>2. Closed \notin Rec
  BY <1>1 DEF Rec
<1> QED BY <1>2 DEF TypeOK, PrRec, Rec

LEMMA WriterIs ==
  TypeOK /\ HoldInv =>
    /\ \A p \in Procs : pr[p] # Closed /\ pr[p].pc # "open" =>
         pr[p].f \in named /\ Writers(pr[p].f) = {p} /\ Writer(pr[p].f) = p
    /\ \A f \in Files : Writers(f) # {} =>
         /\ Writer(f) \in Procs /\ pr[Writer(f)] \in Rec /\ pr[Writer(f)].f = f
         /\ pr[Writer(f)].pc \in {"write", "slot"} /\ Writers(f) = {Writer(f)}
<1> SUFFICES ASSUME TypeOK, HoldInv
             PROVE  /\ \A p \in Procs : pr[p] # Closed /\ pr[p].pc # "open" =>
                         pr[p].f \in named /\ Writers(pr[p].f) = {p} /\ Writer(pr[p].f) = p
                    /\ \A f \in Files : Writers(f) # {} =>
                         /\ Writer(f) \in Procs /\ pr[Writer(f)] \in Rec /\ pr[Writer(f)].f = f
                         /\ pr[Writer(f)].pc \in {"write", "slot"} /\ Writers(f) = {Writer(f)}
  OBVIOUS
<1>1. ASSUME NEW f \in Files, Writers(f) # {} PROVE Writer(f) \in Writers(f)
  BY <1>1 DEF Writer
<1>2. ASSUME NEW f \in Files, Writers(f) # {}
      PROVE  /\ Writer(f) \in Procs /\ pr[Writer(f)] \in Rec /\ pr[Writer(f)].f = f
             /\ pr[Writer(f)].pc \in {"write", "slot"} /\ Writers(f) = {Writer(f)}
  <2>1. Writer(f) \in Procs /\ pr[Writer(f)] # Closed /\ pr[Writer(f)].f = f
        /\ pr[Writer(f)].pc # "open"
    BY <1>1, <1>2 DEF Writers, Holders
  <2>2. pr[Writer(f)] \in Rec
    BY <2>1, RecIs
  <2>3. Writers(f) = {Writer(f)}
    BY <1>1, <1>2 DEF HoldInv
  <2> QED BY <2>1, <2>2, <2>3 DEF Rec
<1>3. ASSUME NEW p \in Procs, pr[p] # Closed, pr[p].pc # "open"
      PROVE  pr[p].f \in named /\ Writers(pr[p].f) = {p} /\ Writer(pr[p].f) = p
  <2>1. pr[p].f \in named /\ named \subseteq Files
    BY <1>3 DEF HoldInv, TypeOK
  <2>2. p \in Writers(pr[p].f)
    BY <1>3 DEF Writers, Holders
  <2> QED BY <1>2, <2>1, <2>2
<1> QED BY <1>2, <1>3
LEMMA WriterIsNext ==
  TypeOK' /\ HoldInv' =>
    /\ \A p \in Procs : pr'[p] # Closed /\ pr'[p].pc # "open" =>
         pr'[p].f \in named' /\ Writers(pr[p].f)' = {p} /\ Writer(pr[p].f)' = p
    /\ \A f \in Files : Writers(f)' # {} =>
         /\ Writer(f)' \in Procs /\ pr'[Writer(f)'] \in Rec /\ pr'[Writer(f)'].f = f
         /\ pr'[Writer(f)'].pc \in {"write", "slot"} /\ Writers(f)' = {Writer(f)'}
<1>1. (TypeOK /\ HoldInv)' =>
    (/\ \A p \in Procs : pr[p] # Closed /\ pr[p].pc # "open" =>
         pr[p].f \in named /\ Writers(pr[p].f) = {p} /\ Writer(pr[p].f) = p
     /\ \A f \in Files : Writers(f) # {} =>
         /\ Writer(f) \in Procs /\ pr[Writer(f)] \in Rec /\ pr[Writer(f)].f = f
         /\ pr[Writer(f)].pc \in {"write", "slot"} /\ Writers(f) = {Writer(f)})'
  BY WriterIs, PTL
<1> QED BY <1>1

(* What a file holds has a block, but for what its writer has still to put.*)
LEMMA Covered ==
  ASSUME TypeOK, HoldInv, OwnInv, NEW f \in named, FileOK(f),
         NEW k \in 0 .. Len(want[f]) - 1, k \notin Due(f)
  PROVE  k \div PerBlock + 1 \in Slots(f) /\ At(f, k \div PerBlock + 1) \in Data \cap bits
<1> DEFINE q == k \div PerBlock
<1>0. f \in Files /\ k \in Nat /\ size[f] \in Nat /\ Count(f) \in Nat /\ Len(want[f]) \in Nat
  BY DEF TypeOK, FileOK, SizeOK
<1>1. q \in Nat /\ q * PerBlock <= k /\ k < q * PerBlock + PerBlock
  BY <1>0, Division
<1>2. ASSUME NEW c \in Nat, k < c * PerBlock PROVE q < c
  <2>1. c <= q => c * PerBlock <= q * PerBlock
    BY <1>1, Products
  <2>2. c * PerBlock \in Nat /\ q * PerBlock \in Nat
    BY <1>1, Products
  <2> HIDE DEF q
  <2> QED BY <1>0, <1>1, <1>2, <2>1, <2>2
<1>3. q < Count(f) /\ At(f, q + 1) # NoBlock
  <2>1. CASE Writers(f) = {}
    <3>1. k < Count(f) * PerBlock
      <4> DEFINE n == Count(f) * PerBlock
      <4>1. n \in Nat /\ Len(want[f]) = size[f] /\ size[f] <= n
        BY <1>0, <2>1, Products DEF FileOK, SizeOK
      <4> HIDE DEF n
      <4>2. k < n
        BY <1>0, <4>1
      <4> QED BY <4>2 DEF n
    <3>2. q < Count(f)
      BY <1>0, <1>2, <3>1
    <3> QED BY <1>0, <1>1, <2>1, <3>2 DEF FileOK, LackOK, Slots
  <2>2. CASE Writers(f) # {}
    <3> DEFINE r == pr[Writer(f)]
    <3>1. r \in Rec /\ r.pc \in {"write", "slot"}
      BY <1>0, <2>2, WriterIs
    <3>2. r.pos \in Nat /\ r.left \in Nat /\ r.bc \in Nat
      BY <3>1 DEF Rec
    <3>3. /\ size[f] <= r.bc * PerBlock /\ r.pos <= r.bc * PerBlock /\ r.bc <= Count(f)
          /\ Len(want[f]) = IF size[f] > r.pos + r.left THEN size[f] ELSE r.pos + r.left
      BY <2>2, <3>1, <3>2 DEF FileOK, WriteOK
    <3>4. k < r.pos \/ k < size[f]
      <4>1. k \notin r.pos .. r.pos + r.left - 1
        BY <2>2 DEF Due
      <4> HIDE DEF r
      <4> QED BY <1>0, <3>2, <3>3, <4>1
    <3>5. k < r.bc * PerBlock
      <4> DEFINE n == r.bc * PerBlock
      <4>1. n \in Nat /\ size[f] <= n /\ r.pos <= n
        BY <3>2, <3>3, Products
      <4> HIDE DEF r, n
      <4>2. k < n
        BY <1>0, <3>2, <3>4, <4>1
      <4> QED BY <4>2 DEF n
    <3>6. q < Count(f)
      <4> HIDE DEF r, q
      <4> QED BY <1>0, <1>1, <1>2, <3>2, <3>3, <3>5
    <3>7. ASSUME At(f, q + 1) = NoBlock PROVE FALSE
      <4>1. size[f] <= (q + 1 - 1) * PerBlock /\ r.pos = (q + 1 - 1) * PerBlock
        BY <1>0, <1>1, <3>6, <3>7 DEF FileOK, LackOK, Slots
      <4>2. q + 1 - 1 = q
        BY <1>1
      <4> HIDE DEF r, q
      <4> QED BY <1>0, <1>1, <3>2, <3>4, <4>1, <4>2
    <3> QED BY <3>6, <3>7
  <2> QED BY <2>1, <2>2
<1>4. q + 1 \in Slots(f)
  <2> HIDE DEF q
  <2> QED BY <1>0, <1>1, <1>3 DEF Slots
<1> QED BY <1>3, <1>4 DEF OwnInv

-----------------------------------------------------------------------------
(* A file that a step leaves alone.                                        *)
Unmoved(g) ==
  /\ Writers(g)' = Writers(g) /\ (Writers(g) # {} => pr'[Writer(g)] = pr[Writer(g)])
  /\ db'[g] = db[g] /\ blk'[db[g]] = blk[db[g]] /\ size'[g] = size[g] /\ want'[g] = want[g]
  /\ \A i \in Slots(g) : At(g, i) \in Data => blk'[At(g, i)] = blk[At(g, i)]

LEMMA UnmovedAt ==
  ASSUME NEW g, Unmoved(g)
  PROVE  /\ Count(g)' = Count(g) /\ Slots(g)' = Slots(g) /\ Due(g)' = Due(g)
         /\ Writer(g)' = Writer(g) /\ \A i \in Slots(g) : At(g, i)' = At(g, i)
<1>1. Count(g)' = Count(g) /\ Slots(g)' = Slots(g)
  BY DEF Unmoved, Count, Slots
<1>2. Writer(g)' = Writer(g)
  BY DEF Unmoved, Writer
<1>3. Waiting(g)' = Waiting(g) /\ Due(g)' = Due(g)
  BY <1>2 DEF Unmoved, Waiting, Due
<1>4. \A i \in Slots(g) : At(g, i)' = At(g, i)
  BY <1>1, <1>2, <1>3 DEF At, Unmoved, Waiting
<1> QED BY <1>1, <1>2, <1>3, <1>4

LEMMA UnmovedOK ==
  ASSUME TypeOK, HoldInv, OwnInv, NEW g \in named, FileOK(g), Unmoved(g)
  PROVE  FileOK(g)'
<1>1. /\ Count(g)' = Count(g) /\ Slots(g)' = Slots(g) /\ Due(g)' = Due(g)
      /\ Writer(g)' = Writer(g) /\ \A i \in Slots(g) : At(g, i)' = At(g, i)
  BY UnmovedAt
<1>2. SizeOK(g)'
  BY <1>1 DEF FileOK, SizeOK, Unmoved
<1>3. LackOK(g)'
  BY <1>1 DEF FileOK, LackOK, Unmoved
<1>4. Writers(g)' # {} => WriteOK(g)'
  BY <1>1 DEF FileOK, WriteOK, Unmoved
<1>5. WordsOK(g)'
  <2> SUFFICES ASSUME NEW k \in 0 .. Len(want[g]) - 1
               PROVE  IF k \in Due(g) THEN want[g][k + 1] = pr'[Writer(g)].val
                      ELSE blk'[At(g, k \div PerBlock + 1)'][k % PerBlock] = want[g][k + 1]
    BY <1>1 DEF WordsOK, Unmoved
  <2>1. CASE k \in Due(g)
    <3>1. Writers(g) # {} /\ want[g][k + 1] = pr[Writer(g)].val
      BY <2>1 DEF FileOK, WordsOK, Due
    <3> QED BY <2>1, <3>1 DEF Unmoved
  <2>2. CASE k \notin Due(g)
    <3>1. k \div PerBlock + 1 \in Slots(g) /\ At(g, k \div PerBlock + 1) \in Data
      BY <2>2, Covered
    <3>2. blk[At(g, k \div PerBlock + 1)][k % PerBlock] = want[g][k + 1]
      BY <2>2 DEF FileOK, WordsOK
    <3> QED BY <1>1, <2>2, <3>1, <3>2 DEF Unmoved
  <2> QED BY <2>1, <2>2
<1> QED BY <1>2, <1>3, <1>4, <1>5 DEF FileOK

(* A set of numbers that is not empty has a least member.                  *)
LEMMA LeastOf ==
  ASSUME NEW S \in SUBSET Nat, S # {}
  PROVE  \E m \in S : \A n \in S : m <= n
<1>1. PICK top \in S : TRUE
  OBVIOUS
<1> DEFINE I == 0 .. top
           T == {0 .. n : n \in S \cap I}
<1>2. IsFiniteSet(I)
  BY FS_Interval
<1>3. IsWellFoundedOn(StrictSubsetOrdering(I), SUBSET I)
  BY <1>2, FS_StrictSubsetOrderingWellFounded, FS_FiniteSubsetsOfFinite
<1>4. T \subseteq SUBSET I /\ T # {}
  <2>1. \A n \in S \cap I : (0 .. n) \subseteq I
    OBVIOUS
  <2> QED BY <1>1, <2>1
<1>5. PICK x \in T : \A y \in T : ~ (<<y, x>> \in StrictSubsetOrdering(I))
  <2> HIDE DEF T, I
  <2> QED BY <1>3, <1>4, WFMin
<1>6. PICK m \in S \cap I : x = 0 .. m
  BY <1>5
<1>7. ASSUME NEW n \in S PROVE m <= n
  <2> SUFFICES ASSUME n < m PROVE FALSE
    OBVIOUS
  <2>1. n \in S \cap I /\ (0 .. n) \in T
    OBVIOUS
  <2>2. (0 .. n) \subseteq (0 .. m) /\ (0 .. n) # (0 .. m)
    <3>1. m \in 0 .. m /\ m \notin 0 .. n
      OBVIOUS
    <3> QED BY <3>1
  <2>3. (0 .. n) \in SUBSET I /\ (0 .. m) \in SUBSET I
    BY <1>4, <1>6, <2>1
  <2>4. <<0 .. n, 0 .. m>> \in StrictSubsetOrdering(I)
    <3> HIDE DEF I
    <3> QED BY <2>2, <2>3 DEF StrictSubsetOrdering
  <2> QED BY <1>5, <1>6, <2>1, <2>4
<1> QED BY <1>7

(* The search of the bitmap finds a clear bit if there is one.             *)
LEMMA FoundClear == TypeOK => EmptyBlk \in Clear \cup {NoBlock}
<1> SUFFICES ASSUME TypeOK, Clear # {} PROVE EmptyBlk \in Clear
  BY DEF EmptyBlk
<1>1. Clear \in SUBSET Nat
  BY DEF Clear, Block
<1>2. \E b \in Clear : \A c \in Clear : b <= c
  BY <1>1, LeastOf
<1> QED BY <1>2 DEF EmptyBlk

(* The datablock of a file with a name is its own, and marked.             *)
LEMMA OwnDatablock ==
  ASSUME TypeOK, OwnInv, NEW f \in named, FileOK(f)
  PROVE  /\ f \in Files /\ 0 \in Slots(f) /\ db[f] \in Data \cap bits /\ db[f] \in Block
         /\ db[f] # Bitmap /\ Count(f) \in Nat /\ size[f] \in Nat /\ Len(want[f]) \in Nat
         /\ DOMAIN want[f] = 1 .. Len(want[f]) /\ want[f] \in Seq(Values \cup {Meta})
         /\ \A i \in Slots(f) : i # 0 => At(f, i) # db[f]
<1>1. f \in Files /\ Count(f) \in Nat /\ size[f] \in Nat /\ want[f] \in Seq(Values \cup {Meta})
      /\ db[f] \in Block
  BY DEF TypeOK, FileOK, SizeOK
<1>2. 0 \in Slots(f) /\ At(f, 0) = db[f]
  BY <1>1 DEF Slots, At
<1>3. db[f] \in Data \cap bits /\ db[f] # NoBlock /\ db[f] # Bitmap
  BY <1>1, <1>2, Sizes DEF OwnInv
<1>4. \A i \in Slots(f) : i # 0 => At(f, i) # db[f]
  BY <1>2, <1>3 DEF OwnInv
<1> QED BY <1>1, <1>2, <1>3, <1>4 DEF Data

(* A step that writes blocks of one file, free blocks or the bitmap moves  *)
(* no other file.                                                          *)
LEMMA Elsewhere ==
  ASSUME TypeOK, HoldInv, OwnInv, NEW f, NEW g \in named, g # f, FileOK(g),
         \A b \in Data \cap bits :
           blk'[b] = blk[b] \/ (f \in named /\ \E j \in Slots(f) : b = At(f, j)),
         \A q \in Procs : pr'[q] = pr[q] \/ (q \notin Writers(g) /\ q \notin Writers(g)'),
         db'[g] = db[g], size'[g] = size[g], want'[g] = want[g]
  PROVE  Unmoved(g)
<1>1. Writers(g)' = Writers(g)
  <2>1. \A q \in Procs : q \in Writers(g)' <=> q \in Writers(g)
    BY DEF Writers, Holders
  <2>2. Writers(g) \subseteq Procs /\ Writers(g)' \subseteq Procs
    BY DEF Writers, Holders
  <2> QED BY <2>1, <2>2
<1>2. Writers(g) # {} => pr'[Writer(g)] = pr[Writer(g)]
  BY DEF Writer, Writers, Holders
<1>3. ASSUME NEW i \in Slots(g), At(g, i) \in Data PROVE blk'[At(g, i)] = blk[At(g, i)]
  <2>1. At(g, i) \in Data \cap bits /\ At(g, i) # NoBlock
    BY <1>3, Sizes DEF OwnInv
  <2>2. f \in named => \A j \in Slots(f) : At(f, j) # At(g, i)
    BY <1>3, <2>1 DEF OwnInv
  <2> QED BY <2>1, <2>2
<1>4. blk'[db[g]] = blk[db[g]]
  <2>1. 0 \in Slots(g) /\ At(g, 0) = db[g] /\ db[g] \in Data
    BY OwnDatablock DEF At
  <2> QED BY <1>3, <2>1
<1> QED BY <1>1, <1>2, <1>3, <1>4 DEF Unmoved

LEMMA OwnKept ==
  ASSUME OwnInv, named' = named, bits' = bits,
         \A g \in named : Slots(g)' = Slots(g) /\ \A i \in Slots(g) : At(g, i)' = At(g, i)
  PROVE  OwnInv'
BY DEF OwnInv

(* A step of one process that moves no file.                               *)
LEMMA NothingMoves ==
  ASSUME TypeOK, Core, HoldInv', named' = named, bits' = bits, \A g \in named : Unmoved(g)
  PROVE  Core'
<1>1. \A g \in named : FileOK(g)'
  BY UnmovedOK DEF Core
<1>2. OwnInv'
  BY UnmovedAt, OwnKept DEF Core
<1> QED BY <1>1, <1>2 DEF Core

(* A step that keeps the blocks of a file where they are, and moves no     *)
(* other.                                                                  *)
LEMMA OneMoves ==
  ASSUME TypeOK, Core, HoldInv', named' = named, bits' = bits, NEW f \in named,
         \A g \in named : g # f => Unmoved(g),
         Slots(f)' = Slots(f), \A i \in Slots(f) : At(f, i)' = At(f, i), FileOK(f)'
  PROVE  Core'
<1>1. \A g \in named : FileOK(g)'
  BY UnmovedOK DEF Core
<1>2. OwnInv'
  BY UnmovedAt, OwnKept DEF Core
<1> QED BY <1>1, <1>2 DEF Core

(* A process that holds a file goes from one place in the code to another. *)
LEMMA ProcStep ==
  ASSUME TypeOK, HoldInv, NEW p \in Procs, pr[p] # Closed, named' = named,
         NEW f, f = pr[p].f, NEW x \in Rec, pr' = [pr EXCEPT ![p] = x], x.f = f,
         pr[p].pc # "open" \/ Writers(f) = {}
  PROVE  /\ pr' \in [Procs -> PrRec] /\ HoldInv' /\ pr'[p] = x
         /\ pr[p] \in Rec /\ f \in named /\ f \in Files
         /\ \A g \in named : g # f =>
              \A q \in Procs : pr'[q] = pr[q] \/ (q \notin Writers(g) /\ q \notin Writers(g)')
         /\ x.pc # "open" => Writers(f)' = {p} /\ Writer(f)' = p
         /\ x.pc = "open" => Writers(f)' = {}
<1>1. pr' \in [Procs -> PrRec]
  BY DEF TypeOK, PrRec, Rec
<1>2. pr'[p] = x /\ \A q \in Procs : q # p => pr'[q] = pr[q]
  BY DEF TypeOK
<1>3. pr[p] \in Rec /\ f \in named /\ f \in Files
  BY RecIs DEF HoldInv, TypeOK
<1>4. \A g : g # f => p \notin Writers(g) /\ p \notin Writers(g)'
  BY <1>2 DEF Writers, Holders
<1>5. \A g : g # f => Writers(g)' = Writers(g)
  <2> SUFFICES ASSUME NEW g, g # f PROVE Writers(g)' = Writers(g)
    OBVIOUS
  <2>1. \A q \in Procs : q \in Writers(g)' <=> q \in Writers(g)
    BY <1>2, <1>4 DEF Writers, Holders
  <2> QED BY <2>1 DEF Writers, Holders
<1>6. \A q \in Writers(f) : q = p
  <2> SUFFICES ASSUME NEW q \in Writers(f) PROVE q = p
    OBVIOUS
  <2>1. p \in Writers(f)
    BY DEF Writers, Holders
  <2> QED BY <1>3, <2>1 DEF HoldInv
<1>7. \A q \in Writers(f)' : q = p
  BY <1>2, <1>6 DEF Writers, Holders
<1>8. \A q \in Procs : pr'[q] # Closed => pr'[q].f \in named
  BY <1>2, <1>3 DEF HoldInv
<1>9. HoldInv'
  BY <1>5, <1>7, <1>8 DEF HoldInv
<1>10. x # Closed
  BY DEF Closed, Rec
<1>11. x.pc # "open" => Writers(f)' = {p}
  BY <1>2, <1>7, <1>10 DEF Writers, Holders
<1>12. x.pc # "open" => Writer(f)' = p
  BY <1>11 DEF Writer
<1>13. x.pc = "open" => Writers(f)' = {}
  BY <1>2, <1>7 DEF Writers, Holders
<1> QED BY <1>1, <1>2, <1>3, <1>4, <1>9, <1>11, <1>12, <1>13

-----------------------------------------------------------------------------
(* open and close.                                                         *)
LEMMA OpenInv ==
  ASSUME TypeOK, Core, NEW p \in Procs, NEW f \in Files, Open(p, f)
  PROVE  TypeOK' /\ Core'
<1> DEFINE r == [pc |-> "open", f |-> f, bc |-> 0, pos |-> 0,
                 left |-> 0, val |-> Meta, got |-> NoBlock]
<1>1. /\ f \in named /\ pr' = [pr EXCEPT ![p] = r] /\ pr[p] = Closed
      /\ UNCHANGED <<bits, blk, db, size, named, want, oops, nops>>
  BY DEF Open
<1>2. r \in Rec /\ r.pc = "open" /\ r.f = f
  BY DEF Rec
<1>3. pr'[p] = r /\ \A q \in Procs : q # p => pr'[q] = pr[q]
  BY <1>1 DEF TypeOK
<1> HIDE DEF r
<1>4. TypeOK'
  BY <1>1, <1>2 DEF TypeOK, PrRec, Rec
<1>5. \A g : p \notin Writers(g) /\ p \notin Writers(g)'
  BY <1>1, <1>2, <1>3 DEF Writers, Holders
<1>6. \A g \in named : Unmoved(g)
  <2> SUFFICES ASSUME NEW g \in named PROVE Unmoved(g)
    OBVIOUS
  <2>1. \A q \in Procs : pr'[q] = pr[q] \/ (q \notin Writers(g) /\ q \notin Writers(g)')
    BY <1>3, <1>5
  <2>2. PICK h : h # g
    <3>1. {g} # g \/ {} # g
      OBVIOUS
    <3> QED BY <3>1
  <2> QED BY <1>1, <2>1, <2>2, Elsewhere DEF Core
<1>7. HoldInv'
  <2>1. \A q \in Procs : pr'[q] # Closed => pr'[q].f \in named
    BY <1>1, <1>2, <1>3 DEF Core, HoldInv
  <2>2. \A g : Writers(g)' \subseteq Writers(g)
    BY <1>3, <1>5 DEF Writers, Holders
  <2> QED BY <1>1, <2>1, <2>2 DEF Core, HoldInv
<1>8. Core'
  BY <1>1, <1>6, <1>7, NothingMoves
<1> QED BY <1>4, <1>8

LEMMA CloseInv ==
  ASSUME TypeOK, Core, NEW p \in Procs, Close(p)
  PROVE  TypeOK' /\ Core'
<1>1. /\ pr' = [pr EXCEPT ![p] = Closed] /\ pr[p] # Closed /\ pr[p].pc = "open"
      /\ UNCHANGED <<bits, blk, db, size, named, want, oops, nops>>
  BY DEF Close
<1>3. pr'[p] = Closed /\ \A q \in Procs : q # p => pr'[q] = pr[q]
  BY <1>1 DEF TypeOK
<1>4. TypeOK'
  BY <1>1 DEF TypeOK, PrRec
<1>5. \A g : p \notin Writers(g) /\ p \notin Writers(g)'
  BY <1>1, <1>3 DEF Writers, Holders
<1>6. \A g \in named : Unmoved(g)
  <2> SUFFICES ASSUME NEW g \in named PROVE Unmoved(g)
    OBVIOUS
  <2>1. \A q \in Procs : pr'[q] = pr[q] \/ (q \notin Writers(g) /\ q \notin Writers(g)')
    BY <1>3, <1>5
  <2>2. PICK h : h # g
    <3>1. {g} # g \/ {} # g
      OBVIOUS
    <3> QED BY <3>1
  <2> QED BY <1>1, <2>1, <2>2, Elsewhere DEF Core
<1>7. HoldInv'
  <2>1. \A q \in Procs : pr'[q] # Closed => pr'[q].f \in named
    BY <1>1, <1>3 DEF Core, HoldInv
  <2>2. \A g : Writers(g)' \subseteq Writers(g)
    BY <1>3, <1>5 DEF Writers, Holders
  <2> QED BY <1>1, <2>1, <2>2 DEF Core, HoldInv
<1>8. Core'
  BY <1>1, <1>6, <1>7, NothingMoves
<1> QED BY <1>4, <1>8

-----------------------------------------------------------------------------
(* file_write, up to its first sleep.                                      *)
LEMMA OverlayIs ==
  ASSUME NEW s \in Seq(Values \cup {Meta}), NEW a \in Nat, a <= Len(s), NEW c \in Nat,
         NEW w \in Values
  PROVE  Overlay(s, a, c, w) \in Seq(Values \cup {Meta})
<1> DEFINE top == IF Len(s) > a + c THEN Len(s) ELSE a + c
<1>1. top \in Nat /\ top >= a + c /\ top >= Len(s) /\ Len(s) \in Nat
  OBVIOUS
<1>2. Overlay(s, a, c, w) = [i \in 1 .. top |->
            IF i \in a + 1 .. a + c THEN w ELSE IF i <= Len(s) THEN s[i] ELSE Meta]
  BY DEF Overlay
<1> HIDE DEF top
<1>3. \A i \in 1 .. top : i <= Len(s) => s[i] \in Values \cup {Meta}
  BY <1>1
<1> QED BY <1>1, <1>2, <1>3

LEMMA OverlayWords ==
  ASSUME NEW s \in Seq(Values \cup {Meta}), NEW a \in Nat, a <= Len(s), NEW c \in Nat,
         NEW w \in Values, NEW t \in Seq(Values \cup {Meta}), t = Overlay(s, a, c, w)
  PROVE  /\ Len(t) = IF Len(s) > a + c THEN Len(s) ELSE a + c
         /\ \A k \in Nat : k >= a /\ k < a + c => t[k + 1] = w
         /\ \A k \in Nat : k < Len(t) /\ (k < a \/ k >= a + c) =>
              k < Len(s) /\ t[k + 1] = s[k + 1]
<1> DEFINE top == IF Len(s) > a + c THEN Len(s) ELSE a + c
<1>1. top \in Nat /\ top >= a + c /\ top >= Len(s) /\ Len(s) \in Nat
  OBVIOUS
<1>2. t = [i \in 1 .. top |->
            IF i \in a + 1 .. a + c THEN w ELSE IF i <= Len(s) THEN s[i] ELSE Meta]
  BY DEF Overlay
<1>3. Len(t) = top
  <2> HIDE DEF top
  <2> QED BY <1>1, <1>2
<1>4. ASSUME NEW k \in Nat, k >= a, k < a + c PROVE t[k + 1] = w
  <2>1. k + 1 \in 1 .. top /\ k + 1 \in a + 1 .. a + c
    BY <1>1, <1>4
  <2> HIDE DEF top
  <2> QED BY <1>2, <2>1
<1>5. ASSUME NEW k \in Nat, k < top, k < a \/ k >= a + c
      PROVE  k < Len(s) /\ t[k + 1] = s[k + 1]
  <2>1. k < Len(s)
    BY <1>1, <1>5
  <2>2. k + 1 \notin a + 1 .. a + c /\ k + 1 \in 1 .. top
    BY <1>1, <1>5
  <2> HIDE DEF top
  <2> QED BY <1>1, <1>2, <2>1, <2>2
<1> QED BY <1>3, <1>4, <1>5

LEMMA WriteInv ==
  ASSUME TypeOK, Core, Uses = {}, NEW p \in Procs, NEW append \in BOOLEAN,
         NEW at \in Nat, NEW n \in Nat, n > 0, NEW v \in Values,
         Write(p, append, at, n, v)
  PROVE  TypeOK' /\ Core'
<1>0. PICK f \in Files : f = pr[p].f /\ f \in named
  BY RecIs DEF Write, Core, HoldInv, TypeOK
<1> DEFINE pos == IF append THEN size[f] ELSE at
           x == [pr[p] EXCEPT !.pc = "write", !.bc = Count(f), !.pos = pos,
                              !.left = n, !.val = v]
<1>1. /\ pr[p] # Closed /\ pr[p].pc = "open" /\ Writers(f) = {}
      /\ pos <= size[f] /\ pos + n <= MaxSize /\ pr' = [pr EXCEPT ![p] = x]
      /\ want' = [want EXCEPT ![f] = Overlay(@, IF append THEN Len(@) ELSE at, n, v)]
      /\ UNCHANGED <<bits, blk, db, size, named, oops>> /\ nops' = nops + 1
  BY <1>0 DEF Write, Op
<1>2. pr[p] \in Rec /\ f \in named /\ HoldInv /\ OwnInv /\ FileOK(f)
  BY <1>0, <1>1, RecIs DEF Core
<1>3. /\ f \in Files /\ size[f] \in Nat /\ Count(f) \in Nat /\ want[f] \in Seq(Values \cup {Meta})
      /\ MaxSize \in Nat /\ pos \in Nat
      /\ Len(want[f]) = size[f] /\ size[f] <= Count(f) * PerBlock /\ Count(f) < PerBlock
  <2>1. /\ size[f] \in Nat /\ Count(f) \in Nat /\ want[f] \in Seq(Values \cup {Meta})
        /\ Len(want[f]) = size[f] /\ size[f] <= Count(f) * PerBlock /\ Count(f) < PerBlock
    BY <1>1, <1>2, OwnDatablock DEF FileOK, SizeOK
  <2>2. MaxSize \in Nat /\ pos \in Nat
    BY <2>1, FileAssumption
  <2> QED BY <2>1, <2>2
<1>4. want' = [want EXCEPT ![f] = Overlay(want[f], pos, n, v)]
  BY <1>1, <1>3 DEF TypeOK
<1> HIDE DEF pos
<1>5. x \in Rec /\ x.f = f /\ x.pc = "write" /\ x.bc = Count(f) /\ x.pos = pos
      /\ x.left = n /\ x.val = v
  BY <1>0, <1>2, <1>3 DEF Rec
<1> HIDE DEF x
<1>6. /\ pr' \in [Procs -> PrRec] /\ HoldInv' /\ pr'[p] = x
      /\ Writers(f)' = {p} /\ Writer(f)' = p
      /\ \A g \in named : g # f =>
           \A q \in Procs : pr'[q] = pr[q] \/ (q \notin Writers(g) /\ q \notin Writers(g)')
  BY <1>0, <1>1, <1>2, <1>5, ProcStep
<1>o. PICK o : o = Overlay(want[f], pos, n, v)
  OBVIOUS
<1>7. /\ o \in Seq(Values \cup {Meta})
      /\ Len(o) = IF size[f] > pos + n THEN size[f] ELSE pos + n
      /\ \A k \in Nat : k >= pos /\ k < pos + n => o[k + 1] = v
      /\ \A k \in Nat : k < Len(o) /\ (k < pos \/ k >= pos + n) =>
           k < Len(want[f]) /\ o[k + 1] = want[f][k + 1]
  <2>1. PICK s, a : s = want[f] /\ a = pos
    OBVIOUS
  <2>2. s \in Seq(Values \cup {Meta}) /\ a \in Nat /\ a <= Len(s) /\ o = Overlay(s, a, n, v)
    BY <1>o, <1>1, <1>3, <2>1
  <2>3. o \in Seq(Values \cup {Meta})
    BY <2>2, OverlayIs
  <2>4. /\ Len(o) = IF Len(s) > a + n THEN Len(s) ELSE a + n
        /\ \A k \in Nat : k >= a /\ k < a + n => o[k + 1] = v
        /\ \A k \in Nat : k < Len(o) /\ (k < a \/ k >= a + n) =>
             k < Len(s) /\ o[k + 1] = s[k + 1]
    <3>1. Len(o) = IF Len(s) > a + n THEN Len(s) ELSE a + n
      BY <2>2, <2>3, OverlayWords
    <3>2. \A k \in Nat : k >= a /\ k < a + n => o[k + 1] = v
      BY <2>2, <2>3, OverlayWords
    <3>3. \A k \in Nat : k < Len(o) /\ (k < a \/ k >= a + n) =>
            k < Len(s) /\ o[k + 1] = s[k + 1]
      BY <2>2, <2>3, OverlayWords
    <3> QED BY <3>1, <3>2, <3>3
  <2> QED BY <1>3, <2>1, <2>3, <2>4
<1>8. want'[f] = o /\ \A g \in Files : g # f => want'[g] = want[g]
  BY <1>o, <1>3, <1>4 DEF TypeOK
<1>9. TypeOK'
  BY <1>o, <1>1, <1>4, <1>6, <1>7 DEF TypeOK
<1>10. Count(f)' = Count(f) /\ Slots(f)' = Slots(f) /\ \A i \in Slots(f) : At(f, i)' = At(f, i)
  <2>1. ~ Waiting(f) /\ ~ Waiting(f)'
    BY <1>1, <1>5, <1>6 DEF Waiting
  <2> QED BY <1>1, <2>1 DEF At, Slots, Count
<1>11. \A i \in Slots(f) : At(f, i) # NoBlock
  BY <1>1, <1>2 DEF FileOK, LackOK
<1>12. Due(f)' = pos .. pos + n - 1 /\ Due(f) = {}
  BY <1>1, <1>5, <1>6 DEF Due
<1>13. SizeOK(f)'
  <2>1. Len(o) \in Nat /\ Len(o) <= MaxSize /\ Len(o) >= Len(want[f])
    BY <1>1, <1>2, <1>3, <1>7 DEF FileOK, SizeOK
  <2>2. Count(f) = 0 \/ (Count(f) - 1) * PerBlock < Len(o)
    <3>1. CASE Count(f) # 0
      <4>1. Count(f) - 1 \in Nat
        BY <1>3, <3>1
      <4>2. (Count(f) - 1) * PerBlock \in Nat
        BY <4>1, Products
      <4>3. (Count(f) - 1) * PerBlock < Len(want[f])
        BY <1>2, <3>1 DEF FileOK, SizeOK
      <4> QED BY <1>3, <2>1, <4>2, <4>3
    <3> QED BY <3>1
  <2>3. \A i \in Word : i > Count(f) => blk[db[f]][i] = Meta
    BY <1>2 DEF FileOK, SizeOK
  <2> QED BY <1>1, <1>3, <1>6, <1>8, <1>10, <2>1, <2>2, <2>3 DEF SizeOK
<1>14. LackOK(f)'
  BY <1>10, <1>11 DEF LackOK
<1>15. WriteOK(f)'
  <2> DEFINE m == Count(f) * PerBlock
  <2>1. m \in Nat /\ pos <= m /\ size[f] <= m
    <3>1. m \in Nat /\ size[f] <= m
      BY <1>3, Products
    <3> HIDE DEF m
    <3> QED BY <1>1, <1>3, <3>1
  <2> QED BY <1>1, <1>3, <1>5, <1>6, <1>7, <1>8, <1>10, <2>1 DEF WriteOK
<1>16. WordsOK(f)'
  <2> SUFFICES ASSUME NEW k \in 0 .. Len(o) - 1
               PROVE  IF k \in pos .. pos + n - 1 THEN o[k + 1] = v
                      ELSE blk'[At(f, k \div PerBlock + 1)'][k % PerBlock] = o[k + 1]
    BY <1>5, <1>6, <1>8, <1>12 DEF WordsOK
  <2>1. CASE k \in pos .. pos + n - 1
    BY <1>3, <1>7, <2>1
  <2>2. CASE k \notin pos .. pos + n - 1
    <3>1. k \in 0 .. Len(want[f]) - 1 /\ o[k + 1] = want[f][k + 1] /\ k \notin Due(f)
      <4>1. k \in Nat /\ k < Len(o) /\ (k < pos \/ k >= pos + n)
        BY <1>3, <1>7, <2>2
      <4> QED BY <1>3, <1>7, <1>12, <4>1
    <3>2. k \div PerBlock + 1 \in Slots(f)
      BY <1>2, <3>1, Covered
    <3>3. blk[At(f, k \div PerBlock + 1)][k % PerBlock] = want[f][k + 1]
      BY <1>2, <3>1 DEF FileOK, WordsOK
    <3> QED BY <1>1, <1>10, <2>2, <3>1, <3>2, <3>3
  <2> QED BY <2>1, <2>2
<1>17. \A g \in named : g # f => Unmoved(g)
  BY <1>1, <1>2, <1>6, <1>8, Elsewhere DEF Core, TypeOK
<1>18. FileOK(f)'
  BY <1>13, <1>14, <1>15, <1>16 DEF FileOK
<1>19. Core'
  BY <1>1, <1>2, <1>6, <1>10, <1>17, <1>18, OneMoves
<1> QED BY <1>9, <1>19

-----------------------------------------------------------------------------
(* A block found clear, or none, becomes one more block of a file that may *)
(* be new.                                                                 *)
LEMMA OwnGained ==
  ASSUME TypeOK, OwnInv, NEW f \in Files, NEW old, old = IF f \in named THEN Slots(f) ELSE {},
         NEW j, j \notin old, Slots(f)' = old \cup {j}, named' = named \cup {f},
         \A i \in old : At(f, i)' = At(f, i), NEW e, At(f, j)' = e,
         e \in Clear \cup {NoBlock}, bits' = Marked(e),
         \A g \in named : g # f => Slots(g)' = Slots(g) /\ \A i \in Slots(g) : At(g, i)' = At(g, i)
  PROVE  OwnInv'
<1>1. bits \subseteq bits' /\ bits' \subseteq bits \cup {e}
  BY DEF Marked
<1>2. 0 .. Service - 1 \subseteq bits' /\ 0 .. Service - 1 \subseteq bits
  BY <1>1 DEF OwnInv
<1>3. e # NoBlock => e \in Data /\ e \in bits' /\ e \notin bits
  BY <1>2 DEF Clear, Data, Marked
<1>4. \A g \in named' : \A i \in Slots(g)' :
        \/ g = f /\ i = j /\ At(g, i)' = e
        \/ g \in named /\ i \in Slots(g) /\ At(g, i)' = At(g, i)
  OBVIOUS
<1>5. \A g \in named' : \A i \in Slots(g)' : At(g, i)' \in (Data \cap bits') \cup {NoBlock}
  BY <1>1, <1>3, <1>4 DEF OwnInv
<1>6. ASSUME NEW g, NEW h, NEW i, NEW k, g \in named', h \in named',
             i \in Slots(g)', k \in Slots(h)', At(g, i)' = At(h, k)', At(g, i)' # NoBlock
      PROVE  g = h /\ i = k
  <2>1. CASE g = f /\ i = j /\ At(g, i)' = e
    <3>1. ~ (h \in named /\ k \in Slots(h) /\ At(h, k)' = At(h, k))
      BY <1>3, <1>6, <2>1 DEF OwnInv
    <3> QED BY <1>4, <1>6, <2>1, <3>1
  <2>2. CASE g \in named /\ i \in Slots(g) /\ At(g, i)' = At(g, i)
    <3>1. At(g, i) \in bits /\ ~ (h = f /\ k = j /\ At(h, k)' = e)
      BY <1>3, <1>6, <2>2 DEF OwnInv
    <3>2. h \in named /\ k \in Slots(h) /\ At(h, k)' = At(h, k)
      BY <1>4, <1>6, <3>1
    <3>3. At(g, i) = At(h, k) /\ At(g, i) # NoBlock
      BY <1>6, <2>2, <3>2
    <3> QED BY <2>2, <3>2, <3>3 DEF OwnInv
  <2> QED BY <1>4, <1>6, <2>1, <2>2
<1>7. ASSUME NEW b \in bits', b >= Service PROVE \E g \in named' : \E i \in Slots(g)' : At(g, i)' = b
  <2>1. CASE b = e
    BY <2>1
  <2>2. CASE b \in bits
    <3>1. PICK g \in named : \E i \in Slots(g) : At(g, i) = b
      BY <1>7, <2>2 DEF OwnInv
    <3>2. \E i \in Slots(g)' : At(g, i)' = b
      BY <3>1
    <3> QED BY <3>2
  <2> QED BY <1>1, <2>1, <2>2
<1> QED BY <1>2, <1>5, <1>6, <1>7 DEF OwnInv, Data

(* What is known of a process inside file_write, and of its file.          *)
LEMMA Writing ==
  ASSUME TypeOK, Core, NEW p \in Procs, pr[p] # Closed, pr[p].pc # "open", NEW f, f = pr[p].f
  PROVE  /\ f \in named /\ f \in Files /\ HoldInv /\ OwnInv /\ FileOK(f) /\ WriteOK(f)
         /\ Writers(f) = {p} /\ Writer(f) = p /\ pr[p] \in Rec
         /\ pr[p].pos \in Nat /\ pr[p].bc \in Nat /\ pr[p].left \in Nat
         /\ pr[p].val \in Values \cup {Meta} /\ pr[p].got \in Block \cup {NoBlock}
         /\ db[f] \in Data \cap bits /\ db[f] \in Block /\ db[f] # Bitmap
         /\ size[f] \in Nat /\ Len(want[f]) \in Nat /\ 0 \in Slots(f)
         /\ \A i \in Slots(f) : i # 0 => At(f, i) # db[f]
<1>1. f \in named /\ HoldInv /\ OwnInv /\ FileOK(f)
  BY DEF Core, HoldInv
<1>2. Writers(f) = {p} /\ Writer(f) = p /\ pr[p] \in Rec
  BY <1>1, RecIs, WriterIs
<1>3. WriteOK(f)
  BY <1>1, <1>2 DEF FileOK
<1>4. /\ pr[p].pos \in Nat /\ pr[p].bc \in Nat /\ pr[p].left \in Nat
      /\ pr[p].val \in Values \cup {Meta} /\ pr[p].got \in Block \cup {NoBlock}
  BY <1>2 DEF Rec
<1> QED BY <1>1, <1>2, <1>3, <1>4, OwnDatablock

(* The words of a file are as they were when its blocks are and its writer *)
(* owes the same ones.                                                     *)
LEMMA WordsKept ==
  ASSUME TypeOK, HoldInv, OwnInv, NEW f \in named, FileOK(f),
         \A b \in Data : b # db[f] => blk'[b] = blk[b],
         \A i \in Slots(f) : At(f, i)' = At(f, i), want'[f] = want[f], Due(f)' = Due(f),
         Due(f) # {} => pr'[Writer(f)'].val = pr[Writer(f)].val
  PROVE  WordsOK(f)'
<1> SUFFICES ASSUME NEW k \in 0 .. Len(want'[f]) - 1
             PROVE  IF k \in Due(f)' THEN want'[f][k + 1] = pr'[Writer(f)'].val
                    ELSE blk'[At(f, k \div PerBlock + 1)'][k % PerBlock] = want'[f][k + 1]
  BY Zenon DEF WordsOK
<1>0. k \in 0 .. Len(want[f]) - 1
  OBVIOUS
<1>1. CASE k \in Due(f)
  <2>1. want[f][k + 1] = pr[Writer(f)].val
    BY <1>0, <1>1, Zenon DEF FileOK, WordsOK
  <2> QED BY <1>1, <2>1
<1>2. CASE k \notin Due(f)
  <2> DEFINE i == k \div PerBlock + 1
  <2>1. k \in Nat /\ k \div PerBlock \in Nat
    <3>1. k \in Nat
      BY <1>0
    <3> QED BY ONLY <3>1, Division
  <2>2. i \in Slots(f) /\ At(f, i) \in Data \cap bits
    BY <1>0, <1>2, Covered
  <2>3. At(f, i) # db[f]
    BY <2>1, <2>2, OwnDatablock
  <2>4. blk[At(f, i)][k % PerBlock] = want[f][k + 1]
    BY <1>0, <1>2 DEF FileOK, WordsOK
  <2> HIDE DEF i
  <2>5. blk'[At(f, i)'] = blk[At(f, i)]
    BY <2>2, <2>3
  <2> QED BY <1>2, <2>4, <2>5 DEF i
<1> QED BY <1>1, <1>2

(* The turns of file_write: a block is looked for and found.               *)
LEMMA GrowInv ==
  ASSUME TypeOK, Core, NEW p \in Procs, Grow(p)
  PROVE  TypeOK' /\ Core'
<1> DEFINE r == pr[p]
           x == [pr[p] EXCEPT !.pc = "slot", !.got = EmptyBlk]
<1>0. PICK f : f = r.f
  OBVIOUS
<1>1. /\ r # Closed /\ r.pc = "write" /\ r.left > 0 /\ Beyond(p) /\ bits' = Marked(EmptyBlk)
      /\ blk' = Saved([blk EXCEPT ![db[f]][0] = @ + 1])
      /\ UNCHANGED <<db, size, named, want, oops, nops>>
  BY <1>0 DEF Grow, Looping
<1>2. /\ f \in named /\ f \in Files /\ HoldInv /\ OwnInv /\ FileOK(f) /\ WriteOK(f)
      /\ Writers(f) = {p} /\ Writer(f) = p /\ r \in Rec /\ r.pc # "slot"
  BY <1>0, <1>1, Writing
<1>3. r.pos \in Nat /\ r.bc \in Nat /\ r.left \in Nat /\ r.val \in Values \cup {Meta}
  BY <1>0, <1>1, Writing
<1>4. /\ db[f] \in Data \cap bits /\ db[f] \in Block /\ db[f] # Bitmap /\ size[f] \in Nat
      /\ Len(want[f]) \in Nat /\ 0 \in Slots(f)
  BY <1>0, <1>1, Writing
<1>c. PICK c \in Nat : c = r.bc
  BY <1>3
<1>5. /\ Count(f) = c /\ size[f] <= c * PerBlock /\ r.pos <= c * PerBlock
      /\ c < PerBlock
      /\ Len(want[f]) = IF size[f] > r.pos + r.left THEN size[f] ELSE r.pos + r.left
  BY <1>c, <1>1, <1>2 DEF WriteOK
<1>6. pr' = [pr EXCEPT ![p] = x]
  BY <1>2 DEF Grow, Rec
<1>7. EmptyBlk \in Clear \cup {NoBlock}
  BY FoundClear
<1>8. x \in Rec /\ x.f = f /\ x.pc = "slot" /\ x.bc = c /\ x.pos = r.pos /\ x.left = r.left
      /\ x.val = r.val /\ x.got = EmptyBlk
  BY <1>0, <1>c, <1>2, <1>7 DEF Rec, Clear
<1> HIDE DEF r, x
<1>9. /\ pr' \in [Procs -> PrRec] /\ HoldInv' /\ pr'[p] = x /\ Writers(f)' = {p} /\ Writer(f)' = p
      /\ \A g \in named : g # f =>
           \A q \in Procs : pr'[q] = pr[q] \/ (q \notin Writers(g) /\ q \notin Writers(g)')
  BY <1>0, <1>1, <1>2, <1>6, <1>8, ProcStep DEF r
<1>10. r.pos = c * PerBlock
  <2> DEFINE q == r.pos \div PerBlock
             m == c * PerBlock
  <2>1. q \in Nat /\ q * PerBlock <= r.pos /\ q + 1 > c
    BY <1>c, <1>1, <1>3, Division DEF Beyond, Index, r
  <2> HIDE DEF q
  <2>2. c <= q
    BY <1>3, <2>1
  <2>3. m <= q * PerBlock /\ q * PerBlock \in Nat /\ m \in Nat /\ r.pos <= m
    BY <1>3, <1>5, <2>1, <2>2, Products
  <2> HIDE DEF m
  <2>4. r.pos = m
    BY <1>3, <2>1, <2>3
  <2> QED BY <2>4 DEF m
<1>11. /\ blk' \in [Block -> [Word -> Nat \cup {NoBlock}]] /\ blk'[db[f]][0] = c + 1
       /\ \A i \in Word : i # 0 => blk'[db[f]][i] = blk[db[f]][i]
       /\ \A b \in Block : b # Bitmap /\ b # db[f] => blk'[b] = blk[b]
  <2>1. blk[db[f]][0] = c
    BY <1>5 DEF Count
  <2>2. Blank \in [Word -> Nat \cup {NoBlock}]
    BY DEF Blank, Meta
  <2> DEFINE m == [blk EXCEPT ![db[f]] = [@ EXCEPT ![0] = c + 1]]
  <2>3. blk' = [m EXCEPT ![Bitmap] = Blank]
    BY <1>1, <1>4, <2>1 DEF Saved, TypeOK
  <2>4. [blk[db[f]] EXCEPT ![0] = c + 1] \in [Word -> Nat \cup {NoBlock}]
    BY <1>4, Sizes DEF TypeOK
  <2>5. m \in [Block -> [Word -> Nat \cup {NoBlock}]] /\ m[db[f]] = [blk[db[f]] EXCEPT ![0] = c + 1]
        /\ \A b \in Block : b # db[f] => m[b] = blk[b]
    BY <1>4, <2>4 DEF TypeOK
  <2> HIDE DEF m
  <2>6. blk' \in [Block -> [Word -> Nat \cup {NoBlock}]] /\ \A b \in Block : b # Bitmap => blk'[b] = m[b]
    BY <2>2, <2>3, <2>5, Sizes
  <2>7. blk'[db[f]] = [blk[db[f]] EXCEPT ![0] = c + 1] /\ blk[db[f]] \in [Word -> Nat \cup {NoBlock}]
    BY <1>4, <2>5, <2>6 DEF TypeOK
  <2> QED BY <1>4, <2>5, <2>6, <2>7, Sizes
<1>12. TypeOK'
  BY <1>1, <1>9, <1>11 DEF TypeOK, Marked
<1>13. ~ Waiting(f) /\ Waiting(f)' /\ Count(f)' = c + 1
  BY <1>1, <1>2, <1>3, <1>8, <1>9, <1>11 DEF Waiting, Count, r
<1>14. Slots(f) = 0 .. c /\ Slots(f)' = 0 .. c + 1 /\ Slots(f)' = Slots(f) \cup {c + 1}
  BY <1>3, <1>5, <1>13 DEF Slots
<1>15. At(f, c + 1)' = EmptyBlk
  BY <1>3, <1>8, <1>9, <1>13 DEF At
<1>16. ASSUME NEW i \in Slots(f) PROVE At(f, i)' = At(f, i)
  <2>1. CASE i = 0
    BY <1>1, <2>1 DEF At
  <2>2. CASE i # 0
    <3>1. i \in Word /\ i # c + 1
      BY <1>3, <1>5, <1>14, Sizes DEF Word
    <3>2. At(f, i) = blk[db[f]][i] /\ At(f, i)' = blk'[db[f]][i]
      BY <1>1, <1>13, <2>2, <3>1 DEF At
    <3> QED BY <1>11, <2>2, <3>1, <3>2
  <2> QED BY <2>1, <2>2
<1>17. Due(f)' = Due(f)
  BY <1>2, <1>8, <1>9 DEF Due, r
<1>18. \A i \in Slots(f) : At(f, i) # NoBlock
  <2> SUFFICES ASSUME NEW i \in Slots(f), At(f, i) = NoBlock PROVE FALSE
    OBVIOUS
  <2>1. c > 0 /\ r.pos = (c - 1) * PerBlock
    BY <1>2, <1>5 DEF FileOK, LackOK, r
  <2>2. c - 1 \in Nat /\ (c - 1) * PerBlock \in Nat /\ c - 1 + 1 = c
        /\ (c - 1 + 1) * PerBlock = (c - 1) * PerBlock + PerBlock
    BY <1>3, <2>1, Products
  <2> QED BY <1>3, <1>10, <2>1, <2>2, Sizes
<1>19. SizeOK(f)'
  <2> DEFINE m == c * PerBlock
  <2>1. m \in Nat /\ m < Len(want[f])
    <3>1. m \in Nat /\ r.pos = m
      BY <1>3, <1>10, Products
    <3> HIDE DEF m
    <3> QED BY <1>1, <1>3, <1>4, <1>5, <3>1 DEF r
  <2>2. c + 1 - 1 = c /\ c + 1 \in Nat
    BY <1>3
  <2>3. \A i \in Word : i > c + 1 => blk'[db[f]][i] = Meta
    <3>1. \A i \in Word : i > c + 1 => i > c /\ i # 0
      BY <1>3 DEF Word
    <3> QED BY <1>2, <1>5, <1>11, <3>1 DEF FileOK, SizeOK
  <2>4. (c + 1 - 1) * PerBlock < Len(want[f]) /\ Len(want[f]) <= MaxSize
    BY <1>2, <2>1, <2>2 DEF SizeOK, FileOK
  <2>5. Writers(f)' # {} /\ want'[f] = want[f] /\ db'[f] = db[f]
    BY <1>1, <1>9
  <2> QED BY <1>13, <2>2, <2>3, <2>4, <2>5 DEF SizeOK
<1>20. LackOK(f)'
  <2> SUFFICES ASSUME NEW i \in Slots(f)', At(f, i)' = NoBlock
               PROVE  /\ i = Count(f)' /\ i > 0 /\ size'[f] <= (i - 1) * PerBlock
                      /\ Writers(f)' # {} /\ pr'[Writer(f)'].left > 0
                      /\ pr'[Writer(f)'].pos = (i - 1) * PerBlock
    BY DEF LackOK
  <2>1. i = c + 1
    BY <1>14, <1>16, <1>18
  <2>2. i > 0 /\ i - 1 = c
    BY <1>3, <2>1
  <2> QED BY <1>1, <1>5, <1>8, <1>9, <1>10, <1>13, <2>1, <2>2 DEF r
<1>21. WriteOK(f)'
  <2>1. c + 1 \in Word => blk'[db[f]][c + 1] = Meta
    BY <1>2, <1>3, <1>5, <1>11 DEF FileOK, SizeOK
  <2> QED BY <1>1, <1>5, <1>8, <1>9, <1>10, <1>13, <2>1 DEF WriteOK, r
<1>22. WordsOK(f)'
  <2>1. \A b \in Data : b # db[f] => blk'[b] = blk[b]
    BY <1>11, Sizes DEF Data
  <2> QED BY <1>0, <1>1, <1>2, <1>8, <1>9, <1>16, <1>17, <2>1, WordsKept DEF r
<1>23. \A g \in named : g # f => Unmoved(g)
  <2>1. \A b \in Data \cap bits : blk'[b] = blk[b] \/ \E i \in Slots(f) : b = At(f, i)
    BY <1>4, <1>11, Sizes DEF Data, At
  <2> SUFFICES ASSUME NEW g \in named, g # f PROVE Unmoved(g)
    OBVIOUS
  <2>2. FileOK(g) /\ db'[g] = db[g] /\ size'[g] = size[g] /\ want'[g] = want[g]
    BY <1>1 DEF Core
  <2>3. \A q \in Procs : pr'[q] = pr[q] \/ (q \notin Writers(g) /\ q \notin Writers(g)')
    BY <1>9
  <2> QED BY <1>0, <1>2, <2>1, <2>2, <2>3, Elsewhere
<1>24. FileOK(f)'
  BY <1>19, <1>20, <1>21, <1>22 DEF FileOK
<1>25. OwnInv'
  <2>1. \A g \in named : g # f => Slots(g)' = Slots(g) /\ \A i \in Slots(g) : At(g, i)' = At(g, i)
    BY <1>23, UnmovedAt
  <2>2. c + 1 \notin Slots(f)
    BY <1>3, <1>14
  <2>3. named' = named \cup {f} /\ Slots(f) = IF f \in named THEN Slots(f) ELSE {}
    BY <1>1, <1>2
  <2>4. bits' = Marked(EmptyBlk) /\ At(f, c + 1)' = EmptyBlk
    BY <1>1, <1>15
  <2> QED BY <1>2, <1>7, <1>14, <1>16, <2>1, <2>2, <2>3, <2>4, OwnGained
<1>26. \A g \in named : FileOK(g)'
  BY <1>2, <1>23, <1>24, UnmovedOK DEF Core
<1> QED BY <1>1, <1>9, <1>12, <1>25, <1>26 DEF Core

(* The number of the block found goes into its slot, if there is one.      *)
LEMMA SetSlotInv ==
  ASSUME TypeOK, Core, NEW p \in Procs, SetSlot(p), ~ oops'
  PROVE  TypeOK' /\ Core'
<1> DEFINE r == pr[p]
           x == [pr[p] EXCEPT !.pc = "write", !.bc = @ + 1, !.got = NoBlock]
<1>0. PICK f : f = r.f
  OBVIOUS
<1>1. /\ r # Closed /\ r.pc = "slot" /\ r.pc # "open" /\ Index(p) + 1 \in Word
      /\ blk' = [blk EXCEPT ![db[f]][Index(p) + 1] = Stored(p)]
      /\ UNCHANGED <<bits, db, size, named, want, oops, nops>>
  BY <1>0 DEF SetSlot, Oops
<1>2. /\ f \in named /\ f \in Files /\ HoldInv /\ OwnInv /\ FileOK(f) /\ WriteOK(f)
      /\ Writers(f) = {p} /\ Writer(f) = p /\ r \in Rec
  BY <1>0, <1>1, Writing
<1>3. /\ r.pos \in Nat /\ r.bc \in Nat /\ r.left \in Nat /\ r.val \in Values \cup {Meta}
      /\ r.got \in Block \cup {NoBlock}
  BY <1>0, <1>1, Writing
<1>4. /\ db[f] \in Data \cap bits /\ db[f] \in Block /\ size[f] \in Nat /\ Len(want[f]) \in Nat
      /\ 0 \in Slots(f)
  BY <1>0, <1>1, Writing
<1>c. PICK c \in Nat : c = r.bc
  BY <1>3
<1>5. /\ Count(f) = c + 1 /\ size[f] <= c * PerBlock /\ r.pos = c * PerBlock /\ r.left > 0
      /\ Len(want[f]) = IF size[f] > r.pos + r.left THEN size[f] ELSE r.pos + r.left
  BY <1>c, <1>1, <1>2 DEF WriteOK
<1>6. pr' = [pr EXCEPT ![p] = x]
  BY <1>1, <1>2 DEF SetSlot, Oops, Rec
<1>7. Index(p) = c
  <2> DEFINE m == c * PerBlock
  <2>1. m \in Nat /\ m <= m /\ m < m + PerBlock
    BY <1>3, Products, Sizes
  <2>2. (c * PerBlock) \div PerBlock = c
    BY <2>1, Quotient
  <2> QED BY <1>5, <2>2 DEF Index, r
<1>8. x \in Rec /\ x.f = f /\ x.pc = "write" /\ x.bc = c + 1 /\ x.pos = r.pos
      /\ x.left = r.left /\ x.val = r.val
  <2>1. PICK d \in Nat : d = c + 1
    OBVIOUS
  <2>2. x = [r EXCEPT !.pc = "write", !.bc = d, !.got = NoBlock]
    BY <1>c, <1>2, <2>1 DEF Rec
  <2> HIDE DEF r, x
  <2> QED BY <1>0, <1>2, <2>1, <2>2 DEF Rec
<1> HIDE DEF r, x
<1>9. /\ pr' \in [Procs -> PrRec] /\ HoldInv' /\ pr'[p] = x /\ Writers(f)' = {p} /\ Writer(f)' = p
      /\ \A g \in named : g # f =>
           \A q \in Procs : pr'[q] = pr[q] \/ (q \notin Writers(g) /\ q \notin Writers(g)')
  BY <1>0, <1>1, <1>2, <1>6, <1>8, ProcStep DEF r
<1>10. blk' = [blk EXCEPT ![db[f]] = [@ EXCEPT ![c + 1] = r.got]] /\ c + 1 \in Word
  BY <1>1, <1>4, <1>7 DEF Stored, r
<1>11. /\ blk' \in [Block -> [Word -> Nat \cup {NoBlock}]] /\ blk'[db[f]][c + 1] = r.got
       /\ \A i \in Word : i # c + 1 => blk'[db[f]][i] = blk[db[f]][i]
       /\ \A b \in Block : b # db[f] => blk'[b] = blk[b]
  <2>1. blk[db[f]] \in [Word -> Nat \cup {NoBlock}] /\ r.got \in Nat \cup {NoBlock}
    BY <1>3, <1>4 DEF TypeOK, Block
  <2>2. [blk[db[f]] EXCEPT ![c + 1] = r.got] \in [Word -> Nat \cup {NoBlock}]
    BY <2>1
  <2>3. /\ blk'[db[f]] = [blk[db[f]] EXCEPT ![c + 1] = r.got]
        /\ blk' \in [Block -> [Word -> Nat \cup {NoBlock}]]
        /\ \A b \in Block : b # db[f] => blk'[b] = blk[b]
    BY <1>4, <1>10, <2>2 DEF TypeOK
  <2> QED BY <1>10, <2>1, <2>3
<1>12. TypeOK'
  BY <1>1, <1>9, <1>11 DEF TypeOK
<1>13. Waiting(f) /\ ~ Waiting(f)' /\ Count(f)' = c + 1 /\ Slots(f)' = Slots(f)
  <2>1. Count(f)' = c + 1
    BY <1>1, <1>3, <1>5, <1>11, Sizes DEF Count
  <2> QED BY <1>1, <1>2, <1>5, <1>8, <1>9, <2>1 DEF Waiting, Slots, r
<1>14. ASSUME NEW i \in Slots(f) PROVE At(f, i)' = At(f, i)
  <2>1. CASE i = 0
    BY <1>1, <2>1 DEF At
  <2>2. CASE i = c + 1
    <3>1. i # 0 /\ At(f, i) = r.got
      BY <1>2, <1>5, <1>13, <2>2 DEF At, r
    <3>2. At(f, i)' = blk'[db[f]][i]
      BY <1>1, <1>13, <3>1 DEF At
    <3> QED BY <1>11, <2>2, <3>1, <3>2
  <2>3. CASE i # 0 /\ i # c + 1
    <3>1. i \in Word
      BY <1>5, <1>10, Sizes DEF Slots, Word
    <3>2. At(f, i) = blk[db[f]][i] /\ At(f, i)' = blk'[db[f]][i]
      BY <1>1, <1>5, <1>13, <2>3 DEF At
    <3> QED BY <1>11, <2>3, <3>1, <3>2
  <2> QED BY <2>1, <2>2, <2>3
<1>15. Due(f)' = Due(f)
  BY <1>2, <1>8, <1>9 DEF Due, r
<1>16. SizeOK(f)'
  <2>1. \A i \in Word : i > c + 1 => blk'[db[f]][i] = Meta
    BY <1>2, <1>5, <1>11 DEF FileOK, SizeOK
  <2>2. Count(f)' = Count(f) /\ Writers(f)' # {} /\ want'[f] = want[f] /\ db'[f] = db[f]
    BY <1>1, <1>5, <1>9, <1>13
  <2> QED BY <1>2, <1>5, <1>13, <2>1, <2>2 DEF FileOK, SizeOK
<1>17. LackOK(f)'
  BY <1>1, <1>2, <1>5, <1>8, <1>9, <1>13, <1>14 DEF FileOK, LackOK, r
<1>18. WriteOK(f)'
  <2> DEFINE m == c * PerBlock
             m1 == (c + 1) * PerBlock
  <2>1. m \in Nat /\ m1 \in Nat /\ m <= m1 /\ c + 1 < PerBlock
    BY <1>10, Products, Sizes DEF Word
  <2>2. size[f] <= m1 /\ r.pos <= m1
    <3>1. size[f] <= m /\ r.pos = m
      BY <1>5
    <3> HIDE DEF m, m1
    <3> QED BY <1>3, <1>4, <2>1, <3>1
  <2> QED BY <1>1, <1>5, <1>8, <1>9, <1>13, <2>1, <2>2 DEF WriteOK
<1>19. WordsOK(f)'
  <2>1. \A b \in Data : b # db[f] => blk'[b] = blk[b]
    BY <1>11 DEF Data
  <2> QED BY <1>1, <1>2, <1>8, <1>9, <1>14, <1>15, <2>1, WordsKept DEF r
<1>20. \A g \in named : g # f => Unmoved(g)
  <2>1. \A b \in Data \cap bits : blk'[b] = blk[b] \/ \E i \in Slots(f) : b = At(f, i)
    BY <1>4, <1>11 DEF Data, At
  <2> SUFFICES ASSUME NEW g \in named, g # f PROVE Unmoved(g)
    OBVIOUS
  <2>2. FileOK(g) /\ db'[g] = db[g] /\ size'[g] = size[g] /\ want'[g] = want[g]
    BY <1>1 DEF Core
  <2>3. \A q \in Procs : pr'[q] = pr[q] \/ (q \notin Writers(g) /\ q \notin Writers(g)')
    BY <1>9
  <2> QED BY <1>2, <2>1, <2>2, <2>3, Elsewhere
<1>21. FileOK(f)'
  BY <1>16, <1>17, <1>18, <1>19 DEF FileOK
<1>22. Core'
  BY <1>1, <1>2, <1>9, <1>13, <1>14, <1>20, <1>21, OneMoves
<1> QED BY <1>12, <1>22

(* The words that fit in the block of the turn are put there.              *)
LEMMA PutInv ==
  ASSUME TypeOK, Core, NEW p \in Procs, Put(p), ~ oops'
  PROVE  TypeOK' /\ Core'
<1> DEFINE r == pr[p]
           x == [pr[p] EXCEPT !.pos = @ + Chunk(p), !.left = @ - Chunk(p)]
<1>0. PICK f : f = r.f
  OBVIOUS
<1>1. /\ r # Closed /\ r.pc = "write" /\ r.pc # "open" /\ r.left > 0 /\ ~ Beyond(p)
      /\ Index(p) + 1 \in Word /\ Target(p) \in Block
      /\ blk' = [blk EXCEPT ![Target(p)] =
                [w \in Word |-> IF Index(p) * PerBlock + w
                                     \in r.pos .. r.pos + Chunk(p) - 1
                                THEN r.val ELSE @[w]]]
      /\ UNCHANGED <<bits, db, size, named, want, oops, nops>>
  BY <1>0 DEF Put, Looping, Oops
<1>2. /\ f \in named /\ f \in Files /\ HoldInv /\ OwnInv /\ FileOK(f) /\ WriteOK(f)
      /\ Writers(f) = {p} /\ Writer(f) = p /\ r \in Rec
  BY <1>0, <1>1, Writing
<1>3. /\ r.pos \in Nat /\ r.bc \in Nat /\ r.left \in Nat /\ r.val \in Values \cup {Meta}
      /\ size[f] \in Nat /\ Len(want[f]) \in Nat
  BY <1>0, <1>1, Writing
<1>4. /\ db[f] \in Data \cap bits /\ db[f] \in Block /\ 0 \in Slots(f)
      /\ \A i \in Slots(f) : i # 0 => At(f, i) # db[f]
  BY <1>0, <1>1, Writing
<1>5. /\ Count(f) = r.bc /\ size[f] <= r.bc * PerBlock /\ r.pos <= r.bc * PerBlock
      /\ r.bc < PerBlock
      /\ Len(want[f]) = IF size[f] > r.pos + r.left THEN size[f] ELSE r.pos + r.left
  BY <1>1, <1>2 DEF WriteOK
<1>6. pr' = [pr EXCEPT ![p] = x]
  BY <1>1, <1>2 DEF Put, Looping, Oops, Rec
<1> HIDE DEF r, x
<1>q. PICK q \in Nat : /\ q = Index(p) /\ q * PerBlock <= r.pos /\ r.pos < q * PerBlock + PerBlock
                       /\ q + 1 <= r.bc /\ q + 1 \in Word
  <2>1. Index(p) = r.pos \div PerBlock /\ ~ (Index(p) + 1 > r.bc)
    BY <1>1 DEF Index, Beyond, r
  <2>2. PICK q \in Nat : q = Index(p) /\ q * PerBlock <= r.pos /\ r.pos < q * PerBlock + PerBlock
    BY <1>3, <2>1, Division
  <2>3. q + 1 <= r.bc /\ q + 1 \in Word
    BY <1>1, <1>3, <2>1, <2>2
  <2> QED BY <2>2, <2>3
<1>t. PICK t \in Block : t = Target(p)
  BY <1>1
<1>7. PICK c \in Nat : /\ c = Chunk(p) /\ c > 0 /\ c <= r.left
                       /\ r.pos + c <= q * PerBlock + PerBlock
  <2> DEFINE m == q * PerBlock
  <2>1. m \in Nat /\ (q + 1) * PerBlock = m + PerBlock /\ PerBlock \in Nat
    BY Products, Sizes
  <2>2. Chunk(p) = IF r.left < m + PerBlock - r.pos THEN r.left ELSE m + PerBlock - r.pos
    <3>1. PICK y : y = (Index(p) + 1) * PerBlock
      OBVIOUS
    <3>2. Chunk(p) = Least(r.left, y - r.pos)
      BY <3>1 DEF Chunk, r
    <3>3. y = m + PerBlock
      BY <1>q, <2>1, <3>1
    <3> HIDE DEF m
    <3> QED BY <1>3, <2>1, <3>2, <3>3 DEF Least
  <2>3. r.pos < m + PerBlock
    BY <1>q
  <2> HIDE DEF m
  <2>4. Chunk(p) \in Nat /\ Chunk(p) > 0 /\ Chunk(p) <= r.left /\ r.pos + Chunk(p) <= m + PerBlock
    BY <1>1, <1>3, <2>1, <2>2, <2>3 DEF r
  <2> QED BY <2>4 DEF m
<1>8. x \in Rec /\ x.f = f /\ x.pc = "write" /\ x.bc = r.bc /\ x.pos = r.pos + c
      /\ x.left = r.left - c /\ x.val = r.val
  <2>1. PICK a \in Nat, l \in Nat : a = r.pos + c /\ l = r.left - c
    BY <1>3, <1>7
  <2>2. x = [r EXCEPT !.pos = a, !.left = l]
    BY <1>2, <1>7, <2>1 DEF Rec, r, x
  <2> QED BY <1>0, <1>1, <1>2, <2>1, <2>2 DEF Rec
<1>9. /\ pr' \in [Procs -> PrRec] /\ HoldInv' /\ pr'[p] = x /\ Writers(f)' = {p} /\ Writer(f)' = p
      /\ \A g \in named : g # f =>
           \A s \in Procs : pr'[s] = pr[s] \/ (s \notin Writers(g) /\ s \notin Writers(g)')
  BY <1>0, <1>1, <1>2, <1>6, <1>8, ProcStep DEF r
<1>10. ~ Waiting(f) /\ ~ Waiting(f)'
  BY <1>1, <1>2, <1>8, <1>9 DEF Waiting, r
<1>11. q + 1 \in Slots(f) /\ t = At(f, q + 1) /\ t # NoBlock /\ t \in Data \cap bits /\ t # db[f]
  <2>1. q + 1 \in Slots(f) /\ q + 1 # 0
    BY <1>3, <1>5, <1>q DEF Slots
  <2>2. t = At(f, q + 1) /\ t # NoBlock
    BY <1>0, <1>q, <1>t, <1>10, <2>1, Sizes DEF Target, At, r
  <2> QED BY <1>2, <1>4, <2>1, <2>2 DEF OwnInv
<1>12. /\ blk' \in [Block -> [Word -> Nat \cup {NoBlock}]]
       /\ \A b \in Block : b # t => blk'[b] = blk[b]
       /\ \A w \in Word : blk'[t][w] = IF q * PerBlock + w \in r.pos .. r.pos + c - 1
                                       THEN r.val ELSE blk[t][w]
  <2> DEFINE new == [w \in Word |-> IF q * PerBlock + w \in r.pos .. r.pos + c - 1
                                    THEN r.val ELSE blk[t][w]]
  <2>1. blk' = [blk EXCEPT ![t] = new]
    BY <1>1, <1>q, <1>t, <1>7 DEF TypeOK, r
  <2>2. r.val \in Nat
    BY <1>3, FileAssumption DEF Meta
  <2>3. new \in [Word -> Nat \cup {NoBlock}]
    BY <2>2 DEF TypeOK
  <2>4. \A w \in Word : new[w] = IF q * PerBlock + w \in r.pos .. r.pos + c - 1
                                 THEN r.val ELSE blk[t][w]
    OBVIOUS
  <2> HIDE DEF new
  <2>5. blk'[t] = new /\ blk' \in [Block -> [Word -> Nat \cup {NoBlock}]]
        /\ \A b \in Block : b # t => blk'[b] = blk[b]
    BY <2>1, <2>3 DEF TypeOK
  <2> QED BY <2>4, <2>5
<1>13. TypeOK'
  BY <1>1, <1>9, <1>12 DEF TypeOK
<1>14. blk'[db[f]] = blk[db[f]] /\ Count(f)' = Count(f) /\ Slots(f)' = Slots(f)
  BY <1>1, <1>4, <1>11, <1>12 DEF Count, Slots
<1>15. \A i \in Slots(f) : At(f, i)' = At(f, i)
  BY <1>1, <1>10, <1>14 DEF At
<1>16. \A i \in Slots(f) : At(f, i) # NoBlock
  <2> SUFFICES ASSUME NEW i \in Slots(f), At(f, i) = NoBlock PROVE FALSE
    OBVIOUS
  <2>1. i = r.bc /\ r.bc > 0 /\ r.pos = (r.bc - 1) * PerBlock
    BY <1>2, <1>5 DEF FileOK, LackOK, r
  <2>2. PICK d \in Nat : d = r.bc - 1
    BY <1>3, <2>1
  <2>3. d * PerBlock < q * PerBlock + PerBlock /\ q <= d
    BY <1>3, <1>q, <2>1, <2>2
  <2>4. q < d => q * PerBlock + PerBlock <= d * PerBlock
    BY Products
  <2>5. q * PerBlock \in Nat /\ d * PerBlock \in Nat
    BY Products
  <2>6. ~ (q < d)
    BY <2>3, <2>4, <2>5, Sizes
  <2>7. i = q + 1
    BY <1>3, <2>1, <2>2, <2>3, <2>6
  <2> QED BY <1>11, <2>7
<1>17. SizeOK(f)'
  BY <1>1, <1>2, <1>9, <1>14 DEF FileOK, SizeOK
<1>18. LackOK(f)'
  BY <1>14, <1>15, <1>16 DEF LackOK
<1>19. WriteOK(f)'
  <2> DEFINE m == r.bc * PerBlock
  <2>1. (q + 1) * PerBlock <= m /\ (q + 1) * PerBlock = q * PerBlock + PerBlock
        /\ q * PerBlock \in Nat /\ m \in Nat
    <3>1. q + 1 \in Nat /\ q + 1 <= r.bc
      BY <1>q
    <3> QED BY <1>3, <3>1, Products
  <2> HIDE DEF m
  <2>2. r.pos + c <= m
    BY <1>3, <1>7, <2>1, Sizes
  <2>3. r.pos + c + (r.left - c) = r.pos + r.left
    BY <1>3
  <2> QED BY <1>1, <1>3, <1>5, <1>8, <1>9, <1>14, <2>2, <2>3 DEF WriteOK, m
<1>20. WordsOK(f)'
  <2>1. Due(f) = r.pos .. r.pos + r.left - 1 /\ Due(f)' = r.pos + c .. r.pos + r.left - 1
    <3>1. Due(f) = r.pos .. r.pos + r.left - 1
      BY <1>2 DEF Due, r
    <3>2. Due(f)' = r.pos + c .. r.pos + c + (r.left - c) - 1
      BY <1>8, <1>9 DEF Due
    <3>3. r.pos + c + (r.left - c) - 1 = r.pos + r.left - 1
      BY <1>3
    <3> QED BY <3>1, <3>2, <3>3
  <2> SUFFICES ASSUME NEW k \in 0 .. Len(want[f]) - 1
               PROVE  IF k \in r.pos + c .. r.pos + r.left - 1 THEN want[f][k + 1] = r.val
                      ELSE blk'[At(f, k \div PerBlock + 1)'][k % PerBlock] = want[f][k + 1]
    BY <1>1, <1>8, <1>9, <2>1 DEF WordsOK
  <2>2. k \in Due(f) => want[f][k + 1] = r.val
    BY <1>2 DEF FileOK, WordsOK, r
  <2>3. CASE k \in r.pos + c .. r.pos + r.left - 1
    BY <1>3, <2>1, <2>2, <2>3
  <2> DEFINE d == k \div PerBlock
             w == k % PerBlock
  <2>4. d \in Nat /\ w \in Word /\ k = d * PerBlock + w /\ d * PerBlock \in Nat
        /\ d * PerBlock <= k /\ k < d * PerBlock + PerBlock
    <3>1. k \in Nat
      BY <1>3
    <3>2. d \in Nat
      BY <3>1, Division
    <3> QED BY <3>1, <3>2, Division, Products
  <2>5. CASE k \in r.pos .. r.pos + c - 1
    <3>1. q * PerBlock <= k /\ k < q * PerBlock + PerBlock
      <4> DEFINE m == q * PerBlock
      <4>1. m \in Nat /\ m <= r.pos /\ r.pos + c <= m + PerBlock
        BY <1>q, <1>7, Products
      <4> HIDE DEF m
      <4>2. m <= k /\ k < m + PerBlock
        BY <1>3, <2>5, <4>1, Sizes
      <4> QED BY <4>2 DEF m
    <3>2. d = q
      BY <1>3, <3>1, Quotient
    <3>3. blk'[t][w] = r.val
      <4> HIDE DEF d, w
      <4> QED BY <1>12, <2>4, <2>5, <3>2
    <3>4. k \in Due(f) /\ k \notin r.pos + c .. r.pos + r.left - 1
      BY <1>3, <1>7, <2>1, <2>5
    <3>5. At(f, d + 1)' = t
      BY <1>11, <1>15, <3>2
    <3> QED BY <2>2, <3>3, <3>4, <3>5
  <2>6. CASE k \notin r.pos .. r.pos + c - 1 /\ k \notin r.pos + c .. r.pos + r.left - 1
    <3>1. k \notin Due(f)
      BY <1>3, <1>7, <2>1, <2>6
    <3>2. d + 1 \in Slots(f) /\ At(f, d + 1) \in Data \cap bits
      BY <1>2, <3>1, Covered
    <3>3. blk[At(f, d + 1)][w] = want[f][k + 1]
      BY <1>2, <3>1 DEF FileOK, WordsOK
    <3>4. blk'[At(f, d + 1)][w] = blk[At(f, d + 1)][w]
      <4> HIDE DEF d, w
      <4>1. CASE At(f, d + 1) = t
        <5>1. d + 1 = q + 1
          BY <1>2, <1>11, <3>2, <4>1 DEF OwnInv
        <5>2. d = q
          BY <2>4, <5>1
        <5> QED BY <1>12, <2>4, <2>6, <4>1, <5>2
      <4>2. CASE At(f, d + 1) # t
        BY <1>12, <3>2, <4>2 DEF Data
      <4> QED BY <4>1, <4>2
    <3>5. At(f, d + 1)' = At(f, d + 1)
      BY <1>15, <3>2
    <3> QED BY <2>6, <3>3, <3>4, <3>5
  <2> QED BY <2>3, <2>5, <2>6
<1>21. \A g \in named : g # f => Unmoved(g)
  <2>1. \A b \in Data \cap bits : blk'[b] = blk[b] \/ \E i \in Slots(f) : b = At(f, i)
    BY <1>11, <1>12 DEF Data
  <2> SUFFICES ASSUME NEW g \in named, g # f PROVE Unmoved(g)
    OBVIOUS
  <2>2. FileOK(g) /\ db'[g] = db[g] /\ size'[g] = size[g] /\ want'[g] = want[g]
    BY <1>1 DEF Core
  <2>3. \A s \in Procs : pr'[s] = pr[s] \/ (s \notin Writers(g) /\ s \notin Writers(g)')
    BY <1>9
  <2> QED BY <1>2, <2>1, <2>2, <2>3, Elsewhere
<1>22. FileOK(f)'
  BY <1>17, <1>18, <1>19, <1>20 DEF FileOK
<1>23. Core'
  BY <1>1, <1>2, <1>9, <1>14, <1>15, <1>21, <1>22, OneMoves
<1> QED BY <1>13, <1>23

(* The end of file_write: the size is that of what was written.            *)
LEMMA WriteEndInv ==
  ASSUME TypeOK, Core, NEW p \in Procs, WriteEnd(p)
  PROVE  TypeOK' /\ Core'
<1> DEFINE r == pr[p]
           x == [pr[p] EXCEPT !.pc = "open", !.bc = 0, !.pos = 0, !.val = Meta]
<1>0. PICK f : f = r.f
  OBVIOUS
<1>1. /\ r # Closed /\ r.pc = "write" /\ r.pc # "open" /\ r.left = 0
      /\ size' = [size EXCEPT ![f] = IF r.pos < @ THEN @ ELSE r.pos]
      /\ UNCHANGED <<bits, blk, db, named, want, oops, nops>>
  BY <1>0 DEF WriteEnd
<1>2. /\ f \in named /\ f \in Files /\ HoldInv /\ OwnInv /\ FileOK(f) /\ WriteOK(f)
      /\ Writers(f) = {p} /\ Writer(f) = p /\ r \in Rec
  BY <1>0, <1>1, Writing
<1>3. r.pos \in Nat /\ r.bc \in Nat /\ r.left \in Nat /\ size[f] \in Nat /\ Len(want[f]) \in Nat
  BY <1>0, <1>1, Writing
<1>5. /\ Count(f) = r.bc /\ size[f] <= r.bc * PerBlock /\ r.pos <= r.bc * PerBlock
      /\ r.bc < PerBlock
      /\ Len(want[f]) = IF size[f] > r.pos + r.left THEN size[f] ELSE r.pos + r.left
  BY <1>1, <1>2 DEF WriteOK
<1>6. pr' = [pr EXCEPT ![p] = x]
  BY <1>1, <1>2 DEF WriteEnd, Rec
<1>8. x \in Rec /\ x.f = f /\ x.pc = "open"
  BY <1>0, <1>2 DEF Rec
<1> HIDE DEF r, x
<1>9. /\ pr' \in [Procs -> PrRec] /\ HoldInv' /\ pr'[p] = x /\ Writers(f)' = {}
      /\ \A g \in named : g # f =>
           \A q \in Procs : pr'[q] = pr[q] \/ (q \notin Writers(g) /\ q \notin Writers(g)')
  BY <1>0, <1>1, <1>2, <1>6, <1>8, ProcStep DEF r
<1>10. /\ size' \in [Files -> Nat] /\ size'[f] = Len(want[f]) /\ size'[f] <= r.bc * PerBlock
       /\ \A g \in Files : g # f => size'[g] = size[g]
  <2>1. size'[f] = IF r.pos < size[f] THEN size[f] ELSE r.pos
    BY <1>1, <1>2 DEF TypeOK
  <2>2. Len(want[f]) = IF r.pos < size[f] THEN size[f] ELSE r.pos
    BY <1>1, <1>3, <1>5
  <2> QED BY <1>1, <1>2, <1>3, <1>5, <2>1, <2>2 DEF TypeOK
<1>11. TypeOK'
  BY <1>1, <1>9, <1>10 DEF TypeOK
<1>12. ~ Waiting(f) /\ ~ Waiting(f)' /\ Due(f) = {} /\ Due(f)' = {}
  <2>1. r.pos .. r.pos + r.left - 1 = {}
    BY <1>1, <1>3
  <2> QED BY <1>1, <1>2, <1>9, <2>1 DEF Waiting, Due, r
<1>13. /\ Count(f)' = Count(f) /\ Slots(f)' = Slots(f)
       /\ \A i \in Slots(f) : At(f, i)' = At(f, i) /\ At(f, i) # NoBlock
  <2>1. Count(f)' = Count(f) /\ Slots(f)' = Slots(f)
    BY <1>1 DEF Count, Slots
  <2>2. \A i \in Slots(f) : At(f, i)' = At(f, i)
    BY <1>1, <1>12 DEF At
  <2>3. \A i \in Slots(f) : At(f, i) # NoBlock
    BY <1>1, <1>2 DEF FileOK, LackOK, r
  <2> QED BY <2>1, <2>2, <2>3
<1>14. SizeOK(f)'
  BY <1>1, <1>2, <1>5, <1>10, <1>13 DEF FileOK, SizeOK
<1>15. LackOK(f)'
  BY <1>13 DEF LackOK
<1>16. WordsOK(f)'
  BY <1>1, <1>2, <1>12, <1>13, WordsKept
<1>17. \A g \in named : g # f => Unmoved(g)
  <2> SUFFICES ASSUME NEW g \in named, g # f PROVE Unmoved(g)
    OBVIOUS
  <2>1. FileOK(g) /\ db'[g] = db[g] /\ size'[g] = size[g] /\ want'[g] = want[g]
    BY <1>1, <1>10 DEF Core, TypeOK
  <2>2. \A q \in Procs : pr'[q] = pr[q] \/ (q \notin Writers(g) /\ q \notin Writers(g)')
    BY <1>9
  <2> QED BY <1>1, <1>2, <2>1, <2>2, Elsewhere
<1>18. FileOK(f)'
  BY <1>9, <1>14, <1>15, <1>16 DEF FileOK
<1>19. Core'
  BY <1>1, <1>2, <1>9, <1>13, <1>17, <1>18, OneMoves
<1> QED BY <1>11, <1>19

-----------------------------------------------------------------------------
(* ffs_setattr within the last block of a file: neither the bitmap nor the *)
(* count change.                                                           *)
LEMMA ResizeInv ==
  ASSUME TypeOK, Core, Uses = {}, NEW f \in Files, NEW n \in Nat, Resize(f, n)
  PROVE  TypeOK' /\ Core'
<1>1. /\ f \in named /\ Writers(f) = {} /\ n < size[f] /\ BlocksFor(n) = BlocksFor(size[f])
      /\ size' = [size EXCEPT ![f] = n] /\ want' = [want EXCEPT ![f] = Truncated(f, n)]
      /\ UNCHANGED <<db, named, pr, oops>> /\ nops' = nops + 1
  BY DEF Resize, SetSize, Op, TypeOK
<1>2. HoldInv /\ OwnInv /\ FileOK(f) /\ SizeOK(f)
  BY <1>1 DEF Core, FileOK
<1>3. /\ db[f] \in Block /\ Count(f) \in Nat /\ size[f] \in Nat /\ Len(want[f]) = size[f]
      /\ want[f] \in Seq(Values \cup {Meta}) /\ size[f] <= Count(f) * PerBlock
      /\ Count(f) < PerBlock
  BY <1>1, <1>2, OwnDatablock DEF SizeOK
<1>c. PICK c \in Nat : c = Count(f)
  BY <1>3
<1>4. BlocksFor(size[f]) = c /\ BlocksFor(n) = c
  BY <1>c, <1>1, <1>2, <1>3, NeedOf DEF SizeOK
<1>5. bits' = bits
  BY <1>c, <1>1, <1>3, <1>4 DEF Resize, SetSize
<1>6. blk' = blk
  <2>1. blk' = [blk EXCEPT ![db[f]][0] = c]
    BY <1>4, <1>5 DEF Resize, SetSize
  <2>2. [blk[db[f]] EXCEPT ![0] = c] = blk[db[f]]
    BY <1>c, <1>3 DEF Count, TypeOK
  <2> QED BY <1>3, <2>1, <2>2 DEF TypeOK
<1>7. /\ Truncated(f, n) \in Seq(Values \cup {Meta}) /\ Len(Truncated(f, n)) = n
      /\ \A k \in 0 .. n - 1 : Truncated(f, n)[k + 1] = want[f][k + 1]
  <2>1. Truncated(f, n) = [i \in 1 .. n |-> want[f][i]]
    BY <1>1, <1>3 DEF Truncated
  <2>2. \A i \in 1 .. n : want[f][i] \in Values \cup {Meta}
    BY <1>1, <1>3
  <2> QED BY <2>1, <2>2
<1>8. /\ want'[f] = Truncated(f, n) /\ size'[f] = n
      /\ \A g \in Files : g # f => want'[g] = want[g] /\ size'[g] = size[g]
  BY <1>1 DEF TypeOK
<1>9. TypeOK'
  BY <1>1, <1>5, <1>6, <1>7 DEF TypeOK
<1>10. /\ Writers(f)' = {} /\ ~ Waiting(f) /\ ~ Waiting(f)' /\ Due(f) = {} /\ Due(f)' = {}
       /\ HoldInv'
  <2>1. \A g : Writers(g)' = Writers(g)
    BY <1>1 DEF Writers, Holders
  <2> QED BY <1>1, <1>2, <2>1 DEF Waiting, Due, HoldInv
<1>11. /\ Count(f)' = c /\ Slots(f)' = Slots(f)
       /\ \A i \in Slots(f) : At(f, i)' = At(f, i) /\ At(f, i) # NoBlock
  <2>1. Count(f)' = c /\ Slots(f)' = Slots(f)
    BY <1>c, <1>1, <1>6 DEF Count, Slots
  <2>2. \A i \in Slots(f) : At(f, i)' = At(f, i)
    BY <1>1, <1>6, <1>10 DEF At
  <2>3. \A i \in Slots(f) : At(f, i) # NoBlock
    BY <1>1, <1>2 DEF FileOK, LackOK
  <2> QED BY <2>1, <2>2, <2>3
<1>12. SizeOK(f)'
  <2>1. c = 0 \/ (c - 1) * PerBlock < n
    <3> SUFFICES ASSUME c # 0 PROVE (c - 1) * PerBlock < n
      OBVIOUS
    <3>1. PICK d \in Nat : d = c - 1 /\ d + 1 = c
      OBVIOUS
    <3>2. c * PerBlock = d * PerBlock + PerBlock /\ d * PerBlock \in Nat
      BY <3>1, Products
    <3>3. c * PerBlock <= n + PerBlock - 1
      <4>1. n + PerBlock - 1 \in Nat
        BY Sizes
      <4> QED BY <1>4, <4>1, Division DEF BlocksFor
    <3>4. d * PerBlock < n
      BY <3>2, <3>3, Sizes
    <3> QED BY <3>1, <3>4
  <2>2. n <= c * PerBlock /\ n <= MaxSize
    <3> DEFINE m == c * PerBlock
    <3>1. m \in Nat /\ size[f] <= m /\ size[f] <= MaxSize /\ MaxSize \in Nat
      BY <1>c, <1>2, <1>3, Products, FileAssumption DEF SizeOK
    <3> HIDE DEF m
    <3>2. n <= m /\ n <= MaxSize
      BY <1>1, <1>3, <3>1
    <3> QED BY <3>2 DEF m
  <2>3. \A i \in Word : i > c => blk'[db'[f]][i] = Meta
    BY <1>c, <1>1, <1>2, <1>6 DEF SizeOK
  <2> QED BY <1>c, <1>3, <1>7, <1>8, <1>11, <2>1, <2>2, <2>3 DEF SizeOK
<1>13. LackOK(f)'
  BY <1>11 DEF LackOK
<1>14. WordsOK(f)'
  <2> SUFFICES ASSUME NEW k \in 0 .. n - 1
               PROVE  blk'[At(f, k \div PerBlock + 1)'][k % PerBlock] = want[f][k + 1]
    BY <1>7, <1>8, <1>10 DEF WordsOK
  <2>1. k \in 0 .. Len(want[f]) - 1 /\ k \notin Due(f)
    BY <1>1, <1>3, <1>10
  <2>2. k \div PerBlock + 1 \in Slots(f)
    BY <1>1, <1>2, <2>1, Covered
  <2>3. blk[At(f, k \div PerBlock + 1)][k % PerBlock] = want[f][k + 1]
    BY <1>2, <2>1 DEF FileOK, WordsOK
  <2> QED BY <1>6, <1>11, <2>2, <2>3
<1>15. \A g \in named : g # f => Unmoved(g)
  <2> SUFFICES ASSUME NEW g \in named, g # f PROVE Unmoved(g)
    OBVIOUS
  <2>1. FileOK(g) /\ db'[g] = db[g] /\ size'[g] = size[g] /\ want'[g] = want[g]
    BY <1>1, <1>8 DEF Core, TypeOK
  <2> QED BY <1>1, <1>2, <1>6, <2>1, Elsewhere
<1>16. FileOK(f)'
  BY <1>10, <1>12, <1>13, <1>14 DEF FileOK
<1>17. Core'
  BY <1>1, <1>2, <1>5, <1>10, <1>11, <1>15, <1>16, OneMoves
<1> QED BY <1>9, <1>17

-----------------------------------------------------------------------------
(* A file is made, with a datablock of its own.                            *)
LEMMA CreateInv ==
  ASSUME TypeOK, Core, NEW f \in Files, Create(f), ~ oops'
  PROVE  TypeOK' /\ Core'
<1>e. PICK e : e = EmptyBlk
  OBVIOUS
<1>1. /\ f \notin named /\ Holders(f) = {} /\ e # NoBlock /\ bits' = Marked(e)
      /\ blk' = [Saved(blk) EXCEPT ![e] = Blank] /\ db' = [db EXCEPT ![f] = e]
      /\ size' = [size EXCEPT ![f] = 0] /\ want' = [want EXCEPT ![f] = <<>>]
      /\ named' = named \cup {f} /\ UNCHANGED <<pr, oops>> /\ nops' = nops + 1
  BY <1>e DEF Create, Op, Oops
<1>2. HoldInv /\ OwnInv
  BY DEF Core
<1>3. e \in Clear /\ e \in Block /\ e \in Data
  BY <1>e, <1>1, <1>2, FoundClear DEF Clear, Data, OwnInv
<1>4. /\ blk' \in [Block -> [Word -> Nat \cup {NoBlock}]] /\ blk'[e] = Blank
      /\ \A b \in Block : b # Bitmap /\ b # e => blk'[b] = blk[b]
  <2>1. Blank \in [Word -> Nat \cup {NoBlock}]
    BY DEF Blank, Meta
  <2> QED BY <1>1, <1>3, <2>1, Sizes DEF Saved, TypeOK
<1>5. db'[f] = e /\ size'[f] = 0 /\ want'[f] = <<>>
      /\ \A g \in Files : g # f => db'[g] = db[g] /\ size'[g] = size[g] /\ want'[g] = want[g]
  BY <1>1 DEF TypeOK
<1>6. TypeOK'
  <2>1. <<>> \in Seq(Values \cup {Meta})
    OBVIOUS
  <2> QED BY <1>1, <1>3, <1>4, <2>1 DEF TypeOK, Marked
<1>7. /\ HoldInv' /\ Writers(f)' = {} /\ \A g : Writers(g)' = Writers(g)
  <2>1. \A g : Writers(g)' = Writers(g)
    BY <1>1 DEF Writers, Holders
  <2>2. Writers(f) = {}
    BY <1>1 DEF Writers
  <2> QED BY <1>1, <1>2, <2>1, <2>2 DEF HoldInv
<1>8. Count(f)' = 0 /\ Slots(f)' = {0} /\ At(f, 0)' = e
  BY <1>4, <1>5, Sizes DEF Count, Slots, At, Blank, Meta
<1>9. FileOK(f)'
  <2>1. SizeOK(f)'
    <3>1. \A i \in Word : blk'[db'[f]][i] = Meta
      BY <1>4, <1>5 DEF Blank
    <3>2. Len(<<>>) = 0 /\ 0 * PerBlock = 0 /\ 0 < PerBlock /\ MaxSize \in Nat
      BY Sizes, FileAssumption
    <3> QED BY <1>5, <1>7, <1>8, <3>1, <3>2 DEF SizeOK
  <2>2. LackOK(f)'
    BY <1>1, <1>8 DEF LackOK
  <2>3. WordsOK(f)'
    BY <1>5 DEF WordsOK
  <2> QED BY <1>7, <2>1, <2>2, <2>3 DEF FileOK
<1>10. \A g \in named : g # f /\ Unmoved(g)
  <2> SUFFICES ASSUME NEW g \in named PROVE g # f /\ Unmoved(g)
    OBVIOUS
  <2>1. g # f /\ FileOK(g) /\ db'[g] = db[g] /\ size'[g] = size[g] /\ want'[g] = want[g]
    BY <1>1, <1>5 DEF Core, TypeOK
  <2>2. \A b \in Data \cap bits : blk'[b] = blk[b]
    BY <1>3, <1>4, Sizes DEF Data, Clear
  <2>3. \A q \in Procs : pr'[q] = pr[q]
    BY <1>1
  <2> QED BY <1>2, <2>1, <2>2, <2>3, Elsewhere
<1>11. OwnInv'
  <2>1. \A g \in named : g # f => Slots(g)' = Slots(g) /\ \A i \in Slots(g) : At(g, i)' = At(g, i)
    BY <1>10, UnmovedAt
  <2>2. {} = IF f \in named THEN Slots(f) ELSE {}
    BY <1>1
  <2>3. 0 \notin {} /\ Slots(f)' = {} \cup {0}
    BY <1>8
  <2> QED BY <1>1, <1>2, <1>3, <1>8, <2>1, <2>2, <2>3, OwnGained
<1>12. \A g \in named' : FileOK(g)'
  BY <1>1, <1>2, <1>9, <1>10, UnmovedOK DEF Core
<1> QED BY <1>6, <1>7, <1>11, <1>12 DEF Core

(* The blocks of a file without a writer are those listed in its datablock.*)
LEMMA ListedIs ==
  ASSUME TypeOK, Core, NEW f \in named, Writers(f) = {}
  PROVE  /\ Listed(f) \cup {db[f]} = {At(f, i) : i \in Slots(f)}
         /\ \A i \in Slots(f) : At(f, i) \in Data \cap bits
<1>1. /\ HoldInv /\ OwnInv /\ FileOK(f) /\ Count(f) \in Nat /\ Count(f) < PerBlock
  BY DEF Core, FileOK, SizeOK
<1>2. \A i \in Slots(f) : At(f, i) \in Data \cap bits
  BY <1>1 DEF OwnInv, FileOK, LackOK
<1>3. Least(Count(f), PerBlock - 1) = Count(f) /\ Slots(f) = {0} \cup 1 .. Count(f)
  BY <1>1, Sizes DEF Least, Slots
<1>4. At(f, 0) = db[f] /\ \A i \in 1 .. Count(f) : At(f, i) = blk[db[f]][i]
  BY DEF At, Waiting
<1>5. Listed(f) = {At(f, i) : i \in 1 .. Count(f)}
  BY <1>3, <1>4 DEF Listed
<1> QED BY <1>2, <1>3, <1>4, <1>5

(* A closed file is removed, and its blocks with it.                       *)
LEMMA UnlinkInv ==
  ASSUME TypeOK, Core, Uses = {}, NEW f \in Files, Unlink(f), ~ oops'
  PROVE  TypeOK' /\ Core'
<1>1. /\ f \in named /\ Holders(f) = {} /\ bits' = bits \ (Listed(f) \cup {db[f]})
      /\ blk' = Saved(blk) /\ named' = named \ {f}
      /\ UNCHANGED <<db, size, pr, want, oops>> /\ nops' = nops + 1
  BY DEF Unlink, Op, Oops
<1>2. HoldInv /\ OwnInv /\ Writers(f) = {}
  BY <1>1 DEF Core, Writers
<1>3. /\ Listed(f) \cup {db[f]} = {At(f, i) : i \in Slots(f)}
      /\ \A i \in Slots(f) : At(f, i) \in Data \cap bits
  BY <1>1, <1>2, ListedIs
<1>4. /\ blk' \in [Block -> [Word -> Nat \cup {NoBlock}]]
      /\ \A b \in Block : b # Bitmap => blk'[b] = blk[b]
  BY <1>1, Sizes DEF Saved, TypeOK, Blank, Meta
<1>5. TypeOK'
  BY <1>1, <1>4 DEF TypeOK
<1>6. HoldInv'
  <2>1. \A g : Writers(g)' = Writers(g)
    BY <1>1 DEF Writers, Holders
  <2>2. \A p \in Procs : pr[p] # Closed => pr[p].f # f
    BY <1>1 DEF Holders
  <2> QED BY <1>1, <1>2, <2>1, <2>2 DEF HoldInv
<1>7. \A g \in named' : g \in named /\ g # f /\ Unmoved(g)
  <2> SUFFICES ASSUME NEW g \in named, g # f PROVE Unmoved(g)
    BY <1>1
  <2>1. FileOK(g) /\ db'[g] = db[g] /\ size'[g] = size[g] /\ want'[g] = want[g]
    BY <1>1 DEF Core
  <2>2. \A b \in Data \cap bits : blk'[b] = blk[b]
    BY <1>4, Sizes DEF Data
  <2>3. \A q \in Procs : pr'[q] = pr[q]
    BY <1>1
  <2> QED BY <1>2, <2>1, <2>2, <2>3, Elsewhere
<1>8. \A g \in named' : Slots(g)' = Slots(g) /\ \A i \in Slots(g) : At(g, i)' = At(g, i)
  BY <1>7, UnmovedAt
<1>9. OwnInv'
  <2>1. 0 .. Service - 1 \subseteq bits'
    BY <1>1, <1>2, <1>3 DEF OwnInv, Data
  <2>2. \A g \in named' : \A i \in Slots(g)' : At(g, i)' \in (Data \cap bits') \cup {NoBlock}
    <3> SUFFICES ASSUME NEW g, g \in named', NEW i \in Slots(g), At(g, i) # NoBlock
                 PROVE  At(g, i) \in Data \cap bits'
      BY <1>8
    <3>1. At(g, i) \in Data \cap bits
      BY <1>2, <1>7 DEF OwnInv
    <3>2. \A j \in Slots(f) : At(f, j) # At(g, i)
      BY <1>1, <1>2, <1>7 DEF OwnInv
    <3> QED BY <1>1, <1>3, <3>1, <3>2
  <2>3. \A g, h \in named' : \A i \in Slots(g)', j \in Slots(h)' :
          At(g, i)' = At(h, j)' => At(g, i)' = NoBlock \/ (g = h /\ i = j)
    BY <1>2, <1>7, <1>8 DEF OwnInv
  <2>4. \A b \in bits' : b >= Service => \E g \in named' : \E i \in Slots(g)' : At(g, i)' = b
    <3> SUFFICES ASSUME NEW b \in bits, b >= Service, b \notin Listed(f) \cup {db[f]}
                 PROVE  \E g \in named' : \E i \in Slots(g)' : At(g, i)' = b
      BY <1>1
    <3>1. PICK g \in named : \E i \in Slots(g) : At(g, i) = b
      BY <1>2 DEF OwnInv
    <3>2. g # f
      BY <1>3, <3>1
    <3>3. g \in named'
      BY <1>1, <3>2
    <3> QED BY <1>8, <3>1, <3>3
  <2> QED BY <2>1, <2>2, <2>3, <2>4 DEF OwnInv, Data
<1>10. \A g \in named' : FileOK(g)'
  BY <1>2, <1>7, UnmovedOK DEF Core
<1> QED BY <1>5, <1>6, <1>9, <1>10 DEF Core

-----------------------------------------------------------------------------
(* A thread that leaves a buffer changes nothing that has a type.          *)
LEMMA OopsInv ==
  ASSUME TypeOK, oops' = TRUE, UNCHANGED <<bits, blk, db, size, named, pr, want>>,
         nops' \in Nat
  PROVE  FInv'
BY DEF TypeOK, FInv

LEMMA FInvInit == Init => FInv
<1> SUFFICES ASSUME Init PROVE TypeOK /\ Core
  BY DEF FInv
<1>1. TypeOK
  <2>1. 0 .. Service - 1 \subseteq Block /\ 0 \in Block
    BY Sizes DEF Block
  <2>2. Blank \in [Word -> Nat \cup {NoBlock}]
    BY DEF Blank, Meta
  <2>3. <<>> \in Seq(Values \cup {Meta})
    OBVIOUS
  <2> QED BY <2>1, <2>2, <2>3 DEF Init, TypeOK, PrRec
<1>2. HoldInv
  BY DEF Init, HoldInv, Writers, Holders
<1>3. OwnInv
  BY Sizes DEF Init, OwnInv
<1> QED BY <1>1, <1>2, <1>3 DEF Core, Init

LEMMA FInvNext == Uses = {} /\ FInv /\ [Next]_vars => FInv'
<1> SUFFICES ASSUME Uses = {}, FInv, [Next]_vars PROVE FInv'
  OBVIOUS
<1>1. CASE UNCHANGED vars
  <2>1. UNCHANGED <<bits, blk, db, size, named, pr, want, oops, nops>>
    BY <1>1 DEF vars
  <2>2. TypeOK'
    BY <2>1 DEF FInv, TypeOK
  <2>3. ASSUME Core PROVE Core'
    <3>1. \A g : Writers(g)' = Writers(g)
      BY <2>1 DEF Writers, Holders
    <3>2. HoldInv'
      BY <2>1, <2>3, <3>1 DEF Core, HoldInv
    <3>3. \A g \in named : Unmoved(g)
      BY <2>1, <3>1 DEF Unmoved
    <3> QED BY <2>1, <2>3, <3>2, <3>3, NothingMoves DEF FInv
  <2> QED BY <2>1, <2>2, <2>3 DEF FInv
<1> SUFFICES ASSUME Next PROVE FInv'
  BY <1>1
<1>2. TypeOK
  BY DEF FInv
<1>3. ~ oops
  <2>1. \A p \in Procs : Step(p) => ~ oops
    BY DEF Step, Grow, SetSlot, Put, WriteEnd, Looping
  <2>2. \A p \in Procs : Call(p) => ~ oops
    <3>1. \A p, a, at, n, v : Write(p, a, at, n, v) => ~ oops
      BY DEF Write, Op
    <3>2. \A p, f : (Open(p, f) => ~ oops) /\ (Close(p) => ~ oops)
      BY DEF Open, Close
    <3> QED BY <3>1, <3>2 DEF Call
  <2>3. \A f \in Files : ByName(f) => ~ oops
    BY DEF ByName, Create, Unlink, Resize, SetSize, Op
  <2> QED BY <2>1, <2>2, <2>3 DEF Next
<1>4. Core
  BY <1>3 DEF FInv
<1>5. ASSUME NEW p \in Procs, Step(p) PROVE FInv'
  <2>1. CASE Grow(p)
    BY <1>2, <1>4, <2>1, GrowInv DEF FInv
  <2>2. CASE SetSlot(p)
    <3>1. CASE oops'
      <4>1. oops' = TRUE /\ UNCHANGED <<bits, blk, db, size, named, pr, want>> /\ nops' \in Nat
        BY <1>2, <1>3, <2>2, <3>1 DEF SetSlot, Oops, TypeOK
      <4> QED BY <1>2, <4>1, OopsInv
    <3>2. CASE ~ oops'
      BY <1>2, <1>4, <2>2, <3>2, SetSlotInv DEF FInv
    <3> QED BY <3>1, <3>2
  <2>3. CASE Put(p)
    <3>1. CASE oops'
      <4>1. oops' = TRUE /\ UNCHANGED <<bits, blk, db, size, named, pr, want>> /\ nops' \in Nat
        BY <1>2, <1>3, <2>3, <3>1 DEF Put, Oops, TypeOK
      <4> QED BY <1>2, <4>1, OopsInv
    <3>2. CASE ~ oops'
      BY <1>2, <1>4, <2>3, <3>2, PutInv DEF FInv
    <3> QED BY <3>1, <3>2
  <2>4. CASE WriteEnd(p)
    BY <1>2, <1>4, <2>4, WriteEndInv DEF FInv
  <2> QED BY <1>5, <2>1, <2>2, <2>3, <2>4 DEF Step
<1>6. ASSUME NEW p \in Procs, Call(p) PROVE FInv'
  <2>1. ASSUME NEW f \in Files, Open(p, f) PROVE FInv'
    BY <1>2, <1>4, <2>1, OpenInv DEF FInv
  <2>2. CASE Close(p)
    BY <1>2, <1>4, <2>2, CloseInv DEF FInv
  <2>3. ASSUME NEW a \in BOOLEAN, NEW at \in 0 .. MaxSize, NEW n \in 1 .. MaxLen, NEW v \in Values,
               Write(p, a, at, n, v)
        PROVE  FInv'
    <3>1. at \in Nat /\ n \in Nat /\ n > 0
      BY FileAssumption
    <3> QED BY <1>2, <1>4, <2>3, <3>1, WriteInv DEF FInv
  <2> QED BY <1>6, <2>1, <2>2, <2>3 DEF Call
<1>7. ASSUME NEW f \in Files, ByName(f) PROVE FInv'
  <2>1. CASE Create(f)
    <3>1. CASE oops'
      <4>1. nops' \in Nat
        BY <1>2, <2>1 DEF Create, Op, TypeOK
      <4>2. oops' = TRUE /\ UNCHANGED <<bits, blk, db, size, named, pr, want>>
        BY <1>3, <2>1, <3>1 DEF Create, Oops
      <4> QED BY <1>2, <4>1, <4>2, OopsInv
    <3>2. CASE ~ oops'
      BY <1>2, <1>4, <2>1, <3>2, CreateInv DEF FInv
    <3> QED BY <3>1, <3>2
  <2>2. CASE Unlink(f)
    <3>1. CASE oops'
      <4>1. nops' \in Nat
        BY <1>2, <2>2 DEF Unlink, Op, TypeOK
      <4>2. oops' = TRUE /\ UNCHANGED <<bits, blk, db, size, named, pr, want>>
        BY <1>3, <2>2, <3>1 DEF Unlink, Oops
      <4> QED BY <1>2, <4>1, <4>2, OopsInv
    <3>2. CASE ~ oops'
      BY <1>2, <1>4, <2>2, <3>2, UnlinkInv DEF FInv
    <3> QED BY <3>1, <3>2
  <2>3. ASSUME NEW n \in 0 .. MaxSize, Resize(f, n) PROVE FInv'
    <3>1. n \in Nat
      BY FileAssumption
    <3> QED BY <1>2, <1>4, <2>3, <3>1, ResizeInv DEF FInv
  <2> QED BY <1>7, <2>1, <2>2, <2>3 DEF ByName
<1> QED BY <1>5, <1>6, <1>7 DEF Next

(* Under the use that the driver gets right, the invariant holds.          *)
THEOREM FInvAlways == ASSUME Uses = {} PROVE Spec => []FInv
<1>1. Init => FInv
  BY FInvInit
<1>2. FInv /\ [Next]_vars => FInv'
  BY FInvNext
<1> QED BY <1>1, <1>2, PTL DEF Spec

-----------------------------------------------------------------------------
(* Which blocks belong to whom.                                            *)
LEMMA OwnedAre ==
  ASSUME TypeOK, Core, NEW f \in named
  PROVE  /\ \A b \in Owned(f) : b \in Data \cap bits /\ \E i \in Slots(f) : At(f, i) = b
         /\ Writers(f) = {} => Owned(f) = {At(f, i) : i \in Slots(f)}
<1>1. HoldInv /\ OwnInv /\ FileOK(f) /\ Count(f) \in Nat /\ f \in Files
  BY DEF Core, FileOK, SizeOK, TypeOK
<1>2. db[f] \in Data \cap bits /\ 0 \in Slots(f) /\ At(f, 0) = db[f]
  BY <1>1, OwnDatablock DEF At
<1>3. ASSUME NEW b \in Listed(f), b # Meta, b # NoBlock
      PROVE  b \in Data \cap bits /\ \E i \in Slots(f) : At(f, i) = b
  <2>1. PICK i \in 1 .. Least(Count(f), PerBlock - 1) : b = blk[db[f]][i]
    BY <1>3 DEF Listed
  <2>2. i \in Word /\ i \in Slots(f) /\ i # 0
    BY <1>1, <2>1, Sizes DEF Least, Word, Slots
  <2>3. At(f, i) = b
    <3>1. CASE Waiting(f) /\ i = Count(f)
      <4>1. pr[Writer(f)].pc = "slot" /\ Writers(f) # {} /\ pr[Writer(f)].bc \in Nat
        BY <1>1, <3>1, WriterIs DEF Waiting, Rec
      <4>2. i = pr[Writer(f)].bc + 1 /\ blk[db[f]][i] = Meta
        BY <1>1, <2>2, <3>1, <4>1 DEF FileOK, WriteOK
      <4> QED BY <1>3, <2>1, <4>2
    <3>2. CASE ~ (Waiting(f) /\ i = Count(f))
      BY <2>1, <2>2, <3>2 DEF At
    <3> QED BY <3>1, <3>2
  <2> QED BY <1>1, <1>3, <2>2, <2>3 DEF OwnInv
<1>4. \A b \in Owned(f) : b \in Data \cap bits /\ \E i \in Slots(f) : At(f, i) = b
  BY <1>2, <1>3 DEF Owned
<1>5. ASSUME Writers(f) = {} PROVE Owned(f) = {At(f, i) : i \in Slots(f)}
  <2>1. /\ Listed(f) \cup {db[f]} = {At(f, i) : i \in Slots(f)}
        /\ \A i \in Slots(f) : At(f, i) \in Data \cap bits
    BY <1>5, ListedIs
  <2>2. Meta \notin Data /\ NoBlock \notin Data
    BY Sizes DEF Meta, Data, NoBlock
  <2> QED BY <1>2, <2>1, <2>2 DEF Owned
<1> QED BY <1>4, <1>5

LEMMA OwnedMany ==
  ASSUME TypeOK, Core, NEW f \in named, Writers(f) = {}
  PROVE  Cardinality(Owned(f)) = 1 + BlocksFor(size[f])
<1> DEFINE I == Slots(f)
           B == {At(f, i) : i \in I}
           g == [i \in I |-> At(f, i)]
<1>1. /\ OwnInv /\ FileOK(f) /\ f \in Files /\ size[f] \in Nat /\ Owned(f) = B
  BY OwnedAre DEF Core, TypeOK
<1>2. PICK c \in Nat : c = Count(f)
  BY <1>1 DEF FileOK, SizeOK
<1>3. BlocksFor(size[f]) = c
  BY <1>1, <1>2, NeedOf DEF FileOK, SizeOK
<1>4. \A i \in I : At(f, i) # NoBlock
  BY <1>1 DEF FileOK, LackOK
<1>5. g \in Bijection(I, B)
  <2>1. \A i, j \in I : At(f, i) = At(f, j) => i = j
    BY <1>1, <1>4 DEF OwnInv
  <2> HIDE DEF I
  <2> QED BY <2>1 DEF Bijection, Injection, IsInjective, Surjection
<1>6. IsFiniteSet(I) /\ Cardinality(I) = c + 1
  <2>1. I = 0 .. c
    BY <1>2 DEF Slots
  <2> HIDE DEF I
  <2> QED BY <2>1, FS_Interval
<1>7. Cardinality(B) = Cardinality(I)
  <2>1. ExistsBijection(I, B) /\ g \in Surjection(I, B)
    BY <1>5 DEF ExistsBijection, Bijection
  <2> HIDE DEF I, B, g
  <2>2. IsFiniteSet(B)
    BY <1>6, <2>1, FS_Surjection
  <2> QED BY <1>6, <2>1, <2>2, FS_Bijection
<1> HIDE DEF I, B, g
<1> QED BY <1>1, <1>3, <1>6, <1>7

(* However files grow side by side and whether or not the device is full,  *)
(* the blocks of the files are marked, outside the service area, as many   *)
(* as their sizes need, and no block serves twice (ffs_get_empty_block,    *)
(* file_write, ffs_clear_fd).                                              *)
THEOREM BlocksAreOwned == ASSUME Uses = {} PROVE Spec => []BlocksOwned
<1>1. FInv => BlocksOwned
  <2> SUFFICES ASSUME FInv, ~ oops, NEW f \in named
               PROVE  /\ Owned(f) \subseteq bits \ (0 .. Service - 1)
                      /\ Settled(f) => Cardinality(Owned(f)) = 1 + BlocksFor(size[f])
                      /\ \A g \in named \ {f} : Owned(f) \cap Owned(g) = {}
    BY DEF FInv, BlocksOwned, OwnBlocks
  <2>1. TypeOK /\ Core /\ OwnInv
    BY DEF FInv, Core
  <2>2. Owned(f) \subseteq bits \ (0 .. Service - 1)
    BY <2>1, OwnedAre DEF Data
  <2>3. Settled(f) => Cardinality(Owned(f)) = 1 + BlocksFor(size[f])
    BY <2>1, OwnedMany DEF Settled
  <2>4. ASSUME NEW g \in named \ {f}, NEW b \in Owned(f), b \in Owned(g) PROVE FALSE
    <3>1. b \in Data /\ \E i \in Slots(f) : At(f, i) = b
      BY <2>1, OwnedAre
    <3>2. \E j \in Slots(g) : At(g, j) = b
      BY <2>1, <2>4, OwnedAre
    <3> QED BY <2>1, <3>1, <3>2, Sizes DEF OwnInv
  <2> QED BY <2>2, <2>3, <2>4
<1> QED BY <1>1, FInvAlways, PTL

(* With no write under way nothing is marked but what the files own: what  *)
(* ffs_clear_fd frees and ffs_setattr drops is free, and no block is lost. *)
THEOREM NothingStaysMarked == ASSUME Uses = {} PROVE Spec => []Reclaimed
<1>1. FInv => Reclaimed
  <2> SUFFICES ASSUME FInv, \A f \in Files : Writers(f) = {}, ~ oops
               PROVE  bits = (0 .. Service - 1) \cup UNION {Owned(f) : f \in named}
    BY DEF Reclaimed
  <2>1. TypeOK /\ Core /\ OwnInv
    BY DEF FInv, Core
  <2>2. \A f \in named : Owned(f) = {At(f, i) : i \in Slots(f)} /\ Owned(f) \subseteq bits
    BY <2>1, OwnedAre DEF TypeOK
  <2>3. ASSUME NEW b \in bits, b \notin 0 .. Service - 1 PROVE \E f \in named : b \in Owned(f)
    <3>1. b >= Service
      BY <2>1, <2>3, Sizes DEF TypeOK, Block
    <3>2. PICK f \in named : \E i \in Slots(f) : At(f, i) = b
      BY <2>1, <3>1 DEF OwnInv
    <3>3. b \in Owned(f)
      BY <2>2, <3>2
    <3> QED BY <3>3
  <2> QED BY <2>1, <2>2, <2>3 DEF OwnInv
<1> QED BY <1>1, FInvAlways, PTL

-----------------------------------------------------------------------------
(* file_read of a file from its start.  After k turns it has read k blocks,*)
(* or the file if that is less.                                            *)
Gone(f, k) == Least(k * PerBlock, Len(want[f]))
Got(f, k)  == [off |-> Gone(f, k), got |-> [i \in 1 .. Gone(f, k) |-> want[f][i]]]

(* One turn of the loop.                                                   *)
LEMMA TurnReads ==
  ASSUME TypeOK, Core, NEW f \in named, Writers(f) = {}, NEW k \in Nat
  PROVE  ReadTurn(f, MaxSize, Got(f, k)) = Got(f, k + 1)
<1>0. /\ HoldInv /\ OwnInv /\ FileOK(f) /\ f \in Files /\ Count(f) \in Nat /\ Count(f) < PerBlock
      /\ size[f] = Len(want[f]) /\ Len(want[f]) <= MaxSize /\ MaxSize \in Nat
      /\ PerBlock \in Nat /\ PerBlock >= 2
  BY Sizes, FileAssumption DEF Core, TypeOK, FileOK, SizeOK
<1>l. PICK l \in Nat : l = Len(want[f])
  BY <1>0, OwnDatablock
<1>m. PICK m \in Nat : m = k * PerBlock /\ (k + 1) * PerBlock = m + PerBlock
  BY Products
<1>o. PICK o \in Nat : /\ o = Gone(f, k) /\ o = (IF m < l THEN m ELSE l)
                       /\ Gone(f, k + 1) = IF m + PerBlock < l THEN m + PerBlock ELSE l
  BY <1>l, <1>m DEF Gone, Least
<1>s. PICK s : s = Got(f, k)
  OBVIOUS
<1>1. /\ s.off = o /\ s.got = [i \in 1 .. o |-> want[f][i]] /\ Len(s.got) = o
  <2>1. s.off = o /\ s.got = [i \in 1 .. o |-> want[f][i]]
    BY <1>o, <1>s DEF Got
  <2> QED BY <2>1
<1>2. CASE m >= l
  <2>1. o = l /\ Gone(f, k + 1) = l
    BY <1>0, <1>o, <1>2
  <2>2. size[f] - s.off <= 0
    BY <1>0, <1>l, <1>1, <2>1
  <2>3. ReadTurn(f, MaxSize, s) = s
    BY <2>2 DEF ReadTurn
  <2> QED BY <1>o, <1>s, <2>1, <2>3 DEF Got
<1>3. CASE m < l
  <2>1. o = m /\ o \div PerBlock = k /\ o % PerBlock = 0
    <3>1. o = m /\ m <= m /\ m < m + PerBlock
      BY <1>0, <1>o, <1>3
    <3>2. o \div PerBlock = k
      BY <1>m, <3>1, Quotient
    <3>3. o = (o \div PerBlock) * PerBlock + (o % PerBlock) /\ o % PerBlock \in Nat
      BY Division DEF Word
    <3> QED BY <1>m, <3>1, <3>2, <3>3
  <2>n. PICK n \in Nat : /\ n = Least(Least(l - o, PerBlock), MaxSize)
                         /\ Gone(f, k + 1) = o + n /\ n <= PerBlock /\ o + n <= l /\ n > 0
    <3>1. l - o \in Nat /\ l - o > 0 /\ l - o <= MaxSize
      BY <1>0, <1>l, <1>3, <2>1
    <3>2. Least(Least(l - o, PerBlock), MaxSize) = Least(l - o, PerBlock)
      BY <1>0, <3>1 DEF Least
    <3>3. CASE m + PerBlock < l
      <4>1. Least(l - o, PerBlock) = PerBlock /\ Gone(f, k + 1) = m + PerBlock
        BY <1>0, <1>o, <2>1, <3>3 DEF Least
      <4> QED BY <1>0, <2>1, <3>2, <3>3, <4>1
    <3>4. CASE ~ (m + PerBlock < l)
      <4>1. Least(l - o, PerBlock) = l - o /\ Gone(f, k + 1) = l
        BY <1>0, <1>o, <2>1, <3>4 DEF Least
      <4>2. l - o <= PerBlock /\ o + (l - o) = l
        BY <1>0, <2>1, <3>4
      <4> QED BY <3>1, <3>2, <4>1, <4>2
    <3> QED BY <3>3, <3>4
  <2>b. PICK b : b = IF k + 1 \in Word THEN blk[db[f]][k + 1] ELSE NoBlock
    OBVIOUS
  <2>2. ReadTurn(f, MaxSize, s) =
          [off |-> o + n,
           got |-> s.got \o [w \in 1 .. n |-> IF b \in Block THEN blk[b][w - 1] ELSE Meta]]
    <3>1. ~ (Len(s.got) >= MaxSize \/ size[f] - s.off <= 0)
      BY <1>0, <1>l, <1>1, <1>3, <2>1
    <3>2. Least(Least(size[f] - s.off, PerBlock - (s.off % PerBlock)), MaxSize) = n
      <4>1. size[f] - s.off = l - o
        BY <1>0, <1>l, <1>1
      <4>2. PerBlock - (s.off % PerBlock) = PerBlock
        BY <1>0, <1>1, <2>1
      <4> QED BY <2>n, <4>1, <4>2
    <3>3. (IF s.off \div PerBlock + 1 \in Word THEN blk[db[f]][s.off \div PerBlock + 1]
           ELSE NoBlock) = b
      BY <1>1, <2>1, <2>b
    <3> QED BY <1>1, <3>1, <3>2, <3>3 DEF ReadTurn
  <2>3. b \in Block /\ \A w \in 1 .. n : blk[b][w - 1] = want[f][o + w]
    <3>1. ASSUME NEW w \in 0 .. n - 1
          PROVE  b \in Block /\ blk[b][w] = want[f][o + w + 1]
      <4>1. PICK j \in Nat : j = o + w /\ j \in 0 .. Len(want[f]) - 1
        BY <1>l, <2>n
      <4>2. m <= j /\ j < m + PerBlock
        BY <1>0, <2>1, <2>n, <4>1
      <4>3. j \div PerBlock = k /\ j % PerBlock = w
        <5>1. j \div PerBlock = k
          BY <1>m, <4>1, <4>2, Quotient
        <5>2. j = m + (j % PerBlock) /\ j % PerBlock \in Nat
          BY <1>m, <4>1, <5>1, Division DEF Word
        <5> QED BY <2>1, <4>1, <5>1, <5>2
      <4>4. j \notin Due(f)
        BY DEF Due
      <4>5. k + 1 \in Slots(f) /\ At(f, k + 1) \in Data
        BY <1>0, <4>1, <4>3, <4>4, Covered
      <4>6. blk[At(f, k + 1)][w] = want[f][j + 1]
        BY <1>0, <4>1, <4>3, <4>4 DEF FileOK, WordsOK
      <4>7. k + 1 \in Word /\ At(f, k + 1) = blk[db[f]][k + 1]
        BY <1>0, <4>5 DEF Slots, Word, At, Waiting
      <4> QED BY <2>b, <4>1, <4>5, <4>6, <4>7 DEF Data
    <3>2. 0 \in 0 .. n - 1
      BY <2>n
    <3>3. b \in Block
      BY <3>1, <3>2
    <3>4. ASSUME NEW w \in 1 .. n PROVE blk[b][w - 1] = want[f][o + w]
      <4>1. w - 1 \in 0 .. n - 1 /\ o + (w - 1) + 1 = o + w
        BY <2>n
      <4> QED BY <3>1, <4>1
    <3> QED BY <3>3, <3>4
  <2>4. s.got \o [w \in 1 .. n |-> IF b \in Block THEN blk[b][w - 1] ELSE Meta]
          = [i \in 1 .. o + n |-> want[f][i]]
    <3> DEFINE t == [w \in 1 .. n |-> IF b \in Block THEN blk[b][w - 1] ELSE Meta]
    <3>1. t = [w \in 1 .. n |-> want[f][o + w]]
      BY <2>3
    <3> HIDE DEF t
    <3>2. Len(t) = n /\ Len(s.got) = o
      BY <1>1, <3>1
    <3>3. s.got \o t = [i \in 1 .. o + n |-> IF i <= o THEN s.got[i] ELSE t[i - o]]
      BY <1>1, <3>1, <3>2
    <3>4. \A i \in 1 .. o + n : (IF i <= o THEN s.got[i] ELSE t[i - o]) = want[f][i]
      BY <1>1, <3>1
    <3> QED BY <3>3, <3>4 DEF t
  <2> QED BY <1>s, <2>n, <2>2, <2>4 DEF Got
<1> QED BY <1>2, <1>3

(* All of them: the loop is a function of its turns, and two such functions*)
(* cannot part at a first turn.                                            *)
LEMMA LoopReads ==
  ASSUME TypeOK, Core, NEW f \in named, Writers(f) = {}
  PROVE  FileRead(f, 0, MaxSize) = want[f]
<1>0. /\ MaxSize \in Nat /\ Len(want[f]) \in Nat /\ Len(want[f]) <= MaxSize
      /\ want[f] \in Seq(Values \cup {Meta})
  BY FileAssumption, OwnDatablock DEF Core, FileOK, SizeOK
<1> DEFINE K == 0 .. MaxSize
           turn == CHOOSE t : t = [k \in K |-> IF k = 0 THEN [off |-> 0, got |-> <<>>]
                                               ELSE ReadTurn(f, MaxSize, t[k - 1])]
           g == [k \in K |-> Got(f, k)]
<1>1. FileRead(f, 0, MaxSize) = turn[MaxSize].got
  BY DEF FileRead
<1>2. Got(f, 0) = [off |-> 0, got |-> <<>>]
  <2>1. Gone(f, 0) = 0
    BY <1>0, Sizes DEF Gone, Least
  <2> QED BY <2>1 DEF Got
<1>3. \A k \in K : k # 0 => k - 1 \in K /\ Got(f, k) = ReadTurn(f, MaxSize, Got(f, k - 1))
  <2> SUFFICES ASSUME NEW k \in K, k # 0
               PROVE  k - 1 \in K /\ Got(f, k) = ReadTurn(f, MaxSize, Got(f, k - 1))
    OBVIOUS
  <2>1. k - 1 \in K /\ k - 1 \in Nat /\ k - 1 + 1 = k
    BY <1>0
  <2> QED BY <2>1, TurnReads
<1>4. g = [k \in K |-> IF k = 0 THEN [off |-> 0, got |-> <<>>]
                       ELSE ReadTurn(f, MaxSize, g[k - 1])]
  BY <1>2, <1>3
<1>5. turn = [k \in K |-> IF k = 0 THEN [off |-> 0, got |-> <<>>]
                          ELSE ReadTurn(f, MaxSize, turn[k - 1])]
  <2> HIDE DEF g
  <2> QED BY <1>4
<1> HIDE DEF turn, g
<1>6. \A k \in K : turn[k] = Got(f, k)
  <2> DEFINE S == {k \in K : turn[k] # Got(f, k)}
  <2> SUFFICES ASSUME S # {} PROVE FALSE
    OBVIOUS
  <2>1. S \in SUBSET Nat
    OBVIOUS
  <2>2. PICK k \in S : \A j \in S : k <= j
    <3> HIDE DEF S
    <3> QED BY <2>1, LeastOf
  <2>3. k # 0
    BY <1>2, <1>5
  <2>4. k - 1 \in K /\ k - 1 \notin S
    BY <1>0, <2>2, <2>3
  <2>5. turn[k] = ReadTurn(f, MaxSize, Got(f, k - 1))
    BY <1>5, <2>3, <2>4
  <2> QED BY <1>3, <2>3, <2>5
<1>7. Gone(f, MaxSize) = Len(want[f])
  <2>1. PICK m \in Nat : m = MaxSize * PerBlock /\ MaxSize <= m
    BY <1>0, Sizes, Products
  <2> QED BY <1>0, <2>1 DEF Gone, Least
<1>8. turn[MaxSize].got = [i \in 1 .. Len(want[f]) |-> want[f][i]]
  <2>1. MaxSize \in K
    BY <1>0
  <2>2. turn[MaxSize] = Got(f, MaxSize)
    BY <1>6, <2>1
  <2>3. Got(f, MaxSize).got = [i \in 1 .. Gone(f, MaxSize) |-> want[f][i]]
    BY DEF Got
  <2> QED BY <1>7, <2>2, <2>3
<1> QED BY <1>0, <1>1, <1>8

(* A file read whole holds what was last written at every place, whatever  *)
(* other files did meanwhile (file_write, file_read, ffs_setattr).         *)
THEOREM FilesReadBack == ASSUME Uses = {} PROVE Spec => []ReadsBack
<1>1. FInv => ReadsBack
  BY LoopReads DEF FInv, ReadsBack, Settled
<1> QED BY <1>1, FInvAlways, PTL

=============================================================================
