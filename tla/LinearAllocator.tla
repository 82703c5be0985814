-------------------------- MODULE LinearAllocator --------------------------
(***************************************************************************)
(* The heap of linear-allocator/allocator.c: blocks with a header before   *)
(* each payload (busy flag, own size, size of the block before), first     *)
(* fit, merging of free neighbours, and mem_realloc's five ways to resize. *)
(*                                                                         *)
(* Memory is counted in units of 4 bytes, to which ceil_4 rounds every     *)
(* size.  A unit holds the first or a later part of a header, or a unit of *)
(* user data; a header written into data, or data over a header, shows.    *)
(***************************************************************************)
EXTENDS Integers, FiniteSets

CONSTANTS
  Amount,     \* mi.amount
  H,          \* size_h
  Ids,        \* the places of main.c's list[]
  Requests,   \* the sizes asked for, in units: what ceil_4 makes of them
  Rewrites,   \* whether an owner rewrites all of a block after mem_realloc
  Corrupting  \* which of the two cases of mem_realloc that corrupt happen

ASSUME HeapAssumption ==
  /\ H \in Nat \ {0} /\ Amount \in Nat /\ Amount >= 3 * H
  /\ Requests \subseteq Nat \ {0}
  /\ Rewrites \in BOOLEAN /\ Corrupting \subseteq {"absorb", "both"}

VARIABLES
  mem,   \* what each unit of mi.memory holds
  live   \* live[i]: address and size of the block at place i, size 0 if none

vars == <<mem, live>>

Unit == 0 .. Amount - 1
Head(busy, size, prev) == [busy |-> busy, size |-> size, prev |-> prev]
Data(i, k) == [owner |-> i, unit |-> k]
Tail  == [part |-> "header"]
Fresh == [part |-> "fresh"]
None  == [addr |-> 0, size |-> 0]

Headers == [busy : BOOLEAN, size : Unit, prev : Unit]
TypeOK ==
  /\ mem \in [Unit -> Headers \cup [owner : Ids, unit : Unit] \cup {Tail, Fresh}]
  /\ live \in [Ids -> [addr : Unit, size : Unit]]

-----------------------------------------------------------------------------
(* Headers. m is the memory they are read from and written to.             *)

IsHead(m, o)  == o \in Unit /\ m[o] \in Headers
IsFree(m, o)  == IsHead(m, o) /\ ~ m[o].busy
Next(m, o)    == o + H + m[o].size
Before(m, o)  == o - m[o].prev - H

(* write_raw_header                                                        *)
Raw(m, o, h) == [u \in Unit |-> IF u = o THEN h
                                ELSE IF u \in o + 1 .. o + H - 1 THEN Tail ELSE m[u]]

(* write_header: a free block takes in the free blocks after it, and the   *)
(* next block learns the size.  Data in the place of a next header stays   *)
(* data to a reader; the bytes count as busy.                              *)
Extended(m, o, size) ==
  LET ext[s \in Nat] ==
        IF IsFree(m, o + s + H) THEN ext[s + m[o + s + H].size + H] ELSE s
  IN  ext[size]
(* Mutant: the next block does not learn the size.                         *)
WriteHeaderAlone(m, o, busy, size, prev) ==
  Raw(m, o, Head(busy, IF busy THEN size ELSE Extended(m, o, size), prev))
WriteHeader(m, o, busy, size, prev) ==
  LET s  == IF busy THEN size ELSE Extended(m, o, size)
      n  == o + s + H
      m1 == Raw(m, o, Head(busy, s, prev))
  IN  IF IsHead(m1, n) THEN Raw(m1, n, [m1[n] EXCEPT !.prev = s])
      ELSE IF n \in Unit THEN Raw(m1, n, Tail) ELSE m1

(* The blocks as mem_dump and mem_alloc walk them.                         *)
Walk(m) ==
  LET from[o \in Nat] ==
        IF IsHead(m, o) THEN {o} \cup from[Next(m, o)] ELSE {}
  IN  from[0]

-----------------------------------------------------------------------------
(* Owners: what main.c does with a block.                                  *)

(* The owner of place i writes the units of its block from k on.           *)
Fill(m, i, a, k, size) ==
  [u \in Unit |-> IF u \in a + k .. a + size - 1 THEN Data(i, u - a) ELSE m[u]]

Move(m, from, to, size) ==
  [u \in Unit |-> IF u \in to .. to + size - 1 /\ u - to + from \in Unit
                  THEN m[u - to + from] ELSE m[u]]

(* What free blocks hold is not kept, unless an owner believes it its own: *)
(* a sound heap never reads it.                                            *)
Blurred(m, blocks) ==
  LET free  == UNION {o + H .. Next(m, o) - 1 : o \in {b \in Walk(m) : IsFree(m, b)}}
      owned == UNION {blocks[i].addr .. blocks[i].addr + blocks[i].size - 1 : i \in Ids}
  IN  [u \in Unit |-> IF u \in free \ owned THEN Fresh ELSE m[u]]

(* A call ends with this memory and these blocks.                          *)
Done(m, blocks) == mem' = Blurred(m, blocks) /\ live' = blocks

(* mem_realloc returned address a: the owner keeps what was there before.  *)
Resized(m, i, a, size) ==
  Done(Fill(m, i, a, IF Rewrites THEN 0 ELSE live[i].size, size),
       [live EXCEPT ![i] = [addr |-> a, size |-> size]])

-----------------------------------------------------------------------------
(* mem_alloc: first fit; the rest becomes a free block if a header fits.   *)

(* Mutant: the busy flag is not looked at.                                 *)
FitsAny(m, size) == {o \in Walk(m) \ {0} : m[o].size >= size}
Fits(m, size) == {o \in Walk(m) : IsFree(m, o) /\ m[o].size >= size}
FirstFit(m, size) == CHOOSE o \in Fits(m, size) : \A p \in Fits(m, size) : o <= p
Placed(m, o, size) ==
  LET rest == m[o].size - size - H
      prev == m[CHOOSE p \in Walk(m) : Next(m, p) = o].size
  IN  IF rest >= 0
      THEN WriteHeader(WriteHeader(m, o + size + H, FALSE, rest, size), o, TRUE, size, prev)
      ELSE WriteHeader(m, o, TRUE, m[o].size, prev)

Alloc(i, size) ==
  /\ live[i] = None /\ Fits(mem, size) # {}
  /\ LET o == FirstFit(mem, size)
     IN  Done(Fill(Placed(mem, o, size), i, o + H, 0, size),
              [live EXCEPT ![i] = [addr |-> o + H, size |-> size]])

(* mem_free: one merged block with the free neighbours.                    *)
(* Mutant: no merging with the block to the left.                          *)
FreedAlone(m, a) ==
  LET o == a - H  n == Next(m, o)
      s == m[o].size + (IF IsFree(m, n) THEN m[n].size + H ELSE 0)
  IN  WriteHeader(m, o, FALSE, s, m[o].prev)
Freed(m, a) ==
  LET o == a - H
      p == Before(m, o)
      n == Next(m, o)
      s == m[o].size + (IF IsFree(m, p) THEN m[p].size + H ELSE 0)
                     + (IF IsFree(m, n) THEN m[n].size + H ELSE 0)
  IN  IF IsFree(m, p) THEN WriteHeader(m, p, FALSE, s, m[p].prev)
      ELSE WriteHeader(m, o, FALSE, s, m[o].prev)

Free(i) ==
  /\ live[i] # None /\ IsHead(mem, live[i].addr - H)
  /\ Done(Freed(mem, live[i].addr), [live EXCEPT ![i] = None])

-----------------------------------------------------------------------------
(* mem_realloc, branch by branch.                                          *)

Block(i) == live[i].addr - H
Size(i)  == mem[Block(i)].size
Left(i)  == Before(mem, Block(i))
Right(i) == Next(mem, Block(i))

(* Mutant: the busy flag of the right block is not looked at.              *)
CanRightBusy(i, size) ==
  IsHead(mem, Right(i)) /\ mem[Right(i)].size + Size(i) + H >= size
CanRight(i, size) ==
  IsFree(mem, Right(i)) /\ mem[Right(i)].size + Size(i) + H >= size
CanLeft(i, size) ==
  IsFree(mem, Left(i)) /\ mem[Left(i)].size + Size(i) + H >= size
CanBoth(i, size) ==
  /\ IsFree(mem, Left(i)) /\ IsFree(mem, Right(i))
  /\ mem[Left(i)].size + Size(i) + mem[Right(i)].size + 2 * H >= size

Resizing(i) == live[i] # None /\ IsHead(mem, Block(i)) /\ IsHead(mem, Left(i))

(* A smaller size: what is left over becomes a free block.                 *)
ReallocShrink(i, size) ==
  /\ Resizing(i) /\ size < Size(i)
  /\ LET o    == Block(i)
         rest == Size(i) - H - size
         m1   == IF rest > 0 THEN WriteHeader(mem, o + size + H, FALSE, rest, size) ELSE mem
         ret  == IF rest > 0 THEN size ELSE Size(i)
     IN  Resized(WriteHeader(m1, o, TRUE, ret, mem[Left(i)].size), i, live[i].addr, size)

ReallocRight(i, size) ==
  /\ Resizing(i) /\ size >= Size(i) /\ CanRight(i, size)
  /\ LET o    == Block(i)
         rest == Size(i) + mem[Right(i)].size - size
         m1   == IF rest > 0 THEN WriteHeader(mem, o + H + size, FALSE, rest, size) ELSE mem
         ret  == IF rest > 0 THEN size ELSE Size(i) + mem[Right(i)].size + H
     IN  Resized(WriteHeader(m1, o, TRUE, ret, mem[Left(i)].size), i, live[i].addr, size)

(* To the left, with something of the block there left over.               *)
ReallocLeft(i, size) ==
  /\ Resizing(i) /\ size >= Size(i) /\ ~ CanRight(i, size) /\ CanLeft(i, size)
  /\ LET p    == Left(i)
         rest == mem[p].size + Size(i) - size
         o    == Block(i) + Size(i) - size
         m1   == WriteHeader(mem, o, TRUE, size, rest)
         m2   == WriteHeader(m1, p, FALSE, rest, m1[p].prev)
     IN  /\ rest > 0
         /\ Resized(Move(m2, live[i].addr, o + H, size), i, o + H, size)

(* To the left, taking all of it.  prev_size is then the size of the block *)
(* before that, and if it is not 0 the code "shrinks previous": it writes  *)
(* a free header over the one it has just written.                         *)
ReallocAbsorb(i, size) ==
  /\ Resizing(i) /\ size >= Size(i) /\ ~ CanRight(i, size) /\ CanLeft(i, size)
  /\ LET p    == Left(i)
         prev == mem[p].prev
         m1   == WriteHeader(mem, p, TRUE, mem[p].size + Size(i) + H, prev)
         m2   == IF prev > 0 THEN WriteHeader(m1, p, FALSE, prev, m1[p].prev) ELSE m1
     IN  /\ mem[p].size + Size(i) <= size
         /\ prev > 0 => "absorb" \in Corrupting
         /\ Resized(Move(m2, live[i].addr, p + H, size), i, p + H, size)

(* To both sides. Unless a free block remains, the new block has the size  *)
(* asked for, and the units up to the next header belong to no block.      *)
ReallocBoth(i, size) ==
  /\ Resizing(i) /\ size >= Size(i)
  /\ ~ CanRight(i, size) /\ ~ CanLeft(i, size) /\ CanBoth(i, size)
  /\ LET p    == Left(i)
         rest == mem[p].size + Size(i) + mem[Right(i)].size + H - size
         m1   == WriteHeader(mem, p, TRUE, size, mem[p].prev)
         m2   == IF rest > 0 THEN WriteHeader(m1, p + size + H, FALSE, rest, size) ELSE m1
     IN  /\ -H < rest /\ rest <= 0 => "both" \in Corrupting
         /\ Resized(Move(m2, live[i].addr, p + H, size), i, p + H, size)

(* Elsewhere: mem_alloc, memmove, and the old block is freed; nothing      *)
(* changes when mem_alloc finds no place.  The code calls memfree, which   *)
(* the repository does not define: it can only stand for mem_free.         *)
ReallocMove(i, size) ==
  /\ Resizing(i) /\ size >= Size(i)
  /\ ~ CanRight(i, size) /\ ~ CanLeft(i, size) /\ ~ CanBoth(i, size)
  /\ Fits(mem, size) # {}
  /\ LET o  == FirstFit(mem, size)
         m1 == Move(Placed(mem, o, size), live[i].addr, o + H, size)
     IN  Resized(Freed(m1, live[i].addr), i, o + H, size)

-----------------------------------------------------------------------------
(* alc_init: an empty busy block, one free block, an empty busy block.     *)
Init ==
  /\ mem = Raw(Raw(Raw([u \in Unit |-> Fresh], 0, Head(TRUE, 0, 0)),
                   H, Head(FALSE, Amount - 3 * H, 0)),
               Amount - H, Head(TRUE, 0, 0))
  /\ live = [i \in Ids |-> None]

Step ==
  \E i \in Ids :
    \/ Free(i)
    \/ \E size \in Requests :
         \/ Alloc(i, size)
         \/ ReallocShrink(i, size) \/ ReallocRight(i, size)
         \/ ReallocLeft(i, size) \/ ReallocAbsorb(i, size)
         \/ ReallocBoth(i, size) \/ ReallocMove(i, size)

Spec == Init /\ [][Step]_vars

-----------------------------------------------------------------------------
(* main.c:101-109 and 142-150, "Control sum check": every unit of a block  *)
(* is what its owner wrote, whatever was allocated, freed or resized since.*)
ContentsKept ==
  \A i \in Ids : \A k \in 0 .. live[i].size - 1 : mem[live[i].addr + k] = Data(i, k)

(* Walking from header to header ends exactly at the end of the memory,    *)
(* each header tells the size of the block before it, and no two free      *)
(* blocks touch (nobody reads prev_size of the last header).               *)
Tiled ==
  /\ \A o \in Walk(mem) : Next(mem, o) = Amount \/ IsHead(mem, Next(mem, o))
  /\ \A o \in Walk(mem) :
       LET n == Next(mem, o) IN
       n < Amount =>
         /\ n # Amount - H => mem[n].prev = mem[o].size
         /\ mem[o].busy \/ mem[n].busy

(* The busy blocks between the first and the last are those of owners, and *)
(* each is large enough: nothing leaks, nothing is handed out twice.       *)
BusyIsOwned ==
  LET used == {o \in Walk(mem) : mem[o].busy} \ {0, Amount - H} IN
  /\ used = {Block(i) : i \in {j \in Ids : live[j] # None}}
  /\ Cardinality(used) = Cardinality({j \in Ids : live[j] # None})
  /\ \A i \in Ids : live[i] # None => Size(i) >= live[i].size

(* The heap as the code walks it.                                          *)
WellFormed == TypeOK /\ Tiled /\ BusyIsOwned

(* When every block is free again, the heap is whole again.                *)
AllFreeIsWhole ==
  (\A i \in Ids : live[i] = None) => Walk(mem) = {0, H, Amount - H}

(* Callers see a heap: no block of one owner ever overlaps another's,      *)
(* whichever way mem_realloc took.  (That two owners never hold the very   *)
(* same block, which a set of blocks cannot show, is in BusyIsOwned.)      *)
Held    == {live[i] : i \in {j \in Ids : live[j] # None}}
Promise == INSTANCE Heap WITH Memory <- Unit, Sizes <- Requests, held <- Held
HeapSpec == Promise!Spec
=============================================================================
