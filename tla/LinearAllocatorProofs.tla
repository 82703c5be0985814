----------------------- MODULE LinearAllocatorProofs -----------------------
(***************************************************************************)
(* Proofs about LinearAllocator, for every size of the memory and of a     *)
(* header, any requests and any number of owners, as long as the two cases *)
(* of mem_realloc that corrupt the heap do not happen (Corrupting = {}):   *)
(* the headers tile the memory, every busy block has its owner, owners     *)
(* find what they wrote, and the heap keeps the promise of Heap.  What     *)
(* that promise gives its callers is proved here too.                      *)
(***************************************************************************)
EXTENDS LinearAllocator, FiniteSetTheorems, FunctionTheorems, WellFoundedInduction,
        TLAPS

Mem == [Unit -> Headers \cup [owner : Ids, unit : Unit] \cup {Tail, Fresh}]
End == Amount - H

(* The headers at S cut the memory m into blocks: what Tiled says, of a    *)
(* set given beforehand instead of found by walking.                       *)
Tiles(m, S) ==
  /\ S \subseteq Unit /\ 0 \in S /\ End \in S
  /\ \A o \in S : m[o] \in Headers
  /\ m[0].busy /\ m[0].size = 0 /\ m[End].busy /\ m[End].size = 0
  /\ \A o \in S : o # End => Next(m, o) \in S
  /\ \A o, p \in S : p > o => p >= Next(m, o)
  /\ \A o \in S : o # End /\ Next(m, o) # End => m[Next(m, o)].prev = m[o].size
  /\ \A o \in S : o # End => m[o].busy \/ m[Next(m, o)].busy

(* The places of L that hold a block, and the headers of those blocks.     *)
Full(L)    == {i \in Ids : L[i] # None}
Heads(L)   == {L[i].addr - H : i \in Full(L)}
Busy(m, S) == {o \in S : m[o].busy}

(* Each block of L is a busy block large enough, and no two are the same.  *)
Owns(m, S, L) ==
  /\ \A i \in Full(L) : /\ L[i].addr \in Nat /\ L[i].addr - H \in Busy(m, S) \ {0, End}
                        /\ L[i].size \in Requests
                        /\ L[i].size <= m[L[i].addr - H].size
  /\ \A i, j \in Full(L) : L[i].addr = L[j].addr => i = j

Keeps(m, L, i) == \A k \in Nat : k < L[i].size => m[L[i].addr + k] = Data(i, k)

Sound(m, S, L) ==
  /\ m \in Mem /\ L \in [Ids -> [addr : Unit, size : Unit]] /\ Tiles(m, S) /\ Owns(m, S, L)
  /\ Busy(m, S) = {0, End} \cup Heads(L)
  /\ \A i \in Full(L) : Keeps(m, L, i)

(* The inductive invariant.                                                *)
IInv == \E S \in SUBSET Unit : Sound(mem, S, live)

-----------------------------------------------------------------------------
(* Numbers and headers.                                                    *)
LEMMA Sizes ==
  /\ Amount \in Nat /\ H \in Nat /\ H > 0 /\ Amount >= 3 * H /\ End \in Nat /\ End + H = Amount
  /\ \A r \in Requests : r \in Nat /\ r > 0
  /\ \A u : u \in Unit <=> u \in Nat /\ u < Amount
BY HeapAssumption DEF End, Unit

(* A set of units has a largest, ...                                       *)
LEMMA LargestOf ==
  ASSUME NEW S \in SUBSET Unit, S # {}
  PROVE  \E m \in S : \A n \in S : n <= m
<1>1. \A n \in S : n \in Nat /\ n < Amount
  BY Sizes
<1>2. IsFiniteSet(Unit)
  BY Sizes, FS_Interval DEF Unit
<1> DEFINE T == {{s \in Unit : s >= n} : n \in S}
<1>3. IsWellFoundedOn(StrictSubsetOrdering(Unit), SUBSET Unit)
  BY <1>2, FS_StrictSubsetOrderingWellFounded, FS_FiniteSubsetsOfFinite
<1>4. T \subseteq SUBSET Unit /\ T # {}
  OBVIOUS
<1>5. PICK x \in T : \A y \in T : ~ (<<y, x>> \in StrictSubsetOrdering(Unit))
  <2> HIDE DEF T
  <2> QED BY <1>3, <1>4, WFMin
<1>6. PICK m \in S : x = {s \in Unit : s >= m}
  BY <1>5
<1>7. ASSUME NEW n \in S PROVE n <= m
  <2> SUFFICES ASSUME ~ n <= m PROVE FALSE
    OBVIOUS
  <2> DEFINE y == {s \in Unit : s >= n}
  <2>1. y \in T
    OBVIOUS
  <2>2. y \subseteq x /\ y # x
    <3>1. m \in x /\ m \notin y
      BY <1>1, <1>6
    <3>2. \A s \in Unit : s >= n => s >= m
      BY <1>1, Sizes
    <3> QED BY <1>6, <3>1, <3>2
  <2>3. <<y, x>> \in StrictSubsetOrdering(Unit)
    <3>1. y \in SUBSET Unit /\ x \in SUBSET Unit
      BY <1>6
    <3> HIDE DEF y
    <3> QED BY <2>2, <3>1 DEF StrictSubsetOrdering
  <2> QED BY <1>5, <2>1, <2>3
<1> QED BY <1>7

(* ... and a least unit.                                                   *)
LEMMA LeastOf ==
  ASSUME NEW S \in SUBSET Unit, S # {}
  PROVE  \E m \in S : \A n \in S : m <= n
<1>1. \A n \in S : n \in Nat /\ n < Amount
  BY Sizes
<1> DEFINE T == {u \in Unit : Amount - 1 - u \in S}
<1>2. T \in SUBSET Unit /\ T # {}
  <2>1. PICK n \in S : TRUE
    OBVIOUS
  <2>2. Amount - 1 - n \in Unit /\ Amount - 1 - (Amount - 1 - n) = n
    BY <1>1, Sizes
  <2> QED BY <2>2
<1>3. PICK m \in T : \A n \in T : n <= m
  <2> HIDE DEF T
  <2> QED BY <1>2, LargestOf
<1>4. ASSUME NEW n \in S PROVE Amount - 1 - m <= n
  <2>1. Amount - 1 - n \in T
    <3>1. Amount - 1 - n \in Unit /\ Amount - 1 - (Amount - 1 - n) = n
      BY <1>1, Sizes
    <3> QED BY <3>1
  <2>2. Amount - 1 - n <= m /\ m \in Nat /\ n \in Nat
    BY <1>1, <1>3, <2>1, Sizes
  <2> QED BY <2>2, Sizes
<1> QED BY <1>3, <1>4

(* Where the blocks of a tiled memory lie.                                 *)
LEMMA BlockLies ==
  ASSUME NEW m, NEW S, Tiles(m, S), NEW o \in S
  PROVE  /\ o \in Nat /\ o \in Unit /\ o <= End /\ m[o] \in Headers
         /\ m[o].busy \in BOOLEAN /\ m[o].size \in Nat /\ m[o].prev \in Unit /\ m[o].size \in Unit
         /\ Next(m, o) = o + H + m[o].size /\ Next(m, o) >= o + H /\ Next(m, o) \in Nat
         /\ o # End => o < End /\ Next(m, o) \in S /\ Next(m, o) <= End
<1>1. /\ m[o].busy \in BOOLEAN /\ m[o].size \in Nat /\ m[o].prev \in Unit /\ o \in Nat
      /\ m[o] \in Headers /\ m[o].size \in Unit /\ o \in Unit
  BY Sizes DEF Tiles, Headers
<1>2. Next(m, o) = o + H + m[o].size /\ Next(m, o) >= o + H /\ Next(m, o) \in Nat
  BY <1>1, Sizes DEF Next
<1>3. \A p \in S : p <= End
  <2> SUFFICES ASSUME NEW p \in S, p > End PROVE FALSE
    BY Sizes DEF Tiles
  <2>1. p >= Next(m, End) /\ p < Amount /\ p \in Nat
    BY Sizes DEF Tiles
  <2>2. Next(m, End) = Amount
    BY Sizes DEF Tiles, Next, End
  <2> QED BY <2>1, <2>2, Sizes
<1>4. ASSUME o # End PROVE o < End /\ Next(m, o) \in S /\ Next(m, o) <= End
  <2>1. Next(m, o) \in S
    BY <1>4 DEF Tiles
  <2>2. Next(m, o) <= End /\ o <= End
    BY <1>3, <2>1
  <2> QED BY <1>1, <1>4, <2>1, <2>2, Sizes
<1> QED BY <1>1, <1>2, <1>3, <1>4

-----------------------------------------------------------------------------
(* The recursive definitions. Extended takes in free blocks one by one.    *)
LEMMA ExtendedIs ==
  ASSUME NEW m \in Mem, NEW o \in Nat, NEW size \in Nat
  PROVE  /\ ~ IsFree(m, o + size + H) => Extended(m, o, size) = size
         /\ IsFree(m, o + size + H) =>
              Extended(m, o, size) = Extended(m, o, size + m[o + size + H].size + H)
<1> DEFINE Free1(t) == IsFree(m, o + t + H)
           Succ(t)  == t + m[o + t + H].size + H
           Ends(s)  == {t \in Nat : ~ Free1(t) /\ \A C \in SUBSET Nat :
                          s \in C /\ (\A c \in C : Free1(c) => Succ(c) \in C) => t \in C}
           g == [s \in Nat |-> CHOOSE t : t \in Ends(s)]
           ext == CHOOSE e : e = [s \in Nat |-> IF Free1(s) THEN e[Succ(s)] ELSE s]
<1>1. \A s \in Nat : Extended(m, o, s) = ext[s]
  BY DEF Extended
<1>2. \A s \in Nat : Free1(s) => Succ(s) \in Nat
  BY Sizes DEF IsFree, IsHead, Headers
<1> HIDE DEF Free1, Succ
<1>3. ASSUME NEW s \in Nat, Free1(s) PROVE Ends(s) = Ends(Succ(s))
  <2>1. ASSUME NEW t \in Ends(s) PROVE t \in Ends(Succ(s))
    <3> SUFFICES ASSUME NEW C \in SUBSET Nat, Succ(s) \in C,
                        \A c \in C : Free1(c) => Succ(c) \in C
                 PROVE  t \in C
      BY <2>1
    <3>1. C \cup {s} \in SUBSET Nat /\ \A c \in C \cup {s} : Free1(c) => Succ(c) \in C \cup {s}
      OBVIOUS
    <3>2. t \in C \cup {s} /\ ~ Free1(t)
      BY <2>1, <3>1
    <3> QED BY <1>3, <3>2
  <2>2. ASSUME NEW t \in Ends(Succ(s)) PROVE t \in Ends(s)
    BY <1>3, <2>2
  <2> QED BY <2>1, <2>2
<1>4. ASSUME NEW s \in Nat, ~ Free1(s) PROVE Ends(s) = {s}
  <2>1. {s} \in SUBSET Nat /\ \A c \in {s} : Free1(c) => Succ(c) \in {s}
    BY <1>4
  <2> QED BY <1>4, <2>1
<1>5. g = [s \in Nat |-> IF Free1(s) THEN g[Succ(s)] ELSE s]
  <2>1. ASSUME NEW s \in Nat PROVE g[s] = IF Free1(s) THEN g[Succ(s)] ELSE s
    <3> HIDE DEF Ends
    <3>1. CASE Free1(s)
      BY <1>2, <1>3, <3>1
    <3>2. CASE ~ Free1(s)
      BY <1>4, <3>2
    <3> QED BY <3>1, <3>2
  <2> HIDE DEF Ends
  <2> QED BY <2>1
<1>6. ext = [s \in Nat |-> IF Free1(s) THEN ext[Succ(s)] ELSE s]
  <2> HIDE DEF g
  <2> QED BY <1>5
<1> HIDE DEF ext
<1>7. \A s \in Nat : ext[s] = IF Free1(s) THEN ext[Succ(s)] ELSE s
  BY <1>6
<1> QED BY <1>1, <1>2, <1>7 DEF Free1, Succ

(* The walk from header to header finds the headers that tile the memory,  *)
(* whatever else in it looks like a header.                                *)
LEMMA WalkSolves ==
  ASSUME NEW m \in Mem
  PROVE  \E f : /\ Walk(m) = f[0]
                /\ \A o \in Nat : f[o] = IF IsHead(m, o) THEN {o} \cup f[Next(m, o)] ELSE {}
<1> DEFINE Is(o) == IsHead(m, o)
           Succ(o) == Next(m, o)
           Met(o) == {p \in Nat : Is(p) /\ \A C \in SUBSET Nat :
                        o \in C /\ (\A c \in C : Is(c) => Succ(c) \in C) => p \in C}
           g == [o \in Nat |-> Met(o)]
           from == CHOOSE f : f = [o \in Nat |-> IF Is(o) THEN {o} \cup f[Succ(o)] ELSE {}]
<1>1. Walk(m) = from[0]
  BY DEF Walk
<1>2. \A o \in Nat : Is(o) => Succ(o) \in Nat
  BY Sizes DEF IsHead, Headers, Next
<1> HIDE DEF Is, Succ
<1>3. ASSUME NEW o \in Nat, Is(o) PROVE Met(o) = {o} \cup Met(Succ(o))
  <2>1. ASSUME NEW p \in Met(o), p # o PROVE p \in Met(Succ(o))
    <3> SUFFICES ASSUME NEW C \in SUBSET Nat, Succ(o) \in C,
                        \A c \in C : Is(c) => Succ(c) \in C
                 PROVE  p \in C
      BY <2>1
    <3>1. C \cup {o} \in SUBSET Nat /\ \A c \in C \cup {o} : Is(c) => Succ(c) \in C \cup {o}
      OBVIOUS
    <3>2. p \in C \cup {o}
      BY <2>1, <3>1
    <3> QED BY <2>1, <3>2
  <2>2. o \in Met(o)
    BY <1>3
  <2>3. ASSUME NEW p \in Met(Succ(o)) PROVE p \in Met(o)
    BY <1>3, <2>3
  <2> QED BY <2>1, <2>2, <2>3
<1>4. ASSUME NEW o \in Nat, ~ Is(o) PROVE Met(o) = {}
  <2>1. {o} \in SUBSET Nat /\ \A c \in {o} : Is(c) => Succ(c) \in {o}
    BY <1>4
  <2> QED BY <1>4, <2>1
<1>5. g = [o \in Nat |-> IF Is(o) THEN {o} \cup g[Succ(o)] ELSE {}]
  <2>1. ASSUME NEW o \in Nat PROVE g[o] = IF Is(o) THEN {o} \cup g[Succ(o)] ELSE {}
    <3> HIDE DEF Met
    <3>1. CASE Is(o)
      BY <1>2, <1>3, <3>1
    <3>2. CASE ~ Is(o)
      BY <1>4, <3>2
    <3> QED BY <3>1, <3>2
  <2> HIDE DEF Met
  <2> QED BY <2>1
<1>6. from = [o \in Nat |-> IF Is(o) THEN {o} \cup from[Succ(o)] ELSE {}]
  <2> HIDE DEF g
  <2> QED BY <1>5
<1> HIDE DEF from
<1>7. \A o \in Nat : from[o] = IF Is(o) THEN {o} \cup from[Succ(o)] ELSE {}
  BY <1>6
<1> QED BY <1>1, <1>7 DEF Is, Succ

(* The walk over the headers of a tiled memory finds exactly these         *)
(* headers.                                                                *)
LEMMA WalkIs ==
  ASSUME NEW m \in Mem, NEW S, Tiles(m, S)
  PROVE  Walk(m) = S
<1>1. PICK f : /\ Walk(m) = f[0]
               /\ \A o \in Nat : f[o] = IF IsHead(m, o) THEN {o} \cup f[Next(m, o)] ELSE {}
  BY WalkSolves
<1> DEFINE Bad == {o \in S : f[o] # {p \in S : p >= o}}
<1>2. Bad = {}
  <2> SUFFICES ASSUME Bad # {} PROVE FALSE
    OBVIOUS
  <2>1. Bad \in SUBSET Unit
    BY DEF Tiles
  <2>2. PICK o \in Bad : \A p \in Bad : p <= o
    <3> HIDE DEF Bad
    <3> QED BY <2>1, LargestOf
  <2>3. /\ o \in S /\ o \in Nat /\ o <= End /\ IsHead(m, o) /\ Next(m, o) \in Nat
        /\ Next(m, o) >= o + H /\ f[o] = {o} \cup f[Next(m, o)]
    BY <1>1, BlockLies DEF IsHead, Tiles
  <2>4. ASSUME NEW p \in S PROVE p \in Nat /\ p <= End /\ (p >= o => p = o \/ p >= Next(m, o))
    <3>1. p \in Nat /\ p <= End
      BY BlockLies
    <3>2. p > o => p >= Next(m, o)
      BY <2>3 DEF Tiles
    <3> QED BY <2>3, <3>1, <3>2
  <2>5. CASE o = End
    <3>1. Next(m, o) = Amount /\ ~ IsHead(m, Amount)
      <4>1. m[o].size = 0
        BY <2>5 DEF Tiles
      <4>2. Next(m, o) = o + H + 0
        BY ONLY <4>1 DEF Next
      <4>3. Amount \notin Unit /\ o + H + 0 = Amount
        BY ONLY <2>5, Sizes
      <4> QED BY ONLY <4>2, <4>3 DEF IsHead
    <3>2. f[o] = {o}
      BY <1>1, <2>3, <3>1, Sizes
    <3>3. ASSUME NEW p \in S PROVE p >= o <=> p = o
      <4>1. p \in Nat /\ p <= End
        BY <2>4
      <4> QED BY ONLY <2>5, <4>1, Sizes
    <3>4. f[o] = {p \in S : p >= o}
      BY <2>3, <3>2, <3>3
    <3> QED BY <3>4
  <2>6. CASE o # End
    <3>1. Next(m, o) \in S /\ Next(m, o) \notin Bad
      BY <2>2, <2>3, <2>6, BlockLies, Sizes
    <3>2. f[o] = {o} \cup {p \in S : p >= Next(m, o)}
      BY <2>3, <3>1
    <3>3. \A p \in S : p >= Next(m, o) => p >= o
      BY <2>3, <2>4, Sizes
    <3>4. f[o] = {p \in S : p >= o}
      <4>1. \A p \in S : p >= o <=> p = o \/ p >= Next(m, o)
        BY <2>3, <2>4, <3>3
      <4> QED BY <2>3, <3>2, <4>1
    <3> QED BY <3>4
  <2> QED BY <2>5, <2>6
<1>3. f[0] = {p \in S : p >= 0}
  BY <1>2 DEF Tiles
<1>4. \A p \in S : p >= 0
  BY BlockLies
<1> QED BY <1>1, <1>3, <1>4

-----------------------------------------------------------------------------
(* Writing headers.                                                        *)
LEMMA RawIs ==
  ASSUME NEW m \in Mem, NEW o \in Nat, NEW h \in Headers \cup {Tail}
  PROVE  /\ Raw(m, o, h) \in Mem
         /\ o \in Unit => Raw(m, o, h)[o] = h
         /\ \A u \in Unit : u < o \/ u >= o + H => Raw(m, o, h)[u] = m[u]
<1>1. \A u \in Unit : (u = o => u >= o /\ u < o + H)
                      /\ (u \in o + 1 .. o + H - 1 => u >= o /\ u < o + H)
  BY Sizes
<1>2. \A u \in Unit : m[u] \in Headers \cup [owner : Ids, unit : Unit] \cup {Tail, Fresh}
  BY DEF Mem
<1>3. Raw(m, o, h) \in Mem
  BY <1>2 DEF Raw, Mem
<1>4. \A u \in Unit : Raw(m, o, h)[u] = IF u = o THEN h
                                      ELSE IF u \in o + 1 .. o + H - 1 THEN Tail ELSE m[u]
  BY DEF Raw
<1>5. ASSUME NEW u \in Unit, u < o \/ u >= o + H PROVE Raw(m, o, h)[u] = m[u]
  <2>1. u # o /\ u \notin o + 1 .. o + H - 1
    BY <1>5, Sizes
  <2> QED BY <1>4, <2>1
<1> QED BY <1>3, <1>4, <1>5

(* A header has the fields it is given.                                    *)
LEMMA HeadIs ==
  ASSUME NEW b \in BOOLEAN, NEW size \in Unit, NEW prev \in Unit
  PROVE  /\ Head(b, size, prev) \in Headers
         /\ Head(b, size, prev).busy = b /\ Head(b, size, prev).size = size
         /\ Head(b, size, prev).prev = prev
BY DEF Head, Headers

(* write_header changes the header it writes, prev of the header behind,   *)
(* and nothing else, unless a free header comes before a free block.       *)
LEMMA WriteIs ==
  ASSUME NEW m \in Mem, NEW o \in Unit, NEW b \in BOOLEAN, NEW size \in Unit,
         NEW prev \in Unit, NEW n, n \in Nat, n = o + size + H, b \/ ~ IsFree(m, n)
  PROVE  LET w == WriteHeader(m, o, b, size, prev) IN
         /\ w \in Mem /\ w[o] = Head(b, size, prev)
         /\ n \in Unit /\ m[n] \in Headers => w[n] = [m[n] EXCEPT !.prev = size]
         /\ \A u \in Unit : (u < o \/ u >= o + H) /\ (u < n \/ u >= n + H) => w[u] = m[u]
<1> DEFINE h  == Head(b, size, prev)
           m1 == Raw(m, o, h)
           w  == IF IsHead(m1, n) THEN Raw(m1, n, [m1[n] EXCEPT !.prev = size])
                 ELSE IF n \in Unit THEN Raw(m1, n, Tail) ELSE m1
<1>0. o \in Nat /\ size \in Nat /\ n >= o + H /\ n > o
  BY Sizes
<1>1. WriteHeader(m, o, b, size, prev) = w
  <2>1. ~ b => Extended(m, o, size) = size
    BY <1>0, ExtendedIs
  <2> QED BY <2>1 DEF WriteHeader
<1>2. h \in Headers
  BY HeadIs
<1> HIDE DEF h
<1>3. /\ m1 \in Mem /\ m1[o] = h
      /\ \A u \in Unit : u < o \/ u >= o + H => m1[u] = m[u]
  BY <1>0, <1>2, RawIs
<1>4. n \in Unit => m1[n] = m[n]
  BY <1>0, <1>3
<1> HIDE DEF m1
<1>5. CASE IsHead(m1, n)
  <2> DEFINE x == [m1[n] EXCEPT !.prev = size]
  <2>1. x \in Headers /\ n \in Unit
    BY <1>5 DEF IsHead, Headers
  <2> HIDE DEF x
  <2>2. /\ w = Raw(m1, n, x) /\ Raw(m1, n, x) \in Mem /\ Raw(m1, n, x)[n] = x
        /\ \A u \in Unit : u < n \/ u >= n + H => Raw(m1, n, x)[u] = m1[u]
    BY <1>3, <1>5, <2>1, RawIs DEF x
  <2>3. w[o] = h
    BY <1>0, <1>3, <2>2
  <2>4. w[n] = [m[n] EXCEPT !.prev = size]
    BY <1>4, <2>1, <2>2 DEF x
  <2> HIDE DEF w
  <2> QED BY <1>1, <1>3, <2>2, <2>3, <2>4 DEF h
<1>6. CASE ~ IsHead(m1, n)
  <2>1. ~ (n \in Unit /\ m[n] \in Headers)
    BY <1>4, <1>6 DEF IsHead
  <2>2. CASE n \in Unit
    <3>1. /\ w = Raw(m1, n, Tail) /\ Raw(m1, n, Tail) \in Mem
          /\ \A u \in Unit : u < n \/ u >= n + H => Raw(m1, n, Tail)[u] = m1[u]
      BY <1>3, <1>6, <2>2, RawIs
    <3>2. w[o] = h
      BY <1>0, <1>3, <3>1
    <3> HIDE DEF w
    <3> QED BY <1>1, <1>3, <2>1, <3>1, <3>2 DEF h
  <2>3. CASE n \notin Unit
    <3>1. w = m1
      BY <1>6, <2>3
    <3> HIDE DEF w
    <3> QED BY <1>1, <1>3, <2>1, <3>1 DEF h
  <2> QED BY <2>2, <2>3
<1> QED BY <1>5, <1>6

(* Nothing that lies before the header changes.                            *)
LEMMA WriteBehind ==
  ASSUME NEW m \in Mem, NEW o \in Unit, NEW b \in BOOLEAN, NEW size \in Unit,
         NEW prev \in Unit, NEW n, n \in Nat, n = o + size + H, b \/ ~ IsFree(m, n),
         NEW u, u \in Unit, u < o
  PROVE  WriteHeader(m, o, b, size, prev)[u] = m[u]
<1>1. u < n
  BY Sizes
<1>2. PICK w : w = WriteHeader(m, o, b, size, prev)
  OBVIOUS
<1>3. /\ w \in Mem /\ w[o] = Head(b, size, prev)
      /\ n \in Unit /\ m[n] \in Headers => w[n] = [m[n] EXCEPT !.prev = size]
      /\ \A v \in Unit : (v < o \/ v >= o + H) /\ (v < n \/ v >= n + H) => w[v] = m[v]
  BY <1>2, WriteIs
<1> QED BY <1>1, <1>2, <1>3

(* A free header written before a free block takes that block in.          *)
LEMMA WriteMerges ==
  ASSUME NEW m, m \in Mem, NEW o, o \in Unit, NEW size, size \in Unit, NEW prev,
         NEW n, n \in Nat, n = o + size + H, IsFree(m, n), NEW s, s \in Unit,
         s = size + m[n].size + H, ~ IsFree(m, o + s + H)
  PROVE  WriteHeader(m, o, FALSE, size, prev) = WriteHeader(m, o, FALSE, s, prev)
<1>1. o \in Nat /\ size \in Nat /\ s \in Nat
  BY Sizes
<1>2. Extended(m, o, size) = Extended(m, o, s)
  BY <1>1, ExtendedIs
<1> QED BY <1>2 DEF WriteHeader

-----------------------------------------------------------------------------
(* The blocks from a up to e are cut anew into the blocks at D: what tells *)
(* that the memory is still tiled.                                         *)
Off(m, w, a, e)  == \A u \in Unit : u < a \/ u >= e + H => w[u] = m[u]
Outside(S, a, e) == {o \in S : o < a \/ o >= e}
Same(m, w, o)    == w[o].busy = m[o].busy /\ w[o].size = m[o].size

Recut(m, w, S, a, e, D) ==
  /\ \A o \in D : o \in Nat /\ o >= a /\ o < e
  /\ \A o \in D : w[o] \in Headers /\ Next(w, o) \in D \cup {e}
  /\ \A o, p \in D : p > o => p >= Next(w, o)
  /\ \A o \in D : Next(w, o) # End => w[Next(w, o)].prev = w[o].size
  /\ \A o \in D : w[o].busy \/ w[Next(w, o)].busy
  /\ w[a].prev = m[a].prev
  /\ \A q \in S : Next(m, q) = a => w[a].busy \/ m[q].busy
  /\ w[e] \in Headers /\ Same(m, w, e)
  /\ Off(m, w, a, e)

(* When w differs from a tiled m only from header a up to header e, and is *)
(* tiled in between by the headers D, then w is tiled, and every header    *)
(* elsewhere keeps its state and its size.                                 *)
LEMMA Cut ==
  ASSUME NEW m \in Mem, NEW w \in Mem, NEW S, Tiles(m, S), NEW a \in S, a # 0,
         NEW e \in S, a < e, NEW D, a \in D, Recut(m, w, S, a, e, D)
  PROVE  /\ Tiles(w, Outside(S, a, e) \cup D)
         /\ \A o \in Outside(S, a, e) : Same(m, w, o)
<1> DEFINE S2 == Outside(S, a, e) \cup D
<1>0. /\ \A o \in D : o \in Nat /\ o >= a /\ o < e
      /\ \A o \in D : w[o] \in Headers /\ Next(w, o) \in D \cup {e}
      /\ \A o, p \in D : p > o => p >= Next(w, o)
      /\ \A o \in D : Next(w, o) # End => w[Next(w, o)].prev = w[o].size
      /\ \A o \in D : w[o].busy \/ w[Next(w, o)].busy
      /\ w[a].prev = m[a].prev
      /\ \A q \in S : Next(m, q) = a => w[a].busy \/ m[q].busy
      /\ w[e] \in Headers /\ w[e].busy = m[e].busy /\ w[e].size = m[e].size
      /\ \A u \in Unit : u < a \/ u >= e + H => w[u] = m[u]
      /\ S2 = {o \in S : o < a \/ o >= e} \cup D
  BY DEF Recut, Same, Off, Outside
<1> HIDE DEF S2
<1> DEFINE O == {o \in S : o < a \/ o >= e}
<1>1. /\ a \in Nat /\ a \in Unit /\ a < End /\ e \in Nat /\ e \in Unit /\ e <= End
      /\ Next(m, e) \in Nat /\ Next(m, e) >= e + H /\ End \in Nat
  <2>1. a # End
    BY BlockLies
  <2> QED BY <2>1, BlockLies, Sizes
<1>2. ASSUME NEW o \in O
      PROVE  /\ o \in S /\ o \in Nat /\ o \in Unit /\ o <= End /\ w[o] \in Headers
             /\ w[o].busy = m[o].busy /\ w[o].size = m[o].size /\ Next(w, o) = Next(m, o)
             /\ o # e => w[o] = m[o]
             /\ Next(m, o) \in Nat /\ Next(m, o) > o
             /\ o < a => o # End /\ Next(m, o) \in S /\ Next(m, o) <= a
             /\ o >= e /\ o # End => Next(m, o) \in S /\ Next(m, o) >= e + H
  <2>1. /\ o \in S /\ o \in Nat /\ o \in Unit /\ o <= End /\ m[o] \in Headers
        /\ Next(m, o) \in Nat /\ Next(m, o) >= o + H
        /\ o # End => Next(m, o) \in S
    BY BlockLies
  <2>2. o = e \/ w[o] = m[o]
    <3>1. CASE o < a
      BY <1>0, <2>1, <3>1
    <3>2. CASE o >= e /\ o # e
      <4>1. o >= Next(m, e)
        BY <1>1, <2>1, <3>2 DEF Tiles
      <4>2. o >= e + H
        BY <1>1, <2>1, <4>1, Sizes
      <4> QED BY <1>0, <2>1, <4>2
    <3> QED BY <3>1, <3>2
  <2>3. /\ w[o] \in Headers /\ w[o].busy = m[o].busy /\ w[o].size = m[o].size
    BY <1>0, <2>1, <2>2
  <2>4. o < a => o # End /\ Next(m, o) \in S /\ Next(m, o) <= a
    <3> SUFFICES ASSUME o < a PROVE o # End /\ Next(m, o) <= a
      BY <2>1
    <3>1. a >= Next(m, o)
      BY <2>1 DEF Tiles
    <3> QED BY <1>1, <2>1, <3>1
  <2>5. o >= e => Next(m, o) >= e + H
    BY <1>1, <2>1, Sizes
  <2>6. Next(m, o) > o
    BY <2>1, Sizes
  <2> QED BY <2>1, <2>2, <2>3, <2>4, <2>5, <2>6 DEF Next
<1>3. ASSUME NEW o \in D
      PROVE  /\ o \in Nat /\ o >= a /\ o < e /\ o \in Unit /\ o # End
             /\ Next(w, o) \in D \cup {e} /\ Next(w, o) \in Nat /\ Next(w, o) <= e
             /\ Next(w, o) \in S2
  <2>1. o \in Nat /\ o >= a /\ o < e /\ Next(w, o) \in D \cup {e}
    BY <1>0
  <2>2. Next(w, o) \in Nat /\ Next(w, o) <= e
    <3>1. PICK x : x = Next(w, o)
      OBVIOUS
    <3>2. x = e \/ (x \in Nat /\ x < e)
      BY <1>0, <2>1, <3>1
    <3> QED BY <1>1, <3>1, <3>2
  <2>3. e \in S2
    BY <1>0, <1>1
  <2>4. Next(w, o) \in S2
    BY <1>0, <2>1, <2>3
  <2> QED BY <1>1, <2>1, <2>2, <2>4, Sizes
<1>4. S2 = O \cup D
  BY <1>0
<1>5. 0 \in O /\ End \in O /\ w[0] = m[0] /\ (End = e \/ w[End] = m[End])
  <2>1. 0 \in O
    BY <1>1 DEF Tiles
  <2>2. End \in O
    BY <1>1 DEF Tiles
  <2> QED BY <1>1, <1>2, <2>1, <2>2
<1> HIDE DEF O
<1>6. S2 \subseteq Unit /\ 0 \in S2 /\ End \in S2 /\ \A o \in S2 : w[o] \in Headers
  BY <1>0, <1>2, <1>3, <1>4, <1>5
<1>7. w[0].busy /\ w[0].size = 0 /\ w[End].busy /\ w[End].size = 0
  BY <1>2, <1>5 DEF Tiles
<1>8. \A o \in S2 : o # End => Next(w, o) \in S2
  <2> SUFFICES ASSUME NEW o \in O, o # End PROVE Next(m, o) \in S2
    BY <1>2, <1>3, <1>4
  <2>1. CASE o < a
    <3>1. Next(m, o) \in S /\ Next(m, o) \in Nat /\ (Next(m, o) = a \/ Next(m, o) < a)
      BY <1>1, <1>2, <2>1
    <3> QED BY <1>4, <3>1 DEF O
  <2>2. CASE o >= e
    <3>1. Next(m, o) \in S /\ Next(m, o) \in Nat /\ Next(m, o) >= e
      BY <1>1, <1>2, <2>2, Sizes
    <3> QED BY <1>4, <3>1 DEF O
  <2> QED BY <2>1, <2>2 DEF O
<1>9. \A o, p \in S2 : p > o => p >= Next(w, o)
  <2> SUFFICES ASSUME NEW o \in S2, NEW p \in S2, p > o PROVE p >= Next(w, o)
    OBVIOUS
  <2>1. CASE o \in O /\ p \in O
    <3>1. o \in S /\ p \in S /\ Next(w, o) = Next(m, o)
      BY <1>2, <2>1
    <3> QED BY <3>1 DEF Tiles
  <2>2. CASE o \in O /\ p \in D
    <3>1. o < a
      BY <1>1, <1>2, <1>3, <2>2 DEF O
    <3> QED BY <1>1, <1>2, <1>3, <2>2, <3>1
  <2>3. CASE o \in D /\ p \in O
    <3>1. p >= e
      BY <1>1, <1>2, <1>3, <2>3 DEF O
    <3>2. p \in Nat /\ Next(w, o) \in Nat /\ Next(w, o) <= e
      BY <1>2, <1>3, <2>3
    <3> QED BY <1>1, <3>1, <3>2
  <2>4. CASE o \in D /\ p \in D
    BY <1>0, <2>4
  <2> QED BY <1>4, <2>1, <2>2, <2>3, <2>4
<1>10. ASSUME NEW o \in O, o # End
       PROVE  /\ Next(m, o) # End => w[Next(m, o)].prev = w[o].size
              /\ w[o].busy \/ w[Next(m, o)].busy
  <2>0. /\ Next(m, o) # End => m[Next(m, o)].prev = m[o].size
        /\ m[o].busy \/ m[Next(m, o)].busy
    BY <1>2, <1>10 DEF Tiles
  <2>1. CASE o < a /\ Next(m, o) = a
    BY <1>0, <1>2, <2>0, <2>1
  <2>2. CASE o < a /\ Next(m, o) # a
    <3>1. Next(m, o) \in Unit /\ Next(m, o) < a
      BY <1>1, <1>2, <2>2, Sizes
    <3> QED BY <1>0, <1>2, <2>0, <3>1
  <2>3. CASE o >= e
    <3>1. Next(m, o) \in Unit /\ Next(m, o) >= e + H
      BY <1>2, <1>10, <2>3 DEF Tiles
    <3> QED BY <1>0, <1>2, <2>0, <3>1
  <2> QED BY <2>1, <2>2, <2>3 DEF O
<1>11. \A o \in S2 : o # End => /\ Next(w, o) # End => w[Next(w, o)].prev = w[o].size
                                /\ w[o].busy \/ w[Next(w, o)].busy
  BY <1>0, <1>2, <1>4, <1>10
<1>12. Tiles(w, S2)
  BY <1>6, <1>7, <1>8, <1>9, <1>11 DEF Tiles
<1>13. \A o \in Outside(S, a, e) : Same(m, w, o)
  BY <1>2 DEF O, Outside, Same
<1> QED BY <1>12, <1>13 DEF S2

(* From a up to e one block.                                               *)
LEMMA CutOne ==
  ASSUME NEW m \in Mem, NEW w \in Mem, NEW S, Tiles(m, S), NEW a \in S, a # 0,
         NEW e \in S, a < e, NEW b \in BOOLEAN, NEW S2, S2 = Outside(S, a, e) \cup {a},
         w[a] = Head(b, e - a - H, m[a].prev), w[e] = [m[e] EXCEPT !.prev = e - a - H],
         b \/ m[e].busy, \A q \in S : Next(m, q) = a => b \/ m[q].busy, Off(m, w, a, e)
  PROVE  /\ Tiles(w, S2) /\ S2 \in SUBSET Unit
         /\ \A o \in Outside(S, a, e) : Same(m, w, o)
         /\ Busy(w, S2) = Outside(Busy(m, S), a, e) \cup (IF b THEN {a} ELSE {})
<1> DEFINE size == e - a - H
<1>1. /\ a \in Nat /\ e \in Nat /\ m[e] \in Headers /\ m[a].prev \in Unit /\ e <= End
      /\ e >= Next(m, a) /\ Next(m, a) >= a + H /\ Next(m, a) \in Nat
  BY BlockLies DEF Tiles
<1>2. size \in Unit /\ size \in Nat /\ a + H + size = e
  BY <1>1, Sizes
<1> HIDE DEF size
<1>3. /\ w[a] \in Headers /\ w[a].busy = b /\ w[a].size = size /\ w[a].prev = m[a].prev
  BY <1>1, <1>2, HeadIs DEF size
<1>4. /\ w[e] \in Headers /\ w[e].busy = m[e].busy /\ w[e].size = m[e].size
      /\ w[e].prev = size
  <2>1. w[e] = [m[e] EXCEPT !.prev = size]
    BY DEF size
  <2> QED BY <1>1, <1>2, <2>1 DEF Headers
<1>5. Next(w, a) = e
  BY <1>2, <1>3 DEF Next
<1>6. Recut(m, w, S, a, e, {a})
  <2>1. /\ \A o \in {a} : o \in Nat /\ o >= a /\ o < e
        /\ \A o, p \in {a} : p > o => p >= Next(w, o)
    BY <1>1
  <2>2. /\ \A o \in {a} : w[o] \in Headers /\ Next(w, o) \in {a} \cup {e}
        /\ \A o \in {a} : Next(w, o) # End => w[Next(w, o)].prev = w[o].size
        /\ \A o \in {a} : w[o].busy \/ w[Next(w, o)].busy
    BY <1>3, <1>4, <1>5
  <2> QED BY <1>3, <1>4, <2>1, <2>2 DEF Recut, Same
<1>7. Tiles(w, S2) /\ \A o \in Outside(S, a, e) : Same(m, w, o)
  BY <1>6, Cut
<1>8. Busy(w, S2) = Outside(Busy(m, S), a, e) \cup (IF b THEN {a} ELSE {})
  BY <1>3, <1>7 DEF Busy, Outside, Same
<1> QED BY <1>7, <1>8 DEF Tiles

(* From a up to e two blocks, the second at c.                             *)
LEMMA CutTwo ==
  ASSUME NEW m \in Mem, NEW w \in Mem, NEW S, Tiles(m, S), NEW a \in S, a # 0,
         NEW e \in S, NEW c, c \in Nat, a + H <= c, c + H <= e,
         NEW b \in BOOLEAN, NEW d \in BOOLEAN, NEW S2, S2 = Outside(S, a, e) \cup {a, c},
         NEW size, size = c - a - H, NEW rest, rest = e - c - H,
         w[a] = Head(b, size, m[a].prev), w[c] = Head(d, rest, size),
         w[e] = [m[e] EXCEPT !.prev = rest],
         b \/ d, d \/ m[e].busy, \A q \in S : Next(m, q) = a => b \/ m[q].busy,
         Off(m, w, a, e)
  PROVE  /\ Tiles(w, S2) /\ S2 \in SUBSET Unit
         /\ \A o \in Outside(S, a, e) : Same(m, w, o)
         /\ Busy(w, S2) = Outside(Busy(m, S), a, e) \cup (IF b THEN {a} ELSE {})
                                                    \cup (IF d THEN {c} ELSE {})
<1>1. /\ a \in Nat /\ e \in Nat /\ m[e] \in Headers /\ m[a].prev \in Unit /\ e <= End
  BY BlockLies
<1>2. /\ size \in Unit /\ size \in Nat /\ a + H + size = c
      /\ rest \in Unit /\ rest \in Nat /\ c + H + rest = e /\ a < c /\ c < e /\ a < e
  BY <1>1, Sizes
<1>3. /\ w[a] \in Headers /\ w[a].busy = b /\ w[a].size = size /\ w[a].prev = m[a].prev
      /\ w[c] \in Headers /\ w[c].busy = d /\ w[c].size = rest /\ w[c].prev = size
  BY <1>1, <1>2, HeadIs
<1>4. /\ w[e] \in Headers /\ w[e].busy = m[e].busy /\ w[e].size = m[e].size
      /\ w[e].prev = rest
  BY <1>1, <1>2 DEF Headers
<1>5. Next(w, a) = c /\ Next(w, c) = e
  BY <1>2, <1>3 DEF Next
<1>6. Recut(m, w, S, a, e, {a, c})
  <2>1. /\ \A o \in {a, c} : o \in Nat /\ o >= a /\ o < e
        /\ \A o, p \in {a, c} : p > o => p >= Next(w, o)
    BY <1>1, <1>2, <1>5
  <2>2. /\ \A o \in {a, c} : w[o] \in Headers /\ Next(w, o) \in {a, c} \cup {e}
        /\ \A o \in {a, c} : Next(w, o) # End => w[Next(w, o)].prev = w[o].size
    BY <1>3, <1>4, <1>5
  <2>3. \A o \in {a, c} : w[o].busy \/ w[Next(w, o)].busy
    BY <1>3, <1>4, <1>5
  <2> QED BY <1>3, <1>4, <2>1, <2>2, <2>3 DEF Recut, Same
<1>8. Tiles(w, S2) /\ \A o \in Outside(S, a, e) : Same(m, w, o)
  <2>1. PICK D : D = {a, c}
    OBVIOUS
  <2>2. a \in D /\ Recut(m, w, S, a, e, D) /\ a < e
    BY <1>2, <1>6, <2>1
  <2>3. Tiles(w, Outside(S, a, e) \cup D) /\ \A o \in Outside(S, a, e) : Same(m, w, o)
    BY <2>2, Cut
  <2> QED BY <2>1, <2>3
<1>10. Busy(w, S2) = Outside(Busy(m, S), a, e) \cup (IF b THEN {a} ELSE {})
                                               \cup (IF d THEN {c} ELSE {})
  BY <1>3, <1>8 DEF Busy, Outside, Same
<1> QED BY <1>8, <1>10 DEF Tiles

-----------------------------------------------------------------------------
(* Payloads. A unit of a payload is of no header and of no other payload.  *)
LEMMA InBlock ==
  ASSUME NEW m, NEW S, Tiles(m, S), NEW r \in S, NEW k \in Nat, k < m[r].size
  PROVE  /\ r + H + k \in Unit
         /\ \A q \in S : q # r =>
              \/ r + H + k < q
              \/ r + H + k >= Next(m, q) /\ r + H + k >= q + H /\ r >= Next(m, q)
<1>1. /\ r \in Nat /\ m[r].size \in Nat /\ Next(m, r) = r + H + m[r].size
      /\ Next(m, r) \in Nat /\ r # End /\ Next(m, r) <= End
  <2>1. r # End
    BY Sizes DEF Tiles
  <2> QED BY <2>1, BlockLies
<1>2. r + H + k \in Nat /\ r + H + k < Next(m, r) /\ r + H + k \in Unit
  BY <1>1, Sizes
<1>3. ASSUME NEW q \in S, q > r PROVE r + H + k < q
  <2>1. q >= Next(m, r) /\ q \in Nat
    BY <1>3, BlockLies DEF Tiles
  <2> QED BY <1>1, <1>2, <2>1
<1>4. ASSUME NEW q \in S, q < r
      PROVE  r + H + k >= Next(m, q) /\ r + H + k >= q + H /\ r >= Next(m, q)
  <2>1. r >= Next(m, q) /\ q \in Nat /\ Next(m, q) \in Nat /\ Next(m, q) >= q + H
    BY <1>4, BlockLies DEF Tiles
  <2> QED BY <1>1, <1>2, <2>1, Sizes
<1>5. ASSUME NEW q \in S, q # r PROVE q < r \/ q > r
  BY <1>1, <1>5, BlockLies
<1> QED BY <1>2, <1>3, <1>4, <1>5

(* Writing from a to e leaves the payloads of the blocks elsewhere alone.  *)
LEMMA PayloadApart ==
  ASSUME NEW m, NEW S, Tiles(m, S), NEW a \in S, NEW e \in S, a < e,
         NEW q \in Outside(S, a, e), NEW k \in Nat, k < m[q].size,
         NEW w, Off(m, w, a, e)
  PROVE  q + H + k \in Unit /\ w[q + H + k] = m[q + H + k]
<1>1. q \in S /\ q \in Nat /\ a \in Nat /\ e \in Nat /\ q + H + k \in Nat
  <2>1. q \in S
    BY DEF Outside
  <2> QED BY <2>1, BlockLies, Sizes
<1>2. q + H + k \in Unit /\ (q < a => q + H + k < a)
  <2>1. q < a => q # a
    BY <1>1
  <2>2. q < a => ~ (a + H <= q + H + k /\ q >= Next(m, a))
    <3>1. Next(m, a) \in Nat /\ Next(m, a) >= a + H
      BY BlockLies
    <3> QED BY <1>1, <3>1, Sizes
  <2> QED BY <1>1, <2>1, <2>2, InBlock
<1>3. q >= e => q + H + k >= e + H
  BY <1>1, Sizes
<1> QED BY <1>1, <1>2, <1>3 DEF Off, Outside

(* What tiles the memory and who owns the blocks lies in the headers.      *)
LEMMA SameHeaders ==
  ASSUME NEW m, NEW w, NEW S, \A o \in S : w[o] = m[o], Tiles(m, S)
  PROVE  Tiles(w, S) /\ Busy(w, S) = Busy(m, S) /\ \A L : Owns(m, S, L) => Owns(w, S, L)
<1>1. \A o \in S : Next(w, o) = Next(m, o)
  BY DEF Next
<1>2. \A o \in S : o # End => Next(m, o) \in S
  BY DEF Tiles
<1>3. Tiles(w, S)
  BY <1>1, <1>2 DEF Tiles
<1>4. Busy(w, S) = Busy(m, S)
  BY DEF Busy
<1>5. ASSUME NEW L, Owns(m, S, L) PROVE Owns(w, S, L)
  <2>1. \A o \in Busy(m, S) : w[o] = m[o]
    BY DEF Busy
  <2> QED BY <1>4, <1>5, <2>1 DEF Owns
<1> QED BY <1>3, <1>4, <1>5

(* Writing to the payload of one block leaves the headers alone, and the   *)
(* payloads of all others.                                                 *)
LEMMA WritesInside ==
  ASSUME NEW m, NEW S, Tiles(m, S), NEW r \in S, r # End, NEW w \in Mem,
         \A u \in Unit : u < r + H \/ u >= Next(m, r) => w[u] = m[u]
  PROVE  /\ Tiles(w, S) /\ \A o \in S : w[o] = m[o]
         /\ \A q \in S : \A k \in Nat : q # r /\ k < m[q].size =>
              q + H + k \in Unit /\ w[q + H + k] = m[q + H + k]
<1>1. r \in Nat /\ Next(m, r) \in Nat /\ Next(m, r) >= r + H
  BY BlockLies
<1>2. ASSUME NEW o \in S PROVE w[o] = m[o]
  <2>1. o \in Nat /\ o \in Unit
    BY BlockLies
  <2>2. o > r => o >= Next(m, r)
    BY DEF Tiles
  <2> QED BY <1>1, <2>1, <2>2, Sizes
<1>3. Tiles(w, S)
  BY <1>2, SameHeaders
<1>4. ASSUME NEW q \in S, NEW k \in Nat, q # r, k < m[q].size
      PROVE  q + H + k \in Unit /\ w[q + H + k] = m[q + H + k]
  <2>1. /\ q + H + k \in Unit /\ q \in Nat /\ q + H + k \in Nat
        /\ q + H + k < r \/ q + H + k >= Next(m, r)
    BY <1>4, InBlock, BlockLies, Sizes
  <2> QED BY <1>1, <2>1, Sizes
<1> QED BY <1>2, <1>3, <1>4

-----------------------------------------------------------------------------
(* Owners.                                                                 *)
Own(L, i) == IF L[i] = None THEN {} ELSE {L[i].addr - H}

(* When only i gets another block, the other owners' headers stay.         *)
LEMMA HeadsBut ==
  ASSUME NEW m, NEW S, NEW L, Owns(m, S, L), NEW i \in Ids, NEW L2,
         \A j \in Ids : j # i => L2[j] = L[j]
  PROVE  Heads(L2) = (Heads(L) \ Own(L, i)) \cup Own(L2, i)
<1>1. \A j \in Full(L) : L[j].addr \in Nat
  BY DEF Owns
<1>2. ASSUME NEW j \in Full(L), L[j].addr - H \in Own(L, i) PROVE j = i
  <2>1. i \in Full(L) /\ L[j].addr - H = L[i].addr - H
    BY <1>2 DEF Own, Full
  <2>2. L[j].addr = L[i].addr
    BY <1>1, <2>1, Sizes
  <2> QED BY <2>1, <2>2 DEF Owns
<1>3. ASSUME NEW h PROVE h \in Heads(L2) <=> h \in (Heads(L) \ Own(L, i)) \cup Own(L2, i)
  <2>1. ASSUME NEW j \in Full(L2), h = L2[j].addr - H
        PROVE  h \in (Heads(L) \ Own(L, i)) \cup Own(L2, i)
    <3>1. CASE j = i
      BY <2>1, <3>1 DEF Full, Own
    <3>2. CASE j # i
      <4>1. j \in Full(L) /\ h = L[j].addr - H
        BY <2>1, <3>2 DEF Full
      <4> QED BY <1>2, <3>2, <4>1 DEF Heads
    <3> QED BY <3>1, <3>2
  <2>2. ASSUME NEW j \in Full(L), h = L[j].addr - H, h \notin Own(L, i)
        PROVE  h \in Heads(L2)
    <3>1. j # i
      BY <2>2 DEF Own, Full
    <3> QED BY <2>2, <3>1 DEF Full, Heads
  <2>3. h \in Own(L2, i) => h \in Heads(L2)
    BY DEF Own, Heads, Full
  <2> QED BY <2>1, <2>2, <2>3 DEF Heads
<1> QED BY <1>3

(* A payload that lies elsewhere is what it was.                           *)
LEMMA KeptOutside ==
  ASSUME NEW m, NEW S, Tiles(m, S), NEW L, Owns(m, S, L), NEW w,
         NEW a \in S, NEW e \in S, a < e, Off(m, w, a, e),
         NEW j \in Full(L), L[j].addr - H \in Outside(S, a, e), Keeps(m, L, j)
  PROVE  Keeps(w, L, j)
<1>1. PICK q \in Outside(S, a, e) : q = L[j].addr - H
  OBVIOUS
<1>2. /\ L[j].addr \in Nat /\ q \in Nat /\ L[j].size \in Nat /\ L[j].size <= m[q].size
      /\ m[q].size \in Nat
  <2>1. q \in S
    BY DEF Outside
  <2> QED BY <1>1, <2>1, BlockLies, Sizes DEF Owns
<1>3. ASSUME NEW k \in Nat, k < L[j].size PROVE w[L[j].addr + k] = Data(j, k)
  <2>1. k < m[q].size /\ q + H + k = L[j].addr + k
    BY <1>1, <1>2, <1>3, Sizes
  <2>2. w[q + H + k] = m[q + H + k]
    BY <2>1, PayloadApart
  <2> QED BY <1>3, <2>1, <2>2 DEF Keeps
<1> QED BY <1>3 DEF Keeps

(* Blocks are cut anew from a up to e, all but those of the owner i lie    *)
(* elsewhere, and what i has then, if anything, is one of the new ones.    *)
LEMMA Settle ==
  ASSUME NEW m, NEW S, Tiles(m, S), NEW L, Owns(m, S, L), NEW w, NEW S2,
         NEW a \in S, a # 0, NEW e \in S, a < e,
         \A o \in Outside(S, a, e) : Same(m, w, o),
         Outside(Busy(m, S), a, e) \subseteq Busy(w, S2),
         NEW i \in Ids, NEW L2, \A j \in Ids : j # i => L2[j] = L[j],
         \A j \in Full(L) : j # i => L[j].addr - H \in Outside(S, a, e),
         \/ L2[i] = None
         \/ L2[i] = L[i] /\ L[i].addr - H \in Outside(S, a, e)
         \/ /\ L2[i].addr \in Nat /\ L2[i].addr - H \in Busy(w, S2)
            /\ L2[i].addr - H >= a /\ L2[i].addr - H < e
            /\ L2[i].size \in Requests /\ L2[i].size <= w[L2[i].addr - H].size
  PROVE  Owns(w, S2, L2)
<1>1. a \in Nat /\ e \in Nat /\ e <= End /\ a > 0 /\ End \in Nat
  <2>1. a \in Nat /\ e \in Nat /\ e <= End
    BY BlockLies
  <2> QED BY <2>1, Sizes
<1>2. ASSUME NEW j \in Full(L), L[j].addr - H \in Outside(S, a, e)
      PROVE  /\ L[j].addr \in Nat /\ L[j].addr - H \in Busy(w, S2) \ {0, End}
             /\ L[j].size \in Requests /\ L[j].size <= w[L[j].addr - H].size
             /\ ~ (L[j].addr - H >= a /\ L[j].addr - H < e)
  <2>1. /\ L[j].addr \in Nat /\ L[j].addr - H \in Busy(m, S) \ {0, End}
        /\ L[j].size \in Requests /\ L[j].size <= m[L[j].addr - H].size
    BY DEF Owns
  <2>2. L[j].addr - H \in Outside(Busy(m, S), a, e)
    BY <1>2, <2>1 DEF Outside
  <2>3. w[L[j].addr - H].size = m[L[j].addr - H].size
    BY <1>2 DEF Same
  <2> QED BY <1>1, <1>2, <2>1, <2>2, <2>3, Sizes DEF Outside
<1>3. ASSUME NEW j \in Full(L2)
      PROVE  \/ L2[j] = L[j] /\ j \in Full(L) /\ L[j].addr - H \in Outside(S, a, e)
             \/ /\ j = i /\ L2[i].addr \in Nat /\ L2[i].addr - H \in Busy(w, S2) \ {0, End}
                /\ L2[i].addr - H >= a /\ L2[i].addr - H < e
                /\ L2[i].size \in Requests /\ L2[i].size <= w[L2[i].addr - H].size
  <2>1. CASE j # i
    BY <2>1 DEF Full
  <2>2. CASE j = i
    <3>1. L2[i] # None
      BY <2>2 DEF Full
    <3>2. L2[i] = L[i] => i \in Full(L)
      BY <3>1 DEF Full
    <3> QED BY <1>1, <2>2, <3>1, <3>2, Sizes
  <2> QED BY <2>1, <2>2
<1>4. ASSUME NEW j \in Full(L2)
      PROVE  /\ L2[j].addr \in Nat /\ L2[j].addr - H \in Busy(w, S2) \ {0, End}
             /\ L2[j].size \in Requests /\ L2[j].size <= w[L2[j].addr - H].size
  BY <1>2, <1>3
<1>5. ASSUME NEW j \in Full(L2), NEW l \in Full(L2), L2[j].addr = L2[l].addr PROVE j = l
  <2>1. CASE L2[j] = L[j] /\ j \in Full(L) /\ L2[l] = L[l] /\ l \in Full(L)
    BY <1>5, <2>1 DEF Owns
  <2>2. CASE j = i /\ l = i
    BY <2>2
  <2> QED BY <1>2, <1>3, <1>5, <2>1, <2>2
<1> QED BY <1>4, <1>5 DEF Owns

-----------------------------------------------------------------------------
(* The end of a call.                                                      *)
LEMMA DoneInv ==
  ASSUME NEW m, NEW S, NEW L, Sound(m, S, L), Done(m, L)
  PROVE  IInv'
<1> DEFINE free  == UNION {o + H .. Next(m, o) - 1 : o \in {b \in Walk(m) : IsFree(m, b)}}
           owned == UNION {L[i].addr .. L[i].addr + L[i].size - 1 : i \in Ids}
           w     == [u \in Unit |-> IF u \in free \ owned THEN Fresh ELSE m[u]]
<1>1. mem' = w /\ live' = L
  BY DEF Done, Blurred
<1>2. m \in Mem /\ Tiles(m, S) /\ Walk(m) = S
  BY WalkIs DEF Sound
<1>3. ASSUME NEW o \in S PROVE o \notin free
  <2> SUFFICES ASSUME NEW q \in S, o \in q + H .. Next(m, q) - 1 PROVE FALSE
    BY <1>2
  <2>1. /\ o \in Nat /\ q \in Nat /\ Next(m, q) \in Nat
        /\ o > q => o >= Next(m, q)
    BY <1>2, BlockLies DEF Tiles
  <2> QED BY <2>1, Sizes
<1>4. w \in Mem
  BY <1>2 DEF Mem
<1>5. \A o \in S : w[o] = m[o]
  <2> HIDE DEF free, owned
  <2> QED BY <1>2, <1>3 DEF Tiles
<1>6. ASSUME NEW i \in Full(L) PROVE Keeps(w, L, i)
  <2> SUFFICES ASSUME NEW k \in Nat, k < L[i].size PROVE w[L[i].addr + k] = Data(i, k)
    BY DEF Keeps
  <2>1. PICK q \in S : q = L[i].addr - H
    BY DEF Sound, Owns, Busy
  <2>2. L[i].addr \in Nat /\ L[i].size \in Nat /\ L[i].size <= m[q].size /\ m[q].size \in Nat
        /\ q \in Nat
    BY <1>2, <2>1, BlockLies, Sizes DEF Sound, Owns
  <2>3. k < m[q].size /\ q + H + k = L[i].addr + k
    BY <2>1, <2>2, Sizes
  <2>4. L[i].addr + k \in Unit
    BY <1>2, <2>3, InBlock
  <2>5. L[i].addr + k \in owned
    <3>1. L[i].addr + k \in L[i].addr .. L[i].addr + L[i].size - 1
      BY <2>2
    <3> QED BY <3>1 DEF Full
  <2>6. m[L[i].addr + k] = Data(i, k)
    BY DEF Sound, Keeps
  <2> HIDE DEF free, owned
  <2> QED BY <2>4, <2>5, <2>6
<1> HIDE DEF w
<1>7. Tiles(w, S) /\ Owns(w, S, L) /\ Busy(w, S) = Busy(m, S)
  BY <1>2, <1>5, SameHeaders DEF Sound
<1>8. Sound(w, S, L)
  BY <1>4, <1>6, <1>7 DEF Sound
<1>9. Sound(w, S, L) <=> Sound(mem, S, live)'
  BY <1>1 DEF Sound, Tiles, Owns, Busy, Keeps, Heads, Full, Next
<1>10. S \in SUBSET Unit
  BY <1>2 DEF Tiles
<1> QED BY <1>8, <1>9, <1>10 DEF IInv

(* An owner writes into its own block.                                     *)
LEMMA WriteOwn ==
  ASSUME NEW m, NEW S, Tiles(m, S), NEW L, Owns(m, S, L), NEW i \in Full(L), NEW w \in Mem,
         \A u \in Unit : u < L[i].addr \/ u >= L[i].addr + L[i].size => w[u] = m[u]
  PROVE  /\ Tiles(w, S) /\ Owns(w, S, L) /\ Busy(w, S) = Busy(m, S)
         /\ \A j \in Full(L) : j # i /\ Keeps(m, L, j) => Keeps(w, L, j)
<1> DEFINE a == L[i].addr
           size == L[i].size
<1>1. PICK r \in S : r = a - H /\ r # End /\ m[r].size \in Nat /\ size <= m[r].size /\ r \in Nat
                     /\ a \in Nat /\ size \in Nat
  <2>1. a - H \in S /\ a - H # End /\ size <= m[a - H].size /\ a \in Nat /\ size \in Nat
    BY Sizes DEF Owns, Busy
  <2> QED BY <2>1, BlockLies
<1>2. a = r + H /\ Next(m, r) = a + m[r].size /\ Next(m, r) \in Nat /\ Next(m, r) <= End
  BY <1>1, BlockLies, Sizes
<1>3. \A u \in Unit : u < r + H \/ u >= Next(m, r) => w[u] = m[u]
  BY <1>1, <1>2, Sizes
<1>4. /\ Tiles(w, S) /\ \A o \in S : w[o] = m[o]
      /\ \A q \in S : \A k \in Nat : q # r /\ k < m[q].size =>
           q + H + k \in Unit /\ w[q + H + k] = m[q + H + k]
  BY <1>1, <1>3, WritesInside
<1>5. Owns(w, S, L) /\ Busy(w, S) = Busy(m, S)
  <2>1. \A o \in S : w[o] = m[o]
    BY <1>4
  <2>2. Tiles(w, S) /\ Busy(w, S) = Busy(m, S) /\ \A K : Owns(m, S, K) => Owns(w, S, K)
    BY <2>1, SameHeaders
  <2> QED BY <2>2
<1>6. ASSUME NEW j \in Full(L), j # i, Keeps(m, L, j) PROVE Keeps(w, L, j)
  <2>1. PICK q \in S : /\ q = L[j].addr - H /\ q \in Nat /\ L[j].addr \in Nat
                       /\ L[j].size \in Nat /\ L[j].size <= m[q].size /\ m[q].size \in Nat
    <3>1. L[j].addr - H \in S
      BY DEF Owns, Busy
    <3> QED BY <3>1, BlockLies, Sizes DEF Owns
  <2>2. q # r
    <3>1. L[j].addr # L[i].addr
      BY <1>6 DEF Owns
    <3> QED BY <1>1, <1>2, <2>1, <3>1, Sizes
  <2>3. ASSUME NEW k \in Nat, k < L[j].size PROVE w[L[j].addr + k] = Data(j, k)
    <3>1. k < m[q].size /\ q + H + k = L[j].addr + k
      BY <2>1, <2>3, Sizes
    <3>2. w[q + H + k] = m[q + H + k]
      BY <1>4, <2>2, <3>1
    <3> QED BY <1>6, <2>3, <3>1, <3>2 DEF Keeps
  <2> QED BY <2>3 DEF Keeps
<1> QED BY <1>4, <1>5, <1>6

(* Every unit of a block that has an owner lies in memory.                 *)
LEMMA OwnUnits ==
  ASSUME NEW m, NEW S, Tiles(m, S), NEW L, Owns(m, S, L), NEW i \in Full(L)
  PROVE  /\ L[i].addr \in Nat /\ L[i].size \in Nat /\ L[i].size > 0 /\ L[i].addr + L[i].size < Amount
         /\ \A k \in Nat : k < L[i].size => L[i].addr + k \in Unit /\ k \in Unit
<1>1. PICK r \in S : r = L[i].addr - H /\ L[i].size <= m[r].size /\ r # End
                     /\ L[i].addr \in Nat /\ L[i].size \in Nat /\ L[i].size > 0
  BY Sizes DEF Owns, Busy
<1>2. /\ r \in Nat /\ m[r].size \in Nat /\ Next(m, r) = r + H + m[r].size /\ Next(m, r) <= End
  BY <1>1, BlockLies
<1> QED BY <1>1, <1>2, Sizes

(* The owner of place i writes the units from `from` on.                   *)
LEMMA FilledInv ==
  ASSUME NEW m \in Mem, NEW S, Tiles(m, S), NEW i \in Ids, NEW a \in Nat,
         NEW size \in Requests, NEW from \in Nat, NEW L, L \in [Ids -> [addr : Unit, size : Unit]],
         NEW L2, L2 = [L EXCEPT ![i] = [addr |-> a, size |-> size]],
         Owns(m, S, L2), Busy(m, S) = {0, End} \cup Heads(L2),
         \A j \in Full(L) : j # i => Keeps(m, L, j),
         \A k \in Nat : k < from /\ k < size => m[a + k] = Data(i, k),
         Done(Fill(m, i, a, from, size), L2)
  PROVE  IInv'
<1> DEFINE w == Fill(m, i, a, from, size)
<1>1. /\ size \in Nat /\ size > 0 /\ L2[i] = [addr |-> a, size |-> size] /\ i \in Full(L2)
      /\ \A j \in Ids : j # i => L2[j] = L[j]
  BY Sizes DEF Full, None
<1>2. a \in Unit /\ size \in Unit /\ \A k \in Nat : k < size => a + k \in Unit /\ k \in Unit
  <2>1. Tiles(m, S) /\ Owns(m, S, L2) /\ i \in Full(L2)
    BY <1>1
  <2>2. /\ L2[i].addr \in Nat /\ L2[i].size \in Nat /\ L2[i].addr + L2[i].size < Amount
        /\ \A k \in Nat : k < L2[i].size => L2[i].addr + k \in Unit /\ k \in Unit
    BY ONLY <2>1, OwnUnits
  <2>3. L2[i].addr = a /\ L2[i].size = size
    BY <1>1
  <2> QED BY <2>2, <2>3, Sizes
<1>5. ASSUME NEW u \in Unit
      PROVE  /\ u >= a + from /\ u < a + size => w[u] = Data(i, u - a)
             /\ ~ (u >= a + from /\ u < a + size) => w[u] = m[u]
             /\ w[u] \in Headers \cup [owner : Ids, unit : Unit] \cup {Tail, Fresh}
  <2>1. u \in a + from .. a + size - 1 <=> u >= a + from /\ u < a + size
    BY <1>1, Sizes
  <2>2. u >= a + from /\ u < a + size => Data(i, u - a) \in [owner : Ids, unit : Unit]
    <3> SUFFICES ASSUME u >= a + from, u < a + size PROVE u - a \in Unit
      BY DEF Data
    <3>1. u - a \in Nat /\ u - a < size
      BY <1>1, Sizes
    <3> QED BY <1>2, <3>1
  <2>3. m[u] \in Headers \cup [owner : Ids, unit : Unit] \cup {Tail, Fresh}
    BY DEF Mem
  <2> QED BY <2>1, <2>2, <2>3 DEF Fill
<1>6. w \in Mem
  <2>1. w = [u \in Unit |-> w[u]]
    BY DEF Fill
  <2> HIDE DEF w
  <2> QED BY <1>5, <2>1 DEF Mem
<1> HIDE DEF w
<1>7. \A u \in Unit : u < L2[i].addr \/ u >= L2[i].addr + L2[i].size => w[u] = m[u]
  BY <1>1, <1>5, Sizes
<1>8. /\ Tiles(w, S) /\ Owns(w, S, L2) /\ Busy(w, S) = Busy(m, S)
      /\ \A j \in Full(L2) : j # i /\ Keeps(m, L2, j) => Keeps(w, L2, j)
  <2>1. Tiles(m, S) /\ Owns(m, S, L2) /\ i \in Full(L2)
    BY <1>1
  <2> QED BY ONLY <1>6, <1>7, <2>1, WriteOwn
<1>10. Keeps(w, L2, i)
  <2> SUFFICES ASSUME NEW k \in Nat, k < size PROVE w[a + k] = Data(i, k)
    BY <1>1 DEF Keeps
  <2>1. a + k \in Unit /\ a + k - a = k
    BY <1>2
  <2>2. CASE k < from
    <3>1. w[a + k] = m[a + k]
      BY <1>5, <2>1, <2>2
    <3> QED BY <2>2, <3>1
  <2>3. CASE k >= from
    BY <1>1, <1>5, <2>1, <2>3
  <2> QED BY <2>2, <2>3
<1>11. ASSUME NEW j \in Full(L2), j # i PROVE Keeps(w, L2, j)
  <2>1. L2[j] = L[j] /\ j \in Full(L)
    BY <1>1, <1>11 DEF Full
  <2>2. Keeps(m, L2, j)
    BY <1>11, <2>1 DEF Keeps
  <2> QED BY <1>8, <1>11, <2>2
<1>12. L2 \in [Ids -> [addr : Unit, size : Unit]]
  BY <1>2
<1>13. Sound(w, S, L2)
  BY <1>6, <1>8, <1>10, <1>11, <1>12 DEF Sound
<1> QED BY <1>13, DoneInv DEF w

-----------------------------------------------------------------------------
(* What one and two calls of write_header do to a tiled memory.            *)
Cuts(m, S, w, S2, a, e, B) ==
  /\ w \in Mem /\ Tiles(w, S2) /\ S2 \in SUBSET Unit /\ Off(m, w, a, e)
  /\ \A o \in Outside(S, a, e) : Same(m, w, o)
  /\ Busy(w, S2) = Outside(Busy(m, S), a, e) \cup B

Intact(m, w, from, to) == \A u \in Unit : u >= from /\ u < to => w[u] = m[u]

Wholly(m, S, w, a, e, b, size) ==
  /\ Cuts(m, S, w, Outside(S, a, e) \cup {a}, a, e, IF b THEN {a} ELSE {})
  /\ w[a].size = size /\ Intact(m, w, a + H, e)

(* One write_header makes one block of all from a up to e.                 *)
LEMMA WholeIs ==
  ASSUME NEW m \in Mem, NEW S, Tiles(m, S), NEW a \in S, a # 0, NEW e \in S, a < e,
         NEW b \in BOOLEAN, b \/ m[e].busy,
         \A q \in S : Next(m, q) = a => b \/ m[q].busy,
         NEW size, a + H + size = e, size \in Nat,
         NEW w, w = WriteHeader(m, a, b, size, m[a].prev)
  PROVE  Wholly(m, S, w, a, e, b, size)
<1>1. /\ a \in Nat /\ a \in Unit /\ e \in Nat /\ e \in Unit /\ m[e] \in Headers
      /\ m[a].prev \in Unit
  BY BlockLies
<1>2. size \in Unit /\ e = a + size + H /\ size = e - a - H /\ a + H <= e
  BY <1>1, Sizes
<1>3. ~ IsFree(m, e) \/ b
  BY DEF IsFree
<1>4. /\ w \in Mem /\ w[a] = Head(b, size, m[a].prev) /\ w[e] = [m[e] EXCEPT !.prev = size]
      /\ \A u \in Unit : (u < a \/ u >= a + H) /\ (u < e \/ u >= e + H) => w[u] = m[u]
  BY <1>1, <1>2, <1>3, WriteIs
<1>5. Off(m, w, a, e)
  BY <1>1, <1>2, <1>4, Sizes DEF Off
<1>6. Intact(m, w, a + H, e)
  BY <1>4 DEF Intact
<1>7. w[a] = Head(b, e - a - H, m[a].prev) /\ w[e] = [m[e] EXCEPT !.prev = e - a - H]
  BY <1>2, <1>4
<1>8. PICK S2 : S2 = Outside(S, a, e) \cup {a}
  OBVIOUS
<1>9. /\ Tiles(w, S2) /\ S2 \in SUBSET Unit
      /\ \A o \in Outside(S, a, e) : Same(m, w, o)
      /\ Busy(w, S2) = Outside(Busy(m, S), a, e) \cup (IF b THEN {a} ELSE {})
  BY <1>4, <1>5, <1>7, <1>8, CutOne
<1>10. w[a].size = size
  BY <1>1, <1>2, <1>4, HeadIs
<1> QED BY <1>4, <1>5, <1>6, <1>8, <1>9, <1>10 DEF Cuts, Wholly

(* A header at c, then one at a: what mem_alloc and mem_realloc do when a  *)
(* free block is left over.                                                *)
Splits(m, S, w, a, e, b, d, c, size, rest) ==
  /\ Cuts(m, S, w, Outside(S, a, e) \cup {a, c}, a, e,
          (IF b THEN {a} ELSE {}) \cup (IF d THEN {c} ELSE {}))
  /\ w[a].size = size /\ w[c].size = rest
  /\ Intact(m, w, a + H, c) /\ Intact(m, w, c + H, e)

(* Two, the far one first, make two blocks of it, ...                      *)
LEMMA SplitIs ==
  ASSUME NEW m \in Mem, NEW S, Tiles(m, S), NEW a \in S, a # 0, NEW e \in S,
         NEW b \in BOOLEAN, NEW d \in BOOLEAN, b \/ d, d \/ m[e].busy,
         \A q \in S : Next(m, q) = a => b \/ m[q].busy,
         NEW size, NEW rest, NEW c, size \in Nat, rest \in Nat, c \in Nat,
         c = a + H + size, e = c + H + rest,
         NEW m1, m1 = WriteHeader(m, c, d, rest, size),
         NEW w, w = WriteHeader(m1, a, b, size, m[a].prev)
  PROVE  Splits(m, S, w, a, e, b, d, c, size, rest)
<1>1. /\ a \in Nat /\ a \in Unit /\ e \in Nat /\ e \in Unit /\ m[e] \in Headers
      /\ m[a].prev \in Unit
  BY BlockLies
<1>2. /\ size \in Unit /\ rest \in Unit /\ c \in Unit /\ e = c + rest + H
      /\ c = a + size + H /\ size = c - a - H /\ rest = e - c - H
      /\ a + H <= c /\ c + H <= e /\ a < c /\ c < e
  BY <1>1, Sizes
<1>3. ~ IsFree(m, e) \/ d
  BY DEF IsFree
<1>4. /\ m1 \in Mem /\ m1[c] = Head(d, rest, size) /\ m1[e] = [m[e] EXCEPT !.prev = rest]
      /\ \A u \in Unit : (u < c \/ u >= c + H) /\ (u < e \/ u >= e + H) => m1[u] = m[u]
  BY <1>1, <1>2, <1>3, WriteIs
<1>5. m1[c] \in Headers /\ m1[c].busy = d
  BY <1>2, <1>4, HeadIs
<1>6. b \/ ~ IsFree(m1, c)
  BY <1>5 DEF IsFree
<1>7. /\ w \in Mem /\ w[a] = Head(b, size, m[a].prev) /\ w[c] = [m1[c] EXCEPT !.prev = size]
      /\ \A u \in Unit : (u < a \/ u >= a + H) /\ (u < c \/ u >= c + H) => w[u] = m1[u]
  BY <1>1, <1>2, <1>4, <1>5, <1>6, WriteIs
<1>8. w[c] = Head(d, rest, size)
  BY <1>4, <1>7 DEF Head
<1>9. w[e] = [m[e] EXCEPT !.prev = rest]
  BY <1>1, <1>2, <1>4, <1>7, Sizes
<1>10. ASSUME NEW u \in Unit
       PROVE  /\ u < a \/ u >= e + H => w[u] = m[u]
              /\ u >= a + H /\ u < e /\ (u < c \/ u >= c + H) => w[u] = m[u]
  BY <1>1, <1>2, <1>4, <1>7, Sizes
<1>11. Off(m, w, a, e)
  BY <1>10 DEF Off
<1>12. PICK S2 : S2 = Outside(S, a, e) \cup {a, c}
  OBVIOUS
<1>14. /\ Tiles(w, S2) /\ S2 \in SUBSET Unit
       /\ \A o \in Outside(S, a, e) : Same(m, w, o)
       /\ Busy(w, S2) = Outside(Busy(m, S), a, e) \cup (IF b THEN {a} ELSE {})
                                                  \cup (IF d THEN {c} ELSE {})
  <2>1. /\ m \in Mem /\ w \in Mem /\ Tiles(m, S) /\ a \in S /\ a # 0 /\ e \in S /\ c \in Nat
        /\ a + H <= c /\ c + H <= e /\ b \in BOOLEAN /\ d \in BOOLEAN
        /\ (b \/ d) /\ (d \/ m[e].busy) /\ size = c - a - H /\ rest = e - c - H
        /\ \A q \in S : Next(m, q) = a => b \/ m[q].busy
    BY <1>2, <1>7
  <2> QED BY ONLY <2>1, <1>7, <1>8, <1>9, <1>11, <1>12, CutTwo
<1>15. w[a].size = size /\ w[c].size = rest
  BY <1>1, <1>2, <1>7, <1>8, HeadIs
<1>16. Cuts(m, S, w, S2, a, e, (IF b THEN {a} ELSE {}) \cup (IF d THEN {c} ELSE {}))
  BY <1>7, <1>11, <1>14 DEF Cuts
<1>17. Intact(m, w, a + H, c) /\ Intact(m, w, c + H, e)
  <2>1. \A u \in Unit : /\ u >= a + H /\ u < c => u < e
                        /\ u >= c + H /\ u < e => u >= a + H
    BY <1>1, <1>2, Sizes
  <2> QED BY <1>10, <2>1 DEF Intact
<1> QED BY <1>12, <1>15, <1>16, <1>17 DEF Splits

(* The header at a first: mem_realloc to both sides.                       *)
SplitsLate(m, S, w, a, e, c, size, rest) ==
  /\ Cuts(m, S, w, Outside(S, a, e) \cup {a, c}, a, e, {a})
  /\ w[a].size = size /\ Intact(m, w, a + H, c)

(* ... and so do two, the near one first, when the far block is free.      *)
LEMMA SplitLate ==
  ASSUME NEW m \in Mem, NEW S, Tiles(m, S), NEW a \in S, a # 0, NEW e \in S,
         m[e].busy, NEW b \in BOOLEAN, NEW d \in BOOLEAN, b, ~ d,
         NEW size, NEW rest, NEW c, size \in Nat, rest \in Nat, c \in Nat,
         c = a + H + size, e = c + H + rest,
         NEW m1, m1 = WriteHeader(m, a, b, size, m[a].prev),
         NEW w, w = WriteHeader(m1, c, d, rest, size)
  PROVE  SplitsLate(m, S, w, a, e, c, size, rest)
<1>1. /\ a \in Nat /\ a \in Unit /\ e \in Nat /\ e \in Unit /\ m[e] \in Headers
      /\ m[a].prev \in Unit
  BY BlockLies
<1>2. /\ size \in Unit /\ rest \in Unit /\ c \in Unit /\ e = c + rest + H
      /\ c = a + size + H /\ size = c - a - H /\ rest = e - c - H
      /\ a + H <= c /\ c + H <= e /\ a < c /\ c < e
  BY <1>1, Sizes
<1>3. /\ m1 \in Mem /\ m1[a] = Head(b, size, m[a].prev)
      /\ c \in Unit /\ m[c] \in Headers => m1[c] = [m[c] EXCEPT !.prev = size]
      /\ \A u \in Unit : (u < a \/ u >= a + H) /\ (u < c \/ u >= c + H) => m1[u] = m[u]
  <2>1. m \in Mem /\ a \in Unit /\ b \in BOOLEAN /\ size \in Unit /\ m[a].prev \in Unit
        /\ c \in Nat /\ c = a + size + H /\ (b \/ ~ IsFree(m, c))
    BY <1>1, <1>2
  <2>2. m1 = WriteHeader(m, a, b, size, m[a].prev)
    OBVIOUS
  <2> QED BY ONLY <2>1, <2>2, WriteIs
<1>a. /\ (e < a \/ e >= a + H) /\ (e < c \/ e >= c + H)
      /\ (a < c \/ a >= c + H) /\ (a < e \/ a >= e + H)
  BY <1>1, <1>2, Sizes
<1>4. m1[e] = m[e]
  <2>1. \A u \in Unit : (u < a \/ u >= a + H) /\ (u < c \/ u >= c + H) => m1[u] = m[u]
    BY <1>3
  <2> QED BY ONLY <1>1, <1>a, <2>1
<1>5. ~ IsFree(m1, e)
  BY <1>4 DEF IsFree
<1>6. /\ w \in Mem /\ w[c] = Head(d, rest, size) /\ w[e] = [m1[e] EXCEPT !.prev = rest]
      /\ \A u \in Unit : (u < c \/ u >= c + H) /\ (u < e \/ u >= e + H) => w[u] = m1[u]
  <2>1. m1 \in Mem /\ c \in Unit /\ d \in BOOLEAN /\ rest \in Unit /\ size \in Unit
        /\ e \in Nat /\ e \in Unit /\ e = c + rest + H /\ ~ IsFree(m1, e) /\ m1[e] \in Headers
    BY <1>1, <1>2, <1>3, <1>4, <1>5
  <2>2. w = WriteHeader(m1, c, d, rest, size)
    OBVIOUS
  <2> QED BY ONLY <2>1, <2>2, WriteIs
<1>7. w[a] = Head(b, size, m[a].prev)
  <2>1. w[a] = m1[a]
    <3>1. \A u \in Unit : (u < c \/ u >= c + H) /\ (u < e \/ u >= e + H) => w[u] = m1[u]
      BY <1>6
    <3> QED BY ONLY <1>1, <1>a, <3>1
  <2> QED BY <1>3, <2>1
<1>8. ASSUME NEW u \in Unit
      PROVE  /\ u < a \/ u >= e + H => w[u] = m[u]
             /\ u >= a + H /\ u < c => w[u] = m[u]
  <2>1. /\ (u < a \/ u >= a + H) /\ (u < c \/ u >= c + H) => m1[u] = m[u]
        /\ (u < c \/ u >= c + H) /\ (u < e \/ u >= e + H) => w[u] = m1[u]
    BY <1>3, <1>6
  <2> QED BY ONLY <1>1, <1>2, <2>1, u \in Unit, Sizes
<1>9. Off(m, w, a, e)
  BY <1>8 DEF Off
<1>10. PICK S2 : S2 = Outside(S, a, e) \cup {a, c}
  OBVIOUS
<1>12. /\ Tiles(w, S2) /\ S2 \in SUBSET Unit
       /\ \A o \in Outside(S, a, e) : Same(m, w, o)
       /\ Busy(w, S2) = Outside(Busy(m, S), a, e) \cup (IF b THEN {a} ELSE {})
                                                  \cup (IF d THEN {c} ELSE {})
  <2>1. /\ m \in Mem /\ w \in Mem /\ Tiles(m, S) /\ a \in S /\ a # 0 /\ e \in S /\ c \in Nat
        /\ a + H <= c /\ c + H <= e /\ b \in BOOLEAN /\ d \in BOOLEAN
        /\ (b \/ d) /\ (d \/ m[e].busy) /\ size = c - a - H /\ rest = e - c - H
        /\ \A q \in S : Next(m, q) = a => b \/ m[q].busy
    BY <1>2, <1>6
  <2>2. w[c] = Head(d, rest, size) /\ w[e] = [m[e] EXCEPT !.prev = rest]
    BY <1>4, <1>6
  <2> QED BY ONLY <2>1, <2>2, <1>7, <1>9, <1>10, CutTwo
<1>13. w[a].size = size
  <2>1. b \in BOOLEAN /\ size \in Unit /\ m[a].prev \in Unit
    BY <1>1, <1>2
  <2> QED BY ONLY <1>7, <2>1, HeadIs
<1>14. Cuts(m, S, w, S2, a, e, {a})
  BY <1>6, <1>9, <1>12 DEF Cuts
<1>15. Intact(m, w, a + H, c)
  BY <1>8 DEF Intact
<1> QED BY <1>10, <1>13, <1>14, <1>15 DEF SplitsLate

-----------------------------------------------------------------------------
(* The block before, and the free neighbours.                              *)
LEMMA PrevIs ==
  ASSUME NEW m, NEW S, Tiles(m, S), NEW o \in S, o # 0
  PROVE  \E p \in S : /\ p < o /\ p # End /\ Next(m, p) = o
                      /\ \A q \in S : Next(m, q) = o => q = p
                      /\ o # End => p = Before(m, o) /\ m[o].prev = m[p].size
<1> DEFINE T == {q \in S : q < o}
<1>1. T \in SUBSET Unit /\ T # {}
  <2>1. 0 \in T
    <3>1. o \in Nat /\ 0 \in S
      BY BlockLies DEF Tiles
    <3> QED BY <3>1
  <2> QED BY <2>1 DEF Tiles
<1>2. PICK p \in T : \A q \in T : q <= p
  <2> HIDE DEF T
  <2> QED BY <1>1, LargestOf
<1>3. /\ p \in S /\ p < o /\ p \in Nat /\ o \in Nat /\ o <= End /\ p # End
      /\ Next(m, p) \in S /\ Next(m, p) \in Nat /\ Next(m, p) >= p + H
      /\ Next(m, p) = p + H + m[p].size /\ m[p].size \in Nat
  <2>1. p \in S /\ p < o /\ p \in Nat /\ o \in Nat /\ o <= End
    BY BlockLies
  <2>2. p # End
    BY <2>1, Sizes
  <2> QED BY <2>1, <2>2, BlockLies
<1>4. Next(m, p) = o
  <2>1. o >= Next(m, p)
    BY <1>3 DEF Tiles
  <2>2. SUFFICES ASSUME Next(m, p) < o PROVE FALSE
    BY <1>3, <2>1
  <2>3. Next(m, p) <= p
    BY <1>2, <1>3, <2>2
  <2> QED BY <1>3, <2>3, Sizes
<1>5. ASSUME NEW q \in S, Next(m, q) = o PROVE q = p
  <2>1. q \in Nat /\ q + H <= o
    BY <1>5, BlockLies
  <2>2. q < o
    BY <1>3, <2>1, Sizes
  <2>3. q <= p
    BY <1>2, <2>2
  <2>4. q < p => p >= o
    BY <1>3, <1>5 DEF Tiles
  <2> QED BY <1>3, <2>1, <2>3, <2>4
<1>6. o # End => p = Before(m, o) /\ m[o].prev = m[p].size
  <2> SUFFICES ASSUME o # End PROVE p = Before(m, o) /\ m[o].prev = m[p].size
    OBVIOUS
  <2>1. m[o].prev = m[p].size
    BY <1>3, <1>4 DEF Tiles
  <2>2. p = o - m[p].size - H
    BY <1>3, <1>4, Sizes
  <2> QED BY <2>1, <2>2 DEF Before
<1> QED BY <1>3, <1>4, <1>5, <1>6

(* Every header of a tiled memory is one, and is free when not busy.       *)
LEMMA FreeIs ==
  ASSUME NEW m, NEW S, Tiles(m, S), NEW o \in S
  PROVE  IsHead(m, o) /\ (IsFree(m, o) <=> ~ m[o].busy)
BY DEF IsFree, IsHead, Tiles

(* mem_free of the block at o.                                             *)
LEMMA FreedIs ==
  ASSUME NEW m \in Mem, NEW S, Tiles(m, S), NEW o \in S, o # 0, o # End, m[o].busy,
         NEW w, w = Freed(m, o + H)
  PROVE  \E a \in S, e \in S, S2 \in SUBSET Unit :
           /\ a # 0 /\ a <= o /\ o < e /\ Cuts(m, S, w, S2, a, e, {})
           /\ \A q \in Busy(m, S) : q >= a /\ q < e => q = o
<1>1. PICK p \in S : /\ p < o /\ p # End /\ Next(m, p) = o
                     /\ \A q \in S : Next(m, q) = o => q = p
                     /\ p = Before(m, o) /\ m[o].prev = m[p].size
  BY PrevIs
<1>2. PICK n \in S : /\ n = Next(m, o) /\ n = o + H + m[o].size /\ n \in Nat /\ o \in Nat
                     /\ m[o].size \in Nat /\ o + H <= n
  BY BlockLies
<1>p. p \in Nat /\ m[p].size \in Nat /\ o = p + H + m[p].size /\ m[p].prev \in Unit
  BY <1>1, BlockLies
<1>n. n # End => Next(m, n) \in S /\ Next(m, n) = n + H + m[n].size
                 /\ Next(m, n) \in Nat /\ m[n].size \in Nat
  BY BlockLies
<1> DEFINE a == IF IsFree(m, p) THEN p ELSE o
           e == IF IsFree(m, n) THEN Next(m, n) ELSE n
           s == m[o].size + (IF IsFree(m, p) THEN m[p].size + H ELSE 0)
                          + (IF IsFree(m, n) THEN m[n].size + H ELSE 0)
<1>3. (IsFree(m, p) <=> ~ m[p].busy) /\ (IsFree(m, n) <=> ~ m[n].busy)
  BY FreeIs
<1>4. IsFree(m, n) => n # End
  BY <1>3 DEF Tiles
<1>5. /\ a \in S /\ a \in Nat /\ e \in S /\ e \in Nat /\ a <= o /\ o < e /\ a < e
      /\ a + H + s = e /\ s \in Nat
  <2>1. a \in S /\ a \in Nat /\ a <= o /\ e \in S /\ e \in Nat
    BY <1>1, <1>2, <1>p, <1>n, <1>4
  <2>2. o < n
    BY <1>2, Sizes
  <2>3. o < e
    BY <1>2, <1>n, <1>4, <2>2, Sizes
  <2>4. a + H + s = e /\ s \in Nat
    BY <1>2, <1>p, <1>n, <1>4, Sizes
  <2> QED BY <1>2, <2>1, <2>3, <2>4
<1>6. m[e].busy
  <2>1. CASE IsFree(m, n)
    BY <1>3, <1>4, <2>1 DEF Tiles
  <2>2. CASE ~ IsFree(m, n)
    BY <1>3, <2>2
  <2> QED BY <2>1, <2>2
<1>7. a # 0 /\ \A q \in S : Next(m, q) = a => m[q].busy
  <2>1. CASE IsFree(m, p)
    <3>1. ~ m[p].busy /\ p # 0 /\ a = p
      BY <1>3, <2>1 DEF Tiles
    <3>2. ASSUME NEW q \in S, Next(m, q) = p PROVE m[q].busy
      <4>1. q # End
        <5>1. Next(m, End) = Amount
          BY Sizes DEF Tiles, Next
        <5>2. p <= End
          BY BlockLies
        <5> QED BY <1>p, <3>2, <5>1, <5>2, Sizes
      <4> QED BY <3>1, <3>2, <4>1 DEF Tiles
    <3> QED BY <3>1, <3>2
  <2>2. CASE ~ IsFree(m, p)
    BY <1>1, <1>3, <2>2
  <2> QED BY <2>1, <2>2
<1>8. w = WriteHeader(m, a, FALSE, s, m[a].prev)
  <2>2. w = IF IsFree(m, p) THEN WriteHeader(m, p, FALSE, s, m[p].prev)
            ELSE WriteHeader(m, o, FALSE, s, m[o].prev)
    <3>1. PICK x \in Nat : x = o + H /\ x - H = o
      BY <1>2, Sizes
    <3>2. w = Freed(m, x) /\ Before(m, x - H) = p /\ Next(m, x - H) = n
      BY <1>1, <1>2, <3>1
    <3> QED BY ONLY <3>1, <3>2 DEF Freed
  <2> HIDE DEF s
  <2> QED BY <2>2
<1>9. \A q \in Busy(m, S) : q >= a /\ q < e => q = o
  <2> SUFFICES ASSUME NEW q \in S, m[q].busy, q >= a, q < e PROVE q = o
    BY DEF Busy
  <2>1. q \in Nat
    BY BlockLies
  <2>2. q < o => q = p /\ IsFree(m, p)
    <3>1. q < o => ~ q > p
      BY <1>1, <1>2, <1>p, <2>1 DEF Tiles
    <3> QED BY <1>1, <1>2, <1>p, <2>1, <3>1
  <2>3. q > o => q = n /\ IsFree(m, n)
    <3>1. q > o => q >= n
      BY <1>2 DEF Tiles
    <3>2. q > n => q >= Next(m, n)
      BY DEF Tiles
    <3> QED BY <1>2, <1>n, <1>4, <2>1, <3>1, <3>2
  <2> QED BY <1>2, <1>3, <2>1, <2>2, <2>3
<1> HIDE DEF a, e, s
<1>10. PICK b \in BOOLEAN : b = FALSE
  OBVIOUS
<1>11. Cuts(m, S, w, Outside(S, a, e) \cup {a}, a, e, IF b THEN {a} ELSE {})
  <2>1. w = WriteHeader(m, a, b, s, m[a].prev)
    BY <1>8, <1>10
  <2>2. b \/ m[e].busy
    BY <1>6
  <2>3. \A q \in S : Next(m, q) = a => b \/ m[q].busy
    BY <1>7
  <2>4. m \in Mem /\ Tiles(m, S) /\ b \in BOOLEAN
    OBVIOUS
  <2>5. Wholly(m, S, w, a, e, b, s)
    BY ONLY <1>5, <1>7, <2>1, <2>2, <2>3, <2>4, WholeIs
  <2> QED BY <2>5 DEF Wholly
<1>12. Cuts(m, S, w, Outside(S, a, e) \cup {a}, a, e, {})
  BY <1>10, <1>11
<1>13. Outside(S, a, e) \cup {a} \in SUBSET Unit
  BY <1>12 DEF Cuts
<1> QED BY <1>5, <1>7, <1>9, <1>12, <1>13

(* mem_alloc in the free block at o.                                       *)
LEMMA PlacedIs ==
  ASSUME NEW m \in Mem, NEW S, Tiles(m, S), NEW o \in S, ~ m[o].busy,
         NEW size \in Requests, m[o].size >= size, NEW w, w = Placed(m, o, size)
  PROVE  \E e \in S, S2 \in SUBSET Unit :
           /\ o # 0 /\ o # End /\ e = Next(m, o) /\ o < e /\ o \in Nat
           /\ Cuts(m, S, w, S2, o, e, {o}) /\ w[o].size >= size
<1>1. /\ o # 0 /\ o # End /\ o \in Nat /\ m[o].size \in Nat /\ size \in Nat /\ size > 0
  BY BlockLies, Sizes DEF Tiles
<1>2. PICK p \in S : /\ Next(m, p) = o /\ \A q \in S : Next(m, q) = o => q = p
                     /\ m[o].prev = m[p].size
  BY <1>1, PrevIs
<1>3. PICK e \in S : /\ e = Next(m, o) /\ e = o + H + m[o].size /\ e \in Nat /\ o < e
                     /\ m[e].busy
  <2>1. Next(m, o) \in S /\ Next(m, o) = o + H + m[o].size /\ Next(m, o) \in Nat /\ Next(m, o) >= o + H
    BY <1>1, BlockLies
  <2>2. m[Next(m, o)].busy
    BY <1>1 DEF Tiles
  <2> QED BY <1>1, <2>1, <2>2, Sizes
<1> DEFINE prev == m[CHOOSE q \in Walk(m) : Next(m, q) = o].size
           rest == m[o].size - size - H
<1>4. prev = m[o].prev
  <2>1. Walk(m) = S
    BY WalkIs
  <2>2. (CHOOSE q \in S : Next(m, q) = o) = p
    BY <1>2
  <2> QED BY <1>2, <2>1, <2>2
<1>5. w = IF rest >= 0
          THEN WriteHeader(WriteHeader(m, o + size + H, FALSE, rest, size), o, TRUE, size, m[o].prev)
          ELSE WriteHeader(m, o, TRUE, m[o].size, m[o].prev)
  <2>1. w = IF rest >= 0
            THEN WriteHeader(WriteHeader(m, o + size + H, FALSE, rest, size), o, TRUE, size, prev)
            ELSE WriteHeader(m, o, TRUE, m[o].size, prev)
    BY DEF Placed
  <2> HIDE DEF prev, rest
  <2> QED BY <1>4, <2>1
<1> HIDE DEF prev
<1>6. PICK b \in BOOLEAN, d \in BOOLEAN : b = TRUE /\ d = FALSE
  OBVIOUS
<1>7. CASE rest >= 0
  <2>1. PICK c : c = o + size + H
    OBVIOUS
  <2>2. PICK z : z = rest
    OBVIOUS
  <2>3. z \in Nat /\ c \in Nat /\ c = o + H + size /\ e = c + H + z /\ size \in Nat
    BY <1>1, <1>3, <1>7, <2>1, <2>2, Sizes
  <2>4. PICK m1 : m1 = WriteHeader(m, c, d, z, size)
    OBVIOUS
  <2>5. w = WriteHeader(m1, o, b, size, m[o].prev)
    <3>1. w = WriteHeader(WriteHeader(m, o + size + H, FALSE, rest, size), o, TRUE, size, m[o].prev)
      BY <1>5, <1>7
    <3> HIDE DEF rest
    <3> QED BY <1>6, <2>1, <2>2, <2>4, <3>1
  <2>6. /\ m \in Mem /\ Tiles(m, S) /\ (b \/ d) /\ (d \/ m[e].busy)
        /\ \A q \in S : Next(m, q) = o => b \/ m[q].busy
    BY <1>3, <1>6
  <2>7. PICK S2 : S2 = Outside(S, o, e) \cup {o, c}
    OBVIOUS
  <2>8. /\ Cuts(m, S, w, S2, o, e, (IF b THEN {o} ELSE {}) \cup (IF d THEN {c} ELSE {}))
        /\ w[o].size = size
    <3>1. Splits(m, S, w, o, e, b, d, c, size, z)
      BY ONLY <1>1, <2>3, <2>4, <2>5, <2>6, SplitIs
    <3> QED BY <2>7, <3>1 DEF Splits
  <2>9. Cuts(m, S, w, S2, o, e, {o}) /\ S2 \in SUBSET Unit
    <3>1. (IF b THEN {o} ELSE {}) \cup (IF d THEN {c} ELSE {}) = {o}
      BY <1>6
    <3>2. Cuts(m, S, w, S2, o, e, {o})
      BY <2>8, <3>1
    <3> QED BY <3>2 DEF Cuts
  <2>10. w[o].size >= size
    BY <1>1, <2>8
  <2> QED BY <1>1, <1>3, <2>9, <2>10
<1>8. CASE ~ (rest >= 0)
  <2>1. w = WriteHeader(m, o, b, m[o].size, m[o].prev)
    BY <1>5, <1>6, <1>8
  <2>2. /\ m \in Mem /\ Tiles(m, S) /\ (b \/ m[e].busy)
        /\ \A q \in S : Next(m, q) = o => b \/ m[q].busy
    BY <1>3, <1>6
  <2>3. PICK S2 : S2 = Outside(S, o, e) \cup {o}
    OBVIOUS
  <2>4. PICK z : z = m[o].size
    OBVIOUS
  <2>5. z \in Nat /\ o + H + z = e /\ w = WriteHeader(m, o, b, z, m[o].prev)
    BY <1>1, <1>3, <2>1, <2>4
  <2>6. o \in S /\ o # 0 /\ e \in S /\ o < e /\ b \in BOOLEAN
    BY <1>1, <1>3
  <2>7. Cuts(m, S, w, S2, o, e, IF b THEN {o} ELSE {}) /\ w[o].size = z
    <3>1. Wholly(m, S, w, o, e, b, z)
      BY ONLY <2>2, <2>5, <2>6, WholeIs
    <3> QED BY <2>3, <3>1 DEF Wholly
  <2>8. Cuts(m, S, w, S2, o, e, {o}) /\ S2 \in SUBSET Unit
    <3>1. (IF b THEN {o} ELSE {}) = {o}
      BY <1>6
    <3>2. Cuts(m, S, w, S2, o, e, {o})
      BY <2>7, <3>1
    <3> QED BY <3>2 DEF Cuts
  <2>9. w[o].size >= size
    BY <1>1, <2>4, <2>7
  <2> QED BY <1>1, <1>3, <2>8, <2>9
<1> QED BY <1>7, <1>8

-----------------------------------------------------------------------------
(* A call gives the owner i the new block at q, in place of what i had,    *)
(* if anything, within the same stretch of memory.                         *)
Granted(m, S, L, i, L2) ==
  /\ m \in Mem /\ Tiles(m, S) /\ L \in [Ids -> [addr : Unit, size : Unit]]
  /\ Owns(m, S, L2) /\ Busy(m, S) = {0, End} \cup Heads(L2)
  /\ \A j \in Full(L) : j # i => Keeps(m, L, j)

(* A stretch of memory in which only i had a block, cut anew with one busy *)
(* block, is granted to i.                                                 *)
LEMMA Regranted ==
  ASSUME NEW m, NEW S, NEW L, Sound(m, S, L), NEW i \in Ids, NEW a \in S, a # 0,
         NEW e \in S, a < e, NEW w, NEW S2, NEW q, q \in Nat, q >= a, q < e,
         Cuts(m, S, w, S2, a, e, {q}), NEW size \in Requests, w[q].size >= size,
         \A x \in Busy(m, S) : x >= a /\ x < e => x \in Own(L, i),
         \A x \in Own(L, i) : x >= a /\ x < e,
         NEW L2, L2[i].addr = q + H, L2[i].size = size, \A j \in Ids : j # i => L2[j] = L[j]
  PROVE  Granted(w, S2, L, i, L2)
<1>1. /\ Tiles(m, S) /\ Owns(m, S, L) /\ L \in [Ids -> [addr : Unit, size : Unit]]
      /\ Busy(m, S) = {0, End} \cup Heads(L) /\ Off(m, w, a, e)
      /\ \A o \in Outside(S, a, e) : Same(m, w, o)
      /\ Busy(w, S2) = Outside(Busy(m, S), a, e) \cup {q}
  BY DEF Sound, Cuts
<1>2. /\ a \in Nat /\ e \in Nat /\ e <= End /\ \A x \in S : x \in Nat
  BY <1>1, BlockLies
<1>3. /\ size \in Nat /\ size > 0 /\ q + H - H = q /\ q + H \in Nat
  BY Sizes
<1>4. L2[i] # None
  BY <1>3 DEF None
<1>5. Own(L2, i) = {q}
  <2>1. L2[i].addr = q + H
    OBVIOUS
  <2> QED BY ONLY <1>3, <1>4, <2>1, q \in Nat, Sizes DEF Own
<1>6. w[q].size \in Nat
  <2>1. q \in S2 /\ Tiles(w, S2)
    BY <1>1 DEF Busy, Cuts
  <2> QED BY <2>1, BlockLies
<1>7. ASSUME NEW j \in Full(L), j # i PROVE L[j].addr - H \in Outside(S, a, e)
  <2>1. L[j].addr - H \in Busy(m, S) /\ L[j].addr - H \in S
    BY <1>1 DEF Owns, Busy
  <2>2. L[j].addr - H \notin Own(L, i)
    <3> SUFFICES ASSUME L[i] # None, L[j].addr - H = L[i].addr - H PROVE FALSE
      BY DEF Own
    <3>1. L[j].addr \in Nat /\ L[i].addr \in Nat /\ i \in Full(L)
      BY <1>1 DEF Owns, Full
    <3>2. L[j].addr = L[i].addr
      BY <3>1, Sizes
    <3> QED BY <1>1, <1>7, <3>1, <3>2 DEF Owns
  <2>3. PICK x \in S : x = L[j].addr - H
    BY <2>1
  <2>4. ~ (x >= a /\ x < e)
    BY <2>1, <2>2, <2>3
  <2>5. x < a \/ x >= e
    BY ONLY <1>2, <2>4, x \in S
  <2> QED BY <2>3, <2>5 DEF Outside
<1>8. Owns(w, S2, L2)
  <2>1. Outside(Busy(m, S), a, e) \subseteq Busy(w, S2)
    BY <1>1
  <2>2. /\ L2[i].addr \in Nat /\ L2[i].addr - H \in Busy(w, S2)
        /\ L2[i].addr - H >= a /\ L2[i].addr - H < e
        /\ L2[i].size \in Requests /\ L2[i].size <= w[L2[i].addr - H].size
    <3>1. L2[i].addr - H = q /\ L2[i].addr \in Nat /\ size <= w[q].size
      <4>1. L2[i].addr = q + H /\ w[q].size >= size
        OBVIOUS
      <4> QED BY ONLY <1>3, <1>6, <4>1, q \in Nat, Sizes
    <3>2. q \in Busy(w, S2)
      BY <1>1
    <3> QED BY ONLY <3>1, <3>2, L2[i].size = size, q >= a, q < e, size \in Requests
  <2>3. a \in S /\ a # 0 /\ e \in S /\ a < e /\ i \in Ids /\ \A j \in Ids : j # i => L2[j] = L[j]
    OBVIOUS
  <2> QED BY ONLY <1>1, <1>7, <2>1, <2>2, <2>3, Settle
<1>9. Busy(w, S2) = {0, End} \cup Heads(L2)
  <2>1. Heads(L2) = (Heads(L) \ Own(L, i)) \cup {q}
    <3>1. i \in Ids /\ \A j \in Ids : j # i => L2[j] = L[j]
      OBVIOUS
    <3> QED BY ONLY <1>1, <1>5, <3>1, HeadsBut
  <2>2. 0 \notin Own(L, i) /\ End \notin Own(L, i)
    BY <1>2, Sizes
  <2>3. Outside(Busy(m, S), a, e) = Busy(m, S) \ Own(L, i)
    <3>1. ASSUME NEW x \in Busy(m, S) PROVE x < a \/ x >= e <=> x \notin Own(L, i)
      <4>1. x \in Nat
        BY <1>2 DEF Busy
      <4> QED BY <1>2, <3>1, <4>1
    <3> QED BY <3>1 DEF Outside
  <2> QED BY <1>1, <2>1, <2>2, <2>3
<1>10. ASSUME NEW j \in Full(L), j # i PROVE Keeps(w, L, j)
  <2>1. Keeps(m, L, j)
    BY DEF Sound
  <2> QED BY <1>1, <1>7, <1>10, <2>1, KeptOutside
<1> QED BY <1>1, <1>8, <1>9, <1>10 DEF Granted, Cuts

-----------------------------------------------------------------------------
(* A call ends with the block at a, of this size, for the owner i.         *)
With(i, a, size) == [live EXCEPT ![i] = [addr |-> a, size |-> size]]

(* Only the entry of i changes.                                            *)
LEMMA WithIs ==
  ASSUME live \in [Ids -> [addr : Unit, size : Unit]], NEW i \in Ids, NEW a, NEW size
  PROVE  /\ With(i, a, size)[i].addr = a /\ With(i, a, size)[i].size = size
         /\ \A j \in Ids : j # i => With(i, a, size)[j] = live[j]
BY DEF With

Settled(m, S, i, a, size) == Granted(m, S, live, i, With(i, a, size))

(* The owner finds its data where the block now is, ...                    *)
LEMMA ResizedInv ==
  ASSUME NEW m, NEW S, NEW i \in Ids, NEW a \in Nat, NEW size \in Requests,
         Settled(m, S, i, a, size),
         \A k \in Nat : k < live[i].size /\ k < size => m[a + k] = Data(i, k),
         Resized(m, i, a, size)
  PROVE  IInv'
<1>1. PICK from \in Nat : from = IF Rewrites THEN 0 ELSE live[i].size
  <2>1. live[i].size \in Nat
    BY Sizes DEF Settled, Granted
  <2> QED BY <2>1
<1>2. \A k \in Nat : k < from /\ k < size => m[a + k] = Data(i, k)
  BY <1>1
<1>3. PICK L : L = live
  OBVIOUS
<1>4. PICK L2 : L2 = With(i, a, size)
  OBVIOUS
<1>5. Done(Fill(m, i, a, from, size), L2)
  BY <1>1, <1>4 DEF Resized, With
<1>6. /\ m \in Mem /\ Tiles(m, S) /\ L \in [Ids -> [addr : Unit, size : Unit]]
      /\ Owns(m, S, L2) /\ Busy(m, S) = {0, End} \cup Heads(L2)
      /\ \A j \in Full(L) : j # i => Keeps(m, L, j)
  BY <1>3, <1>4 DEF Settled, Granted
<1>7. L2 = [L EXCEPT ![i] = [addr |-> a, size |-> size]]
  BY <1>3, <1>4 DEF With
<1>8. i \in Ids /\ a \in Nat /\ size \in Requests /\ from \in Nat
  OBVIOUS
<1> QED BY ONLY <1>2, <1>5, <1>6, <1>7, <1>8, FilledInv

(* ... or where it was, and memmove takes it there.                        *)
Moves(m, w, from, to, size) ==
  /\ w \in Mem
  /\ \A u \in Unit : u < to \/ u >= to + size => w[u] = m[u]
  /\ \A k \in Nat : k < size /\ to + k \in Unit /\ from + k \in Unit =>
       w[to + k] = m[from + k]

(* memmove copies, also when source and destination overlap.               *)
LEMMA MoveIs ==
  ASSUME NEW m \in Mem, NEW from, from \in Nat, NEW to, to \in Nat, NEW size, size \in Nat,
         NEW w, w = Move(m, from, to, size)
  PROVE  Moves(m, w, from, to, size)
<1>1. \A u \in Unit : w[u] = IF u \in to .. to + size - 1 /\ u - to + from \in Unit
                             THEN m[u - to + from] ELSE m[u]
  BY DEF Move
<1>2. w = [u \in Unit |-> w[u]]
  BY DEF Move
<1>3. \A u \in Unit : w[u] \in Headers \cup [owner : Ids, unit : Unit] \cup {Tail, Fresh}
  BY <1>1 DEF Mem
<1>4. w \in Mem
  BY <1>2, <1>3 DEF Mem
<1>5. \A u \in Unit : u < to \/ u >= to + size => w[u] = m[u]
  BY <1>1, Sizes
<1>6. ASSUME NEW k \in Nat, k < size, to + k \in Unit, from + k \in Unit
      PROVE  w[to + k] = m[from + k]
  <2>1. to + k \in to .. to + size - 1 /\ to + k - to + from = from + k
    BY <1>6
  <2> QED BY <1>1, <1>6, <2>1
<1> QED BY <1>4, <1>5, <1>6 DEF Moves

(* What i wrote is at a.                                                   *)
Found(m, a, i) == \A k \in Nat : k < live[i].size => m[a + k] = Data(i, k)

(* ... or there after memmove from where it was.                           *)
LEMMA MovedInv ==
  ASSUME NEW m, NEW S, NEW i \in Ids, NEW a, a \in Nat, NEW size, size \in Requests,
         Settled(m, S, i, a, size), live[i].size <= size, live[i].addr + live[i].size < Amount,
         Found(m, live[i].addr, i),
         Resized(Move(m, live[i].addr, a, size), i, a, size)
  PROVE  IInv'
<1>1. PICK w : w = Move(m, live[i].addr, a, size)
  OBVIOUS
<1>2. PICK L2 : L2 = With(i, a, size)
  OBVIOUS
<1>3. /\ L2[i].addr = a /\ L2[i].size = size /\ \A j \in Ids : j # i => L2[j] = live[j]
      /\ live[i].addr \in Nat /\ live[i].size \in Nat /\ size \in Nat /\ size > 0
  BY <1>2, WithIs, Sizes DEF Settled, Granted
<1>4. i \in Full(L2)
  BY <1>3 DEF Full, None
<1>5. m \in Mem /\ Tiles(m, S) /\ Owns(m, S, L2)
  BY <1>2 DEF Settled, Granted
<1>6. /\ w \in Mem
      /\ \A u \in Unit : u < a \/ u >= a + size => w[u] = m[u]
      /\ \A k \in Nat : k < size /\ a + k \in Unit /\ live[i].addr + k \in Unit =>
           w[a + k] = m[live[i].addr + k]
  <2>1. PICK from : from = live[i].addr /\ from \in Nat
    BY <1>3
  <2>2. w = Move(m, from, a, size) /\ m \in Mem /\ size \in Nat
    BY <1>1, <1>3, <1>5, <2>1
  <2>3. Moves(m, w, from, a, size)
    BY ONLY <2>1, <2>2, a \in Nat, MoveIs
  <2> QED BY ONLY <2>1, <2>3 DEF Moves
<1>7. \A k \in Nat : k < size => a + k \in Unit
  <2>1. \A k \in Nat : k < L2[i].size => L2[i].addr + k \in Unit
    BY <1>4, <1>5, OwnUnits
  <2> QED BY <1>3, <2>1
<1>8. /\ Tiles(w, S) /\ Owns(w, S, L2) /\ Busy(w, S) = Busy(m, S)
      /\ \A j \in Full(L2) : j # i /\ Keeps(m, L2, j) => Keeps(w, L2, j)
  <2>1. \A u \in Unit : u < L2[i].addr \/ u >= L2[i].addr + L2[i].size => w[u] = m[u]
    BY <1>3, <1>6
  <2>2. w \in Mem
    BY <1>6
  <2> QED BY ONLY <1>4, <1>5, <2>1, <2>2, WriteOwn
<1>9. ASSUME NEW j \in Full(live), j # i PROVE Keeps(w, live, j)
  <2>1. L2[j] = live[j] /\ j \in Full(L2)
    BY <1>3, <1>9 DEF Full
  <2>2. Keeps(m, L2, j)
    BY <1>9, <2>1 DEF Keeps, Settled, Granted
  <2>3. Keeps(w, L2, j)
    BY <1>8, <1>9, <2>1, <2>2
  <2> QED BY <2>1, <2>3 DEF Keeps
<1>10. Settled(w, S, i, a, size)
  BY <1>2, <1>6, <1>8, <1>9 DEF Settled, Granted
<1>11. ASSUME NEW k \in Nat, k < live[i].size, k < size PROVE w[a + k] = Data(i, k)
  <2>1. live[i].addr + k \in Unit
    BY <1>3, <1>11, Sizes
  <2>2. m[live[i].addr + k] = Data(i, k)
    BY <1>11 DEF Found
  <2> QED BY <1>6, <1>7, <1>11, <2>1, <2>2
<1>12. Resized(w, i, a, size)
  BY <1>1
<1> QED BY ONLY <1>10, <1>11, <1>12, i \in Ids, a \in Nat, size \in Requests, ResizedInv

-----------------------------------------------------------------------------
(* A busy block o that is neither the first nor the last, the block p      *)
(* before it and the block n after it.                                     *)
Between(m, S, o, p, n) ==
  /\ o \in S /\ o # 0 /\ o # End /\ o \in Nat /\ m[o].busy /\ m[o].size \in Nat
  /\ p \in S /\ p \in Nat /\ m[p].size \in Nat /\ o = p + H + m[p].size /\ m[p].prev \in Nat
  /\ p = Before(m, o) /\ m[o].prev = m[p].size /\ \A q \in S : Next(m, q) = o => q = p
  /\ IsFree(m, p) => p # 0 /\ ~ m[p].busy /\ \A q \in S : Next(m, q) = p => m[q].busy
  /\ n \in S /\ n \in Nat /\ n = Next(m, o) /\ n = o + H + m[o].size
  /\ ~ IsFree(m, n) => m[n].busy
  /\ \A q \in Busy(m, S) : q \in Nat /\ (q >= o /\ q < n => q = o)
                           /\ (IsFree(m, p) /\ q >= p /\ q < n => q = o)

(* The block e after a free block n on the right.                          *)
Beyond(m, S, o, p, n, e) ==
  /\ n # End /\ ~ m[n].busy /\ m[n].size \in Nat
  /\ e \in S /\ e \in Nat /\ e = Next(m, n) /\ e = n + H + m[n].size /\ m[e].busy
  /\ \A q \in Busy(m, S) : /\ q >= o /\ q < e => q = o
                           /\ IsFree(m, p) /\ q >= p /\ q < e => q = o

(* A busy block has a block on each side, and a free one on its right has  *)
(* a busy one behind it, since free blocks never touch.                    *)
LEMMA BetweenIs ==
  ASSUME NEW m, NEW S, Tiles(m, S), NEW o \in S, o # 0, o # End, m[o].busy
  PROVE  \E p \in S, n \in S : /\ Between(m, S, o, p, n)
                               /\ IsFree(m, n) => \E e \in S : Beyond(m, S, o, p, n, e)
<1>1. PICK p \in S : /\ p < o /\ p # End /\ Next(m, p) = o
                     /\ \A q \in S : Next(m, q) = o => q = p
                     /\ p = Before(m, o) /\ m[o].prev = m[p].size
  BY PrevIs
<1>2. PICK n \in S : /\ n = Next(m, o) /\ n = o + H + m[o].size /\ n \in Nat /\ o \in Nat
                     /\ m[o].size \in Nat /\ o + H <= n /\ o < n
  BY BlockLies, Sizes
<1>p. p \in Nat /\ m[p].size \in Nat /\ o = p + H + m[p].size /\ m[p].prev \in Nat
  BY <1>1, BlockLies, Sizes
<1>3. (IsFree(m, p) <=> ~ m[p].busy) /\ (IsFree(m, n) <=> ~ m[n].busy)
  BY FreeIs
<1>4. IsFree(m, p) => p # 0 /\ ~ m[p].busy /\ \A q \in S : Next(m, q) = p => m[q].busy
  <2> SUFFICES ASSUME IsFree(m, p)
               PROVE  p # 0 /\ ~ m[p].busy /\ \A q \in S : Next(m, q) = p => m[q].busy
    OBVIOUS
  <2>1. ~ m[p].busy /\ p # 0
    BY <1>3 DEF Tiles
  <2>2. ASSUME NEW q \in S, Next(m, q) = p PROVE m[q].busy
    <3>1. q # End
      <4>1. Next(m, End) = Amount
        BY Sizes DEF Tiles, Next
      <4>2. p <= End
        BY BlockLies
      <4> QED BY <1>p, <2>2, <4>1, <4>2, Sizes
    <3> QED BY <2>1, <2>2, <3>1 DEF Tiles
  <2> QED BY <2>1, <2>2
<1>5. ASSUME NEW q \in S
      PROVE  /\ q \in Nat /\ (q < p \/ q = p \/ q = o \/ q >= n)
             /\ q > n => q >= Next(m, n)
  <2>1. q \in Nat
    BY BlockLies
  <2>2. q > p => q >= o
    BY <1>1 DEF Tiles
  <2>3. q > o => q >= n
    BY <1>2 DEF Tiles
  <2>4. q > n => q >= Next(m, n)
    BY DEF Tiles
  <2> QED BY <1>2, <1>p, <2>1, <2>2, <2>3, <2>4
<1>6. Between(m, S, o, p, n)
  <2>1. ASSUME NEW q \in Busy(m, S)
        PROVE  q \in Nat /\ (q >= o /\ q < n => q = o) /\ (IsFree(m, p) /\ q >= p /\ q < n => q = o)
    <3>1. q \in S /\ m[q].busy
      BY DEF Busy
    <3>2. q \in Nat /\ (q < p \/ q = p \/ q = o \/ q >= n) /\ (IsFree(m, p) => q # p)
      BY <1>3, <1>5, <3>1
    <3> QED BY ONLY <1>1, <1>2, <1>p, <3>2
  <2> QED BY <1>1, <1>2, <1>3, <1>4, <1>p, <2>1 DEF Between
<1>7. ASSUME IsFree(m, n) PROVE \E e \in S : Beyond(m, S, o, p, n, e)
  <2>1. n # End /\ ~ m[n].busy
    BY <1>3, <1>7 DEF Tiles
  <2>2. PICK e \in S : /\ e = Next(m, n) /\ e = n + H + m[n].size /\ e \in Nat
                       /\ m[n].size \in Nat /\ m[e].busy
    <3>1. /\ Next(m, n) \in S /\ Next(m, n) \in Nat /\ m[n].size \in Nat
          /\ Next(m, n) = n + H + m[n].size
      BY <2>1, BlockLies
    <3>2. m[Next(m, n)].busy
      BY <2>1 DEF Tiles
    <3> QED BY <3>1, <3>2
  <2>3. ASSUME NEW q \in Busy(m, S)
        PROVE  (q >= o /\ q < e => q = o) /\ (IsFree(m, p) /\ q >= p /\ q < e => q = o)
    <3>1. q \in S /\ m[q].busy
      BY DEF Busy
    <3>2. /\ q \in Nat /\ (q < p \/ q = p \/ q = o \/ q >= n) /\ (IsFree(m, p) => q # p)
          /\ q # n /\ (q > n => q >= e)
      BY <1>3, <1>5, <2>1, <2>2, <3>1
    <3>3. p < o /\ o < n
      BY ONLY <1>1, <1>2
    <3>4. p \in Nat /\ o \in Nat /\ n \in Nat /\ e \in Nat
      BY ONLY <1>2, <1>p, <2>2
    <3>5. q < p \/ q = p \/ q = o \/ q >= e
      BY ONLY <3>2, <3>4
    <3> QED BY ONLY <3>2, <3>3, <3>4, <3>5
  <2>4. Beyond(m, S, o, p, n, e)
    BY ONLY <2>1, <2>2, <2>3 DEF Beyond
  <2> QED BY ONLY <2>4, e \in S
<1> QED BY <1>6, <1>7

(* This is so for the block of an owner, whose data is in it.              *)
LEMMA BlockIs ==
  ASSUME NEW S, Sound(mem, S, live), NEW i \in Ids, live[i] # None
  PROVE  \E o \in S, p \in S, n \in S :
           /\ o = Block(i) /\ p = Left(i) /\ n = Right(i) /\ live[i].addr = o + H
           /\ Own(live, i) = {o} /\ Size(i) = mem[o].size /\ live[i].size <= mem[o].size
           /\ live[i].size \in Nat /\ live[i].size > 0
           /\ Between(mem, S, o, p, n) /\ live[i].addr + live[i].size < Amount
           /\ IsFree(mem, n) => \E e \in S : Beyond(mem, S, o, p, n, e)
           /\ Found(mem, o + H, i)
<1>1. i \in Full(live) /\ Tiles(mem, S) /\ Owns(mem, S, live)
  BY DEF Full, Sound
<1>2. /\ live[i].addr \in Nat /\ live[i].addr - H \in Busy(mem, S) \ {0, End}
      /\ live[i].size \in Nat /\ live[i].size > 0
      /\ live[i].size <= mem[live[i].addr - H].size
      /\ live[i].addr + live[i].size < Amount
  <2>1. /\ live[i].addr \in Nat /\ live[i].addr - H \in Busy(mem, S) \ {0, End}
        /\ live[i].size <= mem[live[i].addr - H].size
    BY <1>1 DEF Owns
  <2> QED BY <1>1, <2>1, OwnUnits
<1>3. PICK o \in S : /\ o = live[i].addr - H /\ o # 0 /\ o # End /\ mem[o].busy
                     /\ live[i].size <= mem[o].size /\ live[i].addr = o + H
  <2>1. live[i].addr = live[i].addr - H + H
    BY <1>2, Sizes
  <2> QED BY <1>2, <2>1 DEF Busy
<1>4. PICK p \in S, n \in S : /\ Between(mem, S, o, p, n)
                              /\ IsFree(mem, n) => \E e \in S : Beyond(mem, S, o, p, n, e)
  BY <1>1, <1>3, BetweenIs
<1>5. o = Block(i) /\ p = Left(i) /\ n = Right(i) /\ Size(i) = mem[o].size
  BY <1>3, <1>4 DEF Block, Left, Right, Size, Between
<1>6. Found(mem, o + H, i)
  BY <1>1, <1>3 DEF Sound, Keeps, Found
<1>7. Own(live, i) = {o}
  BY <1>3 DEF Own
<1> QED BY <1>2, <1>3, <1>4, <1>5, <1>6, <1>7

-----------------------------------------------------------------------------
(* Ways to give i a block within a stretch of memory from a up to e, of    *)
(* which no other owner has any.                                           *)
Yields(S, i, a, e) ==
  /\ Sound(mem, S, live) /\ i \in Ids /\ a \in S /\ a # 0 /\ e \in S /\ a < e
  /\ \A x \in Busy(mem, S) : x >= a /\ x < e => x \in Own(live, i)
  /\ \A x \in Own(live, i) : x >= a /\ x < e

(* A yielded stretch, cut anew, settles its owner.                         *)
LEMMA Regrants ==
  ASSUME NEW S, NEW i, NEW a, NEW e, Yields(S, i, a, e),
         NEW w, NEW S2, NEW q, q \in Nat, q >= a, q < e, Cuts(mem, S, w, S2, a, e, {q}),
         NEW size, size \in Requests, w[q].size >= size, NEW x, x = q + H
  PROVE  Settled(w, S2, i, x, size)
<1>1. PICK L2 : L2 = With(i, x, size)
  OBVIOUS
<1>2. live \in [Ids -> [addr : Unit, size : Unit]] /\ i \in Ids
  BY DEF Sound, Yields
<1>3. L2[i].addr = q + H /\ L2[i].size = size /\ \A j \in Ids : j # i => L2[j] = live[j]
  BY <1>1, <1>2, WithIs
<1>4. PICK m, L : m = mem /\ L = live
  OBVIOUS
<1>5. Granted(w, S2, L, i, L2)
  <2>1. /\ Sound(m, S, L) /\ i \in Ids /\ a \in S /\ a # 0 /\ e \in S /\ a < e
        /\ \A y \in Busy(m, S) : y >= a /\ y < e => y \in Own(L, i)
        /\ \A y \in Own(L, i) : y >= a /\ y < e
    BY <1>4 DEF Yields
  <2>2. /\ q \in Nat /\ q >= a /\ q < e /\ Cuts(m, S, w, S2, a, e, {q})
        /\ size \in Requests /\ w[q].size >= size
    BY <1>4
  <2>3. L2[i].addr = q + H /\ L2[i].size = size /\ \A j \in Ids : j # i => L2[j] = L[j]
    BY <1>3, <1>4
  <2> QED BY ONLY <2>1, <2>2, <2>3, Regranted
<1> QED BY <1>1, <1>4, <1>5 DEF Settled

(* All of it.                                                              *)
LEMMA GrantsWhole ==
  ASSUME NEW S, NEW i, NEW a, NEW e, Yields(S, i, a, e),
         NEW total, total \in Nat, a + H + total = e,
         NEW size, size \in Requests, total >= size,
         NEW w, w = WriteHeader(mem, a, TRUE, total, mem[a].prev), NEW x, x = a + H
  PROVE  \E S2 : /\ Settled(w, S2, i, x, size)
                 /\ Intact(mem, w, x, e)
<1>1. PICK b \in BOOLEAN : b = TRUE
  OBVIOUS
<1>2. /\ mem \in Mem /\ Tiles(mem, S) /\ a \in S /\ a # 0 /\ e \in S /\ a < e /\ b \in BOOLEAN
      /\ (b \/ mem[e].busy)
      /\ \A q \in S : Next(mem, q) = a => b \/ mem[q].busy
      /\ w = WriteHeader(mem, a, b, total, mem[a].prev)
      /\ a + H + total = e /\ total \in Nat
  BY <1>1 DEF Yields, Sound
<1>3. /\ Cuts(mem, S, w, Outside(S, a, e) \cup {a}, a, e, IF b THEN {a} ELSE {})
      /\ w[a].size = total /\ Intact(mem, w, a + H, e)
  <2>1. Wholly(mem, S, w, a, e, b, total)
    BY ONLY <1>2, WholeIs
  <2> QED BY <2>1 DEF Wholly
<1>4. PICK S2 : Cuts(mem, S, w, S2, a, e, {a})
  BY <1>1, <1>3
<1>5. a \in Nat
  BY <1>2, BlockLies
<1>6. Settled(w, S2, i, x, size)
  <2>1. w[a].size >= size /\ a \in Nat /\ a >= a /\ a < e /\ size \in Requests
    <3>1. w[a].size = total /\ total >= size /\ a < e /\ size \in Requests
      BY <1>2, <1>3
    <3> QED BY ONLY <1>5, <3>1
  <2>2. Yields(S, i, a, e) /\ x = a + H
    OBVIOUS
  <2> QED BY ONLY <1>4, <2>1, <2>2, Regrants
<1> QED BY <1>3, <1>6

(* The first part; the rest is a free block.                               *)
LEMMA GrantsFirst ==
  ASSUME NEW S, NEW i, NEW a, NEW e, Yields(S, i, a, e), mem[e].busy,
         NEW c, NEW rest, c \in Nat, rest \in Nat, NEW size, size \in Requests,
         c = a + H + size, e = c + H + rest,
         NEW w, w = WriteHeader(WriteHeader(mem, c, FALSE, rest, size), a, TRUE, size, mem[a].prev),
         NEW x, x = a + H
  PROVE  \E S2 : /\ Settled(w, S2, i, x, size)
                 /\ Intact(mem, w, x, c)
<1>1. PICK b \in BOOLEAN, d \in BOOLEAN : b = TRUE /\ d = FALSE
  OBVIOUS
<1>2. PICK m1 : m1 = WriteHeader(mem, c, d, rest, size)
  OBVIOUS
<1>3. /\ mem \in Mem /\ Tiles(mem, S) /\ a \in S /\ a # 0 /\ e \in S /\ a < e
      /\ b \in BOOLEAN /\ d \in BOOLEAN /\ (b \/ d)
  BY <1>1 DEF Yields, Sound
<1>4. d \/ mem[e].busy
  OBVIOUS
<1>5. \A q \in S : Next(mem, q) = a => b \/ mem[q].busy
  BY <1>1
<1>6. w = WriteHeader(m1, a, b, size, mem[a].prev)
  BY <1>1, <1>2
<1>7. size \in Nat /\ rest \in Nat /\ c \in Nat /\ c = a + H + size /\ e = c + H + rest
  BY Sizes
<1>8. /\ Cuts(mem, S, w, Outside(S, a, e) \cup {a, c}, a, e,
                 (IF b THEN {a} ELSE {}) \cup (IF d THEN {c} ELSE {}))
      /\ w[a].size = size
      /\ Intact(mem, w, a + H, c) /\ Intact(mem, w, c + H, e)
  <2>1. Splits(mem, S, w, a, e, b, d, c, size, rest)
    BY ONLY <1>2, <1>3, <1>4, <1>5, <1>6, <1>7, SplitIs
  <2> QED BY <2>1 DEF Splits
<1>9. PICK S2 : Cuts(mem, S, w, S2, a, e, {a})
  <2>1. (IF b THEN {a} ELSE {}) \cup (IF d THEN {c} ELSE {}) = {a}
    BY <1>1
  <2> QED BY <1>8, <2>1
<1>10. a \in Nat /\ e \in Nat /\ c < e
  <2>1. a \in Nat /\ e \in Nat
    BY <1>3, BlockLies
  <2> QED BY <1>7, <2>1, Sizes
<1>11. Settled(w, S2, i, x, size)
  <2>1. w[a].size >= size /\ a \in Nat /\ a >= a /\ a < e /\ size \in Requests
    <3>1. w[a].size = size /\ a < e
      BY <1>3, <1>8
    <3> QED BY ONLY <1>7, <1>10, <3>1, size \in Requests
  <2>2. Yields(S, i, a, e) /\ x = a + H
    OBVIOUS
  <2> QED BY ONLY <1>9, <2>1, <2>2, Regrants
<1> QED BY <1>8, <1>11

(* The same with the first header written first, as to both sides.         *)
LEMMA GrantsFirstLate ==
  ASSUME NEW S, NEW i, NEW a, NEW e, Yields(S, i, a, e), mem[e].busy,
         NEW c, NEW rest, c \in Nat, rest \in Nat, NEW size, size \in Requests,
         c = a + H + size, e = c + H + rest,
         NEW w, w = WriteHeader(WriteHeader(mem, a, TRUE, size, mem[a].prev), c, FALSE, rest, size),
         NEW x, x = a + H
  PROVE  \E S2 : /\ Settled(w, S2, i, x, size)
                 /\ Intact(mem, w, x, c)
<1>1. PICK b \in BOOLEAN, d \in BOOLEAN : b = TRUE /\ d = FALSE
  OBVIOUS
<1>2. PICK m1 : m1 = WriteHeader(mem, a, b, size, mem[a].prev)
  OBVIOUS
<1>3. /\ mem \in Mem /\ Tiles(mem, S) /\ a \in S /\ a # 0 /\ e \in S /\ a < e
      /\ b \in BOOLEAN /\ d \in BOOLEAN /\ b /\ ~ d /\ mem[e].busy
  BY <1>1 DEF Yields, Sound
<1>6. w = WriteHeader(m1, c, d, rest, size)
  BY <1>1, <1>2
<1>7. size \in Nat /\ rest \in Nat /\ c \in Nat /\ c = a + H + size /\ e = c + H + rest
  BY Sizes
<1>8. /\ Cuts(mem, S, w, Outside(S, a, e) \cup {a, c}, a, e, {a})
      /\ w[a].size = size
      /\ Intact(mem, w, a + H, c)
  <2>1. SplitsLate(mem, S, w, a, e, c, size, rest)
    BY ONLY <1>2, <1>3, <1>6, <1>7, SplitLate
  <2> QED BY <2>1 DEF SplitsLate
<1>10. a \in Nat
  BY <1>3, BlockLies
<1>11. Settled(w, Outside(S, a, e) \cup {a, c}, i, x, size)
  <2>1. w[a].size >= size /\ a \in Nat /\ a >= a /\ a < e /\ size \in Requests
    <3>1. w[a].size = size /\ a < e
      BY <1>3, <1>8
    <3> QED BY ONLY <1>7, <1>10, <3>1, size \in Requests
  <2>2. Yields(S, i, a, e) /\ x = a + H
    OBVIOUS
  <2>3. PICK S2 : S2 = Outside(S, a, e) \cup {a, c}
    OBVIOUS
  <2>4. Cuts(mem, S, w, S2, a, e, {a})
    BY <1>8, <2>3
  <2>5. Settled(w, S2, i, x, size)
    BY ONLY <2>1, <2>2, <2>4, Regrants
  <2> QED BY <2>3, <2>5
<1> QED BY <1>8, <1>11

(* The last part; the first is a free block.                               *)
LEMMA GrantsLast ==
  ASSUME NEW S, NEW i, NEW a, NEW e, Yields(S, i, a, e),
         \A q \in S : Next(mem, q) = a => mem[q].busy,
         NEW c, NEW rest, c \in Nat, rest \in Nat, NEW size, size \in Requests,
         c = a + H + rest, e = c + H + size,
         NEW w, w = WriteHeader(WriteHeader(mem, c, TRUE, size, rest), a, FALSE, rest, mem[a].prev),
         NEW x, x = c + H
  PROVE  \E S2 : /\ Settled(w, S2, i, x, size)
                 /\ Intact(mem, w, x, e)
<1>1. PICK b \in BOOLEAN, d \in BOOLEAN : b = FALSE /\ d = TRUE
  OBVIOUS
<1>2. PICK m1 : m1 = WriteHeader(mem, c, d, size, rest)
  OBVIOUS
<1>3. /\ mem \in Mem /\ Tiles(mem, S) /\ a \in S /\ a # 0 /\ e \in S /\ a < e
      /\ b \in BOOLEAN /\ d \in BOOLEAN /\ (b \/ d)
  BY <1>1 DEF Yields, Sound
<1>4. d \/ mem[e].busy
  BY <1>1
<1>5. \A q \in S : Next(mem, q) = a => b \/ mem[q].busy
  BY <1>1
<1>6. w = WriteHeader(m1, a, b, rest, mem[a].prev)
  BY <1>1, <1>2
<1>7. size \in Nat /\ rest \in Nat /\ c \in Nat /\ c = a + H + rest /\ e = c + H + size
  BY Sizes
<1>8. /\ Cuts(mem, S, w, Outside(S, a, e) \cup {a, c}, a, e,
                 (IF b THEN {a} ELSE {}) \cup (IF d THEN {c} ELSE {}))
      /\ w[c].size = size
      /\ Intact(mem, w, a + H, c) /\ Intact(mem, w, c + H, e)
  <2>1. Splits(mem, S, w, a, e, b, d, c, rest, size)
    BY ONLY <1>2, <1>3, <1>4, <1>5, <1>6, <1>7, SplitIs
  <2> QED BY <2>1 DEF Splits
<1>9. PICK S2 : Cuts(mem, S, w, S2, a, e, {c})
  <2>1. (IF b THEN {a} ELSE {}) \cup (IF d THEN {c} ELSE {}) = {c}
    BY <1>1
  <2> QED BY <1>8, <2>1
<1>10. a \in Nat /\ e \in Nat /\ c < e /\ c >= a
  <2>1. a \in Nat /\ e \in Nat
    BY <1>3, BlockLies
  <2> QED BY <1>7, <2>1, Sizes
<1>11. Settled(w, S2, i, x, size)
  <2>1. w[c].size >= size /\ c \in Nat /\ c >= a /\ c < e /\ size \in Requests
    <3>1. w[c].size = size /\ a < e
      BY <1>3, <1>8
    <3> QED BY ONLY <1>7, <1>10, <3>1, size \in Requests
  <2>2. Yields(S, i, a, e) /\ x = c + H
    OBVIOUS
  <2> QED BY ONLY <1>9, <2>1, <2>2, Regrants
<1> QED BY <1>8, <1>11

(* The block of i with its free neighbours, on either side or on both, is  *)
(* such a stretch.                                                         *)
LEMMA Room ==
  ASSUME NEW S, Sound(mem, S, live), NEW i \in Ids, NEW o, NEW p, NEW n,
         Own(live, i) = {o}, Between(mem, S, o, p, n)
  PROVE  /\ Yields(S, i, o, n) /\ (IsFree(mem, p) => Yields(S, i, p, n))
         /\ \A e : Beyond(mem, S, o, p, n, e) =>
              Yields(S, i, o, e) /\ (IsFree(mem, p) => Yields(S, i, p, e))
<1>1. /\ o \in S /\ o # 0 /\ o \in Nat /\ p \in S /\ p \in Nat /\ p < o /\ n \in S /\ n \in Nat /\ o < n
      /\ IsFree(mem, p) => p # 0
      /\ \A q \in Busy(mem, S) : q \in Nat /\ (q >= o /\ q < n => q = o)
                                 /\ (IsFree(mem, p) /\ q >= p /\ q < n => q = o)
  <2>1. /\ o \in S /\ o # 0 /\ o \in Nat /\ p \in S /\ p \in Nat /\ n \in S /\ n \in Nat
        /\ o = p + H + mem[p].size /\ mem[p].size \in Nat
        /\ n = o + H + mem[o].size /\ mem[o].size \in Nat
    BY DEF Between
  <2>2. p < o /\ o < n
    BY ONLY <2>1, Sizes
  <2>3. /\ IsFree(mem, p) => p # 0
        /\ \A q \in Busy(mem, S) : q \in Nat /\ (q >= o /\ q < n => q = o)
                                   /\ (IsFree(mem, p) /\ q >= p /\ q < n => q = o)
    BY DEF Between
  <2> QED BY <2>1, <2>2, <2>3
<1>2. Yields(S, i, o, n) /\ (IsFree(mem, p) => Yields(S, i, p, n))
  BY <1>1 DEF Yields
<1>3. ASSUME NEW e, Beyond(mem, S, o, p, n, e)
      PROVE  Yields(S, i, o, e) /\ (IsFree(mem, p) => Yields(S, i, p, e))
  <2>1. /\ e \in S /\ e \in Nat /\ n < e
        /\ \A q \in Busy(mem, S) : /\ q >= o /\ q < e => q = o
                                   /\ IsFree(mem, p) /\ q >= p /\ q < e => q = o
    <3>1. e \in Nat /\ e = n + H + mem[n].size /\ mem[n].size \in Nat
      BY <1>3 DEF Beyond
    <3>2. n < e
      BY <1>1, <3>1, Sizes
    <3> QED BY <1>3, <3>2 DEF Beyond
  <2> QED BY <1>1, <2>1 DEF Yields
<1> QED BY <1>2, <1>3

(* What i has there is as long as its block, and as it was.                *)
LEMMA StaysThere ==
  ASSUME NEW S, Sound(mem, S, live), NEW i, NEW o \in S, live[i].size <= mem[o].size,
         live[i].size \in Nat, Found(mem, o + H, i),
         NEW x, x = o + H, NEW y, y \in Nat, y <= x, NEW z, z \in Nat, z >= x + mem[o].size,
         NEW w, Intact(mem, w, y, z)
  PROVE  Found(w, x, i)
<1> SUFFICES ASSUME NEW k \in Nat, k < live[i].size PROVE w[x + k] = Data(i, k)
  BY DEF Found
<1>1. mem[o].size \in Nat /\ o \in Nat
  BY BlockLies DEF Sound
<1>2. x + k >= y /\ x + k < z /\ k < mem[o].size
  BY <1>1, Sizes
<1>3. x + k \in Unit
  BY <1>2, InBlock DEF Sound
<1>4. mem[x + k] = Data(i, k)
  BY DEF Found
<1> QED BY <1>2, <1>3, <1>4 DEF Intact

(* A smaller size, ...                                                     *)
LEMMA ShrinkInv ==
  ASSUME IInv, NEW i \in Ids, NEW size \in Requests, ReallocShrink(i, size)
  PROVE  IInv'
<1>1. PICK S : Sound(mem, S, live)
  BY DEF IInv
<1>2. PICK o \in S, p \in S, n \in S :
        /\ o = Block(i) /\ p = Left(i) /\ n = Right(i) /\ live[i].addr = o + H
        /\ Own(live, i) = {o} /\ Size(i) = mem[o].size /\ live[i].size <= mem[o].size
        /\ live[i].size \in Nat /\ Between(mem, S, o, p, n)
        /\ IsFree(mem, n) => \E e \in S : Beyond(mem, S, o, p, n, e)
        /\ Found(mem, o + H, i)
  BY <1>1, BlockIs DEF ReallocShrink, Resizing
<1>3. PICK rest : rest = Size(i) - H - size
  OBVIOUS
<1>4. PICK x, c : x = o + H /\ c = o + size + H
  OBVIOUS
<1>5. /\ size \in Nat /\ size > 0 /\ o \in Nat /\ n \in Nat /\ mem[o].size \in Nat
      /\ n = o + H + mem[o].size /\ x \in Nat /\ c \in Nat /\ c = o + H + size
      /\ mem[o].prev = mem[p].size /\ size < mem[o].size /\ rest = mem[o].size - H - size
      /\ ~ IsFree(mem, n) => mem[n].busy
  <2>1. /\ o \in Nat /\ n \in Nat /\ mem[o].size \in Nat /\ n = o + H + mem[o].size
        /\ mem[o].prev = mem[p].size /\ (~ IsFree(mem, n) => mem[n].busy)
    BY <1>2 DEF Between
  <2>2. size < mem[o].size /\ rest = mem[o].size - H - size
    BY <1>2, <1>3 DEF ReallocShrink
  <2>3. size \in Nat /\ size > 0
    BY Sizes
  <2>4. c = o + H + size /\ c \in Nat /\ x \in Nat
    BY ONLY <1>4, <2>1, <2>3, Sizes
  <2> QED BY <2>1, <2>2, <2>3, <2>4
<1>6. PICK m1 : m1 = IF rest > 0 THEN WriteHeader(mem, c, FALSE, rest, size) ELSE mem
  OBVIOUS
<1>7. PICK ret : ret = IF rest > 0 THEN size ELSE mem[o].size
  OBVIOUS
<1>8. PICK w : w = WriteHeader(m1, o, TRUE, ret, mem[o].prev)
  OBVIOUS
<1>9. Resized(w, i, x, size)
  <2>1. mem[Left(i)].size = mem[o].prev /\ Size(i) = mem[o].size
    BY <1>2, <1>5
  <2>2. LET o2 == Block(i)
            rest2 == Size(i) - H - size
            m2 == IF rest2 > 0 THEN WriteHeader(mem, o2 + size + H, FALSE, rest2, size) ELSE mem
            ret2 == IF rest2 > 0 THEN size ELSE Size(i)
        IN  Resized(WriteHeader(m2, o2, TRUE, ret2, mem[Left(i)].size), i, live[i].addr, size)
    BY DEF ReallocShrink
  <2>3. Block(i) = o /\ live[i].addr = x
    BY <1>2, <1>4
  <2> QED BY ONLY <1>3, <1>4, <1>6, <1>7, <1>8, <2>1, <2>2, <2>3
<1>10. \E S2 : Settled(w, S2, i, x, size) /\ Intact(mem, w, x, x + size)
  <2>1. CASE rest > 0
    <3>1. \E e \in S, r \in Nat : /\ Yields(S, i, o, e) /\ mem[e].busy /\ e = c + H + r
                                  /\ m1 = WriteHeader(mem, c, FALSE, r, size)
      <4>1. CASE ~ IsFree(mem, n)
        <5>1. n = c + H + rest /\ rest \in Nat
          BY <1>5, <2>1, Sizes
        <5>2. Yields(S, i, o, n)
          BY <1>1, <1>2, Room
        <5> QED BY <1>5, <1>6, <2>1, <4>1, <5>1, <5>2
      <4>2. CASE IsFree(mem, n)
        <5>1. PICK e \in S : Beyond(mem, S, o, p, n, e)
          BY <1>2, <4>2
        <5>2. e \in Nat /\ e = n + H + mem[n].size /\ mem[n].size \in Nat /\ mem[e].busy
          BY <5>1 DEF Beyond
        <5>3. PICK r : r = rest + mem[n].size + H
          OBVIOUS
        <5>4. /\ r \in Nat /\ r \in Unit /\ rest \in Unit /\ c \in Unit /\ size \in Unit
              /\ n = c + rest + H /\ e = c + r + H /\ e = c + H + r
          <6>1. e <= End
            BY <1>1, BlockLies DEF Sound
          <6> QED BY <1>5, <2>1, <5>2, <5>3, <6>1, Sizes
        <5>5. ~ IsFree(mem, c + r + H)
          BY <5>2, <5>4 DEF IsFree
        <5>6. WriteHeader(mem, c, FALSE, rest, size) = WriteHeader(mem, c, FALSE, r, size)
          <6>1. mem \in Mem
            BY <1>1 DEF Sound
          <6>2. /\ mem \in Mem /\ c \in Unit /\ rest \in Unit /\ r \in Unit
                /\ n \in Nat /\ n = c + rest + H /\ IsFree(mem, n)
                /\ r = rest + mem[n].size + H /\ ~ IsFree(mem, c + r + H)
            BY <1>5, <4>2, <5>3, <5>4, <5>5, <6>1
          <6> QED BY ONLY <6>2, WriteMerges
        <5>7. Yields(S, i, o, e)
          BY <1>1, <1>2, <5>1, Room
        <5>8. m1 = WriteHeader(mem, c, FALSE, r, size)
          BY <1>6, <2>1, <5>6
        <5> QED BY <5>2, <5>4, <5>7, <5>8
      <4> QED BY <4>1, <4>2
    <3>2. PICK e \in S, r \in Nat : /\ Yields(S, i, o, e) /\ mem[e].busy /\ e = c + H + r
                                    /\ m1 = WriteHeader(mem, c, FALSE, r, size)
      BY <3>1
    <3>3. w = WriteHeader(WriteHeader(mem, c, FALSE, r, size), o, TRUE, size, mem[o].prev)
      BY <1>7, <1>8, <2>1, <3>2
    <3>4. \E S2 : Settled(w, S2, i, x, size) /\ Intact(mem, w, x, c)
      BY ONLY <1>4, <1>5, <3>2, <3>3, size \in Requests, r \in Nat, GrantsFirst
    <3>5. c = x + size
      BY <1>4, <1>5, Sizes
    <3> QED BY <3>4, <3>5
  <2>2. CASE ~ (rest > 0)
    <3>1. w = WriteHeader(mem, o, TRUE, mem[o].size, mem[o].prev)
      BY <1>6, <1>7, <1>8, <2>2
    <3>2. Yields(S, i, o, n)
      BY <1>1, <1>2, Room
    <3>3. PICK total : total = mem[o].size
      OBVIOUS
    <3>4. total \in Nat /\ o + H + total = n /\ total >= size
      BY <1>5, <3>3
    <3>5. PICK S2 : Settled(w, S2, i, x, size) /\ Intact(mem, w, x, n)
      <4>1. w = WriteHeader(mem, o, TRUE, total, mem[o].prev)
        BY <3>1, <3>3
      <4> QED BY ONLY <1>4, <3>2, <3>4, <4>1, size \in Requests, GrantsWhole
    <3>6. Intact(mem, w, x, x + size)
      <4>1. \A u \in Unit : u < x + size => u < n
        BY <1>4, <1>5, Sizes
      <4> QED BY <3>5, <4>1 DEF Intact
    <3> QED BY <3>5, <3>6
  <2> QED BY <2>1, <2>2
<1>11. PICK S2 : Settled(w, S2, i, x, size) /\ Intact(mem, w, x, x + size)
  BY <1>10
<1>12. ASSUME NEW k \in Nat, k < live[i].size, k < size PROVE w[x + k] = Data(i, k)
  <2>1. x + k \in Unit /\ x + k >= x /\ x + k < x + size
    <3>1. Tiles(mem, S) /\ k < mem[o].size
      BY <1>1, <1>2, <1>5, <1>12 DEF Sound
    <3>2. o + H + k \in Unit
      BY <3>1, InBlock
    <3> QED BY <1>4, <1>5, <1>12, <3>2
  <2>2. w[x + k] = mem[x + k]
    BY <1>11, <2>1 DEF Intact
  <2>3. mem[o + H + k] = Data(i, k)
    BY <1>2, <1>12 DEF Found
  <2> QED BY <1>4, <2>2, <2>3
<1> QED BY ONLY <1>5, <1>9, <1>11, <1>12, i \in Ids, size \in Requests, ResizedInv

(* ... or a larger one: into the free block on the right.                  *)
LEMMA RightInv ==
  ASSUME IInv, NEW i \in Ids, NEW size \in Requests, ReallocRight(i, size)
  PROVE  IInv'
<1>1. PICK S : Sound(mem, S, live)
  BY DEF IInv
<1>2. PICK o \in S, p \in S, n \in S :
        /\ o = Block(i) /\ p = Left(i) /\ n = Right(i) /\ live[i].addr = o + H
        /\ Own(live, i) = {o} /\ Size(i) = mem[o].size /\ live[i].size <= mem[o].size
        /\ live[i].size \in Nat /\ Between(mem, S, o, p, n)
        /\ IsFree(mem, n) => \E e \in S : Beyond(mem, S, o, p, n, e)
        /\ Found(mem, o + H, i)
  BY <1>1, BlockIs DEF ReallocRight, Resizing
<1>3. PICK e \in S : Beyond(mem, S, o, p, n, e) /\ mem[n].size + mem[o].size + H >= size
  BY <1>2 DEF ReallocRight, CanRight
<1>4. PICK x, c, rest : x = o + H /\ c = o + H + size /\ rest = mem[o].size + mem[n].size - size
  OBVIOUS
<1>5. /\ size \in Nat /\ size > 0 /\ o \in Nat /\ n \in Nat /\ mem[o].size \in Nat /\ mem[n].size \in Nat
      /\ n = o + H + mem[o].size /\ e = n + H + mem[n].size /\ e \in Nat /\ mem[e].busy
      /\ mem[o].prev = mem[p].size /\ size >= mem[o].size
  BY <1>2, <1>3, Sizes DEF Between, Beyond, ReallocRight
<1>6. x \in Nat /\ c \in Nat /\ c = x + size /\ rest \in Int /\ mem[n].size + mem[o].size + H >= size
  BY ONLY <1>3, <1>4, <1>5, Sizes
<1>7. PICK m1 : m1 = IF rest > 0 THEN WriteHeader(mem, c, FALSE, rest, size) ELSE mem
  OBVIOUS
<1>8. PICK ret : ret = IF rest > 0 THEN size ELSE mem[o].size + mem[n].size + H
  OBVIOUS
<1>9. PICK w : w = WriteHeader(m1, o, TRUE, ret, mem[o].prev)
  OBVIOUS
<1>10. Resized(w, i, x, size)
  <2>1. LET o2 == Block(i)
            rest2 == Size(i) + mem[Right(i)].size - size
            m2 == IF rest2 > 0 THEN WriteHeader(mem, o2 + H + size, FALSE, rest2, size) ELSE mem
            ret2 == IF rest2 > 0 THEN size ELSE Size(i) + mem[Right(i)].size + H
        IN  Resized(WriteHeader(m2, o2, TRUE, ret2, mem[Left(i)].size), i, live[i].addr, size)
    BY DEF ReallocRight
  <2>2. /\ Block(i) = o /\ live[i].addr = x /\ Right(i) = n /\ Size(i) = mem[o].size
        /\ mem[Left(i)].size = mem[o].prev
    BY <1>2, <1>4, <1>5
  <2> QED BY ONLY <1>4, <1>7, <1>8, <1>9, <2>1, <2>2
<1>11. Yields(S, i, o, e)
  BY <1>1, <1>2, <1>3, Room
<1>12. \E S2 : Settled(w, S2, i, x, size) /\ Intact(mem, w, x, x + mem[o].size)
  <2>1. CASE rest > 0
    <3>1. PICK r : r = rest /\ r \in Nat /\ e = c + H + r
      BY ONLY <1>4, <1>5, <1>6, <2>1, Sizes
    <3>2. w = WriteHeader(WriteHeader(mem, c, FALSE, r, size), o, TRUE, size, mem[o].prev)
      BY <1>7, <1>8, <1>9, <2>1, <3>1
    <3>3. PICK S2 : Settled(w, S2, i, x, size) /\ Intact(mem, w, x, c)
      BY ONLY <1>4, <1>5, <1>6, <1>11, <3>1, <3>2, size \in Requests, GrantsFirst
    <3>4. \A u \in Unit : u < x + mem[o].size => u < c
      BY ONLY <1>5, <1>6, Sizes
    <3> QED BY <3>3, <3>4 DEF Intact
  <2>2. CASE ~ (rest > 0)
    <3>1. PICK total : total = mem[o].size + mem[n].size + H
      OBVIOUS
    <3>2. w = WriteHeader(mem, o, TRUE, total, mem[o].prev)
      BY <1>7, <1>8, <1>9, <2>2, <3>1
    <3>3. total \in Nat /\ o + H + total = e /\ total >= size
      BY ONLY <1>5, <1>6, <3>1, Sizes
    <3>4. PICK S2 : Settled(w, S2, i, x, size) /\ Intact(mem, w, x, e)
      BY ONLY <1>4, <1>11, <3>2, <3>3, size \in Requests, GrantsWhole
    <3>5. \A u \in Unit : u < x + mem[o].size => u < e
      BY ONLY <1>4, <1>5, Sizes
    <3>6. Intact(mem, w, x, x + mem[o].size)
      BY ONLY <3>4, <3>5 DEF Intact
    <3> QED BY ONLY <3>4, <3>6
  <2> QED BY <2>1, <2>2
<1>13. PICK S2 : Settled(w, S2, i, x, size) /\ Intact(mem, w, x, x + mem[o].size)
  BY <1>12
<1>14. Found(w, x, i)
  <2>1. PICK z : z = x + mem[o].size
    OBVIOUS
  <2>2. z \in Nat /\ x <= x /\ z >= x + mem[o].size
    BY ONLY <1>5, <1>6, <2>1
  <2>3. Intact(mem, w, x, z)
    BY <1>13, <2>1
  <2>4. /\ Sound(mem, S, live) /\ x = o + H /\ x \in Nat /\ Found(mem, o + H, i)
        /\ live[i].size <= mem[o].size /\ live[i].size \in Nat
    BY ONLY <1>1, <1>2, <1>4, <1>6
  <2> QED BY ONLY <2>2, <2>3, <2>4, o \in S, StaysThere
<1>15. \A k \in Nat : k < live[i].size /\ k < size => w[x + k] = Data(i, k)
  BY <1>14 DEF Found
<1> QED BY ONLY <1>6, <1>10, <1>13, <1>15, i \in Ids, size \in Requests, ResizedInv

(* Into the free block on the left, some of which stays free.              *)
LEMMA LeftInv ==
  ASSUME IInv, NEW i \in Ids, NEW size \in Requests, ReallocLeft(i, size)
  PROVE  IInv'
<1>1. PICK S : Sound(mem, S, live)
  BY DEF IInv
<1>2. PICK o \in S, p \in S, n \in S :
        /\ o = Block(i) /\ p = Left(i) /\ live[i].addr = o + H
        /\ Own(live, i) = {o} /\ Size(i) = mem[o].size /\ live[i].size <= mem[o].size
        /\ live[i].size \in Nat /\ Between(mem, S, o, p, n)
        /\ live[i].addr + live[i].size < Amount
        /\ Found(mem, o + H, i)
  BY <1>1, BlockIs DEF ReallocLeft, Resizing
<1>3. PICK rest, c : rest = mem[p].size + mem[o].size - size /\ c = o + mem[o].size - size
  OBVIOUS
<1>4. PICK x, y : x = c + H /\ y = o + H
  OBVIOUS
<1>5. /\ size \in Nat /\ size > 0 /\ o \in Nat /\ n \in Nat /\ p \in Nat
      /\ mem[o].size \in Nat /\ mem[p].size \in Nat
      /\ o = p + H + mem[p].size /\ n = o + H + mem[o].size /\ size >= mem[o].size
      /\ p # 0 /\ (\A q \in S : Next(mem, q) = p => mem[q].busy) /\ IsFree(mem, p)
  BY <1>2, Sizes DEF Between, ReallocLeft, CanLeft
<1>6. rest > 0 /\ rest \in Int
  <2>1. rest > 0
    BY <1>2, <1>3 DEF ReallocLeft
  <2> QED BY ONLY <1>3, <1>5, <2>1
<1>7. /\ rest \in Nat /\ c \in Nat /\ c = p + H + rest /\ n = c + H + size /\ c <= o
      /\ x \in Nat /\ y \in Nat /\ x <= y
  BY ONLY <1>3, <1>4, <1>5, <1>6, Sizes
<1>8. PICK m1 : m1 = WriteHeader(mem, c, TRUE, size, rest)
  OBVIOUS
<1>9. PICK w : w = WriteHeader(m1, p, FALSE, rest, m1[p].prev)
  OBVIOUS
<1>10. Resized(Move(w, live[i].addr, x, size), i, x, size)
  <2>1. LET p2 == Left(i)
            rest2 == mem[p2].size + Size(i) - size
            o2 == Block(i) + Size(i) - size
            m2 == WriteHeader(mem, o2, TRUE, size, rest2)
            m3 == WriteHeader(m2, p2, FALSE, rest2, m2[p2].prev)
        IN  Resized(Move(m3, live[i].addr, o2 + H, size), i, o2 + H, size)
    BY DEF ReallocLeft
  <2>2. Block(i) = o /\ Left(i) = p /\ Size(i) = mem[o].size
    BY <1>2
  <2> QED BY ONLY <1>3, <1>4, <1>8, <1>9, <2>1, <2>2
<1>11. Yields(S, i, p, n)
  BY <1>1, <1>2, <1>5, Room
<1>12. m1[p].prev = mem[p].prev
  <2>1. /\ mem \in Mem /\ Tiles(mem, S) /\ n \in S /\ p \in S
    BY <1>1 DEF Sound
  <2>2. c \in Unit /\ size \in Unit /\ rest \in Unit /\ n = c + size + H /\ p \in Unit /\ p < c /\ p < n
    <3>1. n <= End /\ p \in Unit
      BY <2>1, BlockLies
    <3> QED BY <1>5, <1>7, <3>1, Sizes
  <2>3. PICK b \in BOOLEAN : b = TRUE
    OBVIOUS
  <2>4. WriteHeader(mem, c, b, size, rest)[p] = mem[p]
    <3>1. b \in BOOLEAN /\ (b \/ ~ IsFree(mem, n)) /\ n \in Nat
      BY <1>5, <2>3
    <3> QED BY ONLY <2>1, <2>2, <3>1, WriteBehind
  <2> QED BY <1>8, <2>3, <2>4
<1>13. PICK S2 : Settled(w, S2, i, x, size) /\ Intact(mem, w, x, n)
  <2>1. w = WriteHeader(WriteHeader(mem, c, TRUE, size, rest), p, FALSE, rest, mem[p].prev)
    BY <1>8, <1>9, <1>12
  <2> QED BY ONLY <1>4, <1>5, <1>7, <1>11, <2>1, size \in Requests, GrantsLast
<1>14. Found(w, live[i].addr, i)
  <2>1. n >= y + mem[o].size /\ live[i].addr = y
    BY <1>2, <1>4, <1>5, Sizes
  <2>2. Found(w, y, i)
    BY ONLY <1>1, <1>2, <1>4, <1>5, <1>7, <1>13, <2>1, o \in S, StaysThere
  <2> QED BY <2>1, <2>2
<1>15. live[i].size <= size
  BY ONLY <1>2, <1>5
<1> QED BY ONLY <1>2, <1>7, <1>10, <1>13, <1>14, <1>15, i \in Ids, size \in Requests, MovedInv

(* All of the free block on the left: the header before it is the first of *)
(* the heap, for otherwise the code would corrupt it.                      *)
LEMMA AbsorbInv ==
  ASSUME IInv, Corrupting = {}, NEW i \in Ids, NEW size \in Requests, ReallocAbsorb(i, size)
  PROVE  IInv'
<1>1. PICK S : Sound(mem, S, live)
  BY DEF IInv
<1>2. PICK o \in S, p \in S, n \in S :
        /\ o = Block(i) /\ p = Left(i) /\ live[i].addr = o + H
        /\ Own(live, i) = {o} /\ Size(i) = mem[o].size /\ live[i].size <= mem[o].size
        /\ live[i].size \in Nat /\ Between(mem, S, o, p, n)
        /\ live[i].addr + live[i].size < Amount
        /\ Found(mem, o + H, i)
  BY <1>1, BlockIs DEF ReallocAbsorb, Resizing
<1>3. PICK x, y, total : x = p + H /\ y = o + H /\ total = mem[p].size + mem[o].size + H
  OBVIOUS
<1>4. /\ size \in Nat /\ size > 0 /\ o \in Nat /\ n \in Nat /\ p \in Nat
      /\ mem[o].size \in Nat /\ mem[p].size \in Nat /\ mem[p].prev \in Nat
      /\ o = p + H + mem[p].size /\ n = o + H + mem[o].size /\ size >= mem[o].size
      /\ mem[p].size + mem[o].size + H >= size /\ IsFree(mem, p)
  <2>1. /\ o \in Nat /\ n \in Nat /\ p \in Nat
        /\ mem[o].size \in Nat /\ mem[p].size \in Nat /\ mem[p].prev \in Nat
        /\ o = p + H + mem[p].size /\ n = o + H + mem[o].size
    BY <1>2 DEF Between
  <2>2. size >= mem[o].size /\ mem[p].size + mem[o].size + H >= size /\ IsFree(mem, p)
    BY <1>2 DEF ReallocAbsorb, CanLeft
  <2> QED BY <2>1, <2>2, Sizes
<1>5. x \in Nat /\ y \in Nat /\ x <= y /\ total \in Nat /\ p + H + total = n /\ total >= size
  BY ONLY <1>3, <1>4, Sizes
<1>6. ~ (mem[p].prev > 0)
  BY <1>2 DEF ReallocAbsorb
<1>7. PICK w : w = WriteHeader(mem, p, TRUE, total, mem[p].prev)
  OBVIOUS
<1>8. Resized(Move(w, live[i].addr, x, size), i, x, size)
  <2>1. LET p2 == Left(i)
            prev2 == mem[p2].prev
            m2 == WriteHeader(mem, p2, TRUE, mem[p2].size + Size(i) + H, prev2)
            m3 == IF prev2 > 0 THEN WriteHeader(m2, p2, FALSE, prev2, m2[p2].prev) ELSE m2
        IN  Resized(Move(m3, live[i].addr, p2 + H, size), i, p2 + H, size)
    BY DEF ReallocAbsorb
  <2>2. Left(i) = p /\ Size(i) = mem[o].size
    BY <1>2
  <2> QED BY ONLY <1>3, <1>6, <1>7, <2>1, <2>2
<1>9. Yields(S, i, p, n)
  BY <1>1, <1>2, <1>4, Room
<1>10. PICK S2 : Settled(w, S2, i, x, size) /\ Intact(mem, w, x, n)
  BY ONLY <1>3, <1>5, <1>7, <1>9, size \in Requests, GrantsWhole
<1>11. Found(w, live[i].addr, i)
  <2>1. n >= y + mem[o].size /\ live[i].addr = y
    BY <1>2, <1>3, <1>4, Sizes
  <2>2. Found(w, y, i)
    BY ONLY <1>1, <1>2, <1>3, <1>4, <1>5, <1>10, <2>1, o \in S, StaysThere
  <2> QED BY <2>1, <2>2
<1>12. live[i].size <= size
  BY ONLY <1>2, <1>4
<1> QED BY ONLY <1>2, <1>5, <1>8, <1>10, <1>11, <1>12, i \in Ids, size \in Requests, MovedInv

(* Both free neighbours: all of them, or all but a free block at the end.  *)
LEMMA BothInv ==
  ASSUME IInv, Corrupting = {}, NEW i \in Ids, NEW size \in Requests, ReallocBoth(i, size)
  PROVE  IInv'
<1>1. PICK S : Sound(mem, S, live)
  BY DEF IInv
<1>2. PICK o \in S, p \in S, n \in S :
        /\ o = Block(i) /\ p = Left(i) /\ n = Right(i) /\ live[i].addr = o + H
        /\ Own(live, i) = {o} /\ Size(i) = mem[o].size /\ live[i].size <= mem[o].size
        /\ live[i].size \in Nat /\ Between(mem, S, o, p, n)
        /\ live[i].addr + live[i].size < Amount
        /\ IsFree(mem, n) => \E e \in S : Beyond(mem, S, o, p, n, e)
        /\ Found(mem, o + H, i)
  BY <1>1, BlockIs DEF ReallocBoth, Resizing
<1>3. PICK e \in S : Beyond(mem, S, o, p, n, e)
  BY <1>2 DEF ReallocBoth, CanBoth
<1>s. PICK so, sp, sn : so = mem[o].size /\ sp = mem[p].size /\ sn = mem[n].size
  OBVIOUS
<1>4. PICK x, y, c, rest :
        x = p + H /\ y = o + H /\ c = p + size + H /\ rest = sp + so + sn + H - size
  OBVIOUS
<1>5. /\ size \in Nat /\ size > 0 /\ o \in Nat /\ n \in Nat /\ p \in Nat /\ e \in Nat
      /\ so \in Nat /\ sp \in Nat /\ sn \in Nat
      /\ o = p + H + sp /\ n = o + H + so /\ e = n + H + sn
      /\ size >= so /\ ~ (sp + so + H >= size) /\ sp + so + sn + 2 * H >= size
  <2>1. /\ o \in Nat /\ n \in Nat /\ p \in Nat /\ so \in Nat /\ sp \in Nat
        /\ o = p + H + sp /\ n = o + H + so
    BY <1>2, <1>s DEF Between
  <2>2. e \in Nat /\ e = n + H + sn /\ sn \in Nat
    BY <1>3, <1>s DEF Beyond
  <2>3. IsFree(mem, p) /\ mem[Left(i)].size = sp /\ mem[Right(i)].size = sn /\ Size(i) = so
    BY <1>2, <1>s DEF ReallocBoth, CanBoth
  <2>4. size >= so /\ ~ (sp + so + H >= size) /\ sp + so + sn + 2 * H >= size
    BY <1>2, <2>3 DEF ReallocBoth, CanLeft, CanBoth
  <2> QED BY <2>1, <2>2, <2>4, Sizes
<1>f. IsFree(mem, p) /\ mem[e].busy
  BY <1>2, <1>3 DEF ReallocBoth, CanBoth, Beyond
<1>6. rest \in Int /\ (rest = -H \/ rest > 0)
  <2>1. ~ (-H < rest /\ rest <= 0)
    BY <1>2, <1>4, <1>s DEF ReallocBoth
  <2> QED BY ONLY <1>4, <1>5, <2>1, Sizes
<1>7. x \in Nat /\ y \in Nat /\ x <= y /\ c \in Nat /\ c = p + H + size /\ c >= y + so
      /\ c + H + rest = e /\ e >= y + so
  BY ONLY <1>4, <1>5, <1>6, Sizes
<1>8. PICK m1 : m1 = WriteHeader(mem, p, TRUE, size, mem[p].prev)
  OBVIOUS
<1>9. PICK w : w = IF rest > 0 THEN WriteHeader(m1, c, FALSE, rest, size) ELSE m1
  OBVIOUS
<1>10. Resized(Move(w, live[i].addr, x, size), i, x, size)
  <2>1. LET p2 == Left(i)
            rest2 == mem[p2].size + Size(i) + mem[Right(i)].size + H - size
            m2 == WriteHeader(mem, p2, TRUE, size, mem[p2].prev)
            m3 == IF rest2 > 0 THEN WriteHeader(m2, p2 + size + H, FALSE, rest2, size) ELSE m2
        IN  Resized(Move(m3, live[i].addr, p2 + H, size), i, p2 + H, size)
    BY DEF ReallocBoth
  <2>2. /\ Left(i) = p /\ Size(i) = so /\ mem[Right(i)].size = sn /\ mem[p].size = sp
    BY <1>2, <1>s
  <2> QED BY ONLY <1>4, <1>8, <1>9, <2>1, <2>2
<1>11. Yields(S, i, p, e)
  BY <1>1, <1>2, <1>3, <1>f, Room
<1>12. \E S2, z : /\ Settled(w, S2, i, x, size) /\ Intact(mem, w, x, z)
                  /\ z \in Nat /\ z >= y + so
  <2>1. CASE rest > 0
    <3>1. rest \in Nat
      BY ONLY <1>6, <2>1
    <3>2. w = WriteHeader(WriteHeader(mem, p, TRUE, size, mem[p].prev), c, FALSE, rest, size)
      BY <1>8, <1>9, <2>1
    <3>3. PICK S2 : Settled(w, S2, i, x, size) /\ Intact(mem, w, x, c)
      BY ONLY <1>4, <1>5, <1>7, <1>11, <1>f, <3>1, <3>2, size \in Requests, GrantsFirstLate
    <3> QED BY <1>7, <3>3
  <2>2. CASE rest = -H
    <3>1. ~ (rest > 0) /\ p + H + size = e
      BY ONLY <1>5, <1>7, <2>2, Sizes
    <3>2. w = WriteHeader(mem, p, TRUE, size, mem[p].prev)
      BY <1>8, <1>9, <3>1
    <3>3. size \in Nat /\ size >= size
      BY ONLY <1>5
    <3>4. PICK S2 : Settled(w, S2, i, x, size) /\ Intact(mem, w, x, e)
      BY ONLY <1>4, <1>11, <3>1, <3>2, <3>3, size \in Requests, GrantsWhole
    <3> QED BY <1>5, <1>7, <3>4
  <2> QED BY <1>6, <2>1, <2>2
<1>13. PICK S2, z : /\ Settled(w, S2, i, x, size) /\ Intact(mem, w, x, z)
                    /\ z \in Nat /\ z >= y + so
  BY <1>12
<1>14. Found(w, live[i].addr, i)
  <2>1. live[i].addr = y
    BY <1>2, <1>4
  <2>2. Found(w, y, i)
    <3>1. z >= y + mem[o].size
      BY <1>13, <1>s
    <3> QED BY ONLY <1>1, <1>2, <1>4, <1>7, <1>13, <3>1, o \in S, StaysThere
  <2> QED BY <2>1, <2>2
<1>15. live[i].size <= size
  BY ONLY <1>2, <1>5, <1>s
<1> QED BY ONLY <1>2, <1>7, <1>10, <1>13, <1>14, <1>15, i \in Ids, size \in Requests, MovedInv

-----------------------------------------------------------------------------
(* mem_free of a busy block that is nobody's any more.                     *)
SamePayloads(m, w, L) ==
  \A j \in Full(L) : \A k \in Nat : k < L[j].size => w[L[j].addr + k] = m[L[j].addr + k]

(* Once freed, every block that is busy has an owner again, and the        *)
(* payloads of all owners are as they were.                                *)
LEMMA Emptied ==
  ASSUME NEW m, NEW S, m \in Mem, Tiles(m, S), NEW L, Owns(m, S, L), NEW r, r \in S,
         Busy(m, S) = {0, End} \cup Heads(L) \cup {r}, r \notin Heads(L), r # 0, r # End,
         NEW w, w = Freed(m, r + H)
  PROVE  \E S2 : /\ w \in Mem /\ Tiles(w, S2) /\ Owns(w, S2, L)
                 /\ Busy(w, S2) = {0, End} \cup Heads(L) /\ SamePayloads(m, w, L)
<1>1. m[r].busy
  BY DEF Busy
<1>2. PICK a \in S, e \in S, S2 \in SUBSET Unit :
        /\ a # 0 /\ a <= r /\ r < e /\ Cuts(m, S, w, S2, a, e, {})
        /\ \A q \in Busy(m, S) : q >= a /\ q < e => q = r
  BY <1>1, FreedIs
<1>3. /\ w \in Mem /\ Tiles(w, S2) /\ Off(m, w, a, e)
      /\ \A o \in Outside(S, a, e) : Same(m, w, o)
      /\ Busy(w, S2) = Outside(Busy(m, S), a, e)
  BY <1>2 DEF Cuts
<1>4. a \in Nat /\ e \in Nat /\ r \in Nat /\ \A q \in Busy(m, S) : q \in Nat
  BY BlockLies DEF Busy
<1>5. Outside(Busy(m, S), a, e) = Busy(m, S) \ {r}
  <2>1. ASSUME NEW q \in Busy(m, S) PROVE q < a \/ q >= e <=> q # r
    <3>1. q \in Nat /\ (q >= a /\ q < e => q = r)
      BY <1>2, <1>4
    <3> QED BY ONLY <1>2, <1>4, <3>1
  <2> QED BY <2>1 DEF Outside
<1>6. Busy(w, S2) = {0, End} \cup Heads(L)
  BY <1>3, <1>5
<1>7. ASSUME NEW j \in Full(L)
      PROVE  \E q \in Outside(S, a, e) :
               /\ q = L[j].addr - H /\ q \in Nat /\ q # 0 /\ q # End /\ L[j].addr = q + H
               /\ L[j].size \in Nat /\ m[q].size \in Nat /\ L[j].size <= m[q].size
               /\ w[q].size = m[q].size /\ q \in Busy(w, S2)
  <2>1. PICK q \in Busy(m, S) : q = L[j].addr - H /\ q # 0 /\ q # End
    BY DEF Owns
  <2>2. q \in Heads(L) /\ q # r
    BY <2>1 DEF Heads
  <2>3. q \in Outside(Busy(m, S), a, e) /\ q \in Outside(S, a, e) /\ q \in S
    BY <1>5, <2>2 DEF Outside, Busy
  <2>4. L[j].addr = q + H
    <3>1. L[j].addr \in Nat
      BY DEF Owns
    <3> QED BY <2>1, <3>1, Sizes
  <2>5. q \in Nat /\ m[q].size \in Nat
    BY <2>3, BlockLies
  <2>6. L[j].size \in Nat /\ L[j].size <= m[q].size
    BY <2>1, Sizes DEF Owns
  <2>7. w[q].size = m[q].size
    BY <1>3, <2>3 DEF Same
  <2> QED BY <1>3, <2>1, <2>3, <2>4, <2>5, <2>6, <2>7
<1>8. Owns(w, S2, L)
  <2>1. ASSUME NEW j \in Full(L)
        PROVE  /\ L[j].addr \in Nat /\ L[j].addr - H \in Busy(w, S2) \ {0, End}
               /\ L[j].size \in Requests /\ L[j].size <= w[L[j].addr - H].size
    <3>1. L[j].addr \in Nat /\ L[j].size \in Requests
      BY DEF Owns
    <3>2. L[j].addr - H \in Busy(w, S2) \ {0, End} /\ L[j].size <= w[L[j].addr - H].size
      BY <1>7
    <3> QED BY <3>1, <3>2
  <2> QED BY <2>1 DEF Owns
<1>9. SamePayloads(m, w, L)
  <2> SUFFICES ASSUME NEW j \in Full(L), NEW k \in Nat, k < L[j].size
               PROVE  w[L[j].addr + k] = m[L[j].addr + k]
    BY DEF SamePayloads
  <2>1. PICK q \in Outside(S, a, e) :
               /\ q \in Nat /\ L[j].addr = q + H
               /\ L[j].size \in Nat /\ m[q].size \in Nat /\ L[j].size <= m[q].size
    BY <1>7
  <2>2. k < m[q].size
    BY ONLY <2>1, k \in Nat, k < L[j].size
  <2>3. w[q + H + k] = m[q + H + k]
    BY <1>2, <1>3, <1>4, <2>2, PayloadApart
  <2> QED BY <2>1, <2>3
<1> QED BY <1>3, <1>6, <1>8, <1>9

(* mem_free keeps the invariant.                                           *)
LEMMA FreeInv ==
  ASSUME IInv, NEW i \in Ids, Free(i)
  PROVE  IInv'
<1>1. PICK S : Sound(mem, S, live)
  BY DEF IInv
<1>2. PICK r \in S : /\ live[i].addr = r + H /\ Own(live, i) = {r} /\ r # 0 /\ r # End /\ live[i] # None
  BY <1>1, BlockIs DEF Free, Between
<1>3. PICK L : L = [live EXCEPT ![i] = None]
  OBVIOUS
<1>4. L[i] = None /\ \A j \in Ids : j # i => L[j] = live[j]
  BY <1>1, <1>3 DEF Sound
<1>5. Full(L) = Full(live) \ {i} /\ \A j \in Full(L) : L[j] = live[j]
  BY <1>4 DEF Full
<1>6. Tiles(mem, S) /\ Owns(mem, S, live) /\ mem \in Mem /\ Busy(mem, S) = {0, End} \cup Heads(live)
  BY <1>1 DEF Sound
<1>7. Owns(mem, S, L)
  BY <1>5, <1>6 DEF Owns
<1>8. Heads(L) = Heads(live) \ {r}
  <2>1. Heads(L) = (Heads(live) \ Own(live, i)) \cup Own(L, i)
    BY <1>4, <1>6, HeadsBut
  <2> QED BY <1>2, <1>4, <2>1 DEF Own
<1>9. r \in Heads(live)
  <2>1. r = live[i].addr - H
    BY <1>2 DEF Own
  <2> QED BY <1>2, <2>1 DEF Heads, Full
<1>10. PICK w : w = Freed(mem, r + H)
  OBVIOUS
<1>11. PICK S2 : /\ w \in Mem /\ Tiles(w, S2) /\ Owns(w, S2, L)
                 /\ Busy(w, S2) = {0, End} \cup Heads(L) /\ SamePayloads(mem, w, L)
  <2>1. Busy(mem, S) = {0, End} \cup Heads(L) \cup {r} /\ r \notin Heads(L) /\ r \in S
    BY <1>6, <1>8, <1>9
  <2> QED BY ONLY <1>2, <1>6, <1>7, <1>10, <2>1, Emptied
<1>12. ASSUME NEW j \in Full(L) PROVE Keeps(w, L, j)
  <2>1. Keeps(mem, live, j) /\ L[j] = live[j]
    BY <1>1, <1>5, <1>12 DEF Sound
  <2> QED BY <1>11, <1>12, <2>1 DEF Keeps, SamePayloads
<1>13. L \in [Ids -> [addr : Unit, size : Unit]]
  <2>1. None \in [addr : Unit, size : Unit]
    BY Sizes DEF None
  <2> QED BY <1>1, <1>3, <2>1 DEF Sound
<1>14. Sound(w, S2, L)
  BY <1>11, <1>12, <1>13 DEF Sound
<1>15. Done(w, L)
  BY <1>2, <1>3, <1>10 DEF Free
<1> QED BY ONLY <1>14, <1>15, DoneInv

(* mem_alloc finds the first block that fits.                              *)
LEMMA FoundIs ==
  ASSUME NEW S, Sound(mem, S, live), NEW size \in Requests, Fits(mem, size) # {}
  PROVE  \E o \in S, e \in S : \E S2 :
           /\ o = FirstFit(mem, size) /\ o # 0 /\ o # End /\ o \in Nat /\ o < e /\ ~ mem[o].busy
           /\ Cuts(mem, S, Placed(mem, o, size), S2, o, e, {o})
           /\ Placed(mem, o, size)[o].size >= size
           /\ \A q \in Busy(mem, S) : ~ (q >= o /\ q < e)
<1>1. mem \in Mem /\ Tiles(mem, S) /\ Walk(mem) = S
  BY WalkIs DEF Sound
<1>2. Fits(mem, size) \in SUBSET Unit
  BY <1>1 DEF Fits, Tiles
<1>3. FirstFit(mem, size) \in Fits(mem, size)
  <2>1. \E o \in Fits(mem, size) : \A p \in Fits(mem, size) : o <= p
    <3> HIDE DEF Fits
    <3> QED BY <1>2, LeastOf
  <2> QED BY <2>1 DEF FirstFit
<1>4. PICK o \in S : o = FirstFit(mem, size) /\ ~ mem[o].busy /\ mem[o].size >= size
  BY <1>1, <1>3 DEF Fits, IsFree
<1>5. PICK w : w = Placed(mem, o, size)
  OBVIOUS
<1>6. PICK e \in S, S2 \in SUBSET Unit :
           /\ o # 0 /\ o # End /\ e = Next(mem, o) /\ o < e /\ o \in Nat
           /\ Cuts(mem, S, w, S2, o, e, {o}) /\ w[o].size >= size
  BY <1>1, <1>4, <1>5, PlacedIs
<1>7. ASSUME NEW q \in Busy(mem, S), q >= o, q < e PROVE FALSE
  <2>1. q \in S /\ q # o
    BY <1>4 DEF Busy
  <2>2. q \in Nat /\ e \in Nat
    BY <1>1, <2>1, BlockLies
  <2>3. q > o
    BY ONLY <1>6, <1>7, <2>1, <2>2
  <2>4. q >= e
    BY <1>1, <1>6, <2>1, <2>3 DEF Tiles
  <2> QED BY ONLY <1>7, <2>2, <2>4
<1> QED BY <1>4, <1>5, <1>6, <1>7

(* mem_alloc keeps the invariant, whether a block is found or not.         *)
LEMMA AllocInv ==
  ASSUME IInv, NEW i \in Ids, NEW size \in Requests, Alloc(i, size)
  PROVE  IInv'
<1>1. PICK S : Sound(mem, S, live)
  BY DEF IInv
<1>2. live[i] = None /\ Fits(mem, size) # {} /\ Own(live, i) = {}
  BY DEF Alloc, Own
<1>3. PICK o, e, S2 :
           /\ o \in S /\ e \in S
           /\ o = FirstFit(mem, size) /\ o # 0 /\ o # End /\ o \in Nat /\ o < e /\ ~ mem[o].busy
           /\ Cuts(mem, S, Placed(mem, o, size), S2, o, e, {o})
           /\ Placed(mem, o, size)[o].size >= size
           /\ \A q \in Busy(mem, S) : ~ (q >= o /\ q < e)
  BY <1>1, <1>2, FoundIs
<1>4. PICK w, x : w = Placed(mem, o, size) /\ x = o + H
  OBVIOUS
<1>5. Yields(S, i, o, e)
  BY <1>1, <1>2, <1>3 DEF Yields
<1>6. Settled(w, S2, i, x, size)
  <2>1. o \in Nat /\ o >= o /\ o < e /\ Cuts(mem, S, w, S2, o, e, {o}) /\ w[o].size >= size
    BY <1>3, <1>4
  <2> QED BY ONLY <1>4, <1>5, <2>1, size \in Requests, Regrants
<1>7. PICK L, L2, from : L = live /\ L2 = With(i, x, size) /\ from = 0
  OBVIOUS
<1>8. /\ w \in Mem /\ Tiles(w, S2) /\ L \in [Ids -> [addr : Unit, size : Unit]]
      /\ Owns(w, S2, L2) /\ Busy(w, S2) = {0, End} \cup Heads(L2)
      /\ \A j \in Full(L) : j # i => Keeps(w, L, j)
  BY <1>6, <1>7 DEF Settled, Granted
<1>9. Done(Fill(w, i, x, from, size), L2)
  BY <1>3, <1>4, <1>7 DEF Alloc, With
<1>10. /\ \A k \in Nat : k < from /\ k < size => w[x + k] = Data(i, k)
       /\ from \in Nat /\ x \in Nat
       /\ L2 = [L EXCEPT ![i] = [addr |-> x, size |-> size]]
  BY <1>3, <1>4, <1>7, Sizes DEF With
<1> QED BY ONLY <1>8, <1>9, <1>10, i \in Ids, size \in Requests, FilledInv

(* mem_alloc, memmove and mem_free of the old block.                       *)
LEMMA MoveInv ==
  ASSUME IInv, NEW i \in Ids, NEW size \in Requests, ReallocMove(i, size)
  PROVE  IInv'
<1>1. PICK S : Sound(mem, S, live)
  BY DEF IInv
<1>2. PICK r \in S :
        /\ live[i].addr = r + H /\ Own(live, i) = {r} /\ live[i].size <= mem[r].size
        /\ live[i].size \in Nat /\ r # 0 /\ r # End /\ r \in Nat /\ mem[r].busy /\ live[i] # None
        /\ Size(i) = mem[r].size /\ live[i].addr + live[i].size < Amount
  BY <1>1, BlockIs DEF ReallocMove, Resizing, Between
<1>3. /\ Fits(mem, size) # {} /\ size >= mem[r].size /\ mem[r].size \in Nat /\ size \in Nat
      /\ live[i].size <= size
  <2>1. Fits(mem, size) # {} /\ size >= mem[r].size
    BY <1>2 DEF ReallocMove
  <2>2. mem[r].size \in Nat /\ size \in Nat
    BY <1>1, BlockLies, Sizes DEF Sound
  <2> QED BY <1>2, <2>1, <2>2
<1>4. PICK o, e, S2 :
           /\ o \in S /\ e \in S
           /\ o = FirstFit(mem, size) /\ o # 0 /\ o # End /\ o \in Nat /\ o < e /\ ~ mem[o].busy
           /\ Cuts(mem, S, Placed(mem, o, size), S2, o, e, {o})
           /\ Placed(mem, o, size)[o].size >= size
           /\ \A q \in Busy(mem, S) : ~ (q >= o /\ q < e)
  BY <1>1, <1>3, FoundIs
<1>5. PICK w, x, L2 : w = Placed(mem, o, size) /\ x = o + H /\ L2 = With(i, x, size)
  OBVIOUS
<1>6. /\ Tiles(mem, S) /\ Owns(mem, S, live) /\ mem \in Mem
      /\ Busy(mem, S) = {0, End} \cup Heads(live)
      /\ live \in [Ids -> [addr : Unit, size : Unit]] /\ i \in Full(live)
      /\ \A j \in Full(live) : Keeps(mem, live, j)
  BY <1>1, <1>2 DEF Sound, Full
<1>7. /\ w \in Mem /\ Tiles(w, S2) /\ Off(mem, w, o, e)
      /\ \A q \in Outside(S, o, e) : Same(mem, w, q)
      /\ Busy(w, S2) = Outside(Busy(mem, S), o, e) \cup {o} /\ w[o].size >= size
  BY <1>4, <1>5 DEF Cuts
<1>8. /\ L2[i].addr = x /\ L2[i].size = size /\ \A j \in Ids : j # i => L2[j] = live[j]
  BY <1>5, <1>6, WithIs
<1>9. x \in Nat /\ x - H = o /\ size > 0 /\ e \in Nat
  <2>1. size > 0 /\ e \in Nat
    BY <1>4, <1>6, BlockLies, Sizes
  <2> QED BY ONLY <1>4, <1>5, <2>1, Sizes
<1>10. L2[i] # None /\ Own(L2, i) = {o} /\ i \in Full(L2)
  BY ONLY <1>8, <1>9, i \in Ids DEF None, Own, Full
<1>11. Outside(Busy(mem, S), o, e) = Busy(mem, S)
  <2>1. ASSUME NEW q \in Busy(mem, S) PROVE q < o \/ q >= e
    <3>1. q \in Nat
      BY <1>6, BlockLies DEF Busy
    <3>2. ~ (q >= o /\ q < e)
      BY <1>4
    <3> QED BY ONLY <1>4, <1>9, <3>1, <3>2
  <2> QED BY <2>1 DEF Outside
<1>12. \A j \in Full(live) : live[j].addr - H \in Outside(S, o, e)
  <2>1. \A j \in Full(live) : live[j].addr - H \in Outside(Busy(mem, S), o, e)
    BY <1>6, <1>11 DEF Owns
  <2> QED BY <2>1 DEF Outside, Busy
<1>13. Owns(w, S2, L2)
  <2>1. /\ o \in S /\ o # 0 /\ e \in S /\ o < e /\ i \in Ids
        /\ Outside(Busy(mem, S), o, e) \subseteq Busy(w, S2)
        /\ \A j \in Ids : j # i => L2[j] = live[j]
        /\ \A j \in Full(live) : j # i => live[j].addr - H \in Outside(S, o, e)
    BY <1>4, <1>7, <1>8, <1>12
  <2>2. /\ L2[i].addr \in Nat /\ L2[i].addr - H \in Busy(w, S2)
        /\ L2[i].addr - H >= o /\ L2[i].addr - H < e
        /\ L2[i].size \in Requests /\ L2[i].size <= w[L2[i].addr - H].size
    <3>1. L2[i].addr - H = o /\ L2[i].addr \in Nat
      BY ONLY <1>8, <1>9
    <3>2. o \in Busy(w, S2) /\ o >= o /\ o < e /\ size \in Requests
      BY <1>4, <1>7
    <3>3. size <= w[o].size
      <4>1. o \in S2
        BY <3>2 DEF Busy
      <4>2. w[o].size \in Nat
        BY <1>7, <4>1, BlockLies
      <4> QED BY <1>3, <1>7, <4>2
    <3> QED BY <1>8, <3>1, <3>2, <3>3
  <2>3. PICK m, L : m = mem /\ L = live
    OBVIOUS
  <2>4. /\ Tiles(m, S) /\ Owns(m, S, L) /\ o \in S /\ o # 0 /\ e \in S /\ o < e
        /\ \A q \in Outside(S, o, e) : Same(m, w, q)
        /\ Outside(Busy(m, S), o, e) \subseteq Busy(w, S2)
        /\ i \in Ids /\ \A j \in Ids : j # i => L2[j] = L[j]
    BY <1>6, <1>7, <2>1, <2>3
  <2>5. \A j \in Full(L) : j # i => L[j].addr - H \in Outside(S, o, e)
    BY <2>1, <2>3
  <2> QED BY ONLY <2>2, <2>4, <2>5, Settle
<1>14. \A j \in Full(live) : Keeps(w, live, j)
  BY <1>4, <1>6, <1>7, <1>12, KeptOutside
<1>15. PICK m1 : m1 = Move(w, r + H, x, size)
  OBVIOUS
<1>16. Moves(w, m1, r + H, x, size)
  <2>1. PICK y : y = r + H /\ y \in Nat
    BY <1>2, Sizes
  <2>2. m1 = Move(w, y, x, size) /\ w \in Mem /\ x \in Nat /\ size \in Nat
    BY <1>3, <1>7, <1>9, <1>15, <2>1
  <2>3. Moves(w, m1, y, x, size)
    BY ONLY <2>1, <2>2, MoveIs
  <2> QED BY <2>1, <2>3
<1>17. /\ m1 \in Mem /\ Tiles(m1, S2) /\ Owns(m1, S2, L2) /\ Busy(m1, S2) = Busy(w, S2)
       /\ \A j \in Full(L2) : j # i /\ Keeps(w, L2, j) => Keeps(m1, L2, j)
  <2>1. m1 \in Mem /\ \A u \in Unit : u < L2[i].addr \/ u >= L2[i].addr + L2[i].size => m1[u] = w[u]
    BY <1>8, <1>16 DEF Moves
  <2>2. Tiles(w, S2)
    BY <1>7
  <2> QED BY ONLY <1>10, <1>13, <2>1, <2>2, WriteOwn
<1>18. \A k \in Nat : k < size => x + k \in Unit
  <2>1. \A k \in Nat : k < L2[i].size => L2[i].addr + k \in Unit
    BY <1>10, <1>17, OwnUnits
  <2> QED BY <1>8, <2>1
<1>19. ASSUME NEW k, k \in Nat, k < live[i].size PROVE m1[x + k] = Data(i, k)
  <2>1. k < size
    BY ONLY <1>2, <1>3, <1>19
  <2>2. r + H + k \in Unit
    <3>1. r + H + live[i].size < Amount
      BY <1>2
    <3> QED BY ONLY <1>2, <1>19, <3>1, Sizes
  <2>3. m1[x + k] = w[r + H + k]
    BY <1>16, <1>18, <1>19, <2>1, <2>2 DEF Moves
  <2>4. w[live[i].addr + k] = Data(i, k)
    BY <1>6, <1>14, <1>19 DEF Keeps
  <2> QED BY <1>2, <2>3, <2>4
<1>20. /\ Busy(m1, S2) = {0, End} \cup Heads(L2) \cup {r} /\ r \notin Heads(L2)
       /\ r \in S2
  <2>1. Heads(L2) = (Heads(live) \ {r}) \cup {o}
    <3>1. Heads(L2) = (Heads(live) \ Own(live, i)) \cup Own(L2, i)
      BY <1>6, <1>8, HeadsBut
    <3> QED BY <1>2, <1>10, <3>1
  <2>2. r \in Heads(live)
    <3>1. r = live[i].addr - H
      BY <1>2 DEF Own
    <3> QED BY <1>6, <3>1 DEF Heads
  <2>3. r # o
    BY <1>2, <1>4
  <2>4. Busy(m1, S2) = {0, End} \cup Heads(live) \cup {o}
    BY <1>6, <1>7, <1>11, <1>17
  <2>5. r \in S2
    <3>1. r \in Busy(m1, S2)
      BY <2>2, <2>4
    <3> QED BY <3>1 DEF Busy
  <2> QED BY <2>1, <2>2, <2>3, <2>4, <2>5
<1>21. PICK w3 : w3 = Freed(m1, r + H)
  OBVIOUS
<1>22. PICK S3 : /\ w3 \in Mem /\ Tiles(w3, S3) /\ Owns(w3, S3, L2)
                 /\ Busy(w3, S3) = {0, End} \cup Heads(L2) /\ SamePayloads(m1, w3, L2)
  BY ONLY <1>2, <1>17, <1>20, <1>21, Emptied
<1>23. ASSUME NEW j \in Full(live), j # i PROVE Keeps(w3, live, j)
  <2>1. L2[j] = live[j] /\ j \in Full(L2)
    BY <1>8, <1>23 DEF Full
  <2>2. Keeps(w, L2, j)
    BY <1>14, <2>1 DEF Keeps
  <2>3. Keeps(m1, L2, j)
    BY <1>17, <1>23, <2>1, <2>2
  <2> QED BY <1>22, <2>1, <2>3 DEF Keeps, SamePayloads
<1>24. Settled(w3, S3, i, x, size)
  BY <1>5, <1>6, <1>22, <1>23 DEF Settled, Granted
<1>25. ASSUME NEW k \in Nat, k < live[i].size, k < size PROVE w3[x + k] = Data(i, k)
  <2>1. m1[x + k] = Data(i, k)
    BY <1>19, <1>25
  <2>2. w3[x + k] = m1[x + k]
    BY <1>8, <1>10, <1>22, <1>25 DEF SamePayloads
  <2> QED BY <2>1, <2>2
<1>26. Resized(w3, i, x, size)
  <2>1. LET o2 == FirstFit(mem, size)
            m2 == Move(Placed(mem, o2, size), live[i].addr, o2 + H, size)
        IN  Resized(Freed(m2, live[i].addr), i, o2 + H, size)
    BY DEF ReallocMove
  <2> QED BY ONLY <1>2, <1>4, <1>5, <1>15, <1>21, <2>1
<1> QED BY ONLY <1>9, <1>24, <1>25, <1>26, i \in Ids, size \in Requests, ResizedInv

-----------------------------------------------------------------------------
(* The invariant holds.                                                    *)
Written(m, w, o, h) ==
  w \in Mem /\ w[o] = h /\ \A u \in Unit : u < o => w[u] = m[u]

(* A raw header write leaves what lies before it alone.                    *)
LEMMA RawWrites ==
  ASSUME NEW m, m \in Mem, NEW o, o \in Unit, NEW h, h \in Headers, NEW w, w = Raw(m, o, h)
  PROVE  Written(m, w, o, h)
<1>1. o \in Nat /\ h \in Headers \cup {Tail}
  BY Sizes
<1>2. /\ Raw(m, o, h) \in Mem
      /\ o \in Unit => Raw(m, o, h)[o] = h
      /\ \A u \in Unit : u < o \/ u >= o + H => Raw(m, o, h)[u] = m[u]
  BY <1>1, RawIs
<1> QED BY <1>2 DEF Written

(* alc_init: three headers, one free block.                                *)
LEMMA InitInv == Init => IInv
<1> SUFFICES ASSUME Init PROVE IInv
  OBVIOUS
<1>1. PICK m0, m1, m2 :
        /\ m0 = [u \in Unit |-> Fresh] /\ m1 = Raw(m0, 0, Head(TRUE, 0, 0))
        /\ m2 = Raw(m1, H, Head(FALSE, Amount - 3 * H, 0))
  OBVIOUS
<1>2. mem = Raw(m2, End, Head(TRUE, 0, 0))
  BY <1>1 DEF Init, End
<1>3. PICK size : size = Amount - 3 * H
  OBVIOUS
<1>4. /\ 0 \in Unit /\ H \in Unit /\ End \in Unit /\ size \in Unit /\ size \in Nat
      /\ 0 < H /\ H < End /\ End >= 2 * H /\ H + H + size = End
  BY <1>3, Sizes
<1>5. PICK b \in BOOLEAN, d \in BOOLEAN : b /\ ~ d
  OBVIOUS
<1>6. /\ Head(b, 0, 0) \in Headers /\ Head(d, size, 0) \in Headers
      /\ Head(TRUE, 0, 0) = Head(b, 0, 0) /\ Head(FALSE, Amount - 3 * H, 0) = Head(d, size, 0)
  <2>1. Head(b, 0, 0) \in Headers /\ Head(d, size, 0) \in Headers
    BY <1>4, HeadIs
  <2>2. b = TRUE /\ d = FALSE
    BY <1>5
  <2> QED BY <1>3, <2>1, <2>2
<1>7. m0 \in Mem
  BY <1>1 DEF Mem
<1>8. Written(m0, m1, 0, Head(b, 0, 0))
  <2>1. m1 = Raw(m0, 0, Head(b, 0, 0))
    BY <1>1, <1>6
  <2> QED BY ONLY <1>4, <1>6, <1>7, <2>1, RawWrites
<1>9. Written(m1, m2, H, Head(d, size, 0))
  <2>1. m2 = Raw(m1, H, Head(d, size, 0)) /\ m1 \in Mem
    BY <1>1, <1>6, <1>8 DEF Written
  <2> QED BY ONLY <1>4, <1>6, <2>1, RawWrites
<1>w. Written(m2, mem, End, Head(b, 0, 0))
  <2>1. mem = Raw(m2, End, Head(b, 0, 0)) /\ m2 \in Mem
    BY <1>2, <1>6, <1>9 DEF Written
  <2> QED BY ONLY <1>4, <1>6, <2>1, RawWrites
<1>10. /\ mem \in Mem /\ mem[End] = Head(b, 0, 0) /\ mem[H] = Head(d, size, 0)
       /\ mem[0] = Head(b, 0, 0)
  <2>1. m1[0] = Head(b, 0, 0)
    BY <1>8 DEF Written
  <2>2. m2[H] = Head(d, size, 0) /\ m2[0] = m1[0]
    BY <1>4, <1>9 DEF Written
  <2>3. mem \in Mem /\ mem[End] = Head(b, 0, 0) /\ mem[H] = m2[H] /\ mem[0] = m2[0]
    BY <1>4, <1>w, Sizes DEF Written
  <2> QED BY <2>1, <2>2, <2>3
<1>11. /\ mem[0] \in Headers /\ mem[0].busy = b /\ mem[0].size = 0 /\ mem[0].prev = 0
       /\ mem[H] \in Headers /\ mem[H].busy = d /\ mem[H].size = size /\ mem[H].prev = 0
       /\ mem[End] \in Headers /\ mem[End].busy = b /\ mem[End].size = 0
  BY <1>4, <1>6, <1>10, HeadIs
<1>12. PICK S : S = {0, H, End}
  OBVIOUS
<1>13. Next(mem, 0) = H /\ Next(mem, H) = End
  BY <1>4, <1>11, Sizes DEF Next
<1>14. Tiles(mem, S)
  <2>1. /\ S \subseteq Unit /\ 0 \in S /\ End \in S
        /\ \A o \in S : mem[o] \in Headers
        /\ mem[0].busy /\ mem[0].size = 0 /\ mem[End].busy /\ mem[End].size = 0
    BY <1>4, <1>5, <1>11, <1>12
  <2>2. \A o \in S : o # End => Next(mem, o) \in S
    BY <1>12, <1>13
  <2>3. \A o, p \in S : p > o => p >= Next(mem, o)
    BY <1>4, <1>12, <1>13, Sizes
  <2>4. \A o \in S : o # End /\ Next(mem, o) # End => mem[Next(mem, o)].prev = mem[o].size
    BY <1>11, <1>12, <1>13
  <2>5. \A o \in S : o # End => mem[o].busy \/ mem[Next(mem, o)].busy
    BY <1>5, <1>11, <1>12, <1>13
  <2> QED BY <2>1, <2>2, <2>3, <2>4, <2>5 DEF Tiles
<1>15. live = [i \in Ids |-> None] /\ None \in [addr : Unit, size : Unit]
  BY <1>4 DEF Init, None
<1>16. Full(live) = {} /\ Heads(live) = {}
  BY <1>15 DEF Full, Heads
<1>17. Owns(mem, S, live)
  BY <1>16 DEF Owns
<1>18. Busy(mem, S) = {0, End} \cup Heads(live)
  BY <1>4, <1>5, <1>11, <1>12, <1>16, Sizes DEF Busy
<1>19. Sound(mem, S, live)
  BY <1>10, <1>14, <1>15, <1>16, <1>17, <1>18 DEF Sound
<1>20. S \in SUBSET Unit
  BY <1>14 DEF Tiles
<1> QED BY <1>19, <1>20 DEF IInv

(* Every call keeps the invariant.                                         *)
LEMMA StepInv == ASSUME Corrupting = {} PROVE IInv /\ [Step]_vars => IInv'
<1> SUFFICES ASSUME IInv, [Step]_vars PROVE IInv'
  OBVIOUS
<1>1. CASE Step
  <2>1. PICK i \in Ids :
          \/ Free(i)
          \/ \E size \in Requests :
               \/ Alloc(i, size)
               \/ ReallocShrink(i, size) \/ ReallocRight(i, size)
               \/ ReallocLeft(i, size) \/ ReallocAbsorb(i, size)
               \/ ReallocBoth(i, size) \/ ReallocMove(i, size)
    BY <1>1 DEF Step
  <2>2. CASE Free(i)
    BY <2>2, FreeInv
  <2>3. ASSUME NEW size \in Requests, Alloc(i, size) PROVE IInv'
    BY <2>3, AllocInv
  <2>4. ASSUME NEW size \in Requests, ReallocShrink(i, size) PROVE IInv'
    BY <2>4, ShrinkInv
  <2>5. ASSUME NEW size \in Requests, ReallocRight(i, size) PROVE IInv'
    BY <2>5, RightInv
  <2>6. ASSUME NEW size \in Requests, ReallocLeft(i, size) PROVE IInv'
    BY <2>6, LeftInv
  <2>7. ASSUME NEW size \in Requests, ReallocAbsorb(i, size) PROVE IInv'
    BY <2>7, AbsorbInv
  <2>8. ASSUME NEW size \in Requests, ReallocBoth(i, size) PROVE IInv'
    BY <2>8, BothInv
  <2>9. ASSUME NEW size \in Requests, ReallocMove(i, size) PROVE IInv'
    BY <2>9, MoveInv
  <2> QED BY <2>1, <2>2, <2>3, <2>4, <2>5, <2>6, <2>7, <2>8, <2>9
<1>2. CASE UNCHANGED vars
  BY <1>2 DEF vars, IInv, Sound, Tiles, Owns, Busy, Keeps, Heads, Full, Next
<1> QED BY <1>1, <1>2

(* So it holds at all times.                                               *)
LEMMA InvHolds == ASSUME Corrupting = {} PROVE Spec => []IInv
BY InitInv, StepInv, PTL DEF Spec

-----------------------------------------------------------------------------
(* What the invariant says.                                                *)
LEMMA HeadsAreOne ==
  ASSUME NEW m, NEW S, NEW L, Sound(m, S, L)
  PROVE  Cardinality(Heads(L)) = Cardinality(Full(L))
<1> DEFINE f == [i \in Full(L) |-> L[i].addr - H]
<1>1. \A i \in Full(L) : L[i].addr \in Nat
  BY DEF Sound, Owns
<1>2. ASSUME NEW i \in Full(L), NEW j \in Full(L), f[i] = f[j] PROVE i = j
  <2>1. L[i].addr = L[j].addr
    BY <1>1, <1>2, Sizes
  <2> QED BY <2>1 DEF Sound, Owns
<1>3. f \in [Full(L) -> Heads(L)] /\ \A h \in Heads(L) : \E i \in Full(L) : f[i] = h
  BY DEF Heads
<1>4. f \in Bijection(Full(L), Heads(L))
  <2> HIDE DEF f
  <2> QED BY <1>2, <1>3, Fun_IsBij
<1>5. ExistsBijection(Heads(L), Full(L))
  <2>1. ExistsBijection(Full(L), Heads(L))
    BY <1>4, Fun_ExistsBij
  <2> QED BY <2>1, Fun_ExistsBijSymmetric
<1>6. IsFiniteSet(Heads(L))
  <2>1. IsFiniteSet(Unit)
    BY Sizes, FS_Interval DEF Unit
  <2>2. Heads(L) \subseteq Unit
    BY DEF Sound, Tiles, Busy
  <2> QED BY <2>1, <2>2, FS_Subset
<1> QED BY <1>5, <1>6, FS_Bijection

(* The invariant gives all parts of WellFormed, ...                        *)
LEMMA InvIsWellFormed == IInv => WellFormed
<1> SUFFICES ASSUME NEW S, Sound(mem, S, live) PROVE WellFormed
  BY DEF IInv
<1>1. /\ mem \in Mem /\ live \in [Ids -> [addr : Unit, size : Unit]] /\ Tiles(mem, S)
      /\ Owns(mem, S, live) /\ Busy(mem, S) = {0, End} \cup Heads(live) /\ Walk(mem) = S
  BY WalkIs DEF Sound
<1>2. TypeOK
  BY <1>1 DEF TypeOK, Mem
<1>3. Tiled
  <2>1. Next(mem, End) = Amount /\ End + H = Amount /\ H > 0 /\ Amount - H = End
    BY <1>1, Sizes DEF Tiles, Next, End
  <2>2. ASSUME NEW o \in S PROVE Next(mem, o) = Amount \/ IsHead(mem, Next(mem, o))
    BY <1>1, <2>1 DEF Tiles, IsHead
  <2>3. ASSUME NEW o \in S, Next(mem, o) < Amount
        PROVE  /\ Next(mem, o) # Amount - H => mem[Next(mem, o)].prev = mem[o].size
               /\ mem[o].busy \/ mem[Next(mem, o)].busy
    <3>1. o # End
      BY <2>1, <2>3, Sizes
    <3> QED BY <1>1, <2>1, <3>1 DEF Tiles
  <2> QED BY <1>1, <2>2, <2>3 DEF Tiled
<1>4. BusyIsOwned
  <2>1. {o \in Walk(mem) : mem[o].busy} \ {0, Amount - H} = Heads(live)
    <3>1. Heads(live) \cap {0, End} = {}
      BY <1>1 DEF Owns, Heads
    <3> QED BY <1>1, <3>1 DEF Busy, End
  <2>2. Heads(live) = {Block(i) : i \in {j \in Ids : live[j] # None}}
    BY DEF Heads, Full, Block
  <2>3. Cardinality(Heads(live)) = Cardinality({j \in Ids : live[j] # None})
    BY HeadsAreOne DEF Full
  <2>4. ASSUME NEW i \in Ids, live[i] # None PROVE Size(i) >= live[i].size
    <3>1. live[i].addr - H \in S /\ live[i].size \in Nat /\ live[i].size <= mem[live[i].addr - H].size
      BY <1>1, <2>4, Sizes DEF Owns, Full, Busy
    <3>2. mem[live[i].addr - H].size \in Nat
      BY <1>1, <3>1, BlockLies
    <3> QED BY <3>1, <3>2 DEF Size, Block
  <2> QED BY <2>1, <2>2, <2>3, <2>4 DEF BusyIsOwned
<1> QED BY <1>2, <1>3, <1>4 DEF WellFormed

(* ... and what owners find in their blocks, ...                           *)
LEMMA InvKeeps == IInv => ContentsKept
<1> SUFFICES ASSUME NEW S, Sound(mem, S, live), NEW i \in Ids, NEW k \in 0 .. live[i].size - 1
             PROVE  mem[live[i].addr + k] = Data(i, k)
  BY DEF IInv, ContentsKept
<1>1. live[i].size \in Nat
  BY Sizes DEF Sound
<1>2. k \in Nat /\ k < live[i].size
  BY <1>1
<1>3. i \in Full(live)
  BY <1>2 DEF Full, None
<1> QED BY <1>2, <1>3 DEF Sound, Keeps

(* Only the first and the last block are busy, and no two free blocks      *)
(* touch: so one free block lies between them.                             *)
LEMMA InvIsWhole == IInv => AllFreeIsWhole
<1> SUFFICES ASSUME NEW S, Sound(mem, S, live), \A i \in Ids : live[i] = None
             PROVE  Walk(mem) = {0, H, Amount - H}
  BY DEF IInv, AllFreeIsWhole
<1>1. /\ mem \in Mem /\ Tiles(mem, S) /\ Walk(mem) = S /\ Busy(mem, S) = {0, End}
  <2>1. Heads(live) = {}
    BY DEF Heads, Full
  <2> QED BY <2>1, WalkIs DEF Sound
<1>2. 0 \in S /\ 0 # End /\ Next(mem, 0) = H /\ H \in S /\ H # End /\ H # 0 /\ H \in Nat /\ End \in Nat
  <2>1. 0 \in S /\ 0 # End /\ Next(mem, 0) = H
    BY <1>1, Sizes DEF Tiles, Next
  <2>2. H \in S
    BY <1>1, <2>1 DEF Tiles
  <2> QED BY <2>1, <2>2, Sizes
<1>3. ~ mem[H].busy
  BY <1>1, <1>2 DEF Busy
<1>4. Next(mem, H) = End
  <2>1. Next(mem, H) \in S /\ mem[Next(mem, H)].busy
    BY <1>1, <1>2, <1>3 DEF Tiles
  <2>2. Next(mem, H) \in {0, End}
    BY <1>1, <2>1 DEF Busy
  <2>3. Next(mem, H) >= H + H /\ Next(mem, H) \in Nat
    BY <1>1, <1>2, BlockLies
  <2> QED BY <1>2, <2>2, <2>3, Sizes
<1>5. ASSUME NEW o \in S PROVE o \in {0, H, End}
  <2>1. o \in Nat /\ o <= End
    BY <1>1, BlockLies
  <2>2. o > 0 => o >= H
    BY <1>1, <1>2 DEF Tiles
  <2>3. o > H => o >= End
    BY <1>1, <1>2, <1>4 DEF Tiles
  <2> QED BY <1>2, <2>1, <2>2, <2>3, Sizes
<1>6. End \in S
  BY <1>1 DEF Tiles
<1> QED BY <1>1, <1>2, <1>5, <1>6 DEF End

-----------------------------------------------------------------------------
(* What callers see.                                                       *)
Span(b) == b.addr .. b.addr + b.size - 1

(* The blocks of two owners share no unit, ...                             *)
LEMMA Aside ==
  ASSUME NEW m, NEW S, NEW L, Sound(m, S, L), NEW i \in Full(L), NEW j \in Full(L), i # j
  PROVE  Span(L[i]) \cap Span(L[j]) = {}
<1>1. Tiles(m, S) /\ Owns(m, S, L)
  BY DEF Sound
<1>2. ASSUME NEW h \in Full(L)
      PROVE  \E r \in S : /\ r \in Nat /\ L[h].addr = r + H /\ m[r].size \in Nat /\ L[h].size \in Nat
                          /\ L[h].size <= m[r].size /\ Next(m, r) = r + H + m[r].size
  <2>1. /\ L[h].addr \in Nat /\ L[h].addr - H \in S /\ L[h].size \in Nat
        /\ L[h].size <= m[L[h].addr - H].size
    BY <1>1, Sizes DEF Owns, Busy
  <2>2. PICK r \in S : r = L[h].addr - H
    BY <2>1
  <2>3. L[h].addr = r + H
    BY <2>1, <2>2, Sizes
  <2> QED BY <1>1, <2>1, <2>2, <2>3, BlockLies
<1>3. PICK r \in S : /\ r \in Nat /\ L[i].addr = r + H /\ m[r].size \in Nat /\ L[i].size \in Nat
                     /\ L[i].size <= m[r].size /\ Next(m, r) = r + H + m[r].size
  BY <1>2
<1>4. PICK q \in S : /\ q \in Nat /\ L[j].addr = q + H /\ m[q].size \in Nat /\ L[j].size \in Nat
                     /\ L[j].size <= m[q].size /\ Next(m, q) = q + H + m[q].size
  BY <1>2
<1>5. q # r
  <2>1. L[i].addr # L[j].addr
    BY <1>1 DEF Owns
  <2> QED BY <1>3, <1>4, <2>1
<1>6. ASSUME NEW u, u \in Span(L[i]), u \in Span(L[j]) PROVE FALSE
  <2>1. u \in Int /\ u >= r + H /\ u < r + H + L[i].size
    BY <1>3, <1>6, Sizes DEF Span
  <2>2. u >= q + H /\ u < q + H + L[j].size
    BY <1>4, <1>6, Sizes DEF Span
  <2>3. PICK k \in Nat : u = r + H + k /\ k < m[r].size
    <3>1. u - (r + H) \in Nat /\ u = r + H + (u - (r + H)) /\ u - (r + H) < m[r].size
      BY ONLY <1>3, <2>1, Sizes
    <3> QED BY <3>1
  <2>4. r + H + k < q \/ r + H + k >= Next(m, q)
    BY <1>1, <1>5, <2>3, InBlock
  <2> QED BY ONLY <1>4, <2>2, <2>3, <2>4, Sizes
<1> QED BY <1>6

(* ... and lie in memory.                                                  *)
LEMMA InMemory ==
  ASSUME NEW m, NEW S, NEW L, Sound(m, S, L), NEW i \in Full(L)
  PROVE  L[i] \in [addr : Unit, size : Requests] /\ Span(L[i]) \subseteq Unit
<1>1. Tiles(m, S) /\ Owns(m, S, L) /\ i \in Ids /\ L[i] \in [addr : Unit, size : Unit]
  BY DEF Sound, Full
<1>2. L[i].size \in Requests
  BY <1>1 DEF Owns
<1>3. L[i].addr \in Nat /\ L[i].size \in Nat /\ L[i].addr + L[i].size < Amount
  BY <1>1, OwnUnits
<1>4. ASSUME NEW u \in Span(L[i]) PROVE u \in Unit
  <2>1. u \in Int /\ u >= L[i].addr /\ u < L[i].addr + L[i].size
    BY <1>3, <1>4 DEF Span
  <2> QED BY ONLY <1>3, <2>1, Sizes
<1> QED BY <1>1, <1>2, <1>4

(* A call that gives place i another block, or one, or none.               *)
LEMMA CallMaps ==
  ASSUME IInv, IInv', NEW i \in Ids, NEW b, live' = [live EXCEPT ![i] = b]
  PROVE  [Promise!Next]_Held
<1>1. PICK S : Sound(mem, S, live)
  BY DEF IInv
<1>2. PICK m2, L2, S2 : L2 = live' /\ Sound(m2, S2, L2)
  <2>1. PICK S2 \in SUBSET Unit : Sound(mem, S2, live)'
    BY DEF IInv
  <2>2. PICK m2, L2 : m2 = mem' /\ L2 = live'
    OBVIOUS
  <2>3. Sound(m2, S2, L2)
    BY <2>1, <2>2 DEF Sound, Tiles, Owns, Busy, Keeps, Heads, Full, Next
  <2> QED BY <2>2, <2>3
<1>3. L2[i] = b /\ \A j \in Ids : j # i => L2[j] = live[j]
  BY <1>1, <1>2 DEF Sound
<1> DEFINE Others == {live[j] : j \in Full(live) \ {i}}
<1>4. Held = IF live[i] = None THEN Others ELSE Others \cup {live[i]}
  BY DEF Held, Full
<1>5. Held' = IF b = None THEN Others ELSE Others \cup {b}
  <2>1. Held' = {L2[j] : j \in Full(L2)}
    BY <1>2 DEF Held, Full
  <2>2. Others = {L2[j] : j \in Full(L2) \ {i}}
    BY <1>3 DEF Full
  <2> QED BY <1>3, <2>1, <2>2 DEF Full
<1>6. live[i] # None => live[i] \notin Others
  BY <1>1 DEF Sound, Owns, Full
<1>7. b # None => b \in Promise!Extents /\ Promise!Apart(b, Others)
  <2> SUFFICES ASSUME b # None PROVE b \in Promise!Extents /\ Promise!Apart(b, Others)
    OBVIOUS
  <2>1. i \in Full(L2) /\ b = L2[i]
    BY <1>3 DEF Full
  <2>2. b \in [addr : Unit, size : Requests] /\ Span(b) \subseteq Unit
    BY <1>2, <2>1, InMemory
  <2>3. ASSUME NEW o \in Others PROVE Span(b) \cap Span(o) = {}
    <3>1. PICK j \in Full(live) : j # i /\ o = live[j]
      OBVIOUS
    <3>2. j \in Full(L2) /\ o = L2[j]
      BY <1>3, <3>1 DEF Full
    <3> QED BY <1>2, <2>1, <3>1, <3>2, Aside
  <2> HIDE DEF Others
  <2> QED BY <2>2, <2>3 DEF Promise!Extents, Promise!Apart, Promise!Units, Span
<1> HIDE DEF Others
<1>8. CASE live[i] = None /\ b = None
  BY <1>4, <1>5, <1>8
<1>9. CASE live[i] = None /\ b # None
  <2>1. Promise!Take
    BY <1>4, <1>5, <1>7, <1>9 DEF Promise!Take
  <2> QED BY <2>1 DEF Promise!Next
<1>10. CASE live[i] # None /\ b = None
  <2>1. live[i] \in Held /\ Held' = Held \ {live[i]}
    BY <1>4, <1>5, <1>6, <1>10
  <2>2. Promise!Give
    BY <2>1 DEF Promise!Give
  <2> QED BY <2>2 DEF Promise!Next
<1>11. CASE live[i] # None /\ b # None
  <2>1. live[i] \in Held /\ Held \ {live[i]} = Others /\ Held' = Others \cup {b}
    BY <1>4, <1>5, <1>6, <1>11
  <2>2. Promise!Resize
    BY <1>7, <1>11, <2>1 DEF Promise!Resize
  <2> QED BY <2>2 DEF Promise!Next
<1> QED BY <1>8, <1>9, <1>10, <1>11

(* Every step of the allocator is one of Heap's, or none.                  *)
LEMMA StepMaps == IInv /\ IInv' /\ [Step]_vars => [Promise!Next]_Held
<1> SUFFICES ASSUME IInv, IInv', [Step]_vars PROVE [Promise!Next]_Held
  OBVIOUS
<1>1. CASE UNCHANGED vars
  BY <1>1 DEF vars, Held
<1>2. CASE Step
  <2>1. PICK i \in Ids :
          \/ Free(i)
          \/ \E size \in Requests :
               \/ Alloc(i, size)
               \/ ReallocShrink(i, size) \/ ReallocRight(i, size)
               \/ ReallocLeft(i, size) \/ ReallocAbsorb(i, size)
               \/ ReallocBoth(i, size) \/ ReallocMove(i, size)
    BY <1>2 DEF Step
  <2>2. CASE Free(i)
    BY <2>2, CallMaps DEF Free, Done
  <2>3. ASSUME NEW size \in Requests, Alloc(i, size) PROVE [Promise!Next]_Held
    BY <2>3, CallMaps DEF Alloc, Done
  <2>4. ASSUME NEW m, NEW a, NEW size, Resized(m, i, a, size) PROVE [Promise!Next]_Held
    BY <2>4, CallMaps DEF Resized, Done
  <2>5. ASSUME NEW size \in Requests, ReallocShrink(i, size) PROVE [Promise!Next]_Held
    BY <2>4, <2>5 DEF ReallocShrink
  <2>6. ASSUME NEW size \in Requests, ReallocRight(i, size) PROVE [Promise!Next]_Held
    BY <2>4, <2>6 DEF ReallocRight
  <2>7. ASSUME NEW size \in Requests, ReallocLeft(i, size) PROVE [Promise!Next]_Held
    BY <2>4, <2>7 DEF ReallocLeft
  <2>8. ASSUME NEW size \in Requests, ReallocAbsorb(i, size) PROVE [Promise!Next]_Held
    BY <2>4, <2>8 DEF ReallocAbsorb
  <2>9. ASSUME NEW size \in Requests, ReallocBoth(i, size) PROVE [Promise!Next]_Held
    BY <2>4, <2>9 DEF ReallocBoth
  <2>10. ASSUME NEW size \in Requests, ReallocMove(i, size) PROVE [Promise!Next]_Held
    BY <2>4, <2>10 DEF ReallocMove
  <2> QED BY <2>1, <2>2, <2>3, <2>5, <2>6, <2>7, <2>8, <2>9, <2>10
<1> QED BY <1>1, <1>2

-----------------------------------------------------------------------------
(* Whatever mem_alloc, mem_free and mem_realloc do, walking the headers    *)
(* ends at the end of the memory, no two free blocks touch, and the busy   *)
(* ones are those of owners, each long enough and none owned twice.        *)
THEOREM HeapIsWellFormed == Spec /\ Corrupting = {} => []WellFormed
<1> SUFFICES ASSUME Corrupting = {} PROVE Spec => []WellFormed
  OBVIOUS
<1> QED BY InvHolds, InvIsWellFormed, PTL

(* main.c's "Control sum check" never fails: an owner finds in its block   *)
(* what it wrote there, through every way to resize and to move it.        *)
THEOREM OwnersFindTheirData == Spec /\ Corrupting = {} => []ContentsKept
<1> SUFFICES ASSUME Corrupting = {} PROVE Spec => []ContentsKept
  OBVIOUS
<1> QED BY InvHolds, InvKeeps, PTL

(* Freeing everything gives back one free block: nothing leaks, and what   *)
(* was split is merged.                                                    *)
THEOREM EverythingComesBack == Spec /\ Corrupting = {} => []AllFreeIsWhole
<1> SUFFICES ASSUME Corrupting = {} PROVE Spec => []AllFreeIsWhole
  OBVIOUS
<1> QED BY InvHolds, InvIsWhole, PTL

(* The allocator implements Heap: each call takes, gives back or resizes   *)
(* one block, in memory that nobody else holds.                            *)
THEOREM AllocatorIsAHeap == Spec /\ Corrupting = {} => HeapSpec
<1> SUFFICES ASSUME Corrupting = {} PROVE Spec => HeapSpec
  OBVIOUS
<1>1. Init => Promise!Init
  BY DEF Init, Promise!Init, Held
<1> QED BY <1>1, InvHolds, StepMaps, PTL DEF Spec, HeapSpec, Promise!Spec
=============================================================================
