--------------------------- MODULE ZoneAllocator ---------------------------
(***************************************************************************)
(* The heap of zone-allocator/allocator.c: pages cut into blocks of one    *)
(* size class each, a list of pages with room per class, and blocks of     *)
(* whole pages.  The descriptor of a page of the smallest class lies in    *)
(* the page; that of any other page is itself a block of the smallest      *)
(* class, so allocating and freeing call each other: the calls they make   *)
(* about a descriptor are MemAlloc0 and MemFree0.                          *)
(*                                                                         *)
(* Sizes and addresses are counted in blocks of the smallest class, which  *)
(* is what round_pow_2 makes of sizeof(descriptor); class k has 2^k of     *)
(* them.  The free blocks of a page are a set: the code takes the one      *)
(* freed last, the model any.                                              *)
(*                                                                         *)
(* PageUnits is a power of two here, which alc_init does not ask of -p.    *)
(* In pages of 1000 bytes a request of 129 to 256 has class 8, one above   *)
(* the classes (74), and num is (256 + 500) / 1000 = 0 at 223: page 1 is   *)
(* returned (178), whatever it holds, and marked by nobody.                *)
(***************************************************************************)
EXTENDS Integers, SequencesExt, FiniteSets

CONSTANTS
  NPages,      \* mi.page_count
  PageUnits,   \* mi.page_size, assumed a power of two
  Requests,    \* classes of the sizes asked for
  Wide,        \* whether pointers are wider than int (a 64-bit build)
  MaxLive      \* bound: blocks with an owner

MaxClass == 20         \* bound: the largest class of a page or of a request
Size(k)  == 2^k        \* pow(2, class)

ASSUME ZoneAssumption ==
  /\ NPages \in Nat \ {0, 1} /\ PageUnits \in {Size(k) : k \in 2 .. MaxClass}
  /\ Requests \subseteq 0 .. MaxClass /\ Wide \in BOOLEAN /\ MaxLive \in Nat

ASSUME Doubling ==
  /\ Size(0) = 1 /\ \A k \in 0 .. MaxClass : Size(k) \in Nat
  /\ \A k \in 0 .. MaxClass - 1 : Size(k + 1) = 2 * Size(k)

VARIABLES
  mi,    \* struct alc_info and the descriptors: see ZoneTypeOK
  live,  \* the blocks main.c holds
  lost,  \* history: blocks no call can find again
  hit    \* history: blocks written as descriptors though they are none

vars == <<mi, live, lost, hit>>

Page   == 0 .. NPages - 1
Addr   == 0 .. NPages * PageUnits - 1
Small(k) == 2 * Size(k) < PageUnits                    \* class < mi.class_count
Class  == {k \in 0 .. MaxClass : Small(k)}
NULL   == 0
FREE   == 0
BUSY   == -1
MULTI  == -2
None   == [index |-> 0, class |-> 0, count |-> 0, block |-> {}]

PageAddr(p) == p * PageUnits
PageOf(a)   == a \div PageUnits
Local(k)    == k = 0                               \* the descriptor lies in the page
MaxBlocks(k) == PageUnits \div Size(k)
Blocks(p, k) == {PageAddr(p) + j * Size(k) : j \in (IF Local(k) THEN 1 ELSE 0) .. MaxBlocks(k) - 1}
Extent(a, k) == [addr |-> a, size |-> Size(k)]

(* entry is mi.descriptors: FREE, BUSY, MULTI or a descriptor's address;   *)
(* classes the lists of descriptors of pages with room; desc[a] what a     *)
(* descriptor at a says, None when a holds none; lost, hit as above.       *)
DescRec == [index : Page, class : Class, count : 0 .. PageUnits, block : SUBSET Addr]
ZoneTypeOK ==
  /\ mi.entry \in [Page -> {MULTI, BUSY} \cup Addr]
  /\ mi.page_classes \in [Page -> -128 .. 127]
  /\ DOMAIN mi.classes = Class
  /\ \A k \in Class : mi.classes[k] \in Seq(Addr)
  /\ \A a \in Addr : mi.desc[a] \in DescRec
  /\ live \subseteq [addr : Addr, size : {Size(k) : k \in Requests}]

-----------------------------------------------------------------------------
(* Pages. Every operator takes the state m and gives the state after it.   *)

AppendPage(m, d) ==                                 \* append_page_to_class
  LET r == m.desc[d]
  IN  [m EXCEPT !.classes[r.class] = Append(@, d), !.page_classes[r.index] = r.class]

Unlinked(s, d) == RemoveAt(s, CHOOSE i \in DOMAIN s : s[i] = d)
RemovePage(m, d) ==                                 \* remove_from_class
  [m EXCEPT !.classes[m.desc[d].class] = Unlinked(@, d)]

(* The page p of class k has the free blocks bs, and says so at d.         *)
Described(m, p, k, d, bs) ==
  AppendPage([m EXCEPT !.entry[p] = d,
                       !.desc[d] = [index |-> p, class |-> k,
                                    count |-> Cardinality(bs), block |-> bs]], d)

FreePages(m) == {p \in Page : m.entry[p] = FREE}
FirstFree(m) == CHOOSE p \in FreePages(m) : \A q \in FreePages(m) : p <= q

(* One block more, or one less, in the list of a page.                     *)
Push(m, d, a) ==
  [m EXCEPT !.desc[d].block = @ \cup {a}, !.desc[d].count = @ + 1, !.desc[a] = None]
Taken(m, d, a) == [m EXCEPT !.desc[d].block = @ \ {a}, !.desc[d].count = @ - 1]

-----------------------------------------------------------------------------
(* mem_alloc and mem_free in pages of the smallest class. An allocation is *)
(* a set of outcomes [m, ret], one per block it may return.                *)

Fail(m) == {[m |-> m, ret |-> NULL]}

(* A page that is full is off its list; its descriptor is forgotten.       *)
Full0(m, d) ==
  [m EXCEPT !.entry[m.desc[d].index] = BUSY, !.classes[0] = Tail(@), !.desc[d] = None]

TakeOne0(m, d, a) ==
  LET t == Taken(m, d, a) IN IF t.desc[d].block = {} THEN Full0(t, d) ELSE t
Take0(m) ==
  LET d == Head(m.classes[0])
  IN  {[m |-> TakeOne0(m, d, a), ret |-> a] : a \in m.desc[d].block}

MemAlloc0(m) ==
  IF m.classes[0] # <<>> THEN Take0(m)
  ELSE IF FreePages(m) = {} THEN Fail(m)
  ELSE LET p == FirstFree(m) IN Take0(Described(m, p, 0, PageAddr(p), Blocks(p, 0)))

MemFree0(m, a) ==
  LET p == PageOf(a)
      d == PageAddr(p)
      t == Push(m, d, a)
  IN  IF m.entry[p] \in {BUSY, FREE} THEN Described([m EXCEPT !.desc[a] = None], p, 0, d, {a})
      ELSE IF t.desc[d].count < MaxBlocks(0) - 1 THEN t
      ELSE [RemovePage(t, d) EXCEPT !.entry[p] = FREE, !.page_classes[p] = 0,
                                    !.desc[d] = None]

-----------------------------------------------------------------------------
(* mem_alloc in general.                                                   *)

(* Mutant: the entry of the full page keeps the freed descriptor.          *)
FullKept(m, d) ==
  [MemFree0(m, m.entry[m.desc[d].index]) EXCEPT
     !.classes[m.desc[d].class] = Tail(m.classes[m.desc[d].class])]

(* The page of d is full and its descriptor is freed. Then page->index is  *)
(* read from the freed block: where a pointer is wider than an int, the    *)
(* link just written there covers it, its upper half reads as page 0 (or   *)
(* as anything, with heaps above 4 GB), and the page's own entry stays.    *)
Full(m, d) ==
  LET p == m.desc[d].index
      k == m.desc[d].class
      t == MemFree0(m, m.entry[p])
  IN  [t EXCEPT !.entry[IF Wide THEN 0 ELSE p] = BUSY, !.classes[k] = Tail(m.classes[k])]

TakeOne(m, d, a) ==
  LET t == Taken(m, d, a) IN IF t.desc[d].block = {} THEN Full(t, d) ELSE t
Take(m, k) ==
  LET d == Head(m.classes[k])
  IN  {[m |-> TakeOne(m, d, a), ret |-> a] : a \in m.desc[d].block}

(* alloc_page for a class with descriptors elsewhere: the page is marked   *)
(* BUSY first, and stays so when no descriptor can be allocated.           *)
LostPage(m, p) == [m EXCEPT !.lost = @ \cup {[addr |-> PageAddr(p), size |-> PageUnits]}]
NewPage(m, k) ==
  LET p == FirstFree(m)
      t == [m EXCEPT !.entry[p] = BUSY]
  IN  UNION {IF r.ret = NULL THEN Fail(LostPage(r.m, p))
             ELSE Take(Described(r.m, p, k, r.ret, Blocks(p, k)), k) : r \in MemAlloc0(t)}

(* Whole pages: find_free_pages, the first run of num. Their number is     *)
(* kept in a char.                                                         *)
AsChar(n) == ((n + 128) % 256) - 128
PagesFor(k) == (Size(k) + PageUnits \div 2) \div PageUnits
Runs(m, num) == {p \in Page : \A q \in p .. p + num - 1 : q \in FreePages(m)}
MultiPage(m, k) ==
  LET num   == PagesFor(k)
      first == CHOOSE p \in Runs(m, num) : \A q \in Runs(m, num) : p <= q
      taken == first .. first + num - 1
  IN  IF Runs(m, num) = {} THEN Fail(m)
      ELSE {[m |-> [m EXCEPT !.entry = [p \in Page |-> IF p \in taken THEN MULTI ELSE @[p]],
                             !.page_classes = [p \in Page |-> IF p = first THEN AsChar(num)
                                                ELSE IF p \in taken THEN -1 ELSE @[p]]],
             ret |-> PageAddr(first)]}

MemAlloc(m, k) ==
  IF ~ Small(k) THEN MultiPage(m, k)
  ELSE IF k = 0 THEN MemAlloc0(m)
  ELSE IF m.classes[k] # <<>> THEN Take(m, k)
  ELSE IF FreePages(m) = {} THEN Fail(m)
  ELSE NewPage(m, k)

-----------------------------------------------------------------------------
(* mem_free in general: the set of states it may end in.                   *)

FreeMulti(m, p) ==
  LET taken == p .. p + m.page_classes[p] - 1
  IN  [m EXCEPT !.entry = [q \in Page |-> IF q \in taken THEN FREE ELSE @[q]],
                !.page_classes = [q \in Page |-> IF q \in taken THEN 0 ELSE @[q]]]

(* Mutant: the descriptor of an empty page is not freed.                   *)
FreePageKept(m, p) ==
  [RemovePage([m EXCEPT !.page_classes[p] = 0], m.entry[p]) EXCEPT !.entry[p] = FREE]
FreePage(m, p) ==                                   \* free_page
  LET d == m.entry[p]
      t == RemovePage([m EXCEPT !.page_classes[p] = 0], d)
  IN  [MemFree0(t, d) EXCEPT !.entry[p] = FREE]

(* A block of a full page: the page gets a descriptor again, or the block  *)
(* is lost.                                                                *)
(* Mutant: the new list has the whole page in it.                          *)
FreeBusyAll(m, p, a) ==
  LET k == m.page_classes[p]
  IN  {IF r.ret = NULL THEN [r.m EXCEPT !.lost = @ \cup {Extent(a, k)}]
       ELSE Described(r.m, p, k, r.ret, Blocks(p, k)) : r \in MemAlloc0(m)}
FreeBusy(m, p, a) ==
  LET k == m.page_classes[p]
  IN  {IF r.ret = NULL THEN [r.m EXCEPT !.lost = @ \cup {Extent(a, k)}]
       ELSE Described(r.m, p, k, r.ret, {a}) : r \in MemAlloc0(m)}

(* Nothing is known of a page whose entry points to what is no descriptor. *)
FreeListed(m, p, a) ==
  LET d == m.entry[p]
      t == Push(m, d, a)
  IN  IF m.desc[d] = None THEN [m EXCEPT !.hit = @ \cup {d}]
      ELSE IF t.desc[d].count >= MaxBlocks(t.desc[d].class) THEN FreePage(t, p)
      ELSE t

MemFree(m, a) ==
  LET p == PageOf(a)
  IN  IF m.entry[p] = MULTI THEN {FreeMulti(m, p)}
      ELSE IF m.page_classes[p] = 0 THEN {MemFree0(m, a)}
      ELSE IF m.entry[p] = BUSY THEN FreeBusy(m, p, a)
      ELSE {FreeListed(m, p, a)}

-----------------------------------------------------------------------------
(* The calls of main.c. A call starts and ends with these variables.       *)
Now == [entry |-> mi.entry, page_classes |-> mi.page_classes, classes |-> mi.classes,
        desc |-> mi.desc, lost |-> lost, hit |-> hit]
Then(m, blocks) ==
  /\ mi' = [entry |-> m.entry, page_classes |-> m.page_classes, classes |-> m.classes,
            desc |-> m.desc]
  /\ lost' = m.lost /\ hit' = m.hit /\ live' = blocks

Sane == hit = {}        \* past the first stray write nothing is modelled

Alloc(k) ==
  /\ Sane /\ Cardinality(live) < MaxLive
  /\ \E r \in MemAlloc(Now, k) :
       Then(r.m, IF r.ret = NULL THEN live ELSE live \cup {Extent(r.ret, k)})

Free(b) ==
  /\ Sane
  /\ \E m \in MemFree(Now, b.addr) : Then(m, live \ {b})

(* mem_realloc allocates, copies what fits, and frees the old block.       *)
Realloc(b, k) ==
  /\ Sane
  /\ \E r \in MemAlloc(Now, k) :
       \/ r.ret = NULL /\ Then(r.m, live)
       \/ /\ r.ret # NULL
          /\ \E m \in MemFree(r.m, b.addr) : Then(m, (live \ {b}) \cup {Extent(r.ret, k)})

(* alc_init: page 0 keeps the tables.                                      *)
Init ==
  /\ mi = [entry |-> [p \in Page |-> IF p = 0 THEN BUSY ELSE FREE],
           page_classes |-> [p \in Page |-> 0],
           classes |-> [k \in Class |-> <<>>],
           desc |-> [a \in Addr |-> None]]
  /\ live = {} /\ lost = {} /\ hit = {}

Next ==
  \/ \E k \in Requests : Alloc(k)
  \/ \E b \in live : Free(b)
  \/ \E b \in live, k \in Requests : Realloc(b, k)

Spec == Init /\ [][Next]_vars
-----------------------------------------------------------------------------
Descriptors == {mi.entry[p] : p \in Page} \ {FREE, BUSY, MULTI}
UnitsOf(b)  == b.addr .. b.addr + b.size - 1

(* What units may belong to: an owner, the free list of a page, a          *)
(* descriptor, or what failed calls have lost.                             *)
Tagged(kind, d, blocks) == {<<kind, d, b>> : b \in blocks}
FreeBlocks(d) == {Extent(a, mi.desc[d].class) : a \in mi.desc[d].block}
FreeThings == UNION {Tagged("free", d, FreeBlocks(d)) : d \in Descriptors}
DescriptorBlocks == {Extent(d, 0) : d \in Descriptors}
Things ==
  Tagged("live", 0, live) \cup Tagged("lost", 0, lost) \cup FreeThings
    \cup Tagged("descriptor", 0, DescriptorBlocks)

(* Every unit of a page in use belongs to one thing only.                  *)
Accounted ==
  LET used(p) == {t \in Things : PageOf(t[3].addr) = p}
  IN
  /\ \A t, u \in Things : t # u => UnitsOf(t[3]) \cap UnitsOf(u[3]) = {}
  /\ \A p \in Page \ {0} :
       /\ mi.entry[p] = FREE => used(p) = {}
       /\ mi.entry[p] \notin {FREE, MULTI} =>
            PageAddr(p) + (IF mi.page_classes[p] = 0 THEN 1 ELSE 0) .. PageAddr(p) + PageUnits - 1
              \subseteq UNION {UnitsOf(t[3]) : t \in used(p)}

(* A page is on the list of its class exactly while it has free blocks,    *)
(* once, and its descriptor, which no other page shares, counts them.      *)
Listed ==
  /\ \A k \in Class : \A i, j \in DOMAIN mi.classes[k] :
       mi.classes[k][i] = mi.classes[k][j] => i = j
  /\ Descriptors = UNION {{mi.classes[k][i] : i \in DOMAIN mi.classes[k]} : k \in Class}
  /\ \A p \in Page : mi.entry[p] > 0 =>
       LET r == mi.desc[mi.entry[p]] IN
       /\ r.index = p /\ r.class = mi.page_classes[p]
       /\ r.count = Cardinality(r.block) /\ r.count > 0
       /\ \E i \in DOMAIN mi.classes[r.class] : mi.classes[r.class][i] = mi.entry[p]

(* The tables of the heap agree with each other and with the owners.       *)
WellFormed == ZoneTypeOK /\ Accounted /\ Listed

(* When every block is freed, the pages are whole again, but for those of  *)
(* blocks that a failed call has lost.                                     *)
AllFreeIsWhole ==
  live = {} /\ lost = {} =>
    /\ \A p \in Page \ {0} : mi.entry[p] = FREE
    /\ \A k \in Class : mi.classes[k] = <<>>

(* main.c:54 and 68, ERROR CHECKSUM: an owner finds in its block what it   *)
(* has written.  The model has no data: what can change a block behind its *)
(* owner's back is a list operation on a descriptor that is none, and this *)
(* says that no such write meets a block in use.  That the descriptors and *)
(* links in the lists lie in nobody's block is WellFormed.                 *)
ContentsKept == \A b \in live : b.addr \notin hit

(* Callers see a heap: no block of one owner ever overlaps another's.      *)
Promise == INSTANCE Heap WITH Memory <- PageUnits .. NPages * PageUnits - 1,
                              Sizes <- {Size(k) : k \in Requests}, held <- live
HeapSpec == Promise!Spec
=============================================================================
