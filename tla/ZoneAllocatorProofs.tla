------------------------ MODULE ZoneAllocatorProofs -------------------------
(***************************************************************************)
(* Proofs about ZoneAllocator, for every number of pages whose runs a char *)
(* can count, every page size that is a power of two and every set of      *)
(* requests, on a build where a pointer is as wide as an int: WellFormed   *)
(* and AllFreeIsWhole hold in every state, and the allocator implements    *)
(* Heap.  No lemma is about ContentsKept: on such a build hit stays empty. *)
(*                                                                         *)
(* InvOf says of a heap m with the owners' blocks L what no call breaks.   *)
(* F are the pages that are neither free nor of the smallest class, G      *)
(* those of them that are cut into larger blocks.  Smallest is about the   *)
(* pages outside F; it holds within a call too, and MemAlloc0 and MemFree0 *)
(* keep it.  Pages, Lists and NoneWhole are about those of G and the       *)
(* descriptors they have, Wholes about blocks of whole pages, and Owned    *)
(* says of each block in use whom it belongs to.                           *)
(***************************************************************************)
EXTENDS ZoneAllocator, FiniteSetTheorems, SequenceTheorems, TLAPS

-----------------------------------------------------------------------------
(* Arithmetic of pages and blocks.                                         *)

(* What holds of 0 and of the next of each class holds of every class.     *)
LEMMA ClassInduction ==
  ASSUME NEW S, 0 \in S, \A k \in 0 .. MaxClass - 1 : k \in S => k + 1 \in S
  PROVE  \A k \in 0 .. MaxClass : k \in S
<1> USE DEF MaxClass
<1>1. /\ 1 \in S /\ 2 \in S /\ 3 \in S /\ 4 \in S /\ 5 \in S /\ 6 \in S /\ 7 \in S
  <2>1. 0 + 1 \in S
    OBVIOUS
  <2>2. 1 + 1 \in S
    BY <2>1
  <2>3. 2 + 1 \in S
    BY <2>2
  <2>4. 3 + 1 \in S
    BY <2>3
  <2>5. 4 + 1 \in S
    BY <2>4
  <2>6. 5 + 1 \in S
    BY <2>5
  <2>7. 6 + 1 \in S
    BY <2>6
  <2> QED BY <2>1, <2>2, <2>3, <2>4, <2>5, <2>6, <2>7
<1>2. /\ 8 \in S /\ 9 \in S /\ 10 \in S /\ 11 \in S /\ 12 \in S /\ 13 \in S /\ 14 \in S
  <2>1. 7 + 1 \in S
    BY <1>1
  <2>2. 8 + 1 \in S
    BY <2>1
  <2>3. 9 + 1 \in S
    BY <2>2
  <2>4. 10 + 1 \in S
    BY <2>3
  <2>5. 11 + 1 \in S
    BY <2>4
  <2>6. 12 + 1 \in S
    BY <2>5
  <2>7. 13 + 1 \in S
    BY <2>6
  <2> QED BY <2>1, <2>2, <2>3, <2>4, <2>5, <2>6, <2>7
<1>3. /\ 15 \in S /\ 16 \in S /\ 17 \in S /\ 18 \in S /\ 19 \in S /\ 20 \in S
  <2>1. 14 + 1 \in S
    BY <1>2
  <2>2. 15 + 1 \in S
    BY <2>1
  <2>3. 16 + 1 \in S
    BY <2>2
  <2>4. 17 + 1 \in S
    BY <2>3
  <2>5. 18 + 1 \in S
    BY <2>4
  <2>6. 19 + 1 \in S
    BY <2>5
  <2> QED BY <2>1, <2>2, <2>3, <2>4, <2>5, <2>6
<1>4. ASSUME NEW k \in 0 .. 20 PROVE k \in S
  <2>1. \/ k = 0 \/ k = 1 \/ k = 2 \/ k = 3 \/ k = 4 \/ k = 5 \/ k = 6 \/ k = 7
        \/ k = 8 \/ k = 9 \/ k = 10 \/ k = 11 \/ k = 12 \/ k = 13 \/ k = 14
        \/ k = 15 \/ k = 16 \/ k = 17 \/ k = 18 \/ k = 19 \/ k = 20
    OBVIOUS
  <2> QED BY <2>1, <1>1, <1>2, <1>3
<1> QED BY <1>4

(* Sizes are positive.                                                     *)
LEMMA SizePositive == \A k \in 0 .. MaxClass : Size(k) \in Nat /\ Size(k) >= 1
<1> DEFINE S == {k \in 0 .. MaxClass : Size(k) >= 1}
<1>1. 0 \in S
  BY Doubling DEF MaxClass
<1>2. ASSUME NEW k \in 0 .. MaxClass - 1, k \in S PROVE k + 1 \in S
  <2>1. k + 1 \in 0 .. MaxClass /\ k \in 0 .. MaxClass
    BY DEF MaxClass
  <2> QED BY <1>2, <2>1, Doubling
<1>3. \A k \in 0 .. MaxClass : k \in S
  <2> HIDE DEF S
  <2> QED BY <1>1, <1>2, ClassInduction
<1> QED BY <1>3, Doubling

(* A size divides every larger one.                                        *)
LEMMA SizeDivides ==
  ASSUME NEW k \in 0 .. MaxClass, NEW n \in 0 .. MaxClass
  PROVE  /\ k <= n => \E c \in Nat : Size(n) = c * Size(k)
         /\ k < n => \E c \in Nat : Size(n) = 2 * (c * Size(k))
<1> DEFINE S == {i \in 0 .. MaxClass :
                   /\ k <= i => \E c \in Nat : Size(i) = c * Size(k)
                   /\ k < i => \E c \in Nat : Size(i) = 2 * (c * Size(k))}
<1>1. 0 \in S
  <2>1. k <= 0 => Size(0) = 1 * Size(k)
    BY SizePositive DEF MaxClass
  <2> QED BY <2>1 DEF MaxClass
<1>2. ASSUME NEW i \in 0 .. MaxClass - 1, i \in S PROVE i + 1 \in S
  <2>1. i + 1 \in 0 .. MaxClass /\ i \in 0 .. MaxClass
    BY DEF MaxClass
  <2>2. Size(i + 1) = 2 * Size(i) /\ Size(k) \in Nat /\ Size(i) \in Nat
    BY Doubling, <2>1
  <2>3. CASE k <= i
    <3>1. PICK c \in Nat : Size(i) = c * Size(k)
      BY <1>2, <2>3
    <3>2. Size(i + 1) = 2 * (c * Size(k)) /\ Size(i + 1) = (2 * c) * Size(k) /\ 2 * c \in Nat
      BY <3>1, <2>2
    <3> QED BY <3>2, <2>1
  <2>4. CASE k = i + 1
    <3>1. Size(i + 1) = 1 * Size(k) /\ 1 \in Nat
      BY <2>4, <2>2
    <3> QED BY <3>1, <2>1, <2>4
  <2>5. CASE k > i + 1
    BY <2>1, <2>5 DEF MaxClass
  <2> QED BY <2>3, <2>4, <2>5 DEF MaxClass
<1>3. \A i \in 0 .. MaxClass : i \in S
  <2> HIDE DEF S
  <2> QED BY <1>1, <1>2, ClassInduction
<1> QED BY <1>3

-----------------------------------------------------------------------------
(* Quotients and remainders.                                               *)
LEMMA DivExact ==
  ASSUME NEW q \in Nat, NEW s \in Nat, s > 0, NEW r \in Nat, r < s
  PROVE  (q * s + r) \div s = q
OBVIOUS

(* Every number is a multiple of s and less than s more.                   *)
LEMMA DivSplit ==
  ASSUME NEW n \in Nat, NEW s \in Nat, s > 0
  PROVE  \E q \in Nat, r \in Nat : r < s /\ n = q * s + r /\ n \div s = q
<1>1. n \div s \in Nat /\ n % s \in Nat /\ n % s < s /\ n = (n \div s) * s + (n % s)
  OBVIOUS
<1> QED BY <1>1

(* Multiples are ordered as what they are multiples of.                    *)
LEMMA Monotone ==
  ASSUME NEW i \in Nat, NEW j \in Nat, NEW s \in Nat
  PROVE  /\ i < j => (i + 1) * s <= j * s
         /\ i <= j => i * s <= j * s
OBVIOUS

(* The page size is a power of two, of four units at least.                *)
LEMMA UnitsOfAPage ==
  /\ PageUnits \in Nat /\ PageUnits >= 4
  /\ \E n \in 2 .. MaxClass : PageUnits = Size(n)
<1>1. PICK n \in 2 .. MaxClass : PageUnits = Size(n)
  BY ZoneAssumption
<1>2. n \in 0 .. MaxClass /\ 2 \in 0 .. MaxClass /\ 0 \in 0 .. MaxClass - 1 /\ 1 \in 0 .. MaxClass - 1
  BY DEF MaxClass
<1>3. Size(0 + 1) = 2 * Size(0) /\ Size(1 + 1) = 2 * Size(1) /\ Size(0) = 1
  BY <1>2, Doubling
<1>4. Size(2) = 4 /\ Size(n) \in Nat /\ Size(n) >= 1
  BY <1>2, <1>3, SizePositive
<1>5. PICK c \in Nat : Size(n) = c * Size(2)
  BY <1>2, SizeDivides
<1>6. c >= 1 /\ Size(n) = c * 4
  BY <1>4, <1>5
<1> QED BY <1>1, <1>4, <1>6

(* The blocks of a class fill a page exactly, three at least.              *)
LEMMA BlocksOfAClass ==
  ASSUME NEW k \in Class
  PROVE  /\ k \in 0 .. MaxClass /\ Size(k) \in Nat /\ Size(k) >= 1
         /\ MaxBlocks(k) \in Nat /\ MaxBlocks(k) >= 3
         /\ PageUnits = MaxBlocks(k) * Size(k)
<1>1. k \in 0 .. MaxClass /\ 2 * Size(k) < PageUnits
  BY DEF Class, Small
<1>2. Size(k) \in Nat /\ Size(k) >= 1
  BY <1>1, SizePositive
<1>3. PICK n \in 2 .. MaxClass : PageUnits = Size(n)
  BY UnitsOfAPage
<1>4. n \in 0 .. MaxClass
  BY DEF MaxClass
<1>5. k <= n
  <2> SUFFICES ASSUME n <= k PROVE k <= n
    BY <1>1, <1>4 DEF MaxClass
  <2>1. PICK c \in Nat : Size(k) = c * PageUnits
    BY <1>1, <1>3, <1>4, SizeDivides
  <2>2. c >= 1
    BY <2>1, <1>2, UnitsOfAPage
  <2>3. Size(k) >= PageUnits
    BY <2>1, <2>2, UnitsOfAPage
  <2> QED BY <2>3, <1>1, <1>2, UnitsOfAPage
<1>6. PICK c \in Nat : PageUnits = c * Size(k)
  BY <1>1, <1>3, <1>4, <1>5, SizeDivides
<1>7. MaxBlocks(k) = c
  <2>1. (c * Size(k) + 0) \div Size(k) = c
    BY <1>2, DivExact
  <2>2. c * Size(k) + 0 = PageUnits
    BY <1>6, <1>2, UnitsOfAPage
  <2> QED BY <2>1, <2>2 DEF MaxBlocks
<1>8. c >= 3
  <2> SUFFICES ASSUME c <= 2 PROVE FALSE
    OBVIOUS
  <2>1. c * Size(k) <= 2 * Size(k)
    BY <1>2, Monotone
  <2> QED BY <2>1, <1>1, <1>2, <1>6
<1> QED BY <1>1, <1>2, <1>6, <1>7, <1>8

(* The smallest class has blocks of one unit.                              *)
LEMMA SmallestClass == 0 \in Class /\ Size(0) = 1 /\ MaxBlocks(0) = PageUnits
<1>1. Size(0) = 1 /\ 0 \in 0 .. MaxClass
  BY Doubling DEF MaxClass
<1>2. 0 \in Class
  BY <1>1, UnitsOfAPage DEF Class, Small
<1>3. PageUnits = MaxBlocks(0) * Size(0) /\ MaxBlocks(0) \in Nat
  BY <1>2, BlocksOfAClass
<1> QED BY <1>1, <1>2, <1>3

(* A block that is not in a page's classes fits its pages.                 *)
LEMMA PagesOfALargeBlock ==
  ASSUME NEW k \in 0 .. MaxClass, ~ Small(k)
  PROVE  /\ PagesFor(k) \in Nat /\ PagesFor(k) >= 1 
         /\ Size(k) \in Nat /\ Size(k) >= 1 /\ Size(k) <= PagesFor(k) * PageUnits
<1>1. PageUnits <= 2 * Size(k) /\ Size(k) \in Nat /\ Size(k) >= 1
  BY SizePositive, UnitsOfAPage DEF Small
<1>2. PICK n \in 2 .. MaxClass : PageUnits = Size(n)
  BY UnitsOfAPage
<1>3. n \in 0 .. MaxClass
  BY DEF MaxClass
<1>4. CASE k < n
  <2>1. PICK c \in Nat : PageUnits = 2 * (c * Size(k))
    BY <1>2, <1>3, <1>4, SizeDivides
  <2>2. c = 1
    <3>1. c # 0
      BY <2>1, <1>1, UnitsOfAPage
    <3>2. c >= 2 => 2 * Size(k) <= c * Size(k)
      BY <1>1, Monotone
    <3>3. c * Size(k) \in Nat
      BY <1>1
    <3>4. ~ c >= 2
      BY <3>2, <3>3, <2>1, <1>1, UnitsOfAPage
    <3> QED BY <3>1, <3>4
  <2>3. PageUnits = 2 * Size(k)
    BY <2>1, <2>2, <1>1
  <2>4. PageUnits \div 2 = Size(k)
    BY <2>3, <1>1
  <2>5. (1 * PageUnits + 0) \div PageUnits = 1
    BY UnitsOfAPage, DivExact
  <2>6. Size(k) + PageUnits \div 2 = 1 * PageUnits + 0
    BY <2>3, <2>4, <1>1
  <2>7. PagesFor(k) = 1
    BY <2>5, <2>6 DEF PagesFor
  <2> QED BY <2>7, <2>3, <1>1
<1>5. CASE n <= k
  <2>1. PICK c \in Nat : Size(k) = c * PageUnits
    BY <1>2, <1>3, <1>5, SizeDivides
  <2>2. c >= 1
    BY <2>1, <1>1, UnitsOfAPage
  <2>3. PageUnits \div 2 \in Nat /\ PageUnits \div 2 < PageUnits
    BY UnitsOfAPage
  <2>4. (c * PageUnits + PageUnits \div 2) \div PageUnits = c
    BY <2>3, UnitsOfAPage, DivExact
  <2>5. PagesFor(k) = c
    BY <2>1, <2>4 DEF PagesFor
  <2>6. c * PageUnits \in Nat /\ c * PageUnits >= 1
    BY <2>1, <1>1
  <2> QED BY <2>1, <2>2, <2>5, <2>6, <1>1
<1> QED BY <1>3, <1>4, <1>5 DEF MaxClass

-----------------------------------------------------------------------------
(* Addresses and pages.                                                    *)

(* A page's address and its page.                                          *)
LEMMA PageAddrFacts ==
  ASSUME NEW p \in Page
  PROVE  /\ p \in Nat /\ PageAddr(p) \in Addr /\ PageAddr(p) \in Nat /\ PageOf(PageAddr(p)) = p
         /\ p # 0 => PageAddr(p) >= PageUnits
         /\ PageAddr(p) + PageUnits <= NPages * PageUnits
<1>1. p \in Nat /\ p + 1 <= NPages /\ NPages \in Nat /\ PageUnits \in Nat /\ PageUnits >= 4
  BY ZoneAssumption, UnitsOfAPage DEF Page
<1>2. (p + 1) * PageUnits <= NPages * PageUnits /\ (p + 1) * PageUnits = p * PageUnits + PageUnits
  BY <1>1, Monotone
<1>3. PageAddr(p) \in Nat
  BY <1>1 DEF PageAddr
<1>4. (p * PageUnits + 0) \div PageUnits = p
  BY <1>1, DivExact
<1>5. NPages * PageUnits \in Nat
  BY <1>1
<1>6. PageAddr(p) + PageUnits <= NPages * PageUnits /\ PageAddr(p) + 0 = p * PageUnits + 0
  BY <1>2, <1>3 DEF PageAddr
<1>7. p # 0 => 1 * PageUnits <= p * PageUnits
  BY <1>1, Monotone
<1>8. PageOf(PageAddr(p)) = p
  BY <1>3, <1>4 DEF PageAddr, PageOf
<1>9. PageAddr(p) \in Addr
  BY <1>1, <1>3, <1>5, <1>6 DEF Addr
<1> QED BY <1>1, <1>3, <1>6, <1>7, <1>8, <1>9 DEF PageAddr

(* The page of an address, and the addresses of a page.                    *)
LEMMA PageOfFacts ==
  /\ \A a \in Addr : /\ a \in Nat /\ PageOf(a) \in Page
                     /\ PageAddr(PageOf(a)) <= a /\ a < PageAddr(PageOf(a)) + PageUnits
  /\ \A p \in Page, a \in Int : PageAddr(p) <= a /\ a < PageAddr(p) + PageUnits =>
       a \in Addr /\ PageOf(a) = p
<1>0. NPages \in Nat /\ PageUnits \in Nat /\ PageUnits >= 4 /\ NPages * PageUnits \in Nat
  BY ZoneAssumption, UnitsOfAPage
<1>1. ASSUME NEW a \in Addr
      PROVE  /\ a \in Nat /\ PageOf(a) \in Page
             /\ PageAddr(PageOf(a)) <= a /\ a < PageAddr(PageOf(a)) + PageUnits
  <2>1. a \in Nat /\ a < NPages * PageUnits
    BY <1>0 DEF Addr
  <2>2. PICK q \in Nat, r \in Nat : /\ r < PageUnits /\ a = q * PageUnits + r
                                    /\ a \div PageUnits = q
    BY <2>1, <1>0, DivSplit
  <2>3. q < NPages
    <3> SUFFICES ASSUME NPages <= q PROVE FALSE
      BY <1>0
    <3>1. NPages * PageUnits <= q * PageUnits /\ q * PageUnits \in Nat
      BY <1>0, Monotone
    <3> QED BY <3>1, <2>1, <2>2, <1>0
  <2>4. q * PageUnits \in Nat
    BY <1>0
  <2> QED BY <2>1, <2>2, <2>3, <2>4, <1>0 DEF PageOf, PageAddr, Page
<1>2. ASSUME NEW p \in Page, NEW a \in Int, PageAddr(p) <= a, a < PageAddr(p) + PageUnits
      PROVE  a \in Addr /\ PageOf(a) = p
  <2>1. PageAddr(p) \in Nat /\ PageAddr(p) + PageUnits <= NPages * PageUnits /\ p \in Nat
    BY PageAddrFacts
  <2>2. a \in Nat /\ a < NPages * PageUnits
    BY <2>1, <1>0, <1>2
  <2>3. a \in Addr
    BY <2>2, <1>0 DEF Addr
  <2>4. PICK r \in Nat : r < PageUnits /\ a = PageAddr(p) + r
    <3>1. a - PageAddr(p) \in Nat /\ a - PageAddr(p) < PageUnits
      BY <2>1, <1>0, <1>2
    <3>2. a = PageAddr(p) + (a - PageAddr(p))
      BY <2>1, <2>2
    <3> QED BY <3>1, <3>2
  <2>5. (p * PageUnits + r) \div PageUnits = p
    BY <2>1, <2>4, <1>0, DivExact
  <2>6. p * PageUnits + r = a
    BY <2>4 DEF PageAddr
  <2> QED BY <2>3, <2>5, <2>6 DEF PageOf
<1> QED BY <1>1, <1>2

(* The blocks of a page: where they lie, that they are apart, that they    *)
(* cover the page but for its descriptor, and how many there are.          *)
LEMMA BlockFacts ==
  ASSUME NEW p \in Page, NEW k \in Class
  PROVE  /\ \A a \in Blocks(p, k) :
              /\ a \in Addr /\ PageOf(a) = p
              /\ PageAddr(p) <= a /\ a + Size(k) <= PageAddr(p) + PageUnits
              /\ k = 0 => a # PageAddr(p)
         /\ \A a, b \in Blocks(p, k) : a = b \/ a + Size(k) <= b \/ b + Size(k) <= a
         /\ \A u \in Int :
              /\ PageAddr(p) <= u /\ u < PageAddr(p) + PageUnits
              /\ k = 0 => u # PageAddr(p)
              => \E a \in Blocks(p, k) : a <= u /\ u < a + Size(k)
<1> DEFINE lo == IF k = 0 THEN 1 ELSE 0
           n  == MaxBlocks(k)
           s  == Size(k)
<1>1. /\ n \in Nat /\ n >= 3 /\ s \in Nat /\ s >= 1 /\ PageUnits = n * s /\ lo \in Nat
      /\ PageUnits \in Nat /\ k = 0 => s = 1
  BY BlocksOfAClass, SmallestClass, UnitsOfAPage
<1>2. Blocks(p, k) = {PageAddr(p) + j * s : j \in lo .. n - 1}
  BY DEF Blocks, Local
<1>3. PageAddr(p) \in Nat
  BY PageAddrFacts
<1> HIDE DEF n, s
<1>4. ASSUME NEW j \in lo .. n - 1
      PROVE  /\ j \in Nat /\ j * s \in Nat /\ (j + 1) * s <= n * s /\ (j + 1) * s = j * s + s
             /\ k = 0 => j * s # 0
  <2>1. j \in Nat /\ j + 1 <= n /\ j + 1 \in Nat
    BY <1>1
  <2>2. j * s \in Nat /\ (j + 1) * s = j * s + s
    BY <1>1, <2>1
  <2>3. (j + 1) * s <= n * s
    BY <1>1, <2>1, Monotone
  <2>4. k = 0 => j * s # 0
    <3> SUFFICES ASSUME k = 0 PROVE j * s # 0
      OBVIOUS
    <3>1. j # 0 /\ s = 1
      BY <1>1
    <3> QED BY <3>1, <2>1
  <2> QED BY <2>1, <2>2, <2>3, <2>4
<1>5. ASSUME NEW a \in Blocks(p, k)
      PROVE  /\ a \in Addr /\ PageOf(a) = p
             /\ PageAddr(p) <= a /\ a + s <= PageAddr(p) + PageUnits
             /\ k = 0 => a # PageAddr(p)
  <2>1. PICK j \in lo .. n - 1 : a = PageAddr(p) + j * s
    BY <1>2
  <2>2. j * s \in Nat /\ j * s + s <= PageUnits /\ (k = 0 => j * s # 0)
    BY <1>1, <1>4
  <2>3. a \in Int /\ PageAddr(p) <= a /\ a + s <= PageAddr(p) + PageUnits
    BY <1>1, <1>3, <2>1, <2>2
  <2>4. a < PageAddr(p) + PageUnits
    BY <2>3, <1>1, <1>3
  <2>5. k = 0 => a # PageAddr(p)
    BY <2>1, <2>2, <1>3
  <2> QED BY <2>3, <2>4, <2>5, PageOfFacts
<1>6. ASSUME NEW a \in Blocks(p, k), NEW b \in Blocks(p, k)
      PROVE  a = b \/ a + s <= b \/ b + s <= a
  <2>1. PICK i \in lo .. n - 1 : a = PageAddr(p) + i * s
    BY <1>2
  <2>2. PICK j \in lo .. n - 1 : b = PageAddr(p) + j * s
    BY <1>2
  <2>3. /\ i \in Nat /\ i * s \in Nat /\ (i + 1) * s = i * s + s
        /\ j \in Nat /\ j * s \in Nat /\ (j + 1) * s = j * s + s
    BY <1>4
  <2>4. (i < j => (i + 1) * s <= j * s) /\ (j < i => (j + 1) * s <= i * s)
    BY <2>3, <1>1, Monotone
  <2>5. i = j \/ i < j \/ j < i
    BY <2>3
  <2> QED BY <2>1, <2>2, <2>3, <2>4, <2>5, <1>1, <1>3
<1>7. ASSUME NEW u \in Int, PageAddr(p) <= u, u < PageAddr(p) + PageUnits,
             k = 0 => u # PageAddr(p)
      PROVE  \E a \in Blocks(p, k) : a <= u /\ u < a + s
  <2>1. PICK e \in Nat : u = PageAddr(p) + e /\ e < n * s
    <3>1. u - PageAddr(p) \in Nat /\ u - PageAddr(p) < n * s
      BY <1>1, <1>3, <1>7
    <3> QED BY <3>1, <1>3
  <2>2. PICK q \in Nat, r \in Nat : r < s /\ e = q * s + r
    <3>1. s \in Nat /\ s > 0
      BY <1>1
    <3>2. \E q \in Nat, r \in Nat : r < s /\ e = q * s + r /\ e \div s = q
      BY <3>1, DivSplit
    <3> QED BY <3>2, Zenon
  <2>3. q * s \in Nat /\ q * s < n * s
    BY <2>1, <2>2, <1>1
  <2>4. q < n
    <3>1. n <= q => n * s <= q * s
      BY <1>1, Monotone
    <3> QED BY <3>1, <2>3, <1>1
  <2>5. q >= lo
    <3> SUFFICES ASSUME k = 0, q = 0 PROVE FALSE
      OBVIOUS
    <3>1. s = 1 /\ q * s = 0
      BY <1>1
    <3> QED BY <3>1, <2>1, <2>2, <1>3, <1>7
  <2>6. PageAddr(p) + q * s \in Blocks(p, k)
    BY <1>2, <2>4, <2>5, <1>1
  <2>7. PageAddr(p) + q * s <= u /\ u < PageAddr(p) + q * s + s
    BY <2>1, <2>2, <2>3, <1>1, <1>3
  <2> QED BY <2>6, <2>7
<1> QED BY <1>5, <1>6, <1>7 DEF s

(* The number of blocks of a page.                                         *)
LEMMA BlockCount ==
  ASSUME NEW p \in Page, NEW k \in Class
  PROVE  /\ IsFiniteSet(Blocks(p, k))
         /\ Cardinality(Blocks(p, k)) = MaxBlocks(k) - (IF k = 0 THEN 1 ELSE 0)
<1> DEFINE lo == IF k = 0 THEN 1 ELSE 0
           n  == MaxBlocks(k)
           s  == Size(k)
           f  == [j \in lo .. n - 1 |-> PageAddr(p) + j * s]
<1>1. n \in Nat /\ n >= 3 /\ s \in Nat /\ s >= 1 /\ lo \in Nat /\ PageAddr(p) \in Nat
  BY BlocksOfAClass, PageAddrFacts
<1>2. Blocks(p, k) = {PageAddr(p) + j * s : j \in lo .. n - 1}
  BY DEF Blocks, Local
<1> HIDE DEF n, s
<1>3. f \in [lo .. n - 1 -> Blocks(p, k)]
  BY <1>2
<1>4. \A b \in Blocks(p, k) : \E j \in lo .. n - 1 : f[j] = b
  BY <1>2
<1>5. ASSUME NEW i \in lo .. n - 1, NEW j \in lo .. n - 1, f[i] = f[j] PROVE i = j
  <2>1. i \in Nat /\ j \in Nat /\ i * s \in Nat /\ j * s \in Nat
    BY <1>1
  <2>2. i * s = j * s
    BY <1>5, <2>1, <1>1
  <2>3. (i < j => (i + 1) * s <= j * s) /\ (j < i => (j + 1) * s <= i * s)
    BY <2>1, <1>1, Monotone
  <2>4. (i + 1) * s = i * s + s /\ (j + 1) * s = j * s + s
    BY <2>1, <1>1
  <2> QED BY <2>1, <2>2, <2>3, <2>4, <1>1
<1>6. f \in Bijection(lo .. n - 1, Blocks(p, k))
  <2>1. f \in Injection(lo .. n - 1, Blocks(p, k))
    BY <1>3, <1>5 DEF Injection, IsInjective
  <2>2. f \in Surjection(lo .. n - 1, Blocks(p, k))
    BY <1>3, <1>4 DEF Surjection
  <2> QED BY <2>1, <2>2 DEF Bijection
<1>7. ExistsBijection(lo .. n - 1, Blocks(p, k))
  BY <1>6 DEF ExistsBijection
<1>8. IsFiniteSet(lo .. n - 1) /\ Cardinality(lo .. n - 1) = n - lo
  <2>1. lo \in Int /\ n - 1 \in Int /\ ~ lo > n - 1
    BY <1>1
  <2> QED BY <2>1, <1>1, FS_Interval
<1>9. /\ IsFiniteSet(Blocks(p, k))
      /\ Cardinality(Blocks(p, k)) = Cardinality(lo .. n - 1)
  BY <1>7, <1>8, FS_Bijection
<1> QED BY <1>8, <1>9 DEF n

(* The blocks of a page of the smallest class are its units but the first. *)
LEMMA UnitBlocks ==
  ASSUME NEW p \in Page
  PROVE  Blocks(p, 0) = {a \in Addr : PageOf(a) = p /\ a # PageAddr(p)}
<1>1. 0 \in Class /\ Size(0) = 1
  BY SmallestClass
<1>2. \A a \in Blocks(p, 0) : a \in Addr /\ PageOf(a) = p /\ a # PageAddr(p)
  BY <1>1, BlockFacts
<1>3. ASSUME NEW a \in Addr, PageOf(a) = p, a # PageAddr(p) PROVE a \in Blocks(p, 0)
  <2>1. a \in Int /\ PageAddr(p) <= a /\ a < PageAddr(p) + PageUnits
    BY <1>3, PageOfFacts
  <2>2. PICK b \in Blocks(p, 0) : b <= a /\ a < b + 1
    BY <2>1, <1>1, <1>3, BlockFacts
  <2>3. b \in Int
    BY <1>2, PageOfFacts
  <2> QED BY <2>1, <2>2, <2>3
<1> QED BY <1>2, <1>3

-----------------------------------------------------------------------------
(* The free blocks of a page, and their number.                            *)
LEMMA FreeSetFacts ==
  ASSUME NEW p \in Page, NEW k \in Class, NEW bs \in SUBSET Blocks(p, k)
  PROVE  /\ IsFiniteSet(bs) /\ Cardinality(bs) \in Nat
         /\ Cardinality(bs) <= MaxBlocks(k) - (IF k = 0 THEN 1 ELSE 0)
         /\ Cardinality(bs) = MaxBlocks(k) - (IF k = 0 THEN 1 ELSE 0) <=> bs = Blocks(p, k)
         /\ Cardinality(bs) = 0 <=> bs = {}
         /\ \A a : Cardinality(bs \cup {a}) = Cardinality(bs) + (IF a \in bs THEN 0 ELSE 1)
         /\ \A a : Cardinality(bs \ {a}) = Cardinality(bs) - (IF a \in bs THEN 1 ELSE 0)
<1>1. IsFiniteSet(bs) /\ Cardinality(bs) <= Cardinality(Blocks(p, k))
  BY BlockCount, FS_Subset
<1>2. Cardinality(Blocks(p, k)) = Cardinality(bs) => bs = Blocks(p, k)
  BY BlockCount, FS_Subset
<1>3. Cardinality(bs) \in Nat
  BY <1>1, FS_CardinalityType
<1>4. Cardinality(bs) = 0 <=> bs = {}
  BY <1>1, FS_EmptySet
<1>5. ASSUME NEW a
      PROVE  Cardinality(bs \cup {a}) = Cardinality(bs) + (IF a \in bs THEN 0 ELSE 1)
  <2>1. CASE a \in bs
    <3>1. bs \cup {a} = bs
      BY <2>1
    <3> QED BY <3>1, <2>1, <1>3
  <2>2. CASE a \notin bs
    <3>1. Cardinality(bs \cup {a}) = Cardinality(bs) + 1
      BY <2>2, <1>1, FS_AddElement
    <3> QED BY <3>1, <2>2
  <2> QED BY <2>1, <2>2
<1>6. ASSUME NEW a
      PROVE  Cardinality(bs \ {a}) = Cardinality(bs) - (IF a \in bs THEN 1 ELSE 0)
  <2>1. CASE a \notin bs
    <3>1. bs \ {a} = bs
      BY <2>1
    <3> QED BY <3>1, <2>1, <1>3
  <2>2. CASE a \in bs
    <3>1. Cardinality(bs \ {a}) = Cardinality(bs) - 1
      BY <2>2, <1>1, FS_RemoveElement
    <3> QED BY <3>1, <2>2
  <2> QED BY <2>1, <2>2
<1> QED BY <1>1, <1>2, <1>3, <1>4, <1>5, <1>6, BlockCount

(* A page's count of free blocks.                                          *)
LEMMA CountFits ==
  ASSUME NEW p \in Page, NEW k \in Class, NEW bs \in SUBSET Blocks(p, k)
  PROVE  Cardinality(bs) \in 0 .. PageUnits
<1>1. /\ PageUnits \in Nat /\ MaxBlocks(k) \in Nat /\ Size(k) \in Nat /\ Size(k) >= 1
      /\ PageUnits = MaxBlocks(k) * Size(k)
  BY BlocksOfAClass, UnitsOfAPage
<1>2. MaxBlocks(k) <= PageUnits
  <2>1. MaxBlocks(k) * 1 <= MaxBlocks(k) * Size(k)
    <3> DEFINE a == MaxBlocks(k)
               b == Size(k)
    <3>1. 1 * a <= b * a
      <4> HIDE DEF a, b
      <4> QED BY <1>1, Monotone DEF a, b
    <3>2. 1 * a = a * 1 /\ b * a = a * b
      BY <1>1
    <3> QED BY <3>1, <3>2
  <2> QED BY <1>1, <2>1
<1>3. Cardinality(bs) \in Nat /\ Cardinality(bs) <= MaxBlocks(k)
  <2>1. /\ Cardinality(bs) \in Nat
        /\ Cardinality(bs) <= MaxBlocks(k) - (IF k = 0 THEN 1 ELSE 0)
    BY FreeSetFacts
  <2> QED BY <2>1, <1>1
<1> QED BY <1>1, <1>2, <1>3

-----------------------------------------------------------------------------
(* The list s holds each member of S, once.                                *)
IsList(s, S) ==
  /\ s \in Seq(Addr)
  /\ \A i, j \in 1 .. Len(s) : s[i] = s[j] => i = j
  /\ S = {s[i] : i \in 1 .. Len(s)}

(* An empty list, and no other, lists nothing.                             *)
LEMMA ListEmpty ==
  /\ IsList(<<>>, {})
  /\ \A s, S : IsList(s, S) => (s = <<>> <=> S = {})
<1>1. IsList(<<>>, {})
  BY DEF IsList
<1>2. ASSUME NEW s, NEW S, IsList(s, S) PROVE s = <<>> <=> S = {}
  <2>1. s \in Seq(Addr) /\ S = {s[i] : i \in 1 .. Len(s)}
    BY <1>2 DEF IsList
  <2>2. Len(s) = 0 <=> s = <<>>
    BY <2>1
  <2>3. Len(s) \in Nat
    BY <2>1
  <2>4. Len(s) # 0 => s[1] \in S
    BY <2>1, <2>3
  <2> QED BY <2>1, <2>2, <2>3, <2>4
<1> QED BY <1>1, <1>2

(* What append_page_to_class does to a list.                               *)
LEMMA ListAppend ==
  ASSUME NEW s, NEW S, IsList(s, S), NEW d \in Addr, d \notin S
  PROVE  IsList(Append(s, d), S \cup {d})
<1>1. /\ s \in Seq(Addr) /\ S = {s[i] : i \in 1 .. Len(s)}
      /\ \A i, j \in 1 .. Len(s) : s[i] = s[j] => i = j
  BY DEF IsList
<1>2. Len(s) \in Nat
  BY <1>1
<1> DEFINE t == Append(s, d)
<1>3. t \in Seq(Addr) /\ Len(t) = Len(s) + 1
  BY <1>1
<1>4. \A i \in 1 .. Len(s) : t[i] = s[i] /\ s[i] \in S
  BY <1>1
<1>5. t[Len(s) + 1] = d
  BY <1>1
<1> HIDE DEF t
<1>6. \A i \in 1 .. Len(t) : i \in 1 .. Len(s) \/ i = Len(s) + 1
  BY <1>2, <1>3
<1>7. \A i, j \in 1 .. Len(t) : t[i] = t[j] => i = j
  BY <1>1, <1>4, <1>5, <1>6
<1>8. ASSUME NEW x PROVE x \in S \cup {d} <=> x \in {t[i] : i \in 1 .. Len(t)}
  <2>1. ASSUME x \in S PROVE \E i \in 1 .. Len(t) : x = t[i]
    <3>1. PICK i \in 1 .. Len(s) : x = s[i]
      BY <2>1, <1>1
    <3>2. i \in 1 .. Len(t)
      BY <1>2, <1>3
    <3> QED BY <3>1, <3>2, <1>4
  <2>2. ASSUME x = d PROVE \E i \in 1 .. Len(t) : x = t[i]
    <3>1. Len(s) + 1 \in 1 .. Len(t)
      BY <1>2, <1>3
    <3> QED BY <3>1, <2>2, <1>5
  <2>3. ASSUME NEW i \in 1 .. Len(t), x = t[i] PROVE x \in S \cup {d}
    BY <2>3, <1>4, <1>5, <1>6
  <2> QED BY <2>1, <2>2, <2>3
<1>9. S \cup {d} = {t[i] : i \in 1 .. Len(t)}
  BY <1>8
<1>10. IsList(t, S \cup {d})
  BY <1>3, <1>7, <1>9 DEF IsList
<1> QED BY <1>10 DEF t

(* A list without its first.                                               *)
LEMMA ListTail ==
  ASSUME NEW s, NEW S, IsList(s, S), s # <<>>
  PROVE  /\ Head(s) \in S /\ Head(s) \in Addr
         /\ IsList(Tail(s), S \ {Head(s)})
<1>1. /\ s \in Seq(Addr) /\ S = {s[i] : i \in 1 .. Len(s)}
      /\ \A i, j \in 1 .. Len(s) : s[i] = s[j] => i = j
  BY DEF IsList
<1>2. Len(s) \in Nat /\ Len(s) >= 1
  BY <1>1
<1> DEFINE t == Tail(s)
<1>3. t \in Seq(Addr) /\ Len(t) = Len(s) - 1 /\ Head(s) = s[1] /\ s[1] \in Addr
  BY <1>1, <1>2
<1>4. \A i \in 1 .. Len(t) : t[i] = s[i + 1]
  BY <1>1, <1>2
<1>5. \A i \in 1 .. Len(t) : i + 1 \in 1 .. Len(s) /\ i + 1 # 1
  BY <1>2, <1>3
<1> HIDE DEF t
<1>6. \A i, j \in 1 .. Len(t) : t[i] = t[j] => i = j
  <2> SUFFICES ASSUME NEW i \in 1 .. Len(t), NEW j \in 1 .. Len(t), t[i] = t[j] PROVE i = j
    OBVIOUS
  <2>1. i + 1 = j + 1
    BY <1>1, <1>4, <1>5
  <2> QED BY <2>1
<1>7. ASSUME NEW x PROVE x \in S \ {s[1]} <=> x \in {t[i] : i \in 1 .. Len(t)}
  <2>1. ASSUME x \in S, x # s[1] PROVE \E i \in 1 .. Len(t) : x = t[i]
    <3>1. PICK i \in 1 .. Len(s) : x = s[i]
      BY <2>1, <1>1
    <3>2. i - 1 \in 1 .. Len(t) /\ (i - 1) + 1 = i
      BY <2>1, <3>1, <1>2, <1>3
    <3>3. t[i - 1] = s[i]
      BY <3>2, <1>4
    <3> QED BY <3>1, <3>2, <3>3
  <2>2. ASSUME NEW i \in 1 .. Len(t), x = t[i] PROVE x \in S /\ x # s[1]
    <3>1. 1 \in 1 .. Len(s)
      BY <1>2
    <3> QED BY <2>2, <1>1, <1>4, <1>5, <3>1
  <2> QED BY <2>1, <2>2
<1>8. S \ {s[1]} = {t[i] : i \in 1 .. Len(t)}
  BY <1>7
<1>9. s[1] \in S
  BY <1>1, <1>2
<1>10. IsList(t, S \ {s[1]})
  BY <1>3, <1>6, <1>8 DEF IsList
<1> QED BY <1>3, <1>9, <1>10 DEF t

(* What remove_from_class does to a list.                                  *)
LEMMA ListUnlinked ==
  ASSUME NEW s, NEW S, IsList(s, S), NEW d \in S
  PROVE  IsList(Unlinked(s, d), S \ {d})
<1>1. /\ s \in Seq(Addr) /\ S = {s[i] : i \in 1 .. Len(s)}
      /\ \A i, j \in 1 .. Len(s) : s[i] = s[j] => i = j
  BY DEF IsList
<1>2. Len(s) \in Nat /\ DOMAIN s = 1 .. Len(s)
  BY <1>1
<1> DEFINE k == CHOOSE i \in DOMAIN s : s[i] = d
           l == SubSeq(s, 1, k - 1)
           r == SubSeq(s, k + 1, Len(s))
           t == l \o r
<1>3. k \in 1 .. Len(s) /\ s[k] = d
  BY <1>1, <1>2
<1> HIDE DEF k
<1>4. /\ l \in Seq(Addr) /\ Len(l) = k - 1
      /\ \A i \in 1 .. k - 1 : l[i] = s[i]
  BY <1>1, <1>2, <1>3
<1>5. /\ r \in Seq(Addr) /\ Len(r) = IF k + 1 <= Len(s) THEN Len(s) - (k + 1) + 1 ELSE 0
      /\ \A i \in 1 .. Len(s) - (k + 1) + 1 : r[i] = s[(k + 1) + i - 1]
  <2>1. \A i \in k + 1 .. Len(s) : s[i] \in Addr
    BY <1>1, <1>3
  <2> QED BY <2>1, <1>2, <1>3, SubSeqProperties
<1> HIDE DEF l, r
<1>5a. k \in Nat /\ k <= Len(s)
  BY <1>2, <1>3
<1>5b. Len(r) = Len(s) - k
  <2>1. Len(s) \in Nat /\ Len(r) = IF k + 1 <= Len(s) THEN Len(s) - (k + 1) + 1 ELSE 0
    BY <1>2, <1>5
  <2>2. \A m, n, e \in Nat : m <= n /\ e = (IF m + 1 <= n THEN n - (m + 1) + 1 ELSE 0)
                              => e = n - m
    OBVIOUS
  <2>3. Len(r) \in Nat
    BY <1>5
  <2> QED BY <2>1, <2>2, <2>3, <1>5a
<1>5c. ASSUME NEW i \in 1 .. Len(s) - k PROVE r[i] = s[i + k]
  <2>1. i \in Nat /\ (k + 1) + i - 1 = i + k /\ i \in 1 .. Len(s) - (k + 1) + 1
    BY <1>2, <1>5a
  <2> QED BY <2>1, <1>5
<1>6. t \in Seq(Addr) /\ Len(t) = Len(s) - 1
  <2>1. t \in Seq(Addr) /\ Len(t) = Len(l) + Len(r)
    BY <1>4, <1>5, ConcatProperties
  <2> QED BY <2>1, <1>2, <1>5a, <1>4, <1>5b
<1>7. ASSUME NEW i \in 1 .. Len(t)
      PROVE  /\ i < k => t[i] = s[i] /\ i \in 1 .. Len(s)
             /\ i >= k => t[i] = s[i + 1] /\ i + 1 \in 1 .. Len(s)
  <2>1. CASE i < k
    <3>1. t[i] = l[i]
      BY <2>1, <1>3, <1>4, <1>5, <1>5b
    <3> QED BY <3>1, <2>1, <1>2, <1>3, <1>4
  <2>2. CASE i >= k
    <3>1. i \in Nat /\ i <= Len(s) - 1
      BY <1>2, <1>6
    <3>2. i > Len(l) /\ i <= Len(l) + Len(r)
      BY <3>1, <2>2, <1>2, <1>5a, <1>4, <1>5b
    <3>3. t[i] = r[i - Len(l)]
      BY <3>1, <3>2, <1>4, <1>5
    <3>4. i - Len(l) \in 1 .. Len(s) - k /\ (i - Len(l)) + k = i + 1
      BY <3>1, <2>2, <1>2, <1>3, <1>4
    <3>5. t[i] = s[i + 1]
      BY <3>3, <3>4, <1>5c
    <3> QED BY <3>1, <3>5, <2>2, <1>2, <1>3
  <2> QED BY <2>1, <2>2, <1>3, <1>6
<1> HIDE DEF t
<1>8. \A i \in 1 .. Len(t) : i \in Nat
  BY <1>2, <1>6
<1>9. \A i, j \in 1 .. Len(t) : t[i] = t[j] => i = j
  <2> SUFFICES ASSUME NEW i \in 1 .. Len(t), NEW j \in 1 .. Len(t), t[i] = t[j] PROVE i = j
    OBVIOUS
  <2>0. i \in Nat /\ j \in Nat /\ k \in Nat
    BY <1>3, <1>8
  <2>1. CASE i < k /\ j < k
    BY <2>1, <1>1, <1>7
  <2>2. CASE i >= k /\ j >= k
    <3>1. i + 1 = j + 1
      BY <2>2, <1>1, <1>7
    <3> QED BY <3>1, <2>0
  <2>3. CASE i < k /\ j >= k
    <3>1. i = j + 1
      BY <2>3, <1>1, <1>7
    <3> QED BY <3>1, <2>3, <2>0
  <2>4. CASE i >= k /\ j < k
    <3>1. i + 1 = j
      BY <2>4, <1>1, <1>7
    <3> QED BY <3>1, <2>4, <2>0
  <2> QED BY <2>0, <2>1, <2>2, <2>3, <2>4
<1>10. ASSUME NEW x PROVE x \in S \ {d} <=> x \in {t[i] : i \in 1 .. Len(t)}
  <2>1. ASSUME x \in S, x # d PROVE \E i \in 1 .. Len(t) : x = t[i]
    <3>1. PICK i \in 1 .. Len(s) : x = s[i]
      BY <2>1, <1>1
    <3>2. i # k
      BY <2>1, <3>1, <1>3
    <3>3. CASE i < k
      <4>1. i \in 1 .. Len(t) /\ i \in 1 .. k - 1
        BY <3>3, <1>2, <1>3, <1>6
      <4> QED BY <4>1, <3>1, <3>3, <1>7
    <3>4. CASE i > k
      <4>1. i - 1 \in 1 .. Len(t) /\ i - 1 \in k .. Len(s) - 1 /\ (i - 1) + 1 = i
        BY <3>4, <1>2, <1>3, <1>6
      <4>2. t[i - 1] = s[i]
        <5>1. i - 1 >= k
          BY <4>1, <1>2, <1>3
        <5> QED BY <4>1, <5>1, <1>7
      <4> QED BY <4>1, <4>2, <3>1
    <3> QED BY <3>2, <3>3, <3>4, <1>3
  <2>2. ASSUME NEW i \in 1 .. Len(t), x = t[i] PROVE x \in S /\ x # d
    <3>1. CASE i < k
      <4>1. x = s[i] /\ i \in 1 .. Len(s) /\ i # k
        BY <3>1, <2>2, <1>3, <1>7
      <4> QED BY <4>1, <1>1, <1>3
    <3>2. CASE i >= k
      <4>1. x = s[i + 1] /\ i + 1 \in 1 .. Len(s) /\ i + 1 # k
        BY <3>2, <2>2, <1>3, <1>7, <1>8
      <4> QED BY <4>1, <1>1, <1>3
    <3> QED BY <3>1, <3>2, <1>3, <1>8
  <2> QED BY <2>1, <2>2
<1>11. S \ {d} = {t[i] : i \in 1 .. Len(t)}
  BY <1>10
<1>12. IsList(t, S \ {d})
  BY <1>6, <1>9, <1>11 DEF IsList
<1> QED BY <1>12 DEF t, l, r, k, Unlinked, RemoveAt

-----------------------------------------------------------------------------
(* The state of a call: see Now.                                           *)
Description == [index : Page, class : Class, count : 0 .. PageUnits, block : SUBSET Addr]
Block == [addr : Addr, size : Nat]
State == [entry : [Page -> {MULTI, BUSY} \cup Addr], page_classes : [Page -> -128 .. 127],
          classes : [Class -> Seq(Addr)], desc : [Addr -> Description],
          lost : SUBSET Block, hit : SUBSET Addr]

(* A descriptor that is forgotten.                                         *)
LEMMA NoneFits == None \in Description
<1>1. 0 \in 0 .. PageUnits /\ 0 \in Page
  BY UnitsOfAPage, ZoneAssumption DEF Page
<1> QED BY <1>1, SmallestClass DEF None, Description

(* The free blocks of a page in use, and those that are used.              *)
FreeOf(m, p) == IF m.entry[p] = BUSY THEN {} ELSE m.desc[m.entry[p]].block
UsedOf(m, p) ==
  IF m.entry[p] = FREE THEN {} ELSE Blocks(p, m.page_classes[p]) \ FreeOf(m, p)

(* The descriptor of page p of class k says so, and what is free of it.    *)
Describes(m, p, k) ==
  LET r == m.desc[m.entry[p]] IN
  /\ r.index = p /\ r.class = k
  /\ r.block \in SUBSET Blocks(p, k) /\ r.block # {} /\ r.count = Cardinality(r.block)

(* The pages outside F are free or of the smallest class: full, or with a  *)
(* descriptor at their beginning, which the list of the class has, once.   *)
(* None of them but those of Q is wholly free.                             *)
Small0(m, p) ==
  /\ m.page_classes[p] = 0 /\ m.entry[p] \in {FREE, BUSY, PageAddr(p)}
  /\ m.entry[p] = PageAddr(p) => Describes(m, p, 0)
Roomy(m, F) == {p \in Page \ F : m.entry[p] = PageAddr(p)}
RoomyList(m, F) == {PageAddr(p) : p \in Roomy(m, F)}
SmallestBut(m, F, Q) ==
  /\ F \in SUBSET Page /\ 0 \in F
  /\ \A p \in F : m.entry[p] # FREE
  /\ \A p \in Page \ F : Small0(m, p)
  /\ \A p \in Roomy(m, F) \ Q : FreeOf(m, p) # Blocks(p, 0)
  /\ IsList(m.classes[0], RoomyList(m, F))
Smallest(m, F) == SmallestBut(m, F, {})

(* The blocks of the smallest class that are in use.                       *)
UnitsUsed(m, F) == UNION {UsedOf(m, p) : p \in Page \ F}

(* Between m and r nothing of the pages of F has changed, and nothing that *)
(* is written in a block of the smallest class in use.                     *)
Same(m, r, F) ==
  /\ \A p \in F : r.entry[p] = m.entry[p] /\ r.page_classes[p] = m.page_classes[p]
  /\ \A k \in Class \ {0} : r.classes[k] = m.classes[k]
  /\ r.lost = m.lost /\ r.hit = m.hit
  /\ \A x \in UnitsUsed(m, F) \cap UnitsUsed(r, F) : r.desc[x] = m.desc[x]

-----------------------------------------------------------------------------
(* Units in use are addresses, none of them where a page begins.           *)
LEMMA UnitFacts ==
  ASSUME NEW m, NEW F, NEW Q, SmallestBut(m, F, Q)
  PROVE  /\ \A a \in UnitsUsed(m, F) :
              /\ a \in Addr /\ a # 0 /\ PageOf(a) \in Page \ F
              /\ a # PageAddr(PageOf(a)) /\ \A p \in Page : a # PageAddr(p)
              /\ m.entry[PageOf(a)] # FREE /\ a \notin FreeOf(m, PageOf(a))
              /\ a \in UsedOf(m, PageOf(a)) /\ a \in Blocks(PageOf(a), 0)
         /\ \A p \in Page \ F : UsedOf(m, p) \in SUBSET Blocks(p, 0)
<1>0. 0 \in Class /\ 0 \in Page
  BY SmallestClass, ZoneAssumption DEF Page
<1>1. ASSUME NEW p \in Page \ F PROVE UsedOf(m, p) \in SUBSET Blocks(p, 0)
  BY <1>1 DEF SmallestBut, Small0, UsedOf
<1>2. ASSUME NEW a \in UnitsUsed(m, F)
      PROVE  /\ a \in Addr /\ a # 0 /\ PageOf(a) \in Page \ F
             /\ a # PageAddr(PageOf(a)) /\ \A p \in Page : a # PageAddr(p)
             /\ m.entry[PageOf(a)] # FREE /\ a \notin FreeOf(m, PageOf(a))
             /\ a \in UsedOf(m, PageOf(a)) /\ a \in Blocks(PageOf(a), 0)
  <2>1. PICK p \in Page \ F : a \in UsedOf(m, p)
    BY DEF UnitsUsed
  <2>2. a \in Blocks(p, 0) /\ m.entry[p] # FREE /\ a \notin FreeOf(m, p)
    BY <2>1, <1>1 DEF UsedOf
  <2>3. a \in Addr /\ PageOf(a) = p /\ a # PageAddr(p)
    BY <2>2, UnitBlocks
  <2>4. \A q \in Page : a # PageAddr(q)
    BY <2>3, PageAddrFacts
  <2>5. PageAddr(0) = 0
    BY UnitsOfAPage DEF PageAddr
  <2> QED BY <2>1, <2>2, <2>3, <2>4, <2>5, <1>0
<1> QED BY <1>1, <1>2

(* A change of one page of the smallest class, and of what is written in   *)
(* its units A: what has to be shown of it.                                *)
OnlyPage(m, r, F, p, A) ==
  /\ \A q \in Page \ {p} : r.entry[q] = m.entry[q] /\ r.page_classes[q] = m.page_classes[q]
  /\ \A k \in Class \ {0} : r.classes[k] = m.classes[k]
  /\ r.lost = m.lost /\ r.hit = m.hit
  /\ \A x \in Addr : x # PageAddr(p) /\ x \notin A => r.desc[x] = m.desc[x]
  /\ A \in SUBSET Blocks(p, 0) /\ A \cap UsedOf(m, p) \cap UsedOf(r, p) = {}
ListedAs(m, r, F, p) ==
  /\ r.entry[p] = PageAddr(p) =>
       IsList(r.classes[0], RoomyList(m, F) \cup {PageAddr(p)})
  /\ r.entry[p] # PageAddr(p) =>
       IsList(r.classes[0], RoomyList(m, F) \ {PageAddr(p)})

PageChanged(m, r, F, Q, p) ==
  /\ SmallestBut(r, F, Q \cup {p})
  /\ (r.entry[p] = PageAddr(p) => FreeOf(r, p) # Blocks(p, 0)) /\ (\A q \in Q : q = p)
       => Smallest(r, F)
  /\ Same(m, r, F)
  /\ UnitsUsed(r, F) = (UnitsUsed(m, F) \ Blocks(p, 0)) \cup UsedOf(r, p)

(* It changes those and nothing else of the smallest class.                *)
LEMMA OnePage ==
  ASSUME NEW m \in State, NEW r \in State, NEW F, NEW Q, SmallestBut(m, F, Q),
         NEW p \in Page \ F, NEW A, OnlyPage(m, r, F, p, A), Small0(r, p),
         ListedAs(m, r, F, p)
  PROVE  PageChanged(m, r, F, Q, p)
<1>0. F \in SUBSET Page /\ 0 \in F /\ 0 \in Class /\ p # 0
  BY SmallestClass DEF SmallestBut
<1>a. /\ \A q \in Page \ {p} : r.entry[q] = m.entry[q] /\ r.page_classes[q] = m.page_classes[q]
      /\ \A k \in Class \ {0} : r.classes[k] = m.classes[k]
      /\ r.lost = m.lost /\ r.hit = m.hit
      /\ \A x \in Addr : x # PageAddr(p) /\ x \notin A => r.desc[x] = m.desc[x]
      /\ A \in SUBSET Blocks(p, 0) /\ A \cap UsedOf(m, p) \cap UsedOf(r, p) = {}
  BY DEF OnlyPage
<1>1. \A q \in Page \ F : q # p => r.entry[q] = m.entry[q] /\ r.page_classes[q] = m.page_classes[q]
  BY <1>a
<1>2. ASSUME NEW q \in Page \ F, q # p
      PROVE  /\ r.desc[PageAddr(q)] = m.desc[PageAddr(q)] /\ PageAddr(q) # PageAddr(p)
             /\ Small0(r, q) /\ UsedOf(r, q) = UsedOf(m, q)
             /\ m.entry[q] = PageAddr(q) => FreeOf(r, q) = FreeOf(m, q)
  <2>1. PageAddr(q) \in Addr /\ PageOf(PageAddr(q)) = q /\ PageOf(PageAddr(p)) = p
    BY PageAddrFacts
  <2>2. PageAddr(q) \notin A
    BY <2>1, <1>2, <1>a, UnitBlocks
  <2>3. r.desc[PageAddr(q)] = m.desc[PageAddr(q)] /\ PageAddr(q) # PageAddr(p)
    BY <2>1, <2>2, <1>2, <1>a
  <2>4. Small0(m, q)
    BY DEF SmallestBut
  <2>5. r.entry[q] = m.entry[q] /\ r.page_classes[q] = m.page_classes[q]
    BY <1>2, <1>1
  <2>6. Small0(r, q)
    BY <2>3, <2>4, <2>5 DEF Small0, Describes
  <2>7. m.entry[q] = PageAddr(q) => FreeOf(r, q) = FreeOf(m, q)
    BY <2>3, <2>5 DEF FreeOf
  <2>8. UsedOf(r, q) = UsedOf(m, q)
    BY <2>3, <2>4, <2>5 DEF UsedOf, FreeOf, Small0
  <2> QED BY <2>3, <2>6, <2>7, <2>8
<1>3. \A q \in Page \ F : Small0(r, q)
  BY <1>2
<1>4. /\ \A q \in Roomy(r, F) : q # p => q \in Roomy(m, F)
      /\ \A q \in Roomy(m, F) : q # p => q \in Roomy(r, F)
      /\ p \in Roomy(r, F) <=> r.entry[p] = PageAddr(p)
  BY <1>1 DEF Roomy
<1>5. IsList(r.classes[0], RoomyList(r, F))
  <2>1. CASE r.entry[p] = PageAddr(p)
    <3>1. RoomyList(r, F) = RoomyList(m, F) \cup {PageAddr(p)}
      BY <2>1, <1>4 DEF RoomyList
    <3> QED BY <3>1, <2>1 DEF ListedAs
  <2>2. CASE r.entry[p] # PageAddr(p)
    <3>1. \A q \in Roomy(r, F) : q # p
      BY <2>2, <1>4
    <3>2. \A q \in Roomy(m, F) : q # p => PageAddr(q) # PageAddr(p)
      BY <1>2 DEF Roomy
    <3>3. RoomyList(r, F) = RoomyList(m, F) \ {PageAddr(p)}
      BY <3>1, <3>2, <1>4 DEF RoomyList
    <3> QED BY <3>3, <2>2 DEF ListedAs
  <2> QED BY <2>1, <2>2
<1>6. \A q \in Roomy(r, F) : q # p /\ q \notin Q => FreeOf(r, q) # Blocks(q, 0)
  <2> SUFFICES ASSUME NEW q \in Roomy(r, F), q # p, q \notin Q PROVE FreeOf(r, q) # Blocks(q, 0)
    OBVIOUS
  <2>1. q \in Roomy(m, F) \ Q
    BY <1>4
  <2>2. FreeOf(m, q) # Blocks(q, 0) /\ m.entry[q] = PageAddr(q) /\ q \in Page \ F
    BY <2>1 DEF SmallestBut, Roomy
  <2> QED BY <2>2, <1>2
<1>7. \A q \in F : r.entry[q] = m.entry[q] /\ r.page_classes[q] = m.page_classes[q] /\ r.entry[q] # FREE
  BY <1>0, <1>a DEF SmallestBut
<1>8. SmallestBut(r, F, Q \cup {p})
  BY <1>0, <1>3, <1>5, <1>6, <1>7 DEF SmallestBut
<1>9. ASSUME r.entry[p] = PageAddr(p) => FreeOf(r, p) # Blocks(p, 0), \A q \in Q : q = p
      PROVE  Smallest(r, F)
  <2>1. \A q \in Roomy(r, F) : FreeOf(r, q) # Blocks(q, 0)
    BY <1>6, <1>9 DEF Roomy
  <2> QED BY <2>1, <1>0, <1>3, <1>5, <1>7 DEF SmallestBut, Smallest
<1>10. UsedOf(r, p) \in SUBSET Blocks(p, 0) /\ \A q \in Page \ F : UsedOf(m, q) \in SUBSET Blocks(q, 0)
  BY <1>8, UnitFacts
<1>11. \A q \in Page \ F : q # p => Blocks(q, 0) \cap Blocks(p, 0) = {}
  BY UnitBlocks
<1>12. UnitsUsed(r, F) = (UnitsUsed(m, F) \ Blocks(p, 0)) \cup UsedOf(r, p)
  <2>1. ASSUME NEW a \in UnitsUsed(r, F)
        PROVE  a \in (UnitsUsed(m, F) \ Blocks(p, 0)) \cup UsedOf(r, p)
    <3>1. PICK q \in Page \ F : a \in UsedOf(r, q)
      BY DEF UnitsUsed
    <3>2. q # p => a \in UsedOf(m, q) /\ a \notin Blocks(p, 0)
      BY <3>1, <1>2, <1>10, <1>11
    <3> QED BY <3>1, <3>2 DEF UnitsUsed
  <2>2. ASSUME NEW a \in UnitsUsed(m, F), a \notin Blocks(p, 0) PROVE a \in UnitsUsed(r, F)
    <3>1. PICK q \in Page \ F : a \in UsedOf(m, q)
      BY DEF UnitsUsed
    <3>2. q # p
      BY <3>1, <2>2, <1>10
    <3> QED BY <3>1, <3>2, <1>2 DEF UnitsUsed
  <2>3. UsedOf(r, p) \in SUBSET UnitsUsed(r, F)
    BY DEF UnitsUsed
  <2> QED BY <2>1, <2>2, <2>3
<1>13. ASSUME NEW x \in UnitsUsed(m, F) \cap UnitsUsed(r, F) PROVE r.desc[x] = m.desc[x]
  <2>1. /\ x \in Addr /\ x # PageAddr(p) /\ PageOf(x) \in Page \ F
        /\ x \in UsedOf(m, PageOf(x)) /\ x \in UsedOf(r, PageOf(x))
    BY <1>8, UnitFacts
  <2>2. x \in A => PageOf(x) = p
    BY <1>a, UnitBlocks
  <2>3. x \notin A
    BY <2>1, <2>2, <1>a
  <2> QED BY <2>1, <2>3, <1>a
<1> QED BY <1>a, <1>7, <1>8, <1>9, <1>12, <1>13 DEF Same, PageChanged

-----------------------------------------------------------------------------
(* What the operators on pages do, field by field.                         *)

(* A page with a new descriptor, at the end of its class.                  *)
DescribedAs(m, p, k, d, bs, r) ==
  /\ r \in State
  /\ r.entry = [m.entry EXCEPT ![p] = d]
  /\ r.page_classes = [m.page_classes EXCEPT ![p] = k]
  /\ r.classes = [m.classes EXCEPT ![k] = Append(m.classes[k], d)]
  /\ r.desc = [m.desc EXCEPT ![d] = [index |-> p, class |-> k,
                                     count |-> Cardinality(bs), block |-> bs]]
  /\ r.lost = m.lost /\ r.hit = m.hit

(* That is what Described does.                                            *)
LEMMA DescribedIs ==
  ASSUME NEW m \in State, NEW p \in Page, NEW k \in Class, NEW d \in Addr,
         NEW bs \in SUBSET Blocks(p, k), NEW r, r = Described(m, p, k, d, bs)
  PROVE  DescribedAs(m, p, k, d, bs, r)
<1> DEFINE rec == [index |-> p, class |-> k, count |-> Cardinality(bs), block |-> bs]
           u == [m EXCEPT !.entry[p] = d, !.desc[d] = rec]
<1>1. rec \in Description
  <2>1. Cardinality(bs) \in 0 .. PageUnits
    BY CountFits
  <2>2. bs \in SUBSET Addr
    BY BlockFacts
  <2> QED BY <2>1, <2>2 DEF Description
<1>2. k \in -128 .. 127
  BY BlocksOfAClass DEF MaxClass
<1> HIDE DEF rec
<1>3. u.desc[d] = rec
  BY DEF State
<1>4. r = [u EXCEPT !.classes[k] = Append(@, d), !.page_classes[p] = k]
  <2>1. rec.class = k /\ rec.index = p
    BY DEF rec
  <2> QED BY <1>3, <2>1 DEF Described, AppendPage, rec
<1>5. /\ r.entry = [m.entry EXCEPT ![p] = d]
      /\ r.page_classes = [m.page_classes EXCEPT ![p] = k]
      /\ r.classes = [m.classes EXCEPT ![k] = Append(m.classes[k], d)]
      /\ r.desc = [m.desc EXCEPT ![d] = rec]
      /\ r.lost = m.lost /\ r.hit = m.hit
  BY <1>4 DEF State
<1>6. r \in State
  <2>1. Append(m.classes[k], d) \in Seq(Addr)
    BY DEF State
  <2>2. /\ [m.entry EXCEPT ![p] = d] \in [Page -> {MULTI, BUSY} \cup Addr]
        /\ [m.page_classes EXCEPT ![p] = k] \in [Page -> -128 .. 127]
    BY <1>2 DEF State
  <2>3. /\ [m.classes EXCEPT ![k] = Append(m.classes[k], d)] \in [Class -> Seq(Addr)]
        /\ [m.desc EXCEPT ![d] = rec] \in [Addr -> Description]
    BY <1>1, <2>1 DEF State
  <2>4. r = [m EXCEPT !.entry = [m.entry EXCEPT ![p] = d],
                      !.page_classes = [m.page_classes EXCEPT ![p] = k],
                      !.classes = [m.classes EXCEPT ![k] = Append(m.classes[k], d)],
                      !.desc = [m.desc EXCEPT ![d] = rec]]
    BY <1>4 DEF State
  <2> QED BY <2>2, <2>3, <2>4 DEF State
<1> QED BY <1>5, <1>6 DEF rec, DescribedAs

(* A block put to a page's free blocks, or taken from them.                *)
Pushed(m, d, a, r) ==
  /\ r \in State
  /\ r.entry = m.entry /\ r.page_classes = m.page_classes /\ r.classes = m.classes
  /\ r.lost = m.lost /\ r.hit = m.hit
  /\ r.desc[d].index = m.desc[d].index /\ r.desc[d].class = m.desc[d].class
  /\ r.desc[d].block = m.desc[d].block \cup {a}
  /\ r.desc[d].count = m.desc[d].count + 1
  /\ \A x \in Addr : x # d /\ x # a => r.desc[x] = m.desc[x]

(* That is what Push does.                                                 *)
LEMMA PushIs ==
  ASSUME NEW m \in State, NEW d \in Addr, NEW a \in Addr, a # d,
         m.desc[d].count + 1 <= PageUnits, NEW r, r = Push(m, d, a)
  PROVE  Pushed(m, d, a, r)
<1>1. None \in Description
  BY NoneFits
<1> DEFINE x == m.desc[d]
           b == x.block \cup {a}
           y == [x EXCEPT !.block = b, !.count = x.count + 1]
           ds == [m.desc EXCEPT ![d] = y, ![a] = None]
<1>2. m.desc \in [Addr -> Description] /\ x \in Description
  BY DEF State
<1>3. b \in SUBSET Addr /\ x.count + 1 \in 0 .. PageUnits
  BY <1>2, UnitsOfAPage DEF Description
<1>4. y \in Description
  <2> HIDE DEF b
  <2> QED BY <1>2, <1>3 DEF Description
<1>5. y.index = x.index /\ y.class = x.class /\ y.block = b /\ y.count = x.count + 1
  BY <1>2 DEF Description
<1>6. r = [m EXCEPT !.desc = ds]
  BY <1>2 DEF Push, State
<1> HIDE DEF y
<1>7. ds \in [Addr -> Description]
  BY <1>1, <1>2, <1>4
<1>8. ds[d] = y /\ \A z \in Addr : z # d /\ z # a => ds[z] = m.desc[z]
  BY <1>2
<1> HIDE DEF ds
<1>9. /\ r \in State /\ r.desc = ds
      /\ r.entry = m.entry /\ r.page_classes = m.page_classes /\ r.classes = m.classes
      /\ r.lost = m.lost /\ r.hit = m.hit
  BY <1>6, <1>7 DEF State
<1> QED BY <1>5, <1>8, <1>9 DEF Pushed

TakenFrom(m, d, a, r) ==
  /\ r \in State
  /\ r.entry = m.entry /\ r.page_classes = m.page_classes /\ r.classes = m.classes
  /\ r.lost = m.lost /\ r.hit = m.hit
  /\ r.desc[d].index = m.desc[d].index /\ r.desc[d].class = m.desc[d].class
  /\ r.desc[d].block = m.desc[d].block \ {a}
  /\ r.desc[d].count = m.desc[d].count - 1
  /\ \A x \in Addr : x # d => r.desc[x] = m.desc[x]

(* That is what Taken does.                                                *)
LEMMA TakenIs ==
  ASSUME NEW m \in State, NEW d \in Addr, NEW a \in Addr,
         m.desc[d].count >= 1, NEW r, r = Taken(m, d, a)
  PROVE  TakenFrom(m, d, a, r)
<1> DEFINE x == m.desc[d]
           b == x.block \ {a}
           y == [x EXCEPT !.block = b, !.count = x.count - 1]
           ds == [m.desc EXCEPT ![d] = y]
<1>2. m.desc \in [Addr -> Description] /\ x \in Description
  BY DEF State
<1>3. b \in SUBSET Addr /\ x.count - 1 \in 0 .. PageUnits
  BY <1>2, UnitsOfAPage DEF Description
<1>4. y \in Description
  <2> HIDE DEF b
  <2> QED BY <1>2, <1>3 DEF Description
<1>5. y.index = x.index /\ y.class = x.class /\ y.block = b /\ y.count = x.count - 1
  BY <1>2 DEF Description
<1>6. r = [m EXCEPT !.desc = ds]
  BY <1>2 DEF Taken, State
<1> HIDE DEF y
<1>7. ds \in [Addr -> Description]
  BY <1>2, <1>4
<1>8. ds[d] = y /\ \A z \in Addr : z # d => ds[z] = m.desc[z]
  BY <1>2
<1> HIDE DEF ds
<1>9. /\ r \in State /\ r.desc = ds
      /\ r.entry = m.entry /\ r.page_classes = m.page_classes /\ r.classes = m.classes
      /\ r.lost = m.lost /\ r.hit = m.hit
  BY <1>6, <1>7 DEF State
<1> QED BY <1>5, <1>8, <1>9 DEF TakenFrom

(* A page of the smallest class that is full.                              *)
Filled0(m, d, r) ==
  /\ r \in State
  /\ r.entry = [m.entry EXCEPT ![m.desc[d].index] = BUSY]
  /\ r.page_classes = m.page_classes
  /\ r.classes = [m.classes EXCEPT ![0] = Tail(m.classes[0])]
  /\ r.lost = m.lost /\ r.hit = m.hit
  /\ \A x \in Addr : x # d => r.desc[x] = m.desc[x]

(* That is what Full0 does to a page that is first in the list.            *)
LEMMA Full0Is ==
  ASSUME NEW m \in State, NEW d \in Addr, m.classes[0] # <<>>, NEW r, r = Full0(m, d)
  PROVE  Filled0(m, d, r)
<1>1. None \in Description /\ 0 \in Class
  BY NoneFits, SmallestClass
<1>2. Tail(m.classes[0]) \in Seq(Addr)
  BY <1>1 DEF State
<1>3. m.desc[d].index \in Page
  BY DEF State, Description
<1>4. BUSY \in {MULTI, BUSY} \cup Addr
  OBVIOUS
<1> QED BY <1>1, <1>2, <1>3, <1>4 DEF Full0, State, Filled0

(* A page off its list.                                                    *)
Removed(m, d, k, r) ==
  /\ r \in State
  /\ r.entry = m.entry /\ r.page_classes = m.page_classes /\ r.desc = m.desc
  /\ r.classes = [m.classes EXCEPT ![k] = Unlinked(m.classes[k], d)]
  /\ r.lost = m.lost /\ r.hit = m.hit

(* That is what RemovePage does.                                           *)
LEMMA RemovePageIs ==
  ASSUME NEW m \in State, NEW d \in Addr, NEW k \in Class, m.desc[d].class = k,
         Unlinked(m.classes[k], d) \in Seq(Addr), NEW r, r = RemovePage(m, d)
  PROVE  Removed(m, d, k, r)
BY DEF RemovePage, State, Removed
-----------------------------------------------------------------------------
(* mem_alloc and mem_free in pages of the smallest class.                  *)

(* The page p is the first of the list.                                    *)
AtHead(m, F, p) ==
  /\ p \in Page \ F /\ p \in Roomy(m, F) /\ p # 0
  /\ m.classes[0] # <<>>
  /\ IsList(Tail(m.classes[0]), RoomyList(m, F) \ {PageAddr(p)})
  /\ m.entry[p] = PageAddr(p) /\ Describes(m, p, 0)
  /\ m.desc[PageAddr(p)].block \in SUBSET Blocks(p, 0)

(* The list, where it is not empty, has a first page.                      *)
LEMMA HeadOf0 ==
  ASSUME NEW m \in State, NEW F, NEW Q, SmallestBut(m, F, Q), m.classes[0] # <<>>
  PROVE  \E p \in Page \ F : Head(m.classes[0]) = PageAddr(p) /\ AtHead(m, F, p)
<1>1. PICK p \in Roomy(m, F) :
        /\ Head(m.classes[0]) = PageAddr(p)
        /\ IsList(Tail(m.classes[0]), RoomyList(m, F) \ {PageAddr(p)})
  <2>1. IsList(m.classes[0], RoomyList(m, F))
    BY DEF SmallestBut
  <2>2. /\ Head(m.classes[0]) \in RoomyList(m, F)
        /\ IsList(Tail(m.classes[0]), RoomyList(m, F) \ {Head(m.classes[0])})
    BY <2>1, ListTail
  <2> QED BY <2>2 DEF RoomyList
<1>2. p \in Page \ F /\ m.entry[p] = PageAddr(p) /\ Small0(m, p) /\ p # 0
  BY DEF Roomy, SmallestBut
<1> QED BY <1>1, <1>2 DEF Small0, Describes, AtHead

(* From m to r the unit a has been allocated.                              *)
Allocated0(m, F, r, a) ==
  /\ r \in State /\ Smallest(r, F) /\ Same(m, r, F)
  /\ a \notin UnitsUsed(m, F) /\ UnitsUsed(r, F) = UnitsUsed(m, F) \cup {a}

(* A block taken from the first page of the list.                          *)
LEMMA TakeOneOf ==
  ASSUME NEW m \in State, NEW F, NEW Q, SmallestBut(m, F, Q), NEW p, AtHead(m, F, p),
         \A q \in Q : q = p, NEW d, d = PageAddr(p),
         NEW a \in m.desc[d].block, NEW r, r = TakeOne0(m, d, a)
  PROVE  Allocated0(m, F, r, a)
<1>1. /\ d = PageAddr(p) /\ p \in Roomy(m, F) /\ p # 0 /\ p \in Page \ F
      /\ IsList(Tail(m.classes[0]), RoomyList(m, F) \ {PageAddr(p)})
      /\ m.entry[p] = PageAddr(p) /\ Describes(m, p, 0)
      /\ m.desc[d].block \in SUBSET Blocks(p, 0)
  BY DEF AtHead
<1>2. d \in Addr /\ d # FREE /\ d # BUSY /\ PageOf(d) = p /\ 0 \in Class
  BY <1>1, PageAddrFacts, UnitsOfAPage, SmallestClass DEF FREE, BUSY
<1>3. a \in Addr /\ a # d /\ a \in Blocks(p, 0) /\ PageOf(a) = p
  BY <1>1, UnitBlocks
<1>4. m.page_classes[p] = 0
  BY <1>1 DEF SmallestBut, Small0
<1>5. /\ FreeOf(m, p) = m.desc[d].block
      /\ UsedOf(m, p) = Blocks(p, 0) \ m.desc[d].block
  BY <1>1, <1>2, <1>4 DEF FreeOf, UsedOf
<1>6. a \notin UnitsUsed(m, F)
  BY <1>3, <1>5, UnitFacts
<1>t. PICK t : t = Taken(m, d, a)
  OBVIOUS
<1>7. TakenFrom(m, d, a, t)
  <2>1. Cardinality(m.desc[d].block) \in Nat /\ Cardinality(m.desc[d].block) # 0
    BY <1>1, <1>2, FreeSetFacts
  <2>2. m.desc[d].count >= 1
    BY <2>1, <1>1 DEF Describes
  <2> QED BY <2>2, <1>2, <1>3, <1>t, TakenIs
<1>8. r = IF t.desc[d].block = {} THEN Full0(t, d) ELSE t
  BY <1>t DEF TakeOne0
<1>9. /\ m.desc[d].index = p /\ m.desc[d].class = 0
      /\ m.desc[d].count = Cardinality(m.desc[d].block)
  BY <1>1 DEF Describes
<1> SUFFICES /\ r \in State /\ Smallest(r, F) /\ Same(m, r, F)
             /\ UnitsUsed(r, F) = (UnitsUsed(m, F) \ Blocks(p, 0)) \cup UsedOf(r, p)
             /\ UsedOf(r, p) = UsedOf(m, p) \cup {a}
  <2>1. \A x \in UnitsUsed(m, F) : x \in Blocks(p, 0) => x \in UsedOf(m, p)
    BY <1>1, UnitFacts, UnitBlocks
  <2>2. UsedOf(m, p) \in SUBSET UnitsUsed(m, F)
    BY <1>1 DEF UnitsUsed
  <2> QED BY <2>1, <2>2, <1>3, <1>6 DEF Allocated0
<1>10. CASE t.desc[d].block # {}
  <2>1. r = t
    BY <1>8, <1>10
  <2>2. Small0(r, p) /\ r.entry[p] = PageAddr(p) /\ r \in State
    <3>1. t.desc[d].count = Cardinality(m.desc[d].block \ {a})
      BY <1>1, <1>2, <1>7, <1>9, FreeSetFacts DEF TakenFrom
    <3> QED BY <2>1, <3>1, <1>1, <1>4, <1>7, <1>9, <1>10 DEF Small0, Describes, TakenFrom
  <2>3. FreeOf(r, p) = m.desc[d].block \ {a} /\ UsedOf(r, p) = Blocks(p, 0) \ (m.desc[d].block \ {a})
    BY <2>1, <1>1, <1>2, <1>4, <1>7 DEF FreeOf, UsedOf, TakenFrom
  <2>4. ListedAs(m, r, F, p)
    <3>1. RoomyList(m, F) \cup {PageAddr(p)} = RoomyList(m, F)
      BY <1>1 DEF RoomyList
    <3> QED BY <3>1, <2>1, <2>2, <1>7 DEF SmallestBut, ListedAs, TakenFrom
  <2>5. OnlyPage(m, r, F, p, {})
    BY <2>1, <1>1, <1>7 DEF OnlyPage, TakenFrom
  <2>6. PageChanged(m, r, F, Q, p)
    BY <2>2, <2>4, <2>5, <1>1, OnePage
  <2>7. Smallest(r, F)
    BY <2>3, <2>6, <1>3 DEF PageChanged
  <2>8. UsedOf(r, p) = UsedOf(m, p) \cup {a}
    BY <2>3, <1>3, <1>5
  <2> QED BY <2>2, <2>6, <2>7, <2>8 DEF PageChanged
<1>11. CASE t.desc[d].block = {}
  <2>1. r = Full0(t, d) /\ t.desc[d].index = p /\ m.classes[0] = t.classes[0]
    BY <1>7, <1>8, <1>9, <1>11 DEF TakenFrom
  <2>2. Filled0(t, d, r)
    BY <2>1, <1>2, <1>7, Full0Is DEF TakenFrom, AtHead
  <2>3. /\ r \in State
        /\ r.entry = [m.entry EXCEPT ![p] = BUSY]
        /\ r.page_classes = m.page_classes
        /\ r.classes = [m.classes EXCEPT ![0] = Tail(m.classes[0])]
        /\ r.lost = m.lost /\ r.hit = m.hit
        /\ \A x \in Addr : x # d => r.desc[x] = m.desc[x]
    BY <2>1, <2>2, <1>7 DEF TakenFrom, Filled0
  <2>4. r.entry[p] = BUSY /\ PageAddr(p) # BUSY
    BY <2>3, <1>1, <1>2 DEF State
  <2>5. Small0(r, p)
    BY <2>3, <2>4, <1>4 DEF Small0
  <2>6. UsedOf(r, p) = Blocks(p, 0)
    <3>1. BUSY # FREE /\ FreeOf(r, p) = {}
      BY <2>4 DEF FreeOf, BUSY, FREE
    <3> QED BY <3>1, <2>3, <2>4, <1>4 DEF UsedOf
  <2>7. ListedAs(m, r, F, p)
    <3>1. r.classes[0] = Tail(m.classes[0])
      BY <2>3, <1>2 DEF State
    <3> QED BY <3>1, <2>4, <1>1 DEF ListedAs
  <2>8. OnlyPage(m, r, F, p, {})
    <3>1. \A q \in Page \ {p} : r.entry[q] = m.entry[q] /\ r.page_classes[q] = m.page_classes[q]
      BY <2>3 DEF State
    <3>2. \A k \in Class \ {0} : r.classes[k] = m.classes[k]
      BY <2>3 DEF State
    <3> QED BY <2>3, <3>1, <3>2, <1>1 DEF OnlyPage
  <2>9. PageChanged(m, r, F, Q, p)
    BY <2>3, <2>5, <2>7, <2>8, <1>1, OnePage
  <2>10. Smallest(r, F)
    BY <2>4, <2>9 DEF PageChanged
  <2>11. m.desc[d].block = {a}
    BY <1>7, <1>11 DEF TakenFrom
  <2> QED BY <2>3, <2>6, <2>9, <2>10, <2>11, <1>3, <1>5 DEF PageChanged
<1> QED BY <1>10, <1>11

(* mem_alloc where the list has a page: any outcome is a unit allocated.   *)
LEMMA Take0Keeps ==
  ASSUME NEW m \in State, NEW F, NEW Q, SmallestBut(m, F, Q), m.classes[0] # <<>>,
         \A q \in Q : q = PageOf(Head(m.classes[0])), NEW x \in Take0(m)
  PROVE  Allocated0(m, F, x.m, x.ret)
<1>1. PICK p \in Page \ F : Head(m.classes[0]) = PageAddr(p) /\ AtHead(m, F, p)
  BY HeadOf0
<1>2. PageOf(PageAddr(p)) = p
  BY PageAddrFacts
<1>3. \A q \in Q : q = p
  BY <1>1, <1>2
<1>4. PICK d : d = PageAddr(p)
  OBVIOUS
<1>5. PICK a \in m.desc[d].block : x = [m |-> TakeOne0(m, d, a), ret |-> a]
  BY <1>1, <1>4 DEF Take0
<1>6. Allocated0(m, F, TakeOne0(m, d, a), a)
  BY <1>1, <1>3, <1>4, TakeOneOf
<1> QED BY <1>5, <1>6


(* A set of numbers that is not empty has a least member.                  *)
LEMMA LeastOf ==
  ASSUME NEW S \in SUBSET Nat, S # {}
  PROVE  \E n \in S : \A i \in S : n <= i
<1>1. PICK top \in S : TRUE
  OBVIOUS
<1> DEFINE I == 0 .. top
           T == {0 .. n : n \in S \cap I}
<1>2. IsFiniteSet(I)
  BY FS_Interval
<1>3. IsWellFoundedOn(StrictSubsetOrdering(I), SUBSET I)
  BY <1>2, FS_StrictSubsetOrderingWellFounded, FS_FiniteSubsetsOfFinite
<1>4. T \subseteq SUBSET I /\ T # {}
  <2>1. \A n \in S \cap I : (0 .. n) \subseteq I
    OBVIOUS
  <2> QED BY <1>1, <2>1
<1>5. PICK x \in T : \A y \in T : ~ (<<y, x>> \in StrictSubsetOrdering(I))
  <2> HIDE DEF T, I
  <2> QED BY <1>3, <1>4, WFMin
<1>6. PICK m \in S \cap I : x = 0 .. m
  BY <1>5
<1>7. ASSUME NEW n \in S PROVE m <= n
  <2> SUFFICES ASSUME n < m PROVE FALSE
    OBVIOUS
  <2>1. n \in S \cap I /\ (0 .. n) \in T
    OBVIOUS
  <2>2. (0 .. n) \subseteq (0 .. m) /\ (0 .. n) # (0 .. m)
    <3>1. m \in 0 .. m /\ m \notin 0 .. n
      OBVIOUS
    <3> QED BY <3>1
  <2>3. (0 .. n) \in SUBSET I /\ (0 .. m) \in SUBSET I
    BY <1>4, <1>6, <2>1
  <2>4. <<0 .. n, 0 .. m>> \in StrictSubsetOrdering(I)
    <3> HIDE DEF I
    <3> QED BY <2>2, <2>3 DEF StrictSubsetOrdering
  <2> QED BY <1>5, <1>6, <2>1, <2>4
<1> QED BY <1>7

(* The first free page.                                                    *)
LEMMA FirstFreeFacts ==
  ASSUME NEW m, FreePages(m) # {}
  PROVE  FirstFree(m) \in Page /\ m.entry[FirstFree(m)] = FREE
<1>1. FreePages(m) \in SUBSET Nat
  BY ZoneAssumption DEF FreePages, Page
<1>2. \E p \in FreePages(m) : \A q \in FreePages(m) : p <= q
  BY <1>1, LeastOf
<1>3. FirstFree(m) \in FreePages(m)
  BY <1>2 DEF FirstFree
<1> QED BY <1>3 DEF FreePages

(* One free block is not a whole page.                                     *)
LEMMA OneIsNotAll ==
  ASSUME NEW p \in Page, NEW k \in Class, NEW a PROVE {a} # Blocks(p, k)
<1>1. Cardinality({a}) = 1
  BY FS_Singleton
<1>2. MaxBlocks(k) - (IF k = 0 THEN 1 ELSE 0) # 1
  BY BlocksOfAClass
<1> QED BY <1>1, <1>2, BlockCount

(* mem_alloc in the smallest class returns NULL and leaves all as it is,   *)
(* or a unit that was not in use.                                          *)
LEMMA MemAlloc0Keeps ==
  ASSUME NEW m \in State, NEW F, Smallest(m, F), NEW x \in MemAlloc0(m)
  PROVE  \/ x.ret = NULL /\ x.m = m
         \/ x.ret # NULL /\ Allocated0(m, F, x.m, x.ret)
<1>1. SmallestBut(m, F, {})
  BY DEF Smallest
<1>2. ASSUME NEW a, NEW r, Allocated0(m, F, r, a) PROVE a # NULL
  <2>1. a \in UnitsUsed(r, F) /\ SmallestBut(r, F, {})
    BY <1>2 DEF Allocated0, Smallest
  <2> QED BY <2>1, UnitFacts DEF NULL
<1>3. CASE m.classes[0] # <<>>
  <2>1. x \in Take0(m)
    BY <1>3 DEF MemAlloc0
  <2>2. Allocated0(m, F, x.m, x.ret)
    BY <1>1, <1>3, <2>1, Take0Keeps
  <2> QED BY <2>2, <1>2
<1>4. CASE m.classes[0] = <<>> /\ FreePages(m) = {}
  <2>1. x \in Fail(m)
    BY <1>4 DEF MemAlloc0
  <2> QED BY <2>1 DEF Fail
<1>5. CASE m.classes[0] = <<>> /\ FreePages(m) # {}
  <2>1. PICK p : p = FirstFree(m)
    OBVIOUS
  <2>2. p \in Page /\ m.entry[p] = FREE
    BY <1>5, <2>1, FirstFreeFacts
  <2>3. p \in Page \ F /\ m.page_classes[p] = 0
    BY <1>1, <2>2 DEF SmallestBut, Small0
  <2>4. PICK r : r = Described(m, p, 0, PageAddr(p), Blocks(p, 0))
    OBVIOUS
  <2>5. x \in Take0(r)
    BY <1>5, <2>1, <2>4 DEF MemAlloc0
  <2>6. 0 \in Class /\ PageAddr(p) \in Addr /\ PageOf(PageAddr(p)) = p
    BY <2>2, SmallestClass, PageAddrFacts
  <2>6a. PageAddr(p) # FREE /\ PageAddr(p) # BUSY
    <3>1. p # 0
      BY <1>1, <2>3 DEF SmallestBut
    <3> QED BY <3>1, <2>2, PageAddrFacts, UnitsOfAPage DEF FREE, BUSY
  <2>7. DescribedAs(m, p, 0, PageAddr(p), Blocks(p, 0), r)
    BY <2>2, <2>4, <2>6, DescribedIs
  <2>8. /\ r \in State /\ r.entry[p] = PageAddr(p)
        /\ r.page_classes[p] = 0
        /\ r.classes[0] = Append(m.classes[0], PageAddr(p))
        /\ r.desc[PageAddr(p)] = [index |-> p, class |-> 0,
                                  count |-> Cardinality(Blocks(p, 0)), block |-> Blocks(p, 0)]
    BY <2>2, <2>6, <2>7 DEF DescribedAs, State
  <2>9. Small0(r, p)
    <3>1. Blocks(p, 0) # {}
      BY <2>2, <2>6, OneIsNotAll, BlockCount, FS_EmptySet, SmallestClass, UnitsOfAPage
    <3> QED BY <2>8, <3>1 DEF Small0, Describes
  <2>10. FreeOf(r, p) = Blocks(p, 0) /\ UsedOf(r, p) = {}
    BY <2>6a, <2>8 DEF FreeOf, UsedOf
  <2>11. UsedOf(m, p) = {}
    BY <2>2 DEF UsedOf
  <2>12. OnlyPage(m, r, F, p, {})
    <3>1. \A q \in Page \ {p} : r.entry[q] = m.entry[q] /\ r.page_classes[q] = m.page_classes[q]
      BY <2>7 DEF DescribedAs, State
    <3>2. \A k \in Class \ {0} : r.classes[k] = m.classes[k]
      BY <2>7 DEF DescribedAs, State
    <3>3. \A y \in Addr : y # PageAddr(p) => r.desc[y] = m.desc[y]
      BY <2>7 DEF DescribedAs, State
    <3> QED BY <2>7, <3>1, <3>2, <3>3 DEF OnlyPage, DescribedAs
  <2>13. ListedAs(m, r, F, p)
    <3>1. IsList(m.classes[0], RoomyList(m, F))
      BY <1>1 DEF SmallestBut
    <3>2. PageAddr(p) \notin RoomyList(m, F)
      <4>1. RoomyList(m, F) = {}
        BY <1>5, <3>1, ListEmpty
      <4> QED BY <4>1
    <3>3. IsList(Append(m.classes[0], PageAddr(p)), RoomyList(m, F) \cup {PageAddr(p)})
      BY <2>6, <3>1, <3>2, ListAppend
    <3> QED BY <2>8, <3>3 DEF ListedAs
  <2>14. PageChanged(m, r, F, {}, p)
    BY <1>1, <2>3, <2>8, <2>9, <2>12, <2>13, OnePage
  <2>15. SmallestBut(r, F, {p}) /\ Same(m, r, F) /\ UnitsUsed(r, F) = UnitsUsed(m, F)
    <3>1. SmallestBut(r, F, {} \cup {p}) /\ {} \cup {p} = {p}
      BY <2>14 DEF PageChanged
    <3>2. \A y \in UnitsUsed(m, F) : y \in Blocks(p, 0) => y \in UsedOf(m, p)
      BY <1>1, <2>3, UnitFacts, UnitBlocks
    <3>3. UnitsUsed(r, F) = (UnitsUsed(m, F) \ Blocks(p, 0)) \cup UsedOf(r, p)
      BY <2>14 DEF PageChanged
    <3>4. UnitsUsed(r, F) = UnitsUsed(m, F)
      BY <3>2, <3>3, <2>10, <2>11
    <3> QED BY <3>1, <3>4, <2>14 DEF PageChanged
  <2>16. r.classes[0] # <<>> /\ Head(r.classes[0]) = PageAddr(p)
    BY <1>5, <2>8
  <2>17. \A q \in {p} : q = PageOf(Head(r.classes[0]))
    BY <2>6, <2>16
  <2>18. Allocated0(r, F, x.m, x.ret)
    BY <2>5, <2>8, <2>15, <2>16, <2>17, Take0Keeps
  <2>19. Same(m, x.m, F)
    <3>1. Same(m, r, F) /\ Same(r, x.m, F) /\ UnitsUsed(r, F) = UnitsUsed(m, F)
      BY <2>15, <2>18 DEF Allocated0
    <3> QED BY <3>1 DEF Same
  <2>20. Allocated0(m, F, x.m, x.ret)
    BY <2>15, <2>18, <2>19 DEF Allocated0
  <2> QED BY <2>20, <1>2
<1> QED BY <1>3, <1>4, <1>5


(* From m to r the unit a has been freed.                                  *)
Freed0(m, F, r, a) ==
  /\ r \in State /\ Smallest(r, F) /\ Same(m, r, F)
  /\ UnitsUsed(r, F) = UnitsUsed(m, F) \ {a}

(* What is to be shown of the page of a freed unit.                        *)
LEMMA FreedInPage ==
  ASSUME NEW m, NEW F, Smallest(m, F), NEW a \in UnitsUsed(m, F), NEW p, p = PageOf(a),
         NEW r, r \in State, PageChanged(m, r, F, {}, p),
         r.entry[p] = PageAddr(p) => FreeOf(r, p) # Blocks(p, 0),
         UsedOf(r, p) = UsedOf(m, p) \ {a}
  PROVE  Freed0(m, F, r, a)
<1>1. SmallestBut(m, F, {}) /\ p \in Page \ F
  <2>1. SmallestBut(m, F, {})
    BY DEF Smallest
  <2> QED BY <2>1, UnitFacts
<1>2. UnitsUsed(r, F) = (UnitsUsed(m, F) \ Blocks(p, 0)) \cup UsedOf(r, p)
  BY DEF PageChanged
<1>3. \A x \in UnitsUsed(m, F) : x \in Blocks(p, 0) => x \in UsedOf(m, p)
  BY <1>1, UnitFacts, UnitBlocks
<1>4. UsedOf(m, p) \in SUBSET UnitsUsed(m, F)
  BY <1>1 DEF UnitsUsed
<1>5. a \in Blocks(p, 0)
  BY <1>1, UnitFacts
<1>6. UnitsUsed(r, F) = UnitsUsed(m, F) \ {a}
  BY <1>2, <1>3, <1>4, <1>5
<1>7. Smallest(r, F) /\ Same(m, r, F)
  BY DEF PageChanged
<1> QED BY <1>6, <1>7 DEF Freed0

(* mem_free in the smallest class: a full page has a descriptor again, a   *)
(* page with room has one block more or is free altogether.                *)
LEMMA MemFree0Keeps ==
  ASSUME NEW m \in State, NEW F, Smallest(m, F), NEW a \in UnitsUsed(m, F),
         NEW r, r = MemFree0(m, a)
  PROVE  Freed0(m, F, r, a)
<1>1. SmallestBut(m, F, {})
  BY DEF Smallest
<1>2. PICK p : p = PageOf(a)
  OBVIOUS
<1>3. /\ p \in Page \ F /\ a \in Addr /\ a # PageAddr(p) /\ a \in Blocks(p, 0)
      /\ a \in UsedOf(m, p) /\ a \notin FreeOf(m, p) /\ m.entry[p] # FREE /\ p # 0
  BY <1>1, <1>2, UnitFacts DEF SmallestBut
<1>4. PICK d : d = PageAddr(p)
  OBVIOUS
<1>5. d \in Addr /\ d # FREE /\ d # BUSY /\ PageOf(d) = p /\ 0 \in Class
  BY <1>3, <1>4, PageAddrFacts, UnitsOfAPage, SmallestClass DEF FREE, BUSY
<1>6. /\ m.page_classes[p] = 0 /\ (m.entry[p] = BUSY \/ m.entry[p] = d)
      /\ IsList(m.classes[0], RoomyList(m, F))
      /\ m.entry[p] = d => Describes(m, p, 0)
  BY <1>1, <1>3, <1>4 DEF SmallestBut, Small0
<1>7. m.entry[p] = d <=> d \in RoomyList(m, F)
  <2>1. \A q \in Page : PageAddr(q) = d => q = p
    BY <1>4, <1>5, PageAddrFacts
  <2> QED BY <2>1, <1>3, <1>4 DEF RoomyList, Roomy
<1>8. CASE m.entry[p] = BUSY
  <2>1. PICK n : n = [m EXCEPT !.desc[a] = None]
    OBVIOUS
  <2>2. /\ n \in State /\ n.entry = m.entry /\ n.page_classes = m.page_classes
        /\ n.classes = m.classes /\ n.lost = m.lost /\ n.hit = m.hit
        /\ \A x \in Addr : x # a => n.desc[x] = m.desc[x]
    <3>1. None \in Description
      BY NoneFits
    <3> QED BY <2>1, <3>1, <1>3 DEF State
  <2>3. r = Described(n, p, 0, d, {a})
    BY <1>2, <1>4, <1>8, <2>1 DEF MemFree0
  <2>4. DescribedAs(n, p, 0, d, {a}, r)
    <3>1. {a} \in SUBSET Blocks(p, 0)
      BY <1>3
    <3> QED BY <2>2, <2>3, <3>1, <1>3, <1>5, DescribedIs
  <2>5. /\ r \in State /\ r.entry[p] = d /\ r.page_classes[p] = 0
        /\ r.classes[0] = Append(m.classes[0], d)
        /\ r.desc[d] = [index |-> p, class |-> 0, count |-> Cardinality({a}), block |-> {a}]
    BY <2>2, <2>4, <1>3, <1>5 DEF DescribedAs, State
  <2>6. Small0(r, p)
    BY <2>5, <1>3, <1>4 DEF Small0, Describes
  <2>7. FreeOf(r, p) = {a} /\ FreeOf(r, p) # Blocks(p, 0)
    <3>1. {a} # Blocks(p, 0)
      BY <1>3, <1>5, OneIsNotAll
    <3>2. FreeOf(r, p) = {a}
      BY <2>5, <1>5 DEF FreeOf
    <3> QED BY <3>1, <3>2
  <2>8. UsedOf(r, p) = UsedOf(m, p) \ {a}
    BY <2>5, <2>7, <1>3, <1>5, <1>6, <1>8 DEF UsedOf, FreeOf
  <2>9. OnlyPage(m, r, F, p, {a})
    <3>1. \A q \in Page \ {p} : r.entry[q] = m.entry[q] /\ r.page_classes[q] = m.page_classes[q]
      BY <2>2, <2>4 DEF DescribedAs, State
    <3>2. \A k \in Class \ {0} : r.classes[k] = m.classes[k]
      BY <2>2, <2>4 DEF DescribedAs, State
    <3>3. \A y \in Addr : y # d /\ y # a => r.desc[y] = m.desc[y]
      BY <2>2, <2>4 DEF DescribedAs, State
    <3>4. {a} \in SUBSET Blocks(p, 0) /\ {a} \cap UsedOf(m, p) \cap UsedOf(r, p) = {}
      BY <2>8, <1>3
    <3> QED BY <2>2, <2>4, <3>1, <3>2, <3>3, <3>4, <1>4 DEF OnlyPage, DescribedAs
  <2>10. ListedAs(m, r, F, p)
    <3>1. d \notin RoomyList(m, F)
      BY <1>5, <1>7, <1>8
    <3>2. IsList(Append(m.classes[0], d), RoomyList(m, F) \cup {d})
      BY <1>5, <1>6, <3>1, ListAppend
    <3> QED BY <2>5, <3>2, <1>4 DEF ListedAs
  <2>11. PageChanged(m, r, F, {}, p)
    BY <1>1, <1>3, <2>5, <2>6, <2>9, <2>10, OnePage
  <2> QED BY <2>5, <2>7, <2>8, <2>11, <1>2, FreedInPage
<1>9. CASE m.entry[p] = d
  <2>1. PICK t : t = Push(m, d, a)
    OBVIOUS
  <2>2. Pushed(m, d, a, t)
    <3>1. PICK bs : bs = m.desc[d].block
      OBVIOUS
    <3>2. /\ bs \in SUBSET Blocks(p, 0) /\ a \notin bs /\ m.desc[d].count = Cardinality(bs)
      BY <1>3, <1>5, <1>6, <1>9, <3>1 DEF Describes, FreeOf
    <3>3. PICK x : x = bs \cup {a}
      OBVIOUS
    <3>4. Cardinality(x) \in 0 .. PageUnits
      <4>1. x \in SUBSET Blocks(p, 0) /\ p \in Page /\ 0 \in Class
        BY <3>2, <3>3, <1>3, <1>5
      <4> QED BY <4>1, CountFits
    <3>5. Cardinality(x) = Cardinality(bs) + 1
      BY <3>2, <3>3, <1>3, <1>5, FreeSetFacts
    <3>6. m.desc[d].count + 1 <= PageUnits
      BY <3>2, <3>4, <3>5, UnitsOfAPage
    <3> QED BY <3>6, <2>1, <1>3, <1>4, <1>5, PushIs
  <2>3. r = IF t.desc[d].count < MaxBlocks(0) - 1 THEN t
            ELSE [RemovePage(t, d) EXCEPT !.entry[p] = FREE, !.page_classes[p] = 0,
                                          !.desc[d] = None]
    <3>1. m.entry[p] \notin {BUSY, FREE}
      BY <1>5, <1>9
    <3> QED BY <3>1, <1>2, <1>4, <2>1 DEF MemFree0
  <2>4. PICK bs : bs = m.desc[d].block
    OBVIOUS
  <2>5. /\ bs \in SUBSET Blocks(p, 0) /\ a \notin bs /\ FreeOf(m, p) = bs
        /\ m.desc[d].index = p /\ m.desc[d].class = 0 /\ m.desc[d].count = Cardinality(bs)
        /\ UsedOf(m, p) = Blocks(p, 0) \ bs
    BY <1>3, <1>5, <1>6, <1>9, <2>4 DEF Describes, FreeOf, UsedOf
  <2>6. t.desc[d].count = Cardinality(bs \cup {a}) /\ t.desc[d].block = bs \cup {a}
    <3>1. Cardinality(bs \cup {a}) = Cardinality(bs) + 1
      BY <2>5, <1>3, <1>5, FreeSetFacts
    <3> QED BY <3>1, <2>2, <2>4, <2>5 DEF Pushed
  <2>7. /\ Cardinality(bs \cup {a}) \in Nat /\ MaxBlocks(0) \in Nat
        /\ Cardinality(bs \cup {a}) <= MaxBlocks(0) - 1
        /\ Cardinality(bs \cup {a}) = MaxBlocks(0) - 1 <=> bs \cup {a} = Blocks(p, 0)
    <3>1. bs \cup {a} \in SUBSET Blocks(p, 0)
      BY <2>5, <1>3
    <3>2. PICK n : n = Cardinality(bs \cup {a})
      OBVIOUS
    <3>3. PICK x : x = bs \cup {a}
      OBVIOUS
    <3>4. /\ Cardinality(x) \in Nat
          /\ Cardinality(x) <= MaxBlocks(0) - (IF 0 = 0 THEN 1 ELSE 0)
          /\ Cardinality(x) = MaxBlocks(0) - (IF 0 = 0 THEN 1 ELSE 0) <=> x = Blocks(p, 0)
      <4>1. x \in SUBSET Blocks(p, 0) /\ p \in Page /\ 0 \in Class
        BY <3>1, <3>3, <1>3, <1>5
      <4> QED BY <4>1, FreeSetFacts
    <3>5. MaxBlocks(0) \in Nat
      BY <1>5, BlocksOfAClass
    <3> QED BY <3>3, <3>4, <3>5
  <2>8. CASE bs \cup {a} # Blocks(p, 0)
    <3>1. r = t
      BY <2>3, <2>6, <2>7, <2>8
    <3>2. r \in State /\ r.entry[p] = d
      BY <3>1, <2>2, <1>9 DEF Pushed
    <3>3. Small0(r, p)
      <4>1. Describes(r, p, 0)
        BY <3>1, <3>2, <2>2, <2>5, <2>6, <1>3 DEF Describes, Pushed
      <4> QED BY <3>1, <3>2, <4>1, <2>2, <1>4, <1>6 DEF Small0, Pushed
    <3>4. FreeOf(r, p) = bs \cup {a} /\ UsedOf(r, p) = UsedOf(m, p) \ {a}
      <4>1. FreeOf(r, p) = bs \cup {a}
        BY <3>1, <3>2, <2>6, <1>5 DEF FreeOf
      <4> QED BY <4>1, <3>1, <3>2, <2>2, <2>5, <1>5, <1>6 DEF UsedOf, Pushed
    <3>5. OnlyPage(m, r, F, p, {a})
      <4>1. {a} \in SUBSET Blocks(p, 0) /\ {a} \cap UsedOf(m, p) \cap UsedOf(r, p) = {}
        BY <3>4, <1>3
      <4> QED BY <4>1, <3>1, <2>2, <1>4 DEF OnlyPage, Pushed
    <3>6. ListedAs(m, r, F, p)
      <4>1. RoomyList(m, F) \cup {d} = RoomyList(m, F)
        BY <1>7, <1>9
      <4> QED BY <4>1, <3>1, <3>2, <2>2, <1>4, <1>6 DEF ListedAs, Pushed
    <3>7. PageChanged(m, r, F, {}, p)
      BY <1>1, <1>3, <3>2, <3>3, <3>5, <3>6, OnePage
    <3> QED BY <3>2, <3>4, <3>7, <2>8, <1>2, FreedInPage
  <2>9. CASE bs \cup {a} = Blocks(p, 0)
    <3>1. PICK u : u = RemovePage(t, d)
      OBVIOUS
    <3>2. r = [u EXCEPT !.entry[p] = FREE, !.page_classes[p] = 0, !.desc[d] = None]
      BY <3>1, <2>3, <2>6, <2>7, <2>9
    <3>3. /\ t \in State /\ t.classes[0] = m.classes[0] /\ t.desc[d].class = 0
      BY <2>2, <2>5 DEF Pushed
    <3>4. IsList(Unlinked(m.classes[0], d), RoomyList(m, F) \ {d})
      BY <1>6, <1>7, <1>9, ListUnlinked
    <3>5. Removed(t, d, 0, u)
      <4>1. Unlinked(t.classes[0], d) \in Seq(Addr)
        BY <3>3, <3>4 DEF IsList
      <4> QED BY <4>1, <3>1, <3>3, <1>5, RemovePageIs
    <3>6. /\ u \in State /\ u.entry = m.entry /\ u.page_classes = m.page_classes
          /\ u.desc = t.desc
          /\ u.classes = [m.classes EXCEPT ![0] = Unlinked(m.classes[0], d)]
          /\ u.lost = m.lost /\ u.hit = m.hit
      BY <3>5, <2>2 DEF Removed, Pushed
    <3>7. /\ r \in State
          /\ r.entry = [m.entry EXCEPT ![p] = FREE]
          /\ r.page_classes = [m.page_classes EXCEPT ![p] = 0]
          /\ \A x \in Addr : x # d => r.desc[x] = u.desc[x]
          /\ r.classes = u.classes /\ r.lost = m.lost /\ r.hit = m.hit
      <4>1. None \in Description
        BY NoneFits
      <4>2. FREE \in Addr /\ 0 \in -128 .. 127
        BY PageAddrFacts, ZoneAssumption, UnitsOfAPage DEF FREE, Addr
      <4>3. /\ [u.entry EXCEPT ![p] = FREE] \in [Page -> {MULTI, BUSY} \cup Addr]
            /\ [u.desc EXCEPT ![d] = None] \in [Addr -> Description]
            /\ [u.page_classes EXCEPT ![p] = 0] \in [Page -> -128 .. 127]
        <5>1. /\ u.entry \in [Page -> {MULTI, BUSY} \cup Addr]
              /\ u.page_classes \in [Page -> -128 .. 127]
              /\ u.desc \in [Addr -> Description]
          BY <3>6 DEF State
        <5>2. [u.page_classes EXCEPT ![p] = 0] \in [Page -> -128 .. 127]
          BY <5>1, <4>2
        <5> QED BY <5>1, <5>2, <4>1, <4>2
      <4>4. r = [u EXCEPT !.entry = [u.entry EXCEPT ![p] = FREE],
                          !.page_classes = [u.page_classes EXCEPT ![p] = 0],
                          !.desc = [u.desc EXCEPT ![d] = None]]
        BY <3>2, <3>6 DEF State
      <4>5. r \in State
        BY <4>3, <4>4, <3>6 DEF State
      <4> QED BY <4>4, <4>5, <3>6 DEF State
    <3>8. /\ r.entry[p] = FREE /\ r.page_classes[p] = 0 /\ r.entry[p] # PageAddr(p)
          /\ r.classes[0] = Unlinked(m.classes[0], d)
      BY <3>6, <3>7, <1>3, <1>4, <1>5 DEF State
    <3>9. Small0(r, p) /\ UsedOf(r, p) = UsedOf(m, p) \ {a}
      <4>1. UsedOf(m, p) \ {a} = {}
        BY <2>5, <2>9
      <4> QED BY <3>8, <4>1 DEF Small0, UsedOf
    <3>10. OnlyPage(m, r, F, p, {a})
      <4>1. \A q \in Page \ {p} : r.entry[q] = m.entry[q] /\ r.page_classes[q] = m.page_classes[q]
        BY <3>7 DEF State
      <4>2. \A k \in Class \ {0} : r.classes[k] = m.classes[k]
        BY <3>6, <3>7 DEF State
      <4>3. \A y \in Addr : y # d /\ y # a => r.desc[y] = m.desc[y]
        BY <3>6, <3>7, <2>2 DEF Pushed
      <4>4. {a} \in SUBSET Blocks(p, 0) /\ {a} \cap UsedOf(m, p) \cap UsedOf(r, p) = {}
        BY <3>9, <1>3
      <4> QED BY <3>7, <4>1, <4>2, <4>3, <4>4, <1>4 DEF OnlyPage
    <3>11. ListedAs(m, r, F, p)
      BY <3>4, <3>8, <1>4 DEF ListedAs
    <3>12. PageChanged(m, r, F, {}, p)
      BY <1>1, <1>3, <3>7, <3>9, <3>10, <3>11, OnePage
    <3> QED BY <3>7, <3>8, <3>9, <3>12, <1>2, FreedInPage
  <2> QED BY <2>8, <2>9
<1> QED BY <1>6, <1>8, <1>9

-----------------------------------------------------------------------------
(* The pages of the other classes, and blocks of whole pages.              *)

(* The blocks of page p in use; the page as a lost block.                  *)
UsedIn(m, p) == {Extent(a, m.page_classes[p]) : a \in UsedOf(m, p)}
WholePage(p) == [addr |-> PageAddr(p), size |-> PageUnits]

(* The descriptors of the pages G, of class k or of any.                   *)
Rooms(m, G, k) ==
  {m.entry[p] : p \in {q \in G : m.entry[q] # BUSY /\ m.page_classes[q] = k}}
Descs(m, G) == {m.entry[p] : p \in {q \in G : m.entry[q] # BUSY}}
UsedLarger(m, G) == UNION {UsedIn(m, p) : p \in G}

(* A page of a class with descriptors elsewhere: it is full, or its        *)
(* descriptor is a unit in use that describes it.                          *)
Larger1(m, p, F) ==
  /\ m.page_classes[p] \in Class \ {0}
  /\ m.entry[p] # BUSY => m.entry[p] \in UnitsUsed(m, F) /\ Describes(m, p, m.page_classes[p])

(* F are the pages that are neither free nor of the smallest class: those  *)
(* of G, page 0, those of larger blocks, and those that were lost.         *)
Pages(m, F, G) ==
  /\ F \in SUBSET Page /\ G \in SUBSET (F \ {0})
  /\ \A p \in G : Larger1(m, p, F)
  /\ \A p \in Page : p \in F \ G <=> p = 0 \/ m.entry[p] = MULTI \/ WholePage(p) \in m.lost
  /\ \A p \in F \ G : m.entry[p] # MULTI => m.entry[p] = BUSY /\ m.page_classes[p] = 0
  /\ \A p \in Page : WholePage(p) \in m.lost => m.entry[p] # MULTI
Lists(m, G) == \A k \in Class \ {0} : IsList(m.classes[k], Rooms(m, G, k))
NoneWhole(m, G) == \A p \in G : FreeOf(m, p) # Blocks(p, m.page_classes[p])

(* Between m and r nothing has changed of the pages P and what describes   *)
(* them.                                                                   *)
Kept(m, r, P) ==
  \A q \in P :
    /\ r.entry[q] = m.entry[q] /\ r.page_classes[q] = m.page_classes[q]
    /\ m.entry[q] \in Addr => r.desc[m.entry[q]] = m.desc[m.entry[q]]

(* Between m and r nothing has changed of the smallest class, though pages *)
(* have become free, and free pages something else.                        *)
Elsewhere(m, r, F, H) ==
  /\ H \in SUBSET Page /\ 0 \in H /\ r.classes[0] = m.classes[0]
  /\ \A q \in H : r.entry[q] # FREE /\ (q \notin F => m.entry[q] = FREE)
  /\ \A q \in Page \ H :
       /\ q \in F => r.entry[q] = FREE /\ r.page_classes[q] = 0
       /\ q \notin F => /\ r.entry[q] = m.entry[q] /\ r.page_classes[q] = m.page_classes[q]
                        /\ r.desc[PageAddr(q)] = m.desc[PageAddr(q)]

(* The smallest class is what it was then.                                 *)
LEMMA SmallestElsewhere ==
  ASSUME NEW m \in State, NEW r \in State, NEW F, NEW H, Smallest(m, F), Elsewhere(m, r, F, H)
  PROVE  Smallest(r, H) /\ UnitsUsed(r, H) = UnitsUsed(m, F)
<1>1. SmallestBut(m, F, {})
  BY DEF Smallest
<1>2. ASSUME NEW q \in Page
      PROVE  PageAddr(q) # FREE \/ q = 0
  BY PageAddrFacts, UnitsOfAPage DEF FREE
<1>3. ASSUME NEW q \in Page \ H, q \in F
      PROVE  Small0(r, q) /\ UsedOf(r, q) = {} /\ r.entry[q] # PageAddr(q)
  <2>1. r.entry[q] = FREE /\ r.page_classes[q] = 0 /\ q # 0
    BY <1>3 DEF Elsewhere
  <2> QED BY <2>1, <1>2 DEF Small0, UsedOf
<1>4. ASSUME NEW q \in Page \ H, q \notin F
      PROVE  /\ Small0(r, q) /\ UsedOf(r, q) = UsedOf(m, q) /\ r.entry[q] = m.entry[q]
             /\ m.entry[q] = PageAddr(q) => FreeOf(r, q) = FreeOf(m, q)
  <2>1. /\ r.entry[q] = m.entry[q] /\ r.page_classes[q] = m.page_classes[q]
        /\ r.desc[PageAddr(q)] = m.desc[PageAddr(q)]
    BY <1>4 DEF Elsewhere
  <2>2. Small0(m, q)
    BY <1>1, <1>4 DEF SmallestBut
  <2>3. Small0(r, q)
    BY <2>1, <2>2 DEF Small0, Describes
  <2>4. m.entry[q] = PageAddr(q) => FreeOf(r, q) = FreeOf(m, q)
    BY <2>1 DEF FreeOf
  <2>5. UsedOf(r, q) = UsedOf(m, q)
    BY <2>1, <2>2, <2>4 DEF UsedOf, FreeOf, Small0
  <2> QED BY <2>1, <2>3, <2>4, <2>5
<1>5. ASSUME NEW q \in H, q \notin F
      PROVE  UsedOf(m, q) = {} /\ m.entry[q] # PageAddr(q)
  <2>1. m.entry[q] = FREE /\ q # 0 /\ q \in Page
    BY <1>1, <1>5 DEF Elsewhere, SmallestBut
  <2> QED BY <2>1, <1>2 DEF UsedOf
<1>6. H \in SUBSET Page /\ F \in SUBSET Page /\ 0 \in H
  BY <1>1 DEF Elsewhere, SmallestBut
<1>7. Roomy(r, H) = Roomy(m, F)
  BY <1>3, <1>4, <1>5, <1>6 DEF Roomy
<1>8. RoomyList(r, H) = RoomyList(m, F)
  BY <1>7 DEF RoomyList
<1>9. UnitsUsed(r, H) = UnitsUsed(m, F)
  <2>1. ASSUME NEW x \in UnitsUsed(r, H)
        PROVE  x \in UnitsUsed(m, F)
    <3>1. PICK q \in Page \ H : x \in UsedOf(r, q)
      BY DEF UnitsUsed
    <3> QED BY <3>1, <1>3, <1>4 DEF UnitsUsed
  <2>2. ASSUME NEW x \in UnitsUsed(m, F)
        PROVE  x \in UnitsUsed(r, H)
    <3>1. PICK q \in Page \ F : x \in UsedOf(m, q)
      BY DEF UnitsUsed
    <3> QED BY <3>1, <1>4, <1>5 DEF UnitsUsed
  <2> QED BY <2>1, <2>2
<1>10. \A p \in Roomy(r, H) \ {} : FreeOf(r, p) # Blocks(p, 0)
  <2> SUFFICES ASSUME NEW p \in Roomy(r, H)
               PROVE  FreeOf(r, p) # Blocks(p, 0)
    OBVIOUS
  <2>1. p \in Roomy(m, F) /\ p \in Page \ H /\ p \in Page \ F /\ m.entry[p] = PageAddr(p)
    BY <1>7 DEF Roomy
  <2>2. FreeOf(m, p) # Blocks(p, 0)
    BY <1>1, <2>1 DEF SmallestBut
  <2> QED BY <2>1, <2>2, <1>4
<1>11. IsList(r.classes[0], RoomyList(r, H))
  BY <1>1, <1>8 DEF SmallestBut, Elsewhere
<1>12. \A p \in H : r.entry[p] # FREE
  BY DEF Elsewhere
<1>13. \A p \in Page \ H : Small0(r, p)
  BY <1>3, <1>4
<1> QED BY <1>6, <1>9, <1>10, <1>11, <1>12, <1>13 DEF Smallest, SmallestBut

(* What is known of a page of a larger class.                              *)
LEMMA LargerFacts ==
  ASSUME NEW m \in State, NEW F, NEW G, Smallest(m, F), Pages(m, F, G), NEW p \in G
  PROVE  /\ p \in Page \ {0} /\ p \in F /\ m.page_classes[p] \in Class \ {0}
         /\ m.entry[p] \in Addr \cup {BUSY} /\ m.entry[p] # FREE /\ m.entry[p] # MULTI
         /\ m.entry[p] # BUSY => /\ m.entry[p] \in Addr /\ m.entry[p] \in UnitsUsed(m, F)
                                 /\ Describes(m, p, m.page_classes[p])
         /\ UsedOf(m, p) = Blocks(p, m.page_classes[p]) \ FreeOf(m, p)
         /\ FreeOf(m, p) \in SUBSET Blocks(p, m.page_classes[p])
<1>1. SmallestBut(m, F, {})
  BY DEF Smallest
<1>2. Larger1(m, p, F) /\ p \in F \ {0} /\ F \in SUBSET Page
  BY DEF Pages
<1>3. m.entry[p] # BUSY => m.entry[p] \in Addr /\ m.entry[p] \in UnitsUsed(m, F)
                           /\ Describes(m, p, m.page_classes[p])
  BY <1>1, <1>2, UnitFacts DEF Larger1
<1>4. m.entry[p] # FREE
  BY <1>1, <1>2 DEF SmallestBut
<1>5. m.entry[p] # MULTI
  BY <1>3, PageOfFacts DEF MULTI, BUSY
<1>6. FreeOf(m, p) \in SUBSET Blocks(p, m.page_classes[p])
  BY <1>3 DEF FreeOf, Describes
<1> QED BY <1>2, <1>3, <1>4, <1>5, <1>6 DEF Larger1, UsedOf

(* Descriptors of different pages are different units.                     *)
LEMMA DescsApart ==
  ASSUME NEW m \in State, NEW F, NEW G, Smallest(m, F), Pages(m, F, G),
         NEW p \in G, NEW q \in G, m.entry[p] # BUSY, m.entry[p] = m.entry[q]
  PROVE  p = q
<1>1. Describes(m, p, m.page_classes[p]) /\ Describes(m, q, m.page_classes[q])
  BY LargerFacts
<1> QED BY <1>1 DEF Describes

(* A page that was kept is as it was.                                      *)
LEMMA KeptPage ==
  ASSUME NEW m \in State, NEW r \in State, NEW F, NEW G, Smallest(m, F), Pages(m, F, G),
         NEW P, Kept(m, r, P), NEW q \in G, q \in P, NEW H,
         m.entry[q] # BUSY => m.entry[q] \in UnitsUsed(r, H)
  PROVE  /\ Larger1(r, q, H) /\ r.entry[q] = m.entry[q]
         /\ r.page_classes[q] = m.page_classes[q]
         /\ FreeOf(r, q) = FreeOf(m, q) /\ UsedOf(r, q) = UsedOf(m, q)
         /\ UsedIn(r, q) = UsedIn(m, q)
<1>1. /\ q \in Page \ {0} /\ m.page_classes[q] \in Class \ {0}
      /\ m.entry[q] # BUSY => m.entry[q] \in Addr /\ Describes(m, q, m.page_classes[q])
  BY LargerFacts
<1>2. /\ r.entry[q] = m.entry[q] /\ r.page_classes[q] = m.page_classes[q]
      /\ m.entry[q] \in Addr => r.desc[m.entry[q]] = m.desc[m.entry[q]]
  BY DEF Kept
<1>3. Larger1(r, q, H)
  BY <1>1, <1>2 DEF Larger1, Describes
<1>4. FreeOf(r, q) = FreeOf(m, q)
  BY <1>1, <1>2 DEF FreeOf
<1>5. UsedOf(r, q) = UsedOf(m, q)
  BY <1>2, <1>4 DEF UsedOf
<1>6. UsedIn(r, q) = UsedIn(m, q)
  BY <1>2, <1>5 DEF UsedIn
<1> QED BY <1>2, <1>3, <1>4, <1>5, <1>6

(* A page's blocks lie in it, and have a size of their own.                *)
LEMMA UsedInFacts ==
  ASSUME NEW m \in State, NEW F, NEW G, Smallest(m, F), Pages(m, F, G), NEW p \in G
  PROVE  \A b \in UsedIn(m, p) :
           /\ b \in Block /\ b.addr \in Addr /\ PageOf(b.addr) = p
           /\ b.addr \in Blocks(p, m.page_classes[p]) /\ b.addr \notin FreeOf(m, p)
           /\ b = Extent(b.addr, m.page_classes[p]) /\ b.size = Size(m.page_classes[p])
           /\ b.size > 1 /\ 2 * b.size < PageUnits
           /\ \A q \in Page : b # WholePage(q)
<1>1. PICK k \in Class \ {0} : k = m.page_classes[p]
  BY LargerFacts
<1>2. UsedOf(m, p) = Blocks(p, k) \ FreeOf(m, p) /\ p \in Page
  BY <1>1, LargerFacts
<1>3. k \in 0 .. MaxClass /\ Size(k) \in Nat /\ Size(k) >= 1 /\ 2 * Size(k) < PageUnits
  BY <1>1, BlocksOfAClass DEF Class, Small
<1>4. Size(k) > 1
  <2>1. 0 \in 0 .. MaxClass /\ 0 < k
    BY <1>1, <1>3 DEF MaxClass
  <2>2. \E c \in Nat : Size(k) = 2 * (c * Size(0))
    BY <2>1, <1>3, SizeDivides
  <2>3. \E c \in Nat : Size(k) = 2 * c
    BY <2>2, SmallestClass
  <2> QED BY <2>3, <1>3
<1> SUFFICES ASSUME NEW a \in UsedOf(m, p), NEW b, b = Extent(a, k)
             PROVE  /\ b \in Block /\ b.addr = a /\ a \in Addr /\ PageOf(a) = p
                    /\ a \in Blocks(p, k) /\ a \notin FreeOf(m, p)
                    /\ b.size = Size(k) /\ b.size > 1 /\ 2 * b.size < PageUnits
                    /\ \A q \in Page : b # WholePage(q)
  BY <1>1 DEF UsedIn
<1>5. a \in Blocks(p, k) /\ a \notin FreeOf(m, p) /\ a \in Addr /\ PageOf(a) = p
  BY <1>2, <1>1, BlockFacts
<1>6. b.addr = a /\ b.size = Size(k) /\ b \in Block
  BY <1>3, <1>5 DEF Extent, Block
<1>7. \A q \in Page : b # WholePage(q)
  <2> SUFFICES ASSUME NEW q \in Page, b = WholePage(q) PROVE FALSE
    OBVIOUS
  <2>1. b.size = PageUnits
    BY DEF WholePage
  <2> QED BY <2>1, <1>3, <1>6, UnitsOfAPage
<1> QED BY <1>3, <1>4, <1>5, <1>6, <1>7

(* Blocks of other pages are other blocks.                                 *)
LEMMA UsedInApart ==
  ASSUME NEW m \in State, NEW F, NEW G, Smallest(m, F), Pages(m, F, G),
         NEW p \in G, NEW q \in G, NEW b, b \in UsedIn(m, p), b \in UsedIn(m, q)
  PROVE  p = q
<1>1. PageOf(b.addr) = p
  BY UsedInFacts
<1>2. PageOf(b.addr) = q
  BY UsedInFacts
<1> QED BY <1>1, <1>2

(* The pages Z apart, H and G are the same pages.                          *)
But(G, H, Z) == G \ Z = H \ Z

(* What the blocks in use are when only pages of Z have changed.           *)
UsedBut(m, r, G, H, Z) ==
  UsedLarger(r, H) = (UsedLarger(m, G) \ UsedLarger(m, G \cap Z)) \cup UsedLarger(r, H \cap Z)

(* Blocks in use of the pages that were kept are what they were.           *)
LEMMA UsedOver ==
  ASSUME NEW m \in State, NEW F, NEW G, Smallest(m, F), Pages(m, F, G),
         NEW r, NEW H, NEW Z, But(G, H, Z), \A q \in G \ Z : UsedIn(r, q) = UsedIn(m, q)
  PROVE  UsedBut(m, r, G, H, Z)
<1>1. ASSUME NEW b \in UsedLarger(r, H), b \notin UsedLarger(r, H \cap Z)
      PROVE  b \in UsedLarger(m, G) /\ b \notin UsedLarger(m, G \cap Z)
  <2>1. PICK q \in H : b \in UsedIn(r, q)
    BY DEF UsedLarger
  <2>2. q \in G /\ q \notin Z
    BY <1>1, <2>1 DEF UsedLarger, But
  <2>3. b \in UsedIn(m, q)
    BY <2>1, <2>2
  <2>4. \A p \in G \cap Z : b \notin UsedIn(m, p)
    BY <2>2, <2>3, UsedInApart
  <2> QED BY <2>2, <2>3, <2>4 DEF UsedLarger
<1>2. ASSUME NEW b \in UsedLarger(m, G), b \notin UsedLarger(m, G \cap Z)
      PROVE  b \in UsedLarger(r, H)
  <2>1. PICK q \in G : b \in UsedIn(m, q)
    BY DEF UsedLarger
  <2>2. q \in H /\ q \notin Z
    BY <1>2, <2>1 DEF UsedLarger, But
  <2> QED BY <2>1, <2>2 DEF UsedLarger
<1>3. \A b \in UsedLarger(r, H \cap Z) : b \in UsedLarger(r, H)
  BY DEF UsedLarger
<1> QED BY <1>1, <1>2, <1>3 DEF UsedBut

(* The lists of the classes when only the page p, of class k in m and in   *)
(* r, has changed: what the list of class k has to be.                     *)
RoomsBut(m, r, G, H, p, k) ==
  /\ \A i \in Class \ {0, k} : Rooms(r, H, i) = Rooms(m, G, i)
  /\ Rooms(m, G \ {p}, k) =
       IF p \in G /\ m.entry[p] # BUSY THEN Rooms(m, G, k) \ {m.entry[p]} ELSE Rooms(m, G, k)
  /\ Rooms(r, H, k) =
       IF p \in H /\ r.entry[p] # BUSY THEN Rooms(m, G \ {p}, k) \cup {r.entry[p]}
       ELSE Rooms(m, G \ {p}, k)
  /\ p \in G /\ m.entry[p] # BUSY => m.entry[p] \in Rooms(m, G, k)
  /\ Descs(m, G \ {p}) =
       IF p \in G /\ m.entry[p] # BUSY THEN Descs(m, G) \ {m.entry[p]} ELSE Descs(m, G)
  /\ Descs(r, H) =
       IF p \in H /\ r.entry[p] # BUSY THEN Descs(m, G \ {p}) \cup {r.entry[p]}
       ELSE Descs(m, G \ {p})

(* Only the list of the class of p changes.                                *)
LEMMA RoomsOver ==
  ASSUME NEW m \in State, NEW F, NEW G, Smallest(m, F), Pages(m, F, G), NEW r, NEW H, NEW p,
         But(G, H, {p}), Kept(m, r, F \ {p}), NEW k,
         p \in G => m.page_classes[p] = k, p \in H => r.page_classes[p] = k
  PROVE  RoomsBut(m, r, G, H, p, k)
<1>1. \A q \in G \ {p} : /\ q \in H /\ r.entry[q] = m.entry[q]
                         /\ r.page_classes[q] = m.page_classes[q]
  BY DEF But, Kept, Pages
<1>2. \A q \in H \ {p} : q \in G
  BY DEF But
<1>3. \A q \in G \ {p} : p \in G /\ m.entry[p] # BUSY => m.entry[q] # m.entry[p]
  BY DescsApart
<1>4. \A i \in Class \ {0, k} : Rooms(r, H, i) = Rooms(m, G, i)
  BY <1>1, <1>2 DEF Rooms
<1>5. Rooms(m, G \ {p}, k) =
        IF p \in G /\ m.entry[p] # BUSY THEN Rooms(m, G, k) \ {m.entry[p]} ELSE Rooms(m, G, k)
  BY <1>3 DEF Rooms
<1>6. Rooms(r, H, k) =
        IF p \in H /\ r.entry[p] # BUSY THEN Rooms(m, G \ {p}, k) \cup {r.entry[p]}
        ELSE Rooms(m, G \ {p}, k)
  BY <1>1, <1>2 DEF Rooms
<1>7. p \in G /\ m.entry[p] # BUSY => m.entry[p] \in Rooms(m, G, k)
  BY DEF Rooms
<1>8. Descs(m, G \ {p}) =
        IF p \in G /\ m.entry[p] # BUSY THEN Descs(m, G) \ {m.entry[p]} ELSE Descs(m, G)
  BY <1>3 DEF Descs
<1>9. Descs(r, H) =
        IF p \in H /\ r.entry[p] # BUSY THEN Descs(m, G \ {p}) \cup {r.entry[p]}
        ELSE Descs(m, G \ {p})
  BY <1>1, <1>2 DEF Descs
<1> QED BY <1>4, <1>5, <1>6, <1>7, <1>8, <1>9 DEF RoomsBut

-----------------------------------------------------------------------------
(* The blocks of owners, and the invariant.                                *)

Asked == [addr : Addr, size : {Size(k) : k \in Requests}]

(* The owners' blocks of the smallest class, by their addresses, those of  *)
(* the other classes, and those of whole pages.                            *)
Tiny(L) == {b.addr : b \in {c \in L : c.size = 1}}
Mid(L)  == {b \in L : b.size > 1 /\ 2 * b.size < PageUnits}
Big(L)  == {b \in L : 2 * b.size >= PageUnits}
LostBlocks(m) == m.lost \ {WholePage(p) : p \in Page}

(* A unit in use has an owner or is a descriptor; a block of another class *)
(* in use has an owner or is lost; there are no other owners.              *)
Owned(m, L, F, G) ==
  /\ Tiny(L) = UnitsUsed(m, F) \ Descs(m, G)
  /\ Mid(L) \cup LostBlocks(m) = UsedLarger(m, G)
  /\ Mid(L) \cap LostBlocks(m) = {}

(* The pages of a block of whole pages, whose first counts them.           *)
RunOf(m, p) == p .. p + m.page_classes[p] - 1
WholeBlock(m, b, p) ==
  /\ p \in Page \ {0} /\ b.addr = PageAddr(p)
  /\ m.page_classes[p] >= 1 /\ p + m.page_classes[p] <= NPages
  /\ b.size <= m.page_classes[p] * PageUnits
  /\ \A q \in RunOf(m, p) : m.entry[q] = MULTI /\ (q # p => m.page_classes[q] = -1)
Wholes(m, B) ==
  /\ \A b \in B : \E p \in Page : WholeBlock(m, b, p)
  /\ \A b, c \in B : b.addr = c.addr => b = c
  /\ \A q \in Page : m.entry[q] = MULTI =>
       \E b \in B, p \in Page : b.addr = PageAddr(p) /\ q \in RunOf(m, p)

Sound(m, L, F, G) ==
  /\ m \in State /\ m.hit = {} /\ L \in SUBSET Asked
  /\ Smallest(m, F) /\ Pages(m, F, G) /\ Lists(m, G)
  /\ Owned(m, L, F, G) /\ Wholes(m, Big(L))
InvOf(m, L, F, G) == Sound(m, L, F, G) /\ NoneWhole(m, G)

(* The three kinds of size.                                                *)
LEMMA Kinds ==
  ASSUME NEW k \in 0 .. MaxClass
  PROVE  /\ Size(k) \in Nat /\ Size(k) >= 1
         /\ k = 0 <=> Size(k) = 1
         /\ k \in Class \ {0} <=> Size(k) > 1 /\ 2 * Size(k) < PageUnits
         /\ ~ Small(k) <=> 2 * Size(k) >= PageUnits
<1>1. Size(k) \in Nat /\ Size(k) >= 1 /\ PageUnits \in Nat
  BY SizePositive, UnitsOfAPage
<1>2. k # 0 => Size(k) > 1
  <2> SUFFICES ASSUME k # 0 PROVE Size(k) > 1
    OBVIOUS
  <2>1. 0 \in 0 .. MaxClass /\ 0 < k
    BY DEF MaxClass
  <2>2. \E c \in Nat : Size(k) = 2 * (c * Size(0))
    BY <2>1, SizeDivides
  <2>3. \E c \in Nat : Size(k) = 2 * c
    BY <2>2, SmallestClass
  <2> QED BY <2>3, <1>1
<1>3. k = 0 => Size(k) = 1
  BY SmallestClass
<1> QED BY <1>1, <1>2, <1>3 DEF Class, Small

(* A block more, and a block less, for owners: each kind by itself.        *)
Shares(L, T, M, B) == Tiny(L) = T /\ Mid(L) = M /\ Big(L) = B

(* One block more is one more of its kind.                                 *)
LEMMA BlockMore ==
  ASSUME NEW L \in SUBSET Asked, NEW a \in Addr, NEW k \in 0 .. MaxClass
  PROVE  /\ k = 0 => Shares(L \cup {Extent(a, k)}, Tiny(L) \cup {a}, Mid(L), Big(L))
         /\ k \in Class \ {0} =>
              Shares(L \cup {Extent(a, k)}, Tiny(L), Mid(L) \cup {Extent(a, k)}, Big(L))
         /\ ~ Small(k) =>
              Shares(L \cup {Extent(a, k)}, Tiny(L), Mid(L), Big(L) \cup {Extent(a, k)})
<1>1. PICK b : b = Extent(a, k)
  OBVIOUS
<1>2. b.addr = a /\ b.size = Size(k)
  BY <1>1 DEF Extent
<1>3. PageUnits \in Nat /\ PageUnits >= 4
  BY UnitsOfAPage
<1>4. CASE k = 0
  <2>1. b.size = 1 /\ ~ (b.size > 1) /\ ~ (2 * b.size >= PageUnits) /\ k \in Class /\ Small(k)
    BY <1>2, <1>3, <1>4, SmallestClass DEF Class
  <2> QED BY <2>1, <1>1, <1>2, <1>4 DEF Shares, Tiny, Mid, Big
<1>5. CASE k \in Class \ {0}
  <2>1. b.size # 1 /\ b.size > 1 /\ 2 * b.size < PageUnits /\ ~ (2 * b.size >= PageUnits)
    BY <1>2, <1>3, <1>5, Kinds
  <2> QED BY <2>1, <1>1, <1>2, <1>5 DEF Shares, Tiny, Mid, Big, Class
<1>6. CASE ~ Small(k)
  <2>1. b.size # 1 /\ ~ (2 * b.size < PageUnits) /\ 2 * b.size >= PageUnits
    BY <1>2, <1>3, <1>6, Kinds
  <2>2. k # 0 /\ k \notin Class
    BY <1>6, SmallestClass DEF Class
  <2> QED BY <2>1, <2>2, <1>1, <1>2, <1>6 DEF Shares, Tiny, Mid, Big
<1> QED BY <1>4, <1>5, <1>6 DEF Class

(* One block less is one less of its kind.                                 *)
LEMMA BlockLess ==
  ASSUME NEW L \in SUBSET Asked, NEW b \in L
  PROVE  /\ b.size = 1 => Shares(L \ {b}, Tiny(L) \ {b.addr}, Mid(L), Big(L))
         /\ b.size > 1 /\ 2 * b.size < PageUnits =>
              Shares(L \ {b}, Tiny(L), Mid(L) \ {b}, Big(L))
         /\ 2 * b.size >= PageUnits => Shares(L \ {b}, Tiny(L), Mid(L), Big(L) \ {b})
<1>1. PageUnits \in Nat /\ PageUnits >= 4
  BY UnitsOfAPage
<1>2. \A c \in L : c.size \in Nat /\ c = [addr |-> c.addr, size |-> c.size]
  BY ZoneAssumption, SizePositive DEF Asked
<1>3. CASE b.size = 1
  <2>1. ~ (b.size > 1) /\ ~ (2 * b.size >= PageUnits)
    BY <1>1, <1>3
  <2>2. \A c \in L : c.size = 1 /\ c.addr = b.addr => c = b
    BY <1>2, <1>3
  <2>3. Tiny(L \ {b}) = Tiny(L) \ {b.addr}
    BY <2>2, <1>3 DEF Tiny
  <2> QED BY <2>1, <2>3 DEF Shares, Mid, Big
<1>4. CASE b.size > 1 /\ 2 * b.size < PageUnits
  <2>1. b.size # 1 /\ ~ (2 * b.size >= PageUnits)
    BY <1>1, <1>2, <1>4
  <2> QED BY <2>1, <1>4 DEF Shares, Tiny, Mid, Big
<1>5. CASE 2 * b.size >= PageUnits
  <2>1. b.size # 1 /\ ~ (2 * b.size < PageUnits)
    BY <1>1, <1>2, <1>5
  <2> QED BY <2>1, <1>5 DEF Shares, Tiny, Mid, Big
<1> QED BY <1>3, <1>4, <1>5

(* A block of whole pages, when those pages have not changed.              *)
WholeBlockKept(m, r, b, p) ==
  /\ WholeBlock(r, b, p) /\ RunOf(r, p) = RunOf(m, p) /\ b.addr = PageAddr(p)
  /\ RunOf(m, p) \in SUBSET (Page \ {0}) /\ p \in RunOf(m, p)

(* It is, when no page of its run has changed.                             *)
LEMMA KeepingAWholeBlock ==
  ASSUME NEW m \in State, NEW r, NEW b, NEW p, WholeBlock(m, b, p),
         \A q \in RunOf(m, p) : /\ m.entry[q] = MULTI => r.entry[q] = MULTI
                                /\ r.page_classes[q] = m.page_classes[q]
  PROVE  WholeBlockKept(m, r, b, p)
<1>1. /\ p \in Page \ {0} /\ b.addr = PageAddr(p)
      /\ m.page_classes[p] >= 1 /\ p + m.page_classes[p] <= NPages
      /\ b.size <= m.page_classes[p] * PageUnits
      /\ \A q \in RunOf(m, p) : m.entry[q] = MULTI /\ (q # p => m.page_classes[q] = -1)
  BY DEF WholeBlock
<1>2. m.page_classes[p] \in Int /\ NPages \in Nat /\ p \in Nat
  <2>1. m.page_classes[p] \in -128 .. 127
    BY <1>1 DEF State
  <2> QED BY <2>1, <1>1, ZoneAssumption DEF Page
<1>3. p \in RunOf(m, p) /\ RunOf(m, p) \in SUBSET (Page \ {0})
  BY <1>1, <1>2 DEF RunOf, Page
<1>4. r.page_classes[p] = m.page_classes[p] /\ RunOf(r, p) = RunOf(m, p)
  BY <1>3 DEF RunOf
<1>5. \A q \in RunOf(r, p) : r.entry[q] = MULTI /\ (q # p => r.page_classes[q] = -1)
  BY <1>1, <1>4
<1>6. WholeBlock(r, b, p)
  BY <1>1, <1>4, <1>5 DEF WholeBlock
<1> QED BY <1>1, <1>3, <1>4, <1>6 DEF WholeBlockKept

(* All of them are, when no page of them has changed or been added.        *)
LEMMA WholesKept ==
  ASSUME NEW m \in State, NEW r, NEW B, Wholes(m, B),
         \A q \in Page : r.entry[q] = MULTI <=> m.entry[q] = MULTI,
         \A q \in Page : m.entry[q] = MULTI => r.page_classes[q] = m.page_classes[q]
  PROVE  Wholes(r, B)
<1>1. ASSUME NEW b \in B, NEW p \in Page, WholeBlock(m, b, p)
      PROVE  WholeBlock(r, b, p) /\ RunOf(r, p) = RunOf(m, p) /\ b.addr = PageAddr(p)
  <2>1. WholeBlockKept(m, m, b, p)
    BY <1>1, KeepingAWholeBlock
  <2>2. \A q \in RunOf(m, p) : q \in Page /\ m.entry[q] = MULTI
    BY <2>1, <1>1 DEF WholeBlockKept, WholeBlock
  <2>3. \A q \in RunOf(m, p) : r.entry[q] = MULTI /\ r.page_classes[q] = m.page_classes[q]
    BY <2>2
  <2>4. WholeBlockKept(m, r, b, p)
    BY <2>3, <1>1, KeepingAWholeBlock
  <2> QED BY <2>4 DEF WholeBlockKept
<1>2. \A b \in B : \E p \in Page : WholeBlock(m, b, p)
  BY DEF Wholes
<1>3. \A b \in B : \E p \in Page : WholeBlock(r, b, p)
  BY <1>1, <1>2
<1>4. ASSUME NEW q \in Page, r.entry[q] = MULTI
      PROVE  \E b \in B, p \in Page : b.addr = PageAddr(p) /\ q \in RunOf(r, p)
  <2>1. PICK b \in B, p \in Page : b.addr = PageAddr(p) /\ q \in RunOf(m, p)
    BY <1>4 DEF Wholes
  <2>2. PICK n \in Page : WholeBlock(m, b, n)
    BY <1>2
  <2>3. n = p
    BY <2>1, <2>2, PageAddrFacts DEF WholeBlock
  <2> QED BY <2>1, <2>2, <2>3, <1>1
<1> QED BY <1>3, <1>4 DEF Wholes

-----------------------------------------------------------------------------
(* A step that changes no pages but those of Z, which are of the smallest  *)
(* class or of the larger ones before and after, and units that are no     *)
(* descriptors of other pages.                                             *)
PagesMoved(m, r, F, G, H, I, Z) ==
  /\ H \in SUBSET Page /\ I \in SUBSET (H \ {0})
  /\ But(F, H, Z) /\ But(G, I, Z) /\ Kept(m, r, F \ Z)
  /\ \A p \in Z : p # 0 /\ (p \in F <=> p \in G) /\ (p \in H <=> p \in I) /\ r.entry[p] # MULTI
  /\ \A q \in G \ Z : m.entry[q] # BUSY => m.entry[q] \in UnitsUsed(r, H)
  /\ \A q \in I \cap Z : Larger1(r, q, H)
BlocksMoved(m, r, L, N, G, I, Z) ==
  /\ Mid(N) \cup LostBlocks(m) =
       (UsedLarger(m, G) \ UsedLarger(m, G \cap Z)) \cup UsedLarger(r, I \cap Z)
  /\ Mid(N) \cap LostBlocks(m) = {}
  /\ Big(N) = Big(L)

SoundAfter(m, r, N, G, H, I, Z) ==
  Sound(r, N, H, I) /\ (NoneWhole(m, G \ Z) => NoneWhole(r, I \ Z))

(* Such a step keeps the invariant, but for what is wholly free.           *)
LEMMA StepIsSound ==
  ASSUME NEW m, NEW L, NEW F, NEW G, Sound(m, L, F, G),
         NEW r \in State, r.hit = {}, r.lost = m.lost, NEW N \in SUBSET Asked,
         NEW H, NEW I, NEW Z, Smallest(r, H), PagesMoved(m, r, F, G, H, I, Z),
         Lists(r, I), Tiny(N) = UnitsUsed(r, H) \ Descs(r, I),
         BlocksMoved(m, r, L, N, G, I, Z)
  PROVE  SoundAfter(m, r, N, G, H, I, Z)
<1>1. /\ m \in State /\ Smallest(m, F) /\ Pages(m, F, G) /\ Owned(m, L, F, G)
      /\ Wholes(m, Big(L))
  BY DEF Sound
<1>2. SmallestBut(m, F, {}) /\ SmallestBut(r, H, {})
  BY <1>1 DEF Smallest
<1>3. /\ H \in SUBSET Page /\ I \in SUBSET (H \ {0})
      /\ But(F, H, Z) /\ But(G, I, Z) /\ Kept(m, r, F \ Z)
      /\ \A p \in Z : p # 0 /\ (p \in F <=> p \in G) /\ (p \in H <=> p \in I)
                      /\ r.entry[p] # MULTI
      /\ \A q \in G \ Z : m.entry[q] # BUSY => m.entry[q] \in UnitsUsed(r, H)
      /\ \A q \in I \cap Z : Larger1(r, q, H)
  BY DEF PagesMoved
<1>4. /\ F \in SUBSET Page /\ G \in SUBSET (F \ {0})
      /\ \A p \in Page : p \in F \ G <=> p = 0 \/ m.entry[p] = MULTI \/ WholePage(p) \in m.lost
      /\ \A p \in F \ G : m.entry[p] # MULTI => m.entry[p] = BUSY /\ m.page_classes[p] = 0
  BY <1>1 DEF Pages
<1>5. ASSUME NEW q \in G, q \notin Z
      PROVE  /\ Larger1(r, q, H) /\ UsedIn(r, q) = UsedIn(m, q)
             /\ r.page_classes[q] = m.page_classes[q] /\ FreeOf(r, q) = FreeOf(m, q)
             /\ r.entry[q] = m.entry[q]
  <2>1. q \in F \ Z
    BY <1>4, <1>5
  <2>2. m.entry[q] # BUSY => m.entry[q] \in UnitsUsed(r, H)
    BY <1>3, <1>5
  <2> QED BY <2>1, <2>2, <1>1, <1>3, KeptPage
<1>6. \A p \in I : Larger1(r, p, H)
  <2>1. \A p \in I : p \notin Z => p \in G
    BY <1>3 DEF But
  <2> QED BY <2>1, <1>3, <1>5
<1>7. \A p \in F \ G : p \in H \ I /\ p \notin Z
  BY <1>3 DEF But
<1>8. \A p \in H \ I : p \in F \ G /\ p \notin Z
  BY <1>3 DEF But
<1>9. \A p \in F \ G : r.entry[p] = m.entry[p] /\ r.page_classes[p] = m.page_classes[p]
  BY <1>3, <1>7 DEF Kept
<1>10. \A p \in Page : r.entry[p] = MULTI <=> m.entry[p] = MULTI
  <2>1. \A p \in I : r.entry[p] # MULTI
    BY <1>2, <1>6, UnitFacts, PageOfFacts DEF Larger1, MULTI, BUSY
  <2>2. \A p \in Page \ H : r.entry[p] # MULTI
    BY <1>2, PageAddrFacts DEF SmallestBut, Small0, MULTI, BUSY, FREE
  <2>3. \A p \in Page : r.entry[p] = MULTI => p \in H \ I
    BY <2>1, <2>2
  <2> QED BY <2>3, <1>4, <1>8, <1>9, <1>7
<1>11. \A p \in Page : p \in H \ I <=> p = 0 \/ r.entry[p] = MULTI \/ WholePage(p) \in r.lost
  BY <1>4, <1>7, <1>8, <1>10
<1>12. \A p \in H \ I : r.entry[p] # MULTI => r.entry[p] = BUSY /\ r.page_classes[p] = 0
  BY <1>4, <1>8, <1>9
<1>13. Pages(r, H, I)
  <2>1. \A p \in Page : WholePage(p) \in r.lost => r.entry[p] # MULTI
    BY <1>1, <1>10 DEF Pages
  <2> QED BY <2>1, <1>3, <1>6, <1>11, <1>12 DEF Pages
<1>14. UsedLarger(r, I) = (UsedLarger(m, G) \ UsedLarger(m, G \cap Z)) \cup UsedLarger(r, I \cap Z)
  <2>1. UsedBut(m, r, G, I, Z)
    BY <1>1, <1>3, <1>5, UsedOver
  <2> QED BY <2>1 DEF UsedBut
<1>15. Owned(r, N, H, I)
  BY <1>14 DEF BlocksMoved, Owned, LostBlocks
<1>16. Wholes(r, Big(N))
  <2>1. \A p \in Page : m.entry[p] = MULTI => r.page_classes[p] = m.page_classes[p]
    BY <1>4, <1>9
  <2> QED BY <2>1, <1>1, <1>10, WholesKept DEF BlocksMoved
<1>17. Sound(r, N, H, I)
  BY <1>13, <1>15, <1>16 DEF Sound
<1>18. ASSUME NoneWhole(m, G \ Z)
       PROVE  NoneWhole(r, I \ Z)
  <2>1. \A p \in I : p \notin Z => p \in G
    BY <1>3 DEF But
  <2> QED BY <2>1, <1>5, <1>18 DEF NoneWhole
<1> QED BY <1>17, <1>18 DEF SoundAfter

(* A step in which only pages and units of the smallest class have changed *)
(* goes with a change of the owners of units alone.                        *)
LEMMA UnitsAlone ==
  ASSUME NEW m, NEW L, NEW F, NEW G, InvOf(m, L, F, G),
         NEW r \in State, Smallest(r, F), Same(m, r, F), NEW N \in SUBSET Asked,
         \A x \in Descs(m, G) : x \in UnitsUsed(r, F),
         Shares(N, UnitsUsed(r, F) \ Descs(m, G), Mid(L), Big(L))
  PROVE  InvOf(r, N, F, G)
<1>1. /\ m \in State /\ Smallest(m, F) /\ Pages(m, F, G) /\ Owned(m, L, F, G)
      /\ Lists(m, G) /\ m.hit = {} /\ NoneWhole(m, G) /\ Sound(m, L, F, G)
  BY DEF InvOf, Sound
<1>2. /\ F \in SUBSET Page /\ G \in SUBSET (F \ {0})
      /\ \A p \in F \ G : m.entry[p] # MULTI => m.entry[p] = BUSY /\ m.page_classes[p] = 0
  BY <1>1 DEF Pages
<1>3. /\ \A p \in F : r.entry[p] = m.entry[p] /\ r.page_classes[p] = m.page_classes[p]
      /\ \A k \in Class \ {0} : r.classes[k] = m.classes[k]
      /\ r.lost = m.lost /\ r.hit = m.hit
      /\ \A x \in UnitsUsed(m, F) \cap UnitsUsed(r, F) : r.desc[x] = m.desc[x]
  BY DEF Same
<1>4. \A q \in G : m.entry[q] # BUSY => /\ m.entry[q] \in UnitsUsed(m, F)
                                        /\ m.entry[q] \in UnitsUsed(r, F)
  BY <1>1, LargerFacts DEF Descs
<1>5. Kept(m, r, F \ {})
  <2> SUFFICES ASSUME NEW q \in F, m.entry[q] \in Addr
               PROVE  r.desc[m.entry[q]] = m.desc[m.entry[q]]
    BY <1>3 DEF Kept
  <2>1. m.entry[q] # BUSY /\ m.entry[q] # MULTI
    BY PageOfFacts DEF BUSY, MULTI
  <2>2. q \in G
    BY <2>1, <1>2
  <2> QED BY <2>1, <2>2, <1>3, <1>4
<1>6. PagesMoved(m, r, F, G, F, G, {})
  BY <1>2, <1>4, <1>5 DEF PagesMoved, But
<1>7. Descs(r, G) = Descs(m, G) /\ \A k \in Class : Rooms(r, G, k) = Rooms(m, G, k)
  BY <1>2, <1>3 DEF Descs, Rooms
<1>8. Lists(r, G)
  BY <1>1, <1>3, <1>7 DEF Lists
<1>9. BlocksMoved(m, r, L, N, G, G, {})
  <2>1. UsedLarger(m, G \cap {}) = {} /\ UsedLarger(r, G \cap {}) = {}
    BY DEF UsedLarger
  <2> QED BY <2>1, <1>1 DEF BlocksMoved, Shares, Owned
<1>10. Tiny(N) = UnitsUsed(r, F) \ Descs(r, G)
  BY <1>7 DEF Shares
<1>11. SoundAfter(m, r, N, G, F, G, {})
  BY <1>1, <1>3, <1>6, <1>8, <1>9, <1>10, StepIsSound
<1> QED BY <1>1, <1>11 DEF InvOf, SoundAfter, NoneWhole

(* What a call that allocates has done, when it returns a and when it      *)
(* returns NULL; what one that frees b has done.                           *)
Holds(m, L) == \E F, G \in SUBSET Page : InvOf(m, L, F, G)
Allocates(L, k, x) ==
  \/ x.ret = NULL /\ Holds(x.m, L)
  \/ /\ x.ret # NULL /\ x.ret \in Addr /\ Extent(x.ret, k) \notin L
     /\ Holds(x.m, L \cup {Extent(x.ret, k)})

(* mem_alloc in the smallest class.                                        *)
LEMMA AllocUnit ==
  ASSUME NEW m, NEW L, NEW F, NEW G, InvOf(m, L, F, G), 0 \in Requests, NEW x \in MemAlloc0(m)
  PROVE  Allocates(L, 0, x)
<1>1. /\ m \in State /\ Smallest(m, F) /\ Pages(m, F, G) /\ Owned(m, L, F, G)
      /\ L \in SUBSET Asked
  BY DEF InvOf, Sound
<1>2. F \in SUBSET Page /\ G \in SUBSET Page
  BY <1>1 DEF Pages
<1>3. CASE x.ret = NULL /\ x.m = m
  BY <1>2, <1>3 DEF Allocates, Holds
<1>4. CASE x.ret # NULL /\ Allocated0(m, F, x.m, x.ret)
  <2>1. PICK r, a : r = x.m /\ a = x.ret
    OBVIOUS
  <2>2. /\ r \in State /\ Smallest(r, F) /\ Same(m, r, F)
        /\ a \notin UnitsUsed(m, F) /\ UnitsUsed(r, F) = UnitsUsed(m, F) \cup {a}
    BY <1>4, <2>1 DEF Allocated0
  <2>3. a \in Addr
    <3>1. SmallestBut(r, F, {})
      BY <2>2 DEF Smallest
    <3> QED BY <2>2, <3>1, UnitFacts
  <2>4. \A d \in Descs(m, G) : d \in UnitsUsed(m, F)
    BY <1>1, LargerFacts DEF Descs
  <2>5. PICK b : b = Extent(a, 0)
    OBVIOUS
  <2>6. b.addr = a /\ b.size = 1 /\ b \in Asked
    BY <2>3, <2>5, SmallestClass DEF Extent, Asked
  <2>7. b \notin L
    <3>1. b \in L => a \in Tiny(L)
      BY <2>6 DEF Tiny
    <3> QED BY <3>1, <2>2, <1>1 DEF Owned
  <2>8. Shares(L \cup {b}, UnitsUsed(r, F) \ Descs(m, G), Mid(L), Big(L))
    <3>1. Shares(L \cup {b}, Tiny(L) \cup {a}, Mid(L), Big(L))
      <4>1. 0 \in 0 .. MaxClass
        BY DEF MaxClass
      <4> QED BY <4>1, <2>3, <2>5, <1>1, BlockMore
    <3>2. Tiny(L) \cup {a} = UnitsUsed(r, F) \ Descs(m, G)
      BY <2>2, <2>4, <1>1 DEF Owned
    <3> QED BY <3>1, <3>2
  <2>9. InvOf(r, L \cup {b}, F, G)
    <3>1. L \cup {b} \in SUBSET Asked
      BY <2>6, <1>1
    <3>2. \A y \in Descs(m, G) : y \in UnitsUsed(r, F)
      BY <2>2, <2>4
    <3> QED BY <2>2, <2>8, <3>1, <3>2, UnitsAlone
  <2> QED BY <1>2, <1>4, <2>1, <2>3, <2>5, <2>7, <2>9 DEF Allocates, Holds
<1> QED BY <1>1, <1>3, <1>4, MemAlloc0Keeps

(* mem_free of a unit.                                                     *)
LEMMA FreeUnit ==
  ASSUME NEW m, NEW L, NEW F, NEW G, InvOf(m, L, F, G), NEW b \in L, b.size = 1
  PROVE  /\ b.addr \in UnitsUsed(m, F)
         /\ InvOf(MemFree0(m, b.addr), L \ {b}, F, G)
<1>1. /\ m \in State /\ Smallest(m, F) /\ Pages(m, F, G) /\ Owned(m, L, F, G)
      /\ L \in SUBSET Asked
  BY DEF InvOf, Sound
<1>2. PICK a : a = b.addr
  OBVIOUS
<1>3. a \in UnitsUsed(m, F) /\ a \notin Descs(m, G)
  BY <1>1, <1>2 DEF Owned, Tiny
<1>4. PICK r : r = MemFree0(m, a)
  OBVIOUS
<1>5. /\ r \in State /\ Smallest(r, F) /\ Same(m, r, F)
      /\ UnitsUsed(r, F) = UnitsUsed(m, F) \ {a}
  <2>1. Freed0(m, F, r, a)
    BY <1>1, <1>3, <1>4, MemFree0Keeps
  <2> QED BY <2>1 DEF Freed0
<1>6. \A d \in Descs(m, G) : d \in UnitsUsed(m, F)
  BY <1>1, LargerFacts DEF Descs
<1>7. Shares(L \ {b}, UnitsUsed(r, F) \ Descs(m, G), Mid(L), Big(L))
  <2>1. Shares(L \ {b}, Tiny(L) \ {a}, Mid(L), Big(L))
    BY <1>1, <1>2, BlockLess
  <2>2. Tiny(L) \ {a} = UnitsUsed(r, F) \ Descs(m, G)
    BY <1>1, <1>5 DEF Owned
  <2> QED BY <2>1, <2>2
<1>8. InvOf(r, L \ {b}, F, G)
  <2>1. L \ {b} \in SUBSET Asked /\ \A y \in Descs(m, G) : y \in UnitsUsed(r, F)
    BY <1>1, <1>3, <1>5, <1>6
  <2> QED BY <2>1, <1>5, <1>7, UnitsAlone
<1> QED BY <1>2, <1>3, <1>4, <1>8

-----------------------------------------------------------------------------
(* A page of a larger class that has a block more in use, or one less.     *)

(* What else is to be shown of such a step on page p, of class k.          *)
PageStep(m, r, F, G, p, k) ==
  /\ r \in State /\ r.hit = {} /\ r.lost = m.lost
  /\ Smallest(r, F) /\ Kept(m, r, F \ {p}) /\ Lists(r, G)
  /\ r.page_classes[p] = k /\ Larger1(r, p, F) /\ FreeOf(r, p) # Blocks(p, k)
  /\ \A q \in G \ {p} : m.entry[q] # BUSY => m.entry[q] \in UnitsUsed(r, F)
  /\ UnitsUsed(r, F) \ Descs(r, G) = UnitsUsed(m, F) \ Descs(m, G)

(* A step in one page moves no other.                                      *)
LEMMA PageStepMoves ==
  ASSUME NEW m, NEW L, NEW F, NEW G, Sound(m, L, F, G), NEW p \in G, NEW k, NEW r,
         PageStep(m, r, F, G, p, k)
  PROVE  PagesMoved(m, r, F, G, F, G, {p})
<1>1. m \in State /\ Smallest(m, F) /\ Pages(m, F, G)
  BY DEF Sound
<1>2. /\ p # 0 /\ p \in F /\ F \in SUBSET Page /\ G \in SUBSET (F \ {0})
  BY <1>1 DEF Pages
<1>3. /\ r \in State /\ Smallest(r, F) /\ Kept(m, r, F \ {p}) /\ Larger1(r, p, F)
      /\ \A q \in G \ {p} : m.entry[q] # BUSY => m.entry[q] \in UnitsUsed(r, F)
  BY DEF PageStep
<1>4. r.entry[p] # MULTI
  <2>1. SmallestBut(r, F, {})
    BY <1>3 DEF Smallest
  <2>2. r.entry[p] # BUSY => r.entry[p] \in Addr
    BY <1>3, <2>1, UnitFacts DEF Larger1
  <2> QED BY <2>2, PageOfFacts DEF MULTI, BUSY
<1> QED BY <1>2, <1>3, <1>4 DEF PagesMoved, But

(* The blocks of one page.                                                 *)
LEMMA UsedOne ==
  ASSUME NEW m, NEW G, NEW p
  PROVE  /\ p \in G => UsedLarger(m, G \cap {p}) = UsedIn(m, p)
         /\ p \notin G => UsedLarger(m, G \cap {p}) = {}
BY DEF UsedLarger

(* One that takes a block for an owner keeps the invariant.                *)
LEMMA PageTook ==
  ASSUME NEW m, NEW L, NEW F, NEW G, Sound(m, L, F, G), NEW p \in G, NoneWhole(m, G \ {p}),
         NEW k \in Requests, m.page_classes[p] = k, NEW r, PageStep(m, r, F, G, p, k),
         NEW a \in FreeOf(m, p), UsedOf(r, p) = UsedOf(m, p) \cup {a}
  PROVE  /\ InvOf(r, L \cup {Extent(a, k)}, F, G) /\ Extent(a, k) \notin L
         /\ a \in Addr /\ a # NULL
<1>1. /\ m \in State /\ Smallest(m, F) /\ Pages(m, F, G) /\ Owned(m, L, F, G)
      /\ L \in SUBSET Asked
  BY DEF Sound
<1>2. /\ r \in State /\ r.hit = {} /\ r.lost = m.lost /\ Smallest(r, F) /\ Lists(r, G)
      /\ r.page_classes[p] = k /\ FreeOf(r, p) # Blocks(p, k)
      /\ UnitsUsed(r, F) \ Descs(r, G) = UnitsUsed(m, F) \ Descs(m, G)
  BY DEF PageStep
<1>3. k \in Class \ {0} /\ a \in Blocks(p, k) /\ p \in Page \ {0}
  BY <1>1, LargerFacts
<1>4. a \in Addr /\ a # NULL
  <2>1. a \in Addr /\ PageAddr(p) <= a
    BY <1>3, BlockFacts
  <2>2. PageAddr(p) \in Nat /\ PageAddr(p) >= PageUnits
    BY <1>3, PageAddrFacts
  <2> QED BY <2>1, <2>2, UnitsOfAPage, PageOfFacts DEF NULL
<1>5. PICK b : b = Extent(a, k)
  OBVIOUS
<1>6. b.addr = a /\ b \in Asked
  BY <1>4, <1>5 DEF Extent, Asked
<1>7. UsedIn(r, p) = UsedIn(m, p) \cup {b}
  BY <1>2, <1>5 DEF UsedIn
<1>8. b \notin UsedLarger(m, G)
  <2> SUFFICES ASSUME NEW q \in G, b \in UsedIn(m, q) PROVE FALSE
    BY DEF UsedLarger
  <2>1. PageOf(b.addr) = q /\ b.addr \notin FreeOf(m, q)
    BY <1>1, UsedInFacts
  <2>2. PageOf(a) = p
    BY <1>3, BlockFacts
  <2> QED BY <2>1, <2>2, <1>6
<1>9. Shares(L \cup {b}, Tiny(L), Mid(L) \cup {b}, Big(L))
  <2>1. k \in 0 .. MaxClass
    BY <1>3 DEF Class
  <2> QED BY <2>1, <1>1, <1>3, <1>4, <1>5, BlockMore
<1>10. b \notin L
  <2>1. b \in L => b \in Mid(L)
    <3>1. k \in 0 .. MaxClass /\ b.size = Size(k)
      BY <1>3, <1>5 DEF Class, Extent
    <3> QED BY <3>1, <1>3, Kinds DEF Mid
  <2> QED BY <2>1, <1>1, <1>8 DEF Owned
<1>11. BlocksMoved(m, r, L, L \cup {b}, G, G, {p})
  <2>1. Mid(L) \cup LostBlocks(m) = UsedLarger(m, G) /\ Mid(L) \cap LostBlocks(m) = {}
    BY <1>1 DEF Owned
  <2>2. UsedLarger(m, G \cap {p}) = UsedIn(m, p) /\ UsedLarger(r, G \cap {p}) = UsedIn(r, p)
    BY UsedOne
  <2>3. UsedIn(m, p) \in SUBSET UsedLarger(m, G)
    BY DEF UsedLarger
  <2> QED BY <2>1, <2>2, <2>3, <1>7, <1>8, <1>9 DEF BlocksMoved, Shares
<1>12. Tiny(L \cup {b}) = UnitsUsed(r, F) \ Descs(r, G)
  BY <1>1, <1>2, <1>9 DEF Shares, Owned
<1>13. NoneWhole(r, G \cap {p})
  BY <1>2 DEF NoneWhole
<1>14. PagesMoved(m, r, F, G, F, G, {p}) /\ L \cup {b} \in SUBSET Asked
  BY <1>1, <1>6, PageStepMoves
<1>15. Sound(r, L \cup {b}, F, G) /\ NoneWhole(r, G)
  <2>1. SoundAfter(m, r, L \cup {b}, G, F, G, {p})
    BY <1>1, <1>2, <1>11, <1>12, <1>13, <1>14, StepIsSound
  <2> QED BY <2>1, <1>11, <1>12, <1>13, <1>14 DEF SoundAfter, NoneWhole
<1> QED BY <1>4, <1>5, <1>10, <1>15 DEF InvOf

(* One that gives an owner's block back does too.                          *)
LEMMA PageGave ==
  ASSUME NEW m, NEW L, NEW F, NEW G, InvOf(m, L, F, G), NEW p \in G,
         NEW k, m.page_classes[p] = k, NEW r, PageStep(m, r, F, G, p, k),
         NEW a \in Blocks(p, k), Extent(a, k) \in L, UsedOf(r, p) = UsedOf(m, p) \ {a}
  PROVE  InvOf(r, L \ {Extent(a, k)}, F, G)
<1>1. /\ m \in State /\ Smallest(m, F) /\ Pages(m, F, G) /\ Owned(m, L, F, G)
      /\ L \in SUBSET Asked /\ Sound(m, L, F, G) /\ NoneWhole(m, G)
  BY DEF Sound, InvOf
<1>2. /\ r \in State /\ r.hit = {} /\ r.lost = m.lost /\ Smallest(r, F) /\ Lists(r, G)
      /\ r.page_classes[p] = k /\ FreeOf(r, p) # Blocks(p, k)
      /\ UnitsUsed(r, F) \ Descs(r, G) = UnitsUsed(m, F) \ Descs(m, G)
  BY DEF PageStep
<1>3. k \in Class \ {0} /\ p \in Page \ {0}
  BY <1>1, LargerFacts
<1>4. PICK b : b = Extent(a, k)
  OBVIOUS
<1>5. b.addr = a /\ b \in L /\ b.size = Size(k) /\ b.size > 1 /\ 2 * b.size < PageUnits
  <2>1. b.addr = a /\ b \in L /\ b.size = Size(k) /\ k \in 0 .. MaxClass
    BY <1>3, <1>4 DEF Extent, Class
  <2> QED BY <2>1, <1>3, Kinds
<1>6. UsedIn(r, p) = UsedIn(m, p) \ {b}
  BY <1>2, <1>4 DEF UsedIn, Extent
<1>7. Shares(L \ {b}, Tiny(L), Mid(L) \ {b}, Big(L))
  BY <1>1, <1>5, BlockLess
<1>8. \A q \in G : b \in UsedIn(m, q) => q = p \/ b \notin UsedIn(m, p)
  BY <1>1, UsedInApart
<1>9. BlocksMoved(m, r, L, L \ {b}, G, G, {p})
  <2>1. Mid(L) \cup LostBlocks(m) = UsedLarger(m, G) /\ Mid(L) \cap LostBlocks(m) = {}
    BY <1>1 DEF Owned
  <2>2. UsedLarger(m, G \cap {p}) = UsedIn(m, p) /\ UsedLarger(r, G \cap {p}) = UsedIn(r, p)
    BY UsedOne
  <2>3. UsedIn(m, p) \in SUBSET UsedLarger(m, G)
    BY DEF UsedLarger
  <2>4. b \in Mid(L)
    BY <1>5 DEF Mid
  <2>5. b \in UsedIn(m, p)
    <3>1. PICK q \in G : b \in UsedIn(m, q)
      BY <2>1, <2>4 DEF UsedLarger
    <3>2. PageOf(a) = q /\ PageOf(a) = p
      BY <3>1, <1>1, <1>3, <1>5, UsedInFacts, BlockFacts
    <3> QED BY <3>1, <3>2
  <2> QED BY <2>1, <2>2, <2>3, <2>4, <2>5, <1>6, <1>7 DEF BlocksMoved, Shares
<1>10. Tiny(L \ {b}) = UnitsUsed(r, F) \ Descs(r, G)
  BY <1>1, <1>2, <1>7 DEF Shares, Owned
<1>11. NoneWhole(r, G \cap {p}) /\ NoneWhole(m, G \ {p})
  BY <1>1, <1>2 DEF NoneWhole
<1>12. PagesMoved(m, r, F, G, F, G, {p}) /\ L \ {b} \in SUBSET Asked
  BY <1>1, PageStepMoves
<1>13. Sound(r, L \ {b}, F, G) /\ NoneWhole(r, G)
  <2>1. SoundAfter(m, r, L \ {b}, G, F, G, {p})
    BY <1>1, <1>2, <1>9, <1>10, <1>11, <1>12, StepIsSound
  <2> QED BY <2>1, <1>9, <1>10, <1>11, <1>12 DEF SoundAfter, NoneWhole
<1> QED BY <1>4, <1>13 DEF InvOf

(* A page of a larger class with a descriptor.                             *)
DescribedPage(m, F, G, p, k, d) ==
  /\ p \in G /\ p \in Page \ {0} /\ p \in F /\ k \in Class \ {0} /\ m.page_classes[p] = k
  /\ m.entry[p] = d /\ d # BUSY /\ d \in Addr /\ d \in UnitsUsed(m, F)
  /\ d \in Descs(m, G) /\ d \in Rooms(m, G, k)
  /\ m.desc[d].index = p /\ m.desc[d].class = k /\ m.desc[d].block # {}
  /\ m.desc[d].count = Cardinality(m.desc[d].block)
  /\ m.desc[d].block \in SUBSET Blocks(p, k)
  /\ FreeOf(m, p) = m.desc[d].block /\ UsedOf(m, p) = Blocks(p, k) \ m.desc[d].block
  /\ \A q \in Page : d # PageAddr(q)
  /\ \A q \in G \ {p} : m.entry[q] # BUSY => m.entry[q] # d /\ m.entry[q] \in UnitsUsed(m, F)
  /\ \A q \in F \ {p} : m.entry[q] \in Addr => m.entry[q] # d /\ m.entry[q] \in UnitsUsed(m, F)

(* Each page of a larger class that is not full is described.              *)
LEMMA DescribedPageFacts ==
  ASSUME NEW m \in State, NEW F, NEW G, Smallest(m, F), Pages(m, F, G), NEW p \in G,
         m.entry[p] # BUSY
  PROVE  DescribedPage(m, F, G, p, m.page_classes[p], m.entry[p])
<1>1. PICK k, d : k = m.page_classes[p] /\ d = m.entry[p]
  OBVIOUS
<1>2. /\ p \in Page \ {0} /\ p \in F /\ k \in Class \ {0}
      /\ d \in Addr /\ d \in UnitsUsed(m, F) /\ Describes(m, p, k)
      /\ UsedOf(m, p) = Blocks(p, k) \ FreeOf(m, p)
  BY <1>1, LargerFacts
<1>3. /\ m.desc[d].index = p /\ m.desc[d].class = k /\ m.desc[d].block # {}
      /\ m.desc[d].count = Cardinality(m.desc[d].block)
      /\ m.desc[d].block \in SUBSET Blocks(p, k) /\ FreeOf(m, p) = m.desc[d].block
  BY <1>1, <1>2 DEF Describes, FreeOf
<1>4. SmallestBut(m, F, {})
  BY DEF Smallest
<1>5. \A q \in Page : d # PageAddr(q)
  BY <1>2, <1>4, UnitFacts
<1>6. \A q \in G \ {p} : m.entry[q] # BUSY => m.entry[q] # d /\ m.entry[q] \in UnitsUsed(m, F)
  BY <1>1, LargerFacts, DescsApart
<1>7. \A q \in F \ {p} : m.entry[q] \in Addr => m.entry[q] # d /\ m.entry[q] \in UnitsUsed(m, F)
  <2> SUFFICES ASSUME NEW q \in F \ {p}, m.entry[q] \in Addr
               PROVE  m.entry[q] # d /\ m.entry[q] \in UnitsUsed(m, F)
    OBVIOUS
  <2>1. m.entry[q] # BUSY /\ m.entry[q] # MULTI
    BY PageOfFacts DEF BUSY, MULTI
  <2>2. q \in G
    BY <2>1 DEF Pages
  <2> QED BY <2>1, <2>2, <1>6
<1>8. d \in Descs(m, G) /\ d \in Rooms(m, G, k)
  BY <1>1 DEF Descs, Rooms
<1> QED BY <1>1, <1>2, <1>3, <1>5, <1>6, <1>7, <1>8 DEF DescribedPage

(* A change of what one descriptor of a larger class says, or that it is   *)
(* no longer one, leaves the smallest class alone.                         *)
LEMMA OneDescriptor ==
  ASSUME NEW m \in State, NEW F, Smallest(m, F), NEW r \in State,
         r.entry = m.entry, r.page_classes = m.page_classes, r.classes[0] = m.classes[0],
         \A q \in Page \ F : r.desc[PageAddr(q)] = m.desc[PageAddr(q)]
  PROVE  Smallest(r, F) /\ UnitsUsed(r, F) = UnitsUsed(m, F)
<1>1. SmallestBut(m, F, {})
  BY DEF Smallest
<1>3. F \in SUBSET Page /\ 0 \in F /\ \A q \in F : m.entry[q] # FREE
  BY <1>1 DEF SmallestBut
<1>4. Elsewhere(m, r, F, F)
  BY <1>3 DEF Elsewhere
<1> QED BY <1>4, SmallestElsewhere

Took(m, r, F, G, p, k, a) ==
  PageStep(m, r, F, G, p, k) /\ UsedOf(r, p) = UsedOf(m, p) \cup {a} /\ a \in FreeOf(m, p)
(* A block taken from a page of a larger class.                            *)
LEMMA TakeOneLarger ==
  ASSUME NEW m, NEW L, NEW F, NEW G, Sound(m, L, F, G), NEW p \in G, NEW k, NEW d,
         m.page_classes[p] = k, m.entry[p] = d, d # BUSY,
         m.classes[k] # <<>>, Head(m.classes[k]) = d, ~ Wide,
         NEW a \in m.desc[d].block, NEW r, r = TakeOne(m, d, a)
  PROVE  Took(m, r, F, G, p, k, a)
<1>1. /\ m \in State /\ Smallest(m, F) /\ Pages(m, F, G) /\ Lists(m, G) /\ m.hit = {}
  BY DEF Sound
<1>2. DescribedPage(m, F, G, p, k, d)
  BY <1>1, DescribedPageFacts
<1>3. /\ p \in Page \ {0} /\ p \in F /\ k \in Class \ {0}
      /\ d \in Addr /\ d \in UnitsUsed(m, F) /\ d \in Descs(m, G) /\ d \in Rooms(m, G, k)
      /\ m.desc[d].index = p /\ m.desc[d].class = k
      /\ m.desc[d].count = Cardinality(m.desc[d].block)
      /\ m.desc[d].block \in SUBSET Blocks(p, k)
      /\ FreeOf(m, p) = m.desc[d].block /\ UsedOf(m, p) = Blocks(p, k) \ m.desc[d].block
      /\ \A q \in Page : d # PageAddr(q)
  BY <1>2 DEF DescribedPage
<1>4. /\ \A q \in G \ {p} : m.entry[q] # BUSY => m.entry[q] # d /\ m.entry[q] \in UnitsUsed(m, F)
      /\ \A q \in F \ {p} : m.entry[q] \in Addr => m.entry[q] # d /\ m.entry[q] \in UnitsUsed(m, F)
  BY <1>2 DEF DescribedPage
<1>5. a \in Blocks(p, k) /\ a \in Addr /\ a \in FreeOf(m, p)
  BY <1>3, BlockFacts
<1>6. PICK t : t = Taken(m, d, a)
  OBVIOUS
<1>7. /\ Cardinality(m.desc[d].block \ {a}) = m.desc[d].count - 1
      /\ m.desc[d].count >= 1
  <2>1. PICK bs : bs = m.desc[d].block
    OBVIOUS
  <2>2. bs \in SUBSET Blocks(p, k) /\ p \in Page /\ k \in Class /\ a \in bs
    BY <2>1, <1>3
  <2>3. Cardinality(bs) \in Nat /\ Cardinality(bs) # 0
    BY <2>2, FreeSetFacts
  <2>4. Cardinality(bs \ {a}) = Cardinality(bs) - 1
    BY <2>2, FreeSetFacts
  <2> QED BY <2>1, <2>3, <2>4, <1>3
<1>8. TakenFrom(m, d, a, t)
  BY <1>1, <1>3, <1>5, <1>6, <1>7, TakenIs
<1>9. /\ t \in State
      /\ t.entry = m.entry /\ t.page_classes = m.page_classes /\ t.classes = m.classes
      /\ t.lost = m.lost /\ t.hit = {}
      /\ t.desc[d].index = p /\ t.desc[d].class = k
      /\ t.desc[d].block = m.desc[d].block \ {a}
      /\ t.desc[d].count = Cardinality(m.desc[d].block \ {a})
      /\ \A x \in Addr : x # d => t.desc[x] = m.desc[x]
  BY <1>1, <1>3, <1>7, <1>8 DEF TakenFrom
<1>10. Smallest(t, F) /\ UnitsUsed(t, F) = UnitsUsed(m, F)
  <2>1. \A q \in Page : t.desc[PageAddr(q)] = m.desc[PageAddr(q)]
    BY <1>3, <1>9, PageAddrFacts
  <2> QED BY <2>1, <1>1, <1>3, <1>9, OneDescriptor
<1>11. CASE t.desc[d].block # {}
  <2>1. r = t
    BY <1>6, <1>11 DEF TakeOne
  <2>2. Kept(m, t, F \ {p})
    BY <1>4, <1>9 DEF Kept
  <2>3. Descs(t, G) = Descs(m, G) /\ \A i \in Class : Rooms(t, G, i) = Rooms(m, G, i)
    BY <1>9 DEF Descs, Rooms
  <2>4. Lists(t, G)
    BY <2>3, <1>1, <1>9 DEF Lists
  <2>5. Larger1(t, p, F)
    <3>1. Describes(t, p, k)
      BY <1>3, <1>9, <1>11 DEF Describes
    <3> QED BY <3>1, <1>3, <1>9, <1>10 DEF Larger1
  <2>6. FreeOf(t, p) = m.desc[d].block \ {a}
    BY <1>9 DEF FreeOf
  <2>7. UsedOf(t, p) = UsedOf(m, p) \cup {a}
    <3>1. UsedOf(t, p) = Blocks(p, k) \ FreeOf(t, p)
      <4>1. m.entry[p] # FREE
        BY <1>1, LargerFacts
      <4> QED BY <4>1, <1>9 DEF UsedOf
    <3> QED BY <3>1, <2>6, <1>3, <1>5
  <2>8. FreeOf(t, p) # Blocks(p, k)
    BY <2>6, <1>5
  <2>9. PageStep(m, t, F, G, p, k)
    BY <2>2, <2>3, <2>4, <2>5, <2>8, <1>4, <1>9, <1>10 DEF PageStep
  <2> QED BY <2>1, <2>7, <2>9, <1>5 DEF Took
<1>12. CASE t.desc[d].block = {}
  <2>1. PICK u : u = MemFree0(t, d)
    OBVIOUS
  <2>2. Freed0(t, F, u, d)
    BY <2>1, <1>3, <1>9, <1>10, MemFree0Keeps
  <2>3. /\ u \in State /\ Smallest(u, F)
        /\ UnitsUsed(u, F) = UnitsUsed(m, F) \ {d}
        /\ \A q \in F : u.entry[q] = m.entry[q] /\ u.page_classes[q] = m.page_classes[q]
        /\ \A i \in Class \ {0} : u.classes[i] = m.classes[i]
        /\ u.lost = m.lost /\ u.hit = {}
        /\ \A x \in UnitsUsed(m, F) \ {d} : u.desc[x] = m.desc[x]
    <3>1. /\ u \in State /\ Smallest(u, F) /\ Same(t, u, F)
          /\ UnitsUsed(u, F) = UnitsUsed(t, F) \ {d}
      BY <2>2 DEF Freed0
    <3>2. \A x \in UnitsUsed(m, F) : x \in Addr
      <4>1. SmallestBut(m, F, {})
        BY <1>1 DEF Smallest
      <4> QED BY <4>1, UnitFacts
    <3>3. \A x \in UnitsUsed(m, F) \ {d} : u.desc[x] = t.desc[x]
      BY <3>1, <1>10 DEF Same
    <3> QED BY <3>1, <3>2, <3>3, <1>9, <1>10 DEF Same
  <2>4. PICK ts : ts = Tail(m.classes[k])
    OBVIOUS
  <2>5. IsList(ts, Rooms(m, G, k) \ {d}) /\ ts \in Seq(Addr)
    <3>1. IsList(m.classes[k], Rooms(m, G, k))
      BY <1>1, <1>3 DEF Lists
    <3>2. IsList(ts, Rooms(m, G, k) \ {d})
      BY <3>1, <2>4, ListTail
    <3> QED BY <3>2 DEF IsList
  <2>6. r = [u EXCEPT !.entry[p] = BUSY, !.classes[k] = ts]
    <3>1. r = Full(t, d)
      BY <1>6, <1>12 DEF TakeOne
    <3>2. t.desc[d].index = p /\ t.desc[d].class = k /\ t.entry[p] = d /\ t.classes[k] = m.classes[k]
      BY <1>9
    <3> QED BY <3>1, <3>2, <2>1, <2>4 DEF Full
  <2>7. /\ r \in State
        /\ r.entry = [u.entry EXCEPT ![p] = BUSY] /\ r.page_classes = u.page_classes
        /\ r.classes = [u.classes EXCEPT ![k] = ts] /\ r.desc = u.desc
        /\ r.lost = u.lost /\ r.hit = u.hit
    <3>1. /\ [u.entry EXCEPT ![p] = BUSY] \in [Page -> {MULTI, BUSY} \cup Addr]
          /\ [u.classes EXCEPT ![k] = ts] \in [Class -> Seq(Addr)]
      BY <2>3, <2>5, <1>3 DEF State
    <3> QED BY <3>1, <2>3, <2>6 DEF State
  <2>8. /\ r.entry[p] = BUSY /\ \A q \in Page \ {p} : r.entry[q] = u.entry[q]
        /\ r.classes[k] = ts /\ \A i \in Class \ {k} : r.classes[i] = u.classes[i]
    BY <2>3, <2>7, <1>3 DEF State
  <2>9. Smallest(r, F) /\ UnitsUsed(r, F) = UnitsUsed(m, F) \ {d}
    <3>1. F \in SUBSET Page /\ 0 \in F /\ \A q \in F : u.entry[q] # FREE
      BY <2>3 DEF Smallest, SmallestBut
    <3>2. \A q \in F : r.entry[q] # FREE
      BY <3>1, <2>8 DEF BUSY, FREE
    <3>3. Elsewhere(u, r, F, F)
      BY <3>1, <3>2, <2>7, <2>8, <1>3, SmallestClass DEF Elsewhere
    <3> QED BY <3>3, <2>3, <2>7, SmallestElsewhere
  <2>10. Kept(m, r, F \ {p})
    <3>1. \A q \in F \ {p} : m.entry[q] \in Addr => u.desc[m.entry[q]] = m.desc[m.entry[q]]
      BY <2>3, <1>4
    <3>2. F \in SUBSET Page
      BY <1>1 DEF Pages
    <3> QED BY <3>1, <3>2, <2>3, <2>7, <2>8 DEF Kept
  <2>11. RoomsBut(m, r, G, G, p, k)
    <3>1. r.page_classes[p] = k
      BY <2>3, <2>7, <1>3
    <3> QED BY <3>1, <2>10, <1>1, RoomsOver DEF But
  <2>12. /\ Descs(r, G) = Descs(m, G) \ {d} /\ Rooms(r, G, k) = Rooms(m, G, k) \ {d}
         /\ \A i \in Class \ {0, k} : Rooms(r, G, i) = Rooms(m, G, i)
    BY <2>8, <2>11 DEF RoomsBut
  <2>13. Lists(r, G)
    <3>1. \A i \in Class \ {0, k} : IsList(r.classes[i], Rooms(r, G, i))
      BY <2>3, <2>8, <2>12, <1>1 DEF Lists
    <3> QED BY <3>1, <2>5, <2>8, <2>12 DEF Lists
  <2>14. Larger1(r, p, F) /\ r.page_classes[p] = k
    BY <2>3, <2>7, <2>8, <1>3 DEF Larger1
  <2>15. FreeOf(r, p) = {} /\ UsedOf(r, p) = UsedOf(m, p) \cup {a} /\ FreeOf(r, p) # Blocks(p, k)
    <3>1. FreeOf(r, p) = {}
      BY <2>8 DEF FreeOf
    <3>2. UsedOf(r, p) = Blocks(p, k)
      BY <3>1, <2>8, <2>14 DEF UsedOf, BUSY, FREE
    <3>3. m.desc[d].block = {a}
      BY <1>9, <1>12
    <3> QED BY <3>1, <3>2, <3>3, <1>3, <1>5
  <2>16. PageStep(m, r, F, G, p, k)
    BY <2>3, <2>7, <2>9, <2>10, <2>12, <2>13, <2>14, <2>15, <1>3, <1>4 DEF PageStep
  <2> QED BY <2>15, <2>16, <1>5 DEF Took
<1> QED BY <1>11, <1>12

-----------------------------------------------------------------------------
(* mem_alloc in the larger classes.                                        *)

(* The first page of the list of a class.                                  *)
LEMMA HeadOfClass ==
  ASSUME NEW m, NEW L, NEW F, NEW G, Sound(m, L, F, G), NEW k \in Class \ {0},
         m.classes[k] # <<>>
  PROVE  \E p \in G : /\ m.entry[p] = Head(m.classes[k]) /\ m.page_classes[p] = k
                      /\ m.entry[p] # BUSY
<1>1. IsList(m.classes[k], Rooms(m, G, k))
  BY DEF Sound, Lists
<1>2. Head(m.classes[k]) \in Rooms(m, G, k)
  BY <1>1, ListTail
<1> QED BY <1>2 DEF Rooms

(* A block taken from the first page of the list.                          *)
LEMMA TakeMid ==
  ASSUME NEW m, NEW L, NEW F, NEW G, Sound(m, L, F, G), NEW k \in Requests, k \in Class \ {0},
         m.classes[k] # <<>>, NEW p \in G, m.page_classes[p] = k,
         m.entry[p] = Head(m.classes[k]), m.entry[p] # BUSY, NoneWhole(m, G \ {p}), ~ Wide,
         NEW x \in Take(m, k)
  PROVE  Allocates(L, k, x)
<1>1. PICK d : d = m.entry[p]
  OBVIOUS
<1>2. PICK a \in m.desc[d].block : x.m = TakeOne(m, d, a) /\ x.ret = a
  BY <1>1 DEF Take
<1>3. PICK r : r = x.m
  OBVIOUS
<1>4. PageStep(m, r, F, G, p, k) /\ UsedOf(r, p) = UsedOf(m, p) \cup {a} /\ a \in FreeOf(m, p)
  <2>1. m.page_classes[p] = k /\ m.entry[p] = d /\ d # BUSY /\ Head(m.classes[k]) = d
    BY <1>1
  <2>2. r = TakeOne(m, d, a)
    BY <1>2, <1>3
  <2>3. Took(m, r, F, G, p, k, a)
    BY <2>1, <2>2, TakeOneLarger
  <2> QED BY <2>3 DEF Took
<1>5. /\ InvOf(r, L \cup {Extent(a, k)}, F, G) /\ Extent(a, k) \notin L
      /\ a \in Addr /\ a # NULL
  BY <1>4, PageTook
<1>6. F \in SUBSET Page /\ G \in SUBSET Page
  BY DEF Sound, Pages
<1> QED BY <1>2, <1>3, <1>5, <1>6 DEF Allocates, Holds

(* From m to u the unit d has been allocated, and the page p, outside F or *)
(* full, is one of a larger class.                                         *)
Prepared(m, u, F, G, H, p, k, d) ==
  /\ u \in State /\ Smallest(u, H) /\ u.hit = m.hit /\ u.lost = m.lost
  /\ d \notin UnitsUsed(m, F) /\ UnitsUsed(u, H) = UnitsUsed(m, F) \cup {d}
  /\ p \in Page \ {0} /\ p \in H /\ But(F, H, {p}) /\ k \in Class \ {0}
  /\ p \in F <=> p \in G
  /\ p \in G => m.entry[p] = BUSY /\ m.page_classes[p] = k
  /\ \A q \in F \ {p} : u.entry[q] = m.entry[q] /\ u.page_classes[q] = m.page_classes[q]
  /\ \A y \in UnitsUsed(m, F) : u.desc[y] = m.desc[y]
  /\ \A i \in Class \ {0} : u.classes[i] = m.classes[i]

(* Then its descriptor is written at d, with the free blocks bs.           *)
Redescribed(m, v, F, G, H, p, k, d, bs) ==
  /\ v \in State /\ v.hit = m.hit /\ v.lost = m.lost
  /\ Smallest(v, H) /\ UnitsUsed(v, H) = UnitsUsed(m, F) \cup {d}
  /\ Kept(m, v, F \ {p}) /\ Lists(v, G \cup {p})
  /\ v.entry[p] = d /\ d # BUSY /\ d # MULTI /\ v.page_classes[p] = k /\ Larger1(v, p, H)
  /\ d \notin Descs(m, G) /\ Descs(v, G \cup {p}) = Descs(m, G) \cup {d}
  /\ FreeOf(v, p) = bs /\ UsedOf(v, p) = Blocks(p, k) \ bs
  /\ v.classes[k] = Append(m.classes[k], d)
  /\ \A q \in G \ {p} : m.entry[q] # BUSY => m.entry[q] \in UnitsUsed(v, H)

(* Writing the descriptor of a page that was prepared.                     *)
LEMMA DescriptorWritten ==
  ASSUME NEW m, NEW L, NEW F, NEW G, Sound(m, L, F, G), NEW u, NEW H, NEW p, NEW k, NEW d,
         Prepared(m, u, F, G, H, p, k, d),
         NEW bs \in SUBSET Blocks(p, k), bs # {}, NEW v, v = Described(u, p, k, d, bs)
  PROVE  Redescribed(m, v, F, G, H, p, k, d, bs)
<1>1. m \in State /\ Smallest(m, F) /\ Pages(m, F, G) /\ Lists(m, G)
  BY DEF Sound
<1>2. /\ u \in State /\ Smallest(u, H) /\ u.hit = m.hit /\ u.lost = m.lost
      /\ d \notin UnitsUsed(m, F) /\ UnitsUsed(u, H) = UnitsUsed(m, F) \cup {d}
      /\ p \in Page \ {0} /\ p \in H /\ But(F, H, {p}) /\ k \in Class \ {0}
      /\ p \in F <=> p \in G
      /\ p \in G => m.entry[p] = BUSY /\ m.page_classes[p] = k
      /\ \A q \in F \ {p} : u.entry[q] = m.entry[q] /\ u.page_classes[q] = m.page_classes[q]
      /\ \A y \in UnitsUsed(m, F) : u.desc[y] = m.desc[y]
      /\ \A i \in Class \ {0} : u.classes[i] = m.classes[i]
  BY DEF Prepared
<1>3. SmallestBut(m, F, {}) /\ SmallestBut(u, H, {})
  BY <1>1, <1>2 DEF Smallest
<1>4. d \in Addr /\ d # 0 /\ \A q \in Page : d # PageAddr(q)
  BY <1>2, <1>3, UnitFacts
<1>5. d # BUSY /\ d # MULTI /\ d # FREE
  BY <1>4, PageOfFacts DEF BUSY, MULTI, FREE
<1>6. DescribedAs(u, p, k, d, bs, v)
  BY <1>2, <1>4, DescribedIs
<1>7. /\ v \in State /\ v.hit = m.hit /\ v.lost = m.lost
      /\ v.entry[p] = d /\ \A q \in Page \ {p} : v.entry[q] = u.entry[q]
      /\ v.page_classes[p] = k /\ \A q \in Page \ {p} : v.page_classes[q] = u.page_classes[q]
      /\ v.classes[k] = Append(u.classes[k], d)
      /\ \A i \in Class \ {k} : v.classes[i] = u.classes[i]
      /\ v.desc[d] = [index |-> p, class |-> k, count |-> Cardinality(bs), block |-> bs]
      /\ \A y \in Addr \ {d} : v.desc[y] = u.desc[y]
  BY <1>2, <1>4, <1>6 DEF DescribedAs, State
<1>8. Smallest(v, H) /\ UnitsUsed(v, H) = UnitsUsed(m, F) \cup {d}
  <2>1. H \in SUBSET Page /\ 0 \in H /\ \A q \in H : u.entry[q] # FREE
    BY <1>3 DEF SmallestBut
  <2>2. \A q \in H : v.entry[q] # FREE
    BY <2>1, <1>5, <1>7
  <2>3. \A q \in Page : v.desc[PageAddr(q)] = u.desc[PageAddr(q)]
    BY <1>4, <1>7, PageAddrFacts
  <2>4. Elsewhere(u, v, H, H)
    BY <2>1, <2>2, <2>3, <1>2, <1>7, SmallestClass DEF Elsewhere
  <2> QED BY <2>4, <1>2, <1>7, SmallestElsewhere
<1>9. F \in SUBSET Page /\ G \in SUBSET F
  BY <1>1 DEF Pages
<1>10. \A q \in F \ {p} : m.entry[q] \in Addr => m.entry[q] \in UnitsUsed(m, F)
  <2> SUFFICES ASSUME NEW q \in F \ {p}, m.entry[q] \in Addr
               PROVE  m.entry[q] \in UnitsUsed(m, F)
    OBVIOUS
  <2>1. m.entry[q] # BUSY /\ m.entry[q] # MULTI
    BY PageOfFacts DEF BUSY, MULTI
  <2>2. q \in G
    BY <2>1, <1>1 DEF Pages
  <2> QED BY <2>1, <2>2, <1>1, LargerFacts
<1>11. Kept(m, v, F \ {p})
  <2>1. \A q \in F \ {p} : m.entry[q] \in Addr => v.desc[m.entry[q]] = m.desc[m.entry[q]]
    BY <1>2, <1>7, <1>10
  <2> QED BY <2>1, <1>2, <1>7, <1>9 DEF Kept
<1>12. RoomsBut(m, v, G, G \cup {p}, p, k)
  <2>1. But(G, G \cup {p}, {p})
    BY DEF But
  <2> QED BY <2>1, <1>1, <1>2, <1>7, <1>11, RoomsOver
<1>13. ~ (p \in G /\ m.entry[p] # BUSY)
  BY <1>2
<1>14. /\ \A i \in Class \ {0, k} : Rooms(v, G \cup {p}, i) = Rooms(m, G, i)
       /\ Rooms(v, G \cup {p}, k) = Rooms(m, G, k) \cup {d}
       /\ Descs(v, G \cup {p}) = Descs(m, G) \cup {d}
  BY <1>5, <1>7, <1>12, <1>13 DEF RoomsBut
<1>15. \A q \in G : m.entry[q] # BUSY => m.entry[q] \in UnitsUsed(m, F)
  BY <1>1, LargerFacts
<1>16. d \notin Descs(m, G) /\ d \notin Rooms(m, G, k)
  BY <1>2, <1>15 DEF Descs, Rooms
<1>17. Lists(v, G \cup {p})
  <2>1. IsList(v.classes[k], Rooms(v, G \cup {p}, k))
    <3>1. IsList(m.classes[k], Rooms(m, G, k))
      BY <1>1, <1>2 DEF Lists
    <3>2. IsList(Append(m.classes[k], d), Rooms(m, G, k) \cup {d})
      BY <3>1, <1>4, <1>16, ListAppend
    <3> QED BY <3>2, <1>2, <1>7, <1>14
  <2>2. \A i \in Class \ {0, k} : IsList(v.classes[i], Rooms(v, G \cup {p}, i))
    BY <1>1, <1>2, <1>7, <1>14 DEF Lists
  <2> QED BY <2>1, <2>2 DEF Lists
<1>18. Larger1(v, p, H)
  <2>1. Describes(v, p, k)
    BY <1>7 DEF Describes
  <2> QED BY <2>1, <1>2, <1>7, <1>8 DEF Larger1
<1>19. FreeOf(v, p) = bs
  BY <1>5, <1>7 DEF FreeOf
<1>20. UsedOf(v, p) = Blocks(p, k) \ bs
  BY <1>5, <1>7, <1>19 DEF UsedOf
<1> QED BY <1>2, <1>5, <1>7, <1>8, <1>11, <1>14, <1>15, <1>16, <1>17, <1>18, <1>19, <1>20
        DEF Redescribed

(* A free page that is marked BUSY, for a larger class: the smallest class *)
(* is as it was.                                                           *)
MarkedBusy(m, t, F, p) ==
  /\ t \in State /\ t.entry = [m.entry EXCEPT ![p] = BUSY] /\ t.page_classes = m.page_classes
  /\ t.classes = m.classes /\ t.desc = m.desc /\ t.hit = m.hit
  /\ p \in Page \ {0} /\ p \notin F /\ m.entry[p] = FREE /\ m.page_classes[p] = 0
  /\ t.entry[p] = BUSY /\ \A q \in Page \ {p} : t.entry[q] = m.entry[q]
  /\ Smallest(t, F \cup {p}) /\ UnitsUsed(t, F \cup {p}) = UnitsUsed(m, F)

(* The page alloc_page has chosen leaves the smallest class.               *)
LEMMA MarkingBusy ==
  ASSUME NEW m \in State, NEW F, Smallest(m, F), FreePages(m) # {}, NEW p, p = FirstFree(m),
         NEW t \in State, t.entry = [m.entry EXCEPT ![p] = BUSY],
         t.page_classes = m.page_classes, t.classes = m.classes, t.desc = m.desc, t.hit = m.hit
  PROVE  MarkedBusy(m, t, F, p)
<1>1. SmallestBut(m, F, {})
  BY DEF Smallest
<1>2. p \in Page /\ m.entry[p] = FREE
  BY FirstFreeFacts
<1>3. F \in SUBSET Page /\ 0 \in F /\ (\A q \in F : m.entry[q] # FREE) /\ p \notin F /\ p # 0
  BY <1>1, <1>2 DEF SmallestBut
<1>4. m.page_classes[p] = 0
  BY <1>1, <1>2, <1>3 DEF SmallestBut, Small0
<1>5. t.entry[p] = BUSY /\ \A q \in Page \ {p} : t.entry[q] = m.entry[q]
  BY <1>2 DEF State
<1>6. Elsewhere(m, t, F, F \cup {p})
  <2>1. \A q \in F \cup {p} : t.entry[q] # FREE
    BY <1>3, <1>5 DEF BUSY, FREE
  <2> QED BY <2>1, <1>2, <1>3, <1>5 DEF Elsewhere
<1>7. Smallest(t, F \cup {p}) /\ UnitsUsed(t, F \cup {p}) = UnitsUsed(m, F)
  BY <1>6, SmallestElsewhere
<1> QED BY <1>2, <1>3, <1>4, <1>5, <1>7 DEF MarkedBusy

(* alloc_page without a descriptor: a page is lost.                        *)
LEMMA PageIsLost ==
  ASSUME NEW m, NEW L, NEW F, NEW G, InvOf(m, L, F, G), FreePages(m) # {},
         NEW p, p = FirstFree(m), NEW s, s = LostPage([m EXCEPT !.entry[p] = BUSY], p)
  PROVE  InvOf(s, L, F \cup {p}, G)
<1>1. /\ m \in State /\ Smallest(m, F) /\ Pages(m, F, G) /\ Owned(m, L, F, G)
      /\ Lists(m, G) /\ m.hit = {} /\ NoneWhole(m, G) /\ L \in SUBSET Asked
      /\ Wholes(m, Big(L))
  BY DEF InvOf, Sound
<1>2. p \in Page
  BY FirstFreeFacts
<1>3. /\ s \in State /\ s.entry = [m.entry EXCEPT ![p] = BUSY]
      /\ s.page_classes = m.page_classes /\ s.classes = m.classes /\ s.desc = m.desc
      /\ s.hit = m.hit /\ s.lost = m.lost \cup {WholePage(p)}
  <2>1. WholePage(p) \in Block
    BY <1>2, PageAddrFacts, UnitsOfAPage DEF WholePage, Block
  <2>2. s = [m EXCEPT !.entry[p] = BUSY, !.lost = m.lost \cup {WholePage(p)}]
    BY <1>1 DEF LostPage, WholePage, State
  <2>3. /\ [m.entry EXCEPT ![p] = BUSY] \in [Page -> {MULTI, BUSY} \cup Addr]
        /\ m.lost \cup {WholePage(p)} \in SUBSET Block
    BY <2>1, <1>1 DEF State
  <2> QED BY <2>2, <2>3, <1>1 DEF State
<1>4. MarkedBusy(m, s, F, p)
  BY <1>1, <1>3, MarkingBusy
<1>5. /\ p \in Page \ {0} /\ p \notin F /\ m.entry[p] = FREE /\ m.page_classes[p] = 0
      /\ s.entry[p] = BUSY /\ \A q \in Page \ {p} : s.entry[q] = m.entry[q]
      /\ Smallest(s, F \cup {p}) /\ UnitsUsed(s, F \cup {p}) = UnitsUsed(m, F)
  BY <1>4 DEF MarkedBusy
<1>6. /\ F \in SUBSET Page /\ G \in SUBSET (F \ {0})
      /\ \A q \in Page : q \in F \ G <=> q = 0 \/ m.entry[q] = MULTI \/ WholePage(q) \in m.lost
      /\ \A q \in F \ G : m.entry[q] # MULTI => m.entry[q] = BUSY /\ m.page_classes[q] = 0
  BY <1>1 DEF Pages
<1>7. Kept(m, s, F)
  BY <1>3, <1>5, <1>6 DEF Kept
<1>8. ASSUME NEW q \in G
      PROVE  Larger1(s, q, F \cup {p}) /\ UsedIn(s, q) = UsedIn(m, q) /\ FreeOf(s, q) = FreeOf(m, q)
             /\ s.entry[q] = m.entry[q] /\ s.page_classes[q] = m.page_classes[q]
  <2>1. m.entry[q] # BUSY => m.entry[q] \in UnitsUsed(s, F \cup {p})
    BY <1>1, <1>5, LargerFacts
  <2>2. q \in F
    BY <1>6
  <2> QED BY <2>1, <2>2, <1>1, <1>3, <1>7, KeptPage
<1>9. \A q \in Page : WholePage(q) \in s.lost <=> q = p \/ WholePage(q) \in m.lost
  BY <1>2, <1>3, PageAddrFacts DEF WholePage
<1>10. \A q \in Page : s.entry[q] = MULTI <=> m.entry[q] = MULTI
  BY <1>5 DEF MULTI, FREE, BUSY
<1>11. Pages(s, F \cup {p}, G)
  <2>1. \A q \in Page : q \in (F \cup {p}) \ G <=>
                        q = 0 \/ s.entry[q] = MULTI \/ WholePage(q) \in s.lost
    BY <1>5, <1>6, <1>9, <1>10
  <2>2. \A q \in (F \cup {p}) \ G : s.entry[q] # MULTI => s.entry[q] = BUSY /\ s.page_classes[q] = 0
    BY <1>3, <1>5, <1>6
  <2>3. \A q \in Page : WholePage(q) \in s.lost => s.entry[q] # MULTI
    <3>1. m.entry[p] # MULTI
      BY <1>5 DEF FREE, MULTI
    <3> QED BY <3>1, <1>1, <1>9, <1>10 DEF Pages
  <2> QED BY <2>1, <2>2, <2>3, <1>5, <1>6, <1>8 DEF Pages
<1>12. Descs(s, G) = Descs(m, G) /\ \A k \in Class : Rooms(s, G, k) = Rooms(m, G, k)
  BY <1>8 DEF Descs, Rooms
<1>13. Lists(s, G)
  BY <1>1, <1>3, <1>12 DEF Lists
<1>14. Owned(s, L, F \cup {p}, G)
  <2>1. LostBlocks(s) = LostBlocks(m)
    BY <1>2, <1>3 DEF LostBlocks
  <2>2. UsedLarger(s, G) = UsedLarger(m, G)
    BY <1>8 DEF UsedLarger
  <2> QED BY <2>1, <2>2, <1>1, <1>5, <1>12 DEF Owned
<1>15. Wholes(s, Big(L))
  <2>1. \A q \in Page : m.entry[q] = MULTI => s.page_classes[q] = m.page_classes[q]
    BY <1>3
  <2> QED BY <2>1, <1>1, <1>10, WholesKept
<1>16. NoneWhole(s, G)
  BY <1>1, <1>8 DEF NoneWhole
<1> QED BY <1>1, <1>3, <1>5, <1>11, <1>13, <1>14, <1>15, <1>16 DEF InvOf, Sound

(* alloc_page, and the block taken from the new page.                      *)
LEMMA AllocInNewPage ==
  ASSUME NEW m, NEW L, NEW F, NEW G, InvOf(m, L, F, G), NEW k \in Requests, k \in Class \ {0},
         m.classes[k] = <<>>, FreePages(m) # {}, ~ Wide, NEW x \in NewPage(m, k)
  PROVE  Allocates(L, k, x)
<1>1. /\ m \in State /\ Smallest(m, F) /\ Pages(m, F, G) /\ Owned(m, L, F, G)
      /\ Lists(m, G) /\ m.hit = {} /\ NoneWhole(m, G) /\ L \in SUBSET Asked
      /\ Sound(m, L, F, G)
  BY DEF InvOf, Sound
<1>2. PICK p, t : p = FirstFree(m) /\ t = [m EXCEPT !.entry[p] = BUSY]
  OBVIOUS
<1>3. p \in Page
  BY <1>2, FirstFreeFacts
<1>4. PICK y \in MemAlloc0(t) :
        x \in IF y.ret = NULL THEN Fail(LostPage(y.m, p))
              ELSE Take(Described(y.m, p, k, y.ret, Blocks(p, k)), k)
  BY <1>2 DEF NewPage
<1>5. /\ t \in State /\ t.entry = [m.entry EXCEPT ![p] = BUSY]
      /\ t.page_classes = m.page_classes /\ t.classes = m.classes /\ t.desc = m.desc
      /\ t.hit = m.hit /\ t.lost = m.lost
  BY <1>1, <1>2, <1>3 DEF State
<1>6. MarkedBusy(m, t, F, p)
  BY <1>1, <1>2, <1>5, MarkingBusy
<1>7. PICK H : H = F \cup {p}
  OBVIOUS
<1>8. /\ p \in Page \ {0} /\ p \notin F /\ m.entry[p] = FREE /\ m.page_classes[p] = 0
      /\ \A q \in Page \ {p} : t.entry[q] = m.entry[q]
      /\ Smallest(t, H) /\ UnitsUsed(t, H) = UnitsUsed(m, F)
  BY <1>6, <1>7 DEF MarkedBusy
<1>9. F \in SUBSET Page /\ G \in SUBSET (F \ {0}) /\ H \in SUBSET Page
  BY <1>1, <1>3, <1>7 DEF Pages
<1>10. CASE y.ret = NULL /\ y.m = t
  <2>1. x.ret = NULL /\ x.m = LostPage([m EXCEPT !.entry[p] = BUSY], p)
    BY <1>2, <1>4, <1>10 DEF Fail
  <2>2. InvOf(x.m, L, H, G)
    BY <2>1, <1>2, <1>7, PageIsLost
  <2> QED BY <2>1, <2>2, <1>9 DEF Allocates, Holds
<1>11. CASE y.ret # NULL /\ Allocated0(t, H, y.m, y.ret)
  <2>1. PICK u, d : u = y.m /\ d = y.ret
    OBVIOUS
  <2>2. /\ u \in State /\ Smallest(u, H) /\ Same(t, u, H)
        /\ d \notin UnitsUsed(t, H) /\ UnitsUsed(u, H) = UnitsUsed(t, H) \cup {d}
    BY <2>1, <1>11 DEF Allocated0
  <2>3. /\ \A q \in H : u.entry[q] = t.entry[q] /\ u.page_classes[q] = t.page_classes[q]
        /\ \A i \in Class \ {0} : u.classes[i] = t.classes[i]
        /\ u.lost = t.lost /\ u.hit = t.hit
        /\ \A z \in UnitsUsed(t, H) \cap UnitsUsed(u, H) : u.desc[z] = t.desc[z]
    BY <2>2 DEF Same
  <2>4. Prepared(m, u, F, G, H, p, k, d)
    <3>1. p \in H /\ But(F, H, {p}) /\ p \notin G
      BY <1>7, <1>8, <1>9 DEF But
    <3>2. \A q \in F \ {p} : u.entry[q] = m.entry[q] /\ u.page_classes[q] = m.page_classes[q]
      BY <2>3, <1>5, <1>7, <1>8, <1>9
    <3>3. \A z \in UnitsUsed(m, F) : u.desc[z] = m.desc[z]
      BY <2>2, <2>3, <1>5, <1>8
    <3> QED BY <3>1, <3>2, <3>3, <2>2, <2>3, <1>5, <1>8 DEF Prepared
  <2>5. PICK v : v = Described(u, p, k, d, Blocks(p, k))
    OBVIOUS
  <2>6. Blocks(p, k) # {}
    <3>1. MaxBlocks(k) >= 3 /\ MaxBlocks(k) \in Nat /\ k \in Class
      BY BlocksOfAClass
    <3>2. Cardinality(Blocks(p, k)) = MaxBlocks(k) - (IF k = 0 THEN 1 ELSE 0)
      BY <3>1, <1>3, BlockCount
    <3>3. Cardinality({}) = 0
      BY FS_EmptySet
    <3>4. Cardinality(Blocks(p, k)) # 0
      BY <3>1, <3>2
    <3> QED BY <3>3, <3>4
  <2>7. PICK I : I = G \cup {p}
    OBVIOUS
  <2>8. Redescribed(m, v, F, G, H, p, k, d, Blocks(p, k))
    BY <2>4, <2>5, <2>6, <1>1, DescriptorWritten
  <2>9. /\ v \in State /\ v.hit = {} /\ v.lost = m.lost
        /\ Smallest(v, H) /\ UnitsUsed(v, H) = UnitsUsed(m, F) \cup {d}
        /\ Kept(m, v, F \ {p}) /\ Lists(v, I)
        /\ v.entry[p] = d /\ d # BUSY /\ d # MULTI /\ v.page_classes[p] = k /\ Larger1(v, p, H)
        /\ d \notin Descs(m, G) /\ Descs(v, I) = Descs(m, G) \cup {d}
        /\ UsedOf(v, p) = {}
        /\ v.classes[k] = Append(m.classes[k], d)
        /\ \A q \in G \ {p} : m.entry[q] # BUSY => m.entry[q] \in UnitsUsed(v, H)
    BY <2>7, <2>8, <1>1 DEF Redescribed
  <2>10. PagesMoved(m, v, F, G, H, I, {p})
    <3>1. /\ I \in SUBSET (H \ {0}) /\ But(F, H, {p}) /\ But(G, I, {p})
          /\ p \notin F /\ p \notin G /\ p \in H /\ p \in I
      BY <2>7, <1>7, <1>8, <1>9 DEF But
    <3> QED BY <3>1, <2>9, <1>8, <1>9 DEF PagesMoved
  <2>11. BlocksMoved(m, v, L, L, G, I, {p})
    <3>1. UsedIn(v, p) = {}
      BY <2>9 DEF UsedIn
    <3>2. UsedLarger(v, I \cap {p}) = {} /\ UsedLarger(m, G \cap {p}) = {}
      BY <3>1, <2>7, <1>8, <1>9, UsedOne
    <3> QED BY <3>2, <1>1 DEF BlocksMoved, Owned
  <2>12. Tiny(L) = UnitsUsed(v, H) \ Descs(v, I)
    BY <2>2, <2>9, <1>1, <1>8 DEF Owned
  <2>13. SoundAfter(m, v, L, G, H, I, {p})
    BY <2>9, <2>10, <2>11, <2>12, <1>1, StepIsSound
  <2>14. Sound(v, L, H, I) /\ NoneWhole(v, I \ {p})
    BY <2>13, <1>1 DEF SoundAfter, NoneWhole
  <2>15. v.classes[k] # <<>> /\ Head(v.classes[k]) = d
    BY <2>9
  <2>16. x \in Take(v, k)
    BY <2>1, <2>5, <1>4, <1>11
  <2>17. p \in I /\ v.page_classes[p] = k /\ v.entry[p] = Head(v.classes[k]) /\ v.entry[p] # BUSY
    BY <2>7, <2>9, <2>15
  <2> QED BY <2>14, <2>15, <2>16, <2>17, TakeMid
<1> QED BY <1>4, <1>5, <1>8, <1>10, <1>11, MemAlloc0Keeps

-----------------------------------------------------------------------------
(* mem_free in the larger classes.                                         *)

(* Where an owner's block of a larger class lies.                          *)
OwnedAt(m, b, G, p, k, a) ==
  /\ p \in G /\ p \in Page \ {0} /\ k \in Class \ {0} /\ m.page_classes[p] = k /\ PageOf(a) = p
  /\ a = b.addr /\ a \in Addr /\ b = Extent(a, k) /\ b \in Block
  /\ a \in Blocks(p, k) /\ a \notin FreeOf(m, p) /\ b \in UsedIn(m, p)
  /\ \A q \in Page : b # WholePage(q)

(* It lies in a page of its class, and is not free there.                  *)
LEMMA MidOwner ==
  ASSUME NEW m, NEW L, NEW F, NEW G, Sound(m, L, F, G), NEW b \in L,
         b.size > 1, 2 * b.size < PageUnits
  PROVE  OwnedAt(m, b, G, PageOf(b.addr), m.page_classes[PageOf(b.addr)], b.addr)
<1>1. m \in State /\ Smallest(m, F) /\ Pages(m, F, G) /\ Owned(m, L, F, G)
  BY DEF Sound
<1>2. b \in UsedLarger(m, G)
  BY <1>1 DEF Owned, Mid
<1>3. PICK p \in G : b \in UsedIn(m, p)
  BY <1>2 DEF UsedLarger
<1>4. PICK k, a : k = m.page_classes[p] /\ a = b.addr
  OBVIOUS
<1>5. /\ p \in Page \ {0} /\ k \in Class \ {0}
  BY <1>1, <1>4, LargerFacts
<1>6. /\ a \in Addr /\ PageOf(a) = p /\ b \in Block
      /\ a \in Blocks(p, k) /\ a \notin FreeOf(m, p) /\ b = Extent(a, k)
      /\ \A q \in Page : b # WholePage(q)
  BY <1>1, <1>3, <1>4, UsedInFacts
<1> QED BY <1>3, <1>4, <1>5, <1>6 DEF OwnedAt

WithLost(m, b) == [m EXCEPT !.lost = @ \cup {b}]
(* A block of a full page without a descriptor: the block is lost.         *)
LEMMA BlockIsLost ==
  ASSUME NEW m, NEW L, NEW F, NEW G, InvOf(m, L, F, G), NEW b \in L,
         b.size > 1, 2 * b.size < PageUnits, NEW s, s = WithLost(m, b)
  PROVE  InvOf(s, L \ {b}, F, G)
<1>1. /\ m \in State /\ Smallest(m, F) /\ Pages(m, F, G) /\ Owned(m, L, F, G)
      /\ Lists(m, G) /\ m.hit = {} /\ NoneWhole(m, G) /\ L \in SUBSET Asked
      /\ Wholes(m, Big(L)) /\ Sound(m, L, F, G)
  BY DEF InvOf, Sound
<1>2. b \in Block /\ \A q \in Page : b # WholePage(q)
  BY <1>1, MidOwner DEF OwnedAt
<1>3. /\ s \in State /\ s.entry = m.entry /\ s.page_classes = m.page_classes
      /\ s.classes = m.classes /\ s.desc = m.desc /\ s.hit = m.hit
      /\ s.lost = m.lost \cup {b}
  <2>1. m.lost \cup {b} \in SUBSET Block
    BY <1>1, <1>2 DEF State
  <2> QED BY <2>1, <1>1 DEF State, WithLost
<1>4. Smallest(s, F) /\ UnitsUsed(s, F) = UnitsUsed(m, F)
  BY <1>1, <1>3, OneDescriptor
<1>5. /\ \A q \in Page : FreeOf(s, q) = FreeOf(m, q) /\ UsedOf(s, q) = UsedOf(m, q)
      /\ UsedLarger(s, G) = UsedLarger(m, G) /\ Descs(s, G) = Descs(m, G)
      /\ \A k \in Class : Rooms(s, G, k) = Rooms(m, G, k)
  <2>1. \A q \in Page : FreeOf(s, q) = FreeOf(m, q)
    BY <1>3 DEF FreeOf
  <2>2. \A q \in Page : UsedOf(s, q) = UsedOf(m, q)
    BY <2>1, <1>3 DEF UsedOf
  <2>3. \A q \in G : UsedIn(s, q) = UsedIn(m, q)
    BY <2>2, <1>1, <1>3 DEF UsedIn, Pages
  <2>4. UsedLarger(s, G) = UsedLarger(m, G)
    BY <2>3 DEF UsedLarger
  <2>5. Descs(s, G) = Descs(m, G) /\ \A k \in Class : Rooms(s, G, k) = Rooms(m, G, k)
    BY <1>3 DEF Descs, Rooms
  <2> QED BY <2>1, <2>2, <2>4, <2>5
<1>6. Pages(s, F, G)
  <2>1. \A q \in Page : WholePage(q) \in s.lost <=> WholePage(q) \in m.lost
    BY <1>2, <1>3
  <2>2. \A q \in G : Larger1(s, q, F)
    BY <1>1, <1>3, <1>4 DEF Larger1, Describes, Pages
  <2> QED BY <2>1, <2>2, <1>1, <1>3 DEF Pages
<1>7. Shares(L \ {b}, Tiny(L), Mid(L) \ {b}, Big(L))
  BY <1>1, BlockLess
<1>8. Owned(s, L \ {b}, F, G)
  <2>1. LostBlocks(s) = LostBlocks(m) \cup {b}
    BY <1>2, <1>3 DEF LostBlocks
  <2>2. b \in Mid(L)
    BY DEF Mid
  <2> QED BY <2>1, <2>2, <1>1, <1>4, <1>5, <1>7 DEF Owned, Shares
<1>9. Lists(s, G) /\ NoneWhole(s, G)
  <2>1. G \in SUBSET Page
    BY <1>1 DEF Pages
  <2> QED BY <2>1, <1>1, <1>3, <1>5 DEF Lists, NoneWhole
<1>10. Wholes(s, Big(L \ {b}))
  <2>1. Big(L \ {b}) = Big(L)
    BY <1>7 DEF Shares
  <2>2. /\ \A q \in Page : s.entry[q] = MULTI <=> m.entry[q] = MULTI
        /\ \A q \in Page : m.entry[q] = MULTI => s.page_classes[q] = m.page_classes[q]
    BY <1>3
  <2>3. Wholes(s, Big(L))
    BY <2>2, <1>1, WholesKept
  <2> QED BY <2>1, <2>3
<1> QED BY <1>1, <1>3, <1>4, <1>6, <1>8, <1>9, <1>10 DEF InvOf, Sound

(* mem_free of a block of a full page.                                     *)
LEMMA FreeOfFullPage ==
  ASSUME NEW m, NEW L, NEW F, NEW G, InvOf(m, L, F, G), NEW b \in L,
         b.size > 1, 2 * b.size < PageUnits, m.entry[PageOf(b.addr)] = BUSY,
         NEW x \in FreeBusy(m, PageOf(b.addr), b.addr)
  PROVE  InvOf(x, L \ {b}, F, G)
<1>1. /\ m \in State /\ Smallest(m, F) /\ Pages(m, F, G) /\ Owned(m, L, F, G)
      /\ Sound(m, L, F, G) /\ m.hit = {}
  BY DEF InvOf, Sound
<1>2. PICK p, k, a : p = PageOf(b.addr) /\ k = m.page_classes[p] /\ a = b.addr
  OBVIOUS
<1>3. OwnedAt(m, b, G, p, k, a)
  BY <1>1, <1>2, MidOwner
<1>4. /\ p \in G /\ p \in Page \ {0} /\ k \in Class \ {0} /\ b = Extent(a, k)
      /\ a \in Blocks(p, k) /\ m.entry[p] = BUSY /\ p \in F
  BY <1>1, <1>2, <1>3 DEF OwnedAt, Pages
<1>5. PICK y \in MemAlloc0(m) :
        x = IF y.ret = NULL THEN [y.m EXCEPT !.lost = @ \cup {b}]
            ELSE Described(y.m, p, k, y.ret, {a})
  BY <1>2, <1>4 DEF FreeBusy
<1>6. CASE y.ret = NULL /\ y.m = m
  <2>1. x = WithLost(m, b)
    BY <1>5, <1>6 DEF WithLost
  <2> QED BY <2>1, BlockIsLost
<1>7. CASE y.ret # NULL /\ Allocated0(m, F, y.m, y.ret)
  <2>1. PICK u, d : u = y.m /\ d = y.ret
    OBVIOUS
  <2>2. /\ u \in State /\ Smallest(u, F) /\ Same(m, u, F)
        /\ d \notin UnitsUsed(m, F) /\ UnitsUsed(u, F) = UnitsUsed(m, F) \cup {d}
    BY <2>1, <1>7 DEF Allocated0
  <2>3. Prepared(m, u, F, G, F, p, k, d)
    <3>1. \A z \in UnitsUsed(m, F) : u.desc[z] = m.desc[z]
      BY <2>2 DEF Same
    <3> QED BY <3>1, <2>2, <1>2, <1>4 DEF Prepared, Same, But
  <2>4. x = Described(u, p, k, d, {a})
    BY <2>1, <1>5, <1>7
  <2>5. Redescribed(m, x, F, G, F, p, k, d, {a})
    <3>1. {a} \in SUBSET Blocks(p, k) /\ {a} # {}
      BY <1>4
    <3> QED BY <3>1, <2>3, <2>4, <1>1, DescriptorWritten
  <2>6. G \cup {p} = G
    BY <1>4
  <2>7. FreeOf(x, p) = {a} /\ UsedOf(x, p) = Blocks(p, k) \ {a}
    BY <2>5 DEF Redescribed
  <2>8. UsedOf(x, p) = UsedOf(m, p) \ {a}
    <3>1. UsedOf(m, p) = Blocks(p, k)
      <4>1. FreeOf(m, p) = {} /\ m.entry[p] # FREE
        BY <1>4 DEF FreeOf, BUSY, FREE
      <4> QED BY <4>1, <1>2 DEF UsedOf
    <3> QED BY <3>1, <2>7
  <2>9. PageStep(m, x, F, G, p, k)
    <3>1. FreeOf(x, p) # Blocks(p, k)
      <4>1. {a} # Blocks(p, k)
        BY <1>4, OneIsNotAll
      <4> QED BY <4>1, <2>7
    <3>2. UnitsUsed(x, F) \ Descs(x, G) = UnitsUsed(m, F) \ Descs(m, G)
      BY <2>2, <2>5, <2>6 DEF Redescribed
    <3> QED BY <3>1, <3>2, <2>5, <2>6, <1>1 DEF PageStep, Redescribed
  <2>10. Extent(a, k) \in L /\ m.page_classes[p] = k
    BY <1>2, <1>4
  <2>11. InvOf(x, L \ {Extent(a, k)}, F, G)
    BY <2>8, <2>9, <2>10, <1>4, PageGave
  <2> QED BY <2>11, <1>4
<1> QED BY <1>1, <1>6, <1>7, MemAlloc0Keeps

(* A block put to the free blocks of a page of a larger class.             *)
PutBack(m, t, F, G, p, k, d, a) ==
  /\ t \in State
  /\ t.entry = m.entry /\ t.page_classes = m.page_classes /\ t.classes = m.classes
  /\ t.lost = m.lost /\ t.hit = m.hit
  /\ t.desc[d].index = p /\ t.desc[d].class = k
  /\ t.desc[d].block = m.desc[d].block \cup {a}
  /\ t.desc[d].count = Cardinality(m.desc[d].block \cup {a})
  /\ m.desc[d].block \cup {a} \in SUBSET Blocks(p, k)
  /\ \A x \in UnitsUsed(m, F) \ {d} : t.desc[x] = m.desc[x]
  /\ Smallest(t, F) /\ UnitsUsed(t, F) = UnitsUsed(m, F)

(* That is what Push does to such a page.                                  *)
LEMMA PushLarger ==
  ASSUME NEW m \in State, NEW F, NEW G, Smallest(m, F), NEW p, NEW k, NEW d,
         DescribedPage(m, F, G, p, k, d),
         NEW a \in Blocks(p, k), a \notin FreeOf(m, p), NEW t, t = Push(m, d, a)
  PROVE  PutBack(m, t, F, G, p, k, d, a)
<1>1. SmallestBut(m, F, {})
  BY DEF Smallest
<1>2. /\ p \in Page /\ k \in Class /\ p \in F /\ d \in Addr /\ d \in UnitsUsed(m, F)
      /\ m.desc[d].index = p /\ m.desc[d].class = k
      /\ m.desc[d].block \in SUBSET Blocks(p, k) /\ FreeOf(m, p) = m.desc[d].block
      /\ m.desc[d].count = Cardinality(m.desc[d].block) /\ \A q \in Page : d # PageAddr(q)
  BY DEF DescribedPage
<1>3. a \in Addr /\ PageOf(a) = p
  BY <1>2, BlockFacts
<1>4. \A y \in UnitsUsed(m, F) : y \in Addr /\ y # a
  BY <1>1, <1>2, <1>3, UnitFacts
<1>5. \A q \in Page \ F : PageAddr(q) # a
  BY <1>2, <1>3, PageAddrFacts
<1>6. PICK bs : bs = m.desc[d].block
  OBVIOUS
<1>7. PICK cs : cs = bs \cup {a}
  OBVIOUS
<1>8. Cardinality(cs) = m.desc[d].count + 1 /\ cs \in SUBSET Blocks(p, k)
  <2>1. bs \in SUBSET Blocks(p, k) /\ a \notin bs
    BY <1>2, <1>6
  <2>2. Cardinality(bs \cup {a}) = Cardinality(bs) + 1
    BY <2>1, <1>2, FreeSetFacts
  <2> QED BY <2>1, <2>2, <1>2, <1>6, <1>7
<1>9. Cardinality(cs) \in 0 .. PageUnits
  BY <1>2, <1>8, CountFits
<1>10. Pushed(m, d, a, t)
  <2>1. m.desc[d].count + 1 <= PageUnits /\ a # d
    BY <1>2, <1>4, <1>8, <1>9, UnitsOfAPage
  <2> QED BY <2>1, <1>2, <1>3, PushIs
<1>11. /\ t \in State
       /\ t.entry = m.entry /\ t.page_classes = m.page_classes /\ t.classes = m.classes
       /\ t.lost = m.lost /\ t.hit = m.hit
       /\ t.desc[d].index = p /\ t.desc[d].class = k
       /\ t.desc[d].block = cs /\ t.desc[d].count = Cardinality(cs)
       /\ \A x \in Addr : x # d /\ x # a => t.desc[x] = m.desc[x]
  BY <1>2, <1>6, <1>7, <1>8, <1>10 DEF Pushed
<1>12. Smallest(t, F) /\ UnitsUsed(t, F) = UnitsUsed(m, F)
  <2>1. \A q \in Page \ F : t.desc[PageAddr(q)] = m.desc[PageAddr(q)]
    BY <1>2, <1>5, <1>11, PageAddrFacts
  <2> QED BY <2>1, <1>11, OneDescriptor
<1> QED BY <1>4, <1>6, <1>7, <1>8, <1>11, <1>12 DEF PutBack

(* mem_free of a block of a page that still has blocks in use then.        *)
LEMMA FreeOfListedPage ==
  ASSUME NEW m, NEW L, NEW F, NEW G, InvOf(m, L, F, G), NEW p \in G, NEW k, NEW d, NEW a,
         m.page_classes[p] = k, m.entry[p] = d, d # BUSY,
         a \in Blocks(p, k), a \notin FreeOf(m, p), Extent(a, k) \in L,
         NEW t, t = Push(m, d, a), t.desc[d].count < MaxBlocks(k)
  PROVE  InvOf(t, L \ {Extent(a, k)}, F, G)
<1>1. /\ m \in State /\ Smallest(m, F) /\ Pages(m, F, G) /\ Lists(m, G)
      /\ Sound(m, L, F, G) /\ m.hit = {}
  BY DEF InvOf, Sound
<1>2. DescribedPage(m, F, G, p, k, d)
  BY <1>1, DescribedPageFacts
<1>3. PutBack(m, t, F, G, p, k, d, a)
  BY <1>1, <1>2, PushLarger
<1>4. /\ p \in Page \ {0} /\ p \in F /\ k \in Class \ {0} /\ d \in Addr /\ d \in UnitsUsed(m, F)
      /\ FreeOf(m, p) = m.desc[d].block /\ UsedOf(m, p) = Blocks(p, k) \ m.desc[d].block
      /\ \A q \in G \ {p} : m.entry[q] # BUSY => m.entry[q] # d /\ m.entry[q] \in UnitsUsed(m, F)
      /\ \A q \in F \ {p} : m.entry[q] \in Addr => m.entry[q] # d /\ m.entry[q] \in UnitsUsed(m, F)
  BY <1>2 DEF DescribedPage
<1>5. /\ t \in State
      /\ t.entry = m.entry /\ t.page_classes = m.page_classes /\ t.classes = m.classes
      /\ t.lost = m.lost /\ t.hit = {}
      /\ t.desc[d].index = p /\ t.desc[d].class = k
      /\ t.desc[d].block = m.desc[d].block \cup {a}
      /\ t.desc[d].count = Cardinality(m.desc[d].block \cup {a})
      /\ m.desc[d].block \cup {a} \in SUBSET Blocks(p, k)
      /\ \A x \in UnitsUsed(m, F) \ {d} : t.desc[x] = m.desc[x]
      /\ Smallest(t, F) /\ UnitsUsed(t, F) = UnitsUsed(m, F)
  BY <1>1, <1>3 DEF PutBack
<1>6. Kept(m, t, F \ {p})
  BY <1>4, <1>5 DEF Kept
<1>7. Descs(t, G) = Descs(m, G) /\ \A i \in Class : Rooms(t, G, i) = Rooms(m, G, i)
  BY <1>5 DEF Descs, Rooms
<1>8. Lists(t, G)
  BY <1>1, <1>5, <1>7 DEF Lists
<1>9. Larger1(t, p, F)
  <2>1. Describes(t, p, k)
    BY <1>5 DEF Describes
  <2> QED BY <2>1, <1>4, <1>5 DEF Larger1
<1>10. FreeOf(t, p) = m.desc[d].block \cup {a}
  BY <1>5 DEF FreeOf
<1>11. UsedOf(t, p) = UsedOf(m, p) \ {a}
  <2>1. m.entry[p] # FREE
    BY <1>1, LargerFacts
  <2>2. UsedOf(t, p) = Blocks(p, k) \ FreeOf(t, p)
    BY <2>1, <1>5 DEF UsedOf
  <2> QED BY <2>2, <1>4, <1>10
<1>12. FreeOf(t, p) # Blocks(p, k)
  <2>1. Cardinality(Blocks(p, k)) = MaxBlocks(k) - (IF k = 0 THEN 1 ELSE 0) /\ MaxBlocks(k) \in Nat
    BY <1>4, BlockCount, BlocksOfAClass
  <2>2. Cardinality(Blocks(p, k)) = MaxBlocks(k)
    BY <2>1, <1>4
  <2>3. t.desc[d].count = Cardinality(FreeOf(t, p))
    BY <1>5, <1>10
  <2>4. Cardinality(FreeOf(t, p)) < MaxBlocks(k)
    BY <2>3
  <2>5. Cardinality(FreeOf(t, p)) # Cardinality(Blocks(p, k))
    BY <2>1, <2>2, <2>4
  <2> QED BY <2>5
<1>13. PageStep(m, t, F, G, p, k)
  BY <1>4, <1>5, <1>6, <1>7, <1>8, <1>9, <1>12 DEF PageStep
<1> QED BY <1>11, <1>13, PageGave

(* mem_free of the last block of a page, and free_page.                    *)
LEMMA FreeOfLastBlock ==
  ASSUME NEW m, NEW L, NEW F, NEW G, InvOf(m, L, F, G), NEW p \in G, NEW k, NEW d, NEW a,
         m.page_classes[p] = k, m.entry[p] = d, d # BUSY,
         a \in Blocks(p, k), a \notin FreeOf(m, p), Extent(a, k) \in L,
         NEW t, t = Push(m, d, a), t.desc[d].count >= MaxBlocks(k),
         NEW r, r = FreePage(t, p)
  PROVE  InvOf(r, L \ {Extent(a, k)}, F \ {p}, G \ {p})
<1>1. /\ m \in State /\ Smallest(m, F) /\ Pages(m, F, G) /\ Lists(m, G) /\ Owned(m, L, F, G)
      /\ Sound(m, L, F, G) /\ m.hit = {} /\ NoneWhole(m, G) /\ L \in SUBSET Asked
  BY DEF InvOf, Sound
<1>2. DescribedPage(m, F, G, p, k, d)
  BY <1>1, DescribedPageFacts
<1>3. PutBack(m, t, F, G, p, k, d, a)
  BY <1>1, <1>2, PushLarger
<1>4. /\ p \in Page \ {0} /\ p \in F /\ k \in Class \ {0} /\ d \in Addr /\ d \in UnitsUsed(m, F)
      /\ d \in Descs(m, G) /\ d \in Rooms(m, G, k)
      /\ FreeOf(m, p) = m.desc[d].block /\ UsedOf(m, p) = Blocks(p, k) \ m.desc[d].block
      /\ \A q \in Page : d # PageAddr(q)
      /\ \A q \in G \ {p} : m.entry[q] # BUSY => m.entry[q] # d /\ m.entry[q] \in UnitsUsed(m, F)
      /\ \A q \in F \ {p} : m.entry[q] \in Addr => m.entry[q] # d /\ m.entry[q] \in UnitsUsed(m, F)
  BY <1>2 DEF DescribedPage
<1>5. /\ t \in State
      /\ t.entry = m.entry /\ t.page_classes = m.page_classes /\ t.classes = m.classes
      /\ t.lost = m.lost /\ t.hit = {}
      /\ t.desc[d].class = k
      /\ t.desc[d].count = Cardinality(m.desc[d].block \cup {a})
      /\ m.desc[d].block \cup {a} \in SUBSET Blocks(p, k)
      /\ \A x \in UnitsUsed(m, F) \ {d} : t.desc[x] = m.desc[x]
      /\ Smallest(t, F) /\ UnitsUsed(t, F) = UnitsUsed(m, F)
  BY <1>1, <1>3 DEF PutBack
<1>6. m.desc[d].block \cup {a} = Blocks(p, k)
  <2>1. PICK cs : cs = m.desc[d].block \cup {a}
    OBVIOUS
  <2>2. cs \in SUBSET Blocks(p, k) /\ Cardinality(cs) >= MaxBlocks(k) /\ p \in Page /\ k \in Class
    BY <2>1, <1>4, <1>5
  <2>3. /\ Cardinality(cs) \in Nat
        /\ Cardinality(cs) <= MaxBlocks(k) - (IF k = 0 THEN 1 ELSE 0)
        /\ Cardinality(cs) = MaxBlocks(k) - (IF k = 0 THEN 1 ELSE 0) <=> cs = Blocks(p, k)
    BY <2>2, FreeSetFacts
  <2>4. MaxBlocks(k) \in Nat
    BY <2>2, BlocksOfAClass
  <2> QED BY <2>1, <2>2, <2>3, <2>4, <1>4
<1>7. PICK n : n = [t EXCEPT !.page_classes[p] = 0]
  OBVIOUS
<1>8. /\ n \in State /\ n.entry = t.entry /\ n.classes = t.classes /\ n.desc = t.desc
      /\ n.lost = t.lost /\ n.hit = t.hit
      /\ n.page_classes[p] = 0 /\ \A q \in Page \ {p} : n.page_classes[q] = t.page_classes[q]
  <2>1. 0 \in -128 .. 127
    OBVIOUS
  <2>2. [t.page_classes EXCEPT ![p] = 0] \in [Page -> -128 .. 127]
    <3>1. t.page_classes \in [Page -> -128 .. 127]
      BY <1>5 DEF State
    <3> QED BY <3>1, <2>1
  <2>3. PICK ps : ps = [t.page_classes EXCEPT ![p] = 0]
    OBVIOUS
  <2>4. n = [t EXCEPT !.page_classes = ps]
    BY <2>3, <1>5, <1>7 DEF State
  <2>5. /\ n \in State /\ n.entry = t.entry /\ n.classes = t.classes /\ n.desc = t.desc
        /\ n.lost = t.lost /\ n.hit = t.hit /\ n.page_classes = ps
    <3>1. ps \in [Page -> -128 .. 127] /\ t \in State
      BY <2>2, <2>3, <1>5
    <3> QED BY <3>1, <2>4 DEF State
  <2>6. ps[p] = 0 /\ \A q \in Page \ {p} : ps[q] = t.page_classes[q]
    BY <2>3, <1>4, <1>5 DEF State
  <2> QED BY <2>5, <2>6
<1>9. PICK ls : ls = Unlinked(m.classes[k], d)
  OBVIOUS
<1>10. IsList(ls, Rooms(m, G, k) \ {d}) /\ ls \in Seq(Addr)
  <2>1. IsList(m.classes[k], Rooms(m, G, k))
    BY <1>1, <1>4 DEF Lists
  <2>2. IsList(ls, Rooms(m, G, k) \ {d})
    BY <2>1, <1>4, <1>9, ListUnlinked
  <2> QED BY <2>2 DEF IsList
<1>11. PICK v : v = RemovePage(n, d)
  OBVIOUS
<1>12. Removed(n, d, k, v)
  <2>1. n.desc[d].class = k /\ Unlinked(n.classes[k], d) \in Seq(Addr) /\ k \in Class
    BY <1>4, <1>5, <1>8, <1>9, <1>10
  <2> QED BY <2>1, <1>4, <1>8, <1>11, RemovePageIs
<1>13. /\ v \in State /\ v.entry = m.entry /\ v.desc = t.desc /\ v.lost = m.lost /\ v.hit = {}
       /\ v.page_classes[p] = 0 /\ \A q \in Page \ {p} : v.page_classes[q] = m.page_classes[q]
       /\ v.classes[k] = ls /\ \A i \in Class \ {k} : v.classes[i] = m.classes[i]
  <2>1. /\ v \in State /\ v.entry = n.entry /\ v.page_classes = n.page_classes /\ v.desc = n.desc
        /\ v.classes = [n.classes EXCEPT ![k] = Unlinked(n.classes[k], d)]
        /\ v.lost = n.lost /\ v.hit = n.hit
    BY <1>12 DEF Removed
  <2>2. /\ v.classes[k] = Unlinked(n.classes[k], d)
        /\ \A i \in Class \ {k} : v.classes[i] = n.classes[i]
    <3>1. n.classes \in [Class -> Seq(Addr)] /\ k \in Class
      BY <1>4, <1>8 DEF State
    <3> QED BY <3>1, <2>1
  <2> QED BY <2>1, <2>2, <1>5, <1>8, <1>9
<1>14. Smallest(v, F) /\ UnitsUsed(v, F) = UnitsUsed(m, F)
  <2>1. F \in SUBSET Page /\ 0 \in F /\ \A q \in F : t.entry[q] # FREE
    BY <1>5 DEF Smallest, SmallestBut
  <2>2. Elsewhere(t, v, F, F)
    BY <2>1, <1>4, <1>5, <1>13, SmallestClass DEF Elsewhere
  <2> QED BY <2>2, <1>5, <1>13, SmallestElsewhere
<1>15. PICK u : u = MemFree0(v, d)
  OBVIOUS
<1>16. Freed0(v, F, u, d)
  BY <1>4, <1>13, <1>14, <1>15, MemFree0Keeps
<1>17. /\ u \in State /\ Smallest(u, F) /\ UnitsUsed(u, F) = UnitsUsed(m, F) \ {d}
       /\ \A q \in F : u.entry[q] = v.entry[q] /\ u.page_classes[q] = v.page_classes[q]
       /\ \A i \in Class \ {0} : u.classes[i] = v.classes[i]
       /\ u.lost = v.lost /\ u.hit = v.hit
       /\ \A x \in UnitsUsed(m, F) \ {d} : u.desc[x] = m.desc[x]
  <2>1. /\ u \in State /\ Smallest(u, F) /\ Same(v, u, F)
        /\ UnitsUsed(u, F) = UnitsUsed(v, F) \ {d}
    BY <1>16 DEF Freed0
  <2>2. \A x \in UnitsUsed(m, F) \ {d} : u.desc[x] = v.desc[x]
    BY <2>1, <1>14 DEF Same
  <2> QED BY <2>1, <2>2, <1>5, <1>13, <1>14 DEF Same
<1>18. r = [u EXCEPT !.entry[p] = FREE]
  <2>1. t.entry[p] = d
    BY <1>5
  <2> QED BY <2>1, <1>7, <1>11, <1>15 DEF FreePage
<1>19. /\ r \in State /\ r.page_classes = u.page_classes /\ r.classes = u.classes
       /\ r.desc = u.desc /\ r.lost = m.lost /\ r.hit = {}
       /\ r.entry[p] = FREE /\ \A q \in Page \ {p} : r.entry[q] = u.entry[q]
  <2>1. FREE \in Addr
    BY PageAddrFacts, ZoneAssumption, UnitsOfAPage DEF FREE, Addr
  <2>2. [u.entry EXCEPT ![p] = FREE] \in [Page -> {MULTI, BUSY} \cup Addr]
    BY <2>1, <1>17 DEF State
  <2>3. /\ r \in State /\ r.page_classes = u.page_classes /\ r.classes = u.classes
        /\ r.desc = u.desc /\ r.lost = u.lost /\ r.hit = u.hit
        /\ r.entry = [u.entry EXCEPT ![p] = FREE]
    BY <2>2, <1>17, <1>18 DEF State
  <2> QED BY <2>3, <1>4, <1>13, <1>17 DEF State
<1>20. PICK H, I : H = F \ {p} /\ I = G \ {p}
  OBVIOUS
<1>21. /\ F \in SUBSET Page /\ G \in SUBSET (F \ {0}) /\ 0 \in F
  BY <1>1 DEF Pages, Smallest, SmallestBut
<1>22. Smallest(r, H) /\ UnitsUsed(r, H) = UnitsUsed(m, F) \ {d}
  <2>1. \A q \in F : u.entry[q] # FREE
    BY <1>17 DEF Smallest, SmallestBut
  <2>2. u.page_classes[p] = 0
    BY <1>4, <1>13, <1>17
  <2>3. Elsewhere(u, r, F, H)
    BY <2>1, <2>2, <1>4, <1>19, <1>20, <1>21 DEF Elsewhere
  <2> QED BY <2>3, <1>17, <1>19, SmallestElsewhere
<1>23. Kept(m, r, F \ {p})
  <2>1. \A q \in F \ {p} : m.entry[q] \in Addr => u.desc[m.entry[q]] = m.desc[m.entry[q]]
    BY <1>4, <1>17
  <2> QED BY <2>1, <1>13, <1>17, <1>19, <1>21 DEF Kept
<1>24. PagesMoved(m, r, F, G, H, I, {p})
  <2>1. /\ H \in SUBSET Page /\ I \in SUBSET (H \ {0}) /\ But(F, H, {p}) /\ But(G, I, {p})
        /\ p \notin H /\ p \notin I /\ p \in G /\ I \cap {p} = {}
    BY <1>20, <1>21 DEF But
  <2>2. r.entry[p] # MULTI
    BY <1>19 DEF FREE, MULTI
  <2> QED BY <2>1, <2>2, <1>4, <1>22, <1>23 DEF PagesMoved
<1>25. RoomsBut(m, r, G, I, p, k)
  <2>1. But(G, I, {p}) /\ p \notin I
    BY <1>20 DEF But
  <2> QED BY <2>1, <1>1, <1>23, RoomsOver
<1>26. /\ \A i \in Class \ {0, k} : Rooms(r, I, i) = Rooms(m, G, i)
       /\ Rooms(r, I, k) = Rooms(m, G, k) \ {d}
       /\ Descs(r, I) = Descs(m, G) \ {d}
  BY <1>20, <1>25 DEF RoomsBut
<1>27. Lists(r, I)
  <2>1. \A i \in Class \ {0, k} : IsList(r.classes[i], Rooms(r, I, i))
    BY <1>1, <1>13, <1>17, <1>19, <1>26 DEF Lists
  <2>2. r.classes[k] = ls
    BY <1>4, <1>13, <1>17, <1>19
  <2>3. IsList(r.classes[k], Rooms(r, I, k))
    BY <2>2, <1>10, <1>26
  <2> QED BY <2>1, <2>3 DEF Lists
<1>28. PICK b : b = Extent(a, k)
  OBVIOUS
<1>29. b \in L /\ b.size > 1 /\ 2 * b.size < PageUnits /\ UsedIn(m, p) = {b}
  <2>1. b.size = Size(k) /\ k \in 0 .. MaxClass /\ b \in L
    BY <1>4, <1>28 DEF Extent, Class
  <2>2. UsedOf(m, p) = {a}
    BY <1>4, <1>6
  <2>3. UsedIn(m, p) = {b}
    BY <2>2, <1>28 DEF UsedIn
  <2> QED BY <2>1, <2>3, <1>4, Kinds
<1>30. Shares(L \ {b}, Tiny(L), Mid(L) \ {b}, Big(L))
  BY <1>1, <1>29, BlockLess
<1>31. BlocksMoved(m, r, L, L \ {b}, G, I, {p})
  <2>1. UsedLarger(m, G \cap {p}) = {b} /\ UsedLarger(r, I \cap {p}) = {}
    BY <1>20, <1>29, UsedOne
  <2>2. b \in Mid(L)
    BY <1>29 DEF Mid
  <2> QED BY <2>1, <2>2, <1>1, <1>30 DEF BlocksMoved, Shares, Owned
<1>32. Tiny(L \ {b}) = UnitsUsed(r, H) \ Descs(r, I)
  BY <1>1, <1>4, <1>22, <1>26, <1>30 DEF Shares, Owned
<1>33. SoundAfter(m, r, L \ {b}, G, H, I, {p})
  <2>1. L \ {b} \in SUBSET Asked
    BY <1>1
  <2> QED BY <2>1, <1>1, <1>19, <1>22, <1>24, <1>27, <1>31, <1>32, StepIsSound
<1>34. NoneWhole(m, G \ {p}) /\ I \ {p} = I
  BY <1>1, <1>20 DEF NoneWhole
<1> QED BY <1>20, <1>28, <1>33, <1>34 DEF SoundAfter, InvOf

(* mem_free of a block of a larger class.                                  *)
LEMMA FreeMid ==
  ASSUME NEW m, NEW L, NEW F, NEW G, InvOf(m, L, F, G), NEW b \in L,
         b.size > 1, 2 * b.size < PageUnits, NEW x \in MemFree(m, b.addr)
  PROVE  Holds(x, L \ {b})
<1>1. /\ m \in State /\ Smallest(m, F) /\ Pages(m, F, G) /\ Owned(m, L, F, G)
      /\ Sound(m, L, F, G)
  BY DEF InvOf, Sound
<1>2. PICK p, k, a, d : p = PageOf(b.addr) /\ k = m.page_classes[p] /\ a = b.addr /\ d = m.entry[p]
  OBVIOUS
<1>3. OwnedAt(m, b, G, p, k, a)
  BY <1>1, <1>2, MidOwner
<1>4. /\ p \in G /\ p \in Page \ {0} /\ k \in Class \ {0} /\ b = Extent(a, k)
      /\ a \in Blocks(p, k) /\ a \notin FreeOf(m, p) /\ Extent(a, k) \in L
  BY <1>1, <1>3 DEF OwnedAt
<1>5. F \in SUBSET Page /\ G \in SUBSET Page
  BY <1>1 DEF Pages
<1>6. d # MULTI /\ k # 0
  BY <1>1, <1>2, <1>4, LargerFacts
<1>7. CASE d = BUSY
  <2>1. x \in FreeBusy(m, PageOf(b.addr), b.addr)
    BY <1>2, <1>6, <1>7 DEF MemFree
  <2>2. InvOf(x, L \ {b}, F, G)
    BY <2>1, <1>2, <1>7, FreeOfFullPage
  <2> QED BY <2>2, <1>5 DEF Holds
<1>8. CASE d # BUSY
  <2>1. x = FreeListed(m, p, a)
    BY <1>2, <1>6, <1>8 DEF MemFree
  <2>2. DescribedPage(m, F, G, p, k, d)
    BY <1>1, <1>2, <1>4, <1>8, DescribedPageFacts
  <2>3. m.desc[d] # None
    <3>1. m.desc[d].block # {}
      BY <2>2 DEF DescribedPage
    <3> QED BY <3>1 DEF None
  <2>4. PICK t : t = Push(m, d, a)
    OBVIOUS
  <2>5. PutBack(m, t, F, G, p, k, d, a)
    BY <2>2, <2>4, <1>1, <1>4, PushLarger
  <2>6. t.desc[d].class = k /\ t.desc[d].count = Cardinality(m.desc[d].block \cup {a})
    BY <2>5 DEF PutBack
  <2>7. x = IF t.desc[d].count >= MaxBlocks(k) THEN FreePage(t, p) ELSE t
    BY <2>1, <2>3, <2>4, <2>6, <1>2 DEF FreeListed
  <2>8. CASE t.desc[d].count >= MaxBlocks(k)
    <3>1. x = FreePage(t, p)
      BY <2>7, <2>8
    <3>2. InvOf(x, L \ {Extent(a, k)}, F \ {p}, G \ {p})
      BY <3>1, <2>4, <2>8, <1>2, <1>4, <1>8, FreeOfLastBlock
    <3> QED BY <3>2, <1>4, <1>5 DEF Holds
  <2>9. CASE ~ (t.desc[d].count >= MaxBlocks(k))
    <3>1. x = t
      BY <2>7, <2>9
    <3>2. t.desc[d].count < MaxBlocks(k)
      <4>1. t.desc[d].count \in Nat /\ MaxBlocks(k) \in Nat
        <5>1. m.desc[d].block \cup {a} \in SUBSET Blocks(p, k)
          BY <2>5 DEF PutBack
        <5>2. Cardinality(m.desc[d].block \cup {a}) \in 0 .. PageUnits
          BY <5>1, <1>4, CountFits
        <5> QED BY <5>2, <2>6, <1>4, BlocksOfAClass
      <4> QED BY <4>1, <2>9
    <3>3. InvOf(x, L \ {Extent(a, k)}, F, G)
      BY <3>1, <3>2, <2>4, <1>2, <1>4, <1>8, FreeOfListedPage
    <3> QED BY <3>3, <1>4, <1>5 DEF Holds
  <2> QED BY <2>8, <2>9
<1> QED BY <1>7, <1>8

-----------------------------------------------------------------------------
(* Blocks of whole pages.                                                  *)

(* The runs of different blocks are apart.                                 *)
LEMMA RunsApart ==
  ASSUME NEW m \in State, NEW b, NEW p, WholeBlock(m, b, p), NEW c, NEW n, WholeBlock(m, c, n),
         p # n
  PROVE  RunOf(m, p) \cap RunOf(m, n) = {}
<1>1. WholeBlockKept(m, m, b, p) /\ WholeBlockKept(m, m, c, n)
  BY KeepingAWholeBlock
<1>2. /\ p \in Nat /\ n \in Nat /\ m.page_classes[p] \in Int /\ m.page_classes[n] \in Int
      /\ m.page_classes[p] >= 1 /\ m.page_classes[n] >= 1
  <2>1. p \in Page /\ n \in Page
    BY DEF WholeBlock
  <2>2. m.page_classes[p] \in -128 .. 127 /\ m.page_classes[n] \in -128 .. 127
    BY <2>1 DEF State
  <2> QED BY <2>1, <2>2, ZoneAssumption DEF WholeBlock, Page
<1>3. n \notin RunOf(m, p) /\ p \notin RunOf(m, n)
  BY <1>2 DEF WholeBlock
<1> SUFFICES ASSUME NEW q, q \in RunOf(m, p), q \in RunOf(m, n) PROVE FALSE
  OBVIOUS
<1>4. /\ q \in Int /\ p <= q /\ q <= p + m.page_classes[p] - 1
      /\ n <= q /\ q <= n + m.page_classes[n] - 1
  BY <1>2 DEF RunOf
<1>5. CASE p < n
  <2>1. n \in RunOf(m, p)
    BY <1>2, <1>4, <1>5 DEF RunOf
  <2> QED BY <2>1, <1>3
<1>6. CASE n < p
  <2>1. p \in RunOf(m, n)
    BY <1>2, <1>4, <1>6 DEF RunOf
  <2> QED BY <2>1, <1>3
<1> QED BY <1>2, <1>5, <1>6

(* Pages T turn from free into those of a larger block, or back; nothing   *)
(* else changes.                                                           *)
Turned(m, r, F, H, G, T) ==
  /\ r \in State /\ r.hit = m.hit /\ r.lost = m.lost
  /\ r.classes = m.classes /\ r.desc = m.desc
  /\ T \in SUBSET (Page \ {0}) /\ H \in SUBSET Page
  /\ \A q \in Page \ T : r.entry[q] = m.entry[q] /\ r.page_classes[q] = m.page_classes[q]
  /\ But(F, H, T) /\ T \cap G = {}
  /\ \A q \in T : \/ /\ m.entry[q] = FREE /\ r.entry[q] = MULTI /\ q \in H
                  \/ /\ m.entry[q] = MULTI /\ r.entry[q] = FREE /\ q \notin H
                     /\ r.page_classes[q] = 0

(* It keeps the invariant, when the blocks of whole pages are right.       *)
LEMMA PagesTurned ==
  ASSUME NEW m, NEW L, NEW F, NEW G, InvOf(m, L, F, G), NEW r, NEW H, NEW T,
         Turned(m, r, F, H, G, T), NEW N \in SUBSET Asked,
         NEW B, Shares(N, Tiny(L), Mid(L), B), Wholes(r, B)
  PROVE  InvOf(r, N, H, G)
<1>1. /\ m \in State /\ Smallest(m, F) /\ Pages(m, F, G) /\ Owned(m, L, F, G)
      /\ Lists(m, G) /\ m.hit = {} /\ NoneWhole(m, G)
  BY DEF InvOf, Sound
<1>2. /\ r \in State /\ r.hit = m.hit /\ r.lost = m.lost
      /\ r.classes = m.classes /\ r.desc = m.desc
      /\ T \in SUBSET (Page \ {0}) /\ H \in SUBSET Page
      /\ \A q \in Page \ T : r.entry[q] = m.entry[q] /\ r.page_classes[q] = m.page_classes[q]
      /\ But(F, H, T) /\ T \cap G = {}
      /\ \A q \in T : \/ /\ m.entry[q] = FREE /\ r.entry[q] = MULTI /\ q \in H
                      \/ /\ m.entry[q] = MULTI /\ r.entry[q] = FREE /\ q \notin H
                         /\ r.page_classes[q] = 0
  BY DEF Turned
<1>3. /\ F \in SUBSET Page /\ G \in SUBSET (F \ {0}) /\ 0 \in F
      /\ \A q \in F : m.entry[q] # FREE
      /\ \A q \in Page : q \in F \ G <=> q = 0 \/ m.entry[q] = MULTI \/ WholePage(q) \in m.lost
      /\ \A q \in F \ G : m.entry[q] # MULTI => m.entry[q] = BUSY /\ m.page_classes[q] = 0
      /\ \A q \in Page : WholePage(q) \in m.lost => m.entry[q] # MULTI
  BY <1>1 DEF Pages, Smallest, SmallestBut
<1>4. FREE # MULTI
  BY DEF FREE, MULTI
<1>5. \A q \in Page : q \notin T => (q \in F <=> q \in H)
  BY <1>2 DEF But
<1>6. \A q \in T : q \in F <=> m.entry[q] = MULTI
  BY <1>2, <1>3, <1>4
<1>7. Elsewhere(m, r, F, H)
  <2>1. \A q \in H : r.entry[q] # FREE /\ (q \notin F => m.entry[q] = FREE)
    BY <1>2, <1>3, <1>4, <1>5, <1>6
  <2>2. ASSUME NEW q \in Page \ H
        PROVE  /\ q \in F => r.entry[q] = FREE /\ r.page_classes[q] = 0
               /\ q \notin F => /\ r.entry[q] = m.entry[q]
                                /\ r.page_classes[q] = m.page_classes[q]
                                /\ r.desc[PageAddr(q)] = m.desc[PageAddr(q)]
    BY <2>2, <1>2, <1>4, <1>5, <1>6
  <2>3. 0 \in H
    BY <1>2, <1>3, <1>5
  <2> QED BY <2>1, <2>2, <2>3, <1>2 DEF Elsewhere
<1>8. Smallest(r, H) /\ UnitsUsed(r, H) = UnitsUsed(m, F)
  BY <1>1, <1>2, <1>7, SmallestElsewhere
<1>9. \A q \in G : r.entry[q] = m.entry[q] /\ r.page_classes[q] = m.page_classes[q]
  BY <1>2, <1>3
<1>10. \A q \in G : FreeOf(r, q) = FreeOf(m, q)
  BY <1>2, <1>9 DEF FreeOf
<1>11. \A q \in G : UsedIn(r, q) = UsedIn(m, q)
  BY <1>9, <1>10 DEF UsedIn, UsedOf
<1>12. \A q \in G : Larger1(r, q, H)
  BY <1>1, <1>2, <1>8, <1>9 DEF Larger1, Describes, Pages
<1>13. Pages(r, H, G)
  <2>1. G \in SUBSET (H \ {0})
    BY <1>2, <1>3, <1>5
  <2>2. ASSUME NEW q \in Page
        PROVE  q \in H \ G <=> q = 0 \/ r.entry[q] = MULTI \/ WholePage(q) \in r.lost
    <3>1. CASE q \in T
      <4>1. WholePage(q) \notin m.lost /\ q # 0 /\ q \notin G
        BY <3>1, <1>2, <1>3, <1>6
      <4> QED BY <4>1, <3>1, <1>2, <1>4
    <3>2. CASE q \notin T
      BY <3>2, <1>2, <1>3, <1>5
    <3> QED BY <3>1, <3>2
  <2>3. \A q \in H \ G : r.entry[q] # MULTI => r.entry[q] = BUSY /\ r.page_classes[q] = 0
    BY <1>2, <1>3, <1>5
  <2>4. \A q \in Page : WholePage(q) \in r.lost => r.entry[q] # MULTI
    <3> SUFFICES ASSUME NEW q \in Page, WholePage(q) \in m.lost PROVE r.entry[q] # MULTI
      BY <1>2
    <3>1. q \in F /\ m.entry[q] # MULTI
      BY <1>3
    <3>2. q \notin T
      BY <3>1, <1>6
    <3> QED BY <3>1, <3>2, <1>2
  <2> QED BY <2>1, <2>2, <2>3, <2>4, <1>2, <1>12 DEF Pages
<1>14. Descs(r, G) = Descs(m, G) /\ \A k \in Class : Rooms(r, G, k) = Rooms(m, G, k)
  BY <1>9 DEF Descs, Rooms
<1>15. Lists(r, G)
  BY <1>1, <1>2, <1>14 DEF Lists
<1>16. Owned(r, N, H, G)
  <2>1. UsedLarger(r, G) = UsedLarger(m, G)
    BY <1>11 DEF UsedLarger
  <2>2. LostBlocks(r) = LostBlocks(m)
    BY <1>2 DEF LostBlocks
  <2> QED BY <2>1, <2>2, <1>1, <1>8, <1>14 DEF Owned, Shares
<1>17. NoneWhole(r, G)
  BY <1>1, <1>9, <1>10 DEF NoneWhole
<1>18. Wholes(r, Big(N))
  BY DEF Shares
<1> QED BY <1>1, <1>2, <1>8, <1>13, <1>15, <1>16, <1>17, <1>18 DEF InvOf, Sound

(* The pages of a block of whole pages can be counted in a char, unless    *)
(* there are not as many.                                                  *)
Countable == \A k \in Requests : ~ Small(k) /\ PagesFor(k) < NPages => PagesFor(k) <= 127

(* find_free_pages finds a run of free pages, without page 0, and the char *)
(* says how many they are.                                                 *)
RunFound(m, num, first) ==
  /\ first \in Page \ {0} /\ first + num <= NPages /\ AsChar(num) = num
  /\ \A q \in first .. first + num - 1 : q \in Page \ {0} /\ m.entry[q] = FREE

(* The run it finds is one.                                                *)
LEMMA FirstRun ==
  ASSUME NEW m, m.entry[0] # FREE, NEW num \in Nat, num >= 1, num < NPages => num <= 127,
         Runs(m, num) # {}
  PROVE  RunFound(m, num, CHOOSE p \in Runs(m, num) : \A q \in Runs(m, num) : p <= q)
<1>1. PICK first : first = CHOOSE p \in Runs(m, num) : \A q \in Runs(m, num) : p <= q
  OBVIOUS
<1>2. Runs(m, num) \in SUBSET Nat
  BY ZoneAssumption DEF Runs, Page
<1>3. \E p \in Runs(m, num) : \A q \in Runs(m, num) : p <= q
  BY <1>2, LeastOf
<1>4. first \in Page /\ \A q \in first .. first + num - 1 : q \in FreePages(m)
  BY <1>1, <1>3 DEF Runs
<1>5. \A q \in first .. first + num - 1 : q \in Page \ {0} /\ m.entry[q] = FREE
  BY <1>4 DEF FreePages
<1>6. first \in Nat /\ NPages \in Nat
  BY <1>4, ZoneAssumption DEF Page
<1>7. first \in first .. first + num - 1 /\ first + num - 1 \in first .. first + num - 1
  BY <1>6
<1>8. first \in Page \ {0} /\ first + num - 1 \in Page
  BY <1>5, <1>7
<1>9. first + num <= NPages /\ first >= 1
  BY <1>6, <1>8 DEF Page
<1>10. num <= 127
  BY <1>6, <1>9
<1>11. AsChar(num) = num
  BY <1>10 DEF AsChar
<1> QED BY <1>1, <1>5, <1>8, <1>9, <1>11 DEF RunFound

(* What mem_alloc of whole pages does to them, and what it leaves.         *)
PagesGiven(m, r, first, num, T) ==
  /\ r \in State /\ r.hit = m.hit /\ r.lost = m.lost
  /\ r.classes = m.classes /\ r.desc = m.desc
  /\ \A q \in T : r.entry[q] = MULTI
                  /\ r.page_classes[q] = IF q = first THEN num ELSE -1
  /\ \A q \in Page \ T : r.entry[q] = m.entry[q] /\ r.page_classes[q] = m.page_classes[q]

(* That is what the assignments of MultiPage do.                           *)
LEMMA GivingPages ==
  ASSUME NEW m \in State, NEW num \in 1 .. 127, NEW first \in Page, NEW T \in SUBSET Page,
         first \in T, NEW r,
         r = [m EXCEPT !.entry = [p \in Page |-> IF p \in T THEN MULTI ELSE @[p]],
                       !.page_classes = [p \in Page |-> IF p = first THEN num
                                           ELSE IF p \in T THEN -1 ELSE @[p]]]
  PROVE  PagesGiven(m, r, first, num, T)
<1>1. PICK e : e = [p \in Page |-> IF p \in T THEN MULTI ELSE m.entry[p]]
  OBVIOUS
<1>2. PICK c : c = [p \in Page |-> IF p = first THEN num
                                   ELSE IF p \in T THEN -1 ELSE m.page_classes[p]]
  OBVIOUS
<1>3. r = [m EXCEPT !.entry = e, !.page_classes = c]
  BY <1>1, <1>2
<1>4. e \in [Page -> {MULTI, BUSY} \cup Addr]
  <2>1. m.entry \in [Page -> {MULTI, BUSY} \cup Addr]
    BY DEF State
  <2> QED BY <1>1, <2>1
<1>5. c \in [Page -> -128 .. 127]
  <2>1. m.page_classes \in [Page -> -128 .. 127]
    BY DEF State
  <2>2. num \in -128 .. 127 /\ -1 \in -128 .. 127
    OBVIOUS
  <2> QED BY <1>2, <2>1, <2>2
<1>6. r \in State
  BY <1>3, <1>4, <1>5 DEF State
<1>7. /\ r.hit = m.hit /\ r.lost = m.lost /\ r.classes = m.classes /\ r.desc = m.desc
      /\ r.entry = e /\ r.page_classes = c
  BY <1>3 DEF State
<1>8. \A q \in T : e[q] = MULTI /\ c[q] = IF q = first THEN num ELSE -1
  BY <1>1, <1>2
<1>9. \A q \in Page \ T : e[q] = m.entry[q] /\ c[q] = m.page_classes[q]
  BY <1>1, <1>2
<1> QED BY <1>6, <1>7, <1>8, <1>9 DEF PagesGiven

(* mem_alloc of whole pages.                                               *)
LEMMA AllocLarge ==
  ASSUME NEW m, NEW L, NEW F, NEW G, InvOf(m, L, F, G), Countable,
         NEW k \in Requests, ~ Small(k), NEW x \in MultiPage(m, k)
  PROVE  Allocates(L, k, x)
<1>1. /\ m \in State /\ Smallest(m, F) /\ Pages(m, F, G) /\ L \in SUBSET Asked
      /\ Wholes(m, Big(L))
  BY DEF InvOf, Sound
<1>2. /\ F \in SUBSET Page /\ G \in SUBSET (F \ {0}) /\ 0 \in F
      /\ \A q \in F : m.entry[q] # FREE
  BY <1>1 DEF Pages, Smallest, SmallestBut
<1>3. k \in 0 .. MaxClass
  BY ZoneAssumption
<1>4. PICK num : num = PagesFor(k)
  OBVIOUS
<1>5. num \in Nat /\ num >= 1 /\ Size(k) <= num * PageUnits /\ (num < NPages => num <= 127)
  BY <1>3, <1>4, PagesOfALargeBlock DEF Countable
<1>6. CASE Runs(m, num) = {}
  <2>1. x = [m |-> m, ret |-> NULL]
    BY <1>4, <1>6 DEF MultiPage, Fail
  <2> QED BY <2>1, <1>2 DEF Allocates, Holds
<1>7. CASE Runs(m, num) # {}
  <2>1. PICK first : first = CHOOSE p \in Runs(m, num) : \A q \in Runs(m, num) : p <= q
    OBVIOUS
  <2>2. RunFound(m, num, first)
    BY <2>1, <1>2, <1>5, <1>7, FirstRun
  <2>3. PICK T : T = first .. first + num - 1
    OBVIOUS
  <2>4. /\ first \in Page \ {0} /\ first + num <= NPages /\ AsChar(num) = num
        /\ \A q \in T : q \in Page \ {0} /\ m.entry[q] = FREE
    BY <2>2, <2>3 DEF RunFound
  <2>5. first \in Nat /\ NPages \in Nat /\ first >= 1
    BY <2>4, ZoneAssumption DEF Page
  <2>6. first \in T /\ num \in 1 .. 127 /\ T \in SUBSET Page
    BY <2>3, <2>4, <2>5, <1>5
  <2>7. PICK r : r = [m EXCEPT !.entry = [p \in Page |-> IF p \in T THEN MULTI ELSE @[p]],
                               !.page_classes = [p \in Page |-> IF p = first THEN num
                                                   ELSE IF p \in T THEN -1 ELSE @[p]]]
    OBVIOUS
  <2>8. PagesGiven(m, r, first, num, T)
    BY <2>6, <2>7, <2>4, <1>1, GivingPages
  <2>9. x = [m |-> r, ret |-> PageAddr(first)]
    BY <2>1, <2>3, <2>4, <2>7, <1>4, <1>7 DEF MultiPage
  <2>10. /\ r \in State /\ r.hit = m.hit /\ r.lost = m.lost
         /\ r.classes = m.classes /\ r.desc = m.desc
         /\ \A q \in T : r.entry[q] = MULTI
                         /\ r.page_classes[q] = IF q = first THEN num ELSE -1
         /\ \A q \in Page \ T : /\ r.entry[q] = m.entry[q]
                                /\ r.page_classes[q] = m.page_classes[q]
    BY <2>8 DEF PagesGiven
  <2>11. Turned(m, r, F, F \cup T, G, T)
    <3>1. T \cap G = {} /\ But(F, F \cup T, T)
      BY <2>4, <1>2 DEF But
    <3> QED BY <3>1, <2>4, <2>6, <2>10, <1>2 DEF Turned
  <2>12. PICK b : b = Extent(PageAddr(first), k)
    OBVIOUS
  <2>13. b.addr = PageAddr(first) /\ b.size = Size(k)
    BY <2>12 DEF Extent
  <2>14. /\ PageAddr(first) \in Addr /\ PageAddr(first) >= PageUnits
         /\ \A p \in Page : PageAddr(p) = PageAddr(first) => p = first
    BY <2>4, PageAddrFacts
  <2>15. WholeBlock(r, b, first) /\ RunOf(r, first) = T
    <3>1. r.page_classes[first] = num /\ num >= 1
      BY <2>6, <2>10
    <3>2. RunOf(r, first) = T
      BY <3>1, <2>3 DEF RunOf
    <3>3. \A q \in RunOf(r, first) : r.entry[q] = MULTI /\ (q # first => r.page_classes[q] = -1)
      BY <3>2, <2>10
    <3> QED BY <3>1, <3>2, <3>3, <2>4, <2>13, <1>5 DEF WholeBlock
  <2>16. ASSUME NEW c \in Big(L), NEW p \in Page, WholeBlock(m, c, p)
         PROVE  /\ WholeBlock(r, c, p) /\ RunOf(r, p) = RunOf(m, p) /\ c.addr = PageAddr(p)
                /\ p # first
    <3>1. WholeBlockKept(m, m, c, p)
      BY <1>1, <2>16, KeepingAWholeBlock
    <3>2. \A q \in RunOf(m, p) : q \in Page /\ m.entry[q] = MULTI
      BY <3>1, <2>16 DEF WholeBlockKept, WholeBlock
    <3>3. \A q \in RunOf(m, p) : q \notin T
      BY <3>2, <2>4 DEF MULTI, FREE
    <3>4. \A q \in RunOf(m, p) : /\ m.entry[q] = MULTI => r.entry[q] = MULTI
                                 /\ r.page_classes[q] = m.page_classes[q]
      BY <3>2, <3>3, <2>10
    <3>5. WholeBlockKept(m, r, c, p)
      BY <3>4, <1>1, <2>16, KeepingAWholeBlock
    <3> QED BY <3>1, <3>3, <3>5, <2>6 DEF WholeBlockKept
  <2>17. \A c \in Big(L) : \E p \in Page : WholeBlock(m, c, p)
    BY <1>1 DEF Wholes
  <2>18. \A c \in Big(L) : c.addr # b.addr
    <3> SUFFICES ASSUME NEW c \in Big(L) PROVE c.addr # b.addr
      OBVIOUS
    <3>1. PICK p \in Page : WholeBlock(m, c, p)
      BY <2>17
    <3>2. c.addr = PageAddr(p) /\ p # first
      BY <3>1, <2>16
    <3> QED BY <3>2, <2>13, <2>14
  <2>19. Wholes(r, Big(L) \cup {b})
    <3>1. ASSUME NEW c \in Big(L) \cup {b}
          PROVE  \E p \in Page : WholeBlock(r, c, p)
      BY <2>4, <2>15, <2>16, <2>17
    <3>2. ASSUME NEW c \in Big(L) \cup {b}, NEW d \in Big(L) \cup {b}, c.addr = d.addr
          PROVE  c = d
      BY <3>2, <2>18, <1>1 DEF Wholes
    <3>3. ASSUME NEW q \in Page, r.entry[q] = MULTI
          PROVE  \E c \in Big(L) \cup {b}, p \in Page : c.addr = PageAddr(p) /\ q \in RunOf(r, p)
      <4>1. CASE q \in T
        BY <4>1, <2>4, <2>13, <2>15
      <4>2. CASE q \notin T
        <5>1. m.entry[q] = MULTI
          BY <4>2, <3>3, <2>10
        <5>2. PICK c \in Big(L), p \in Page : c.addr = PageAddr(p) /\ q \in RunOf(m, p)
          BY <5>1, <1>1 DEF Wholes
        <5>3. PICK n \in Page : WholeBlock(m, c, n)
          BY <2>17
        <5>4. n = p
          <6>1. PageAddr(n) = PageAddr(p)
            BY <5>2, <5>3 DEF WholeBlock
          <6> QED BY <6>1, PageAddrFacts
        <5>5. RunOf(r, p) = RunOf(m, p)
          BY <5>3, <5>4, <2>16
        <5> QED BY <5>2, <5>5
      <4> QED BY <4>1, <4>2
    <3> QED BY <3>1, <3>2, <3>3 DEF Wholes
  <2>20. Shares(L \cup {b}, Tiny(L), Mid(L), Big(L) \cup {b})
    BY <2>12, <2>14, <1>1, <1>3, BlockMore
  <2>21. L \cup {b} \in SUBSET Asked
    <3>1. b = [addr |-> PageAddr(first), size |-> Size(k)]
      BY <2>12 DEF Extent
    <3> QED BY <3>1, <2>14, <1>1 DEF Asked
  <2>22. InvOf(r, L \cup {b}, F \cup T, G)
    BY <2>11, <2>19, <2>20, <2>21, PagesTurned
  <2>23. b \notin L
    <3>1. 2 * b.size >= PageUnits
      BY <2>13, <1>3, Kinds
    <3>2. b \in L => b \in Big(L)
      BY <3>1 DEF Big
    <3> QED BY <3>2, <2>18
  <2>24. PageAddr(first) # NULL
    BY <2>14, UnitsOfAPage DEF NULL
  <2>25. Holds(r, L \cup {b})
    <3>1. F \cup T \in SUBSET Page /\ G \in SUBSET Page
      BY <1>2, <2>6
    <3> QED BY <3>1, <2>22 DEF Holds
  <2> QED BY <2>9, <2>12, <2>14, <2>23, <2>24, <2>25 DEF Allocates
<1> QED BY <1>6, <1>7

(* What mem_free of whole pages does to them, and what it leaves.          *)
PagesFreed(m, r, T) ==
  /\ r \in State /\ r.hit = m.hit /\ r.lost = m.lost
  /\ r.classes = m.classes /\ r.desc = m.desc
  /\ \A q \in T : r.entry[q] = FREE /\ r.page_classes[q] = 0
  /\ \A q \in Page \ T : r.entry[q] = m.entry[q] /\ r.page_classes[q] = m.page_classes[q]

(* That is what FreeMulti does.                                            *)
LEMMA FreeingPages ==
  ASSUME NEW m \in State, NEW p \in Page, RunOf(m, p) \in SUBSET Page
  PROVE  PagesFreed(m, FreeMulti(m, p), RunOf(m, p))
<1>1. PICK T : T = RunOf(m, p)
  OBVIOUS
<1>2. PICK e : e = [q \in Page |-> IF q \in T THEN FREE ELSE m.entry[q]]
  OBVIOUS
<1>3. PICK c : c = [q \in Page |-> IF q \in T THEN 0 ELSE m.page_classes[q]]
  OBVIOUS
<1>4. PICK r : r = FreeMulti(m, p)
  OBVIOUS
<1>5. r = [m EXCEPT !.entry = e, !.page_classes = c]
  BY <1>1, <1>2, <1>3, <1>4 DEF FreeMulti, RunOf
<1>6. e \in [Page -> {MULTI, BUSY} \cup Addr]
  <2>1. m.entry \in [Page -> {MULTI, BUSY} \cup Addr]
    BY DEF State
  <2>2. FREE \in Addr
    <3>1. 0 \in Page
      BY ZoneAssumption DEF Page
    <3>2. PageAddr(0) \in Addr /\ PageAddr(0) = 0
      BY <3>1, PageAddrFacts, UnitsOfAPage DEF PageAddr
    <3> QED BY <3>2 DEF FREE
  <2> QED BY <1>2, <2>1, <2>2
<1>7. c \in [Page -> -128 .. 127]
  <2>1. m.page_classes \in [Page -> -128 .. 127]
    BY DEF State
  <2>2. 0 \in -128 .. 127
    OBVIOUS
  <2> QED BY <1>3, <2>1, <2>2
<1>8. r \in State
  BY <1>5, <1>6, <1>7 DEF State
<1>9. /\ r.hit = m.hit /\ r.lost = m.lost /\ r.classes = m.classes /\ r.desc = m.desc
      /\ r.entry = e /\ r.page_classes = c
  BY <1>5 DEF State
<1>10. \A q \in T : e[q] = FREE /\ c[q] = 0
  BY <1>1, <1>2, <1>3
<1>11. \A q \in Page \ T : e[q] = m.entry[q] /\ c[q] = m.page_classes[q]
  BY <1>2, <1>3
<1> QED BY <1>1, <1>4, <1>8, <1>9, <1>10, <1>11 DEF PagesFreed

(* mem_free of whole pages.                                                *)
LEMMA FreeLarge ==
  ASSUME NEW m, NEW L, NEW F, NEW G, InvOf(m, L, F, G), NEW b \in L,
         2 * b.size >= PageUnits, NEW x \in MemFree(m, b.addr)
  PROVE  Holds(x, L \ {b})
<1>1. /\ m \in State /\ Smallest(m, F) /\ Pages(m, F, G) /\ L \in SUBSET Asked
      /\ Wholes(m, Big(L))
  BY DEF InvOf, Sound
<1>2. /\ F \in SUBSET Page /\ G \in SUBSET (F \ {0}) /\ 0 \in F
      /\ \A q \in G : m.entry[q] # MULTI
      /\ \A q \in Page : m.entry[q] = MULTI => q \in F \ G
  <2>1. \A q \in G : m.entry[q] # MULTI
    BY <1>1, LargerFacts
  <2> QED BY <2>1, <1>1 DEF Pages, Smallest, SmallestBut
<1>3. b \in Big(L)
  BY DEF Big
<1>4. PICK p \in Page : WholeBlock(m, b, p)
  BY <1>1, <1>3 DEF Wholes
<1>5. WholeBlockKept(m, m, b, p)
  BY <1>1, <1>4, KeepingAWholeBlock
<1>6. PICK T : T = RunOf(m, p)
  OBVIOUS
<1>7. /\ T \in SUBSET (Page \ {0}) /\ p \in T /\ b.addr = PageAddr(p)
      /\ \A q \in T : m.entry[q] = MULTI
  BY <1>4, <1>5, <1>6 DEF WholeBlockKept, WholeBlock
<1>8. PageOf(b.addr) = p
  BY <1>7, PageAddrFacts
<1>9. x = FreeMulti(m, p)
  BY <1>7, <1>8 DEF MemFree
<1>10. PagesFreed(m, x, T)
  BY <1>1, <1>6, <1>7, <1>9, FreeingPages
<1>11. /\ x \in State /\ x.hit = m.hit /\ x.lost = m.lost
       /\ x.classes = m.classes /\ x.desc = m.desc
       /\ \A q \in T : x.entry[q] = FREE /\ x.page_classes[q] = 0
       /\ \A q \in Page \ T : x.entry[q] = m.entry[q] /\ x.page_classes[q] = m.page_classes[q]
  BY <1>10 DEF PagesFreed
<1>12. Turned(m, x, F, F \ T, G, T)
  <2>1. But(F, F \ T, T) /\ T \cap G = {} /\ F \ T \in SUBSET Page
    BY <1>2, <1>7 DEF But
  <2> QED BY <2>1, <1>7, <1>11 DEF Turned
<1>13. ASSUME NEW c \in Big(L), c # b, NEW n \in Page, WholeBlock(m, c, n)
       PROVE  /\ WholeBlock(x, c, n) /\ RunOf(x, n) = RunOf(m, n) /\ c.addr = PageAddr(n)
              /\ n # p
  <2>1. WholeBlockKept(m, m, c, n)
    BY <1>1, <1>13, KeepingAWholeBlock
  <2>2. \A q \in RunOf(m, n) : q \in Page
    BY <2>1 DEF WholeBlockKept
  <2>3. n # p
    <3>1. c.addr = PageAddr(n)
      BY <2>1 DEF WholeBlockKept
    <3>2. c.addr # b.addr
      BY <1>1, <1>3, <1>13 DEF Wholes
    <3> QED BY <3>1, <3>2, <1>7
  <2>4. T \cap RunOf(m, n) = {}
    BY <1>1, <1>4, <1>6, <1>13, <2>3, RunsApart
  <2>5. \A q \in RunOf(m, n) : /\ m.entry[q] = MULTI => x.entry[q] = MULTI
                               /\ x.page_classes[q] = m.page_classes[q]
    BY <2>2, <2>4, <1>11
  <2>6. WholeBlockKept(m, x, c, n)
    BY <2>5, <1>1, <1>13, KeepingAWholeBlock
  <2> QED BY <2>3, <2>6 DEF WholeBlockKept
<1>14. Wholes(x, Big(L) \ {b})
  <2>1. \A c \in Big(L) \ {b} : \E n \in Page : WholeBlock(x, c, n)
    BY <1>1, <1>13 DEF Wholes
  <2>2. \A c, d \in Big(L) \ {b} : c.addr = d.addr => c = d
    BY <1>1 DEF Wholes
  <2>3. ASSUME NEW q \in Page, x.entry[q] = MULTI
        PROVE  \E c \in Big(L) \ {b}, n \in Page : c.addr = PageAddr(n) /\ q \in RunOf(x, n)
    <3>1. q \notin T /\ m.entry[q] = MULTI
      BY <2>3, <1>11 DEF FREE, MULTI
    <3>2. PICK c \in Big(L), n \in Page : c.addr = PageAddr(n) /\ q \in RunOf(m, n)
      BY <3>1, <1>1 DEF Wholes
    <3>3. c # b
      <4>1. c = b => PageAddr(n) = PageAddr(p)
        BY <3>2, <1>7
      <4>2. c = b => n = p
        BY <4>1, PageAddrFacts
      <4> QED BY <4>2, <3>1, <3>2, <1>6
    <3>4. PICK i \in Page : WholeBlock(m, c, i)
      BY <1>1 DEF Wholes
    <3>5. i = n
      <4>1. PageAddr(i) = PageAddr(n)
        BY <3>2, <3>4 DEF WholeBlock
      <4> QED BY <4>1, PageAddrFacts
    <3>6. RunOf(x, n) = RunOf(m, n)
      BY <3>3, <3>4, <3>5, <1>13
    <3> QED BY <3>2, <3>3, <3>6
  <2> QED BY <2>1, <2>2, <2>3 DEF Wholes
<1>15. Shares(L \ {b}, Tiny(L), Mid(L), Big(L) \ {b})
  BY <1>1, BlockLess
<1>16. InvOf(x, L \ {b}, F \ T, G)
  <2>1. L \ {b} \in SUBSET Asked
    BY <1>1
  <2> QED BY <2>1, <1>12, <1>14, <1>15, PagesTurned
<1> QED BY <1>2, <1>16 DEF Holds

-----------------------------------------------------------------------------
(* The calls of main.c keep the invariant.                                 *)

(* mem_alloc, whatever the size.                                           *)
LEMMA Allocating ==
  ASSUME NEW m, NEW L, Holds(m, L), Countable, ~ Wide, NEW k \in Requests,
         NEW x \in MemAlloc(m, k)
  PROVE  Allocates(L, k, x)
<1>1. PICK F, G \in SUBSET Page : InvOf(m, L, F, G)
  BY DEF Holds
<1>2. Sound(m, L, F, G) /\ NoneWhole(m, G)
  BY <1>1 DEF InvOf
<1>3. CASE ~ Small(k)
  <2>1. x \in MultiPage(m, k)
    BY <1>3 DEF MemAlloc
  <2> QED BY <2>1, <1>1, <1>3, AllocLarge
<1>4. CASE Small(k) /\ k = 0
  <2>1. x \in MemAlloc0(m)
    BY <1>4 DEF MemAlloc
  <2> QED BY <2>1, <1>1, <1>4, AllocUnit
<1>5. CASE Small(k) /\ k # 0
  <2>1. k \in Class \ {0}
    BY <1>5, ZoneAssumption DEF Class
  <2>2. CASE m.classes[k] # <<>>
    <3>1. x \in Take(m, k)
      BY <2>2, <1>5 DEF MemAlloc
    <3>2. PICK p \in G : /\ m.entry[p] = Head(m.classes[k]) /\ m.page_classes[p] = k
                         /\ m.entry[p] # BUSY
      BY <1>2, <2>1, <2>2, HeadOfClass
    <3>3. NoneWhole(m, G \ {p})
      BY <1>2 DEF NoneWhole
    <3> QED BY <3>1, <3>2, <3>3, <1>2, <2>1, <2>2, TakeMid
  <2>3. CASE m.classes[k] = <<>> /\ FreePages(m) = {}
    <3>1. x = [m |-> m, ret |-> NULL]
      BY <2>3, <1>5 DEF MemAlloc, Fail
    <3> QED BY <3>1 DEF Allocates
  <2>4. CASE m.classes[k] = <<>> /\ FreePages(m) # {}
    <3>1. x \in NewPage(m, k)
      BY <2>4, <1>5 DEF MemAlloc
    <3> QED BY <3>1, <2>1, <2>4, <1>1, AllocInNewPage
  <2> QED BY <2>2, <2>3, <2>4
<1> QED BY <1>3, <1>4, <1>5

(* mem_free of an owner's block.                                           *)
LEMMA Freeing ==
  ASSUME NEW m, NEW L, Holds(m, L), NEW b \in L, NEW x \in MemFree(m, b.addr)
  PROVE  Holds(x, L \ {b})
<1>1. PICK F, G \in SUBSET Page : InvOf(m, L, F, G)
  BY DEF Holds
<1>2. m \in State /\ Smallest(m, F) /\ L \in SUBSET Asked
  BY <1>1 DEF InvOf, Sound
<1>3. b.size \in Nat /\ b.size >= 1
  BY <1>2, ZoneAssumption, SizePositive DEF Asked
<1>4. CASE b.size = 1
  <2>1. b.addr \in UnitsUsed(m, F) /\ InvOf(MemFree0(m, b.addr), L \ {b}, F, G)
    BY <1>1, <1>4, FreeUnit
  <2>2. PICK p : p = PageOf(b.addr)
    OBVIOUS
  <2>3. SmallestBut(m, F, {})
    BY <1>2 DEF Smallest
  <2>4. p \in Page \ F
    BY <2>1, <2>2, <2>3, UnitFacts
  <2>5. m.page_classes[p] = 0 /\ m.entry[p] # MULTI
    <3>1. Small0(m, p)
      BY <2>3, <2>4 DEF SmallestBut
    <3>2. PageAddr(p) # MULTI
      BY <2>4, PageAddrFacts DEF MULTI
    <3> QED BY <3>1, <3>2 DEF Small0, MULTI, BUSY, FREE
  <2>6. x = MemFree0(m, b.addr)
    BY <2>2, <2>5 DEF MemFree
  <2> QED BY <2>1, <2>6 DEF Holds
<1>5. CASE b.size > 1 /\ 2 * b.size < PageUnits
  BY <1>1, <1>5, FreeMid
<1>6. CASE 2 * b.size >= PageUnits
  BY <1>1, <1>6, FreeLarge
<1> QED BY <1>3, <1>4, <1>5, <1>6, UnitsOfAPage

(* The heap as alc_init leaves it.                                         *)
LEMMA InitHolds == Init => Holds(Now, live)
<1> SUFFICES ASSUME Init PROVE Holds(Now, live)
  OBVIOUS
<1>1. PICK e : e = [p \in Page |-> IF p = 0 THEN BUSY ELSE FREE]
  OBVIOUS
<1>2. PICK c : c = [p \in Page |-> 0]
  OBVIOUS
<1>3. PICK s : s = [k \in Class |-> <<>>]
  OBVIOUS
<1>4. PICK w : w = [a \in Addr |-> None]
  OBVIOUS
<1>5. PICK m : m = [entry |-> e, page_classes |-> c, classes |-> s, desc |-> w,
                    lost |-> {}, hit |-> {}]
  OBVIOUS
<1>6. Now = m /\ live = {}
  BY <1>1, <1>2, <1>3, <1>4, <1>5 DEF Init, Now
<1>7. 0 \in Page /\ 0 \in Addr /\ 0 \in Class
  <2>1. 0 \in Page
    BY ZoneAssumption DEF Page
  <2>2. PageAddr(0) \in Addr /\ PageAddr(0) = 0
    BY <2>1, PageAddrFacts, UnitsOfAPage DEF PageAddr
  <2> QED BY <2>1, <2>2, SmallestClass
<1>8. e \in [Page -> {MULTI, BUSY} \cup Addr]
  BY <1>1, <1>7 DEF FREE
<1>9. c \in [Page -> -128 .. 127]
  <2>1. 0 \in -128 .. 127
    OBVIOUS
  <2> QED BY <2>1, <1>2
<1>10. s \in [Class -> Seq(Addr)]
  <2>1. <<>> \in Seq(Addr)
    OBVIOUS
  <2> QED BY <2>1, <1>3
<1>11. w \in [Addr -> Description]
  BY <1>4, NoneFits
<1>12. /\ m.entry = e /\ m.page_classes = c /\ m.classes = s /\ m.desc = w
       /\ m.lost = {} /\ m.hit = {}
  BY <1>5
<1>13. m \in State
  BY <1>5, <1>8, <1>9, <1>10, <1>11 DEF State
<1>14. \A p \in Page \ {0} : e[p] = FREE /\ c[p] = 0
  BY <1>1, <1>2
<1>15. e[0] = BUSY /\ c[0] = 0
  BY <1>1, <1>2, <1>7
<1>16. BUSY # FREE /\ BUSY # MULTI /\ FREE # MULTI /\ \A p \in Page \ {0} : PageAddr(p) # FREE
  BY PageAddrFacts, UnitsOfAPage DEF BUSY, FREE, MULTI
<1>17. Smallest(m, {0})
  <2>1. \A p \in Page \ {0} : Small0(m, p)
    BY <1>12, <1>14, <1>16 DEF Small0
  <2>2. Roomy(m, {0}) = {} /\ RoomyList(m, {0}) = {}
    BY <1>12, <1>14, <1>16 DEF Roomy, RoomyList
  <2>3. IsList(m.classes[0], RoomyList(m, {0}))
    BY <2>2, <1>3, <1>7, <1>12, ListEmpty
  <2> QED BY <2>1, <2>2, <2>3, <1>7, <1>12, <1>15, <1>16 DEF Smallest, SmallestBut
<1>18. Pages(m, {0}, {})
  <2>1. \A p \in Page : p = 0 <=> p = 0 \/ m.entry[p] = MULTI
    BY <1>12, <1>14, <1>16
  <2>2. m.entry[0] = BUSY /\ m.page_classes[0] = 0
    BY <1>12, <1>15
  <2> QED BY <2>1, <2>2, <1>7, <1>12 DEF Pages
<1>19. Lists(m, {})
  <2> SUFFICES ASSUME NEW k \in Class \ {0} PROVE IsList(m.classes[k], Rooms(m, {}, k))
    BY DEF Lists
  <2>1. Rooms(m, {}, k) = {}
    BY DEF Rooms
  <2>2. m.classes[k] = <<>>
    BY <1>3, <1>12
  <2> QED BY <2>1, <2>2, ListEmpty
<1>20. Owned(m, {}, {0}, {})
  <2>1. UnitsUsed(m, {0}) = {}
    BY <1>12, <1>14 DEF UnitsUsed, UsedOf
  <2>2. UsedLarger(m, {}) = {}
    BY DEF UsedLarger
  <2>3. Tiny({}) = {} /\ Mid({}) = {} /\ LostBlocks(m) = {}
    BY <1>12 DEF Tiny, Mid, LostBlocks
  <2> QED BY <2>1, <2>2, <2>3 DEF Owned
<1>21. Wholes(m, Big({}))
  <2>1. Big({}) = {}
    BY DEF Big
  <2>2. \A q \in Page : m.entry[q] # MULTI
    BY <1>12, <1>14, <1>15, <1>16
  <2> QED BY <2>1, <2>2 DEF Wholes
<1>22. InvOf(m, {}, {0}, {})
  <2>1. NoneWhole(m, {})
    BY DEF NoneWhole
  <2> QED BY <2>1, <1>12, <1>13, <1>17, <1>18, <1>19, <1>20, <1>21 DEF InvOf, Sound
<1> QED BY <1>6, <1>7, <1>22 DEF Holds

(* What a call leaves behind is what the next one starts from.             *)
LEMMA ThenNow ==
  ASSUME NEW m, NEW L, Holds(m, L), NEW B, B = L, Then(m, B)
  PROVE  Holds(Now, live)'
<1>1. m \in State
  BY DEF Holds, InvOf, Sound
<1>2. m = [entry |-> m.entry, page_classes |-> m.page_classes, classes |-> m.classes,
           desc |-> m.desc, lost |-> m.lost, hit |-> m.hit]
  BY <1>1 DEF State
<1>3. /\ mi'.entry = m.entry /\ mi'.page_classes = m.page_classes
      /\ mi'.classes = m.classes /\ mi'.desc = m.desc
      /\ lost' = m.lost /\ hit' = m.hit /\ live' = B
  BY DEF Then
<1>4. Now' = m
  BY <1>2, <1>3 DEF Now
<1> QED BY <1>3, <1>4

(* A step keeps the invariant, and takes, gives or moves one block.        *)
LEMMA StepHolds ==
  Countable /\ Wide = FALSE /\ Holds(Now, live) /\ [Next]_vars => Holds(Now, live)'
<1> SUFFICES ASSUME Countable, ~ Wide, Holds(Now, live), [Next]_vars PROVE Holds(Now, live)'
  OBVIOUS
<1>1. CASE UNCHANGED vars
  BY <1>1 DEF vars, Now
<1>2. ASSUME NEW k \in Requests, Alloc(k) PROVE Holds(Now, live)'
  <2>1. PICK x \in MemAlloc(Now, k) :
          Then(x.m, IF x.ret = NULL THEN live ELSE live \cup {Extent(x.ret, k)})
    BY <1>2 DEF Alloc
  <2>2. Allocates(live, k, x)
    BY <2>1, Allocating
  <2> QED BY <2>1, <2>2, ThenNow DEF Allocates
<1>3. ASSUME NEW b \in live, Free(b) PROVE Holds(Now, live)'
  <2>1. PICK m \in MemFree(Now, b.addr) : Then(m, live \ {b})
    BY <1>3 DEF Free
  <2>2. Holds(m, live \ {b})
    BY <2>1, Freeing
  <2> QED BY <2>1, <2>2, ThenNow
<1>4. ASSUME NEW b \in live, NEW k \in Requests, Realloc(b, k) PROVE Holds(Now, live)'
  <2>1. PICK x \in MemAlloc(Now, k) :
          \/ x.ret = NULL /\ Then(x.m, live)
          \/ /\ x.ret # NULL
             /\ \E m \in MemFree(x.m, b.addr) :
                  Then(m, (live \ {b}) \cup {Extent(x.ret, k)})
    BY <1>4 DEF Realloc
  <2>2. Allocates(live, k, x)
    BY <2>1, Allocating
  <2>3. CASE x.ret = NULL
    BY <2>1, <2>2, <2>3, ThenNow DEF Allocates
  <2>4. CASE x.ret # NULL
    <3>1. PICK m \in MemFree(x.m, b.addr) : Then(m, (live \ {b}) \cup {Extent(x.ret, k)})
      BY <2>1, <2>4
    <3>2. PICK n : n = Extent(x.ret, k)
      OBVIOUS
    <3>3. n \notin live /\ Holds(x.m, live \cup {n})
      BY <2>2, <2>4, <3>2 DEF Allocates
    <3>4. Holds(m, (live \cup {n}) \ {b})
      <4>1. b \in live \cup {n}
        OBVIOUS
      <4> QED BY <4>1, <3>1, <3>3, Freeing
    <3>5. (live \cup {n}) \ {b} = (live \ {b}) \cup {n}
      BY <3>3
    <3> QED BY <3>1, <3>2, <3>4, <3>5, ThenNow
  <2> QED BY <2>3, <2>4
<1> QED BY <1>1, <1>2, <1>3, <1>4 DEF Next

-----------------------------------------------------------------------------
(* What each unit belongs to.                                              *)

(* Unit u lies in the block a of a page that is cut into blocks, or is the *)
(* descriptor in it; what that block is.                                   *)
InCell(m, F, G, a, u) ==
  LET p == PageOf(u) IN
  /\ u \in Addr /\ a \in Addr /\ PageOf(a) = p /\ p \in G \cup (Page \ F) /\ m.entry[p] # FREE
  /\ a <= u /\ u < a + Size(m.page_classes[p])
  /\ a \in Blocks(p, m.page_classes[p]) \/ (p \notin F /\ a = PageAddr(p))
CellThing(m, F, G, a) ==
  LET p == PageOf(a)
      b == Extent(a, m.page_classes[p])
  IN  IF (p \notin F /\ a = PageAddr(p)) \/ a \in Descs(m, G) THEN <<"descriptor", 0, b>>
      ELSE IF a \in FreeOf(m, p) THEN <<"free", m.entry[p], b>>
      ELSE IF b \in m.lost THEN <<"lost", 0, b>>
      ELSE <<"live", 0, b>>

(* The thing t is the one that unit u belongs to, and begins at s.         *)
OfCell(m, F, G, t, u) == \E a \in Addr : InCell(m, F, G, a, u) /\ t = CellThing(m, F, G, a)
OfLostPage(m, F, G, t, u) ==
  /\ u \in Addr /\ PageOf(u) \in F \ G /\ m.entry[PageOf(u)] # MULTI
  /\ t = <<"lost", 0, WholePage(PageOf(u))>>
OfPages(m, L, t, u) ==
  /\ u \in Addr /\ m.entry[PageOf(u)] = MULTI
  /\ \E b \in Big(L), p \in Page :
       WholeBlock(m, b, p) /\ PageOf(u) \in RunOf(m, p) /\ t = <<"live", 0, b>>
Owns(m, L, F, G, t, u) ==
  OfCell(m, F, G, t, u) \/ OfLostPage(m, F, G, t, u) \/ OfPages(m, L, t, u)

(* It lies in one block.                                                   *)
LEMMA OneCell ==
  ASSUME NEW m, NEW L, NEW F, NEW G, InvOf(m, L, F, G), NEW u, NEW a, NEW c,
         InCell(m, F, G, a, u), InCell(m, F, G, c, u)
  PROVE  a = c
<1>1. m \in State /\ Smallest(m, F) /\ Pages(m, F, G)
  BY DEF InvOf, Sound
<1>2. PICK p, k : p = PageOf(u) /\ k = m.page_classes[p]
  OBVIOUS
<1>3. /\ u \in Addr /\ a \in Addr /\ c \in Addr /\ p \in G \cup (Page \ F)
      /\ a <= u /\ u < a + Size(k) /\ c <= u /\ u < c + Size(k)
      /\ (a \in Blocks(p, k) \/ p \notin F)
      /\ (c \in Blocks(p, k) \/ p \notin F)
  BY <1>2 DEF InCell
<1>4. u \in Nat /\ a \in Nat /\ c \in Nat
  BY <1>3, PageOfFacts
<1>5. CASE p \in G
  <2>1. p \in F /\ p \in Page /\ k \in Class
    BY <1>1, <1>2, <1>5, LargerFacts
  <2>2. a \in Blocks(p, k) /\ c \in Blocks(p, k)
    BY <1>2, <2>1 DEF InCell
  <2>3. a = c \/ a + Size(k) <= c \/ c + Size(k) <= a
    BY <2>1, <2>2, BlockFacts
  <2>4. Size(k) \in Nat
    BY <2>1, BlocksOfAClass
  <2> QED BY <2>3, <2>4, <1>3, <1>4
<1>6. CASE p \in Page \ F
  <2>1. k = 0
    BY <1>1, <1>2, <1>6 DEF Smallest, SmallestBut, Small0
  <2>2. Size(k) = 1
    BY <2>1, SmallestClass
  <2> QED BY <2>2, <1>3, <1>4
<1> QED BY <1>3, <1>5, <1>6

(* It belongs to one thing.                                                *)
LEMMA OneOwner ==
  ASSUME NEW m, NEW L, NEW F, NEW G, InvOf(m, L, F, G), NEW u, NEW s, NEW t,
         Owns(m, L, F, G, s, u), Owns(m, L, F, G, t, u)
  PROVE  s = t
<1>1. m \in State /\ Smallest(m, F) /\ Pages(m, F, G) /\ Wholes(m, Big(L))
  BY DEF InvOf, Sound
<1>2. PICK p : p = PageOf(u)
  OBVIOUS
<1>3. ASSUME p \in G \cup (Page \ F) PROVE ~ (p \in F \ G) /\ m.entry[p] # MULTI
  <2>1. CASE p \in G
    BY <2>1, <1>1, LargerFacts
  <2>2. CASE p \in Page \ F
    <3>1. Small0(m, p)
      BY <2>2, <1>1 DEF Smallest, SmallestBut
    <3>2. PageAddr(p) # MULTI
      BY <2>2, PageAddrFacts DEF MULTI
    <3> QED BY <2>2, <3>1, <3>2 DEF Small0, MULTI, BUSY, FREE
  <2> QED BY <1>3, <2>1, <2>2
<1>4. CASE OfCell(m, F, G, s, u) \/ OfCell(m, F, G, t, u)
  <2>1. p \in G \cup (Page \ F)
    BY <1>2, <1>4 DEF OfCell, InCell
  <2>2. OfCell(m, F, G, s, u) /\ OfCell(m, F, G, t, u)
    BY <2>1, <1>2, <1>3 DEF Owns, OfLostPage, OfPages
  <2>3. PICK a \in Addr : InCell(m, F, G, a, u) /\ s = CellThing(m, F, G, a)
    BY <2>2 DEF OfCell
  <2>4. PICK c \in Addr : InCell(m, F, G, c, u) /\ t = CellThing(m, F, G, c)
    BY <2>2 DEF OfCell
  <2>5. a = c
    BY <2>3, <2>4, OneCell
  <2> QED BY <2>3, <2>4, <2>5
<1>5. CASE OfPages(m, L, s, u) /\ OfPages(m, L, t, u)
  <2>1. PICK b \in Big(L), i \in Page :
          WholeBlock(m, b, i) /\ p \in RunOf(m, i) /\ s = <<"live", 0, b>>
    BY <1>2, <1>5 DEF OfPages
  <2>2. PICK c \in Big(L), j \in Page :
          WholeBlock(m, c, j) /\ p \in RunOf(m, j) /\ t = <<"live", 0, c>>
    BY <1>2, <1>5 DEF OfPages
  <2>3. i = j
    BY <2>1, <2>2, <1>1, RunsApart
  <2>4. b.addr = c.addr
    BY <2>1, <2>2, <2>3 DEF WholeBlock
  <2> QED BY <2>1, <2>2, <2>4, <1>1 DEF Wholes
<1>6. CASE OfLostPage(m, F, G, s, u) /\ OfLostPage(m, F, G, t, u)
  BY <1>6 DEF OfLostPage
<1> QED BY <1>4, <1>5, <1>6 DEF Owns, OfLostPage, OfPages

(* The thing t owns each of its units, and there is one; they are not in   *)
(* page 0.                                                                 *)
Filled(m, L, F, G, t) ==
  /\ t[3].addr \in UnitsOf(t[3])
  /\ \A u \in UnitsOf(t[3]) : Owns(m, L, F, G, t, u) /\ u \in Addr
PastPage0(b) == \A u \in UnitsOf(b) : u >= PageUnits /\ u \in Addr

(* A block of whole pages owns each of its units.                          *)
LEMMA BigFilled ==
  ASSUME NEW m, NEW L, NEW F, NEW G, InvOf(m, L, F, G), NEW b \in Big(L)
  PROVE  Filled(m, L, F, G, <<"live", 0, b>>) /\ PastPage0(b)
<1>1. m \in State /\ Wholes(m, Big(L)) /\ L \in SUBSET Asked
  BY DEF InvOf, Sound
<1>2. PICK p \in Page : WholeBlock(m, b, p)
  BY <1>1 DEF Wholes
<1>3. PICK n : n = m.page_classes[p]
  OBVIOUS
<1>4. /\ p # 0 /\ b.addr = PageAddr(p) /\ n >= 1 /\ p + n <= NPages /\ b.size <= n * PageUnits
      /\ \A q \in RunOf(m, p) : m.entry[q] = MULTI
  BY <1>2, <1>3 DEF WholeBlock
<1>5. n \in Nat
  <2>1. n \in -128 .. 127
    BY <1>1, <1>3 DEF State
  <2> QED BY <2>1, <1>4
<1>6. b.size \in Nat /\ b.size >= 1
  BY <1>1, ZoneAssumption, SizePositive DEF Big, Asked
<1>7. p \in Nat /\ NPages \in Nat /\ PageAddr(p) \in Nat /\ PageAddr(p) >= PageUnits
  BY <1>4, ZoneAssumption, PageAddrFacts
<1>8. b.addr \in UnitsOf(b)
  BY <1>4, <1>6, <1>7 DEF UnitsOf
<1>9. ASSUME NEW u \in UnitsOf(b)
      PROVE  Owns(m, L, F, G, <<"live", 0, b>>, u) /\ u >= PageUnits /\ u \in Addr
  <2>1. u \in Nat /\ PageAddr(p) <= u /\ u < PageAddr(p) + n * PageUnits
    <3>1. n * PageUnits \in Nat
      BY <1>5, UnitsOfAPage
    <3> QED BY <3>1, <1>4, <1>6, <1>7 DEF UnitsOf
  <2>2. p * PageUnits <= u /\ u < (p + n) * PageUnits
    BY <2>1, <1>5, <1>7, UnitsOfAPage DEF PageAddr
  <2>3. (p + n) * PageUnits <= NPages * PageUnits
    BY <1>4, <1>5, <1>7, UnitsOfAPage, Monotone
  <2>4. u \in Addr
    <3>1. (p + n) * PageUnits \in Nat /\ NPages * PageUnits \in Nat
      BY <1>5, <1>7, UnitsOfAPage
    <3> QED BY <3>1, <2>1, <2>2, <2>3 DEF Addr
  <2>5. PICK q : q = PageOf(u)
    OBVIOUS
  <2>6. q \in Page /\ PageAddr(q) <= u /\ u < PageAddr(q) + PageUnits
    BY <2>4, <2>5, PageOfFacts
  <2>7. q \in Nat /\ q * PageUnits <= u /\ u < (q + 1) * PageUnits
    BY <2>6, ZoneAssumption, UnitsOfAPage DEF PageAddr, Page
  <2>8. p <= q
    <3>1. q < p => (q + 1) * PageUnits <= p * PageUnits
      BY <2>7, <1>7, UnitsOfAPage, Monotone
    <3>2. (q + 1) * PageUnits \in Nat /\ p * PageUnits \in Nat
      BY <2>7, <1>7, UnitsOfAPage
    <3> QED BY <3>1, <3>2, <2>1, <2>2, <2>7, <1>7
  <2>9. q < p + n
    <3>1. p + n <= q => (p + n) * PageUnits <= q * PageUnits
      BY <2>7, <1>5, <1>7, UnitsOfAPage, Monotone
    <3>2. q * PageUnits \in Nat /\ (p + n) * PageUnits \in Nat
      BY <2>7, <1>5, <1>7, UnitsOfAPage
    <3> QED BY <3>1, <3>2, <2>1, <2>2, <2>7, <1>5, <1>7
  <2>10. q \in RunOf(m, p)
    BY <2>7, <2>8, <2>9, <1>3, <1>5, <1>7 DEF RunOf
  <2>11. OfPages(m, L, <<"live", 0, b>>, u)
    BY <2>4, <2>5, <2>10, <1>2, <1>4 DEF OfPages
  <2>12. u >= PageUnits
    BY <2>1, <1>7, UnitsOfAPage
  <2> QED BY <2>4, <2>11, <2>12 DEF Owns
<1> QED BY <1>8, <1>9 DEF Filled, PastPage0

(* A block in a page owns each of its units.                               *)
LEMMA CellFilled ==
  ASSUME NEW m, NEW L, NEW F, NEW G, InvOf(m, L, F, G), NEW p \in G \cup (Page \ F),
         m.entry[p] # FREE, NEW a \in Addr, NEW k, k = m.page_classes[p],
         a \in Blocks(p, k) \/ (p \notin F /\ a = PageAddr(p)),
         NEW t, t = CellThing(m, F, G, a)
  PROVE  /\ t[3] = Extent(a, k) /\ PageOf(a) = p
         /\ Filled(m, L, F, G, t) /\ PastPage0(Extent(a, k))
<1>1. m \in State /\ Smallest(m, F) /\ Pages(m, F, G)
  BY DEF InvOf, Sound
<1>2. p \in Page \ {0} /\ k \in Class /\ (p \notin F => k = 0) /\ (p \in G => p \in F)
  <2>1. CASE p \in G
    BY <2>1, <1>1, LargerFacts
  <2>2. CASE p \in Page \ F
    <3>1. 0 \in F /\ Small0(m, p)
      BY <2>2, <1>1 DEF Smallest, SmallestBut
    <3>2. k = 0
      BY <3>1 DEF Small0
    <3> QED BY <2>2, <3>1, <3>2, <1>1, SmallestClass DEF Pages
  <2> QED BY <2>1, <2>2
<1>3. PageOf(a) = p
  BY <1>2, BlockFacts, PageAddrFacts
<1>4. t[3] = Extent(a, k)
  BY <1>3 DEF CellThing
<1>5. Size(k) \in Nat /\ Size(k) >= 1 /\ a \in Nat
  BY <1>2, BlocksOfAClass, PageOfFacts
<1>6. PageAddr(p) <= a /\ a + Size(k) <= PageAddr(p) + PageUnits
  <2>1. CASE a \in Blocks(p, k)
    BY <2>1, <1>2, BlockFacts
  <2>2. CASE p \notin F /\ a = PageAddr(p)
    <3>1. Size(k) = 1
      BY <2>2, <1>2, SmallestClass
    <3> QED BY <2>2, <3>1, <1>2, <1>5, UnitsOfAPage
  <2> QED BY <2>1, <2>2
<1>7. PICK b : b = Extent(a, k)
  OBVIOUS
<1>8. b.addr = a /\ b.size = Size(k) /\ t[3] = b
  BY <1>4, <1>7 DEF Extent
<1>9. a \in UnitsOf(b)
  BY <1>5, <1>8 DEF UnitsOf
<1>10. ASSUME NEW u \in UnitsOf(b)
       PROVE  Owns(m, L, F, G, t, u) /\ u >= PageUnits /\ u \in Addr
  <2>1. u \in Int /\ a <= u /\ u < a + Size(k)
    BY <1>5, <1>8 DEF UnitsOf
  <2>2. PageAddr(p) \in Nat /\ PageAddr(p) >= PageUnits /\ PageUnits \in Nat
    BY <1>2, PageAddrFacts, UnitsOfAPage
  <2>3. PageAddr(p) <= u /\ u < PageAddr(p) + PageUnits /\ u >= PageUnits
    BY <2>1, <2>2, <1>5, <1>6
  <2>4. u \in Addr /\ PageOf(u) = p
    BY <2>1, <2>3, <1>2, PageOfFacts
  <2>5. InCell(m, F, G, a, u)
    BY <2>1, <2>4, <1>3 DEF InCell
  <2>6. OfCell(m, F, G, t, u)
    BY <2>5 DEF OfCell
  <2> QED BY <2>3, <2>4, <2>6 DEF Owns
<1> QED BY <1>3, <1>4, <1>8, <1>9, <1>10 DEF Filled, PastPage0

-----------------------------------------------------------------------------
(* The properties, from the invariant.                                     *)

(* The descriptors: one at the beginning of each page of the smallest      *)
(* class with room, and those of the larger pages.                         *)
DescriptorOf(m, F, G, p, d) ==
  /\ d = m.entry[p] /\ d \in Addr /\ d # FREE
  /\ \/ p \in Page \ F /\ d = PageAddr(p) /\ Describes(m, p, 0)
     \/ p \in G /\ d # BUSY /\ d \in Descs(m, G) /\ Describes(m, p, m.page_classes[p])

(* These are the descriptors, and there are no others.                     *)
LEMMA DescriptorFacts ==
  ASSUME NEW F, NEW G, InvOf(Now, live, F, G)
  PROVE  /\ \A d \in Descriptors : \E p \in Page : DescriptorOf(Now, F, G, p, d)
         /\ \A p \in Page, d \in Addr : DescriptorOf(Now, F, G, p, d) => d \in Descriptors
<1>1. PICK m : m = Now
  OBVIOUS
<1>2. mi.entry = m.entry
  BY <1>1 DEF Now
<1>3. m \in State /\ Smallest(m, F) /\ Pages(m, F, G)
  BY <1>1 DEF InvOf, Sound
<1>4. ASSUME NEW d \in Descriptors
      PROVE  \E p \in Page : DescriptorOf(m, F, G, p, d)
  <2>1. PICK p \in Page : d = m.entry[p] /\ d \notin {FREE, BUSY, MULTI}
    BY <1>2 DEF Descriptors
  <2>2. d \in Addr
    BY <2>1, <1>3 DEF State
  <2>3. CASE p \in G
    <3>1. Describes(m, p, m.page_classes[p])
      BY <2>1, <2>3, <1>3, LargerFacts
    <3> QED BY <3>1, <2>1, <2>2, <2>3 DEF DescriptorOf, Descs
  <2>4. CASE p \in Page \ F
    <3>1. Small0(m, p)
      BY <2>4, <1>3 DEF Smallest, SmallestBut
    <3>2. d = PageAddr(p) /\ Describes(m, p, 0)
      BY <2>1, <3>1 DEF Small0
    <3> QED BY <3>2, <2>1, <2>2, <2>4 DEF DescriptorOf
  <2>5. p \notin F \ G
    BY <2>1, <1>3 DEF Pages
  <2> QED BY <2>3, <2>4, <2>5
<1>5. ASSUME NEW p \in Page, NEW d \in Addr, DescriptorOf(m, F, G, p, d)
      PROVE  d \in Descriptors
  <2>1. d # BUSY /\ d # MULTI
    BY PageOfFacts DEF BUSY, MULTI
  <2> QED BY <2>1, <1>2, <1>5 DEF DescriptorOf, Descriptors
<1> QED BY <1>1, <1>4, <1>5

(* An owner's block, of whatever size, owns its units.                     *)
LEMMA LiveFilled ==
  ASSUME NEW m, NEW L, NEW F, NEW G, InvOf(m, L, F, G), NEW b \in L
  PROVE  Filled(m, L, F, G, <<"live", 0, b>>) /\ PastPage0(b)
<1>1. /\ m \in State /\ Smallest(m, F) /\ Pages(m, F, G) /\ Owned(m, L, F, G)
      /\ L \in SUBSET Asked /\ Sound(m, L, F, G)
  BY DEF InvOf, Sound
<1>2. /\ b.size \in Nat /\ b.size >= 1 /\ b = [addr |-> b.addr, size |-> b.size]
      /\ b.addr \in Addr
  BY <1>1, ZoneAssumption, SizePositive DEF Asked
<1>3. \A q \in Page : WholePage(q) \in m.lost => q \in F
  BY <1>1 DEF Pages
<1>4. CASE b.size = 1
  <2>1. PICK a : a = b.addr
    OBVIOUS
  <2>2. a \in UnitsUsed(m, F) /\ a \notin Descs(m, G)
    BY <2>1, <1>1, <1>4 DEF Owned, Tiny
  <2>3. PICK p : p = PageOf(a)
    OBVIOUS
  <2>4. /\ p \in Page \ F /\ a \in Blocks(p, 0) /\ m.entry[p] # FREE /\ a # PageAddr(p)
        /\ a \notin FreeOf(m, p) /\ a \in Addr
    BY <2>2, <2>3, <1>1, UnitFacts DEF Smallest
  <2>5. m.page_classes[p] = 0
    BY <2>4, <1>1 DEF Smallest, SmallestBut, Small0
  <2>6. b = Extent(a, 0)
    BY <2>1, <1>2, <1>4, SmallestClass DEF Extent
  <2>7. b \notin m.lost
    <3> SUFFICES ASSUME b \in m.lost PROVE FALSE
      OBVIOUS
    <3>1. \A q \in Page : b # WholePage(q)
      BY <1>4, UnitsOfAPage DEF WholePage
    <3>2. b \in UsedLarger(m, G)
      BY <3>1, <1>1 DEF Owned, LostBlocks
    <3>3. PICK q \in G : b \in UsedIn(m, q)
      BY <3>2 DEF UsedLarger
    <3>4. b.size > 1
      BY <3>3, <1>1, UsedInFacts
    <3> QED BY <3>4, <1>4
  <2>8. CellThing(m, F, G, a) = <<"live", 0, b>>
    BY <2>2, <2>3, <2>4, <2>5, <2>6, <2>7 DEF CellThing
  <2> QED BY <2>4, <2>5, <2>8, CellFilled
<1>5. CASE b.size > 1 /\ 2 * b.size < PageUnits
  <2>1. PICK a, p, k : a = b.addr /\ p = PageOf(a) /\ k = m.page_classes[p]
    OBVIOUS
  <2>2. OwnedAt(m, b, G, p, k, a)
    BY <2>1, <1>1, <1>5, MidOwner
  <2>3. /\ p \in G /\ a \in Blocks(p, k) /\ a \notin FreeOf(m, p) /\ a \in Addr
        /\ b = Extent(a, k) /\ \A q \in Page : b # WholePage(q)
    BY <2>2 DEF OwnedAt
  <2>4. p \in F /\ m.entry[p] # FREE
    BY <2>3, <1>1, LargerFacts
  <2>5. a \notin Descs(m, G)
    <3> SUFFICES ASSUME a \in Descs(m, G) PROVE FALSE
      OBVIOUS
    <3>1. a \in UnitsUsed(m, F)
      BY <1>1, LargerFacts DEF Descs
    <3>2. p \in Page \ F
      BY <3>1, <2>1, <1>1, UnitFacts DEF Smallest
    <3> QED BY <3>2, <2>4
  <2>6. b \notin m.lost
    <3>1. b \in Mid(L)
      BY <1>5 DEF Mid
    <3>2. b \notin LostBlocks(m)
      BY <3>1, <1>1 DEF Owned
    <3> QED BY <3>2, <2>3 DEF LostBlocks
  <2>7. CellThing(m, F, G, a) = <<"live", 0, b>>
    BY <2>1, <2>3, <2>4, <2>5, <2>6 DEF CellThing
  <2> QED BY <2>1, <2>3, <2>4, <2>7, CellFilled
<1>6. CASE 2 * b.size >= PageUnits
  BY <1>6, BigFilled DEF Big
<1> QED BY <1>2, <1>4, <1>5, <1>6, UnitsOfAPage

(* So does what a failed call has lost.                                    *)
LEMMA LostFilled ==
  ASSUME NEW m, NEW L, NEW F, NEW G, InvOf(m, L, F, G), NEW b \in m.lost
  PROVE  Filled(m, L, F, G, <<"lost", 0, b>>)
<1>1. /\ m \in State /\ Smallest(m, F) /\ Pages(m, F, G) /\ Owned(m, L, F, G)
      /\ L \in SUBSET Asked
  BY DEF InvOf, Sound
<1>2. CASE \E p \in Page : b = WholePage(p)
  <2>1. PICK p \in Page : b = WholePage(p)
    BY <1>2
  <2>2. p \in F \ G /\ m.entry[p] # MULTI
    BY <2>1, <1>1 DEF Pages
  <2>3. b.addr = PageAddr(p) /\ b.size = PageUnits
    BY <2>1 DEF WholePage
  <2>4. /\ PageAddr(p) \in Nat /\ PageUnits \in Nat /\ PageUnits >= 4
    BY PageAddrFacts, UnitsOfAPage
  <2>5. ASSUME NEW u \in UnitsOf(b)
        PROVE  u \in Addr /\ PageOf(u) = p /\ u >= PageAddr(p)
    <3>1. u \in Int /\ PageAddr(p) <= u /\ u < PageAddr(p) + PageUnits
      BY <2>3, <2>4 DEF UnitsOf
    <3> QED BY <3>1, PageOfFacts
  <2>6. ASSUME NEW u \in UnitsOf(b)
        PROVE  Owns(m, L, F, G, <<"lost", 0, b>>, u) /\ u \in Addr
    <3>1. OfLostPage(m, F, G, <<"lost", 0, b>>, u)
      BY <2>1, <2>2, <2>5, <2>6 DEF OfLostPage
    <3> QED BY <3>1, <2>5, <2>6 DEF Owns
  <2>7. b.addr \in UnitsOf(b)
    BY <2>3, <2>4 DEF UnitsOf
  <2> QED BY <2>6, <2>7 DEF Filled
<1>3. CASE ~ \E p \in Page : b = WholePage(p)
  <2>1. b \in LostBlocks(m)
    BY <1>3 DEF LostBlocks
  <2>2. PICK p \in G : b \in UsedIn(m, p)
    BY <2>1, <1>1 DEF Owned, UsedLarger
  <2>3. PICK a, k : a = b.addr /\ k = m.page_classes[p]
    OBVIOUS
  <2>4. /\ a \in Addr /\ PageOf(a) = p /\ a \in Blocks(p, k) /\ a \notin FreeOf(m, p)
        /\ b = Extent(a, k)
    BY <2>2, <2>3, <1>1, UsedInFacts
  <2>5. p \in F /\ m.entry[p] # FREE
    BY <2>2, <1>1, LargerFacts
  <2>6. a \notin Descs(m, G)
    <3> SUFFICES ASSUME a \in Descs(m, G) PROVE FALSE
      OBVIOUS
    <3>1. a \in UnitsUsed(m, F)
      BY <1>1, LargerFacts DEF Descs
    <3>2. p \in Page \ F
      BY <3>1, <2>4, <1>1, UnitFacts DEF Smallest
    <3> QED BY <3>2, <2>5
  <2>7. CellThing(m, F, G, a) = <<"lost", 0, b>>
    BY <2>3, <2>4, <2>5, <2>6 DEF CellThing
  <2> QED BY <2>2, <2>3, <2>4, <2>5, <2>7, CellFilled
<1> QED BY <1>2, <1>3

(* So does a free block.                                                   *)
LEMMA FreeFilled ==
  ASSUME NEW m, NEW L, NEW F, NEW G, InvOf(m, L, F, G), NEW p, NEW d,
         DescriptorOf(m, F, G, p, d), NEW a \in m.desc[d].block
  PROVE  Filled(m, L, F, G, <<"free", d, Extent(a, m.desc[d].class)>>)
<1>1. m \in State /\ Smallest(m, F) /\ Pages(m, F, G)
  BY DEF InvOf, Sound
<1>2. d = m.entry[p] /\ d # FREE
  BY DEF DescriptorOf
<1>3. d # BUSY
  BY PageOfFacts DEF DescriptorOf, BUSY
<1>4. FreeOf(m, p) = m.desc[d].block
  BY <1>2, <1>3 DEF FreeOf
<1>5. PICK k : k = m.page_classes[p]
  OBVIOUS
<1>6. CASE p \in Page \ F
  <2>1. d = PageAddr(p)
    BY <1>1, <1>6 DEF DescriptorOf, Pages
  <2>2. Small0(m, p)
    BY <1>6, <1>1 DEF Smallest, SmallestBut
  <2>3. k = 0 /\ Describes(m, p, 0)
    BY <1>2, <1>5, <2>1, <2>2 DEF Small0
  <2>4. m.desc[d].class = k /\ a \in Blocks(p, k)
    BY <2>3, <1>2 DEF Describes
  <2>5. a \in Addr /\ PageOf(a) = p /\ a # PageAddr(p)
    BY <2>3, <2>4, <1>6, UnitBlocks
  <2>6. a \notin Descs(m, G)
    <3> SUFFICES ASSUME a \in Descs(m, G) PROVE FALSE
      OBVIOUS
    <3>1. a \in UnitsUsed(m, F)
      BY <1>1, LargerFacts DEF Descs
    <3>2. a \notin FreeOf(m, p)
      BY <3>1, <2>5, <1>1, UnitFacts DEF Smallest
    <3> QED BY <3>2, <1>4
  <2>7. CellThing(m, F, G, a) = <<"free", d, Extent(a, k)>>
    BY <2>5, <2>6, <1>2, <1>4, <1>5 DEF CellThing
  <2> QED BY <2>4, <2>5, <2>7, <1>2, <1>5, <1>6, CellFilled
<1>7. CASE p \in G
  <2>1. p \in F /\ p \in Page /\ k \in Class
    BY <1>1, <1>5, <1>7, LargerFacts
  <2>2. Describes(m, p, k)
    BY <2>1, <1>5 DEF DescriptorOf
  <2>3. m.desc[d].class = k /\ a \in Blocks(p, k)
    BY <2>2, <1>2 DEF Describes
  <2>4. a \in Addr /\ PageOf(a) = p
    BY <2>1, <2>3, BlockFacts
  <2>5. a \notin Descs(m, G)
    <3> SUFFICES ASSUME a \in Descs(m, G) PROVE FALSE
      OBVIOUS
    <3>1. a \in UnitsUsed(m, F)
      BY <1>1, LargerFacts DEF Descs
    <3>2. p \in Page \ F
      BY <3>1, <2>4, <1>1, UnitFacts DEF Smallest
    <3> QED BY <3>2, <2>1
  <2>6. CellThing(m, F, G, a) = <<"free", d, Extent(a, k)>>
    BY <2>1, <2>4, <2>5, <1>2, <1>4, <1>5 DEF CellThing
  <2> QED BY <2>1, <2>3, <2>4, <2>6, <1>2, <1>5, <1>7, CellFilled
<1> QED BY <1>6, <1>7 DEF DescriptorOf

(* So does a descriptor.                                                   *)
LEMMA DescriptorFilled ==
  ASSUME NEW m, NEW L, NEW F, NEW G, InvOf(m, L, F, G), NEW p, NEW d,
         DescriptorOf(m, F, G, p, d)
  PROVE  Filled(m, L, F, G, <<"descriptor", 0, Extent(d, 0)>>)
<1>1. m \in State /\ Smallest(m, F) /\ Pages(m, F, G)
  BY DEF InvOf, Sound
<1>2. d = m.entry[p] /\ d # FREE /\ d \in Addr
  BY DEF DescriptorOf
<1>3. CASE p \in Page \ F
  <2>1. d = PageAddr(p)
    BY <1>1, <1>3 DEF DescriptorOf, Pages
  <2>2. m.page_classes[p] = 0 /\ PageOf(d) = p
    BY <2>1, <1>1, <1>3, PageAddrFacts DEF Smallest, SmallestBut, Small0
  <2>3. CellThing(m, F, G, d) = <<"descriptor", 0, Extent(d, 0)>>
    BY <2>1, <2>2, <1>3 DEF CellThing
  <2> QED BY <2>1, <2>2, <2>3, <1>2, <1>3, CellFilled
<1>4. CASE p \in G
  <2>1. p \in F
    BY <1>1, <1>4, LargerFacts
  <2>2. d \in Descs(m, G)
    BY <2>1 DEF DescriptorOf
  <2>3. d \in UnitsUsed(m, F)
    BY <2>2, <1>1, LargerFacts DEF Descs
  <2>4. PICK q : q = PageOf(d)
    OBVIOUS
  <2>5. q \in Page \ F /\ d \in Blocks(q, 0) /\ m.entry[q] # FREE
    BY <2>3, <2>4, <1>1, UnitFacts DEF Smallest
  <2>6. m.page_classes[q] = 0
    BY <2>5, <1>1 DEF Smallest, SmallestBut, Small0
  <2>7. CellThing(m, F, G, d) = <<"descriptor", 0, Extent(d, 0)>>
    BY <2>2, <2>4, <2>6 DEF CellThing
  <2> QED BY <2>5, <2>6, <2>7, <1>2, CellFilled
<1> QED BY <1>3, <1>4 DEF DescriptorOf


(* Every thing owns its units.                                             *)
LEMMA ThingFilled ==
  ASSUME NEW F, NEW G, InvOf(Now, live, F, G), NEW t \in Things
  PROVE  Filled(Now, live, F, G, t)
<1>1. Now.desc = mi.desc /\ Now.lost = lost
  BY DEF Now
<1>2. CASE t \in Tagged("live", 0, live)
  <2>1. PICK b \in live : t = <<"live", 0, b>>
    BY <1>2 DEF Tagged
  <2> QED BY <2>1, LiveFilled
<1>3. CASE t \in Tagged("lost", 0, lost)
  <2>1. PICK b \in lost : t = <<"lost", 0, b>>
    BY <1>3 DEF Tagged
  <2> QED BY <2>1, <1>1, LostFilled
<1>4. CASE t \in FreeThings
  <2>1. PICK d \in Descriptors : t \in Tagged("free", d, FreeBlocks(d))
    BY <1>4 DEF FreeThings
  <2>2. PICK b \in FreeBlocks(d) : t = <<"free", d, b>>
    BY <2>1 DEF Tagged
  <2>3. PICK a \in Now.desc[d].block : b = Extent(a, Now.desc[d].class)
    BY <2>2, <1>1 DEF FreeBlocks
  <2>4. PICK p \in Page : DescriptorOf(Now, F, G, p, d)
    BY DescriptorFacts
  <2> QED BY <2>2, <2>3, <2>4, FreeFilled
<1>5. CASE t \in Tagged("descriptor", 0, DescriptorBlocks)
  <2>1. PICK d \in Descriptors : t = <<"descriptor", 0, Extent(d, 0)>>
    BY <1>5 DEF Tagged, DescriptorBlocks
  <2>2. PICK p \in Page : DescriptorOf(Now, F, G, p, d)
    BY DescriptorFacts
  <2> QED BY <2>1, <2>2, DescriptorFilled
<1> QED BY <1>2, <1>3, <1>4, <1>5 DEF Things

(* Each kind of thing is a thing.                                          *)
LEMMA ThingKinds ==
  /\ \A b \in live : <<"live", 0, b>> \in Things
  /\ \A b \in lost : <<"lost", 0, b>> \in Things
  /\ \A d \in Descriptors : \A a \in mi.desc[d].block :
       <<"free", d, Extent(a, mi.desc[d].class)>> \in Things
  /\ \A d \in Descriptors : <<"descriptor", 0, Extent(d, 0)>> \in Things
<1>1. \A b \in live : <<"live", 0, b>> \in Things
  BY DEF Things, Tagged
<1>2. \A b \in lost : <<"lost", 0, b>> \in Things
  BY DEF Things, Tagged
<1>3. ASSUME NEW d \in Descriptors, NEW a \in mi.desc[d].block
      PROVE  <<"free", d, Extent(a, mi.desc[d].class)>> \in Things
  <2>1. Extent(a, mi.desc[d].class) \in FreeBlocks(d)
    BY DEF FreeBlocks
  <2>2. <<"free", d, Extent(a, mi.desc[d].class)>> \in Tagged("free", d, FreeBlocks(d))
    BY <2>1 DEF Tagged
  <2> QED BY <2>2 DEF Things, FreeThings
<1>4. ASSUME NEW d \in Descriptors PROVE <<"descriptor", 0, Extent(d, 0)>> \in Things
  <2>1. Extent(d, 0) \in DescriptorBlocks
    BY DEF DescriptorBlocks
  <2> QED BY <2>1 DEF Things, Tagged
<1> QED BY <1>1, <1>2, <1>3, <1>4

(* A unit of a page in use, but for the descriptor in a page of the        *)
(* smallest class, is in a thing that begins in the page.                  *)
LEMMA Covering ==
  ASSUME NEW F, NEW G, InvOf(Now, live, F, G), NEW p \in Page \ {0},
         mi.entry[p] # FREE, mi.entry[p] # MULTI, NEW u \in Int,
         PageAddr(p) <= u, u < PageAddr(p) + PageUnits,
         mi.page_classes[p] = 0 => u # PageAddr(p)
  PROVE  \E t \in Things : PageOf(t[3].addr) = p /\ u \in UnitsOf(t[3])
<1>1. PICK m : m = Now
  OBVIOUS
<1>2. /\ m.entry = mi.entry /\ m.page_classes = mi.page_classes
      /\ m.desc = mi.desc /\ m.lost = lost
  BY <1>1 DEF Now
<1>3. /\ m \in State /\ Smallest(m, F) /\ Pages(m, F, G) /\ Owned(m, live, F, G)
  BY <1>1 DEF InvOf, Sound
<1>4. u \in Addr /\ PageOf(u) = p /\ u \in Nat
  BY PageOfFacts
<1>5. CASE p \in Page \ F
  <2>1. Small0(m, p)
    BY <1>3, <1>5 DEF Smallest, SmallestBut
  <2>2. m.page_classes[p] = 0 /\ m.entry[p] \in {BUSY, PageAddr(p)}
    BY <2>1, <1>2 DEF Small0
  <2>3. u \in Blocks(p, 0)
    BY <2>2, <1>2, <1>4, UnitBlocks
  <2>4. \A x : PageOf(Extent(u, 0).addr) = p /\ u \in UnitsOf(Extent(u, 0))
    BY <1>4, SmallestClass DEF Extent, UnitsOf
  <2>5. CASE u \in FreeOf(m, p)
    <3>1. PICK d : d = m.entry[p]
      OBVIOUS
    <3>2. d # BUSY /\ u \in m.desc[d].block
      BY <2>5, <3>1 DEF FreeOf
    <3>3. d = PageAddr(p) /\ d \in Addr /\ Describes(m, p, 0) /\ d # FREE
      BY <2>1, <2>2, <3>1, <3>2, <1>2, PageAddrFacts DEF Small0
    <3>4. d \in Descriptors
      BY <3>1, <3>3, <1>1, <1>5, DescriptorFacts DEF DescriptorOf
    <3>5. m.desc[d].class = 0
      BY <3>1, <3>3 DEF Describes
    <3>6. <<"free", d, Extent(u, 0)>> \in Things
      BY <3>2, <3>4, <3>5, <1>2, ThingKinds
    <3> QED BY <3>6, <2>4
  <2>6. CASE u \notin FreeOf(m, p)
    <3>1. u \in UnitsUsed(m, F)
      BY <2>2, <2>3, <2>6, <1>2, <1>5 DEF UnitsUsed, UsedOf
    <3>2. CASE u \in Descs(m, G)
      <4>1. PICK q \in G : u = m.entry[q] /\ m.entry[q] # BUSY
        BY <3>2 DEF Descs
      <4>2. /\ q \in Page /\ m.entry[q] # FREE /\ Describes(m, q, m.page_classes[q])
        BY <4>1, <1>3, LargerFacts
      <4>3. u \in Descriptors
        BY <4>1, <4>2, <3>2, <1>1, <1>4, DescriptorFacts DEF DescriptorOf
      <4>4. <<"descriptor", 0, Extent(u, 0)>> \in Things
        BY <4>3, ThingKinds
      <4> QED BY <4>4, <2>4
    <3>3. CASE u \notin Descs(m, G)
      <4>1. PICK b \in live : b.addr = u /\ b.size = 1
        BY <3>1, <3>3, <1>3 DEF Owned, Tiny
      <4>2. PageOf(b.addr) = p /\ u \in UnitsOf(b)
        BY <4>1, <1>4 DEF UnitsOf
      <4>3. <<"live", 0, b>> \in Things
        BY ThingKinds
      <4> QED BY <4>2, <4>3
    <3> QED BY <3>2, <3>3
  <2> QED BY <2>5, <2>6
<1>6. CASE p \in G
  <2>1. PICK k : k = m.page_classes[p]
    OBVIOUS
  <2>2. /\ k \in Class \ {0}
        /\ m.entry[p] # BUSY => m.entry[p] \in Addr /\ Describes(m, p, k)
    BY <2>1, <1>3, <1>6, LargerFacts
  <2>3. PICK a \in Blocks(p, k) : a <= u /\ u < a + Size(k)
    BY <2>2, BlockFacts
  <2>4. a \in Nat /\ PageOf(a) = p
    BY <2>2, <2>3, BlockFacts, PageOfFacts
  <2>5. PICK b : b = Extent(a, k)
    OBVIOUS
  <2>6. PageOf(b.addr) = p /\ u \in UnitsOf(b)
    <3>1. Size(k) \in Nat
      BY <2>2, BlocksOfAClass
    <3> QED BY <3>1, <2>3, <2>4, <2>5, <1>4 DEF Extent, UnitsOf
  <2>7. CASE a \in FreeOf(m, p)
    <3>1. PICK d : d = m.entry[p]
      OBVIOUS
    <3>2. d # BUSY /\ a \in m.desc[d].block
      BY <2>7, <3>1 DEF FreeOf
    <3>3. d \in Addr /\ d # FREE /\ Describes(m, p, k) /\ d \in Descs(m, G)
      BY <3>1, <3>2, <2>2, <1>2, <1>6 DEF Descs
    <3>4. d \in Descriptors
      BY <3>1, <3>2, <3>3, <2>1, <1>1, <1>6, DescriptorFacts DEF DescriptorOf
    <3>5. m.desc[d].class = k
      BY <3>1, <3>3 DEF Describes
    <3>6. <<"free", d, b>> \in Things
      BY <3>2, <3>4, <3>5, <2>5, <1>2, ThingKinds
    <3> QED BY <3>6, <2>6
  <2>8. CASE a \notin FreeOf(m, p)
    <3>1. b \in UsedIn(m, p)
      BY <2>1, <2>3, <2>5, <2>8, <1>2 DEF UsedIn, UsedOf
    <3>2. b \in live \/ b \in lost
      BY <3>1, <1>2, <1>3, <1>6 DEF UsedLarger, Owned, Mid, LostBlocks
    <3>3. <<"live", 0, b>> \in Things \/ <<"lost", 0, b>> \in Things
      BY <3>2, ThingKinds
    <3> QED BY <3>3, <2>6
  <2> QED BY <2>7, <2>8
<1>7. CASE p \in F \ G
  <2>1. WholePage(p) \in lost
    BY <1>2, <1>3, <1>7 DEF Pages
  <2>2. PageOf(WholePage(p).addr) = p /\ u \in UnitsOf(WholePage(p))
    <3>1. PageAddr(p) \in Nat /\ PageUnits \in Nat /\ PageOf(PageAddr(p)) = p
      BY PageAddrFacts, UnitsOfAPage
    <3> QED BY <3>1 DEF WholePage, UnitsOf
  <2>3. <<"lost", 0, WholePage(p)>> \in Things
    BY <2>1, ThingKinds
  <2> QED BY <2>2, <2>3
<1> QED BY <1>5, <1>6, <1>7

(* No unit has two owners, and none in use is without one.                 *)
LEMMA HoldsAccounted == Holds(Now, live) => Accounted
<1> SUFFICES ASSUME Holds(Now, live) PROVE Accounted
  OBVIOUS
<1>1. PICK F, G \in SUBSET Page : InvOf(Now, live, F, G)
  BY DEF Holds
<1>2. ASSUME NEW s \in Things, NEW t \in Things, s # t
      PROVE  UnitsOf(s[3]) \cap UnitsOf(t[3]) = {}
  <2> SUFFICES ASSUME NEW u \in UnitsOf(s[3]), u \in UnitsOf(t[3]) PROVE FALSE
    OBVIOUS
  <2>1. Filled(Now, live, F, G, s) /\ Filled(Now, live, F, G, t)
    BY <1>1, ThingFilled
  <2>2. Owns(Now, live, F, G, s, u) /\ Owns(Now, live, F, G, t, u)
    BY <2>1 DEF Filled
  <2> QED BY <2>2, <1>1, <1>2, OneOwner
<1>3. ASSUME NEW p \in Page \ {0}, mi.entry[p] = FREE, NEW t \in Things, PageOf(t[3].addr) = p
      PROVE  FALSE
  <2>1. Filled(Now, live, F, G, t)
    BY <1>1, ThingFilled
  <2>2. Owns(Now, live, F, G, t, t[3].addr)
    BY <2>1 DEF Filled
  <2>3. p \in F => Now.entry[p] # FREE
    BY <1>1 DEF InvOf, Sound, Smallest, SmallestBut
  <2>4. Now.entry[p] = FREE
    BY <1>3 DEF Now
  <2> QED BY <2>2, <2>3, <2>4, <1>3 DEF Owns, OfCell, InCell, OfLostPage, OfPages, FREE, MULTI
<1>4. ASSUME NEW p \in Page \ {0}, mi.entry[p] \notin {FREE, MULTI},
             NEW u \in PageAddr(p) + (IF mi.page_classes[p] = 0 THEN 1 ELSE 0)
                         .. PageAddr(p) + PageUnits - 1
      PROVE  \E t \in Things : PageOf(t[3].addr) = p /\ u \in UnitsOf(t[3])
  <2>1. PageAddr(p) \in Nat /\ PageUnits \in Nat
    BY PageAddrFacts, UnitsOfAPage
  <2>2. u \in Int /\ PageAddr(p) <= u /\ u < PageAddr(p) + PageUnits
    BY <1>4, <2>1
  <2>3. mi.page_classes[p] = 0 => u # PageAddr(p)
    BY <1>4, <2>1
  <2> QED BY <2>2, <2>3, <1>1, <1>4, Covering
<1> QED
  <2> DEFINE used(p) == {t \in Things : PageOf(t[3].addr) = p}
  <2>1. ASSUME NEW p \in Page \ {0}, mi.entry[p] = FREE PROVE used(p) = {}
    BY <1>3, <2>1
  <2>2. ASSUME NEW p \in Page \ {0}, mi.entry[p] \notin {FREE, MULTI}
        PROVE  PageAddr(p) + (IF mi.page_classes[p] = 0 THEN 1 ELSE 0)
                 .. PageAddr(p) + PageUnits - 1
                 \subseteq UNION {UnitsOf(t[3]) : t \in used(p)}
    BY <1>4, <2>2
  <2> QED BY <1>2, <2>1, <2>2 DEF Accounted


(* The lists and the descriptors agree.                                    *)
LEMMA HoldsListed == Holds(Now, live) => Listed
<1> SUFFICES ASSUME Holds(Now, live) PROVE Listed
  OBVIOUS
<1>1. PICK F, G \in SUBSET Page : InvOf(Now, live, F, G)
  BY DEF Holds
<1>2. PICK m : m = Now
  OBVIOUS
<1>3. /\ m.entry = mi.entry /\ m.page_classes = mi.page_classes
      /\ m.classes = mi.classes /\ m.desc = mi.desc
  BY <1>2 DEF Now
<1>4. m \in State /\ Smallest(m, F) /\ Pages(m, F, G) /\ Lists(m, G)
  BY <1>1, <1>2 DEF InvOf, Sound
<1>5. PICK D : D = [k \in Class |-> IF k = 0 THEN RoomyList(m, F) ELSE Rooms(m, G, k)]
  OBVIOUS
<1>6. \A k \in Class : IsList(m.classes[k], D[k])
  BY <1>4, <1>5 DEF Smallest, SmallestBut, Lists
<1>7. \A k \in Class : DOMAIN m.classes[k] = 1 .. Len(m.classes[k])
  BY <1>6 DEF IsList
<1>8. \A k \in Class : \A i, j \in DOMAIN m.classes[k] : m.classes[k][i] = m.classes[k][j] => i = j
  BY <1>6, <1>7 DEF IsList
<1>9. \A k \in Class : {m.classes[k][i] : i \in DOMAIN m.classes[k]} = D[k]
  BY <1>6, <1>7 DEF IsList
<1>10. ASSUME NEW d \in Descriptors PROVE \E k \in Class : d \in D[k]
  <2>1. PICK p \in Page : DescriptorOf(m, F, G, p, d)
    BY <1>1, <1>2, DescriptorFacts
  <2>2. CASE p \in Page \ F /\ d = PageAddr(p)
    <3>1. d \in RoomyList(m, F)
      BY <2>1, <2>2 DEF DescriptorOf, RoomyList, Roomy
    <3> QED BY <3>1, <1>5, SmallestClass
  <2>3. CASE p \in G /\ d # BUSY
    <3>1. m.page_classes[p] \in Class \ {0} /\ m.entry[p] = d
      BY <2>1, <2>3, <1>4, LargerFacts DEF DescriptorOf
    <3>2. d \in Rooms(m, G, m.page_classes[p])
      BY <2>3, <3>1 DEF Rooms
    <3> QED BY <3>1, <3>2, <1>5
  <2> QED BY <2>1, <2>2, <2>3 DEF DescriptorOf
<1>11. ASSUME NEW k \in Class, NEW d \in D[k] PROVE d \in Descriptors
  <2>1. CASE k = 0
    <3>1. PICK p \in Page \ F : d = PageAddr(p) /\ m.entry[p] = PageAddr(p)
      BY <2>1, <1>5 DEF RoomyList, Roomy
    <3>2. Small0(m, p) /\ 0 \in F
      BY <1>4 DEF Smallest, SmallestBut
    <3>3. d \in Addr /\ d # FREE
      <4>1. d \in Addr /\ d >= PageUnits /\ d \in Nat
        BY <3>1, <3>2, PageAddrFacts
      <4> QED BY <4>1, UnitsOfAPage DEF FREE
    <3>4. Describes(m, p, 0)
      BY <3>1, <3>2 DEF Small0
    <3> QED BY <3>1, <3>3, <3>4, <1>1, <1>2, DescriptorFacts DEF DescriptorOf
  <2>2. CASE k # 0
    <3>1. PICK p \in G : d = m.entry[p] /\ m.entry[p] # BUSY
      BY <2>2, <1>5 DEF Rooms
    <3>2. /\ p \in Page /\ d \in Addr /\ d # FREE /\ d \in Descs(m, G)
          /\ Describes(m, p, m.page_classes[p])
      BY <3>1, <1>4, LargerFacts DEF Descs
    <3> QED BY <3>1, <3>2, <1>1, <1>2, DescriptorFacts DEF DescriptorOf
  <2> QED BY <2>1, <2>2
<1>12. Descriptors = UNION {{m.classes[k][i] : i \in DOMAIN m.classes[k]} : k \in Class}
  <2>1. \A d : d \in Descriptors <=>
          \E k \in Class : \E i \in DOMAIN m.classes[k] : d = m.classes[k][i]
    <3>1. ASSUME NEW k \in Class, NEW d
          PROVE  d \in D[k] <=> \E i \in DOMAIN m.classes[k] : d = m.classes[k][i]
      BY <1>9
    <3> QED BY <3>1, <1>10, <1>11
  <2> QED BY <2>1
<1>13. ASSUME NEW p \in Page, m.entry[p] > 0
       PROVE  LET r == m.desc[m.entry[p]] IN
              /\ r.index = p /\ r.class = m.page_classes[p]
              /\ r.count = Cardinality(r.block) /\ r.count > 0
              /\ \E i \in DOMAIN m.classes[r.class] : m.classes[r.class][i] = m.entry[p]
  <2>1. PICK r, k, d : r = m.desc[m.entry[p]] /\ k = m.page_classes[p] /\ d = m.entry[p]
    OBVIOUS
  <2>2. d # FREE /\ d # BUSY /\ d # MULTI
    BY <1>13, <2>1 DEF FREE, BUSY, MULTI
  <2>3. Describes(m, p, k) /\ k \in Class /\ d \in D[k]
    <3>1. CASE p \in G
      <4>1. k \in Class \ {0} /\ Describes(m, p, k)
        BY <2>1, <2>2, <3>1, <1>4, LargerFacts
      <4>2. d \in Rooms(m, G, k)
        BY <2>1, <2>2, <3>1 DEF Rooms
      <4> QED BY <4>1, <4>2, <1>5
    <3>2. CASE p \in Page \ F
      <4>1. Small0(m, p)
        BY <3>2, <1>4 DEF Smallest, SmallestBut
      <4>2. k = 0 /\ d = PageAddr(p) /\ Describes(m, p, 0)
        BY <4>1, <2>1, <2>2 DEF Small0
      <4>3. d \in RoomyList(m, F)
        BY <4>2, <3>2, <2>1 DEF RoomyList, Roomy
      <4> QED BY <4>2, <4>3, <1>5, SmallestClass
    <3>3. p \notin F \ G
      BY <2>1, <2>2, <1>4 DEF Pages
    <3> QED BY <3>1, <3>2, <3>3
  <2>4. r.index = p /\ r.class = k /\ r.block # {} /\ r.count = Cardinality(r.block)
        /\ r.block \in SUBSET Blocks(p, k)
    BY <2>1, <2>3 DEF Describes
  <2>5. Cardinality(r.block) \in Nat /\ (Cardinality(r.block) = 0 <=> r.block = {})
    BY <2>3, <2>4, FreeSetFacts
  <2>6. \E i \in DOMAIN m.classes[k] : m.classes[k][i] = d
    BY <2>3, <1>9
  <2> QED BY <2>1, <2>4, <2>5, <2>6
<1> QED BY <1>3, <1>8, <1>12, <1>13 DEF Listed

(* The tables have their types.                                            *)
LEMMA HoldsType == Holds(Now, live) => ZoneTypeOK
<1> SUFFICES ASSUME Holds(Now, live) PROVE ZoneTypeOK
  OBVIOUS
<1>1. Now \in State /\ live \in SUBSET Asked
  BY DEF Holds, InvOf, Sound
<1>2. /\ Now.entry = mi.entry /\ Now.page_classes = mi.page_classes
      /\ Now.classes = mi.classes /\ Now.desc = mi.desc
  BY DEF Now
<1>3. /\ mi.entry \in [Page -> {MULTI, BUSY} \cup Addr]
      /\ mi.page_classes \in [Page -> -128 .. 127]
      /\ mi.classes \in [Class -> Seq(Addr)] /\ mi.desc \in [Addr -> Description]
  BY <1>1, <1>2 DEF State
<1>4. DescRec = Description
  BY DEF DescRec, Description
<1>5. DOMAIN mi.classes = Class /\ \A k \in Class : mi.classes[k] \in Seq(Addr)
  BY <1>3
<1>6. \A a \in Addr : mi.desc[a] \in DescRec
  BY <1>3, <1>4
<1> QED BY <1>1, <1>3, <1>5, <1>6 DEF ZoneTypeOK, Asked

(* When nothing is in use, every page is free.                             *)
LEMMA HoldsWhole == Holds(Now, live) => AllFreeIsWhole
<1> SUFFICES ASSUME Holds(Now, live), live = {}, lost = {}
             PROVE  /\ \A p \in Page \ {0} : mi.entry[p] = FREE
                    /\ \A k \in Class : mi.classes[k] = <<>>
  BY DEF AllFreeIsWhole
<1>1. PICK F, G \in SUBSET Page : InvOf(Now, live, F, G)
  BY DEF Holds
<1>2. PICK m : m = Now
  OBVIOUS
<1>3. m.entry = mi.entry /\ m.classes = mi.classes /\ m.lost = {}
  BY <1>2 DEF Now
<1>4. /\ m \in State /\ Smallest(m, F) /\ Pages(m, F, G) /\ Lists(m, G) /\ Owned(m, {}, F, G)
      /\ Wholes(m, Big({})) /\ NoneWhole(m, G)
  BY <1>1, <1>2 DEF InvOf, Sound
<1>5. Tiny({}) = {} /\ Mid({}) = {} /\ Big({}) = {} /\ LostBlocks(m) = {}
  BY <1>3 DEF Tiny, Mid, Big, LostBlocks
<1>6. UsedLarger(m, G) = {}
  BY <1>4, <1>5 DEF Owned
<1>7. G = {}
  <2> SUFFICES ASSUME NEW p \in G PROVE FALSE
    OBVIOUS
  <2>1. UsedOf(m, p) = {}
    BY <1>6 DEF UsedLarger, UsedIn
  <2>2. FreeOf(m, p) = Blocks(p, m.page_classes[p])
    BY <2>1, <1>4, LargerFacts
  <2> QED BY <2>2, <1>4 DEF NoneWhole
<1>8. \A p \in Page : m.entry[p] # MULTI
  BY <1>4, <1>5 DEF Wholes
<1>9. F = {0}
  BY <1>3, <1>4, <1>7, <1>8 DEF Pages, Smallest, SmallestBut
<1>10. UnitsUsed(m, F) = {}
  <2>1. Descs(m, G) = {}
    BY <1>7 DEF Descs
  <2> QED BY <2>1, <1>4, <1>5 DEF Owned
<1>11. ASSUME NEW p \in Page \ {0} PROVE m.entry[p] = FREE
  <2> SUFFICES ASSUME m.entry[p] # FREE PROVE FALSE
    OBVIOUS
  <2>1. Small0(m, p) /\ p \in Page \ F
    BY <1>4, <1>9 DEF Smallest, SmallestBut
  <2>2. UsedOf(m, p) = {}
    BY <2>1, <1>10 DEF UnitsUsed
  <2>3. Blocks(p, 0) \ FreeOf(m, p) = {}
    BY <2>1, <2>2 DEF UsedOf, Small0
  <2>4. Blocks(p, 0) # {}
    <3>1. PageAddr(p) \in Nat /\ PageUnits \in Nat /\ PageUnits >= 4
      BY PageAddrFacts, UnitsOfAPage
    <3>2. PageAddr(p) + 1 \in Addr /\ PageOf(PageAddr(p) + 1) = p
      BY <3>1, PageOfFacts
    <3> QED BY <3>1, <3>2, UnitBlocks
  <2>5. CASE m.entry[p] = BUSY
    BY <2>3, <2>4, <2>5 DEF FreeOf
  <2>6. CASE m.entry[p] = PageAddr(p)
    <3>1. p \in Roomy(m, F) /\ Describes(m, p, 0)
      BY <2>1, <2>6 DEF Roomy, Small0
    <3>2. FreeOf(m, p) # Blocks(p, 0)
      BY <3>1, <1>4 DEF Smallest, SmallestBut
    <3>3. PageAddr(p) # BUSY
      BY PageAddrFacts DEF BUSY
    <3>4. FreeOf(m, p) \in SUBSET Blocks(p, 0)
      BY <3>1, <3>3, <2>6 DEF FreeOf, Describes
    <3> QED BY <3>2, <3>4, <2>3
  <2> QED BY <2>1, <2>5, <2>6 DEF Small0
<1>12. \A k \in Class : m.classes[k] = <<>>
  <2>1. RoomyList(m, F) = {}
    <3>1. \A p \in Page \ {0} : PageAddr(p) # FREE
      BY PageAddrFacts, UnitsOfAPage DEF FREE
    <3> QED BY <3>1, <1>9, <1>11 DEF RoomyList, Roomy
  <2>2. m.classes[0] = <<>>
    BY <2>1, <1>4, ListEmpty DEF Smallest, SmallestBut
  <2>3. \A k : Rooms(m, G, k) = {}
    BY <1>7 DEF Rooms
  <2>4. \A k \in Class \ {0} : m.classes[k] = <<>>
    BY <2>3, <1>4, ListEmpty DEF Lists
  <2> QED BY <2>2, <2>4
<1> QED BY <1>3, <1>11, <1>12

-----------------------------------------------------------------------------
(* The promise of Heap.                                                    *)

(* Blocks of different owners share no unit.                               *)
LEMMA OwnersApart ==
  ASSUME NEW m, NEW L, Holds(m, L), NEW b \in L, NEW c \in L, b # c
  PROVE  UnitsOf(b) \cap UnitsOf(c) = {}
<1>1. PICK F, G \in SUBSET Page : InvOf(m, L, F, G)
  BY DEF Holds
<1> SUFFICES ASSUME NEW u \in UnitsOf(b), u \in UnitsOf(c) PROVE FALSE
  OBVIOUS
<1>2. PICK s, t : s = <<"live", 0, b>> /\ t = <<"live", 0, c>>
  OBVIOUS
<1>3. s[3] = b /\ t[3] = c
  BY <1>2
<1>4. Filled(m, L, F, G, s) /\ Filled(m, L, F, G, t)
  BY <1>1, <1>2, LiveFilled
<1>5. Owns(m, L, F, G, s, u) /\ Owns(m, L, F, G, t, u)
  BY <1>3, <1>4 DEF Filled
<1>6. s = t
  BY <1>1, <1>5, OneOwner
<1> QED BY <1>3, <1>6

(* The new owner's block is apart from those of the others.                *)
LEMMA NewBlockApart ==
  ASSUME NEW m, NEW L, NEW k \in Requests, NEW n, NEW a, n = Extent(a, k), n \notin L,
         Holds(m, L \cup {n}), NEW others \in SUBSET L
  PROVE  n \in Promise!Extents /\ Promise!Apart(n, others)
<1>1. PICK F, G \in SUBSET Page : InvOf(m, L \cup {n}, F, G)
  BY DEF Holds
<1>2. PastPage0(n) /\ Filled(m, L \cup {n}, F, G, <<"live", 0, n>>)
  BY <1>1, LiveFilled
<1>3. PICK s : s = <<"live", 0, n>>
  OBVIOUS
<1>4. s[3] = n
  BY <1>3
<1>5. n.addr \in UnitsOf(n)
  BY <1>2, <1>3, <1>4 DEF Filled
<1>6. ASSUME NEW u \in UnitsOf(n) PROVE u \in PageUnits .. NPages * PageUnits - 1
  <2>1. u >= PageUnits /\ u \in Addr
    BY <1>2 DEF PastPage0
  <2>2. PageUnits \in Nat /\ NPages * PageUnits \in Nat
    BY UnitsOfAPage, ZoneAssumption
  <2> QED BY <2>1, <2>2 DEF Addr
<1>7. n \in Promise!Extents
  <2>1. n = [addr |-> a, size |-> Size(k)] /\ n.addr = a
    BY DEF Extent
  <2>2. a \in PageUnits .. NPages * PageUnits - 1
    BY <2>1, <1>5, <1>6
  <2> QED BY <2>1, <2>2 DEF Promise!Extents
<1>8. ASSUME NEW o \in others PROVE Promise!Units(n) \cap Promise!Units(o) = {}
  <2>1. UnitsOf(n) \cap UnitsOf(o) = {}
    BY OwnersApart
  <2> QED BY <2>1 DEF Promise!Units, UnitsOf
<1>9. Promise!Units(n) \subseteq PageUnits .. NPages * PageUnits - 1
  BY <1>6 DEF Promise!Units, UnitsOf
<1> QED BY <1>7, <1>8, <1>9 DEF Promise!Apart

(* Every call is a step of Heap, or changes no owner's block.              *)
LEMMA CallMaps ==
  Countable /\ Wide = FALSE /\ Holds(Now, live) /\ [Next]_vars => [Promise!Next]_live
<1> SUFFICES ASSUME Countable, ~ Wide, Holds(Now, live), [Next]_vars
             PROVE  [Promise!Next]_live
  OBVIOUS
<1>1. CASE UNCHANGED vars
  BY <1>1 DEF vars
<1>2. ASSUME NEW k \in Requests, Alloc(k) PROVE [Promise!Next]_live
  <2>1. PICK x \in MemAlloc(Now, k) :
          Then(x.m, IF x.ret = NULL THEN live ELSE live \cup {Extent(x.ret, k)})
    BY <1>2 DEF Alloc
  <2>2. Allocates(live, k, x)
    BY <2>1, Allocating
  <2>3. CASE x.ret = NULL
    BY <2>1, <2>3 DEF Then
  <2>4. CASE x.ret # NULL
    <3>1. PICK n, a : n = Extent(a, k) /\ a = x.ret
      OBVIOUS
    <3>2. live' = live \cup {n}
      BY <2>1, <2>4, <3>1 DEF Then
    <3>3. n \notin live /\ Holds(x.m, live \cup {n})
      BY <2>2, <2>4, <3>1 DEF Allocates
    <3>4. n \in Promise!Extents /\ Promise!Apart(n, live)
      BY <3>1, <3>3, NewBlockApart
    <3>5. Promise!Take
      BY <3>2, <3>4 DEF Promise!Take
    <3> QED BY <3>5 DEF Promise!Next
  <2> QED BY <2>3, <2>4
<1>3. ASSUME NEW b \in live, Free(b) PROVE [Promise!Next]_live
  <2>1. live' = live \ {b}
    BY <1>3 DEF Free, Then
  <2>2. Promise!Give
    BY <2>1 DEF Promise!Give
  <2> QED BY <2>2 DEF Promise!Next
<1>4. ASSUME NEW b \in live, NEW k \in Requests, Realloc(b, k) PROVE [Promise!Next]_live
  <2>1. PICK x \in MemAlloc(Now, k) :
          \/ x.ret = NULL /\ Then(x.m, live)
          \/ /\ x.ret # NULL
             /\ \E m \in MemFree(x.m, b.addr) :
                  Then(m, (live \ {b}) \cup {Extent(x.ret, k)})
    BY <1>4 DEF Realloc
  <2>2. Allocates(live, k, x)
    BY <2>1, Allocating
  <2>3. CASE x.ret = NULL
    BY <2>1, <2>3 DEF Then
  <2>4. CASE x.ret # NULL
    <3>1. PICK n, a : n = Extent(a, k) /\ a = x.ret
      OBVIOUS
    <3>2. live' = (live \ {b}) \cup {n}
      BY <2>1, <2>4, <3>1 DEF Then
    <3>3. n \notin live /\ Holds(x.m, live \cup {n})
      BY <2>2, <2>4, <3>1 DEF Allocates
    <3>4. n \in Promise!Extents /\ Promise!Apart(n, live \ {b})
      BY <3>1, <3>3, NewBlockApart
    <3>5. Promise!Resize
      BY <3>2, <3>4 DEF Promise!Resize
    <3> QED BY <3>5 DEF Promise!Next
  <2> QED BY <2>3, <2>4
<1> QED BY <1>1, <1>2, <1>3, <1>4 DEF Next

-----------------------------------------------------------------------------
(* The theorems, of heaps whose runs of pages a char can count, on a build *)
(* where a pointer is no wider than an int.                                *)

(* The invariant holds in every state.                                     *)
LEMMA HeapHolds ==
  ASSUME Countable, Wide = FALSE PROVE Spec => []Holds(Now, live)
<1>1. Holds(Now, live) /\ [Next]_vars => Holds(Now, live)'
  BY StepHolds
<1> QED BY <1>1, InitHolds, PTL DEF Spec

(* The tables of the heap agree with each other and with the owners: each  *)
(* unit in use has one owner, and each list the pages with room.           *)
THEOREM HeapIsWellFormed == Spec /\ Countable /\ Wide = FALSE => []WellFormed
<1> SUFFICES ASSUME Countable, Wide = FALSE PROVE Spec => []WellFormed
  OBVIOUS
<1>1. Holds(Now, live) => WellFormed
  BY HoldsType, HoldsAccounted, HoldsListed DEF WellFormed
<1> QED BY <1>1, HeapHolds, PTL

(* When every block has been freed, the pages are whole again.             *)
THEOREM HeapBecomesWhole == Spec /\ Countable /\ Wide = FALSE => []AllFreeIsWhole
<1> SUFFICES ASSUME Countable, Wide = FALSE PROVE Spec => []AllFreeIsWhole
  OBVIOUS
<1> QED BY HoldsWhole, HeapHolds, PTL

(* The zone allocator keeps the promise of Heap.                           *)
THEOREM ZonesAreAHeap == Spec /\ Countable /\ Wide = FALSE => HeapSpec
<1> SUFFICES ASSUME Countable, Wide = FALSE PROVE Spec => HeapSpec
  OBVIOUS
<1>1. Init => Promise!Init
  BY DEF Init, Promise!Init
<1>2. Holds(Now, live) /\ [Next]_vars => [Promise!Next]_live
  BY CallMaps
<1> QED BY <1>1, <1>2, HeapHolds, PTL DEF Spec, HeapSpec, Promise!Spec

=============================================================================
