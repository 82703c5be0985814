-------------------------- MODULE FfsInodesProofs --------------------------
(***************************************************************************)
(* Proofs about FfsInodes: for any processes, directories, descriptors,    *)
(* memory for inodes and files there are at a mount, removals and dropped  *)
(* dentries or not, as long as files are created and removed in one        *)
(* directory only (OneChanging): its mutex is then the lock that the list  *)
(* does not have.  Lookups in all directories walk meanwhile.              *)
(*                                                                         *)
(* Memory of inodes is used again, so an inode says nothing of its place   *)
(* in the list.  The proofs give each a rank, which Create raises above    *)
(* all others: along the list ranks go down.                               *)
(***************************************************************************)
EXTENDS FfsInodes, FiniteSetTheorems, WellFoundedInduction, TLAPS

OneChanging == \A d, e \in Changing : d = e

(* The processes at one of pcs, and the inodes they are about.             *)
Changers == {"add1", "add2", "add3", "add4", "enter", "clear", "del1", "del2", "del3", "gone"}
InOf(r, pcs)  == {p \in Procs : r[p] # Idle /\ r[p].pc \in pcs}
AtsOf(r, pcs) == {r[p].at : p \in InOf(r, pcs)}
In(pcs)  == InOf(pr, pcs)
Ats(pcs) == AtsOf(pr, pcs)

(* The inodes of the list: those behind names, and that of a call that has *)
(* linked it already or not yet unlinked it.                               *)
Behind   == {owner[n] : n \in named}
Listed   == Behind \cup Ats({"add4", "enter", "clear", "del1"})
Leaving  == Ats({"del2", "del3"})

(* A directory's mutex is held by one process; only one directory changes. *)
Mutex(r) ==
  /\ r \in [Procs -> {Idle} \cup [pc : Changers \cup {"walk"}, name : Name, at : Link]]
  /\ \A p, q \in Procs : r[p] # Idle /\ r[q] # Idle /\ r[p].name[1] = r[q].name[1] => p = q
  /\ \A p \in InOf(r, Changers) : r[p].name[1] \in Changing /\ r[p].at \in Inode
MutexInv == Mutex(pr)

(* Names and their inodes: a number belongs to one of them.                *)
NamesInv ==
  /\ \A n \in named : /\ owner[n] \in Inode /\ ino[owner[n]] = n[2] /\ n[2] \in fds
                      /\ dentry[n] \in {None, owner[n]}
  /\ \A n, m \in named : n[2] = m[2] => n = m
  /\ \A n \in named : n[1] \notin Changing => \A i \in Inode : ino[i] = n[2] => i = owner[n]
  /\ \A p \in In(Changers) :
       /\ ino[pr[p].at] = pr[p].name[2]
       /\ \A n \in named : n[2] # pr[p].name[2]
       /\ pr[p].pc \in {"add1", "add2", "add3", "add4", "enter", "clear"} => pr[p].name[2] \in fds

(* Ranks of inodes, by age; that of the head of the list is above all.     *)
Order(rk) ==
  /\ rk \in [Inode \cup {Nil, Head} -> Nat] /\ rk[Nil] = 0
  /\ \A i \in Inode : /\ 0 < rk[i] /\ rk[i] < rk[Head]
                      /\ \A j \in Inode : rk[i] = rk[j] => i = j

(* The list goes down: from an inode, or the head, to the next lower one.  *)
Follows(rk, i, j, S) ==
  j \in S \cup {Nil} /\ rk[j] < rk[i] /\ \A k \in S : rk[k] < rk[i] => rk[k] <= rk[j]
ChainInv(rk) ==
  /\ Listed \subseteq Inode /\ Leaving \cap Listed = {}
  /\ Follows(rk, Head, first, Listed)
  /\ \A i \in Listed \cup Leaving : Follows(rk, i, next[i], Listed)

(* An inode that is new is above all in the list.                          *)
Fresh(rk, i) == i \notin Listed \cup Leaving /\ \A k \in Listed : rk[k] < rk[i]
AddInv(rk) ==
  /\ \A p \in In({"add1", "add2", "add3"}) : Fresh(rk, pr[p].at)
  /\ \A p \in In({"add2", "add3"}) : next[pr[p].at] = first
  /\ \A p \in In({"add4"}) : first = pr[p].at

(* And back: pprev of each is what points to it, but for the one that a    *)
(* call is about to tell.                                                  *)
Back(i, S) == IF i = first THEN pprev[i] = Head ELSE pprev[i] \in S /\ next[pprev[i]] = i
BackInv ==
  /\ \A i \in Listed :
       \/ Back(i, Listed)
       \/ In({"add3", "add4"}) # {} /\ i = first
       \/ \E p \in In({"del2"}) : i = next[pr[p].at]
  /\ \A p \in In({"add3"}) : first # Nil => pprev[first] = pr[p].at
  /\ \A p \in In({"del2"}) :
       LET q == pprev[pr[p].at] n == next[pr[p].at]
       IN  IF n = first THEN q = Head ELSE q \in Listed /\ next[q] = n

(* A walk has not passed the inode it looks for, which is still listed; it *)
(* may stand on one that has been removed meanwhile, or on memory that was *)
(* and is used for a new one.                                              *)
Around == Listed \cup Leaving \cup Ats({"add2", "add3"})
WalkInv(rk) ==
  \A p \in In({"walk"}) :
    LET n == pr[p].name i == pr[p].at IN
    /\ n \in named
    /\ i # Poison => i \in Inode /\ rk[i] >= rk[owner[n]] /\ (i \in Around \/ next[i] = Poison)
    /\ n[1] \in Changing => i \in Listed

IInv(rk) ==
  /\ TypeOK /\ MutexInv /\ NamesInv /\ BackInv
  /\ Order(rk) /\ ChainInv(rk) /\ AddInv(rk) /\ WalkInv(rk)

-----------------------------------------------------------------------------
(* Processes.                                                              *)
LEMMA ProcIs ==
  ASSUME NEW r, Mutex(r), NEW p, p \in Procs, r[p] # Idle
  PROVE  /\ r[p].pc \in Changers \cup {"walk"} /\ r[p].name \in Name /\ r[p].at \in Link
         /\ r[p].name[1] \in Dirs /\ r[p].name[2] \in Fd
BY DEF Mutex, Name

(* As long as one directory changes, one process is about the list.        *)
LEMMA Alone ==
  ASSUME OneChanging, NEW r, Mutex(r), NEW p, p \in InOf(r, Changers), NEW S, S \subseteq Changers
  PROVE  /\ InOf(r, S) = IF r[p].pc \in S THEN {p} ELSE {}
         /\ AtsOf(r, S) = IF r[p].pc \in S THEN {r[p].at} ELSE {}
<1>1. p \in Procs /\ r[p] # Idle
  BY DEF InOf
<1>2. ASSUME NEW q \in InOf(r, S) PROVE q = p
  <2>1. q \in InOf(r, Changers) /\ q \in Procs /\ r[q] # Idle
    BY <1>2 DEF InOf
  <2>2. r[q].name[1] = r[p].name[1]
    BY <2>1 DEF OneChanging, Mutex
  <2> QED BY <1>1, <2>1, <2>2 DEF Mutex
<1>3. InOf(r, S) = IF r[p].pc \in S THEN {p} ELSE {}
  BY <1>1, <1>2 DEF InOf
<1> QED BY <1>3 DEF AtsOf

(* Without one nothing is on its way in or out.                            *)
LEMMA Nobody ==
  ASSUME NEW r, InOf(r, Changers) = {}, NEW S, S \subseteq Changers
  PROVE  InOf(r, S) = {} /\ AtsOf(r, S) = {}
BY DEF InOf, AtsOf

(* The process p, about the list, goes on to another access.               *)
Turns(p, b) ==
  /\ p \in InOf(pr, Changers) /\ b \in Changers
  /\ pr' = [pr EXCEPT ![p].pc = b]

LEMMA TurnIs ==
  ASSUME MutexInv, NEW p, NEW b, Turns(p, b)
  PROVE  /\ Mutex(pr') /\ p \in InOf(pr', Changers) /\ pr'[p].pc = b
         /\ pr'[p].name = pr[p].name /\ pr'[p].at = pr[p].at
         /\ InOf(pr', {"walk"}) = InOf(pr, {"walk"})
         /\ \A q \in InOf(pr, {"walk"}) : pr'[q] = pr[q]
<1>1. p \in Procs /\ pr[p] # Idle /\ pr[p].pc \in Changers
  BY DEF Turns, InOf
<1>2. pr[p] \in [pc : Changers \cup {"walk"}, name : Name, at : Link]
  BY <1>1 DEF MutexInv, Mutex
<1>3. /\ pr'[p] = [pr[p] EXCEPT !.pc = b] /\ \A q \in Procs : q # p => pr'[q] = pr[q]
      /\ DOMAIN pr' = Procs
  BY <1>1 DEF Turns, MutexInv, Mutex
<1>4. /\ pr'[p] \in [pc : Changers \cup {"walk"}, name : Name, at : Link]
      /\ pr'[p].pc = b /\ pr'[p].name = pr[p].name /\ pr'[p].at = pr[p].at
  BY <1>2, <1>3 DEF Turns
<1>5. pr'[p] # Idle
  <2>1. pr'[p].pc # "idle"
    BY <1>4 DEF Turns, Changers
  <2> QED BY <2>1 DEF Idle
<1>6. \A q \in InOf(pr', Changers) : q \in InOf(pr, Changers) /\ pr'[q].name = pr[q].name
                                      /\ pr'[q].at = pr[q].at
  BY <1>1, <1>3, <1>4 DEF InOf
<1>7. pr' \in [Procs -> {Idle} \cup [pc : Changers \cup {"walk"}, name : Name, at : Link]]
  BY <1>3, <1>4 DEF Turns, MutexInv, Mutex
<1>8. \A q, s \in Procs : pr'[q] # Idle /\ pr'[s] # Idle /\ pr'[q].name[1] = pr'[s].name[1] => q = s
  BY <1>1, <1>3, <1>4 DEF MutexInv, Mutex
<1>9. Mutex(pr')
  BY <1>6, <1>7, <1>8 DEF MutexInv, Mutex
<1>10. ASSUME NEW q \in Procs PROVE q \in InOf(pr', {"walk"}) <=> q \in InOf(pr, {"walk"})
  <2>1. CASE q = p
    BY <1>1, <1>4, <2>1 DEF InOf, Turns, Changers
  <2>2. CASE q # p
    BY <1>3, <2>2 DEF InOf
  <2> QED BY <2>1, <2>2
<1>11. \A q \in InOf(pr, {"walk"}) : q # p /\ q \in Procs
  BY <1>1 DEF InOf, Changers
<1>12. InOf(pr', {"walk"}) = InOf(pr, {"walk"})
  BY <1>10 DEF InOf
<1>13. p \in InOf(pr', Changers)
  BY <1>1, <1>4, <1>5 DEF InOf, Turns
<1> QED BY <1>3, <1>4, <1>9, <1>11, <1>12, <1>13

(* A call begins, when nobody holds the mutex of its directory.            *)
LEMMA BeginIs ==
  ASSUME MutexInv, NEW p, p \in Procs, NEW n, n \in Name, NEW b, b \in Changers \cup {"walk"},
         NEW a, a \in Link, Begin(p, n, b, a), b \in Changers => n[1] \in Changing /\ a \in Inode
  PROVE  /\ Mutex(pr') /\ pr'[p] # Idle /\ pr'[p].pc = b /\ pr'[p].name = n /\ pr'[p].at = a
         /\ pr[p] = Idle /\ \A q \in Procs : q # p => pr'[q] = pr[q]
         /\ \A q \in Procs : pr[q] # Idle => pr[q].name[1] # n[1]
<1>1. pr[p] = Idle /\ ~ Busy(n[1]) /\ pr' = [pr EXCEPT ![p] = [pc |-> b, name |-> n, at |-> a]]
  BY DEF Begin
<1>2. /\ pr'[p] = [pc |-> b, name |-> n, at |-> a] /\ \A q \in Procs : q # p => pr'[q] = pr[q]
      /\ DOMAIN pr' = Procs
  BY <1>1 DEF MutexInv, Mutex
<1>3. pr'[p].pc = b /\ pr'[p].name = n /\ pr'[p].at = a
  BY <1>2
<1>4. pr'[p] # Idle
  <2>1. pr'[p].pc # "idle"
    BY <1>3 DEF Changers
  <2> QED BY <2>1 DEF Idle
<1>5. \A q \in Procs : pr[q] # Idle => pr[q].name[1] # n[1]
  BY <1>1 DEF Busy
<1>6. pr' \in [Procs -> {Idle} \cup [pc : Changers \cup {"walk"}, name : Name, at : Link]]
  BY <1>1, <1>2 DEF MutexInv, Mutex
<1>7. \A q, s \in Procs : pr'[q] # Idle /\ pr'[s] # Idle /\ pr'[q].name[1] = pr'[s].name[1] => q = s
  BY <1>2, <1>3, <1>5 DEF MutexInv, Mutex
<1>8. \A q \in InOf(pr', Changers) : pr'[q].name[1] \in Changing /\ pr'[q].at \in Inode
  BY <1>2, <1>3 DEF MutexInv, Mutex, InOf
<1>9. Mutex(pr')
  BY <1>6, <1>7, <1>8 DEF Mutex
<1> QED BY <1>1, <1>2, <1>3, <1>4, <1>5, <1>9

(* It begins alone when it is about the list.                              *)
LEMMA BeginAlone ==
  ASSUME OneChanging, MutexInv, NEW n, n[1] \in Changing,
         \A q \in Procs : pr[q] # Idle => pr[q].name[1] # n[1]
  PROVE  InOf(pr, Changers) = {}
BY DEF OneChanging, MutexInv, Mutex, InOf

(* A call ends.                                                            *)
LEMMA EndIs ==
  ASSUME MutexInv, NEW p, p \in Procs, pr[p] # Idle, End(p)
  PROVE  /\ Mutex(pr') /\ pr'[p] = Idle /\ \A q \in Procs : q # p => pr'[q] = pr[q]
         /\ \A S : InOf(pr', S) = InOf(pr, S) \ {p}
         /\ \A S : p \notin InOf(pr, S) => AtsOf(pr', S) = AtsOf(pr, S)
<1>1. pr' = [pr EXCEPT ![p] = Idle]
  BY DEF End
<1>2. pr'[p] = Idle /\ (\A q \in Procs : q # p => pr'[q] = pr[q]) /\ DOMAIN pr' = Procs
  BY <1>1 DEF MutexInv, Mutex
<1>3. pr' \in [Procs -> {Idle} \cup [pc : Changers \cup {"walk"}, name : Name, at : Link]]
  BY <1>1, <1>2 DEF MutexInv, Mutex
<1>4. \A q \in Procs : pr'[q] # Idle => q # p /\ pr'[q] = pr[q]
  BY <1>2
<1>5. Mutex(pr')
  BY <1>3, <1>4 DEF MutexInv, Mutex, InOf
<1>6. ASSUME NEW S PROVE InOf(pr', S) = InOf(pr, S) \ {p}
  BY <1>2 DEF InOf
<1>7. ASSUME NEW S, p \notin InOf(pr, S) PROVE AtsOf(pr', S) = AtsOf(pr, S)
  <2>1. InOf(pr', S) = InOf(pr, S) /\ \A q \in InOf(pr, S) : pr'[q] = pr[q]
    BY <1>2, <1>6, <1>7 DEF InOf
  <2> QED BY <2>1 DEF AtsOf
<1> QED BY <1>2, <1>5, <1>6, <1>7

(* A walk goes on to another inode.                                        *)
LEMMA StrollIs ==
  ASSUME MutexInv, NEW p, p \in InOf(pr, {"walk"}), NEW a, a \in Link,
         pr' = [pr EXCEPT ![p].at = a]
  PROVE  /\ Mutex(pr') /\ p \in InOf(pr', {"walk"}) /\ pr'[p].name = pr[p].name /\ pr'[p].at = a
         /\ InOf(pr', {"walk"}) = InOf(pr, {"walk"})
         /\ \A q \in Procs : q # p => pr'[q] = pr[q]
         /\ \A S : S \subseteq Changers => InOf(pr', S) = InOf(pr, S) /\ AtsOf(pr', S) = AtsOf(pr, S)
<1>1. p \in Procs /\ pr[p] # Idle /\ pr[p].pc = "walk"
  BY DEF InOf
<1>2. pr[p] \in [pc : Changers \cup {"walk"}, name : Name, at : Link]
  BY <1>1 DEF MutexInv, Mutex
<1>3. /\ pr'[p] = [pr[p] EXCEPT !.at = a] /\ \A q \in Procs : q # p => pr'[q] = pr[q]
      /\ DOMAIN pr' = Procs
  BY <1>1 DEF MutexInv, Mutex
<1>4. /\ pr'[p] \in [pc : Changers \cup {"walk"}, name : Name, at : Link]
      /\ pr'[p].pc = "walk" /\ pr'[p].name = pr[p].name /\ pr'[p].at = a
  BY <1>1, <1>2, <1>3
<1>5. pr'[p] # Idle
  BY <1>4 DEF Idle
<1>6. pr' \in [Procs -> {Idle} \cup [pc : Changers \cup {"walk"}, name : Name, at : Link]]
  BY <1>3, <1>4 DEF MutexInv, Mutex
<1>7. \A q, s \in Procs : pr'[q] # Idle /\ pr'[s] # Idle /\ pr'[q].name[1] = pr'[s].name[1] => q = s
  BY <1>1, <1>3, <1>4 DEF MutexInv, Mutex
<1>8. "walk" \notin Changers
  BY DEF Changers
<1>9. ASSUME NEW S, S \subseteq Changers
      PROVE  /\ InOf(pr', S) = InOf(pr, S) /\ AtsOf(pr', S) = AtsOf(pr, S)
             /\ \A q \in InOf(pr, S) : pr'[q] = pr[q]
  <2>1. p \notin InOf(pr', S) /\ p \notin InOf(pr, S)
    BY <1>1, <1>4, <1>8, <1>9 DEF InOf
  <2>2. InOf(pr', S) = InOf(pr, S)
    BY <1>3, <2>1 DEF InOf
  <2>3. \A q \in InOf(pr, S) : pr'[q] = pr[q]
    BY <1>3, <2>1 DEF InOf
  <2> QED BY <2>2, <2>3 DEF AtsOf
<1>10. \A q \in InOf(pr', Changers) : pr'[q].name[1] \in Changing /\ pr'[q].at \in Inode
  BY <1>9 DEF MutexInv, Mutex
<1>11. Mutex(pr')
  BY <1>6, <1>7, <1>10 DEF Mutex
<1>12. InOf(pr', {"walk"}) = InOf(pr, {"walk"})
  BY <1>1, <1>3, <1>4, <1>5 DEF InOf
<1> QED BY <1>1, <1>3, <1>4, <1>9, <1>11, <1>12

-----------------------------------------------------------------------------
(* What the invariant says, and what a step leaves alone.                  *)
LEMMA FdIs == Fd \subseteq Nat \ {0} /\ NInodes \in Nat /\ \A i : i \in Inode <=> i \in Nat /\ i >= 1 /\ i <= NInodes
BY InodesAssumption DEF Inode

(* The state of the call that is about the list.                           *)
LEMMA CallIs ==
  ASSUME OneChanging, NEW rk, IInv(rk), NEW p, p \in Procs, NEW b, b \in Changers, At(p, b)
  PROVE  /\ p \in InOf(pr, Changers) /\ pr[p] # Idle /\ pr[p].pc = b
         /\ pr[p].at \in Inode /\ pr[p].name \in Name /\ pr[p].name[1] \in Changing
         /\ pr[p].name[2] \in Fd /\ ino[pr[p].at] = pr[p].name[2] /\ ino[pr[p].at] # 0
         /\ \A n \in named : n[2] # pr[p].name[2]
         /\ pr[p].at \notin Behind
         /\ \A S : S \subseteq Changers => /\ InOf(pr, S) = IF b \in S THEN {p} ELSE {}
                                           /\ AtsOf(pr, S) = IF b \in S THEN {pr[p].at} ELSE {}
<1>1. pr[p] # Idle /\ pr[p].pc = b /\ p \in InOf(pr, Changers)
  BY DEF At, InOf
<1>2. Mutex(pr) /\ NamesInv
  BY DEF IInv, MutexInv
<1>3. pr[p].name \in Name /\ pr[p].name[2] \in Fd /\ pr[p].name[1] \in Changing /\ pr[p].at \in Inode
  <2>1. pr[p].name \in Name /\ pr[p].name[2] \in Fd
    BY <1>1, <1>2, ProcIs
  <2>2. pr[p].name[1] \in Changing /\ pr[p].at \in Inode
    BY <1>1, <1>2 DEF Mutex
  <2> QED BY <2>1, <2>2
<1>4. ino[pr[p].at] = pr[p].name[2] /\ \A n \in named : n[2] # pr[p].name[2]
  BY <1>1, <1>2 DEF NamesInv, In
<1>5. ino[pr[p].at] # 0
  BY <1>3, <1>4, FdIs
<1>6. pr[p].at \notin Behind
  BY <1>2, <1>4 DEF Behind, NamesInv
<1>7. ASSUME NEW S, S \subseteq Changers
      PROVE  /\ InOf(pr, S) = IF b \in S THEN {p} ELSE {}
             /\ AtsOf(pr, S) = IF b \in S THEN {pr[p].at} ELSE {}
  BY <1>1, <1>2, <1>7, Alone
<1> QED BY <1>1, <1>3, <1>4, <1>5, <1>6, <1>7

(* The same after it has gone on.                                          *)
LEMMA CallGoes ==
  ASSUME OneChanging, NEW rk, IInv(rk), NEW p, p \in Procs, NEW b, b \in Changers, At(p, b),
         NEW c, c \in Changers, Go(p, c)
  PROVE  /\ Mutex(pr') /\ p \in InOf(pr', Changers) /\ pr'[p].pc = c
         /\ pr'[p].name = pr[p].name /\ pr'[p].at = pr[p].at
         /\ InOf(pr', {"walk"}) = InOf(pr, {"walk"})
         /\ \A q \in InOf(pr, {"walk"}) : pr'[q] = pr[q]
         /\ \A S : S \subseteq Changers => /\ InOf(pr', S) = IF c \in S THEN {p} ELSE {}
                                           /\ AtsOf(pr', S) = IF c \in S THEN {pr[p].at} ELSE {}
<1>1. Turns(p, c) /\ MutexInv
  BY CallIs DEF Turns, Go, IInv
<1>2. /\ Mutex(pr') /\ p \in InOf(pr', Changers) /\ pr'[p].pc = c
      /\ pr'[p].name = pr[p].name /\ pr'[p].at = pr[p].at
      /\ InOf(pr', {"walk"}) = InOf(pr, {"walk"})
      /\ \A q \in InOf(pr, {"walk"}) : pr'[q] = pr[q]
  BY <1>1, TurnIs
<1>3. ASSUME NEW S, S \subseteq Changers
      PROVE  /\ InOf(pr', S) = IF c \in S THEN {p} ELSE {}
             /\ AtsOf(pr', S) = IF c \in S THEN {pr[p].at} ELSE {}
  BY <1>2, <1>3, Alone
<1> QED BY <1>2, <1>3

(* The calls under way are well typed.                                     *)
LEMMA TypePr ==
  ASSUME NEW r, Mutex(r)
  PROVE  r \in [Procs -> {Idle} \cup [pc : {"add1", "add2", "add3", "add4", "enter",
           "clear", "del1", "del2", "del3", "gone", "walk"}, name : Name, at : Link]]
<1>1. Changers \cup {"walk"} = {"add1", "add2", "add3", "add4", "enter",
         "clear", "del1", "del2", "del3", "gone", "walk"}
  BY DEF Changers
<1> QED BY <1>1 DEF Mutex

(* What walks see stays as it was.                                         *)
LEMMA WalksOn ==
  ASSUME NEW rk, WalkInv(rk), InOf(pr', {"walk"}) = InOf(pr, {"walk"}),
         \A q \in InOf(pr, {"walk"}) : pr'[q] = pr[q],
         \A q \in InOf(pr, {"walk"}) :
           LET n == pr[q].name i == pr[q].at IN
           /\ n \in named'
           /\ i # Poison => owner'[n] = owner[n]
           /\ i \in Inode /\ (i \in Around \/ next[i] = Poison)
                => i \in Around' \/ next'[i] = Poison
           /\ n[1] \in Changing => i \in Listed'
  PROVE  WalkInv(rk)'
BY DEF WalkInv, In

(* Ranks are numbers, by which a set of inodes has a highest ...           *)
LEMMA OrderIs ==
  ASSUME NEW rk, Order(rk)
  PROVE  /\ rk[Nil] = 0 /\ rk[Head] \in Nat /\ (rk[Head] > 0 \/ Inode = {})
         /\ \A i \in Inode : /\ rk[i] \in Nat /\ rk[i] > 0 /\ rk[i] < rk[Head]
                             /\ i # Nil /\ i # Poison /\ i # Head
BY FdIs DEF Order, Nil, Poison, Head

LEMMA Highest ==
  ASSUME NEW rk, Order(rk), NEW S \in SUBSET Inode, S # {}
  PROVE  \E m \in S : \A n \in S : rk[n] <= rk[m]
<1>1. \A n \in Inode : rk[n] \in Nat
  BY OrderIs
<1>2. IsFiniteSet(Inode)
  BY FdIs, FS_Interval DEF Inode
<1> DEFINE T == {{s \in Inode : rk[s] >= rk[n]} : n \in S}
<1>3. IsWellFoundedOn(StrictSubsetOrdering(Inode), SUBSET Inode)
  BY <1>2, FS_StrictSubsetOrderingWellFounded, FS_FiniteSubsetsOfFinite
<1>4. T \subseteq SUBSET Inode /\ T # {}
  OBVIOUS
<1>5. PICK x \in T : \A y \in T : ~ (<<y, x>> \in StrictSubsetOrdering(Inode))
  <2> HIDE DEF T
  <2> QED BY <1>3, <1>4, WFMin
<1>6. PICK m \in S : x = {s \in Inode : rk[s] >= rk[m]}
  BY <1>5
<1>7. ASSUME NEW n \in S PROVE rk[n] <= rk[m]
  <2> SUFFICES ASSUME ~ rk[n] <= rk[m] PROVE FALSE
    OBVIOUS
  <2> DEFINE y == {s \in Inode : rk[s] >= rk[n]}
  <2>1. y \in T
    OBVIOUS
  <2>2. y \subseteq x /\ y # x
    <3>1. m \in x /\ m \notin y
      BY <1>1, <1>6
    <3>2. \A s \in Inode : rk[s] >= rk[n] => rk[s] >= rk[m]
      BY <1>1
    <3> QED BY <1>6, <3>1, <3>2
  <2>3. <<y, x>> \in StrictSubsetOrdering(Inode)
    <3>1. y \in SUBSET Inode /\ x \in SUBSET Inode
      BY <1>6
    <3> HIDE DEF y
    <3> QED BY <2>2, <3>1 DEF StrictSubsetOrdering
  <2> QED BY <1>5, <2>1, <2>3
<1> QED BY <1>7

(* ... and a lowest.                                                       *)
LEMMA Lowest ==
  ASSUME NEW rk, Order(rk), NEW S \in SUBSET Inode, S # {}
  PROVE  \E m \in S : \A n \in S : rk[m] <= rk[n]
<1> DEFINE turned == [i \in Inode \cup {Nil, Head} |->
                        IF i \in Inode THEN rk[Head] - rk[i] ELSE rk[i]]
<1>1. rk[Nil] = 0 /\ Nil # Head /\ Nil \notin Inode /\ Head \notin Inode
  BY FdIs DEF Order, Nil, Head
<1>2. Order(turned)
  BY <1>1 DEF Order
<1>3. PICK m \in S : \A n \in S : turned[n] <= turned[m]
  <2> HIDE DEF turned
  <2> QED BY <1>2, Highest
<1>4. ASSUME NEW n \in S PROVE rk[m] <= rk[n]
  <2>1. turned[n] = rk[Head] - rk[n] /\ turned[m] = rk[Head] - rk[m]
    OBVIOUS
  <2>2. rk[n] \in Nat /\ rk[m] \in Nat /\ rk[Head] \in Nat
    BY DEF Order
  <2> HIDE DEF turned
  <2> QED BY <1>3, <2>1, <2>2
<1> QED BY <1>4

(* While a call is about the list, lookups walk for other directories.     *)
LEMMA WalkElsewhere ==
  ASSUME OneChanging, MutexInv, NEW p, p \in InOf(pr, Changers), NEW q \in InOf(pr, {"walk"})
  PROVE  pr[q].name[1] \notin Changing
<1> SUFFICES ASSUME pr[q].name[1] \in Changing PROVE FALSE
  OBVIOUS
<1>1. /\ p \in Procs /\ q \in Procs /\ pr[p] # Idle /\ pr[q] # Idle /\ pr[p].pc \in Changers
      /\ pr[q].pc = "walk" /\ pr[p].name[1] \in Changing
  BY DEF InOf, MutexInv, Mutex
<1>2. p = q
  BY <1>1 DEF MutexInv, Mutex, OneChanging
<1> QED BY <1>1, <1>2 DEF Changers

(* What a call touches apart from the list stays as it is during it.       *)
Numbered == {"add1", "add2", "add3", "add4", "enter", "clear"}

LEMMA Access ==
  ASSUME OneChanging, NEW rk, IInv(rk), NEW p, p \in Procs, NEW b, b \in Changers, At(p, b),
         NEW c, c \in Changers, Go(p, c), c \in Numbered => b \in Numbered,
         first' \in Link, next' \in [Inode -> Link], pprev' \in [Inode -> PPrev],
         UNCHANGED fs, UNCHANGED oops
  PROVE  /\ TypeOK' /\ MutexInv' /\ NamesInv' /\ Behind' = Behind
         /\ \A S : S \subseteq Changers => /\ In(S)' = IF c \in S THEN {p} ELSE {}
                                           /\ Ats(S)' = IF c \in S THEN {pr[p].at} ELSE {}
         /\ pr'[p].at = pr[p].at
<1>1. /\ Mutex(pr') /\ p \in InOf(pr', Changers) /\ pr'[p].pc = c
      /\ pr'[p].name = pr[p].name /\ pr'[p].at = pr[p].at
      /\ \A S : S \subseteq Changers => /\ InOf(pr', S) = IF c \in S THEN {p} ELSE {}
                                        /\ AtsOf(pr', S) = IF c \in S THEN {pr[p].at} ELSE {}
  BY CallGoes
<1>2. /\ ino' = ino /\ freed' = freed /\ fds' = fds /\ named' = named /\ owner' = owner
      /\ dentry' = dentry /\ pinned' = pinned /\ relisted' = relisted
  BY DEF fs
<1>3. TypeOK'
  <2>1. pr' \in [Procs -> {Idle} \cup [pc : {"add1", "add2", "add3", "add4", "enter",
           "clear", "del1", "del2", "del3", "gone", "walk"}, name : Name, at : Link]]
    BY <1>1, TypePr
  <2> QED BY <1>2, <2>1 DEF IInv, TypeOK
<1>4. MutexInv'
  BY <1>1 DEF MutexInv
<1>5. NamesInv'
  <2>1. /\ ino[pr[p].at] = pr[p].name[2] /\ \A n \in named : n[2] # pr[p].name[2]
        /\ b \in Numbered => pr[p].name[2] \in fds
    BY CallIs DEF IInv, NamesInv, In, Numbered
  <2>2. In(Changers)' = {p}
    BY <1>1 DEF In, Changers
  <2>3. ASSUME NEW q \in In(Changers)'
        PROVE  /\ ino'[pr'[q].at] = pr'[q].name[2]
               /\ \A n \in named' : n[2] # pr'[q].name[2]
               /\ pr'[q].pc \in Numbered => pr'[q].name[2] \in fds'
    BY <1>1, <1>2, <2>1, <2>2
  <2> QED BY <1>2, <2>3 DEF IInv, NamesInv, Numbered
<1>6. Behind' = Behind
  BY <1>2 DEF Behind
<1> QED BY <1>1, <1>3, <1>4, <1>5, <1>6 DEF In, Ats

(* The inodes of the list while one call is about it.                      *)
LEMMA CallList ==
  ASSUME OneChanging, NEW rk, IInv(rk), NEW p, p \in Procs, NEW b, b \in Changers, At(p, b)
  PROVE  /\ Listed = IF b \in {"add4", "enter", "clear", "del1"} THEN Behind \cup {pr[p].at} ELSE Behind
         /\ Leaving = IF b \in {"del2", "del3"} THEN {pr[p].at} ELSE {}
         /\ Around = IF b \in {"add1", "gone"} THEN Behind ELSE Behind \cup {pr[p].at}
         /\ \A S : S \subseteq Changers => In(S) = IF b \in S THEN {p} ELSE {}
         /\ pr[p].at \in Inode /\ pr[p].at \notin Behind /\ ino[pr[p].at] # 0
         /\ Listed \subseteq Inode /\ Behind \subseteq Inode
<1>1. /\ \A S : S \subseteq Changers => /\ InOf(pr, S) = IF b \in S THEN {p} ELSE {}
                                        /\ AtsOf(pr, S) = IF b \in S THEN {pr[p].at} ELSE {}
      /\ pr[p].at \in Inode /\ pr[p].at \notin Behind /\ ino[pr[p].at] # 0
  BY CallIs
<1>2. {"add4", "enter", "clear", "del1"} \subseteq Changers /\ {"del2", "del3"} \subseteq Changers
  BY DEF Changers
<1>3. Listed \subseteq Inode
  BY DEF IInv, ChainInv
<1>4. /\ Listed = IF b \in {"add4", "enter", "clear", "del1"} THEN Behind \cup {pr[p].at} ELSE Behind
      /\ Leaving = IF b \in {"del2", "del3"} THEN {pr[p].at} ELSE {}
  BY <1>1, <1>2 DEF Listed, Leaving, Ats
<1>5. Ats({"add2", "add3"}) = IF b \in {"add2", "add3"} THEN {pr[p].at} ELSE {}
  BY <1>1 DEF Ats, Changers
<1>6. Around = IF b \in {"add1", "gone"} THEN Behind ELSE Behind \cup {pr[p].at}
  BY <1>4, <1>5 DEF Around, Changers
<1> QED BY <1>1, <1>2, <1>3, <1>4, <1>6 DEF In

(* And the walks, when no inode leaves the list unmarked.                  *)
LEMMA AccessWalks ==
  ASSUME OneChanging, NEW rk, IInv(rk), NEW p, p \in Procs, NEW b, b \in Changers, At(p, b),
         NEW c, c \in Changers \ {"add1"}, Go(p, c), UNCHANGED fs,
         \A j \in Inode : next[j] = Poison => next'[j] = Poison \/ (c = "add2" /\ j = pr[p].at),
         c = "gone" => next'[pr[p].at] = Poison
  PROVE  WalkInv(rk)'
<1>1. /\ InOf(pr', {"walk"}) = InOf(pr, {"walk"})
      /\ \A q \in InOf(pr, {"walk"}) : pr'[q] = pr[q]
      /\ \A S : S \subseteq Changers => AtsOf(pr', S) = IF c \in S THEN {pr[p].at} ELSE {}
  BY CallGoes
<1>2. p \in InOf(pr, Changers)
  BY CallIs
<1>3. \A q \in InOf(pr, {"walk"}) : pr[q].name[1] \notin Changing
  BY <1>2, WalkElsewhere DEF IInv
<1>4. \A q \in InOf(pr, {"walk"}) : pr[q].name \in named
  BY DEF IInv, WalkInv, In
<1>5. Around \subseteq Behind \cup {pr[p].at}
  BY CallList
<1>6. /\ Ats({"add4", "enter", "clear", "del1"})' =
           IF c \in {"add4", "enter", "clear", "del1"} THEN {pr[p].at} ELSE {}
      /\ Ats({"del2", "del3"})' = IF c \in {"del2", "del3"} THEN {pr[p].at} ELSE {}
      /\ Ats({"add2", "add3"})' = IF c \in {"add2", "add3"} THEN {pr[p].at} ELSE {}
  BY <1>1 DEF Ats, Changers
<1>7. Around' = IF c = "gone" THEN Behind ELSE Behind \cup {pr[p].at}
  <2>1. Behind' = Behind
    BY DEF Behind, fs
  <2> QED BY <1>6, <2>1 DEF Around, Listed, Leaving, Changers
<1>8. \A j \in Inode : j \in Around \/ next[j] = Poison => j \in Around' \/ next'[j] = Poison
  BY <1>5, <1>7
<1> QED BY <1>1, <1>3, <1>4, <1>8, WalksOn DEF IInv, fs

(* A process that follows a pointer into nowhere is the end of it.         *)
LEMMA OopsInv ==
  ASSUME NEW rk, IInv(rk), Oops
  PROVE  IInv(rk)' /\ Listed \subseteq Listed'
<1>1. UNCHANGED <<list, fs, pr>> /\ oops' = TRUE
  BY DEF Oops
<1>2. TypeOK' /\ MutexInv' /\ NamesInv'
  BY <1>1 DEF IInv, TypeOK, MutexInv, NamesInv, In, list, fs
<1>3. Listed' = Listed /\ Leaving' = Leaving /\ Around' = Around /\ \A S : In(S)' = In(S)
  BY <1>1 DEF Listed, Leaving, Around, Behind, Ats, In, fs
<1>4. ChainInv(rk)' /\ AddInv(rk)' /\ BackInv' /\ WalkInv(rk)'
  BY <1>1, <1>3 DEF IInv, ChainInv, AddInv, BackInv, WalkInv, Follows, Fresh, Back, list, fs
<1> QED BY <1>3, <1>2, <1>4 DEF IInv, Order

-----------------------------------------------------------------------------
(* hlist_add_head, access by access.                                       *)
LEMMA Add1Inv ==
  ASSUME OneChanging, NEW rk, IInv(rk), NEW p \in Procs, Add1(p)
  PROVE  IInv(rk)' /\ Listed \subseteq Listed'
<1>1. PICK i : i = pr[p].at
  OBVIOUS
<1>2. /\ At(p, "add1") /\ Go(p, "add2") /\ next' = [next EXCEPT ![i] = first]
      /\ first' = first /\ pprev' = pprev /\ UNCHANGED fs /\ UNCHANGED oops
  BY <1>1 DEF Add1
<1>3. /\ Listed = Behind /\ Leaving = {} /\ i \in Inode /\ ino[i] # 0 /\ i \notin Behind
      /\ Listed \subseteq Inode
      /\ In({"add1", "add2", "add3"}) = {p}
      /\ In({"add3", "add4"}) = {} /\ In({"del2"}) = {}
  BY <1>1, <1>2, CallList DEF Changers
<1>4. /\ next'[i] = first /\ \A j \in Inode : j # i => next'[j] = next[j]
      /\ next' \in [Inode -> Link] /\ first' \in Link /\ pprev' \in [Inode -> PPrev]
  BY <1>2, <1>3 DEF IInv, TypeOK
<1>5. /\ TypeOK' /\ MutexInv' /\ NamesInv' /\ Behind' = Behind /\ pr'[p].at = i
      /\ \A S : S \subseteq Changers => /\ In(S)' = IF "add2" \in S THEN {p} ELSE {}
                                        /\ Ats(S)' = IF "add2" \in S THEN {i} ELSE {}
  <2>1. "add1" \in Changers /\ "add2" \in Changers /\ "add1" \in Numbered
    BY DEF Changers, Numbered
  <2> QED BY <1>1, <1>2, <1>4, <2>1, Access
<1>6. /\ Listed' = Listed /\ Leaving' = Leaving /\ In({"add1", "add2", "add3"})' = {p}
      /\ In({"add2", "add3"})' = {p} /\ In({"add3", "add4"})' = {}
      /\ In({"add3"})' = {} /\ In({"add4"})' = {} /\ In({"del2"})' = {}
  BY <1>3, <1>5 DEF Listed, Leaving, Changers
<1>9. Fresh(rk, i) /\ first \in Listed \cup {Nil}
  BY <1>1, <1>3 DEF IInv, AddInv, ChainInv, Follows
<1>13. ChainInv(rk)'
  BY <1>2, <1>3, <1>4, <1>6, <1>9 DEF IInv, ChainInv, Follows, Fresh
<1>14. AddInv(rk)'
  <2>1. Fresh(rk, i)'
    BY <1>4, <1>6, <1>9 DEF Fresh
  <2>3. next'[i] = first'
    BY <1>2, <1>4
  <2> QED BY <1>5, <1>6, <2>1, <2>3 DEF AddInv
<1>15. BackInv'
  <2>1. \A j \in Listed : Back(j, Listed)
    BY <1>3 DEF IInv, BackInv
  <2>2. ASSUME NEW j \in Listed PROVE Back(j, Listed)'
    BY <1>2, <1>4, <1>6, <1>9, <2>1 DEF Back, Fresh
  <2> QED BY <1>6, <2>2 DEF BackInv
<1>16. WalkInv(rk)'
  <2>1. "add1" \in Changers /\ "add2" \in Changers \ {"add1"}
    BY DEF Changers
  <2> QED BY <1>1, <1>2, <1>4, <2>1, AccessWalks
<1> QED BY <1>6, <1>5, <1>13, <1>14, <1>15, <1>16 DEF IInv

(* The first inode learns where it will be.                                *)
LEMMA Add2Inv ==
  ASSUME OneChanging, NEW rk, IInv(rk), NEW p \in Procs, Add2(p)
  PROVE  IInv(rk)' /\ Listed \subseteq Listed'
<1>1. PICK i : i = pr[p].at
  OBVIOUS
<1> SUFFICES ASSUME ~ Oops PROVE IInv(rk)' /\ Listed \subseteq Listed'
  BY OopsInv
<1>2. /\ At(p, "add2") /\ Go(p, "add3") /\ first' = first /\ next' = next
      /\ pprev' = IF next[i] = Nil THEN pprev ELSE [pprev EXCEPT ![next[i]] = i]
      /\ UNCHANGED fs /\ UNCHANGED oops
  BY <1>1, Zenon DEF Add2
<1>3. /\ Listed = Behind /\ Leaving = {} /\ i \in Inode /\ ino[i] # 0 /\ i \notin Behind
      /\ Listed \subseteq Inode
      /\ In({"add1", "add2", "add3"}) = {p} /\ In({"add2", "add3"}) = {p}
      /\ In({"add3", "add4"}) = {} /\ In({"del2"}) = {}
  BY <1>1, <1>2, CallList DEF Changers
<1>4. /\ Fresh(rk, i) /\ next[i] = first /\ first \in Listed \cup {Nil}
  BY <1>1, <1>3 DEF IInv, AddInv, ChainInv, Follows
<1>5. /\ pprev' \in [Inode -> PPrev] /\ first' \in Link /\ next' \in [Inode -> Link]
      /\ first # Nil => pprev'[first] = i
      /\ \A j \in Inode : j # first => pprev'[j] = pprev[j]
  <2>1. first # Nil => first \in Inode
    BY <1>3, <1>4
  <2>2. pprev \in [Inode -> PPrev] /\ i \in PPrev /\ first \in Link /\ next \in [Inode -> Link]
    BY <1>3 DEF IInv, TypeOK, PPrev
  <2>3. pprev' = IF first = Nil THEN pprev ELSE [pprev EXCEPT ![first] = i]
    BY <1>2, <1>4
  <2>4. first' = first /\ next' = next
    BY <1>2
  <2> QED BY <2>1, <2>2, <2>3, <2>4
<1>6. /\ TypeOK' /\ MutexInv' /\ NamesInv' /\ Behind' = Behind /\ pr'[p].at = i
      /\ \A S : S \subseteq Changers => /\ In(S)' = IF "add3" \in S THEN {p} ELSE {}
                                        /\ Ats(S)' = IF "add3" \in S THEN {i} ELSE {}
  <2>1. "add2" \in Changers /\ "add3" \in Changers /\ "add2" \in Numbered
    BY DEF Changers, Numbered
  <2> QED BY <1>1, <1>2, <1>5, <2>1, Access
<1>7. /\ Listed' = Listed /\ Leaving' = Leaving /\ In({"add1", "add2", "add3"})' = {p}
      /\ In({"add2", "add3"})' = {p} /\ In({"add3", "add4"})' = {p}
      /\ In({"add3"})' = {p} /\ In({"add4"})' = {} /\ In({"del2"})' = {}
  BY <1>3, <1>6 DEF Listed, Leaving, Changers
<1>8. ChainInv(rk)'
  BY <1>2, <1>3, <1>7 DEF IInv, ChainInv, Follows
<1>9. AddInv(rk)'
  <2>1. Fresh(rk, i)'
    BY <1>2, <1>4, <1>7 DEF Fresh
  <2>3. next'[i] = first'
    BY <1>2, <1>4
  <2> QED BY <1>6, <1>7, <2>1, <2>3 DEF AddInv
<1>10. BackInv'
  <2>1. \A j \in Listed : Back(j, Listed)
    BY <1>3 DEF IInv, BackInv
  <2>2. ASSUME NEW j \in Listed, j # first PROVE Back(j, Listed)'
    BY <1>2, <1>3, <1>5, <1>7, <2>1, <2>2 DEF Back
  <2> QED BY <1>2, <1>5, <1>6, <1>7, <2>2 DEF BackInv
<1>11. WalkInv(rk)'
  <2>1. "add2" \in Changers /\ "add3" \in Changers \ {"add1"}
    BY DEF Changers
  <2> QED BY <1>2, <2>1, AccessWalks
<1> QED BY <1>7, <1>6, <1>8, <1>9, <1>10, <1>11 DEF IInv

(* The new inode is the first.                                             *)
LEMMA Add3Inv ==
  ASSUME OneChanging, NEW rk, IInv(rk), NEW p \in Procs, Add3(p)
  PROVE  IInv(rk)' /\ Listed \subseteq Listed'
<1>1. PICK i : i = pr[p].at
  OBVIOUS
<1>2. /\ At(p, "add3") /\ Go(p, "add4") /\ first' = i
      /\ next' = next /\ pprev' = pprev /\ UNCHANGED fs /\ UNCHANGED oops
  BY <1>1 DEF Add3
<1>3. /\ Listed = Behind /\ Leaving = {} /\ i \in Inode /\ ino[i] # 0 /\ i \notin Behind
      /\ Listed \subseteq Inode
      /\ In({"add1", "add2", "add3"}) = {p} /\ In({"add2", "add3"}) = {p}
      /\ In({"add3"}) = {p} /\ In({"del2"}) = {}
  BY <1>1, <1>2, CallList DEF Changers
<1>4. /\ Fresh(rk, i) /\ next[i] = first /\ first \in Listed \cup {Nil}
      /\ Follows(rk, Head, first, Listed) /\ \A j \in Listed : Follows(rk, j, next[j], Listed)
      /\ first # Nil => pprev[first] = i
  BY <1>1, <1>3 DEF IInv, AddInv, ChainInv, BackInv, Follows
<1>5. first' \in Link /\ next' \in [Inode -> Link] /\ pprev' \in [Inode -> PPrev]
  BY <1>2, <1>3 DEF IInv, TypeOK, Link
<1>6. /\ TypeOK' /\ MutexInv' /\ NamesInv' /\ Behind' = Behind /\ pr'[p].at = i
      /\ \A S : S \subseteq Changers => /\ In(S)' = IF "add4" \in S THEN {p} ELSE {}
                                        /\ Ats(S)' = IF "add4" \in S THEN {i} ELSE {}
  <2>1. "add3" \in Changers /\ "add4" \in Changers /\ "add3" \in Numbered
    BY DEF Changers, Numbered
  <2> QED BY <1>1, <1>2, <1>5, <2>1, Access
<1>7. /\ Listed' = Listed \cup {i} /\ Leaving' = {} /\ In({"add1", "add2", "add3"})' = {}
      /\ In({"add2", "add3"})' = {} /\ In({"add3", "add4"})' = {p}
      /\ In({"add3"})' = {} /\ In({"add4"})' = {p} /\ In({"del2"})' = {}
  BY <1>3, <1>6 DEF Listed, Leaving, Changers
<1>8. \A k \in Listed : rk[k] < rk[i] /\ rk[k] \in Nat /\ rk[k] > 0 /\ k # i
  BY <1>3, <1>4, OrderIs DEF Fresh, IInv
<1>9. rk[i] \in Nat /\ rk[i] > 0 /\ rk[i] < rk[Head] /\ rk[Nil] = 0 /\ i # Nil /\ Nil \notin Listed
  BY <1>3, OrderIs DEF IInv
<1>10. ChainInv(rk)'
  <2>1. Listed' \subseteq Inode /\ Leaving' \cap Listed' = {}
    BY <1>3, <1>7
  <2>2. Follows(rk, Head, i, Listed')
    BY <1>7, <1>8, <1>9 DEF Follows
  <2>3. Follows(rk, i, first, Listed')
    <3>1. first \in Listed' \cup {Nil} /\ rk[first] < rk[i]
      BY <1>4, <1>7, <1>8, <1>9
    <3>2. \A k \in Listed : rk[k] <= rk[first]
      BY <1>4, <1>3, OrderIs DEF Follows, IInv
    <3>3. \A k \in Listed' : rk[k] < rk[i] => rk[k] <= rk[first]
      BY <1>7, <1>9, <3>2
    <3> QED BY <3>1, <3>3 DEF Follows
  <2>4. ASSUME NEW j \in Listed PROVE Follows(rk, j, next[j], Listed')
    BY <1>4, <1>7, <1>8, <1>9 DEF Follows
  <2> QED BY <1>2, <1>4, <1>7, <2>1, <2>2, <2>3, <2>4 DEF ChainInv, Follows
<1>11. AddInv(rk)'
  BY <1>2, <1>6, <1>7 DEF AddInv
<1>12. BackInv'
  <2>1. \A j \in Listed : Back(j, Listed) \/ j = first
    BY <1>3 DEF IInv, BackInv
  <2>2. ASSUME NEW j \in Listed PROVE Back(j, Listed)'
    <3>1. j # first'
      BY <1>2, <1>8, <1>9
    <3>2. CASE j = first
      BY <1>2, <1>4, <1>7, <1>8, <1>9, <3>1, <3>2 DEF Back
    <3>3. CASE j # first
      BY <1>2, <1>7, <2>1, <3>1, <3>3 DEF Back
    <3> QED BY <3>2, <3>3
  <2>3. In({"add3", "add4"})' # {} /\ i = first'
    BY <1>2, <1>7
  <2> QED BY <1>7, <2>2, <2>3 DEF BackInv
<1>13. WalkInv(rk)'
  <2>1. "add3" \in Changers /\ "add4" \in Changers \ {"add1"}
    BY DEF Changers
  <2> QED BY <1>2, <2>1, AccessWalks
<1> QED BY <1>7, <1>6, <1>10, <1>11, <1>12, <1>13 DEF IInv

(* It points back to the head.                                             *)
LEMMA Add4Inv ==
  ASSUME OneChanging, NEW rk, IInv(rk), NEW p \in Procs, Add4(p)
  PROVE  IInv(rk)' /\ Listed \subseteq Listed'
<1>1. PICK i : i = pr[p].at
  OBVIOUS
<1>2. /\ At(p, "add4") /\ Go(p, "enter") /\ pprev' = [pprev EXCEPT ![i] = Head]
      /\ first' = first /\ next' = next /\ UNCHANGED fs /\ UNCHANGED oops
  BY <1>1 DEF Add4
<1>3. /\ Listed = Behind \cup {i} /\ Leaving = {} /\ i \in Inode /\ ino[i] # 0 /\ i \notin Behind
      /\ Listed \subseteq Inode
      /\ In({"add4"}) = {p} /\ In({"del2"}) = {}
  BY <1>1, <1>2, CallList DEF Changers
<1>4. first = i
  BY <1>1, <1>3 DEF IInv, AddInv
<1>5. /\ first' \in Link /\ next' \in [Inode -> Link] /\ pprev' \in [Inode -> PPrev]
      /\ pprev'[i] = Head /\ \A j \in Inode : j # i => pprev'[j] = pprev[j]
  BY <1>2, <1>3 DEF IInv, TypeOK, PPrev
<1>6. /\ TypeOK' /\ MutexInv' /\ NamesInv' /\ Behind' = Behind
      /\ \A S : S \subseteq Changers => /\ In(S)' = IF "enter" \in S THEN {p} ELSE {}
                                        /\ Ats(S)' = IF "enter" \in S THEN {i} ELSE {}
  <2>1. "add4" \in Changers /\ "enter" \in Changers /\ "add4" \in Numbered
    BY DEF Changers, Numbered
  <2> QED BY <1>1, <1>2, <1>5, <2>1, Access
<1>7. /\ Listed' = Listed /\ Leaving' = {} /\ In({"add1", "add2", "add3"})' = {}
      /\ In({"add2", "add3"})' = {} /\ In({"add3", "add4"})' = {}
      /\ In({"add3"})' = {} /\ In({"add4"})' = {} /\ In({"del2"})' = {}
  BY <1>3, <1>6 DEF Listed, Leaving, Changers
<1>8. ChainInv(rk)'
  BY <1>2, <1>3, <1>7 DEF IInv, ChainInv, Follows
<1>9. AddInv(rk)'
  BY <1>7 DEF AddInv
<1>10. BackInv'
  <2>1. \A j \in Listed : Back(j, Listed) \/ j = first
    BY <1>3 DEF IInv, BackInv
  <2>2. ASSUME NEW j \in Listed PROVE Back(j, Listed)'
    BY <1>2, <1>3, <1>4, <1>5, <1>7, <2>1 DEF Back
  <2> QED BY <1>7, <2>2 DEF BackInv
<1>11. WalkInv(rk)'
  <2>1. "add4" \in Changers /\ "enter" \in Changers \ {"add1"}
    BY DEF Changers
  <2> QED BY <1>2, <2>1, AccessWalks
<1> QED BY <1>7, <1>6, <1>8, <1>9, <1>10, <1>11 DEF IInv

(* The name of the new file is there.                                      *)
LEMMA EnterInv ==
  ASSUME OneChanging, NEW rk, IInv(rk), NEW p \in Procs, Enter(p)
  PROVE  IInv(rk)' /\ Listed \subseteq Listed'
<1>1. PICK i, n : i = pr[p].at /\ n = pr[p].name
  OBVIOUS
<1>2. /\ At(p, "enter") /\ End(p) /\ named' = named \cup {n} /\ pinned' = pinned \cup {n}
      /\ owner' = [owner EXCEPT ![n] = i] /\ dentry' = [dentry EXCEPT ![n] = i]
      /\ first' = first /\ next' = next /\ pprev' = pprev
      /\ ino' = ino /\ freed' = freed /\ fds' = fds /\ oops' = oops /\ relisted' = relisted
  BY <1>1 DEF Enter, list
<1>3. /\ Listed = Behind \cup {i} /\ Leaving = {} /\ Around = Listed /\ i \in Inode /\ ino[i] # 0 /\ i \notin Behind
      /\ Listed \subseteq Inode
      /\ In({"add3", "add4"}) = {} /\ In({"del2"}) = {}
  BY <1>1, <1>2, CallList DEF Changers
<1>4. /\ n \in Name /\ n[1] \in Changing /\ n[2] \in Fd /\ ino[i] = n[2] /\ n[2] \in fds
      /\ \A m \in named : m[2] # n[2]
      /\ p \in InOf(pr, Changers) /\ pr[p] # Idle /\ pr[p].pc = "enter"
      /\ InOf(pr, Changers) = {p} /\ i \in Inode
  <2>1. "enter" \in Changers
    BY DEF Changers
  <2>2. /\ n \in Name /\ n[1] \in Changing /\ n[2] \in Fd /\ ino[i] = n[2]
        /\ \A m \in named : m[2] # n[2]
        /\ p \in InOf(pr, Changers) /\ pr[p] # Idle /\ pr[p].pc = "enter"
        /\ InOf(pr, Changers) = {p}
    BY <1>1, <1>2, <2>1, CallIs
  <2>3. n[2] \in fds
    BY <1>1, <2>2 DEF IInv, NamesInv, In
  <2> QED BY <1>3, <2>2, <2>3
<1>5. n \notin named
  BY <1>4
<1>6. /\ Mutex(pr') /\ InOf(pr', Changers) = {} /\ InOf(pr', {"walk"}) = InOf(pr, {"walk"})
      /\ \A q \in InOf(pr, {"walk"}) : pr'[q] = pr[q]
  <2>1. /\ Mutex(pr') /\ \A q \in Procs : q # p => pr'[q] = pr[q]
        /\ \A S : InOf(pr', S) = InOf(pr, S) \ {p}
    BY <1>2, <1>4, EndIs DEF IInv
  <2>2. p \notin InOf(pr, {"walk"})
    BY <1>4 DEF InOf
  <2> QED BY <1>4, <2>1, <2>2 DEF InOf
<1>7. \A S : S \subseteq Changers => In(S)' = {} /\ Ats(S)' = {}
  BY <1>6, Nobody DEF In, Ats
<1>8. /\ owner'[n] = i /\ dentry'[n] = i
      /\ \A m \in Name : m # n => owner'[m] = owner[m] /\ dentry'[m] = dentry[m]
      /\ owner' \in [Name -> Inode \cup {Nil}] /\ dentry' \in [Name -> Inode \cup {Nil, None}]
      /\ named \subseteq Name
  BY <1>2, <1>3, <1>4 DEF IInv, TypeOK
<1>9. TypeOK'
  <2>1. pr' \in [Procs -> {Idle} \cup [pc : {"add1", "add2", "add3", "add4", "enter",
           "clear", "del1", "del2", "del3", "gone", "walk"}, name : Name, at : Link]]
    BY <1>6, TypePr
  <2>2. named' \subseteq Name /\ pinned' \subseteq Name
    BY <1>2, <1>4 DEF IInv, TypeOK
  <2> QED BY <1>2, <1>8, <2>1, <2>2 DEF IInv, TypeOK
<1>10. Behind' = Behind \cup {i}
  BY <1>2, <1>5, <1>8 DEF Behind
<1>11. /\ Listed' = Listed /\ Leaving' = {} /\ Around' = Listed /\ In({"add1", "add2", "add3"})' = {}
       /\ In({"add2", "add3"})' = {} /\ In({"add3", "add4"})' = {}
       /\ In({"add3"})' = {} /\ In({"add4"})' = {} /\ In({"del2"})' = {} /\ In(Changers)' = {}
  BY <1>3, <1>7, <1>10 DEF Listed, Leaving, Around, Changers
<1>12. NamesInv'
  <2>1. ASSUME NEW m \in named'
        PROVE  /\ owner'[m] \in Inode /\ ino'[owner'[m]] = m[2] /\ m[2] \in fds'
               /\ dentry'[m] \in {None, owner'[m]}
               /\ m[1] \notin Changing => \A j \in Inode : ino'[j] = m[2] => j = owner'[m]
    <3>1. CASE m = n
      BY <1>2, <1>3, <1>4, <1>8, <3>1
    <3>2. CASE m # n
      BY <1>2, <1>8, <3>2 DEF IInv, NamesInv
    <3> QED BY <3>1, <3>2
  <2>2. \A m, k \in named' : m[2] = k[2] => m = k
    BY <1>2, <1>4 DEF IInv, NamesInv
  <2> QED BY <1>11, <2>1, <2>2 DEF NamesInv
<1>13. ChainInv(rk)'
  BY <1>2, <1>3, <1>11 DEF IInv, ChainInv, Follows
<1>14. AddInv(rk)'
  BY <1>2, <1>3, <1>11 DEF IInv, AddInv
<1>15. BackInv'
  <2>1. \A j \in Listed : Back(j, Listed)
    BY <1>3 DEF IInv, BackInv
  <2>2. ASSUME NEW j \in Listed PROVE Back(j, Listed)'
    BY <1>2, <1>11, <2>1 DEF Back
  <2> QED BY <1>11, <2>2 DEF BackInv
<1>16. WalkInv(rk)'
  <2>1. \A q \in InOf(pr, {"walk"}) : pr[q].name \in named /\ pr[q].name # n
    BY <1>5 DEF IInv, WalkInv, In
  <2>2. \A q \in InOf(pr, {"walk"}) : pr[q].name[1] \notin Changing
    BY <1>4, WalkElsewhere DEF IInv
  <2> QED BY <1>2, <1>3, <1>6, <1>8, <1>11, <2>1, <2>2, WalksOn DEF IInv
<1> QED BY <1>11, <1>6, <1>9, <1>12, <1>13, <1>14, <1>15, <1>16 DEF IInv, MutexInv

(* What does not concern the list, nor a call that is about it.            *)
LEMMA Quiet ==
  ASSUME NEW rk, NamesInv, ChainInv(rk), AddInv(rk), BackInv, UNCHANGED list,
         ino' = ino, named' = named, owner' = owner, fds' = fds,
         \A n \in named : dentry'[n] \in {None, owner[n]},
         \A S : S \subseteq Changers => /\ In(S)' = In(S) /\ Ats(S)' = Ats(S)
                                        /\ \A q \in In(S) : pr'[q] = pr[q]
  PROVE  /\ NamesInv' /\ ChainInv(rk)' /\ AddInv(rk)' /\ BackInv'
         /\ Listed' = Listed /\ Leaving' = Leaving /\ Around' = Around
<1>1. first' = first /\ next' = next /\ pprev' = pprev
  BY DEF list
<1>2. /\ {"add4", "enter", "clear", "del1"} \subseteq Changers /\ {"del2", "del3"} \subseteq Changers
      /\ {"add1", "add2", "add3"} \subseteq Changers /\ {"add2", "add3"} \subseteq Changers
      /\ {"add3", "add4"} \subseteq Changers /\ {"add3"} \subseteq Changers
      /\ {"add4"} \subseteq Changers /\ {"del2"} \subseteq Changers
  BY DEF Changers
<1>3. Listed' = Listed /\ Leaving' = Leaving /\ Around' = Around
  BY <1>2 DEF Listed, Leaving, Around, Behind
<1>4. NamesInv'
  BY DEF NamesInv
<1>5. ChainInv(rk)'
  BY <1>1, <1>3 DEF ChainInv, Follows
<1>6. AddInv(rk)'
  <2>1. ASSUME NEW p \in In({"add1", "add2", "add3"})' PROVE Fresh(rk, pr[p].at)'
    <3>1. p \in In({"add1", "add2", "add3"}) /\ pr'[p] = pr[p]
      BY <1>2
    <3>2. Fresh(rk, pr[p].at)
      BY <3>1 DEF AddInv
    <3> QED BY <1>1, <1>3, <3>1, <3>2 DEF Fresh
  <2>2. \A p \in In({"add2", "add3"})' : next'[pr'[p].at] = first'
    BY <1>1, <1>2 DEF AddInv
  <2>3. \A p \in In({"add4"})' : first' = pr'[p].at
    BY <1>1, <1>2 DEF AddInv
  <2> QED BY <2>1, <2>2, <2>3 DEF AddInv
<1>7. BackInv'
  <2>1. \A i \in Listed : Back(i, Listed)' <=> Back(i, Listed)
    BY <1>1, <1>3 DEF Back
  <2>2. /\ In({"add3", "add4"})' = In({"add3", "add4"})
        /\ In({"add3"})' = In({"add3"}) /\ In({"del2"})' = In({"del2"})
        /\ \A q \in In({"add3"}) : pr'[q] = pr[q]
        /\ \A q \in In({"del2"}) : pr'[q] = pr[q]
    BY <1>2
  <2> QED BY <1>1, <1>3, <2>1, <2>2 DEF BackInv
<1> QED BY <1>3, <1>4, <1>5, <1>6, <1>7

(* Following next from the head leads to the inodes of the list.           *)
LEMMA ReachIs ==
  ASSUME NEW rk, Order(rk), ChainInv(rk)
  PROVE  Reach = Listed
<1>1. Listed \subseteq Inode /\ Follows(rk, Head, first, Listed)
      /\ \A j \in Listed : Follows(rk, j, next[j], Listed)
  BY DEF ChainInv
<1>2. /\ \A j \in Listed : rk[j] \in Nat /\ rk[j] > 0 /\ rk[j] < rk[Head]
      /\ \A j, k \in Listed : rk[j] = rk[k] => j = k
      /\ rk[Nil] = 0
  BY <1>1, OrderIs DEF Order
<1>3. Nil \notin Inode
  BY FdIs DEF Nil
<1>4. Closed(Listed)
  BY <1>1, <1>3 DEF Closed, Follows
<1>5. Reach \subseteq Listed
  BY <1>1, <1>4 DEF Reach
<1>6. ASSUME NEW C \in SUBSET Inode, Closed(C) PROVE Listed \subseteq C
  <2> SUFFICES ASSUME Listed \ C # {} PROVE FALSE
    OBVIOUS
  <2>1. PICK j \in Listed \ C : \A k \in Listed \ C : rk[k] <= rk[j]
    BY <1>1, Highest
  <2>2. j # first
    BY <1>1, <1>6, <2>1 DEF Closed
  <2> DEFINE Above == {k \in Listed : rk[k] > rk[j]}
  <2>3. first \in Above
    BY <1>1, <1>2, <2>1, <2>2 DEF Follows
  <2>4. PICK k \in Above : \A m \in Above : rk[k] <= rk[m]
    BY <1>1, <2>3, Lowest
  <2>5. k \in Listed /\ rk[j] < rk[k] /\ k \in C
    BY <1>2, <2>1, <2>4
  <2>6. rk[next[k]] < rk[k] /\ rk[j] <= rk[next[k]] /\ next[k] \in Listed \cup {Nil}
    BY <1>1, <2>1, <2>5 DEF Follows
  <2>7. next[k] \in Listed
    BY <1>2, <2>1, <2>6
  <2>8. ~ rk[j] < rk[next[k]]
    <3> SUFFICES ASSUME rk[j] < rk[next[k]] PROVE FALSE
      OBVIOUS
    <3>1. next[k] \in Above
      BY <1>2, <2>1, <2>7
    <3> QED BY <1>2, <2>4, <2>5, <2>6, <2>7, <3>1
  <2>9. next[k] = j
    BY <1>2, <2>1, <2>6, <2>7, <2>8
  <2>10. j \in C
    BY <1>1, <1>6, <2>1, <2>5, <2>9 DEF Closed
  <2> QED BY <2>1, <2>10
<1>7. Listed \subseteq Reach
  BY <1>1, <1>6 DEF Reach
<1> QED BY <1>5, <1>7

-----------------------------------------------------------------------------
(* The calls begin.                                                        *)
LEMMA CreateInv ==
  ASSUME OneChanging, NEW rk, IInv(rk), NEW p \in Procs, NEW n \in Name, Create(p, n), ~ relisted'
  PROVE  (\E up : IInv(up)') /\ Listed \subseteq Listed'
<1>1. PICK i \in Spare :
        /\ Begin(p, n, "add1", i) /\ ino' = [ino EXCEPT ![i] = n[2]] /\ freed' = freed \ {i}
        /\ relisted' = (relisted \/ i \in Reach)
  BY DEF Create
<1>2. /\ n[1] \in Changing /\ n[2] \notin fds /\ fds' = fds \cup {n[2]}
      /\ first' = first /\ next' = next /\ pprev' = pprev /\ named' = named
      /\ owner' = owner /\ dentry' = dentry /\ pinned' = pinned /\ oops' = oops
  BY DEF Create, list
<1>3. i \in Inode /\ i \notin Listed /\ Listed \subseteq Inode
  <2>1. i \in Inode
    BY DEF Spare, Unused, IInv, TypeOK
  <2>2. Reach = Listed
    BY ReachIs DEF IInv
  <2> QED BY <1>1, <2>1, <2>2 DEF IInv, ChainInv
<1>4. /\ Mutex(pr') /\ pr'[p] # Idle /\ pr'[p].pc = "add1" /\ pr'[p].name = n /\ pr'[p].at = i
      /\ pr[p] = Idle /\ (\A q \in Procs : q # p => pr'[q] = pr[q])
      /\ \A q \in Procs : pr[q] # Idle => pr[q].name[1] # n[1]
  <2>1. "add1" \in Changers /\ i \in Link
    BY <1>3 DEF Changers, Link
  <2> QED BY <1>1, <1>2, <1>3, <2>1, BeginIs DEF IInv
<1>5. /\ InOf(pr, Changers) = {} /\ p \in InOf(pr', Changers)
      /\ InOf(pr', {"walk"}) = InOf(pr, {"walk"})
      /\ \A q \in InOf(pr, {"walk"}) : pr'[q] = pr[q]
  <2>1. InOf(pr, Changers) = {}
    BY <1>2, <1>4, BeginAlone DEF IInv
  <2>2. p \in InOf(pr', Changers)
    BY <1>4 DEF InOf, Changers
  <2>3. p \notin InOf(pr', {"walk"}) /\ p \notin InOf(pr, {"walk"})
    BY <1>4 DEF InOf
  <2> QED BY <1>4, <2>1, <2>2, <2>3 DEF InOf
<1>6. \A S : S \subseteq Changers => In(S) = {} /\ Ats(S) = {}
  BY <1>5, Nobody DEF In, Ats
<1>7. \A S : S \subseteq Changers => /\ In(S)' = IF "add1" \in S THEN {p} ELSE {}
                                     /\ Ats(S)' = IF "add1" \in S THEN {i} ELSE {}
  BY <1>4, <1>5, Alone DEF In, Ats
<1>8. /\ Listed = Behind /\ Leaving = {} /\ Around = Listed
      /\ In({"add3", "add4"}) = {} /\ In({"del2"}) = {}
  BY <1>6 DEF Listed, Leaving, Around, Changers
<1>9. Behind' = Behind
  BY <1>2 DEF Behind
<1>10. /\ Listed' = Listed /\ Leaving' = {} /\ Around' = Listed
       /\ In({"add1", "add2", "add3"})' = {p}
       /\ In({"add2", "add3"})' = {} /\ In({"add3", "add4"})' = {}
       /\ In({"add3"})' = {} /\ In({"add4"})' = {} /\ In({"del2"})' = {} /\ In(Changers)' = {p}
  BY <1>7, <1>8, <1>9 DEF Listed, Leaving, Around, Changers
<1>11. n[2] \in Fd /\ n[2] # 0
  BY FdIs DEF Name
<1>12. ino'[i] = n[2] /\ \A j \in Inode : j # i => ino'[j] = ino[j]
  BY <1>1, <1>3 DEF IInv, TypeOK
<1>13. TypeOK'
  <2>1. pr' \in [Procs -> {Idle} \cup [pc : {"add1", "add2", "add3", "add4", "enter",
           "clear", "del1", "del2", "del3", "gone", "walk"}, name : Name, at : Link]]
    BY <1>4, TypePr
  <2>2. ino' \in [Inode -> Fd \cup {0}] /\ fds' \subseteq Fd /\ freed' \subseteq Inode
    BY <1>1, <1>2, <1>11 DEF IInv, TypeOK
  <2>3. relisted' \in BOOLEAN
    BY <1>1 DEF IInv, TypeOK
  <2> QED BY <1>2, <2>1, <2>2, <2>3 DEF IInv, TypeOK
<1>14. NamesInv'
  <2>1. ASSUME NEW m \in named
        PROVE  /\ owner[m] \in Inode /\ ino'[owner[m]] = m[2] /\ m[2] \in fds' /\ m[2] # n[2]
               /\ dentry[m] \in {None, owner[m]}
               /\ m[1] \notin Changing => \A j \in Inode : ino'[j] = m[2] => j = owner[m]
    <3>1. /\ owner[m] \in Inode /\ ino[owner[m]] = m[2] /\ m[2] \in fds
          /\ dentry[m] \in {None, owner[m]}
          /\ m[1] \notin Changing => \A j \in Inode : ino[j] = m[2] => j = owner[m]
      BY DEF IInv, NamesInv
    <3>2. owner[m] # i
      BY <1>3, <1>8 DEF Behind
    <3> QED BY <1>2, <1>12, <3>1, <3>2
  <2>2. \A m, k \in named : m[2] = k[2] => m = k
    BY DEF IInv, NamesInv
  <2>3. ino'[pr'[p].at] = pr'[p].name[2] /\ pr'[p].name[2] \in fds'
    BY <1>2, <1>4, <1>12
  <2> QED BY <1>2, <1>4, <1>10, <2>1, <2>2, <2>3 DEF NamesInv
<1>15. BackInv'
  <2>1. \A j \in Listed : Back(j, Listed)
    BY <1>8 DEF IInv, BackInv
  <2>2. ASSUME NEW j \in Listed PROVE Back(j, Listed)'
    BY <1>2, <1>10, <2>1 DEF Back
  <2> QED BY <1>10, <2>2 DEF BackInv
<1> DEFINE up == [rk EXCEPT ![i] = rk[Head], ![Head] = rk[Head] + 1]
<1>16. /\ Order(up) /\ up[i] = rk[Head] /\ rk[Head] \in Nat /\ up[Head] = rk[Head] + 1
       /\ \A j \in Listed \cup {Nil} : up[j] = rk[j] /\ rk[j] \in Nat /\ rk[j] < rk[Head]
       /\ \A j \in Inode : up[j] = IF j = i THEN rk[Head] ELSE rk[j]
  <2>1. /\ Nil \notin Inode /\ Head \notin Inode /\ Nil # Head /\ i # Nil /\ i # Head
        /\ rk \in [Inode \cup {Nil, Head} -> Nat]
    BY <1>3, FdIs DEF Nil, Head, IInv, Order
  <2>2. /\ up[i] = rk[Head] /\ up[Head] = rk[Head] + 1 /\ up[Nil] = rk[Nil]
        /\ \A j \in Inode : up[j] = IF j = i THEN rk[Head] ELSE rk[j]
        /\ up \in [Inode \cup {Nil, Head} -> Nat]
    BY <1>3, <2>1
  <2> HIDE DEF up
  <2>3. Order(up)
    BY <1>3, <2>1, <2>2 DEF IInv, Order
  <2> QED BY <1>3, <2>1, <2>2, <2>3 DEF IInv, Order
<1> HIDE DEF up
<1>17. ChainInv(up)'
  <2>1. /\ Follows(rk, Head, first, Listed) /\ \A j \in Listed : Follows(rk, j, next[j], Listed)
    BY DEF IInv, ChainInv
  <2>2. Follows(up, Head, first, Listed)
    BY <1>16, <2>1 DEF Follows
  <2>3. ASSUME NEW j \in Listed PROVE Follows(up, j, next[j], Listed)
    BY <1>16, <2>1 DEF Follows
  <2> QED BY <1>2, <1>3, <1>10, <2>2, <2>3 DEF ChainInv, Follows
<1>18. AddInv(up)'
  BY <1>3, <1>4, <1>10, <1>16 DEF AddInv, Fresh
<1>19. WalkInv(up)'
  <2>1. WalkInv(rk)
    BY DEF IInv
  <2>2. ASSUME NEW q \in In({"walk"})
        PROVE  LET m == pr[q].name j == pr[q].at IN
               /\ m \in named
               /\ j # Poison => j \in Inode /\ up[j] >= up[owner[m]] /\ (j \in Around \/ next[j] = Poison)
               /\ m[1] \in Changing => j \in Listed
    <3>1. owner[pr[q].name] \in Listed
      BY <1>8, <2>1 DEF WalkInv, Behind
    <3> QED BY <1>3, <1>16, <2>1, <3>1 DEF WalkInv
  <2>3. In({"walk"})' = In({"walk"}) /\ \A q \in In({"walk"}) : pr'[q] = pr[q]
    BY <1>5 DEF In
  <2> QED BY <1>2, <1>8, <1>10, <2>2, <2>3 DEF WalkInv
<1>20. Order(up)'
  BY <1>16 DEF Order
<1> QED BY <1>4, <1>10, <1>13, <1>14, <1>15, <1>17, <1>18, <1>19, <1>20 DEF IInv, MutexInv

(* A name is taken away; its inode is in the list still.                   *)
LEMMA UnlinkInv ==
  ASSUME OneChanging, NEW rk, IInv(rk), NEW p \in Procs, NEW n \in Name, Unlink(p, n)
  PROVE  IInv(rk)' /\ Listed \subseteq Listed'
<1>1. PICK i : i = dentry[n]
  OBVIOUS
<1>2. /\ n[1] \in Changing /\ n \in named /\ i \in Inode /\ Begin(p, n, "clear", i)
      /\ named' = named \ {n}
      /\ first' = first /\ next' = next /\ pprev' = pprev /\ freed' = freed /\ ino' = ino
      /\ fds' = fds /\ owner' = owner /\ dentry' = dentry /\ pinned' = pinned /\ oops' = oops
      /\ relisted' = relisted
  BY <1>1 DEF Unlink, list
<1>3. i = owner[n] /\ ino[i] = n[2] /\ n[2] \in fds
  BY <1>1, <1>2, FdIs DEF IInv, NamesInv, None
<1>4. /\ Mutex(pr') /\ pr'[p] # Idle /\ pr'[p].pc = "clear" /\ pr'[p].name = n /\ pr'[p].at = i
      /\ pr[p] = Idle /\ (\A q \in Procs : q # p => pr'[q] = pr[q])
      /\ \A q \in Procs : pr[q] # Idle => pr[q].name[1] # n[1]
  <2>1. "clear" \in Changers /\ i \in Link
    BY <1>2 DEF Changers, Link
  <2> QED BY <1>2, <2>1, BeginIs DEF IInv
<1>5. /\ InOf(pr, Changers) = {} /\ p \in InOf(pr', Changers)
      /\ InOf(pr', {"walk"}) = InOf(pr, {"walk"})
      /\ \A q \in InOf(pr, {"walk"}) : pr'[q] = pr[q]
  <2>1. InOf(pr, Changers) = {}
    BY <1>2, <1>4, BeginAlone DEF IInv
  <2>2. p \in InOf(pr', Changers)
    BY <1>4 DEF InOf, Changers
  <2>3. p \notin InOf(pr', {"walk"}) /\ p \notin InOf(pr, {"walk"})
    BY <1>4 DEF InOf
  <2> QED BY <1>4, <2>1, <2>2, <2>3 DEF InOf
<1>6. \A S : S \subseteq Changers => In(S) = {} /\ Ats(S) = {}
  BY <1>5, Nobody DEF In, Ats
<1>7. \A S : S \subseteq Changers => /\ In(S)' = IF "clear" \in S THEN {p} ELSE {}
                                     /\ Ats(S)' = IF "clear" \in S THEN {i} ELSE {}
  BY <1>4, <1>5, Alone DEF In, Ats
<1>8. Listed = Behind /\ Leaving = {} /\ Around = Listed /\ In({"add3", "add4"}) = {} /\ In({"del2"}) = {}
  BY <1>6 DEF Listed, Leaving, Around, Changers
<1>9. Behind' \cup {i} = Behind
  BY <1>2, <1>3 DEF Behind
<1>10. /\ Listed' = Listed /\ Leaving' = {} /\ Around' = Listed /\ In({"add1", "add2", "add3"})' = {}
       /\ In({"add2", "add3"})' = {} /\ In({"add3", "add4"})' = {}
       /\ In({"add3"})' = {} /\ In({"add4"})' = {} /\ In({"del2"})' = {} /\ In(Changers)' = {p}
  BY <1>7, <1>8, <1>9 DEF Listed, Leaving, Around, Changers
<1>11. TypeOK'
  <2>1. pr' \in [Procs -> {Idle} \cup [pc : {"add1", "add2", "add3", "add4", "enter",
           "clear", "del1", "del2", "del3", "gone", "walk"}, name : Name, at : Link]]
    BY <1>4, TypePr
  <2> QED BY <1>2, <2>1 DEF IInv, TypeOK
<1>12. NamesInv'
  <2>1. \A m \in named' : m[2] # n[2]
    BY <1>2 DEF IInv, NamesInv
  <2> QED BY <1>2, <1>3, <1>4, <1>10, <2>1 DEF IInv, NamesInv
<1>13. ChainInv(rk)'
  BY <1>2, <1>8, <1>10 DEF IInv, ChainInv, Follows
<1>14. AddInv(rk)'
  BY <1>2, <1>8, <1>10 DEF IInv, AddInv
<1>15. BackInv'
  <2>1. \A j \in Listed : Back(j, Listed)
    BY <1>8 DEF IInv, BackInv
  <2>2. ASSUME NEW j \in Listed PROVE Back(j, Listed)'
    BY <1>2, <1>10, <2>1 DEF Back
  <2> QED BY <1>10, <2>2 DEF BackInv
<1>16. WalkInv(rk)'
  <2>1. \A q \in InOf(pr, {"walk"}) :
          /\ pr[q].name \in named /\ pr[q].name # n
          /\ pr[q].name[1] \in Changing => pr[q].at \in Listed
    BY <1>4 DEF IInv, WalkInv, In, InOf
  <2>2. ASSUME NEW q \in InOf(pr, {"walk"})
        PROVE  /\ pr[q].name \in named' /\ owner'[pr[q].name] = owner[pr[q].name]
               /\ pr[q].at \in Around \/ next[pr[q].at] = Poison
                    => pr[q].at \in Around' \/ next'[pr[q].at] = Poison
               /\ pr[q].name[1] \in Changing => pr[q].at \in Listed'
    <3>1. pr[q].name \in named /\ pr[q].name # n /\ (pr[q].name[1] \in Changing => pr[q].at \in Listed)
      BY <2>1
    <3>2. pr[q].name \in named' /\ owner'[pr[q].name] = owner[pr[q].name]
      BY <1>2, <3>1
    <3>3. Listed' = Listed /\ Around' = Around /\ next' = next
      BY <1>2, <1>8, <1>10
    <3> QED BY <3>1, <3>2, <3>3
  <2> QED BY <1>5, <2>2, WalksOn DEF IInv
<1> QED BY <1>10, <1>4, <1>11, <1>12, <1>13, <1>14, <1>15, <1>16 DEF IInv, MutexInv

(* A lookup starts at the head: there is a file, so the list is not empty. *)
LEMMA LookupInv ==
  ASSUME OneChanging, NEW rk, IInv(rk), NEW p \in Procs, NEW n \in Name, Lookup(p, n)
  PROVE  IInv(rk)' /\ Listed \subseteq Listed'
<1>1. n \in named /\ Begin(p, n, "walk", first) /\ UNCHANGED <<list, fs, oops>>
  BY DEF Lookup
<1>2. /\ owner[n] \in Behind /\ owner[n] \in Listed /\ owner[n] \in Inode
      /\ first \in Listed /\ first \in Inode /\ rk[first] >= rk[owner[n]] /\ first \in Around
  <2>1. owner[n] \in Behind /\ owner[n] \in Listed /\ owner[n] \in Inode
    BY <1>1 DEF Behind, Listed, IInv, NamesInv
  <2>2. /\ rk[owner[n]] > 0 /\ rk[owner[n]] < rk[Head] /\ rk[owner[n]] \in Nat /\ rk[Nil] = 0
        /\ rk \in [Inode \cup {Nil, Head} -> Nat]
    BY <2>1, OrderIs DEF IInv, Order
  <2>3. /\ first \in Listed \cup {Nil} /\ rk[owner[n]] <= rk[first] /\ Listed \subseteq Inode
    BY <2>1, <2>2 DEF IInv, ChainInv, Follows
  <2>4. first \in Listed
    BY <2>2, <2>3
  <2> QED BY <2>1, <2>2, <2>3, <2>4 DEF Around
<1>3. /\ Mutex(pr') /\ pr'[p] # Idle /\ pr'[p].pc = "walk" /\ pr'[p].name = n /\ pr'[p].at = first
      /\ pr[p] = Idle /\ (\A q \in Procs : q # p => pr'[q] = pr[q])
      /\ \A q \in Procs : pr[q] # Idle => pr[q].name[1] # n[1]
  <2>1. first \in Link /\ "walk" \notin Changers
    BY <1>2 DEF Link, Changers
  <2> QED BY <1>1, <2>1, BeginIs DEF IInv
<1>4. ASSUME NEW S, S \subseteq Changers
      PROVE  /\ In(S)' = In(S) /\ Ats(S)' = Ats(S)
             /\ \A q \in In(S) : pr'[q] = pr[q]
  <2>1. p \notin InOf(pr, S) /\ p \notin InOf(pr', S)
    BY <1>3, <1>4 DEF InOf, Changers
  <2>2. InOf(pr', S) = InOf(pr, S) /\ \A q \in InOf(pr, S) : pr'[q] = pr[q]
    BY <1>3, <2>1 DEF InOf
  <2> QED BY <2>2 DEF In, Ats, AtsOf
<1>5. In({"walk"})' = In({"walk"}) \cup {p} /\ \A q \in In({"walk"}) : pr'[q] = pr[q]
  BY <1>3 DEF In, InOf
<1>6. TypeOK'
  <2>1. pr' \in [Procs -> {Idle} \cup [pc : {"add1", "add2", "add3", "add4", "enter",
           "clear", "del1", "del2", "del3", "gone", "walk"}, name : Name, at : Link]]
    BY <1>3, TypePr
  <2> QED BY <1>1, <2>1 DEF IInv, TypeOK, list, fs
<1>7. NamesInv' /\ ChainInv(rk)' /\ AddInv(rk)' /\ BackInv' /\ Listed' = Listed /\ Around' = Around
  <2>1. \A m \in named : dentry'[m] \in {None, owner[m]}
    BY <1>1 DEF IInv, NamesInv, fs
  <2>2. /\ UNCHANGED list /\ ino' = ino /\ named' = named /\ owner' = owner /\ fds' = fds
    BY <1>1 DEF fs
  <2> QED BY <1>4, <2>1, <2>2, Quiet DEF IInv
<1>8. WalkInv(rk)'
  BY <1>1, <1>2, <1>3, <1>5, <1>7 DEF IInv, WalkInv, list, fs
<1> QED BY <1>3, <1>6, <1>7, <1>8 DEF IInv, MutexInv

-----------------------------------------------------------------------------
(* ffs_clear_fd: the number is free, and its inode still in the list.      *)
LEMMA ClearFdInv ==
  ASSUME OneChanging, NEW rk, IInv(rk), NEW p \in Procs, ClearFd(p)
  PROVE  IInv(rk)' /\ Listed \subseteq Listed'
<1>1. PICK i, n : i = pr[p].at /\ n = pr[p].name
  OBVIOUS
<1>2. /\ At(p, "clear") /\ Go(p, "del1") /\ fds' = fds \ {n[2]}
      /\ first' = first /\ next' = next /\ pprev' = pprev
      /\ ino' = ino /\ freed' = freed /\ named' = named /\ owner' = owner
      /\ dentry' = dentry /\ pinned' = pinned /\ oops' = oops
      /\ relisted' = relisted
  BY <1>1 DEF ClearFd, list
<1>3. /\ Listed = Behind \cup {i} /\ Leaving = {} /\ Around = Listed /\ i \in Inode
      /\ In({"add3", "add4"}) = {} /\ In({"del2"}) = {}
  BY <1>1, <1>2, CallList DEF Changers
<1>4. ino[i] = n[2] /\ (\A m \in named : m[2] # n[2]) /\ p \in InOf(pr, Changers)
  BY <1>1, <1>2, CallIs DEF Changers
<1>5. /\ Mutex(pr') /\ pr'[p].at = i /\ pr'[p].name = n /\ pr'[p].pc = "del1"
      /\ InOf(pr', {"walk"}) = InOf(pr, {"walk"})
      /\ \A q \in InOf(pr, {"walk"}) : pr'[q] = pr[q]
      /\ \A S : S \subseteq Changers => /\ In(S)' = IF "del1" \in S THEN {p} ELSE {}
                                        /\ Ats(S)' = IF "del1" \in S THEN {i} ELSE {}
  <2>1. "clear" \in Changers /\ "del1" \in Changers
    BY DEF Changers
  <2> QED BY <1>1, <1>2, <2>1, CallGoes DEF In, Ats
<1>6. Behind' = Behind
  BY <1>2 DEF Behind
<1>7. /\ Listed' = Listed /\ Leaving' = {} /\ Around' = Listed /\ In({"add1", "add2", "add3"})' = {}
      /\ In({"add2", "add3"})' = {} /\ In({"add3", "add4"})' = {}
      /\ In({"add3"})' = {} /\ In({"add4"})' = {} /\ In({"del2"})' = {} /\ In(Changers)' = {p}
  BY <1>3, <1>5, <1>6 DEF Listed, Leaving, Around, Changers
<1>8. TypeOK'
  <2>1. pr' \in [Procs -> {Idle} \cup [pc : {"add1", "add2", "add3", "add4", "enter",
           "clear", "del1", "del2", "del3", "gone", "walk"}, name : Name, at : Link]]
    BY <1>5, TypePr
  <2>2. fds' \subseteq Fd
    BY <1>2 DEF IInv, TypeOK
  <2> QED BY <1>2, <2>1, <2>2 DEF IInv, TypeOK
<1>9. NamesInv'
  <2>1. \A m \in named : m[2] \in fds'
    BY <1>2, <1>4 DEF IInv, NamesInv
  <2> QED BY <1>2, <1>4, <1>5, <1>7, <2>1 DEF IInv, NamesInv
<1>10. ChainInv(rk)'
  BY <1>2, <1>3, <1>7 DEF IInv, ChainInv, Follows
<1>11. AddInv(rk)'
  BY <1>2, <1>3, <1>7 DEF IInv, AddInv
<1>12. BackInv'
  <2>1. \A j \in Listed : Back(j, Listed)
    BY <1>3 DEF IInv, BackInv
  <2>2. ASSUME NEW j \in Listed PROVE Back(j, Listed)'
    BY <1>2, <1>7, <2>1 DEF Back
  <2> QED BY <1>7, <2>2 DEF BackInv
<1>13. WalkInv(rk)'
  <2>1. \A q \in InOf(pr, {"walk"}) :
          /\ pr[q].name \in named
          /\ pr[q].name[1] \in Changing => pr[q].at \in Listed
    BY DEF IInv, WalkInv, In
  <2> QED BY <1>2, <1>3, <1>5, <1>7, <2>1, WalksOn DEF IInv
<1> QED BY <1>7, <1>5, <1>8, <1>9, <1>10, <1>11, <1>12, <1>13 DEF IInv, MutexInv

(* hlist_del, access by access: what pointed to the inode points beyond it.*)
LEMMA Del1Inv ==
  ASSUME OneChanging, NEW rk, IInv(rk), NEW p \in Procs, Del1(p)
  PROVE  IInv(rk)' /\ Listed \ {pr[p].at} \subseteq Listed'
<1>1. PICK i, q : i = pr[p].at /\ q = pprev[i]
  OBVIOUS
<1> SUFFICES ASSUME ~ Oops PROVE IInv(rk)' /\ Listed \ {pr[p].at} \subseteq Listed'
  BY OopsInv
<1>2. /\ At(p, "del1") /\ Go(p, "del2") /\ Store(q, next[i])
      /\ pprev' = pprev /\ UNCHANGED fs /\ UNCHANGED oops
  BY <1>1, Zenon DEF Del1
<1>3. /\ Listed = Behind \cup {i} /\ Leaving = {} /\ i \in Inode /\ ino[i] # 0 /\ i \notin Behind
      /\ Listed \subseteq Inode /\ i \in Listed
      /\ In({"add3", "add4"}) = {} /\ In({"del2"}) = {}
  BY <1>1, <1>2, CallList DEF Changers
<1>4. /\ Follows(rk, Head, first, Listed) /\ \A j \in Listed : Follows(rk, j, next[j], Listed)
      /\ first \in Link /\ next \in [Inode -> Link] /\ pprev \in [Inode -> PPrev]
  BY <1>3 DEF IInv, ChainInv, TypeOK
<1>5. \A j \in Listed : Back(j, Listed)
  BY <1>3 DEF IInv, BackInv
<1>6. /\ \A j \in Listed : /\ rk[j] \in Nat /\ rk[j] > 0 /\ rk[j] < rk[Head] /\ j # Head
                            /\ j # Nil /\ j # Poison
      /\ \A j, k \in Listed : rk[j] = rk[k] => j = k
      /\ rk[Nil] = 0 /\ rk[Head] \in Nat /\ Nil # Poison
  BY <1>3, OrderIs DEF IInv, Order, Nil, Poison
<1>7. IF i = first THEN q = Head ELSE q \in Listed /\ next[q] = i /\ q # Head
  BY <1>1, <1>3, <1>5, <1>6 DEF Back
<1>8. /\ next[i] \in (Listed \ {i}) \cup {Nil} /\ next[i] # i /\ next[i] # Poison
      /\ rk[next[i]] < rk[i] /\ rk[next[i]] \in Nat
  BY <1>3, <1>4, <1>6 DEF Follows
<1>9. /\ i = first => first' = next[i] /\ next' = next
      /\ i # first => /\ first' = first /\ next'[q] = next[i]
                      /\ \A j \in Inode : j # q => next'[j] = next[j]
      /\ first' \in Link /\ next' \in [Inode -> Link] /\ pprev' \in [Inode -> PPrev]
  <2>1. CASE i = first
    BY <1>2, <1>3, <1>4, <1>7, <2>1 DEF Store
  <2>2. CASE i # first
    BY <1>2, <1>3, <1>4, <1>7, <2>2 DEF Store
  <2> QED BY <2>1, <2>2
<1>10. /\ TypeOK' /\ MutexInv' /\ NamesInv' /\ Behind' = Behind /\ pr'[p].at = i
       /\ \A S : S \subseteq Changers => /\ In(S)' = IF "del2" \in S THEN {p} ELSE {}
                                         /\ Ats(S)' = IF "del2" \in S THEN {i} ELSE {}
  <2>1. "del1" \in Changers /\ "del2" \in Changers /\ "del2" \notin Numbered
    BY DEF Changers, Numbered
  <2> QED BY <1>1, <1>2, <1>9, <2>1, Access
<1>11. /\ Listed' = Listed \ {i} /\ Leaving' = {i} /\ In({"add1", "add2", "add3"})' = {}
       /\ In({"add2", "add3"})' = {} /\ In({"add3", "add4"})' = {}
       /\ In({"add3"})' = {} /\ In({"add4"})' = {} /\ In({"del2"})' = {p}
  BY <1>3, <1>10 DEF Listed, Leaving, Changers
<1>12. next'[i] = next[i]
  <2>1. i # first => q # i
    BY <1>7, <1>8
  <2> QED BY <1>3, <1>9, <2>1
<1>13. \A j \in Listed : next[j] = i => i # first /\ j = q
  <2> SUFFICES ASSUME NEW j \in Listed, next[j] = i PROVE i # first /\ j = q
    OBVIOUS
  <2>1. rk[i] < rk[j]
    BY <1>4 DEF Follows
  <2>2. i # first
    BY <1>3, <1>4, <1>6, <2>1 DEF Follows
  <2>3. q \in Listed /\ next[q] = i
    BY <1>7, <2>2
  <2>4. ~ rk[j] < rk[q] /\ ~ rk[q] < rk[j]
    BY <1>3, <1>4, <1>6, <2>1, <2>3 DEF Follows
  <2> QED BY <1>6, <2>2, <2>3, <2>4
<1>14. ASSUME NEW j, NEW x, Follows(rk, j, x, Listed), x # i PROVE Follows(rk, j, x, Listed')
  BY <1>11, <1>14 DEF Follows
<1>15. ASSUME NEW j, Follows(rk, j, i, Listed), rk[j] \in Nat PROVE Follows(rk, j, next[i], Listed')
  <2>1. rk[i] < rk[j] /\ \A k \in Listed : rk[k] < rk[j] => rk[k] <= rk[i]
    BY <1>15 DEF Follows
  <2>2. \A k \in Listed' : rk[k] < rk[j] => rk[k] <= rk[next[i]]
    <3> SUFFICES ASSUME NEW k \in Listed', rk[k] < rk[j] PROVE rk[k] <= rk[next[i]]
      OBVIOUS
    <3>1. k \in Listed /\ k # i /\ rk[k] <= rk[i]
      BY <1>11, <2>1
    <3>2. rk[k] < rk[i]
      BY <1>3, <1>6, <3>1
    <3> QED BY <1>3, <1>4, <3>1, <3>2 DEF Follows
  <2>3. rk[next[i]] < rk[j]
    BY <1>3, <1>6, <1>8, <1>15, <2>1
  <2> QED BY <1>8, <1>11, <2>2, <2>3 DEF Follows
<1>16. ChainInv(rk)'
  <2>1. Listed' \subseteq Inode /\ Leaving' \cap Listed' = {}
    BY <1>3, <1>11
  <2>2. Follows(rk, Head, first', Listed')
    <3>1. CASE i = first
      BY <1>4, <1>6, <1>9, <1>15, <3>1
    <3>2. CASE i # first
      BY <1>4, <1>9, <1>14, <3>2
    <3> QED BY <3>1, <3>2
  <2>3. ASSUME NEW j \in Listed PROVE Follows(rk, j, next'[j], Listed')
    <3>1. CASE i # first /\ j = q
      BY <1>4, <1>6, <1>7, <1>9, <1>15, <3>1
    <3>2. CASE ~ (i # first /\ j = q)
      <4>1. next'[j] = next[j]
        BY <1>3, <1>9, <3>2
      <4>2. next[j] # i
        BY <1>13, <3>2
      <4> QED BY <1>4, <1>14, <4>1, <4>2
    <3> QED BY <3>1, <3>2
  <2>4. Listed' \cup Leaving' = Listed
    BY <1>3, <1>11
  <2> QED BY <2>1, <2>2, <2>3, <2>4 DEF ChainInv, Follows
<1>17. AddInv(rk)'
  <2>2. \A j \in Inode : j \notin Listed => next'[j] = next[j]
    BY <1>7, <1>9
  <2> QED BY <1>3, <1>11, <2>2 DEF AddInv
<1>18. BackInv'
  <2>1. ASSUME NEW j \in Listed', j # next[i] PROVE Back(j, Listed)'
    <3>1. j \in Listed /\ j # i /\ Back(j, Listed)
      BY <1>5, <1>11
    <3>2. CASE i = first
      BY <1>2, <1>9, <1>11, <2>1, <3>1, <3>2 DEF Back
    <3>3. CASE i # first
      BY <1>2, <1>3, <1>7, <1>9, <1>11, <2>1, <3>1, <3>3 DEF Back
    <3> QED BY <3>2, <3>3
  <2>2. IF next'[i] = first' THEN pprev'[i] = Head
        ELSE pprev'[i] \in Listed' /\ next'[pprev'[i]] = next'[i]
    <3>1. CASE i = first
      BY <1>1, <1>2, <1>7, <1>9, <1>12, <3>1
    <3>2. CASE i # first
      <4>1. rk[i] <= rk[first]
        BY <1>3, <1>4, <1>6 DEF Follows
      <4>2. next[i] # first
        <5>1. first \in Listed \cup {Nil}
          BY <1>4 DEF Follows
        <5> QED BY <1>3, <1>6, <1>8, <4>1, <5>1
      <4>3. q # i
        BY <1>7, <1>8, <3>2
      <4> QED BY <1>1, <1>2, <1>7, <1>9, <1>11, <1>12, <3>2, <4>2, <4>3
    <3> QED BY <3>1, <3>2
  <2> QED BY <1>10, <1>11, <1>12, <2>1, <2>2 DEF BackInv
<1>19. WalkInv(rk)'
  <2>1. "del1" \in Changers /\ "del2" \in Changers \ {"add1"}
    BY DEF Changers
  <2>2. i # first => next[q] # Poison
    BY <1>3, <1>6, <1>7
  <2>3. \A j \in Inode : next[j] = Poison => next'[j] = Poison
    BY <1>9, <2>2
  <2> QED BY <1>2, <2>1, <2>3, AccessWalks
<1>20. Listed \ {pr[p].at} \subseteq Listed'
  BY <1>1, <1>11
<1> QED BY <1>10, <1>16, <1>17, <1>18, <1>19, <1>20 DEF IInv

(* The one behind learns what points to it now.                            *)
LEMMA Del2Inv ==
  ASSUME OneChanging, NEW rk, IInv(rk), NEW p \in Procs, Del2(p)
  PROVE  IInv(rk)' /\ Listed \subseteq Listed'
<1>1. PICK i, n : i = pr[p].at /\ n = next[i]
  OBVIOUS
<1> SUFFICES ASSUME ~ Oops PROVE IInv(rk)' /\ Listed \subseteq Listed'
  BY OopsInv
<1>2. /\ At(p, "del2") /\ Go(p, "del3") /\ first' = first /\ next' = next
      /\ pprev' = IF n = Nil THEN pprev ELSE [pprev EXCEPT ![n] = pprev[i]]
      /\ UNCHANGED fs /\ UNCHANGED oops
  BY <1>1, Zenon DEF Del2
<1>3. /\ Listed = Behind /\ Leaving = {i} /\ i \in Inode /\ ino[i] # 0 /\ i \notin Behind
      /\ Listed \subseteq Inode
      /\ In({"add3", "add4"}) = {} /\ In({"del2"}) = {p}
  BY <1>1, <1>2, CallList DEF Changers
<1>4. n \in Listed \cup {Nil}
  BY <1>1, <1>3 DEF IInv, ChainInv, Follows
<1>5. /\ first' \in Link /\ next' \in [Inode -> Link] /\ pprev' \in [Inode -> PPrev]
      /\ n # Nil => pprev'[n] = pprev[i]
      /\ \A j \in Inode : j # n => pprev'[j] = pprev[j]
  <2>1. pprev \in [Inode -> PPrev] /\ first \in Link /\ next \in [Inode -> Link]
    BY DEF IInv, TypeOK
  <2>2. first' = first /\ next' = next
    BY <1>2
  <2> QED BY <1>2, <1>3, <1>4, <2>1, <2>2
<1>6. /\ TypeOK' /\ MutexInv' /\ NamesInv' /\ Behind' = Behind
      /\ \A S : S \subseteq Changers => /\ In(S)' = IF "del3" \in S THEN {p} ELSE {}
                                        /\ Ats(S)' = IF "del3" \in S THEN {i} ELSE {}
  <2>1. "del2" \in Changers /\ "del3" \in Changers /\ "del3" \notin Numbered
    BY DEF Changers, Numbered
  <2> QED BY <1>1, <1>2, <1>5, <2>1, Access
<1>7. /\ Listed' = Listed /\ Leaving' = Leaving /\ In({"add1", "add2", "add3"})' = {}
      /\ In({"add2", "add3"})' = {} /\ In({"add3", "add4"})' = {}
      /\ In({"add3"})' = {} /\ In({"add4"})' = {} /\ In({"del2"})' = {}
  BY <1>3, <1>6 DEF Listed, Leaving, Changers
<1>8. ChainInv(rk)'
  BY <1>2, <1>3, <1>7 DEF IInv, ChainInv, Follows
<1>9. AddInv(rk)'
  BY <1>7 DEF AddInv
<1>10. BackInv'
  <2>1. /\ \A j \in Listed : Back(j, Listed) \/ j = n
        /\ IF n = first THEN pprev[i] = Head ELSE pprev[i] \in Listed /\ next[pprev[i]] = n
    BY <1>1, <1>3 DEF IInv, BackInv
  <2>2. ASSUME NEW j \in Listed PROVE Back(j, Listed)'
    <3>1. CASE j = n
      <4>1. n # Nil
        BY <1>3, <3>1, FdIs DEF Nil
      <4> QED BY <1>2, <1>5, <1>7, <2>1, <3>1, <4>1 DEF Back
    <3>2. CASE j # n
      BY <1>2, <1>3, <1>5, <1>7, <2>1, <3>2 DEF Back
    <3> QED BY <3>1, <3>2
  <2> QED BY <1>7, <2>2 DEF BackInv
<1>11. WalkInv(rk)'
  <2>1. "del2" \in Changers /\ "del3" \in Changers \ {"add1"}
    BY DEF Changers
  <2> QED BY <1>2, <2>1, AccessWalks
<1> QED BY <1>7, <1>6, <1>8, <1>9, <1>10, <1>11 DEF IInv

(* The inode itself leads nowhere.                                         *)
LEMMA Del3Inv ==
  ASSUME OneChanging, NEW rk, IInv(rk), NEW p \in Procs, Del3(p)
  PROVE  IInv(rk)' /\ Listed \subseteq Listed'
<1>1. PICK i : i = pr[p].at
  OBVIOUS
<1>2. /\ At(p, "del3") /\ Go(p, "gone") /\ first' = first
      /\ next' = [next EXCEPT ![i] = Poison] /\ pprev' = [pprev EXCEPT ![i] = Poison]
      /\ UNCHANGED fs /\ UNCHANGED oops
  BY <1>1 DEF Del3
<1>3. /\ Listed = Behind /\ Leaving = {i} /\ i \in Inode /\ ino[i] # 0 /\ i \notin Behind
      /\ Listed \subseteq Inode
      /\ In({"add3", "add4"}) = {} /\ In({"del2"}) = {}
  BY <1>1, <1>2, CallList DEF Changers
<1>4. /\ first' \in Link /\ next' \in [Inode -> Link] /\ pprev' \in [Inode -> PPrev]
      /\ next'[i] = Poison /\ \A j \in Inode : j # i => next'[j] = next[j] /\ pprev'[j] = pprev[j]
  BY <1>2, <1>3 DEF IInv, TypeOK, Link, PPrev
<1>5. /\ TypeOK' /\ MutexInv' /\ NamesInv' /\ Behind' = Behind
      /\ \A S : S \subseteq Changers => /\ In(S)' = IF "gone" \in S THEN {p} ELSE {}
                                        /\ Ats(S)' = IF "gone" \in S THEN {i} ELSE {}
  <2>1. "del3" \in Changers /\ "gone" \in Changers /\ "gone" \notin Numbered
    BY DEF Changers, Numbered
  <2> QED BY <1>1, <1>2, <1>4, <2>1, Access
<1>6. /\ Listed' = Listed /\ Leaving' = {} /\ In({"add1", "add2", "add3"})' = {}
      /\ In({"add2", "add3"})' = {} /\ In({"add3", "add4"})' = {}
      /\ In({"add3"})' = {} /\ In({"add4"})' = {} /\ In({"del2"})' = {}
  BY <1>3, <1>5 DEF Listed, Leaving, Changers
<1>7. ChainInv(rk)'
  BY <1>2, <1>3, <1>4, <1>6 DEF IInv, ChainInv, Follows
<1>8. AddInv(rk)'
  BY <1>6 DEF AddInv
<1>9. BackInv'
  <2>1. \A j \in Listed : Back(j, Listed)
    BY <1>3 DEF IInv, BackInv
  <2>2. ASSUME NEW j \in Listed PROVE Back(j, Listed)'
    BY <1>2, <1>3, <1>4, <1>6, <2>1 DEF Back
  <2> QED BY <1>6, <2>2 DEF BackInv
<1>10. WalkInv(rk)'
  <2>1. "del3" \in Changers /\ "gone" \in Changers \ {"add1"}
    BY DEF Changers
  <2>2. \A j \in Inode : next[j] = Poison => next'[j] = Poison
    BY <1>4
  <2> QED BY <1>1, <1>2, <1>4, <2>1, <2>2, AccessWalks
<1> QED BY <1>6, <1>5, <1>7, <1>8, <1>9, <1>10 DEF IInv

(* The VFS drops the dentry of the name that is gone.                      *)
LEMMA GoneInv ==
  ASSUME OneChanging, NEW rk, IInv(rk), NEW p \in Procs, Gone(p)
  PROVE  IInv(rk)' /\ Listed \subseteq Listed'
<1>1. PICK i, n : i = pr[p].at /\ n = pr[p].name
  OBVIOUS
<1>2. /\ At(p, "gone") /\ End(p) /\ UNCHANGED list
      /\ freed' = (IF n \in pinned THEN freed ELSE freed \cup {i})
      /\ dentry' = [dentry EXCEPT ![n] = None] /\ pinned' = pinned \ {n}
      /\ ino' = ino /\ fds' = fds /\ named' = named /\ owner' = owner /\ oops' = oops
      /\ relisted' = relisted
  BY <1>1 DEF Gone
<1>3. /\ i \in Inode /\ n \in Name /\ n[1] \in Changing /\ p \in InOf(pr, Changers)
      /\ pr[p] # Idle /\ pr[p].pc = "gone" /\ InOf(pr, Changers) = {p}
      /\ \A m \in named : m[2] # n[2]
  BY <1>1, <1>2, CallIs DEF Changers
<1>4. Listed = Behind /\ Leaving = {} /\ Around = Listed /\ In({"add3", "add4"}) = {} /\ In({"del2"}) = {}
  BY <1>1, <1>2, CallList DEF Changers
<1>5. /\ Mutex(pr') /\ InOf(pr', Changers) = {} /\ InOf(pr', {"walk"}) = InOf(pr, {"walk"})
      /\ \A q \in InOf(pr, {"walk"}) : pr'[q] = pr[q]
  <2>1. /\ Mutex(pr') /\ \A q \in Procs : q # p => pr'[q] = pr[q]
        /\ \A S : InOf(pr', S) = InOf(pr, S) \ {p}
    BY <1>2, <1>3, EndIs DEF IInv
  <2>2. p \notin InOf(pr, {"walk"})
    BY <1>3 DEF InOf
  <2> QED BY <1>3, <2>1, <2>2 DEF InOf
<1>6. \A S : S \subseteq Changers => In(S)' = {} /\ Ats(S)' = {}
  BY <1>5, Nobody DEF In, Ats
<1>7. Behind' = Behind
  BY <1>2 DEF Behind
<1>8. /\ Listed' = Listed /\ Leaving' = {} /\ Around' = Listed /\ In({"add1", "add2", "add3"})' = {}
      /\ In({"add2", "add3"})' = {} /\ In({"add3", "add4"})' = {}
      /\ In({"add3"})' = {} /\ In({"add4"})' = {} /\ In({"del2"})' = {} /\ In(Changers)' = {}
  BY <1>4, <1>6, <1>7 DEF Listed, Leaving, Around, Changers
<1>9. first' = first /\ next' = next /\ pprev' = pprev
  BY <1>2 DEF list
<1>10. /\ dentry' \in [Name -> Inode \cup {Nil, None}]
       /\ \A m \in named : m # n /\ dentry'[m] = dentry[m]
  BY <1>2, <1>3 DEF IInv, TypeOK
<1>11. TypeOK'
  <2>1. pr' \in [Procs -> {Idle} \cup [pc : {"add1", "add2", "add3", "add4", "enter",
           "clear", "del1", "del2", "del3", "gone", "walk"}, name : Name, at : Link]]
    BY <1>5, TypePr
  <2>2. freed' \subseteq Inode /\ pinned' \subseteq Name
    BY <1>2, <1>3 DEF IInv, TypeOK
  <2> QED BY <1>2, <1>9, <1>10, <2>1, <2>2 DEF IInv, TypeOK
<1>12. NamesInv'
  BY <1>2, <1>8, <1>10 DEF IInv, NamesInv
<1>13. ChainInv(rk)'
  BY <1>4, <1>8, <1>9 DEF IInv, ChainInv, Follows
<1>14. AddInv(rk)'
  BY <1>2, <1>4, <1>8, <1>9 DEF IInv, AddInv
<1>15. BackInv'
  <2>1. \A j \in Listed : Back(j, Listed)
    BY <1>4 DEF IInv, BackInv
  <2>2. ASSUME NEW j \in Listed PROVE Back(j, Listed)'
    BY <1>8, <1>9, <2>1 DEF Back
  <2> QED BY <1>8, <2>2 DEF BackInv
<1>16. WalkInv(rk)'
  <2>1. \A q \in InOf(pr, {"walk"}) :
          /\ pr[q].name \in named
          /\ pr[q].name[1] \in Changing => pr[q].at \in Listed
    BY DEF IInv, WalkInv, In
  <2> QED BY <1>2, <1>4, <1>5, <1>8, <1>9, <2>1, WalksOn DEF IInv
<1> QED BY <1>8, <1>5, <1>11, <1>12, <1>13, <1>14, <1>15, <1>16 DEF IInv, MutexInv

-----------------------------------------------------------------------------
(* Where a walk can be, and what it finds: the inode of its file.          *)
LEMMA WalkIs ==
  ASSUME OneChanging, NEW rk, IInv(rk), NEW p, p \in Procs, At(p, "walk"), Good(pr[p].at)
  PROVE  LET i == pr[p].at n == pr[p].name IN
         /\ n \in named /\ n \in Name /\ owner[n] \in Listed /\ owner[n] \in Inode
         /\ i \in Inode /\ rk[i] >= rk[owner[n]] /\ (i \in Around \/ next[i] = Poison)
         /\ n[1] \in Changing => i \in Listed
         /\ ino[i] = n[2] <=> i = owner[n]
<1>1. PICK i, n : i = pr[p].at /\ n = pr[p].name
  OBVIOUS
<1>2. p \in In({"walk"}) /\ pr[p] # Idle /\ pr[p].pc = "walk" /\ i \in Inode
  BY <1>1 DEF At, In, InOf, Good
<1>3. i # Poison
  BY <1>2, FdIs DEF Poison
<1>4. /\ n \in named /\ rk[i] >= rk[owner[n]] /\ (i \in Around \/ next[i] = Poison)
      /\ n[1] \in Changing => i \in Listed
  BY <1>1, <1>2, <1>3 DEF IInv, WalkInv
<1>5. owner[n] \in Listed /\ owner[n] \in Inode /\ ino[owner[n]] = n[2]
  BY <1>4 DEF IInv, NamesInv, Listed, Behind
<1>6. ASSUME ino[i] = n[2] PROVE i = owner[n]
  <2>1. CASE n[1] \notin Changing
    BY <1>2, <1>4, <1>6, <2>1 DEF IInv, NamesInv
  <2>2. CASE n[1] \in Changing
    <3>1. InOf(pr, Changers) = {}
      <4> SUFFICES ASSUME NEW q \in InOf(pr, Changers) PROVE FALSE
        OBVIOUS
      <4>1. p \in InOf(pr, {"walk"})
        BY <1>2 DEF In
      <4> QED BY <1>1, <2>2, <4>1, WalkElsewhere DEF IInv
    <3>2. Listed = Behind
      BY <3>1, Nobody DEF Listed, Ats, Changers
    <3>3. PICK m \in named : i = owner[m]
      BY <1>4, <2>2, <3>2 DEF Behind
    <3>4. m[2] = n[2]
      BY <1>6, <3>3 DEF IInv, NamesInv
    <3> QED BY <1>4, <3>3, <3>4 DEF IInv, NamesInv
  <2> QED BY <2>1, <2>2
<1> QED BY <1>1, <1>2, <1>4, <1>5, <1>6 DEF IInv, TypeOK

(* It goes on within the list.                                             *)
LEMMA WalkOn ==
  ASSUME OneChanging, NEW rk, IInv(rk), NEW p, p \in Procs, At(p, "walk"), Good(pr[p].at),
         ino[pr[p].at] # pr[p].name[2], pr[p].at \in Around
  PROVE  next[pr[p].at] \in Listed /\ rk[next[pr[p].at]] >= rk[owner[pr[p].name]]
<1>1. PICK i, n : i = pr[p].at /\ n = pr[p].name
  OBVIOUS
<1>2. /\ owner[n] \in Listed /\ owner[n] \in Inode /\ i \in Inode /\ rk[i] >= rk[owner[n]]
      /\ i # owner[n]
  BY <1>1, WalkIs
<1>3. /\ rk[owner[n]] \in Nat /\ rk[owner[n]] > 0 /\ rk[owner[n]] < rk[i] /\ rk[owner[n]] < rk[Head]
      /\ rk[i] \in Nat /\ rk[Nil] = 0
  BY <1>2, OrderIs DEF IInv, Order
<1>4. next[i] \in Listed \cup {Nil} /\ rk[owner[n]] <= rk[next[i]]
  <2>1. CASE i \in Listed \cup Leaving
    BY <1>2, <1>3, <2>1 DEF IInv, ChainInv, Follows
  <2>2. CASE i \in Ats({"add2", "add3"})
    <3>1. next[i] = first
      BY <2>2 DEF IInv, AddInv, Ats, AtsOf, In
    <3> QED BY <1>2, <1>3, <3>1 DEF IInv, ChainInv, Follows
  <2> QED BY <1>1, <2>1, <2>2 DEF Around
<1>5. next[i] # Nil
  BY <1>3, <1>4
<1> QED BY <1>1, <1>4, <1>5, <1>2, <1>3

(* A lookup finds it, goes on, or is lost.                                 *)
LEMMA WalkStepInv ==
  ASSUME OneChanging, NEW rk, IInv(rk), NEW p \in Procs, Walk(p)
  PROVE  IInv(rk)' /\ Listed \subseteq Listed'
<1>1. PICK i, n : i = pr[p].at /\ n = pr[p].name
  OBVIOUS
<1> SUFFICES ASSUME ~ Oops PROVE IInv(rk)' /\ Listed \subseteq Listed'
  BY OopsInv
<1>2. p \in In({"walk"}) /\ p \in InOf(pr, {"walk"}) /\ pr[p] # Idle /\ pr[p].pc = "walk"
  BY DEF Walk, At, In, InOf
<1>3. i # Nil
  <2>1. Nil # Poison /\ Nil \notin Inode
    BY FdIs DEF Nil, Poison
  <2> QED BY <1>1, <1>2, <2>1 DEF IInv, WalkInv
<1>4. At(p, "walk") /\ Good(i)
  BY <1>1, <1>3, Zenon DEF Walk
<1>5. /\ n \in named /\ n \in Name /\ owner[n] \in Listed /\ owner[n] \in Inode
      /\ i \in Inode /\ rk[i] >= rk[owner[n]] /\ (i \in Around \/ next[i] = Poison)
      /\ n[1] \in Changing => i \in Listed
      /\ ino[i] = n[2] <=> i = owner[n]
  BY <1>1, <1>4, WalkIs
<1>6. Listed \subseteq Inode
  BY DEF IInv, ChainInv
<1>7. CASE ino[i] = n[2]
  <2>1. /\ dentry' = [dentry EXCEPT ![n] = i] /\ End(p)
        /\ UNCHANGED list /\ ino' = ino /\ freed' = freed /\ fds' = fds /\ named' = named
        /\ owner' = owner /\ pinned' = pinned /\ oops' = oops /\ relisted' = relisted
    BY <1>1, <1>3, <1>4, <1>7, Zenon DEF Walk
  <2>2. /\ dentry' \in [Name -> Inode \cup {Nil, None}]
        /\ \A m \in named : dentry'[m] \in {None, owner[m]}
    BY <1>5, <1>7, <2>1 DEF IInv, TypeOK, NamesInv
  <2>3. /\ Mutex(pr') /\ pr'[p] = Idle /\ (\A q \in Procs : q # p => pr'[q] = pr[q])
        /\ \A S : InOf(pr', S) = InOf(pr, S) \ {p}
        /\ \A S : p \notin InOf(pr, S) => AtsOf(pr', S) = AtsOf(pr, S)
    BY <1>2, <2>1, EndIs DEF IInv, In, InOf
  <2>4. ASSUME NEW S, S \subseteq Changers
        PROVE  /\ In(S)' = In(S) /\ Ats(S)' = Ats(S)
               /\ \A q \in In(S) : pr'[q] = pr[q]
    <3>1. p \notin InOf(pr, S)
      BY <1>2, <2>4 DEF InOf, Changers
    <3> QED BY <2>3, <3>1 DEF In, Ats, InOf
  <2>5. NamesInv' /\ ChainInv(rk)' /\ AddInv(rk)' /\ BackInv' /\ Listed' = Listed /\ Around' = Around
    BY <2>1, <2>2, <2>4, Quiet DEF IInv
  <2>6. TypeOK'
    <3>1. pr' \in [Procs -> {Idle} \cup [pc : {"add1", "add2", "add3", "add4", "enter",
             "clear", "del1", "del2", "del3", "gone", "walk"}, name : Name, at : Link]]
      BY <2>3, TypePr
    <3> QED BY <2>1, <2>2, <3>1 DEF IInv, TypeOK, list
  <2>7. \A q \in In({"walk"})' : q \in In({"walk"}) /\ pr'[q] = pr[q]
    BY <2>3 DEF In, InOf
  <2>8. WalkInv(rk)'
    BY <2>1, <2>5, <2>7 DEF IInv, WalkInv, list
  <2> QED BY <2>3, <2>5, <2>6, <2>8 DEF IInv, MutexInv
<1>8. CASE ino[i] # n[2]
  <2>1. pr' = [pr EXCEPT ![p].at = next[i]] /\ UNCHANGED list /\ UNCHANGED fs /\ UNCHANGED oops
    BY <1>1, <1>3, <1>4, <1>8, Zenon DEF Walk
  <2>2. next[i] \in Link
    BY <1>5 DEF IInv, TypeOK
  <2>3. /\ Mutex(pr') /\ pr'[p].name = n /\ pr'[p].at = next[i]
        /\ InOf(pr', {"walk"}) = InOf(pr, {"walk"})
        /\ \A q \in Procs : q # p => pr'[q] = pr[q]
        /\ \A S : S \subseteq Changers => InOf(pr', S) = InOf(pr, S) /\ AtsOf(pr', S) = AtsOf(pr, S)
    BY <1>1, <1>2, <2>1, <2>2, StrollIs DEF IInv
  <2>4. ASSUME NEW S, S \subseteq Changers
        PROVE  /\ In(S)' = In(S) /\ Ats(S)' = Ats(S)
               /\ \A q \in In(S) : pr'[q] = pr[q]
    <3>1. p \notin InOf(pr, S)
      BY <1>2, <2>4 DEF InOf, Changers
    <3> QED BY <2>3, <2>4, <3>1 DEF In, Ats, InOf
  <2>5. NamesInv' /\ ChainInv(rk)' /\ AddInv(rk)' /\ BackInv' /\ Listed' = Listed /\ Around' = Around
    <3>1. \A m \in named : dentry'[m] \in {None, owner[m]}
      BY <2>1 DEF IInv, NamesInv, fs
    <3>2. ino' = ino /\ named' = named /\ owner' = owner /\ fds' = fds
      BY <2>1 DEF fs
    <3> QED BY <2>1, <2>4, <3>1, <3>2, Quiet DEF IInv
  <2>6. TypeOK'
    <3>1. pr' \in [Procs -> {Idle} \cup [pc : {"add1", "add2", "add3", "add4", "enter",
             "clear", "del1", "del2", "del3", "gone", "walk"}, name : Name, at : Link]]
      BY <2>3, TypePr
    <3> QED BY <2>1, <3>1 DEF IInv, TypeOK, list, fs
  <2>7. i \in Around => next[i] \in Listed /\ next[i] \in Around /\ rk[next[i]] >= rk[owner[n]]
    BY <1>1, <1>4, <1>8, WalkOn DEF Around
  <2>8. WalkInv(rk)'
    <3>1. ASSUME NEW q \in In({"walk"})'
          PROVE  LET m == pr'[q].name j == pr'[q].at IN
                 /\ m \in named
                 /\ j # Poison => j \in Inode /\ rk[j] >= rk[owner[m]]
                                  /\ (j \in Around \/ next[j] = Poison)
                 /\ m[1] \in Changing => j \in Listed
      <4>1. q \in In({"walk"})
        BY <2>3 DEF In
      <4>2. CASE q = p
        <5>1. pr'[q].name = n /\ pr'[q].at = next[i]
          BY <2>3, <4>2
        <5>2. next[i] # Poison => i \in Around
          BY <1>5
        <5>3. n[1] \in Changing => i \in Around
          BY <1>5 DEF Around
        <5> QED BY <1>5, <1>6, <2>7, <5>1, <5>2, <5>3
      <4>3. CASE q # p
        <5>1. pr'[q] = pr[q]
          BY <2>3, <4>1, <4>3 DEF In, InOf
        <5> QED BY <4>1, <5>1 DEF IInv, WalkInv
      <4> QED BY <4>2, <4>3
    <3>2. named' = named /\ owner' = owner /\ next' = next
      BY <2>1 DEF fs, list
    <3> QED BY <2>5, <3>1, <3>2 DEF WalkInv
  <2> QED BY <2>3, <2>5, <2>6, <2>8 DEF IInv, MutexInv
<1> QED BY <1>7, <1>8

(* A dentry is dropped: nothing of the list changes.                       *)
LEMMA ShrinkInv ==
  ASSUME OneChanging, NEW rk, IInv(rk), NEW n \in Name, Shrink(n)
  PROVE  IInv(rk)' /\ Listed \subseteq Listed'
<1>1. /\ dentry' = [dentry EXCEPT ![n] = None] /\ freed' = freed \cup ({dentry[n]} \cap Inode)
      /\ UNCHANGED list /\ ino' = ino /\ fds' = fds /\ named' = named /\ owner' = owner
      /\ pinned' = pinned /\ pr' = pr /\ oops' = oops /\ relisted' = relisted
  BY DEF Shrink
<1>2. /\ dentry' \in [Name -> Inode \cup {Nil, None}] /\ freed' \subseteq Inode
      /\ \A m \in named : dentry'[m] \in {None, owner[m]}
  BY <1>1 DEF IInv, TypeOK, NamesInv
<1>3. \A S : In(S)' = In(S) /\ Ats(S)' = Ats(S)
  BY <1>1 DEF In, Ats
<1>4. NamesInv' /\ ChainInv(rk)' /\ AddInv(rk)' /\ BackInv' /\ Listed' = Listed /\ Around' = Around
  BY <1>1, <1>2, <1>3, Quiet DEF IInv
<1>5. TypeOK'
  BY <1>1, <1>2 DEF IInv, TypeOK, list
<1>6. WalkInv(rk)'
  BY <1>1, <1>3, <1>4 DEF IInv, WalkInv, list
<1> QED BY <1>1, <1>4, <1>5, <1>6 DEF IInv, MutexInv

-----------------------------------------------------------------------------
(* ffs_read_root makes the list from the files there are.                  *)
LEMMA InitInv ==
  ASSUME Init
  PROVE  \E rk : IInv(rk)
<1> DEFINE there == {a[2] : a \in Mounted}
           Most(s) == IF s = {} THEN Nil ELSE CHOOSE n \in s : \A k \in s : k <= n
           Above(n) == {k \in there : k > n}
<1>1. /\ first = Most(there)
      /\ next = [i \in Inode |-> IF i \in there THEN Most({k \in there : k < i}) ELSE Nil]
      /\ pprev = [i \in Inode |->
           IF i \notin there THEN Nil
           ELSE IF Above(i) = {} THEN Head ELSE CHOOSE n \in Above(i) : \A k \in Above(i) : n <= k]
      /\ ino = [i \in Inode |-> IF i \in there THEN i ELSE 0]
      /\ freed = {} /\ fds = there /\ named = Mounted /\ pinned = {}
      /\ owner = [n \in Name |-> IF n \in Mounted THEN n[2] ELSE Nil]
      /\ dentry = [n \in Name |-> None]
      /\ pr = [p \in Procs |-> Idle] /\ oops = FALSE /\ relisted = FALSE
  BY Zenon DEF Init
<1>2. /\ there \subseteq Inode /\ there \subseteq Fd /\ Mounted \subseteq Name
      /\ \A a, b \in Mounted : a[2] = b[2] => a = b
  BY InodesAssumption DEF Inode, Name
<1> DEFINE rk == [i \in Inode \cup {Nil, Head} |-> IF i = Head THEN NInodes + 1 ELSE i]
<1>0. Order(rk) /\ rk[Head] = NInodes + 1 /\ \A i \in Inode \cup {Nil} : rk[i] = i
  <2>1. /\ NInodes + 1 \in Nat /\ Nil = 0 /\ Nil # Head /\ Head \notin Inode
        /\ \A i \in Inode : i \in Nat /\ 0 < i /\ i < NInodes + 1
    BY FdIs DEF Nil, Head
  <2>2. rk[Head] = NInodes + 1 /\ \A i \in Inode \cup {Nil} : rk[i] = i
    BY <2>1
  <2>3. rk \in [Inode \cup {Nil, Head} -> Nat]
    BY <2>1
  <2> HIDE DEF rk
  <2> QED BY <2>1, <2>2, <2>3 DEF Order
<1> HIDE DEF rk
<1>3. \A a \in Mounted : a[2] \in there
  OBVIOUS
<1>4. \A i \in there : i \in Nat /\ i >= 1 /\ i < NInodes + 1 /\ i # 0 /\ i # Nil /\ i # Poison /\ i # Head
  BY <1>2, FdIs DEF Nil, Poison, Head
<1>5. ASSUME NEW S, S \subseteq there
      PROVE  Most(S) \in S \cup {Nil} /\ \A k \in S : Most(S) \in S /\ k <= Most(S)
  <2>1. CASE S = {}
    BY <2>1
  <2>2. CASE S # {}
    <3>1. \E m \in S : \A k \in S : k <= m
      <4> HIDE DEF there
      <4>1. S \in SUBSET Inode
        BY <1>2, <1>5
      <4>2. \E m \in S : \A k \in S : rk[k] <= rk[m]
        BY <1>0, <2>2, <4>1, Highest
      <4> QED BY <1>0, <4>1, <4>2
    <3> QED BY <2>2, <3>1
  <2> QED BY <2>1, <2>2
<1>6. ASSUME NEW i \in there
      PROVE  /\ next[i] \in there \cup {Nil} /\ next[i] < i /\ next[i] # Poison
             /\ \A k \in there : k < i => k <= next[i] /\ next[i] \in there
  <2> DEFINE L == {k \in there : k < i}
  <2>1. next[i] = Most(L) /\ L \subseteq there
    BY <1>1, <1>2
  <2>2. Most(L) \in L \cup {Nil} /\ \A k \in L : Most(L) \in L /\ k <= Most(L)
    BY <2>1, <1>5
  <2> HIDE DEF Most, there
  <2>3. \A k \in there : k < i => k \in L
    OBVIOUS
  <2>4. next[i] < i /\ next[i] # Poison
    BY <1>4, <2>1, <2>2 DEF Nil, Poison
  <2> QED BY <2>1, <2>2, <2>3, <2>4
<1>7. /\ first \in there \cup {Nil} /\ first < NInodes + 1
      /\ \A k \in there : k <= first /\ first \in there
  <2>1. Most(there) \in there \cup {Nil} /\ \A k \in there : Most(there) \in there /\ k <= Most(there)
    BY <1>5
  <2> HIDE DEF Most, there
  <2> QED BY <1>1, <1>4, <2>1, FdIs DEF Nil
<1>8. ASSUME NEW i \in there
      PROVE  IF i = first THEN pprev[i] = Head ELSE pprev[i] \in there /\ next[pprev[i]] = i
  <2> DEFINE A == Above(i)
  <2>1. /\ pprev[i] = IF A = {} THEN Head ELSE CHOOSE n \in A : \A k \in A : n <= k
        /\ A \subseteq there /\ \A k \in there : k \in A <=> k > i
    BY <1>1, <1>2
  <2> HIDE DEF A, there, Most
  <2>2. CASE i = first
    <3>1. A = {}
      BY <1>4, <1>7, <2>1, <2>2
    <3> QED BY <2>1, <2>2, <3>1
  <2>3. CASE i # first
    <3>1. A # {}
      BY <1>4, <1>7, <2>1, <2>3
    <3>2. \E m \in A : \A k \in A : m <= k
      <4>1. A \in SUBSET Inode
        BY <1>2, <2>1
      <4>2. \E m \in A : \A k \in A : rk[m] <= rk[k]
        BY <1>0, <3>1, <4>1, Lowest
      <4> QED BY <1>0, <4>1, <4>2
    <3>3. pprev[i] \in A /\ \A k \in A : pprev[i] <= k
      BY <2>1, <3>1, <3>2
    <3>4. PICK m : m = pprev[i]
      OBVIOUS
    <3>5. m \in there /\ i < m
      BY <1>4, <2>1, <3>3, <3>4
    <3>6. i <= next[m] /\ next[m] \in there /\ next[m] < m
      BY <1>6, <3>5
    <3>7. ~ i < next[m]
      BY <1>4, <2>1, <3>3, <3>4, <3>5, <3>6
    <3>8. next[m] = i
      BY <1>4, <3>6, <3>7
    <3> QED BY <2>3, <3>4, <3>5, <3>8
  <2> QED BY <2>2, <2>3
<1>9. pprev \in [Inode -> PPrev]
  <2>1. ASSUME NEW i \in Inode PROVE pprev[i] \in PPrev
    <3>1. CASE i \in there
      BY <1>2, <1>8, <3>1 DEF PPrev
    <3>2. CASE i \notin there
      BY <1>1, <3>2 DEF PPrev
    <3> QED BY <3>1, <3>2
  <2>2. pprev = [i \in Inode |-> pprev[i]]
    BY <1>1
  <2> QED BY <2>1, <2>2
<1>10. next \in [Inode -> Link] /\ \A i \in Inode : i \notin there => next[i] = Nil
  <2>1. ASSUME NEW i \in Inode PROVE next[i] \in Link /\ (i \notin there => next[i] = Nil)
    <3>1. CASE i \in there
      BY <1>2, <1>6, <3>1 DEF Link
    <3>2. CASE i \notin there
      BY <1>1, <3>2 DEF Link
    <3> QED BY <3>1, <3>2
  <2>2. next = [i \in Inode |-> next[i]]
    BY <1>1
  <2> QED BY <2>1, <2>2
<1> HIDE DEF Most, Above
<1>11. \A i \in Inode : ino[i] = IF i \in there THEN i ELSE 0
  BY <1>1
<1>12. \A n \in named : n \in Name /\ owner[n] = n[2] /\ n[2] \in there /\ dentry[n] = None
  BY <1>1, <1>2, <1>3
<1>13. Behind = there
  BY <1>1, <1>12 DEF Behind
<1>14. \A S : In(S) = {} /\ Ats(S) = {}
  BY <1>1 DEF In, Ats, InOf, AtsOf
<1>15. Listed = there /\ Leaving = {}
  BY <1>13, <1>14 DEF Listed, Leaving
<1>16. /\ first \in Link /\ ino \in [Inode -> Fd \cup {0}] /\ freed \subseteq Inode
       /\ fds \subseteq Fd /\ named \subseteq Name /\ pinned \subseteq Name
       /\ owner \in [Name -> Inode \cup {Nil}]
       /\ dentry \in [Name -> Inode \cup {Nil, None}] /\ oops \in BOOLEAN /\ relisted \in BOOLEAN
  <2>1. first \in Link
    BY <1>2, <1>7 DEF Link
  <2>2. ino \in [Inode -> Fd \cup {0}]
    BY <1>1, <1>2
  <2>3. owner \in [Name -> Inode \cup {Nil}]
    BY <1>1, <1>2, <1>3
  <2> QED BY <1>1, <1>2, <2>1, <2>2, <2>3
<1> HIDE DEF there
<1>17. TypeOK
  <2>1. pr \in [Procs -> {Idle} \cup [pc : {"add1", "add2", "add3", "add4", "enter",
           "clear", "del1", "del2", "del3", "gone", "walk"}, name : Name, at : Link]]
    BY <1>1
  <2> QED BY <1>9, <1>10, <1>16, <2>1 DEF TypeOK
<1>18. MutexInv
  <2>1. pr \in [Procs -> {Idle} \cup [pc : Changers \cup {"walk"}, name : Name, at : Link]]
    BY <1>1
  <2> QED BY <1>1, <2>1 DEF MutexInv, Mutex, InOf
<1>19. NamesInv
  <2>1. ASSUME NEW n \in named
        PROVE  /\ owner[n] \in Inode /\ ino[owner[n]] = n[2] /\ n[2] \in fds
               /\ dentry[n] \in {None, owner[n]}
               /\ \A i \in Inode : ino[i] = n[2] => i = owner[n]
    BY <1>1, <1>2, <1>4, <1>11, <1>12
  <2> QED BY <1>1, <1>2, <1>14, <2>1 DEF NamesInv
<1>20. ChainInv(rk)
  <2>1. rk[Nil] = Nil /\ \A i \in there : rk[i] = i
    BY <1>0, <1>2
  <2>2. Follows(rk, Head, first, there)
    BY <1>0, <1>4, <1>7, <2>1 DEF Follows
  <2>3. ASSUME NEW i \in there PROVE Follows(rk, i, next[i], there)
    BY <1>4, <1>6, <2>1 DEF Follows
  <2> QED BY <1>2, <1>15, <2>2, <2>3 DEF ChainInv
<1>21. AddInv(rk)
  BY <1>14 DEF AddInv
<1>22. BackInv
  BY <1>8, <1>14, <1>15 DEF BackInv, Back
<1>23. WalkInv(rk)
  BY <1>14 DEF WalkInv
<1> QED BY <1>0, <1>17, <1>18, <1>19, <1>20, <1>21, <1>22, <1>23 DEF IInv

(* Every step keeps the invariant, unless it hands out an inode that is in *)
(* the list; from the list an inode goes with its removal only.            *)
LEMMA NextInv ==
  ASSUME OneChanging, NEW rk, IInv(rk), [Next]_vars, ~ relisted'
  PROVE  /\ \E up : IInv(up)'
         /\ Listed \subseteq Listed' \/ \E p \in Procs : Del1(p) /\ Listed \ {pr[p].at} \subseteq Listed'
<1>1. CASE UNCHANGED vars
  <2>1. UNCHANGED list /\ UNCHANGED fs /\ pr' = pr /\ oops' = oops
    BY <1>1 DEF vars
  <2>2. TypeOK' /\ MutexInv' /\ NamesInv'
    BY <2>1 DEF IInv, TypeOK, MutexInv, NamesInv, In, list, fs
  <2>3. Listed' = Listed /\ Leaving' = Leaving /\ Around' = Around /\ \A S : In(S)' = In(S)
    BY <2>1 DEF Listed, Leaving, Around, Behind, Ats, In, fs
  <2>4. ChainInv(rk)' /\ AddInv(rk)' /\ BackInv' /\ WalkInv(rk)'
    BY <2>1, <2>3 DEF IInv, ChainInv, AddInv, BackInv, WalkInv, Follows, Fresh, Back, list, fs
  <2> QED BY <2>2, <2>3, <2>4 DEF IInv, Order
<1>2. ASSUME NEW p \in Procs, Step(p), ~ Del1(p) PROVE IInv(rk)' /\ Listed \subseteq Listed'
  BY <1>2, Add1Inv, Add2Inv, Add3Inv, Add4Inv, EnterInv, ClearFdInv, Del2Inv, Del3Inv,
     GoneInv, WalkStepInv DEF Step
<1>3. ASSUME NEW p \in Procs, Del1(p) PROVE IInv(rk)' /\ Listed \ {pr[p].at} \subseteq Listed'
  BY <1>3, Del1Inv
<1>4. ASSUME NEW p \in Procs, NEW n \in Name, Unlink(p, n) \/ Lookup(p, n)
      PROVE  IInv(rk)' /\ Listed \subseteq Listed'
  BY <1>4, UnlinkInv, LookupInv
<1>5. ASSUME NEW p \in Procs, NEW n \in Name, Create(p, n)
      PROVE  (\E up : IInv(up)') /\ Listed \subseteq Listed'
  BY <1>5, CreateInv
<1>6. ASSUME NEW n \in Name, Shrink(n) PROVE IInv(rk)' /\ Listed \subseteq Listed'
  BY <1>6, ShrinkInv
<1> QED BY <1>1, <1>2, <1>3, <1>4, <1>5, <1>6 DEF Next

(* That it once did is not forgotten.                                      *)
LEMMA RelistedStays ==
  ASSUME relisted, [Next]_vars
  PROVE  relisted'
<1>1. ASSUME UNCHANGED fs PROVE relisted'
  BY <1>1 DEF fs
<1>2. ASSUME Oops PROVE relisted'
  BY <1>1, <1>2 DEF Oops
<1>3. ASSUME NEW p \in Procs, Step(p) PROVE relisted'
  <2>1. CASE Add1(p) \/ Add3(p) \/ Add4(p) \/ Del3(p)
    BY <1>1, <2>1 DEF Add1, Add3, Add4, Del3
  <2>2. CASE Enter(p) \/ ClearFd(p) \/ Gone(p)
    BY <2>2 DEF Enter, ClearFd, Gone
  <2>3. CASE Add2(p)
    BY <1>1, <1>2, <2>3, Zenon DEF Add2
  <2>4. CASE Del1(p)
    BY <1>1, <1>2, <2>4, Zenon DEF Del1
  <2>5. CASE Del2(p)
    BY <1>1, <1>2, <2>5, Zenon DEF Del2
  <2>6. CASE Walk(p)
    <3>1. UNCHANGED fs \/ Oops \/ relisted' = relisted
      BY <2>6, Zenon DEF Walk
    <3> QED BY <1>1, <1>2, <3>1
  <2> QED BY <1>3, <2>1, <2>2, <2>3, <2>4, <2>5, <2>6 DEF Step
<1>4. ASSUME NEW p \in Procs, NEW n \in Name, Create(p, n) \/ Unlink(p, n) \/ Lookup(p, n)
      PROVE  relisted'
  BY <1>1, <1>4 DEF Create, Unlink, Lookup
<1>5. ASSUME NEW n \in Name, Shrink(n) PROVE relisted'
  BY <1>5 DEF Shrink
<1>6. CASE UNCHANGED vars
  BY <1>1, <1>6 DEF vars
<1> QED BY <1>3, <1>4, <1>5, <1>6 DEF Next

(* In every state of the program, until then.                              *)
Kept == relisted \/ \E rk : IInv(rk)
THEOREM Invariant == Spec /\ OneChanging => []Kept
<1>1. Init => Kept
  BY InitInv DEF Kept
<1>2. OneChanging /\ Kept /\ [Next]_vars => Kept'
  <2> SUFFICES ASSUME OneChanging, Kept, [Next]_vars, ~ relisted' PROVE Kept'
    BY DEF Kept
  <2>1. PICK rk : IInv(rk)
    BY RelistedStays DEF Kept
  <2> QED BY <2>1, NextInv DEF Kept
<1>3. OneChanging => []OneChanging
  <2> SUFFICES ASSUME OneChanging PROVE []OneChanging
    OBVIOUS
  <2> QED BY PTL
<1> QED BY <1>1, <1>2, <1>3, PTL DEF Spec

-----------------------------------------------------------------------------
(* Types, with any number of changing directories and inodes used again.   *)
Typed == TypeOK /\ MutexInv

(* What is typed but for the calls under way.                              *)
Rest ==
  /\ first' \in Link /\ next' \in [Inode -> Link] /\ pprev' \in [Inode -> PPrev]
  /\ ino' \in [Inode -> Fd \cup {0}] /\ freed' \subseteq Inode
  /\ fds' \subseteq Fd /\ named' \subseteq Name /\ pinned' \subseteq Name
  /\ owner' \in [Name -> Inode \cup {Nil}] /\ dentry' \in [Name -> Inode \cup {Nil, None}]
  /\ oops' \in BOOLEAN /\ relisted' \in BOOLEAN

LEMMA TypedIs ==
  ASSUME Rest, Mutex(pr')
  PROVE  Typed'
<1>1. pr' \in [Procs -> {Idle} \cup [pc : {"add1", "add2", "add3", "add4", "enter",
         "clear", "del1", "del2", "del3", "gone", "walk"}, name : Name, at : Link]]
  BY TypePr
<1> QED BY <1>1 DEF Typed, TypeOK, MutexInv, Rest

(* A call about the list that makes one access to it and goes on.          *)
LEMMA TypedAccess ==
  ASSUME Typed, NEW p \in Procs, NEW b \in Changers, NEW c \in Changers, At(p, b), Go(p, c), Rest
  PROVE  Typed'
<1>1. Turns(p, c)
  BY DEF Turns, At, Go, InOf
<1>2. Mutex(pr')
  BY <1>1, TurnIs DEF Typed
<1> QED BY <1>2, TypedIs

LEMMA TypedNext ==
  ASSUME Typed, [Next]_vars
  PROVE  Typed'
<1>1. ASSUME UNCHANGED list, UNCHANGED fs, oops' \in BOOLEAN PROVE Rest
  BY <1>1 DEF Typed, TypeOK, Rest, list, fs
<1>2. ASSUME Oops PROVE Typed'
  BY <1>1, <1>2, TypedIs DEF Oops, Typed, MutexInv
<1>3. CASE UNCHANGED vars
  BY <1>1, <1>3, TypedIs DEF vars, Typed, TypeOK, MutexInv
<1>4. ASSUME NEW p \in Procs, NEW b \in Changers, At(p, b)
      PROVE  pr[p] # Idle /\ pr[p].at \in Inode /\ pr[p].at \in Link /\ pr[p].at \in PPrev /\ pr[p].name \in Name
  BY <1>4, ProcIs DEF Typed, MutexInv, Mutex, At, InOf, Link, PPrev
<1>5. {"add1", "add2", "add3", "add4", "enter", "clear", "del1", "del2", "del3", "gone"} = Changers
  BY DEF Changers
<1>6. ASSUME NEW p \in Procs, Add1(p) \/ Add3(p) \/ Add4(p) \/ Del3(p) PROVE Typed'
  <2>1. CASE Add1(p)
    <3>1. Rest
      BY <2>1, <1>4, <1>5 DEF Add1, Typed, TypeOK, Rest, fs
    <3> QED BY <2>1, <1>5, <3>1, TypedAccess DEF Add1
  <2>2. CASE Add3(p)
    <3>1. Rest
      BY <2>2, <1>4, <1>5 DEF Add3, Typed, TypeOK, Rest, fs
    <3> QED BY <2>2, <1>5, <3>1, TypedAccess DEF Add3
  <2>3. CASE Add4(p)
    <3>1. Rest
      BY <2>3, <1>4, <1>5 DEF Add4, Typed, TypeOK, Rest, fs, PPrev
    <3> QED BY <2>3, <1>5, <3>1, TypedAccess DEF Add4
  <2>4. CASE Del3(p)
    <3>1. Rest
      BY <2>4, <1>4, <1>5 DEF Del3, Typed, TypeOK, Rest, fs, Link, PPrev
    <3> QED BY <2>4, <1>5, <3>1, TypedAccess DEF Del3
  <2> QED BY <1>6, <2>1, <2>2, <2>3, <2>4
<1>7. ASSUME NEW p \in Procs, Add2(p) PROVE Typed'
  <2> SUFFICES ASSUME ~ Oops PROVE Typed'
    BY <1>2
  <2>1. PICK i, old : i = pr[p].at /\ old = next[i]
    OBVIOUS
  <2>2. /\ At(p, "add2") /\ Go(p, "add3") /\ UNCHANGED <<first, next, fs, oops>>
        /\ old = Nil \/ Good(old)
        /\ pprev' = IF old = Nil THEN pprev ELSE [pprev EXCEPT ![old] = i]
    BY <1>7, <2>1, Zenon DEF Add2
  <2>3. Rest
    BY <1>4, <1>5, <2>1, <2>2 DEF Typed, TypeOK, Rest, fs, Good
  <2> QED BY <1>5, <2>2, <2>3, TypedAccess
<1>8. ASSUME NEW p \in Procs, Del1(p) PROVE Typed'
  <2> SUFFICES ASSUME ~ Oops PROVE Typed'
    BY <1>2
  <2>1. PICK i, q : i = pr[p].at /\ q = pprev[i]
    OBVIOUS
  <2>2. /\ At(p, "del1") /\ Go(p, "del2") /\ UNCHANGED <<pprev, fs, oops>>
        /\ q = Head \/ Good(q)
        /\ Store(q, next[i])
    BY <1>8, <2>1, Zenon DEF Del1
  <2>3. i \in Inode /\ next[i] \in Link
    BY <1>4, <1>5, <2>1, <2>2 DEF Typed, TypeOK
  <2>4. first' \in Link /\ next' \in [Inode -> Link]
    BY <2>2, <2>3 DEF Store, Typed, TypeOK, Good
  <2>5. Rest
    BY <2>2, <2>4 DEF Typed, TypeOK, Rest, fs
  <2> QED BY <1>5, <2>2, <2>5, TypedAccess
<1>9. ASSUME NEW p \in Procs, Del2(p) PROVE Typed'
  <2> SUFFICES ASSUME ~ Oops PROVE Typed'
    BY <1>2
  <2>1. PICK i, n : i = pr[p].at /\ n = next[i]
    OBVIOUS
  <2>2. /\ At(p, "del2") /\ Go(p, "del3") /\ UNCHANGED <<first, next, fs, oops>>
        /\ n = Nil \/ Good(n)
        /\ pprev' = IF n = Nil THEN pprev ELSE [pprev EXCEPT ![n] = pprev[i]]
    BY <1>9, <2>1, Zenon DEF Del2
  <2>3. i \in Inode /\ pprev[i] \in PPrev
    BY <1>4, <1>5, <2>1, <2>2 DEF Typed, TypeOK
  <2>4. Rest
    BY <2>2, <2>3 DEF Typed, TypeOK, Rest, fs, Good
  <2> QED BY <1>5, <2>2, <2>4, TypedAccess
<1>10. ASSUME NEW p \in Procs, ClearFd(p) PROVE Typed'
  <2>1. Rest
    BY <1>10 DEF ClearFd, Typed, TypeOK, Rest, list
  <2> QED BY <1>5, <1>10, <2>1, TypedAccess DEF ClearFd
<1>11. ASSUME NEW p \in Procs, Enter(p) PROVE Typed'
  <2>1. pr[p] # Idle /\ pr[p].at \in Inode /\ pr[p].name \in Name /\ End(p)
    BY <1>4, <1>5, <1>11 DEF Enter
  <2>2. Rest
    BY <1>11, <2>1 DEF Enter, Typed, TypeOK, Rest, list
  <2>3. Mutex(pr')
    BY <2>1, EndIs DEF Typed
  <2> QED BY <2>2, <2>3, TypedIs
<1>12. ASSUME NEW p \in Procs, Gone(p) PROVE Typed'
  <2>1. pr[p] # Idle /\ pr[p].at \in Inode /\ pr[p].name \in Name /\ End(p)
    BY <1>4, <1>5, <1>12 DEF Gone
  <2>2. Rest
    BY <1>12, <2>1 DEF Gone, Typed, TypeOK, Rest, list
  <2>3. Mutex(pr')
    BY <2>1, EndIs DEF Typed
  <2> QED BY <2>2, <2>3, TypedIs
<1>13. ASSUME NEW p \in Procs, Walk(p) PROVE Typed'
  <2> SUFFICES ASSUME ~ Oops PROVE Typed'
    BY <1>2
  <2>1. PICK i, n : i = pr[p].at /\ n = pr[p].name
    OBVIOUS
  <2>2. pr[p] # Idle /\ p \in InOf(pr, {"walk"}) /\ n \in Name
    BY <1>13, <2>1, ProcIs DEF Walk, At, InOf, Typed, MutexInv
  <2>3. \/ /\ i \in Inode \cup {Nil} /\ End(p) /\ dentry' = [dentry EXCEPT ![n] = i]
           /\ UNCHANGED <<list, ino, freed, fds, named, owner, pinned, oops, relisted>>
        \/ Good(i) /\ pr' = [pr EXCEPT ![p].at = next[i]] /\ UNCHANGED <<list, fs, oops>>
    <3>1. \/ i = Nil
          \/ Good(i) /\ ino[i] = n[2]
          \/ i # Nil /\ Good(i) /\ ino[i] # n[2]
      BY <1>13, <2>1, Zenon DEF Walk
    <3>2. CASE i = Nil
      BY <1>13, <2>1, <3>2, Zenon DEF Walk
    <3>3. CASE i # Nil /\ Good(i) /\ ino[i] = n[2]
      <4>1. i \in Inode \cup {Nil}
        BY <3>3 DEF Good
      <4> QED BY <1>13, <2>1, <3>3, <4>1, Zenon DEF Walk
    <3>4. CASE i # Nil /\ Good(i) /\ ino[i] # n[2]
      BY <1>13, <2>1, <3>4, Zenon DEF Walk
    <3> QED BY <3>1, <3>2, <3>3, <3>4
  <2>4. CASE /\ i \in Inode \cup {Nil} /\ End(p) /\ dentry' = [dentry EXCEPT ![n] = i]
             /\ UNCHANGED <<list, ino, freed, fds, named, owner, pinned, oops, relisted>>
    <3>1. Rest
      BY <2>2, <2>4 DEF Typed, TypeOK, Rest, list
    <3>2. Mutex(pr')
      BY <2>2, <2>4, EndIs DEF Typed
    <3> QED BY <3>1, <3>2, TypedIs
  <2>5. CASE Good(i) /\ pr' = [pr EXCEPT ![p].at = next[i]] /\ UNCHANGED <<list, fs, oops>>
    <3>1. Rest
      BY <1>1, <2>5 DEF Typed, TypeOK
    <3>2. next[i] \in Link
      BY <2>5 DEF Good, Typed, TypeOK
    <3>3. Mutex(pr')
      BY <2>2, <2>5, <3>2, StrollIs DEF Typed
    <3> QED BY <3>1, <3>3, TypedIs
  <2> QED BY <2>3, <2>4, <2>5
<1>14. ASSUME NEW p \in Procs, NEW n \in Name, Create(p, n) PROVE Typed'
  <2>1. PICK i \in Spare :
          /\ Begin(p, n, "add1", i) /\ ino' = [ino EXCEPT ![i] = n[2]] /\ freed' = freed \ {i}
          /\ relisted' = (relisted \/ i \in Reach)
    BY <1>14 DEF Create
  <2>2. i \in Inode /\ i \in Link /\ n[2] \in Fd /\ n[1] \in Changing
    BY <1>14 DEF Create, Spare, Unused, Typed, TypeOK, Name, Link
  <2>3. Rest
    BY <1>14, <2>1, <2>2 DEF Create, Typed, TypeOK, Rest, list
  <2>4. Mutex(pr')
    BY <1>5, <2>1, <2>2, BeginIs DEF Typed
  <2> QED BY <2>3, <2>4, TypedIs
<1>15. ASSUME NEW p \in Procs, NEW n \in Name, Unlink(p, n) PROVE Typed'
  <2>1. /\ Begin(p, n, "clear", dentry[n]) /\ dentry[n] \in Inode /\ dentry[n] \in Link
        /\ n[1] \in Changing
    BY <1>15 DEF Unlink, Link
  <2>2. Rest
    BY <1>15 DEF Unlink, Typed, TypeOK, Rest, list
  <2>3. Mutex(pr')
    BY <1>5, <2>1, BeginIs DEF Typed
  <2> QED BY <2>2, <2>3, TypedIs
<1>16. ASSUME NEW p \in Procs, NEW n \in Name, Lookup(p, n) PROVE Typed'
  <2>1. Begin(p, n, "walk", first) /\ first \in Link /\ "walk" \notin Changers
    BY <1>16 DEF Lookup, Typed, TypeOK, Changers
  <2>2. Rest
    BY <1>1, <1>16 DEF Lookup, Typed, TypeOK
  <2>3. Mutex(pr')
    BY <2>1, BeginIs DEF Typed
  <2> QED BY <2>2, <2>3, TypedIs
<1>17. ASSUME NEW n \in Name, Shrink(n) PROVE Typed'
  <2>1. Rest
    BY <1>17 DEF Shrink, Typed, TypeOK, Rest, list
  <2> QED BY <1>17, <2>1, TypedIs DEF Shrink, Typed, MutexInv
<1> QED BY <1>3, <1>6, <1>7, <1>8, <1>9, <1>10, <1>11, <1>12, <1>13, <1>14, <1>15, <1>16, <1>17
        DEF Next, Step

(* Every value keeps its type, with all directories changing and also when *)
(* an inode of the list is handed out.                                     *)
THEOREM TypesHold == Spec => []TypeOK
<1>1. Init => Typed
  BY InitInv DEF IInv, Typed
<1>2. Typed => TypeOK
  BY DEF Typed
<1> QED BY <1>1, <1>2, TypedNext, PTL DEF Spec

-----------------------------------------------------------------------------
(* What a lookup leaves for a name is the inode of its file, though files  *)
(* come and go while it walks, and numbers and inodes with them.           *)
THEOREM NamesLeadToTheirFiles == Spec /\ OneChanging => []NamesResolve
<1>1. Kept => NamesResolve
  BY DEF Kept, IInv, NamesInv, NamesResolve
<1> QED BY <1>1, Invariant, PTL

(* The types of the state; between the calls the list holds the inode of   *)
(* every file, once and in both directions, and no other.                  *)
THEOREM ListHoldsEveryFile == Spec /\ OneChanging => []ListSound
<1>1. Kept => ListComplete
  <2> SUFFICES ASSUME NEW rk, IInv(rk), \A p \in Procs : pr[p] = Idle
               PROVE  /\ Reach = {owner[n] : n \in named}
                      /\ \A i \in Reach : IF pprev[i] = Head THEN first = i
                                          ELSE pprev[i] \in Reach /\ next[pprev[i]] = i
    BY DEF Kept, ListComplete
  <2>1. \A S : In(S) = {} /\ Ats(S) = {}
    BY DEF In, Ats, InOf, AtsOf
  <2>2. Reach = Behind /\ Listed = Behind
    BY <2>1, ReachIs DEF IInv, Listed
  <2>3. \A i \in Listed : Back(i, Listed) /\ Listed \subseteq Inode
    BY <2>1 DEF IInv, BackInv, ChainInv
  <2>4. Head \notin Inode
    BY FdIs DEF Head
  <2> QED BY <2>2, <2>3, <2>4 DEF Behind, Back
<1>2. TypeOK /\ ListComplete => ListSound
  BY DEF ListSound
<1> QED BY <1>1, <1>2, TypesHold, Invariant, PTL

-----------------------------------------------------------------------------
(* A process follows a pointer into nowhere: in a walk, or because an      *)
(* inode of the list has been freed.                                       *)
LEMMA OopsCause ==
  ASSUME OneChanging, NEW rk, IInv(rk), [Next]_vars, oops', ~ oops
  PROVE  \/ \E p \in Procs : Walks(p) /\ pr[p].at # Nil /\ ~ Good(pr[p].at)
         \/ Listed \cap freed # {}
<1>1. ~ UNCHANGED vars
  BY DEF vars
<1>2. ASSUME NEW p \in Procs, Add2(p) PROVE Listed \cap freed # {}
  <2>1. PICK i : i = next[pr[p].at]
    OBVIOUS
  <2>2. At(p, "add2")
    BY <1>2 DEF Add2
  <2>3. i # Nil /\ ~ Good(i)
    BY <1>2, <2>1, Zenon DEF Add2
  <2>4. Listed \subseteq Inode /\ In({"add2", "add3"}) = {p}
    BY <2>2, CallList DEF Changers
  <2>5. i = first /\ first \in Listed \cup {Nil}
    BY <2>1, <2>4 DEF IInv, AddInv, ChainInv, Follows
  <2> QED BY <2>3, <2>4, <2>5 DEF Good
<1>3. ASSUME NEW p \in Procs, Del1(p) PROVE Listed \cap freed # {}
  <2>1. PICK i, q : i = pr[p].at /\ q = pprev[i]
    OBVIOUS
  <2>2. At(p, "del1")
    BY <1>3 DEF Del1
  <2>3. q # Head /\ ~ Good(q)
    BY <1>3, <2>1, Zenon DEF Del1
  <2>4. /\ Listed \subseteq Inode /\ Listed = Behind \cup {i}
        /\ In({"add3", "add4"}) = {} /\ In({"del2"}) = {}
    BY <2>1, <2>2, CallList DEF Changers
  <2>5. Back(i, Listed)
    BY <2>4 DEF IInv, BackInv
  <2> QED BY <2>1, <2>3, <2>4, <2>5 DEF Good, Back
<1>4. ASSUME NEW p \in Procs, Del2(p) PROVE Listed \cap freed # {}
  <2>1. PICK i, n : i = pr[p].at /\ n = next[i]
    OBVIOUS
  <2>2. At(p, "del2")
    BY <1>4 DEF Del2
  <2>3. n # Nil /\ ~ Good(n)
    BY <1>4, <2>1, Zenon DEF Del2
  <2>4. Listed \subseteq Inode /\ Leaving = {i}
    BY <2>1, <2>2, CallList DEF Changers
  <2>5. n \in Listed \cup {Nil}
    BY <2>1, <2>4 DEF IInv, ChainInv, Follows
  <2> QED BY <2>3, <2>4, <2>5 DEF Good
<1>5. ASSUME NEW p \in Procs, Walk(p) PROVE Walks(p) /\ pr[p].at # Nil /\ ~ Good(pr[p].at)
  <2>1. Walks(p)
    BY <1>5 DEF Walk, At, Walks
  <2>2. pr[p].at # Nil /\ ~ Good(pr[p].at)
    BY <1>5, Zenon DEF Walk
  <2> QED BY <2>1, <2>2
<1>6. ASSUME NEW p \in Procs,
             \/ Add1(p) \/ Add3(p) \/ Add4(p) \/ Enter(p) \/ ClearFd(p) \/ Del3(p) \/ Gone(p)
             \/ \E n \in Name : Create(p, n) \/ Unlink(p, n) \/ Lookup(p, n)
      PROVE  FALSE
  BY <1>6 DEF Add1, Add3, Add4, Enter, ClearFd, Del3, Gone, Create, Unlink, Lookup, At, Begin
<1>7. ASSUME NEW n \in Name, Shrink(n) PROVE FALSE
  BY <1>7 DEF Shrink
<1> QED BY <1>1, <1>2, <1>3, <1>4, <1>5, <1>6, <1>7 DEF Next, Step

(* A walk is where it was until it goes on itself.                         *)
LEMMA WalkWaits ==
  ASSUME MutexInv, NEW p \in Procs, Walks(p), Next
  PROVE  pr'[p] = pr[p] \/ Walk(p)
<1>1. pr[p] # Idle /\ pr[p].pc = "walk" /\ DOMAIN pr = Procs
  BY DEF Walks, MutexInv, Mutex
<1>2. ASSUME NEW q \in Procs, NEW b \in Changers, At(q, b), (\E c : Go(q, c)) \/ End(q) \/ Oops
      PROVE  pr'[p] = pr[p]
  <2>1. q # p
    BY <1>1, <1>2 DEF At, Changers
  <2> QED BY <1>1, <1>2, <2>1 DEF Go, End, Oops
<1>3. ASSUME NEW q \in Procs, NEW n, NEW b, NEW a, Begin(q, n, b, a) PROVE pr'[p] = pr[p]
  BY <1>1, <1>3 DEF Begin
<1>4. ASSUME NEW q \in Procs, Step(q), ~ Walk(q) PROVE pr'[p] = pr[p]
  <2>1. CASE Add1(q) \/ Add3(q) \/ Add4(q) \/ Del3(q) \/ ClearFd(q) \/ Enter(q) \/ Gone(q)
    BY <1>2, <2>1 DEF Add1, Add3, Add4, Del3, ClearFd, Enter, Gone, Changers
  <2>2. CASE Add2(q)
    <3>1. At(q, "add2") /\ ((\E c : Go(q, c)) \/ Oops) /\ "add2" \in Changers
      BY <2>2, Zenon DEF Add2, Changers
    <3> QED BY <1>2, <3>1
  <2>3. CASE Del1(q)
    <3>1. At(q, "del1") /\ ((\E c : Go(q, c)) \/ Oops) /\ "del1" \in Changers
      BY <2>3, Zenon DEF Del1, Changers
    <3> QED BY <1>2, <3>1
  <2>4. CASE Del2(q)
    <3>1. At(q, "del2") /\ ((\E c : Go(q, c)) \/ Oops) /\ "del2" \in Changers
      BY <2>4, Zenon DEF Del2, Changers
    <3> QED BY <1>2, <3>1
  <2> QED BY <1>4, <2>1, <2>2, <2>3, <2>4 DEF Step
<1>5. ASSUME NEW q \in Procs, Walk(q), q # p PROVE pr'[p] = pr[p]
  <2>1. Oops \/ End(q) \/ \E a : pr' = [pr EXCEPT ![q].at = a]
    BY <1>5, Zenon DEF Walk
  <2> QED BY <1>1, <1>5, <2>1 DEF Oops, End
<1>6. ASSUME NEW q \in Procs, NEW n \in Name, Create(q, n) \/ Unlink(q, n) \/ Lookup(q, n)
      PROVE  pr'[p] = pr[p]
  BY <1>3, <1>6 DEF Create, Unlink, Lookup
<1>7. ASSUME NEW n \in Name, Shrink(n) PROVE pr'[p] = pr[p]
  BY <1>7 DEF Shrink
<1> QED BY <1>4, <1>5, <1>6, <1>7 DEF Next

(* The list as a walk sees it is the list that next makes.                 *)
LEMMA PlaceNext ==
  ASSUME OneChanging, Kept, Reach = Listed, Reach' = Listed', Next, ~ relisted'
  PROVE  KeepsPlace
<1>1. ~ relisted
  BY RelistedStays
<1>2. PICK rk : IInv(rk)
  BY <1>1 DEF Kept
<1>3. Listed \subseteq Inode
  BY <1>2 DEF IInv, ChainInv
<1>4. ASSUME NEW p \in Procs, OnList(p), pr'[p] = pr[p]
      PROVE  OnList(p)' \/ Unlisted(pr[p].at)
  <2>1. CASE Listed \subseteq Listed'
    BY <1>4, <2>1 DEF OnList, Walks
  <2>2. CASE \E q \in Procs : Del1(q) /\ Listed \ {pr[q].at} \subseteq Listed'
    <3>1. PICK q \in Procs : Del1(q) /\ Listed \ {pr[q].at} \subseteq Listed'
      BY <2>2
    <3>2. CASE pr[q].at # pr[p].at
      BY <1>4, <3>1, <3>2 DEF OnList, Walks
    <3>3. CASE Oops
      BY <1>2, <2>1, <3>3, OopsInv
    <3>4. CASE pr[q].at = pr[p].at /\ ~ Oops
      <4>1. At(q, "del1") /\ Go(q, "del2")
        BY <3>1, <3>4, Zenon DEF Del1
      <4>2. pr[q] # Idle /\ pr[q].pc = "del1" /\ pr'[q].pc = "del2"
        <5>1. "del1" \in Changers /\ "del2" \in Changers
          BY DEF Changers
        <5> QED BY <1>2, <4>1, <5>1, CallGoes DEF At
      <4>3. pr'[q] # pr[q]
        BY <4>2
      <4> QED BY <3>4, <4>2, <4>3 DEF Unlisted
    <3> QED BY <3>2, <3>3, <3>4
  <2> QED BY <1>2, <2>1, <2>2, NextInv
<1>5. ASSUME NEW p \in Procs, OnList(p), Walk(p)
      PROVE  OnList(p)' \/ pr'[p] = Idle
  <2>1. PICK i, n : i = pr[p].at /\ n = pr[p].name
    OBVIOUS
  <2>2. /\ i \in Listed /\ i \in Inode /\ i # Nil /\ i \in Around /\ At(p, "walk")
        /\ p \in InOf(pr, {"walk"}) /\ pr[p] # Idle
    BY <1>3, <1>5, <2>1, FdIs DEF OnList, Walks, Walk, At, InOf, Nil, Around
  <2>3. Listed \subseteq Listed'
    BY <1>2, <1>5, WalkStepInv
  <2>4. CASE Oops
    BY <1>5, <2>3, <2>4 DEF Oops, OnList, Walks
  <2>5. CASE ~ Oops /\ ino[i] = n[2]
    <3>1. End(p)
      BY <1>5, <2>1, <2>2, <2>5, Zenon DEF Walk
    <3> QED BY <1>2, <2>2, <3>1 DEF End, IInv, MutexInv, Mutex, InOf
  <2>6. CASE ~ Oops /\ ino[i] # n[2]
    <3>1. Good(i) /\ pr' = [pr EXCEPT ![p].at = next[i]]
      BY <1>5, <2>1, <2>2, <2>6, Zenon DEF Walk
    <3>2. next[i] \in Listed
      BY <1>2, <2>1, <2>2, <2>6, <3>1, WalkOn
    <3>3. next[i] \in Link
      BY <1>3, <3>2 DEF Link
    <3>4. p \in InOf(pr', {"walk"}) /\ pr'[p].at = next[i]
      BY <1>2, <2>2, <3>1, <3>3, StrollIs DEF IInv
    <3> QED BY <2>3, <3>2, <3>4 DEF OnList, Walks, InOf
  <2> QED BY <2>4, <2>5, <2>6
<1>6. ASSUME NEW p \in Procs, OnList(p)
      PROVE  OnList(p)' \/ pr'[p] = Idle \/ Unlisted(pr[p].at)
  <2>1. pr'[p] = pr[p] \/ Walk(p)
    BY <1>2, <1>6, WalkWaits DEF OnList, IInv
  <2> QED BY <1>4, <1>5, <1>6, <2>1
<1>7. ASSUME oops', ~ oops
      PROVE  (\E p \in Procs : Walks(p) /\ ~ OnList(p)) \/ Reach \cap freed # {}
  <2>1. ASSUME NEW p \in Procs, Walks(p), OnList(p), ~ Good(pr[p].at) PROVE Reach \cap freed # {}
    BY <1>3, <2>1 DEF OnList, Good
  <2> QED BY <1>2, <1>7, <2>1, OopsCause
<1> QED BY <1>6, <1>7 DEF KeepsPlace

ReachesList == relisted \/ Reach = Listed

(* A lookup on the list keeps its place through the creates and removals   *)
(* of others, but for the removal of the inode it stands on.               *)
THEOREM LookupsKeepTheirPlace == Spec /\ OneChanging => PlaceKept
<1>1. Kept => ReachesList
  BY ReachIs DEF Kept, IInv, ReachesList
<1>2. OneChanging /\ Kept /\ ReachesList /\ ReachesList' /\ [Next]_vars
      => [~ relisted' => KeepsPlace]_vars
  <2> SUFFICES ASSUME OneChanging, Kept, ReachesList, ReachesList', Next, ~ relisted'
               PROVE  KeepsPlace
    BY DEF ReachesList
  <2>1. ~ relisted
    BY RelistedStays
  <2> QED BY <2>1, PlaceNext DEF ReachesList
<1>3. OneChanging => []OneChanging
  <2> SUFFICES ASSUME OneChanging PROVE []OneChanging
    OBVIOUS
  <2> QED BY PTL
<1>4. Spec /\ OneChanging => []Kept
  BY Invariant
<1> QED BY <1>1, <1>2, <1>3, <1>4, PTL DEF Spec, PlaceKept

-----------------------------------------------------------------------------
(* As long as the VFS drops no dentry, an inode is freed after its removal *)
(* only, and one that is handed out is in nobody's hands.                  *)
Held == (Behind \cup Ats(Changers)) \cap freed = {}

LEMMA HeldNext ==
  ASSUME OneChanging, ~ Shrinking, NEW rk, IInv(rk), Held, ~ relisted, [Next]_vars
  PROVE  ~ relisted' /\ Held'
<1>1. Listed = Behind \cup Ats({"add4", "enter", "clear", "del1"}) /\ Reach = Listed
  BY ReachIs DEF IInv, Listed
<1>2. ASSUME UNCHANGED fs, Ats(Changers)' \subseteq Ats(Changers) PROVE ~ relisted' /\ Held'
  BY <1>2 DEF Held, Behind, fs
<1>3. ASSUME UNCHANGED fs, pr' = pr PROVE ~ relisted' /\ Held'
  BY <1>2, <1>3 DEF Ats
<1>4. ASSUME NEW p \in Procs, NEW b \in Changers, NEW c \in Changers, At(p, b), Go(p, c)
      PROVE  Ats(Changers)' = Ats(Changers)
  BY <1>4, CallIs, CallGoes DEF Ats
<1>5. ASSUME Oops PROVE ~ relisted' /\ Held'
  BY <1>3, <1>5 DEF Oops
<1>6. ASSUME NEW p \in Procs,
             \/ Add1(p) \/ Add2(p) \/ Add3(p) \/ Add4(p) \/ Del1(p) \/ Del2(p) \/ Del3(p)
      PROVE  ~ relisted' /\ Held'
  <2>1. \/ Oops
        \/ UNCHANGED fs /\ \E b, c \in Changers : At(p, b) /\ Go(p, c)
    <3>1. {"add1", "add2", "add3", "add4", "enter", "del1", "del2", "del3", "gone"} \subseteq Changers
      BY DEF Changers
    <3>2. CASE Add1(p) \/ Add3(p) \/ Add4(p) \/ Del3(p)
      BY <3>1, <3>2 DEF Add1, Add3, Add4, Del3
    <3>3. CASE Add2(p)
      <4>1. Oops \/ (UNCHANGED fs /\ At(p, "add2") /\ Go(p, "add3"))
        BY <3>3, Zenon DEF Add2
      <4> QED BY <3>1, <4>1
    <3>4. CASE Del1(p)
      <4>1. Oops \/ (UNCHANGED fs /\ At(p, "del1") /\ Go(p, "del2"))
        BY <3>4, Zenon DEF Del1
      <4> QED BY <3>1, <4>1
    <3>5. CASE Del2(p)
      <4>1. Oops \/ (UNCHANGED fs /\ At(p, "del2") /\ Go(p, "del3"))
        BY <3>5, Zenon DEF Del2
      <4> QED BY <3>1, <4>1
    <3> QED BY <1>6, <3>2, <3>3, <3>4, <3>5
  <2> QED BY <1>2, <1>4, <1>5, <2>1
<1>7. ASSUME NEW p \in Procs, ClearFd(p) PROVE ~ relisted' /\ Held'
  <2>1. Ats(Changers)' = Ats(Changers)
    BY <1>4, <1>7 DEF ClearFd, Changers
  <2> QED BY <1>7, <2>1 DEF ClearFd, Held, Behind
<1>8. ASSUME NEW p \in Procs, End(p), pr[p] # Idle
      PROVE  Ats(Changers)' = {pr[q].at : q \in In(Changers) \ {p}}
  <2>1. InOf(pr', Changers) = InOf(pr, Changers) \ {p} /\ \A q \in Procs : q # p => pr'[q] = pr[q]
    BY <1>8, EndIs DEF IInv
  <2>2. \A q \in InOf(pr, Changers) \ {p} : pr'[q] = pr[q]
    BY <2>1 DEF InOf
  <2> QED BY <2>1, <2>2 DEF Ats, AtsOf, In
<1>9. ASSUME NEW p \in Procs, Enter(p) PROVE ~ relisted' /\ Held'
  <2>1. PICK i, n : i = pr[p].at /\ n = pr[p].name
    OBVIOUS
  <2>2. /\ At(p, "enter") /\ End(p) /\ named' = named \cup {n}
        /\ owner' = [owner EXCEPT ![n] = i] /\ freed' = freed /\ relisted' = relisted
    BY <1>9, <2>1 DEF Enter
  <2>3. i \in Ats(Changers) /\ n \in Name /\ pr[p] # Idle
    BY <2>1, <2>2, CallIs DEF Ats, AtsOf, Changers
  <2>4. Behind' \subseteq Behind \cup {i}
    BY <2>2, <2>3 DEF Behind, IInv, TypeOK
  <2>5. Ats(Changers)' \subseteq Ats(Changers)
    BY <1>8, <2>2, <2>3 DEF Ats, AtsOf, In
  <2> QED BY <2>2, <2>3, <2>4, <2>5 DEF Held
<1>10. ASSUME NEW p \in Procs, Gone(p) PROVE ~ relisted' /\ Held'
  <2>1. PICK i : i = pr[p].at
    OBVIOUS
  <2>2. /\ At(p, "gone") /\ End(p) /\ freed' \subseteq freed \cup {i}
        /\ named' = named /\ owner' = owner /\ relisted' = relisted
    BY <1>10, <2>1 DEF Gone
  <2>3. i \notin Behind /\ pr[p] # Idle /\ In(Changers) = {p}
    BY <2>1, <2>2, CallIs DEF In, Changers
  <2>4. Ats(Changers)' = {}
    BY <1>8, <2>2, <2>3
  <2> QED BY <2>2, <2>3, <2>4 DEF Held, Behind
<1>11. ASSUME NEW p \in Procs, Walk(p) PROVE ~ relisted' /\ Held'
  <2>1. p \in InOf(pr, {"walk"}) /\ pr[p] # Idle /\ p \notin In(Changers)
    BY <1>11 DEF Walk, At, In, InOf, Changers
  <2>2. CASE Oops
    BY <1>5, <2>2
  <2>3. CASE /\ End(p) /\ freed' = freed /\ named' = named /\ owner' = owner /\ relisted' = relisted
    <3>1. Ats(Changers)' \subseteq Ats(Changers)
      BY <1>8, <2>1, <2>3 DEF Ats, AtsOf, In
    <3> QED BY <2>3, <3>1 DEF Held, Behind
  <2>4. CASE pr' = [pr EXCEPT ![p].at = next[pr[p].at]] /\ Good(pr[p].at) /\ UNCHANGED fs
    <3>1. next[pr[p].at] \in Link
      BY <2>4 DEF Good, IInv, TypeOK
    <3>2. Ats(Changers)' = Ats(Changers)
      BY <2>1, <2>4, <3>1, StrollIs DEF IInv, Ats
    <3> QED BY <1>2, <2>4, <3>2
  <2>5. \/ Oops
        \/ End(p) /\ freed' = freed /\ named' = named /\ owner' = owner /\ relisted' = relisted
        \/ pr' = [pr EXCEPT ![p].at = next[pr[p].at]] /\ Good(pr[p].at) /\ UNCHANGED fs
    BY <1>11, Zenon DEF Walk
  <2> QED BY <2>2, <2>3, <2>4, <2>5
<1>12. ASSUME NEW p \in Procs, NEW n \in Name, NEW b \in Changers, NEW a \in Inode, Begin(p, n, b, a),
              n[1] \in Changing
       PROVE  Ats(Changers) = {} /\ Ats(Changers)' = {a} /\ Listed = Behind
  <2>1. a \in Link
    BY DEF Link
  <2>2. /\ Mutex(pr') /\ pr'[p] # Idle /\ pr'[p].pc = b /\ pr'[p].at = a
        /\ \A q \in Procs : pr[q] # Idle => pr[q].name[1] # n[1]
    BY <1>12, <2>1, BeginIs DEF IInv
  <2>3. InOf(pr, Changers) = {}
    BY <1>12, <2>2, BeginAlone DEF IInv
  <2>4. Ats(Changers) = {} /\ Listed = Behind
    BY <2>3, Nobody DEF Ats, Listed, Changers
  <2>5. p \in InOf(pr', Changers)
    BY <2>2 DEF InOf
  <2> QED BY <2>2, <2>4, <2>5, Alone DEF Ats
<1>13. ASSUME NEW p \in Procs, NEW n \in Name, Create(p, n) PROVE ~ relisted' /\ Held'
  <2>1. PICK i \in Spare :
          /\ Begin(p, n, "add1", i) /\ freed' = freed \ {i} /\ relisted' = (relisted \/ i \in Reach)
    BY <1>13 DEF Create
  <2>2. n[1] \in Changing /\ named' = named /\ owner' = owner /\ i \in Inode
    BY <1>13 DEF Create, Spare, Unused, IInv, TypeOK
  <2>3. Ats(Changers)' = {i} /\ Listed = Behind
    BY <1>12, <2>1, <2>2 DEF Changers
  <2>4. i \notin Behind
    <3>1. \A m \in named : ino[owner[m]] # 0
      BY FdIs DEF IInv, NamesInv, TypeOK, Name
    <3> QED BY <2>1, <3>1 DEF Spare, Unused, Held, Behind
  <2>5. ~ relisted'
    BY <1>1, <2>1, <2>3, <2>4
  <2> QED BY <2>1, <2>2, <2>3, <2>5 DEF Held, Behind
<1>14. ASSUME NEW p \in Procs, NEW n \in Name, Unlink(p, n) PROVE ~ relisted' /\ Held'
  <2>1. /\ n[1] \in Changing /\ n \in named /\ dentry[n] \in Inode /\ Begin(p, n, "clear", dentry[n])
        /\ named' = named \ {n} /\ owner' = owner /\ freed' = freed /\ relisted' = relisted
    BY <1>14 DEF Unlink
  <2>2. dentry[n] \in Behind
    BY <2>1, FdIs DEF IInv, NamesInv, Behind, None
  <2>3. Ats(Changers)' = {dentry[n]}
    BY <1>12, <2>1 DEF Changers
  <2> QED BY <2>1, <2>2, <2>3 DEF Held, Behind
<1>15. ASSUME NEW p \in Procs, NEW n \in Name, Lookup(p, n) PROVE ~ relisted' /\ Held'
  <2>1. UNCHANGED fs /\ Begin(p, n, "walk", first) /\ first \in Link /\ "walk" \notin Changers
    BY <1>15 DEF Lookup, IInv, TypeOK, Changers
  <2>2. pr'[p].pc = "walk" /\ pr[p] = Idle /\ \A q \in Procs : q # p => pr'[q] = pr[q]
    BY <2>1, BeginIs DEF IInv
  <2>3. InOf(pr', Changers) \subseteq InOf(pr, Changers) /\ \A q \in InOf(pr', Changers) : pr'[q] = pr[q]
    BY <2>1, <2>2 DEF InOf
  <2>4. Ats(Changers)' \subseteq Ats(Changers)
    BY <2>3 DEF Ats, AtsOf
  <2> QED BY <1>2, <2>1, <2>4
<1>16. ASSUME NEW n \in Name, Shrink(n) PROVE FALSE
  BY <1>16 DEF Shrink
<1>17. CASE UNCHANGED vars
  BY <1>3, <1>17 DEF vars
<1> QED BY <1>6, <1>7, <1>9, <1>10, <1>11, <1>13, <1>14, <1>15, <1>16, <1>17 DEF Next, Step

(* As long as the VFS drops no dentry, no create is given an inode that is *)
(* still in the list, though the memory of removed ones is used again.     *)
THEOREM NoInodeIsListedTwice == Spec /\ OneChanging /\ ~ Shrinking => [](~ relisted)
<1>1. Init => Held /\ ~ relisted
  BY DEF Init, Held
<1>2. OneChanging /\ ~ Shrinking /\ Kept /\ Held /\ ~ relisted /\ [Next]_vars => (Held /\ ~ relisted)'
  BY HeldNext DEF Kept
<1>3. OneChanging /\ ~ Shrinking => [](OneChanging /\ ~ Shrinking)
  <2> SUFFICES ASSUME OneChanging, ~ Shrinking PROVE [](OneChanging /\ ~ Shrinking)
    OBVIOUS
  <2> QED BY PTL
<1>4. Spec /\ OneChanging => []Kept
  BY Invariant
<1> QED BY <1>1, <1>2, <1>3, <1>4, PTL DEF Spec

-----------------------------------------------------------------------------
(* Without removals and dropped dentries nothing is freed or poisoned.     *)
OnlyAdds ==
  /\ ~ oops /\ freed = {} /\ \A i \in Inode : next[i] # Poison
  /\ \A p \in Procs : pr[p] # Idle =>
       /\ pr[p].pc \in {"add1", "add2", "add3", "add4", "enter", "walk"}
       /\ pr[p].at # Poison

(* The list that ffs_read_root makes has no poison in it.                  *)
LEMMA OnlyAddsInit ==
  ASSUME Init
  PROVE  OnlyAdds
<1>1. PICK rk : IInv(rk)
  BY InitInv
<1>2. /\ owner = [n \in Name |-> IF n \in Mounted THEN n[2] ELSE Nil]
      /\ named = Mounted /\ freed = {} /\ pr = [p \in Procs |-> Idle] /\ ~ oops
      /\ \A i \in Inode : i \notin {a[2] : a \in Mounted} => next[i] = Nil
  BY DEF Init
<1>3. ASSUME NEW i \in Inode PROVE next[i] # Poison
  <2>1. CASE i \notin {a[2] : a \in Mounted}
    BY <1>2, <2>1 DEF Nil, Poison
  <2>2. CASE i \in {a[2] : a \in Mounted}
    <3>1. PICK n \in Mounted : i = n[2]
      BY <2>2
    <3>2. n \in Name /\ owner[n] = i
      BY <1>2, <3>1, InodesAssumption DEF Name
    <3>3. i \in Listed
      BY <1>2, <3>1, <3>2 DEF Listed, Behind
    <3>4. next[i] \in Inode \cup {Nil}
      BY <1>1, <3>3 DEF IInv, ChainInv, Follows
    <3> QED BY <3>4, FdIs DEF Nil, Poison
  <2> QED BY <2>1, <2>2
<1> QED BY <1>2, <1>3 DEF OnlyAdds

(* No step changes that, ...                                               *)
LEMMA OnlyAddsNext ==
  ASSUME OneChanging, ~ Removing, ~ Shrinking, NEW rk, IInv(rk), OnlyAdds, [Next]_vars
  PROVE  OnlyAdds'
<1>0. Nil # Poison /\ Poison \notin Inode
  BY FdIs DEF Nil, Poison
<1>1. first # Poison
  <2>1. first \in Listed \cup {Nil} /\ Listed \subseteq Inode
    BY DEF IInv, ChainInv, Follows
  <2> QED BY <1>0, <2>1
<1>2. \A p \in Procs : pr[p] # Idle => pr[p] \in [pc : Changers \cup {"walk"}, name : Name, at : Link]
  BY DEF IInv, MutexInv, Mutex
<1>3. ASSUME NEW p \in Procs, NEW b \in {"add2", "add3", "add4", "enter"}, Go(p, b), pr[p] # Idle
      PROVE  \A q \in Procs : pr'[q] # Idle =>
               /\ pr'[q].pc \in {"add1", "add2", "add3", "add4", "enter", "walk"}
               /\ pr'[q].at # Poison
  <2>1. /\ pr'[p] = [pr[p] EXCEPT !.pc = b] /\ \A q \in Procs : q # p => pr'[q] = pr[q]
    BY <1>3 DEF Go, IInv, MutexInv, Mutex
  <2>2. pr'[p].pc = b /\ pr'[p].at = pr[p].at
    BY <1>2, <1>3, <2>1
  <2> QED BY <1>3, <2>1, <2>2 DEF OnlyAdds
<1>4. ASSUME NEW p \in Procs, End(p)
      PROVE  \A q \in Procs : pr'[q] # Idle => pr'[q] = pr[q]
  BY <1>4 DEF End, IInv, MutexInv, Mutex
<1>5. ASSUME NEW p \in Procs, NEW n, NEW b \in {"add1", "walk"}, NEW a, a # Poison, Begin(p, n, b, a)
      PROVE  \A q \in Procs : pr'[q] # Idle =>
               /\ pr'[q].pc \in {"add1", "add2", "add3", "add4", "enter", "walk"}
               /\ pr'[q].at # Poison
  <2>1. /\ pr'[p] = [pc |-> b, name |-> n, at |-> a] /\ \A q \in Procs : q # p => pr'[q] = pr[q]
    BY <1>5 DEF Begin, IInv, MutexInv, Mutex
  <2> QED BY <1>5, <2>1 DEF OnlyAdds
<1>20. ~ oops'
  <2> SUFFICES ASSUME oops' PROVE FALSE
    OBVIOUS
  <2>1. PICK p \in Procs : Walks(p) /\ ~ Good(pr[p].at)
    BY OopsCause DEF OnlyAdds
  <2>2. pr[p].at \in Inode
    BY <2>1 DEF Walks, OnlyAdds, IInv, WalkInv, In, InOf
  <2> QED BY <2>1, <2>2 DEF Good, OnlyAdds
<1>6. ASSUME UNCHANGED <<list, pr>>, freed' = freed PROVE OnlyAdds'
  BY <1>20, <1>6 DEF OnlyAdds, list
<1>7. CASE UNCHANGED vars
  BY <1>6, <1>7 DEF vars, fs
<1>8. ~ Oops
  BY <1>20 DEF Oops
<1>9. ASSUME NEW p \in Procs, Add1(p) PROVE OnlyAdds'
  <2>1. pr[p] # Idle /\ freed' = freed /\ Go(p, "add2") /\ next' = [next EXCEPT ![pr[p].at] = first]
    BY <1>9 DEF Add1, At, fs
  <2>2. \A i \in Inode : next'[i] # Poison
    BY <1>1, <2>1 DEF IInv, TypeOK, OnlyAdds
  <2> QED BY <1>3, <1>20, <2>1, <2>2 DEF OnlyAdds
<1>10. ASSUME NEW p \in Procs, Add2(p) PROVE OnlyAdds'
  <2>1. Oops \/ (pr[p] # Idle /\ freed' = freed /\ Go(p, "add3") /\ next' = next)
    BY <1>10, Zenon DEF Add2, At, fs
  <2> QED BY <1>3, <1>8, <1>20, <2>1 DEF OnlyAdds
<1>11. ASSUME NEW p \in Procs, Add3(p) \/ Add4(p) PROVE OnlyAdds'
  <2>1. pr[p] # Idle /\ freed' = freed /\ (Go(p, "add4") \/ Go(p, "enter")) /\ next' = next
    BY <1>11 DEF Add3, Add4, At, fs
  <2> QED BY <1>3, <1>20, <2>1 DEF OnlyAdds
<1>12. ASSUME NEW p \in Procs, Enter(p) PROVE OnlyAdds'
  <2>1. freed' = freed /\ End(p) /\ next' = next
    BY <1>12 DEF Enter, list
  <2> QED BY <1>4, <1>20, <2>1 DEF OnlyAdds
<1>13. ASSUME NEW p \in Procs, Walk(p) PROVE OnlyAdds'
  <2>1. PICK i : i = pr[p].at
    OBVIOUS
  <2>2. \/ Oops
        \/ End(p) /\ UNCHANGED list /\ freed' = freed
        \/ i # Nil /\ Good(i) /\ pr' = [pr EXCEPT ![p].at = next[i]] /\ UNCHANGED list /\ freed' = freed
    BY <1>13, <2>1, Zenon DEF Walk, fs
  <2>3. CASE End(p) /\ UNCHANGED list /\ freed' = freed
    BY <1>4, <1>20, <2>3 DEF OnlyAdds, list
  <2>4. CASE i # Nil /\ Good(i) /\ pr' = [pr EXCEPT ![p].at = next[i]] /\ UNCHANGED list /\ freed' = freed
    <3>1. pr[p] # Idle
      BY <1>13 DEF Walk, At
    <3>2. /\ pr'[p] = [pr[p] EXCEPT !.at = next[i]] /\ \A q \in Procs : q # p => pr'[q] = pr[q]
      BY <2>4 DEF IInv, MutexInv, Mutex
    <3>3. pr'[p].pc = pr[p].pc /\ pr'[p].at = next[i]
      BY <1>2, <3>1, <3>2
    <3>4. next[i] # Poison
      BY <2>4 DEF OnlyAdds, Good
    <3> QED BY <1>20, <2>4, <3>1, <3>2, <3>3, <3>4 DEF OnlyAdds, list
  <2> QED BY <1>8, <2>2, <2>3, <2>4
<1>14. ASSUME NEW p \in Procs,
              ClearFd(p) \/ Del1(p) \/ Del2(p) \/ Del3(p) \/ Gone(p)
       PROVE  FALSE
  <2>1. /\ pr[p] # Idle
        /\ pr[p].pc \in {"clear", "del1", "del2", "del3", "gone"}
    BY <1>14 DEF ClearFd, Del1, Del2, Del3, Gone, At
  <2> QED BY <2>1 DEF OnlyAdds
<1>15. ASSUME NEW p \in Procs, NEW n \in Name, Create(p, n) PROVE OnlyAdds'
  <2>1. PICK i \in Spare : Begin(p, n, "add1", i) /\ freed' = freed \ {i} /\ next' = next
    BY <1>15 DEF Create, list
  <2>2. i \in Inode /\ freed' = {}
    BY <2>1 DEF Spare, Unused, OnlyAdds
  <2> QED BY <1>0, <1>5, <1>20, <2>1, <2>2 DEF OnlyAdds
<1>16. ASSUME NEW p \in Procs, NEW n \in Name, Lookup(p, n) PROVE OnlyAdds'
  <2>1. Begin(p, n, "walk", first) /\ next' = next /\ freed' = freed
    BY <1>16 DEF Lookup, list, fs
  <2> QED BY <1>1, <1>5, <1>20, <2>1 DEF OnlyAdds
<1>17. \A p \in Procs, n \in Name : ~ Unlink(p, n)
  BY DEF Unlink
<1>18. \A n \in Name : ~ Shrink(n)
  BY DEF Shrink
<1> QED BY <1>7, <1>9, <1>10, <1>11, <1>12, <1>13, <1>14, <1>15, <1>16, <1>17, <1>18
        DEF Next, Step

(* ... so nobody goes astray: lookups and creates may overlap.             *)
THEOREM CreatesLeadNobodyAstray ==
  Spec /\ OneChanging /\ ~ Removing /\ ~ Shrinking => [](~ oops)
<1>1. OneChanging /\ ~ Removing /\ ~ Shrinking /\ Kept /\ ~ relisted /\ OnlyAdds /\ [Next]_vars => OnlyAdds'
  BY OnlyAddsNext DEF Kept
<1>2. OneChanging /\ ~ Removing /\ ~ Shrinking => [](OneChanging /\ ~ Removing /\ ~ Shrinking)
  <2> SUFFICES ASSUME OneChanging, ~ Removing, ~ Shrinking
               PROVE  [](OneChanging /\ ~ Removing /\ ~ Shrinking)
    OBVIOUS
  <2> QED BY PTL
<1>3. Init => OnlyAdds
  BY OnlyAddsInit
<1>4. OnlyAdds => ~ oops
  BY DEF OnlyAdds
<1>5. Spec /\ OneChanging => []Kept
  BY Invariant
<1>6. Spec /\ OneChanging /\ ~ Shrinking => [](~ relisted)
  BY NoInodeIsListedTwice
<1> QED BY <1>1, <1>2, <1>3, <1>4, <1>5, <1>6, PTL DEF Spec
=============================================================================
