-------------------------- MODULE FfsBitmapProofs --------------------------
(***************************************************************************)
(* Proofs about FfsBitmap, for any processes, directories, bitmap sizes    *)
(* and numbers of CPUs.                                                    *)
(***************************************************************************)
EXTENDS FfsBitmap, TLAPS

(* Who has which spinlock, from where it stands.                           *)
LockInv ==
  \A p \in Procs :
    /\ pc[p] \in {"set", "copy", "io", "unlock"} => lock[map[p]] = p
    /\ pc[p] \in {"scan", "set"} => call[p] # "unlink"
    /\ call[p] = "unlink" =>
         /\ pc[p] \in {"reset", "copy", "io"} => lock["fd"] = p /\ lock["b"] = p
         /\ pc[p] = "lock" /\ map[p] = "b" => lock["fd"] = p
         /\ pc[p] = "unlock" /\ map[p] = "fd" => lock["b"] = p
    /\ pc[p] = "reset" => call[p] = "unlink"

Writer(m, p) == lock[m] = p /\ map[p] = m /\ pc[p] \in {"copy", "io"}

(* A bitmap differs from the disk only while the holder of its lock is     *)
(* writing it.                                                             *)
DiskInv ==
  /\ \A m \in Maps : disk[m] = bm[m] \/ \E p \in Procs : Writer(m, p)
  /\ \A p \in Procs : pc[p] = "io" => buf[map[p]] = bm[map[p]]

IInv == TypeOK /\ LockInv /\ DiskInv

(* What mount leaves behind satisfies the invariant.                       *)
LEMMA InitInv == Init => IInv
<1> SUFFICES ASSUME Init PROVE IInv
  OBVIOUS
<1>1. TypeOK
  BY DEF Init, TypeOK, Maps, Pcs
<1>2. LockInv /\ DiskInv
  BY DEF Init, LockInv, DiskInv
<1> QED BY <1>1, <1>2 DEF IInv

(* Every step of a call keeps the types.                                   *)
LEMMA TypeInv == TypeOK /\ [Next]_vars => TypeOK'
<1> SUFFICES ASSUME TypeOK, [Next]_vars PROVE TypeOK'
  OBVIOUS
<1> USE DEF TypeOK, Maps, Pcs
<1>1. ASSUME NEW p \in Procs, NEW c \in Calls, Call(p, c) PROVE TypeOK'
  BY <1>1 DEF Call, Goto
<1>2. ASSUME NEW p \in Procs, Enter(p) PROVE TypeOK'
  BY <1>2 DEF Enter, Goto
<1>3. ASSUME NEW p \in Procs, Leave(p) PROVE TypeOK'
  BY <1>3 DEF Leave, Goto
<1>4. ASSUME NEW p \in Procs, Scan(p) PROVE TypeOK'
  BY <1>4 DEF Scan, Goto
<1>5. ASSUME NEW p \in Procs, Lock(p) PROVE TypeOK'
  BY <1>5 DEF Lock, Goto
<1>6. ASSUME NEW p \in Procs, Set(p) PROVE TypeOK'
  BY <1>6 DEF Set, Goto
<1>7. ASSUME NEW p \in Procs, Reset(p) PROVE TypeOK'
  BY <1>7 DEF Reset, Goto
<1>8. ASSUME NEW p \in Procs, Copy(p) PROVE TypeOK'
  BY <1>8 DEF Copy, Goto
<1>9. ASSUME NEW p \in Procs, IoDone(p) PROVE TypeOK'
  BY <1>9 DEF IoDone, Goto
<1>10. ASSUME NEW p \in Procs, Unlock(p) PROVE TypeOK'
  BY <1>10 DEF Unlock, Goto
<1>11. CASE UNCHANGED vars
  BY <1>11 DEF vars
<1> QED BY <1>1, <1>2, <1>3, <1>4, <1>5, <1>6, <1>7, <1>8, <1>9, <1>10, <1>11
        DEF Next, Run, Wait

(* A spinlock is held by the one process that is between taking and        *)
(* leaving it.                                                             *)
LEMMA LockInvStep == TypeOK /\ LockInv /\ [Next]_vars => LockInv'
<1> SUFFICES ASSUME TypeOK, LockInv, [Next]_vars PROVE LockInv'
  OBVIOUS
<1> USE ProcsAssumption DEF LockInv, TypeOK, Maps
<1>1. ASSUME NEW p \in Procs, NEW c \in Calls, Call(p, c) PROVE LockInv'
  BY <1>1 DEF Call, Goto
<1>2. ASSUME NEW p \in Procs, Enter(p) PROVE LockInv'
  BY <1>2 DEF Enter, Goto
<1>3. ASSUME NEW p \in Procs, Leave(p) PROVE LockInv'
  BY <1>3 DEF Leave, At, Goto
<1>4. ASSUME NEW p \in Procs, Scan(p) PROVE LockInv'
  BY <1>4 DEF Scan, At, Goto
<1>5. ASSUME NEW p \in Procs, Lock(p) PROVE LockInv'
  BY <1>5 DEF Lock, At, Goto
<1>6. ASSUME NEW p \in Procs, Set(p) PROVE LockInv'
  BY <1>6 DEF Set, At, Goto
<1>7. ASSUME NEW p \in Procs, Reset(p) PROVE LockInv'
  BY <1>7 DEF Reset, At, Goto
<1>8. ASSUME NEW p \in Procs, Copy(p) PROVE LockInv'
  BY <1>8 DEF Copy, At, Goto
<1>9. ASSUME NEW p \in Procs, IoDone(p) PROVE LockInv'
  BY <1>9 DEF IoDone, Goto
<1>10. ASSUME NEW p \in Procs, Unlock(p) PROVE LockInv'
  BY <1>10 DEF Unlock, At, Goto
<1>11. CASE UNCHANGED vars
  BY <1>11 DEF vars
<1> QED BY <1>1, <1>2, <1>3, <1>4, <1>5, <1>6, <1>7, <1>8, <1>9, <1>10, <1>11
        DEF Next, Run, Wait

(* A bitmap differs from the disk only while its lock is held.             *)
LEMMA DiskInvStep == TypeOK /\ LockInv /\ DiskInv /\ [Next]_vars => DiskInv'
<1> SUFFICES ASSUME TypeOK, LockInv, DiskInv, [Next]_vars PROVE DiskInv'
  OBVIOUS
<1> USE ProcsAssumption DEF DiskInv, TypeOK, Maps, Writer, LockInv
<1>1. ASSUME NEW p \in Procs, NEW c \in Calls, Call(p, c) PROVE DiskInv'
  BY <1>1 DEF Call, Goto
<1>2. ASSUME NEW p \in Procs, Enter(p) PROVE DiskInv'
  BY <1>2 DEF Enter, Goto
<1>3. ASSUME NEW p \in Procs, Leave(p) PROVE DiskInv'
  BY <1>3 DEF Leave, At, Goto
<1>4. ASSUME NEW p \in Procs, Scan(p) PROVE DiskInv'
  BY <1>4 DEF Scan, At, Goto
<1>5. ASSUME NEW p \in Procs, Lock(p) PROVE DiskInv'
  BY <1>5 DEF Lock, At, Goto
<1>6. ASSUME NEW p \in Procs, Set(p) PROVE DiskInv'
  BY <1>6 DEF Set, At, Goto
<1>7. ASSUME NEW p \in Procs, Reset(p) PROVE DiskInv'
  BY <1>7 DEF Reset, At, Goto
<1>8. ASSUME NEW p \in Procs, Copy(p) PROVE DiskInv'
  BY <1>8 DEF Copy, At, Goto
<1>9. ASSUME NEW p \in Procs, IoDone(p) PROVE DiskInv'
  BY <1>9 DEF IoDone, Goto
<1>10. ASSUME NEW p \in Procs, Unlock(p) PROVE DiskInv'
  BY <1>10 DEF Unlock, At, Goto
<1>11. CASE UNCHANGED vars
  BY <1>11 DEF vars
<1> QED BY <1>1, <1>2, <1>3, <1>4, <1>5, <1>6, <1>7, <1>8, <1>9, <1>10, <1>11
        DEF Next, Run, Wait

(* The three parts together are inductive.                                 *)
LEMMA NextInv == IInv /\ [Next]_vars => IInv'
BY TypeInv, LockInvStep, DiskInvStep DEF IInv

-----------------------------------------------------------------------------
(* Calls that all hold one directory's mutex.                              *)
Serialized == "write" \notin Calls /\ \A p, q \in Procs : Home[p] = Home[q]

MutexInv == \A p \in Procs : pc[p] \notin {"idle", "enter"} => mutex[Home[p]] = p

HeldInv ==
  /\ \A m \in Maps : \A p \in Procs : held[m][p] \subseteq bm[m] /\ held[m][p] \subseteq disk[m]
  /\ \A m \in Maps : \A p, q \in Procs : p # q => held[m][p] \cap held[m][q] = {}

(* From the check of the bit to the end of the search, the bit is nobody's.*)
BitInv ==
  \A p \in Procs :
    call[p] # "unlink" =>
      /\ pc[p] \in {"lock", "set"} => bit[p] \notin bm[map[p]]
      /\ pc[p] \in {"copy", "io", "unlock"} =>
           /\ bit[p] \in bm[map[p]]
           /\ \A q \in Procs : bit[p] \notin held[map[p]][q]

CallInv == \A p \in Procs : pc[p] # "idle" => call[p] \in Calls

(* A mark belongs to a file, or to the search that is about to return it.  *)
Bringing(m, p) == call[p] # "unlink" /\ map[p] = m /\ pc[p] \in {"copy", "io", "unlock"}
MarkInv ==
  \A m \in Maps : \A i \in bm[m] :
    \E p \in Procs : i \in held[m][p] \/ (Bringing(m, p) /\ bit[p] = i)

SInv == IInv /\ CallInv /\ MutexInv /\ HeldInv /\ BitInv /\ MarkInv

(* A process inside a call is inside one of Calls.                         *)
LEMMA CallInvStep ==
  ASSUME TypeOK, CallInv, [Next]_vars
  PROVE  CallInv'
<1> USE ProcsAssumption DEF CallInv, TypeOK, Maps
<1>1. ASSUME NEW p \in Procs, NEW c \in Calls, Call(p, c) PROVE CallInv'
  BY <1>1 DEF Call, Goto
<1>2. ASSUME NEW p \in Procs, Enter(p) PROVE CallInv'
  BY <1>2 DEF Enter, Goto
<1>3. ASSUME NEW p \in Procs, Leave(p) PROVE CallInv'
  BY <1>3 DEF Leave, At, Goto
<1>4. ASSUME NEW p \in Procs, Scan(p) PROVE CallInv'
  BY <1>4 DEF Scan, At, Goto
<1>5. ASSUME NEW p \in Procs, Lock(p) PROVE CallInv'
  BY <1>5 DEF Lock, At, Goto
<1>6. ASSUME NEW p \in Procs, Set(p) PROVE CallInv'
  BY <1>6 DEF Set, At, Goto
<1>7. ASSUME NEW p \in Procs, Reset(p) PROVE CallInv'
  BY <1>7 DEF Reset, At, Goto
<1>8. ASSUME NEW p \in Procs, Copy(p) PROVE CallInv'
  BY <1>8 DEF Copy, At, Goto
<1>9. ASSUME NEW p \in Procs, IoDone(p) PROVE CallInv'
  BY <1>9 DEF IoDone, Goto
<1>10. ASSUME NEW p \in Procs, Unlock(p) PROVE CallInv'
  BY <1>10 DEF Unlock, At, Goto
<1>11. CASE UNCHANGED vars
  BY <1>11 DEF vars
<1> QED BY <1>1, <1>2, <1>3, <1>4, <1>5, <1>6, <1>7, <1>8, <1>9, <1>10, <1>11
        DEF Next, Run, Wait

(* Only the holder of the mutex is inside ffs.c.                           *)
LEMMA MutexInvStep ==
  ASSUME Serialized, TypeOK, CallInv, MutexInv, [Next]_vars
  PROVE  MutexInv'
<1> USE ProcsAssumption DEF MutexInv, TypeOK, Maps, Serialized, CallInv
<1>1. ASSUME NEW p \in Procs, NEW c \in Calls, Call(p, c) PROVE MutexInv'
  BY <1>1 DEF Call, Goto
<1>2. ASSUME NEW p \in Procs, Enter(p) PROVE MutexInv'
  BY <1>2 DEF Enter, Goto
<1>3. ASSUME NEW p \in Procs, Leave(p) PROVE MutexInv'
  BY <1>3 DEF Leave, At, Goto
<1>4. ASSUME NEW p \in Procs, Scan(p) PROVE MutexInv'
  BY <1>4 DEF Scan, At, Goto
<1>5. ASSUME NEW p \in Procs, Lock(p) PROVE MutexInv'
  BY <1>5 DEF Lock, At, Goto
<1>6. ASSUME NEW p \in Procs, Set(p) PROVE MutexInv'
  BY <1>6 DEF Set, At, Goto
<1>7. ASSUME NEW p \in Procs, Reset(p) PROVE MutexInv'
  BY <1>7 DEF Reset, At, Goto
<1>8. ASSUME NEW p \in Procs, Copy(p) PROVE MutexInv'
  BY <1>8 DEF Copy, At, Goto
<1>9. ASSUME NEW p \in Procs, IoDone(p) PROVE MutexInv'
  BY <1>9 DEF IoDone, Goto
<1>10. ASSUME NEW p \in Procs, Unlock(p) PROVE MutexInv'
  BY <1>10 DEF Unlock, At, Goto
<1>11. CASE UNCHANGED vars
  BY <1>11 DEF vars
<1> QED BY <1>1, <1>2, <1>3, <1>4, <1>5, <1>6, <1>7, <1>8, <1>9, <1>10, <1>11
        DEF Next, Run, Wait

(* Two processes are never both between taking and giving back the mutex.  *)
LEMMA OneActive ==
  ASSUME Serialized, MutexInv, NEW p \in Procs, NEW q \in Procs, p # q,
         pc[p] \notin {"idle", "enter"}
  PROVE  pc[q] \in {"idle", "enter"}
BY DEF Serialized, MutexInv

(* A marked bit that is nobody's may be given to p.                        *)
LEMMA GiveBit ==
  ASSUME TypeOK, HeldInv, NEW m \in Maps, NEW p \in Procs, NEW i,
         i \in bm[m], i \in disk[m], \A q \in Procs : i \notin held[m][q],
         held' = [held EXCEPT ![m][p] = @ \cup {i}], bm' = bm, disk' = disk
  PROVE  HeldInv'
<1>1. \A n \in Maps : \A q \in Procs :
        held'[n][q] = IF n = m /\ q = p THEN held[n][q] \cup {i} ELSE held[n][q]
  BY DEF TypeOK
<1>2. ASSUME NEW n \in Maps, NEW q \in Procs
      PROVE  held'[n][q] \subseteq bm'[n] /\ held'[n][q] \subseteq disk'[n]
  BY <1>1 DEF HeldInv
<1>3. ASSUME NEW n \in Maps, NEW q \in Procs, NEW r \in Procs, q # r
      PROVE  held'[n][q] \cap held'[n][r] = {}
  <2>1. held[n][q] \cap held[n][r] = {}
    BY <1>3 DEF HeldInv
  <2> QED BY <1>1, <1>3, <2>1
<1> QED BY <1>2, <1>3 DEF HeldInv

(* What a process has been given stays its own until it gives it back.     *)
LEMMA HeldInvStep ==
  ASSUME TypeOK, LockInv, DiskInv, BitInv, HeldInv, [Next]_vars
  PROVE  HeldInv'
<1> USE ProcsAssumption DEF HeldInv, TypeOK, Maps, LockInv, DiskInv, BitInv, Writer
<1>1. ASSUME NEW p \in Procs, NEW c \in Calls, Call(p, c) PROVE HeldInv'
  BY <1>1 DEF Call, Goto
<1>2. ASSUME NEW p \in Procs, Enter(p) PROVE HeldInv'
  BY <1>2 DEF Enter, Goto
<1>3. ASSUME NEW p \in Procs, Leave(p) PROVE HeldInv'
  BY <1>3 DEF Leave, At, Goto
<1>4. ASSUME NEW p \in Procs, Scan(p) PROVE HeldInv'
  BY <1>4 DEF Scan, At, Goto
<1>5. ASSUME NEW p \in Procs, Lock(p) PROVE HeldInv'
  BY <1>5 DEF Lock, At, Goto
<1>6. ASSUME NEW p \in Procs, Set(p) PROVE HeldInv'
  BY <1>6 DEF Set, At, Goto
<1>7. ASSUME NEW p \in Procs, Reset(p) PROVE HeldInv'
  BY <1>7 DEF Reset, At, Goto
<1>8. ASSUME NEW p \in Procs, Copy(p) PROVE HeldInv'
  BY <1>8 DEF Copy, At, Goto
<1>9. ASSUME NEW p \in Procs, IoDone(p) PROVE HeldInv'
  BY <1>9 DEF IoDone, Goto
<1>10. ASSUME NEW p \in Procs, Unlock(p) PROVE HeldInv'
  <2>1. /\ bm' = bm /\ disk' = disk /\ pc[p] = "unlock" /\ map[p] \in Maps
        /\ \/ held' = held
           \/ /\ call[p] # "unlink"
              /\ held' = [held EXCEPT ![map[p]][p] = @ \cup {bit[p]}]
    BY <1>10 DEF Unlock, At
  <2>2. CASE held' = held
    BY <2>1, <2>2
  <2>3. CASE /\ call[p] # "unlink"
             /\ held' = [held EXCEPT ![map[p]][p] = @ \cup {bit[p]}]
    <3>1. disk[map[p]] = bm[map[p]]
      BY <2>1
    <3>2. bit[p] \in bm[map[p]] /\ \A q \in Procs : bit[p] \notin held[map[p]][q]
      BY <2>1, <2>3
    <3> QED BY <2>1, <2>3, <3>1, <3>2, GiveBit
  <2> QED BY <2>1, <2>2, <2>3
<1>11. CASE UNCHANGED vars
  BY <1>11 DEF vars
<1> QED BY <1>1, <1>2, <1>3, <1>4, <1>5, <1>6, <1>7, <1>8, <1>9, <1>10, <1>11
        DEF Next, Run, Wait

(* A bit found clear stays clear until the finder sets it.                 *)
LEMMA BitInvStep ==
  ASSUME Serialized, TypeOK, MutexInv, HeldInv, LockInv, BitInv, [Next]_vars
  PROVE  BitInv'
<1> USE ProcsAssumption DEF BitInv, TypeOK, Maps, HeldInv, LockInv
<1>0. \A p, q \in Procs : p # q /\ pc[p] \notin {"idle", "enter"} => pc[q] \in {"idle", "enter"}
  BY OneActive
<1>1. ASSUME NEW p \in Procs, NEW c \in Calls, Call(p, c) PROVE BitInv'
  BY <1>1 DEF Call, Goto
<1>2. ASSUME NEW p \in Procs, Enter(p) PROVE BitInv'
  BY <1>2 DEF Enter, Goto
<1>3. ASSUME NEW p \in Procs, Leave(p) PROVE BitInv'
  BY <1>3 DEF Leave, At, Goto
<1>4. ASSUME NEW p \in Procs, Scan(p) PROVE BitInv'
  BY <1>4 DEF Scan, At, Goto
<1>5. ASSUME NEW p \in Procs, Lock(p) PROVE BitInv'
  BY <1>5 DEF Lock, At, Goto
<1>6. ASSUME NEW p \in Procs, Set(p) PROVE BitInv'
  BY <1>0, <1>6 DEF Set, At, Goto
<1>7. ASSUME NEW p \in Procs, Reset(p) PROVE BitInv'
  BY <1>0, <1>7 DEF Reset, At, Goto
<1>8. ASSUME NEW p \in Procs, Copy(p) PROVE BitInv'
  BY <1>8 DEF Copy, At, Goto
<1>9. ASSUME NEW p \in Procs, IoDone(p) PROVE BitInv'
  BY <1>9 DEF IoDone, Goto
<1>10. ASSUME NEW p \in Procs, Unlock(p) PROVE BitInv'
  BY <1>0, <1>10 DEF Unlock, At, Goto
<1>11. CASE UNCHANGED vars
  BY <1>11 DEF vars
<1> QED BY <1>1, <1>2, <1>3, <1>4, <1>5, <1>6, <1>7, <1>8, <1>9, <1>10, <1>11
        DEF Next, Run, Wait

(* Every mark has an owner: a bit is marked by the search that will return *)
(* it, and cleared by the call that gives it back.                         *)
LEMMA MarkInvStep ==
  ASSUME Serialized, TypeOK, HeldInv, LockInv, BitInv, MarkInv, [Next]_vars
  PROVE  MarkInv'
<1> USE ProcsAssumption DEF Bringing, TypeOK, Maps
<1>1. ASSUME NEW p \in Procs, NEW c \in Calls, Call(p, c) PROVE MarkInv'
  <2>1. bm' = bm /\ held' = held
    BY <1>1 DEF Call
  <2>2. \A m \in Maps, q \in Procs : Bringing(m, q) => Bringing(m, q)' /\ bit'[q] = bit[q]
    BY <1>1 DEF Call, At, Goto
  <2> QED BY <2>1, <2>2 DEF MarkInv
<1>2. ASSUME NEW p \in Procs, Enter(p) PROVE MarkInv'
  <2>1. bm' = bm /\ held' = held
    BY <1>2 DEF Enter
  <2>2. \A m \in Maps, q \in Procs : Bringing(m, q) => Bringing(m, q)' /\ bit'[q] = bit[q]
    BY <1>2 DEF Enter, At, Goto
  <2> QED BY <2>1, <2>2 DEF MarkInv
<1>3. ASSUME NEW p \in Procs, Leave(p) PROVE MarkInv'
  <2>1. bm' = bm /\ held' = held
    BY <1>3 DEF Leave
  <2>2. \A m \in Maps, q \in Procs : Bringing(m, q) => Bringing(m, q)' /\ bit'[q] = bit[q]
    BY <1>3 DEF Leave, At, Goto
  <2> QED BY <2>1, <2>2 DEF MarkInv
<1>4. ASSUME NEW p \in Procs, Scan(p) PROVE MarkInv'
  <2>1. bm' = bm /\ held' = held
    BY <1>4 DEF Scan
  <2>2. \A m \in Maps, q \in Procs : Bringing(m, q) => Bringing(m, q)' /\ bit'[q] = bit[q]
    BY <1>4 DEF Scan, At, Goto
  <2> QED BY <2>1, <2>2 DEF MarkInv
<1>5. ASSUME NEW p \in Procs, Lock(p) PROVE MarkInv'
  <2>1. bm' = bm /\ held' = held
    BY <1>5 DEF Lock
  <2>2. \A m \in Maps, q \in Procs : Bringing(m, q) => Bringing(m, q)' /\ bit'[q] = bit[q]
    BY <1>5 DEF Lock, At, Goto
  <2> QED BY <2>1, <2>2 DEF MarkInv
<1>6. ASSUME NEW p \in Procs, Set(p) PROVE MarkInv'
  <2>1. /\ pc[p] = "set" /\ call[p] # "unlink" /\ Bringing(map[p], p)' /\ bit' = bit /\ map' = map
        /\ \A m \in Maps : bm'[m] = IF m = map[p] THEN bm[m] \cup {bit[p]} ELSE bm[m]
        /\ held' = held
    BY <1>6 DEF Set, At, Goto, LockInv
  <2>2. \A m \in Maps, q \in Procs : Bringing(m, q) => Bringing(m, q)'
    BY <1>6 DEF Set, At, Goto
  <2>3. ASSUME NEW m \in Maps, NEW i \in bm'[m]
        PROVE  \E q \in Procs : i \in held'[m][q] \/ (Bringing(m, q)' /\ bit'[q] = i)
    <3>1. CASE i \in bm[m]
      BY <2>1, <2>2, <3>1 DEF MarkInv
    <3>2. CASE i \notin bm[m]
      BY <2>1, <3>2
    <3> QED BY <3>1, <3>2
  <2> QED BY <2>3 DEF MarkInv
<1>7. ASSUME NEW p \in Procs, Reset(p) PROVE MarkInv'
  <2> DEFINE m == IF held["b"][p] # {} THEN "b" ELSE "fd"
  <2>0. m \in Maps
    OBVIOUS
  <2> HIDE DEF m
  <2>1. PICK i \in held[m][p] :
          /\ bm' = [bm EXCEPT ![m] = @ \ {i}]
          /\ held' = [held EXCEPT ![m][p] = @ \ {i}]
    BY <1>7 DEF Reset, m
  <2>2. \A n \in Maps, q \in Procs : \A j \in held[n][q] : j \in bm'[n] => j \in held'[n][q]
    BY <2>0, <2>1
  <2>3. \A n \in Maps : bm'[n] \subseteq bm[n]
    BY <2>0, <2>1
  <2>4. \A n \in Maps, q \in Procs : Bringing(n, q) => Bringing(n, q)' /\ bit'[q] = bit[q]
    BY <1>7 DEF Reset, At, Goto
  <2> QED BY <2>2, <2>3, <2>4 DEF MarkInv
<1>8. ASSUME NEW p \in Procs, Copy(p) PROVE MarkInv'
  <2>1. bm' = bm /\ held' = held
    BY <1>8 DEF Copy
  <2>2. \A m \in Maps, q \in Procs : Bringing(m, q) => Bringing(m, q)' /\ bit'[q] = bit[q]
    BY <1>8 DEF Copy, At, Goto
  <2> QED BY <2>1, <2>2 DEF MarkInv
<1>9. ASSUME NEW p \in Procs, IoDone(p) PROVE MarkInv'
  <2>1. bm' = bm /\ held' = held
    BY <1>9 DEF IoDone
  <2>2. \A m \in Maps, q \in Procs : Bringing(m, q) => Bringing(m, q)' /\ bit'[q] = bit[q]
    BY <1>9 DEF IoDone, At, Goto
  <2> QED BY <2>1, <2>2 DEF MarkInv
<1>10. ASSUME NEW p \in Procs, Unlock(p) PROVE MarkInv'
  <2>1. bm' = bm /\ pc[p] = "unlock"
    BY <1>10 DEF Unlock, At
  <2>2. \A n \in Maps, q \in Procs : held[n][q] \subseteq held'[n][q]
    BY <1>10 DEF Unlock
  <2>3. Bringing(map[p], p) => bit[p] \in held'[map[p]][p]
    BY <1>10 DEF Unlock
  <2>4. \A n \in Maps, q \in Procs \ {p} : Bringing(n, q) => Bringing(n, q)' /\ bit'[q] = bit[q]
    BY <1>10 DEF Unlock, At, Goto
  <2>5. \A n \in Maps : Bringing(n, p) => n = map[p]
    OBVIOUS
  <2> QED BY <2>1, <2>2, <2>3, <2>4, <2>5 DEF MarkInv
<1>11. CASE UNCHANGED vars
  BY <1>11 DEF vars, MarkInv
<1> QED BY <1>1, <1>2, <1>3, <1>4, <1>5, <1>6, <1>7, <1>8, <1>9, <1>10, <1>11
        DEF Next, Run, Wait

(* The invariant of the serialised system holds after mount.               *)
LEMMA SInitInv == Init => SInv
<1> SUFFICES ASSUME Init PROVE SInv
  OBVIOUS
<1>1. CallInv /\ MutexInv
  BY DEF Init, CallInv, MutexInv
<1>2. HeldInv /\ BitInv /\ MarkInv
  BY DEF Init, HeldInv, BitInv, MarkInv, Maps
<1> QED BY InitInv, <1>1, <1>2 DEF SInv

(* The invariant of the serialised system is inductive.                    *)
LEMMA SNextInv == ASSUME Serialized PROVE SInv /\ [Next]_vars => SInv'
<1> SUFFICES ASSUME SInv, [Next]_vars PROVE SInv'
  OBVIOUS
<1> QED BY NextInv, CallInvStep, MutexInvStep, HeldInvStep, BitInvStep, MarkInvStep
        DEF SInv, IInv

-----------------------------------------------------------------------------
(* Whatever the calls and directories, a bitmap whose spinlock is free is  *)
(* the same on the disk as in memory: writing it under the lock is enough. *)
THEOREM BitmapOnDisk == Spec => []DiskMatches
<1>1. IInv => DiskMatches
  BY ProcsAssumption DEF IInv, DiskInv, DiskMatches, Writer
<1> QED BY InitInv, NextInv, <1>1, PTL DEF Spec

(* If one mutex covers every call that allocates, the unlocked search of   *)
(* ffs_get_empty_block and ffs_get_empty_fd is safe: it sets a clear bit,  *)
(* no block has two owners, and what a file has is marked on the disk.     *)
THEOREM SerializedAllocationIsSafe ==
  ASSUME Serialized
  PROVE  Spec => []NoDoubleAlloc /\ []HeldIsOnDisk
<1>1. SInv => NoDoubleAlloc /\ HeldIsOnDisk
  BY DEF SInv, HeldInv, NoDoubleAlloc, HeldIsOnDisk
<1> QED BY SInitInv, SNextInv, <1>1, PTL DEF Spec

(* When one mutex serialises the calls, the bit that the unlocked search   *)
(* of ffs_get_empty_fd and ffs_get_empty_block found clear is still clear  *)
(* when it is set.                                                         *)
THEOREM SerializedSearchFindsEmptyBit ==
  ASSUME Serialized
  PROVE  Spec => []SetsAnEmptyBit
<1>1. SInv => SetsAnEmptyBit
  BY DEF SInv, IInv, LockInv, BitInv, SetsAnEmptyBit
<1> QED BY SInitInv, SNextInv, <1>1, PTL DEF Spec

(* Under the same assumption the bitmaps never drift: whenever no call is  *)
(* under way, exactly the bits of files are marked, in memory and on disk, *)
(* whatever ffs_clear_fd and the searches did before.                      *)
THEOREM SerializedMarksAreRight ==
  ASSUME Serialized
  PROVE  Spec => []MarksAreRight
<1>1. SInv => MarksAreRight
  <2> SUFFICES ASSUME SInv PROVE MarksAreRight
    OBVIOUS
  <2>1. TypeOK /\ HeldIsOnDisk
    BY DEF SInv, IInv, HeldInv, HeldIsOnDisk
  <2>2. ASSUME \A p \in Procs : pc[p] = "idle", NEW m \in Maps
        PROVE  bm[m] = UNION {held[m][p] : p \in Procs}
    <3>1. \A i \in bm[m] : \E p \in Procs : i \in held[m][p]
      BY <2>2 DEF SInv, MarkInv, Bringing
    <3>2. \A p \in Procs : held[m][p] \subseteq bm[m]
      BY DEF SInv, HeldInv
    <3> QED BY <3>1, <3>2
  <2>3. NothingLost
    BY <2>2 DEF NothingLost
  <2> QED BY <2>1, <2>3 DEF MarksAreRight
<1> QED BY SInitInv, SNextInv, <1>1, PTL DEF Spec

=============================================================================
