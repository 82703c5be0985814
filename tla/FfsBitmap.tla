----------------------------- MODULE FfsBitmap -----------------------------
(***************************************************************************)
(* The two bitmaps of ffs.c under concurrent system calls:                 *)
(* ffs_get_empty_fd and ffs_get_empty_block look for a clear bit without a *)
(* lock and set it under bitmap_fd_lock or bitmap_b_lock; ffs_clear_fd     *)
(* holds both; every change copies the bitmap to its buffer and waits for  *)
(* the disk with the spinlock held.                                        *)
(*                                                                         *)
(* The VFS holds the mutex of the parent directory around create and       *)
(* unlink, and none around write.  A process that waits for the disk gives *)
(* its CPU away; one that spins on a lock keeps it.                        *)
(***************************************************************************)
EXTENDS Integers, FiniteSets

CONSTANTS
  Procs, Nobody,
  Dirs, Home,    \* Home[p]: the directory in which process p works
  Calls,         \* the calls the processes make
  NBits, NFds,   \* sbi->block_count, sbi->max_file_count
  Cpus,          \* processors of the machine
  MaxBlocks      \* bound: blocks of one file

ASSUME ProcsAssumption == Nobody \notin Procs /\ Home \in [Procs -> Dirs]
ASSUME BitsAssumption  == NBits \in Nat /\ NFds \in Nat /\ Cpus \in Nat \ {0}
                            /\ MaxBlocks \in Nat
ASSUME CallsAssumption == Calls \subseteq {"create", "write", "unlink"}

VARIABLES
  bm, buf, disk, \* each bitmap in memory, in its buffer, on the disk
  lock,          \* who holds bitmap_fd_lock and bitmap_b_lock
  mutex,         \* who holds the i_mutex of each directory
  pc, call,      \* where each process stands, and in which call
  map, bit,      \* the bitmap it is at, and its loop index
  held,          \* held[m][p]: the bits that the file of process p has
  cpu            \* the processes on a CPU

vars == <<bm, buf, disk, lock, mutex, pc, call, map, bit, held, cpu>>

Maps == {"fd", "b"}
Size(m) == IF m = "fd" THEN NFds ELSE NBits
Pcs  == {"idle", "enter", "scan", "lock", "set", "reset", "copy", "io",
         "unlock", "leave", "oops"}

TypeOK ==
  /\ bm \in [Maps -> SUBSET Nat] /\ buf \in [Maps -> SUBSET Nat]
  /\ disk \in [Maps -> SUBSET Nat]
  /\ lock \in [Maps -> Procs \cup {Nobody}]
  /\ mutex \in [Dirs -> Procs \cup {Nobody}]
  /\ pc \in [Procs -> Pcs] /\ call \in [Procs -> Calls \cup {"none"}]
  /\ map \in [Procs -> Maps] /\ bit \in [Procs -> Nat]
  /\ held \in [Maps -> [Procs -> SUBSET Nat]]
  /\ cpu \subseteq Procs

Init ==
  /\ bm = [m \in Maps |-> {}] /\ buf = bm /\ disk = bm
  /\ lock = [m \in Maps |-> Nobody]
  /\ mutex = [d \in Dirs |-> Nobody]
  /\ pc = [p \in Procs |-> "idle"] /\ call = [p \in Procs |-> "none"]
  /\ map = [p \in Procs |-> "fd"] /\ bit = [p \in Procs |-> 0]
  /\ held = [m \in Maps |-> [p \in Procs |-> {}]]
  /\ cpu = {}

At(p, label)   == pc[p] = label /\ p \in cpu
Goto(p, label) == pc' = [pc EXCEPT ![p] = label]
FreeCpu        == Cardinality(cpu) < Cpus

-----------------------------------------------------------------------------
(* The VFS around ffs.c: a process without a file creates one, a process   *)
(* with one appends to it or unlinks it.                                   *)
Call(p, c) ==
  /\ pc[p] = "idle"
  /\ c = "create" <=> held["fd"][p] = {}
  /\ c = "write" => Cardinality(held["b"][p]) < MaxBlocks
  /\ call' = [call EXCEPT ![p] = c]
  /\ Goto(p, "enter")
  /\ UNCHANGED <<bm, buf, disk, lock, mutex, map, bit, held, cpu>>

Enter(p) ==
  /\ pc[p] = "enter" /\ FreeCpu
  /\ IF call[p] = "write" THEN UNCHANGED mutex
     ELSE mutex[Home[p]] = Nobody /\ mutex' = [mutex EXCEPT ![Home[p]] = p]
  /\ cpu' = cpu \cup {p}
  /\ map' = [map EXCEPT ![p] = IF call[p] = "write" THEN "b" ELSE "fd"]
  /\ bit' = [bit EXCEPT ![p] = 0]
  /\ Goto(p, IF call[p] = "unlink" THEN "lock" ELSE "scan")
  /\ UNCHANGED <<bm, buf, disk, lock, call, held>>

Leave(p) ==
  /\ At(p, "leave")
  /\ mutex' = [d \in Dirs |-> IF mutex[d] = p THEN Nobody ELSE mutex[d]]
  /\ cpu' = cpu \ {p}
  /\ call' = [call EXCEPT ![p] = "none"]
  /\ Goto(p, "idle")
  /\ UNCHANGED <<bm, buf, disk, lock, map, bit, held>>

-----------------------------------------------------------------------------
(* Mutant: the number the search returns, one above the bit, is set.       *)
ScanOneAbove(p) ==
  /\ At(p, "scan") /\ bit[p] < Size(map[p])
  /\ bit' = [bit EXCEPT ![p] = @ + 1]
  /\ IF bit[p] \in bm[map[p]] THEN UNCHANGED pc ELSE Goto(p, "lock")
  /\ UNCHANGED <<bm, buf, disk, lock, mutex, call, map, held, cpu>>

(* The loop of ffs_get_empty_fd and ffs_get_empty_block: CHECK_BIT, with   *)
(* no lock.  No clear bit: create fails without a descriptor, and the      *)
(* thread dies without a block.                                            *)
Scan(p) ==
  /\ At(p, "scan")
  /\ \/ /\ bit[p] < Size(map[p]) /\ bit[p] \in bm[map[p]]
        /\ bit' = [bit EXCEPT ![p] = @ + 1]
        /\ UNCHANGED <<pc, cpu>>
     \/ /\ bit[p] < Size(map[p]) /\ bit[p] \notin bm[map[p]]
        /\ Goto(p, "lock")
        /\ UNCHANGED <<bit, cpu>>
     \/ /\ bit[p] >= Size(map[p]) /\ map[p] = "fd"
        /\ Goto(p, "leave")
        /\ UNCHANGED <<bit, cpu>>
     \/ /\ bit[p] >= Size(map[p]) /\ map[p] = "b"
        /\ Goto(p, "oops")
        /\ cpu' = cpu \ {p}
        /\ UNCHANGED bit
  /\ UNCHANGED <<bm, buf, disk, lock, mutex, call, map, held>>

(* spin_lock.  ffs_clear_fd takes bitmap_fd_lock, then bitmap_b_lock.      *)
Lock(p) ==
  /\ At(p, "lock") /\ lock[map[p]] = Nobody
  /\ lock' = [lock EXCEPT ![map[p]] = p]
  /\ \/ /\ call[p] # "unlink"
        /\ Goto(p, "set")
        /\ UNCHANGED map
     \/ /\ call[p] = "unlink" /\ map[p] = "fd"
        /\ map' = [map EXCEPT ![p] = "b"]
        /\ UNCHANGED pc
     \/ /\ call[p] = "unlink" /\ map[p] = "b"
        /\ Goto(p, "reset")
        /\ UNCHANGED map
  /\ UNCHANGED <<bm, buf, disk, mutex, call, bit, held, cpu>>

(* Mutant: no bit is set.                                                *)
SetForgotten(p) ==
  /\ At(p, "set")
  /\ Goto(p, "copy")
  /\ UNCHANGED <<bm, buf, disk, lock, mutex, call, map, bit, held, cpu>>

(* SET_BIT                                                                 *)
Set(p) ==
  /\ At(p, "set")
  /\ bm' = [bm EXCEPT ![map[p]] = @ \cup {bit[p]}]
  /\ Goto(p, "copy")
  /\ UNCHANGED <<buf, disk, lock, mutex, call, map, bit, held, cpu>>

(* Mutant: the descriptor's bit stays.                                   *)
ResetBlocksOnly(p) ==
  /\ At(p, "reset")
  /\ LET m == IF held["b"][p] # {} THEN "b" ELSE "fd" IN
     \E i \in held[m][p] :
       /\ bm' = IF m = "b" THEN [bm EXCEPT ![m] = @ \ {i}] ELSE bm
       /\ held' = [held EXCEPT ![m][p] = @ \ {i}]
       /\ map' = [map EXCEPT ![p] = m]
  /\ Goto(p, "copy")
  /\ UNCHANGED <<buf, disk, lock, mutex, call, bit, cpu>>

(* RESET_BIT in ffs_clear_fd: the blocks one by one, the descriptor last.  *)
Reset(p) ==
  /\ At(p, "reset")
  /\ LET m == IF held["b"][p] # {} THEN "b" ELSE "fd" IN
     \E i \in held[m][p] :
       /\ bm' = [bm EXCEPT ![m] = @ \ {i}]
       /\ held' = [held EXCEPT ![m][p] = @ \ {i}]
       /\ map' = [map EXCEPT ![p] = m]
  /\ Goto(p, "copy")
  /\ UNCHANGED <<buf, disk, lock, mutex, call, bit, cpu>>

(* Mutant: the lock is released before the write.                        *)
CopyUnlocked(p) ==
  /\ At(p, "copy")
  /\ buf' = [buf EXCEPT ![map[p]] = bm[map[p]]]
  /\ lock' = [lock EXCEPT ![map[p]] = Nobody]
  /\ cpu' = cpu \ {p}
  /\ Goto(p, "io")
  /\ UNCHANGED <<bm, disk, mutex, call, map, bit, held>>

(* ffs_write_b_bitmask, ffs_write_fd_bitmask: the bitmap is copied to its  *)
(* buffer, and the caller sleeps until the buffer is on the disk.          *)
Copy(p) ==
  /\ At(p, "copy")
  /\ buf' = [buf EXCEPT ![map[p]] = bm[map[p]]]
  /\ cpu' = cpu \ {p}
  /\ Goto(p, "io")
  /\ UNCHANGED <<bm, disk, lock, mutex, call, map, bit, held>>

IoDone(p) ==
  /\ pc[p] = "io" /\ FreeCpu
  /\ disk' = [disk EXCEPT ![map[p]] = buf[map[p]]]
  /\ cpu' = cpu \cup {p}
  /\ Goto(p, IF call[p] = "unlink" /\ map[p] = "b" THEN "reset" ELSE "unlock")
  /\ UNCHANGED <<bm, buf, lock, mutex, call, map, bit, held>>

(* Mutant: ffs_clear_fd keeps bitmap_b_lock.                             *)
UnlockOnce(p) ==
  /\ At(p, "unlock")
  /\ lock' = [lock EXCEPT ![map[p]] = Nobody]
  /\ IF call[p] # "unlink"
     THEN held' = [held EXCEPT ![map[p]][p] = @ \cup {bit[p]}]
     ELSE UNCHANGED held
  /\ bit' = [bit EXCEPT ![p] = 0]
  /\ IF map[p] = "fd" /\ call[p] # "unlink"
     THEN map' = [map EXCEPT ![p] = "b"] /\ Goto(p, "scan")
     ELSE Goto(p, "leave") /\ UNCHANGED map
  /\ UNCHANGED <<bm, buf, disk, mutex, call, cpu>>

(* spin_unlock; the caller of the search now has the bit.                  *)
Unlock(p) ==
  /\ At(p, "unlock")
  /\ lock' = [lock EXCEPT ![map[p]] = Nobody]
  /\ IF call[p] # "unlink"
     THEN held' = [held EXCEPT ![map[p]][p] = @ \cup {bit[p]}]
     ELSE UNCHANGED held
  /\ bit' = [bit EXCEPT ![p] = 0]
  /\ IF map[p] = "fd"
     THEN /\ map' = [map EXCEPT ![p] = "b"]
          /\ Goto(p, IF call[p] = "unlink" THEN "unlock" ELSE "scan")
     ELSE /\ Goto(p, "leave")
          /\ UNCHANGED map
  /\ UNCHANGED <<bm, buf, disk, mutex, call, cpu>>

-----------------------------------------------------------------------------
Run(p) == \/ Scan(p) \/ Set(p) \/ Reset(p) \/ Copy(p) \/ Unlock(p) \/ Leave(p)
Wait(p) == Enter(p) \/ Lock(p) \/ IoDone(p)

Next == \E p \in Procs : (\E c \in Calls : Call(p, c)) \/ Run(p) \/ Wait(p)

Spec == Init /\ [][Next]_vars

(* A process on a CPU runs; the spinlocks are ticket locks, the mutexes    *)
(* queue their waiters and the scheduler serves every runnable process, so *)
(* none is passed over for ever.                                           *)
FairSpec ==
  /\ Spec
  /\ \A p \in Procs : /\ WF_vars(Run(p))
                      /\ SF_vars(Enter(p)) /\ SF_vars(Lock(p)) /\ SF_vars(IoDone(p))

-----------------------------------------------------------------------------
(* ffs.c:151 and ffs.c:187, "find empty block [fd] and set bit in bitmask":*)
(* the bit that is about to be set is still clear.                         *)
SetsAnEmptyBit == \A p \in Procs : pc[p] = "set" => bit[p] \notin bm[map[p]]

(* No block and no descriptor belongs to two files.                        *)
NoDoubleAlloc ==
  \A m \in Maps : \A p, q \in Procs : p # q => held[m][p] \cap held[m][q] = {}

(* A bitmap whose lock is free is the same in memory and on the disk: no   *)
(* write of the bitmap overtakes another.                                  *)
DiskMatches == \A m \in Maps : lock[m] = Nobody => disk[m] = bm[m]

(* What a file has is marked on the disk before the search returns it, and *)
(* stays marked, whoever else writes the same bitmap block meanwhile.      *)
HeldIsOnDisk == \A m \in Maps : \A p \in Procs : held[m][p] \subseteq disk[m]

(* When no call is under way, the marks are those of the files.            *)
NothingLost ==
  (\A p \in Procs : pc[p] = "idle") =>
    \A m \in Maps : bm[m] = UNION {held[m][p] : p \in Procs}

(* What is marked is what files have, in memory and on the disk.           *)
MarksAreRight == TypeOK /\ HeldIsOnDisk /\ NothingLost

(* What the system can never leave: a thread that died without a block, or *)
(* every CPU spinning on a lock whose holder sleeps in its disk write and  *)
(* finds no CPU to wake up on.                                             *)
Spinning == /\ ~ FreeCpu
            /\ \A q \in cpu :
                 /\ pc[q] = "lock" /\ lock[map[q]] # Nobody
                 /\ lock[map[q]] \in cpu \/ pc[lock[map[q]]] = "io"
Stopped  == Spinning \/ \E p \in Procs : pc[p] = "oops"

(* The system stops for these two reasons only.                            *)
StopsOnlyBySpinning == ENABLED Next \/ Stopped
=============================================================================
