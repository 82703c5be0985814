----------------------------- MODULE FfsInodes -----------------------------
(***************************************************************************)
(* The list of inodes of fs/ffs.c: sbi->inodes, which create_entry extends *)
(* with hlist_add_head, ffs_unlink shortens with hlist_del and ffs_iget    *)
(* walks for ffs_lookup, all three without a lock of their own.  The VFS   *)
(* holds the mutex of one directory around each, and keeps what a lookup   *)
(* found as a dentry.                                                      *)
(*                                                                         *)
(* A step is one access to the list.  A file has one name, <<directory,    *)
(* number of its descriptor>>.  The inode of the root directory, to which  *)
(* no name leads, is left out.                                             *)
(*                                                                         *)
(* An inode is a piece of memory of ffs_inode_cachep.  One that the VFS    *)
(* has freed is handed out again, with its list_node as it was: also one   *)
(* that the VFS dropped and that is still in the list.                     *)
(***************************************************************************)
EXTENDS Integers, FiniteSets

CONSTANTS
  Procs,
  Dirs,       \* directories
  Changing,   \* those in which files are created, and removed if Removing
  Removing,   \* whether files are removed
  Shrinking,  \* whether the VFS drops dentries that nobody uses
  Mounted,    \* names there are when ffs_read_root makes the list
  Fd,         \* numbers of descriptors
  NInodes     \* bound: inodes there is memory for

ASSUME InodesAssumption ==
  /\ Fd \subseteq Nat \ {0} /\ Changing \subseteq Dirs
  /\ Mounted \subseteq Dirs \X Fd /\ NInodes \in Nat
  /\ \A a, b \in Mounted : a[2] = b[2] => a = b
  /\ \A a \in Mounted : a[2] \in 1 .. NInodes
  /\ Removing \in BOOLEAN /\ Shrinking \in BOOLEAN

Nil    == 0
Poison == -1                         \* LIST_POISON1, LIST_POISON2
Inode  == 1 .. NInodes
Head   == -3                         \* &sbi->inodes.first
Name   == Dirs \X Fd
None   == -2                         \* no dentry
Idle   == [pc |-> "idle"]

VARIABLES
  first, next, pprev,   \* sbi->inodes, and list_node of each inode
  ino,                  \* i_ino of each inode; 0 when not allocated
  freed,                \* inodes given back to the cache
  fds,                  \* fd_bitmask
  named,                \* the entries of the directories
  owner,                \* history: the inode behind each name
  dentry,               \* None, Nil (negative), or an inode
  pinned,               \* names whose dentry create_entry took with dget
  pr,                   \* what each process does
  oops,                 \* a process followed a pointer that leads nowhere
  relisted              \* history: a create was given an inode of the list

list == <<first, next, pprev>>
fs   == <<ino, freed, fds, named, owner, dentry, pinned, relisted>>
vars == <<list, fs, pr, oops>>

Link  == Inode \cup {Nil, Poison}
PPrev == Inode \cup {Head, Nil, Poison}      \* an inode stands for its next
TypeOK ==
  /\ first \in Link /\ next \in [Inode -> Link] /\ pprev \in [Inode -> PPrev]
  /\ ino \in [Inode -> Fd \cup {0}] /\ freed \subseteq Inode
  /\ fds \subseteq Fd /\ named \subseteq Name /\ pinned \subseteq Name
  /\ owner \in [Name -> Inode \cup {Nil}]
  /\ dentry \in [Name -> Inode \cup {Nil, None}]
  /\ pr \in [Procs -> {Idle} \cup [pc : {"add1", "add2", "add3", "add4", "enter",
       "clear", "del1", "del2", "del3", "gone", "walk"}, name : Name, at : Link]]
  /\ oops \in BOOLEAN /\ relisted \in BOOLEAN

-----------------------------------------------------------------------------
Busy(d) == \E p \in Procs : pr[p] # Idle /\ pr[p].name[1] = d     \* its i_mutex
Begin(p, name, pc, at) ==
  /\ ~ oops /\ pr[p] = Idle /\ ~ Busy(name[1])
  /\ pr' = [pr EXCEPT ![p] = [pc |-> pc, name |-> name, at |-> at]]
At(p, pc) == ~ oops /\ pr[p] # Idle /\ pr[p].pc = pc
Go(p, pc) == pr' = [pr EXCEPT ![p].pc = pc]
End(p)    == pr' = [pr EXCEPT ![p] = Idle]
Good(i)   == i \in Inode \ freed
Oops      == oops' = TRUE /\ UNCHANGED <<list, fs, pr>>

(* *q := v, where q is Head or an inode, for the address of its next.      *)
Store(q, v) ==
  IF q = Head THEN first' = v /\ UNCHANGED next
  ELSE next' = [next EXCEPT ![q] = v] /\ UNCHANGED first

-----------------------------------------------------------------------------
(* Following next from the head: what a walk of the list would pass.       *)
Closed(C) == ({first} \cup {next[i] : i \in C}) \cap Inode \subseteq C
Reach     == {i \in Inode : \A C \in SUBSET Inode : Closed(C) => i \in C}

(* What new_inode may hand out: memory that was freed, and memory not used *)
(* yet, of which one piece is as good as another.                          *)
Unused == {i \in Inode : ino[i] = 0}
Spare  == freed \cup {i \in Unused : \A k \in Unused : i <= k}

(* create_entry: a number and an inode.                                    *)
Create(p, name) ==
  /\ name[1] \in Changing /\ name[2] \notin fds
  /\ fds' = fds \cup {name[2]}
  /\ \E i \in Spare :
       /\ Begin(p, name, "add1", i)
       /\ ino' = [ino EXCEPT ![i] = name[2]] /\ freed' = freed \ {i}
       /\ relisted' = (relisted \/ i \in Reach)
  /\ UNCHANGED <<list, named, owner, dentry, pinned, oops>>

(* Mutant: the new inode does not point to the others.                     *)
Add1Forgotten(p) == At(p, "add1") /\ Go(p, "add2") /\ UNCHANGED <<list, fs, oops>>
(* hlist_add_head: n->next = first; first->pprev = &n->next;               *)
(* h->first = n; n->pprev = &h->first.                                     *)
Add1(p) ==
  /\ At(p, "add1") /\ Go(p, "add2")
  /\ next' = [next EXCEPT ![pr[p].at] = first]
  /\ UNCHANGED <<first, pprev, fs, oops>>
Add2(p) ==
  /\ At(p, "add2")
  /\ LET old == next[pr[p].at]
     IN  IF old # Nil /\ ~ Good(old) THEN Oops
         ELSE /\ pprev' = IF old = Nil THEN pprev ELSE [pprev EXCEPT ![old] = pr[p].at]
              /\ Go(p, "add3") /\ UNCHANGED <<first, next, fs, oops>>
Add3(p) ==
  /\ At(p, "add3") /\ Go(p, "add4")
  /\ first' = pr[p].at /\ UNCHANGED <<next, pprev, fs, oops>>
Add4(p) ==
  /\ At(p, "add4") /\ Go(p, "enter")
  /\ pprev' = [pprev EXCEPT ![pr[p].at] = Head] /\ UNCHANGED <<first, next, fs, oops>>

(* d_instantiate, dget, and add_to_dir.                                    *)
Enter(p) ==
  /\ At(p, "enter") /\ End(p)
  /\ named' = named \cup {pr[p].name} /\ pinned' = pinned \cup {pr[p].name}
  /\ owner' = [owner EXCEPT ![pr[p].name] = pr[p].at]
  /\ dentry' = [dentry EXCEPT ![pr[p].name] = pr[p].at]
  /\ UNCHANGED <<list, ino, freed, fds, oops, relisted>>

-----------------------------------------------------------------------------
(* ffs_unlink: remove_from_dir, then ffs_clear_fd, which frees the number. *)
Unlink(p, name) ==
  /\ Removing /\ name[1] \in Changing /\ name \in named /\ dentry[name] \in Inode
  /\ Begin(p, name, "clear", dentry[name])
  /\ named' = named \ {name}
  /\ UNCHANGED <<list, ino, freed, fds, owner, dentry, pinned, oops, relisted>>
ClearFd(p) ==
  /\ At(p, "clear") /\ Go(p, "del1")
  /\ fds' = fds \ {pr[p].name[2]}
  /\ UNCHANGED <<list, ino, freed, named, owner, dentry, pinned, oops, relisted>>

(* hlist_del: *pprev = next; next->pprev = pprev; both poisoned.           *)
Del1(p) ==
  /\ At(p, "del1")
  /\ LET q == pprev[pr[p].at]
     IN  IF q # Head /\ ~ Good(q) THEN Oops
         ELSE Store(q, next[pr[p].at]) /\ Go(p, "del2") /\ UNCHANGED <<pprev, fs, oops>>
(* Mutant: the one behind keeps its way back.                              *)
Del2Forgotten(p) == At(p, "del2") /\ Go(p, "del3") /\ UNCHANGED <<list, fs, oops>>
Del2(p) ==
  /\ At(p, "del2")
  /\ LET n == next[pr[p].at]
     IN  IF n # Nil /\ ~ Good(n) THEN Oops
         ELSE /\ pprev' = IF n = Nil THEN pprev ELSE [pprev EXCEPT ![n] = pprev[pr[p].at]]
              /\ Go(p, "del3") /\ UNCHANGED <<first, next, fs, oops>>
Del3(p) ==
  /\ At(p, "del3") /\ Go(p, "gone")
  /\ next' = [next EXCEPT ![pr[p].at] = Poison]
  /\ pprev' = [pprev EXCEPT ![pr[p].at] = Poison]
  /\ UNCHANGED <<first, fs, oops>>

(* The VFS drops the dentry, and with it the inode, unless dget holds it.  *)
Gone(p) ==
  LET name == pr[p].name
  IN
  /\ At(p, "gone") /\ End(p)
  /\ freed' = IF name \in pinned THEN freed ELSE freed \cup {pr[p].at}
  /\ dentry' = [dentry EXCEPT ![name] = None] /\ pinned' = pinned \ {name}
  /\ UNCHANGED <<list, ino, fds, named, owner, oops, relisted>>

-----------------------------------------------------------------------------
(* ffs_lookup of a name that is there and has no dentry: ffs_iget.         *)
Lookup(p, name) ==
  /\ name \in named /\ dentry[name] = None
  /\ Begin(p, name, "walk", first) /\ UNCHANGED <<list, fs, oops>>
(* Mutant: the last inode of the list is not looked at.                    *)
WalkShort(p) ==
  LET i == pr[p].at
      Found(j) == /\ dentry' = [dentry EXCEPT ![pr[p].name] = j] /\ End(p)
                  /\ UNCHANGED <<list, ino, freed, fds, named, owner, pinned, oops, relisted>>
  IN
  /\ At(p, "walk")
  /\ IF i = Nil \/ next[i] = Nil THEN Found(Nil)
     ELSE IF ~ Good(i) THEN Oops
     ELSE IF ino[i] = pr[p].name[2] THEN Found(i)
     ELSE pr' = [pr EXCEPT ![p].at = next[i]] /\ UNCHANGED <<list, fs, oops>>
(* Mutant: the loop starts over.                                           *)
WalkAgain(p) ==
  LET i == pr[p].at
      Found(j) == /\ dentry' = [dentry EXCEPT ![pr[p].name] = j] /\ End(p)
                  /\ UNCHANGED <<list, ino, freed, fds, named, owner, pinned, oops, relisted>>
  IN
  /\ At(p, "walk")
  /\ IF i = Nil THEN Found(Nil)
     ELSE IF ~ Good(i) THEN Oops
     ELSE IF ino[i] = pr[p].name[2] THEN Found(i)
     ELSE pr' = [pr EXCEPT ![p].at = first] /\ UNCHANGED <<list, fs, oops>>
(* Its loop, and the dentry that ffs_lookup adds: negative if none fits.   *)
Walk(p) ==
  LET i == pr[p].at
      Found(j) == /\ dentry' = [dentry EXCEPT ![pr[p].name] = j] /\ End(p)
                  /\ UNCHANGED <<list, ino, freed, fds, named, owner, pinned, oops, relisted>>
  IN
  /\ At(p, "walk")
  /\ IF i = Nil THEN Found(Nil)
     ELSE IF ~ Good(i) THEN Oops
     ELSE IF ino[i] = pr[p].name[2] THEN Found(i)
     ELSE pr' = [pr EXCEPT ![p].at = next[i]] /\ UNCHANGED <<list, fs, oops>>

(* The VFS drops a dentry. It held the only reference to the inode:        *)
(* ffs_iget takes none.                                                    *)
Shrink(name) ==
  /\ Shrinking /\ ~ oops /\ ~ Busy(name[1])
  /\ dentry[name] # None /\ name \notin pinned
  /\ dentry' = [dentry EXCEPT ![name] = None]
  /\ freed' = freed \cup ({dentry[name]} \cap Inode)
  /\ UNCHANGED <<list, ino, fds, named, owner, pinned, pr, oops, relisted>>

-----------------------------------------------------------------------------
(* ffs_read_root: inodes in the order of their numbers, the last first.    *)
Init ==
  LET there == {a[2] : a \in Mounted}
      Largest(s) == IF s = {} THEN Nil ELSE CHOOSE n \in s : \A k \in s : k <= n
      Above(n) == {k \in there : k > n}
  IN
  /\ first = Largest(there)
  /\ next = [i \in Inode |-> IF i \in there THEN Largest({k \in there : k < i}) ELSE Nil]
  /\ pprev = [i \in Inode |->
       IF i \notin there THEN Nil
       ELSE IF Above(i) = {} THEN Head ELSE CHOOSE n \in Above(i) : \A k \in Above(i) : n <= k]
  /\ ino = [i \in Inode |-> IF i \in there THEN i ELSE 0]
  /\ freed = {} /\ fds = there /\ named = Mounted /\ pinned = {}
  /\ owner = [n \in Name |-> IF n \in Mounted THEN n[2] ELSE Nil]
  /\ dentry = [n \in Name |-> None]
  /\ pr = [p \in Procs |-> Idle] /\ oops = FALSE /\ relisted = FALSE

Step(p) ==
  \/ Add1(p) \/ Add2(p) \/ Add3(p) \/ Add4(p) \/ Enter(p)
  \/ ClearFd(p) \/ Del1(p) \/ Del2(p) \/ Del3(p) \/ Gone(p)
  \/ Walk(p)
Next ==
  \/ \E p \in Procs :
       Step(p) \/ \E name \in Name : Create(p, name) \/ Unlink(p, name) \/ Lookup(p, name)
  \/ \E name \in Name : Shrink(name)

Spec == Init /\ [][Next]_vars
FairSpec == Spec /\ \A p \in Procs : WF_vars(Step(p))
-----------------------------------------------------------------------------
(* The properties are about the list as long as no create was given an     *)
(* inode that is in it: adding that one again bends the list into a circle *)
(* and cuts off what was behind.                                           *)

(* ffs.c:58, "add inode to dentry": what a lookup leaves for a name is the *)
(* inode of its file, also when the number of the file has just been that  *)
(* of another, its memory that of another inode, or files come and go      *)
(* while the lookup walks.                                                 *)
NamesResolve ==
  ~ oops /\ ~ relisted => \A name \in named : dentry[name] \in {None, owner[name]}

(* Between the calls the list holds the inode of every file, once and in   *)
(* both directions, and no other.                                          *)
ListComplete ==
  (\A p \in Procs : pr[p] = Idle) /\ ~ oops /\ ~ relisted =>
    /\ Reach = {owner[name] : name \in named}
    /\ \A i \in Reach : IF pprev[i] = Head THEN first = i
                        ELSE pprev[i] \in Reach /\ next[pprev[i]] = i

(* The types of the state, and the list between the calls.                 *)
ListSound == TypeOK /\ ListComplete

(* A lookup that stands on an inode of the list keeps its place, whatever  *)
(* other directories' creates and removals do meanwhile, until it has      *)
(* found its file: only the removal of that very inode takes the place     *)
(* away.  And a pointer into nowhere is met only by a lookup that has lost *)
(* its place so, or where the VFS has dropped an inode that is still in    *)
(* the list.                                                               *)
Walks(p)  == pr[p] # Idle /\ pr[p].pc = "walk"
OnList(p) == Walks(p) /\ pr[p].at \in Reach
Unlisted(i) ==
  \E q \in Procs : pr[q] # Idle /\ pr[q].pc = "del1" /\ pr[q].at = i /\ pr'[q] # pr[q]
KeepsPlace ==
  /\ \A p \in Procs : OnList(p) => OnList(p)' \/ pr'[p] = Idle \/ Unlisted(pr[p].at)
  /\ oops' /\ ~ oops => \/ \E p \in Procs : Walks(p) /\ ~ OnList(p)
                        \/ Reach \cap freed # {}
PlaceKept == [][~ relisted' => KeepsPlace]_vars

(* Every call returns: no walk runs in a circle.                           *)
CallsReturn == \A p \in Procs : pr[p] # Idle ~> pr[p] = Idle \/ oops \/ relisted
=============================================================================
