--------------------------- MODULE VirtualMemory ---------------------------
(***************************************************************************)
(* The simulated virtual memory of virtual-memory/mem.py and mem2.py: the  *)
(* processes take turns; each quantum touches one page of one process,     *)
(* faulting it in and, when no frame is free, replacing another page.      *)
(* The two programs differ only in when they reset the flags.              *)
(*                                                                         *)
(* The flags of a page are the sets it is in: valid, dirty, access, io.    *)
(***************************************************************************)
EXTENDS Integers, Sequences

CONSTANTS
  FrameCount,    \* PHYSICAL_PAGE_COUNT
  Local,         \* the pages of a process: 1..PROCESS_PAGE_COUNT
  Increment,     \* PROCESSES_INCREMENT
  MaxProcs,      \* MAX_PROCESS_COUNT
  Tick,          \* TIMER_TICK
  Algorithm,     \* the choice_algorithm
  Variant,       \* which of the two programs
  MaxVpid,       \* bound: virtual pages ever requested
  None

ASSUME NoneAssumption == None \notin Nat
ASSUME NumbersAssumption ==
  /\ FrameCount \in Nat \ {0}
  /\ Increment \in Nat \ {0} /\ MaxProcs \in Nat /\ Tick \in Nat /\ MaxVpid \in Nat
ASSUME ChoiceAssumption ==
  /\ Algorithm \in {"random", "nru", "lru"} /\ Variant \in {"mem", "mem2"}

VARIABLES
  procs,         \* len(self.processes)
  pages, last,   \* PCB: pages[p][l], the global index; last_page
  live,          \* the keys of self.virtual_pages
  ppid, countdown,
  valid, dirty, access, io,   \* the pages with each flag
  empty,         \* self.empty_pages, a stack
  vpid,          \* self.vpid, the next index
  counter,       \* self.counter (mem2.py)
  turn, pc, cur  \* whose quantum it is, where it stands, on which page

flags == <<valid, dirty, access, io>>
vars  == <<procs, pages, last, live, ppid, countdown, flags, empty, vpid, counter,
           turn, pc, cur>>

Frames == 0 .. FrameCount - 1
Procs == 0 .. MaxProcs + Increment - 1
Vpid  == 0 .. MaxVpid - 1

(* Types, and where each step of a quantum stands.                         *)
TypeOK ==
  /\ procs \in 1 .. MaxProcs + Increment /\ turn \in 0 .. procs - 1
  /\ pages \in [Procs -> [Local -> Vpid \cup {None}]]
  /\ last \in [Procs -> Vpid \cup {None}]
  /\ live \subseteq Vpid /\ valid \subseteq Vpid
  /\ dirty \subseteq Vpid /\ access \subseteq Vpid /\ io \subseteq Vpid
  /\ ppid \in [Vpid -> Frames \cup {None}]
  /\ countdown \in [Vpid -> Int]
  /\ empty \in Seq(Frames)
  /\ vpid \in 0 .. MaxVpid /\ counter \in Nat
  /\ pc \in {"quant", "resident", "touch", "renew", "tick"}
  /\ cur \in Vpid \cup {None}
  /\ pc \in {"resident", "touch"} => cur # None

Init ==
  /\ procs = Increment /\ turn = 0
  /\ pages = [p \in Procs |-> [l \in Local |-> None]]
  /\ last = [p \in Procs |-> None]
  /\ live = {} /\ valid = {} /\ dirty = {} /\ access = {} /\ io = {}
  /\ ppid = [v \in Vpid |-> None] /\ countdown = [v \in Vpid |-> Tick]
  /\ empty = [i \in 1 .. FrameCount |-> i - 1]
  /\ vpid = 0 /\ counter = 0
  /\ pc = "quant" /\ cur = None

Mine(p) == {pages[p][l] : l \in Local} \ {None}

-----------------------------------------------------------------------------
(* PCB.quant                                                               *)

(* self.alive ran out: the process is renewed.                             *)
Stop ==
  /\ pc = "quant"
  /\ pc' = "renew"
  /\ UNCHANGED <<procs, pages, last, live, ppid, countdown, flags, empty, vpid,
                 counter, turn, cur>>

(* The last page again.  "and self.last_page" is false for page 0 too.     *)
TakeLast ==
  /\ pc = "quant" /\ last[turn] \notin {None, 0}
  /\ cur' = last[turn] /\ pc' = "resident"
  /\ UNCHANGED <<procs, pages, last, live, ppid, countdown, flags, empty, vpid,
                 counter, turn>>

TakeMine(l) ==
  /\ pc = "quant" /\ pages[turn][l] # None
  /\ cur' = pages[turn][l] /\ pc' = "resident"
  /\ UNCHANGED <<procs, pages, last, live, ppid, countdown, flags, empty, vpid,
                 counter, turn>>

(* VM.request_page                                                         *)
RequestPage(l, fs) ==
  /\ pc = "quant" /\ pages[turn][l] = None /\ vpid < MaxVpid
  /\ vpid' = vpid + 1
  /\ live' = live \cup {vpid}
  /\ ppid' = [ppid EXCEPT ![vpid] = None]
  /\ countdown' = [countdown EXCEPT ![vpid] = Tick]
  /\ io' = IF fs THEN io \cup {vpid} ELSE io
  /\ pages' = [pages EXCEPT ![turn][l] = vpid]
  /\ cur' = vpid /\ pc' = "resident"
  /\ UNCHANGED <<procs, last, valid, dirty, access, empty, counter, turn>>

-----------------------------------------------------------------------------
(* VM.make_resident                                                        *)

Hit ==
  /\ pc = "resident" /\ cur \in valid
  /\ pc' = "touch"
  /\ UNCHANGED <<procs, pages, last, live, ppid, countdown, flags, empty, vpid,
                 counter, turn, cur>>

(* page['flags'] as a number, and what each algorithm may choose.          *)
Weight(v) == (IF v \in io THEN 8 ELSE 0) + (IF v \in access THEN 4 ELSE 0)
             + (IF v \in dirty THEN 2 ELSE 0)
Victims ==
  CASE Algorithm = "random" -> valid
    [] Algorithm = "nru" -> {v \in valid : \A w \in valid : Weight(v) <= Weight(w)}
    [] Algorithm = "lru" -> {v \in valid : \A w \in valid : Weight(v) >= Weight(w)}

(* Mutant: the victim's frame is lost.                                   *)
ReplacePageLost(v) ==
  /\ pc = "resident" /\ cur \notin valid /\ empty = <<>>
  /\ v \in Victims
  /\ valid' = valid \ {v} /\ dirty' = dirty \ {v} /\ access' = access \ {v}
  /\ UNCHANGED <<procs, pages, last, live, ppid, countdown, io, empty, vpid, counter,
                 turn, pc, cur>>

(* Mutant: the victim keeps its flags.                                   *)
ReplacePageFlags(v) ==
  /\ pc = "resident" /\ cur \notin valid /\ empty = <<>>
  /\ v \in Victims
  /\ valid' = valid \ {v}
  /\ empty' = Append(empty, ppid[v])
  /\ UNCHANGED <<procs, pages, last, live, ppid, countdown, dirty, access, io, vpid,
                 counter, turn, pc, cur>>

(* VM.replace_page                                                         *)
ReplacePage(v) ==
  /\ pc = "resident" /\ cur \notin valid /\ empty = <<>>
  /\ v \in Victims
  /\ valid' = valid \ {v} /\ dirty' = dirty \ {v} /\ access' = access \ {v}
  /\ empty' = Append(empty, ppid[v])
  /\ UNCHANGED <<procs, pages, last, live, ppid, countdown, io, vpid, counter,
                 turn, pc, cur>>

(* The frame is popped from the end of empty_pages.                        *)
TakeFrame ==
  /\ pc = "resident" /\ cur \notin valid /\ empty # <<>>
  /\ ppid' = [ppid EXCEPT ![cur] = empty[Len(empty)]]
  /\ empty' = SubSeq(empty, 1, Len(empty) - 1)
  /\ valid' = valid \cup {cur}
  /\ access' = IF cur \in io THEN access \cup {cur} ELSE access \ {cur}
  /\ dirty' = dirty \ {cur}
  /\ countdown' = [countdown EXCEPT ![cur] = Tick]
  /\ pc' = "touch"
  /\ UNCHANGED <<procs, pages, last, live, io, vpid, counter, turn, cur>>

(* VM.access_page                                                          *)
Touch(write) ==
  /\ pc = "touch"
  /\ dirty' = IF write THEN dirty \cup {cur} ELSE dirty
  /\ access' = access \cup {cur}
  /\ last' = [last EXCEPT ![turn] = cur]
  /\ cur' = None /\ pc' = "tick"
  /\ UNCHANGED <<procs, pages, live, ppid, countdown, valid, io, empty, vpid,
                 counter, turn>>

-----------------------------------------------------------------------------
(* PCB.renew: every page of the process is killed, then it starts anew.    *)

(* Mutant: the frame is given back without looking at VALID_BIT.         *)
KillPageAny(l) ==
  /\ pc = "renew" /\ pages[turn][l] # None
  /\ LET v == pages[turn][l] IN
     /\ live' = live \ {v}
     /\ valid' = valid \ {v} /\ dirty' = dirty \ {v}
     /\ access' = access \ {v} /\ io' = io \ {v}
     /\ empty' = Append(empty, ppid[v])
  /\ pages' = [pages EXCEPT ![turn][l] = None]
  /\ UNCHANGED <<procs, last, ppid, countdown, vpid, counter, turn, pc, cur>>

KillPage(l) ==
  /\ pc = "renew" /\ pages[turn][l] # None
  /\ LET v == pages[turn][l] IN
     /\ live' = live \ {v}
     /\ valid' = valid \ {v} /\ dirty' = dirty \ {v}
     /\ access' = access \ {v} /\ io' = io \ {v}
     /\ empty' = IF v \in valid THEN Append(empty, ppid[v]) ELSE empty
  /\ pages' = [pages EXCEPT ![turn][l] = None]
  /\ UNCHANGED <<procs, last, ppid, countdown, vpid, counter, turn, pc, cur>>

(* Mutant: last_page survives the renewal.                               *)
RenewedStale ==
  /\ pc = "renew" /\ \A l \in Local : pages[turn][l] = None
  /\ pc' = "tick"
  /\ UNCHANGED <<procs, pages, last, live, ppid, countdown, flags, empty, vpid,
                 counter, turn, cur>>

Renewed ==
  /\ pc = "renew" /\ \A l \in Local : pages[turn][l] = None
  /\ last' = [last EXCEPT ![turn] = None]
  /\ pc' = "tick"
  /\ UNCHANGED <<procs, pages, live, ppid, countdown, flags, empty, vpid, counter,
                 turn, cur>>

-----------------------------------------------------------------------------
(* After each quantum VM.start resets flags, and the next process runs.    *)

(* reset_bits (mem.py): each resident page on a countdown of its own.      *)
ResetBits ==
  LET expired == {v \in valid : countdown[v] < 1} IN
  /\ access' = access \ expired /\ dirty' = dirty \ expired
  /\ countdown' = [v \in Vpid |-> IF v \in expired THEN Tick
                                  ELSE IF v \in valid THEN countdown[v] - 1
                                  ELSE countdown[v]]
  /\ UNCHANGED counter

(* reset_all_bits (mem2.py): of every valid page, every TIMER_TICK quanta. *)
ResetAllBits ==
  /\ IF counter + 1 >= Tick
     THEN counter' = 0 /\ access' = access \ valid /\ dirty' = dirty \ valid
     ELSE counter' = counter + 1 /\ UNCHANGED <<access, dirty>>
  /\ UNCHANGED countdown

EndQuantum ==
  /\ pc = "tick"
  /\ IF Variant = "mem" THEN ResetBits ELSE ResetAllBits
  /\ turn' = IF turn + 1 < procs THEN turn + 1 ELSE 0
  /\ pc' = "quant"
  /\ UNCHANGED <<procs, pages, last, live, ppid, valid, io, empty, vpid, cur>>

(* The outer loop of VM.start, at the end of a round of quanta.            *)
MoreProcesses ==
  /\ pc = "quant" /\ turn = 0 /\ procs < MaxProcs + 1
  /\ procs' = procs + Increment
  /\ UNCHANGED <<pages, last, live, ppid, countdown, flags, empty, vpid, counter,
                 turn, pc, cur>>

Next ==
  \/ Stop \/ TakeLast \/ Hit \/ TakeFrame \/ Renewed \/ EndQuantum \/ MoreProcesses
  \/ \E l \in Local : TakeMine(l) \/ KillPage(l)
  \/ \E l \in Local, fs \in BOOLEAN : RequestPage(l, fs)
  \/ \E v \in Vpid : ReplacePage(v)
  \/ \E write \in BOOLEAN : Touch(write)

Spec == Init /\ [][Next]_vars

(* The program is one thread that goes on with the quantum it is in.       *)
FairSpec == Spec /\ WF_vars(Next)

-----------------------------------------------------------------------------
(* Every frame is in empty_pages exactly once, or holds exactly one        *)
(* resident page: none is lost or handed out twice, through replacement,   *)
(* faults and the killing of processes (request_page to kill_page).        *)
FramesConserved ==
  /\ \A f \in Frames : \/ \E i \in DOMAIN empty : empty[i] = f
                       \/ \E v \in valid : ppid[v] = f
  /\ \A i, j \in DOMAIN empty : empty[i] = empty[j] => i = j
  /\ \A v \in valid : ppid[v] \in Frames
  /\ \A v, w \in valid : ppid[v] = ppid[w] => v = w
  /\ \A i \in DOMAIN empty, v \in valid : empty[i] # ppid[v]

(* Every virtual page belongs to one place of one process, and every page  *)
(* a process knows, its last one included, exists: no stale index is left  *)
(* behind by a replacement or by renew.                                    *)
PagesOwned ==
  /\ \A v \in live : \E p \in Procs, l \in Local : pages[p][l] = v
  /\ \A p, q \in Procs : \A l, m \in Local :
       pages[p][l] = pages[q][m] /\ pages[p][l] # None => p = q /\ l = m
  /\ \A p \in Procs : Mine(p) \subseteq live
  /\ \A p \in Procs : last[p] \in Mine(p) \cup {None} \/ (p = turn /\ pc = "renew")

(* Only resident pages have flags, only existing pages are resident, and   *)
(* the page a quantum touches is resident from its fault to its touch.     *)
FlagsOfResidentPages ==
  /\ dirty \cup access \subseteq valid /\ valid \subseteq live
  /\ pc = "touch" => cur \in valid

(* choice_algorithm always has a page to choose: lst[0] exists.            *)
VictimExists == pc = "resident" /\ cur \notin valid /\ empty = <<>> => Victims # {}

(* Every quantum ends: a fault finds a frame, renew runs out of pages.     *)
QuantumEnds == (pc \in {"resident", "touch", "renew"}) ~> (pc = "tick")
=============================================================================
