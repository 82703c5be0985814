------------------------- MODULE VirtualMemoryProofs ------------------------
(***************************************************************************)
(* The frames and pages of VirtualMemory, for any number of frames,        *)
(* processes and pages, both programs and all three choice algorithms.     *)
(***************************************************************************)
EXTENDS VirtualMemory, TLAPS

(* What the four properties need to be inductive: self.vpid is above every *)
(* page it ever gave out, and a quantum works on a page of its process.    *)
Fresh == \A v \in live : v < vpid
OwnPage == pc \in {"resident", "touch"} => cur \in Mine(turn)
IInv == TypeOK /\ FramesConserved /\ PagesOwned /\ FlagsOfResidentPages
        /\ Fresh /\ OwnPage

(* VM.__init__ establishes the invariant: all frames free, no page.        *)
LEMMA InitIInv == Init => IInv
<1> SUFFICES ASSUME Init PROVE IInv
  OBVIOUS
<1> USE NoneAssumption, NumbersAssumption
<1>1. TypeOK
  BY DEF Init, TypeOK, Frames, Procs, Vpid
<1>2. FramesConserved
  <2>1. DOMAIN empty = 1 .. FrameCount /\ \A i \in 1 .. FrameCount : empty[i] = i - 1
    BY DEF Init
  <2>2. \A f \in Frames : f + 1 \in DOMAIN empty /\ empty[f + 1] = f
    BY <2>1 DEF Frames
  <2>3. \A f \in Frames : \E i \in DOMAIN empty : empty[i] = f
    BY <2>2
  <2>4. \A i, j \in DOMAIN empty : empty[i] = empty[j] => i = j
    BY <2>1
  <2> QED BY <2>3, <2>4 DEF FramesConserved, Init
<1>3. PagesOwned
  BY DEF Init, PagesOwned, Mine, Procs
<1>4. FlagsOfResidentPages /\ Fresh /\ OwnPage
  BY DEF Init, FlagsOfResidentPages, Fresh, OwnPage
<1> QED BY <1>1, <1>2, <1>3, <1>4 DEF IInv

(* The victim of a replacement is resident.                                *)
LEMMA VictimsAreValid == Victims \subseteq valid
BY ChoiceAssumption DEF Victims

(* Every step of a quantum, a fault or a renewal keeps the types.          *)
LEMMA TypeStep == IInv /\ [Next]_vars => TypeOK'
<1> SUFFICES ASSUME IInv, [Next]_vars PROVE TypeOK'
  OBVIOUS
<1> USE NoneAssumption, NumbersAssumption
<1> USE DEF IInv, TypeOK, Frames, Procs, Vpid, flags
<1>1. CASE Stop BY <1>1 DEF Stop
<1>0. turn \in Procs /\ last[turn] \in Vpid \cup {None}
      /\ \A l \in Local : pages[turn][l] \in Vpid \cup {None}
  OBVIOUS
<1>2. CASE TakeLast
  <2>1. cur' \in Vpid /\ cur' # None BY <1>0, <1>2 DEF TakeLast
  <2> QED BY <1>2, <2>1 DEF TakeLast
<1>3. CASE Hit BY <1>3 DEF Hit
<1>4. CASE TakeFrame
  <2>1. cur \in Vpid /\ empty \in Seq(Frames) /\ empty # <<>>
    BY <1>4 DEF TakeFrame
  <2>2. empty[Len(empty)] \in Frames
    BY <2>1 DEF Frames
  <2>3. SubSeq(empty, 1, Len(empty) - 1) \in Seq(Frames)
    BY <2>1 DEF Frames
  <2>4. ppid' \in [Vpid -> Frames \cup {None}]
    BY <1>4, <2>1, <2>2 DEF TakeFrame
  <2>5. countdown' \in [Vpid -> Int]
    BY <1>4, <2>1 DEF TakeFrame
  <2>6. empty' \in Seq(Frames)
    BY <1>4, <2>3 DEF TakeFrame
  <2> QED BY <1>4, <2>1, <2>4, <2>5, <2>6 DEF TakeFrame
<1>5. CASE Renewed BY <1>5 DEF Renewed
<1>6. CASE EndQuantum
  <2>1. turn' \in 0 .. procs' - 1 /\ pc' = "quant"
        /\ UNCHANGED <<procs, pages, last, live, ppid, valid, io, empty, vpid, cur>>
    BY <1>6 DEF EndQuantum
  <2>2. countdown' \in [Vpid -> Int] /\ counter' \in Nat
        /\ dirty' \subseteq dirty /\ access' \subseteq access
    <3>1. CASE Variant = "mem"
      <4>1. ResetBits BY <1>6, <3>1 DEF EndQuantum
      <4>2. \A v \in Vpid : countdown[v] - 1 \in Int /\ countdown[v] \in Int
        OBVIOUS
      <4>3. countdown' \in [Vpid -> Int]
        BY <4>1, <4>2 DEF ResetBits
      <4> QED BY <4>1, <4>3 DEF ResetBits
    <3>2. CASE Variant # "mem"
      <4>1. ResetAllBits BY <1>6, <3>2 DEF EndQuantum
      <4> QED BY <4>1 DEF ResetAllBits
    <3> QED BY <3>1, <3>2
  <2> QED BY <2>1, <2>2
<1>7. CASE MoreProcesses BY <1>7 DEF MoreProcesses
<1>8. CASE \E l \in Local : TakeMine(l)
  <2> PICK l \in Local : TakeMine(l) BY <1>8
  <2>1. cur' \in Vpid /\ cur' # None BY <1>0 DEF TakeMine
  <2> QED BY <2>1 DEF TakeMine
<1>9. CASE \E l \in Local : KillPage(l)
  <2> PICK l \in Local : KillPage(l) BY <1>9
  <2>1. pages[turn][l] \in Vpid
    BY DEF KillPage
  <2>2. empty' \in Seq(Frames)
    <3>1. CASE pages[turn][l] \in valid
      <4>1. ppid[pages[turn][l]] \in Frames
        BY <3>1 DEF FramesConserved
      <4> QED BY <3>1, <4>1 DEF KillPage
    <3> QED BY <3>1 DEF KillPage
  <2> QED BY <2>1, <2>2 DEF KillPage
<1>10. CASE \E l \in Local, fs \in BOOLEAN : RequestPage(l, fs)
  BY <1>10 DEF RequestPage
<1>11. CASE \E v \in Vpid : ReplacePage(v)
  <2> PICK v \in Vpid : ReplacePage(v) BY <1>11
  <2>1. ppid[v] \in Frames
    BY VictimsAreValid DEF ReplacePage, FramesConserved
  <2>2. empty' \in Seq(Frames)
    BY <2>1 DEF ReplacePage
  <2> QED BY <2>2 DEF ReplacePage
<1>12. CASE \E write \in BOOLEAN : Touch(write) BY <1>12 DEF Touch
<1>13. CASE UNCHANGED vars BY <1>13 DEF vars
<1> QED
  BY <1>1, <1>2, <1>3, <1>4, <1>5, <1>6, <1>7, <1>8, <1>9, <1>10, <1>11, <1>12,
     <1>13 DEF Next

(* Only TakeFrame, KillPage and ReplacePage move frames.                   *)
LEMMA FramesStep == IInv /\ [Next]_vars => FramesConserved'
<1> SUFFICES ASSUME IInv, [Next]_vars PROVE FramesConserved'
  OBVIOUS
<1> USE NoneAssumption, NumbersAssumption
<1> DEFINE Free == {empty[i] : i \in DOMAIN empty}
<1>e. empty \in Seq(Frames) /\ DOMAIN empty = 1 .. Len(empty) /\ Len(empty) \in Nat
  BY DEF IInv, TypeOK
<1>1. CASE TakeFrame
  <2> DEFINE top == empty[Len(empty)]
  <2>1. cur \in Vpid /\ cur \notin valid /\ Len(empty) \in 1 .. Len(empty)
    BY <1>1, <1>e DEF TakeFrame, IInv, TypeOK
  <2>2. /\ empty' = SubSeq(empty, 1, Len(empty) - 1)
        /\ valid' = valid \cup {cur}
        /\ ppid' = [ppid EXCEPT ![cur] = top]
    BY <1>1 DEF TakeFrame
  <2>3. /\ DOMAIN empty' = 1 .. Len(empty) - 1
        /\ \A i \in 1 .. Len(empty) - 1 : empty'[i] = empty[i]
    BY <2>1, <2>2, <1>e
  <2>4. /\ ppid'[cur] = top
        /\ \A v \in valid : ppid'[v] = ppid[v] /\ v # cur
    BY <2>1, <2>2 DEF IInv, TypeOK
  <2>5. top \in Frames
    BY <2>1, <1>e
  <2>6. \A f \in Frames : (\E i \in DOMAIN empty' : empty'[i] = f)
                          \/ (\E v \in valid' : ppid'[v] = f)
    <3> TAKE f \in Frames
    <3>1. CASE f = top BY <3>1, <2>2, <2>4
    <3>2. CASE \E v \in valid : ppid[v] = f BY <3>2, <2>2, <2>4
    <3>3. CASE f # top /\ \E i \in DOMAIN empty : empty[i] = f
      <4> PICK i \in 1 .. Len(empty) : empty[i] = f BY <3>3, <1>e
      <4>1. i \in 1 .. Len(empty) - 1 BY <3>3, <1>e
      <4> QED BY <4>1, <2>3
    <3> QED BY <3>1, <3>2, <3>3 DEF IInv, FramesConserved
  <2>7. \A i, j \in DOMAIN empty' : empty'[i] = empty'[j] => i = j
    BY <2>3, <1>e DEF IInv, FramesConserved
  <2>8. \A v \in valid' : ppid'[v] \in Frames
    BY <2>2, <2>4, <2>5 DEF IInv, FramesConserved
  <2>9. \A v \in valid : ppid[v] # top
    BY <2>1, <1>e DEF IInv, FramesConserved
  <2>10. \A v, w \in valid' : ppid'[v] = ppid'[w] => v = w
    BY <2>2, <2>4, <2>9 DEF IInv, FramesConserved
  <2>11. \A i \in 1 .. Len(empty) - 1 : empty[i] # top
    BY <2>1, <1>e DEF IInv, FramesConserved
  <2>12. \A i \in DOMAIN empty', v \in valid' : empty'[i] # ppid'[v]
    BY <2>2, <2>3, <2>4, <2>11, <1>e DEF IInv, FramesConserved
  <2> QED BY <2>6, <2>7, <2>8, <2>10, <2>12 DEF FramesConserved
<1>2. ASSUME NEW v \in valid, valid' = valid \ {v},
             empty' = Append(empty, ppid[v]), ppid' = ppid
      PROVE  FramesConserved'
  <2>1. ppid[v] \in Frames
    BY DEF IInv, FramesConserved
  <2>2. /\ DOMAIN empty' = 1 .. Len(empty) + 1
        /\ \A i \in 1 .. Len(empty) : empty'[i] = empty[i]
        /\ empty'[Len(empty) + 1] = ppid[v]
    BY <2>1, <1>2, <1>e
  <2>3. \A f \in Frames : (\E i \in DOMAIN empty' : empty'[i] = f)
                          \/ (\E w \in valid' : ppid'[w] = f)
    <3> TAKE f \in Frames
    <3>1. CASE f = ppid[v]
      <4>1. Len(empty) + 1 \in DOMAIN empty' BY <2>2, <1>e
      <4> QED BY <3>1, <4>1, <2>2
    <3>2. CASE f # ppid[v] /\ \E w \in valid : ppid[w] = f
      BY <3>2, <1>2
    <3>3. CASE \E i \in DOMAIN empty : empty[i] = f
      <4> PICK i \in 1 .. Len(empty) : empty[i] = f BY <3>3, <1>e
      <4>1. i \in DOMAIN empty' BY <2>2, <1>e
      <4> QED BY <4>1, <2>2
    <3> QED BY <3>1, <3>2, <3>3 DEF IInv, FramesConserved
  <2>4. \A i \in 1 .. Len(empty) : empty[i] # ppid[v]
    BY <1>e DEF IInv, FramesConserved
  <2>5. \A i, j \in DOMAIN empty' : empty'[i] = empty'[j] => i = j
    <3> TAKE i, j \in DOMAIN empty'
    <3>1. CASE i \in 1 .. Len(empty) /\ j \in 1 .. Len(empty)
      BY <3>1, <2>2, <1>e DEF IInv, FramesConserved
    <3>2. CASE i = Len(empty) + 1 \/ j = Len(empty) + 1
      BY <3>2, <2>2, <2>4, <1>e
    <3> QED BY <3>1, <3>2, <2>2, <1>e
  <2>6. \A i \in DOMAIN empty', w \in valid' : empty'[i] # ppid'[w]
    <3> TAKE i \in DOMAIN empty', w \in valid'
    <3>1. CASE i \in 1 .. Len(empty)
      BY <3>1, <2>2, <1>2, <1>e DEF IInv, FramesConserved
    <3>2. CASE i = Len(empty) + 1
      BY <3>2, <2>2, <1>2 DEF IInv, FramesConserved
    <3> QED BY <3>1, <3>2, <2>2, <1>e
  <2>7. (\A w \in valid' : ppid'[w] \in Frames)
        /\ \A w, x \in valid' : ppid'[w] = ppid'[x] => w = x
    BY <1>2 DEF IInv, FramesConserved
  <2> QED BY <2>3, <2>5, <2>6, <2>7 DEF FramesConserved
<1>3. CASE \E v \in Vpid : ReplacePage(v)
  BY <1>2, <1>3, VictimsAreValid DEF ReplacePage
<1>4. CASE \E l \in Local : KillPage(l)
  <2> PICK l \in Local : KillPage(l) BY <1>4
  <2>1. CASE pages[turn][l] \in valid
    BY <2>1, <1>2 DEF KillPage
  <2>2. CASE pages[turn][l] \notin valid
    <3>1. UNCHANGED <<empty, ppid, valid>>
      BY <2>2 DEF KillPage
    <3> QED BY <3>1 DEF IInv, FramesConserved
  <2> QED BY <2>1, <2>2
<1>5. CASE \E l \in Local, fs \in BOOLEAN : RequestPage(l, fs)
  <2> PICK l \in Local, fs \in BOOLEAN : RequestPage(l, fs) BY <1>5
  <2>1. UNCHANGED <<empty, valid>> /\ ppid' = [ppid EXCEPT ![vpid] = None]
    BY DEF RequestPage
  <2>2. vpid \notin valid
    BY DEF IInv, Fresh, FlagsOfResidentPages, TypeOK
  <2>3. \A v \in valid : ppid'[v] = ppid[v]
    BY <2>1, <2>2 DEF IInv, TypeOK
  <2> QED BY <2>1, <2>3 DEF IInv, FramesConserved
<1>6. CASE UNCHANGED <<empty, ppid, valid>>
  BY <1>6 DEF IInv, FramesConserved
<1>7. ~ (TakeFrame \/ (\E v \in Vpid : ReplacePage(v)) \/ (\E l \in Local : KillPage(l))
         \/ (\E l \in Local, fs \in BOOLEAN : RequestPage(l, fs)))
      => UNCHANGED <<empty, ppid, valid>>
  BY DEF Next, vars, flags, Stop, TakeLast, Hit, Renewed, EndQuantum, MoreProcesses,
         TakeMine, Touch
<1> QED BY <1>1, <1>3, <1>4, <1>5, <1>6, <1>7

(* The flags follow residence; self.vpid only grows; the page of a quantum *)
(* stays its process's own.                                                *)
LEMMA FlagsStep == IInv /\ [Next]_vars => FlagsOfResidentPages' /\ Fresh' /\ OwnPage'
<1> SUFFICES ASSUME IInv, [Next]_vars PROVE FlagsOfResidentPages' /\ Fresh' /\ OwnPage'
  OBVIOUS
<1> USE NoneAssumption, NumbersAssumption
<1> USE DEF FlagsOfResidentPages, Fresh, OwnPage, flags
<1>0. /\ FlagsOfResidentPages /\ Fresh /\ OwnPage /\ vpid \in Nat /\ turn \in Procs
      /\ \A v \in live : v \in Nat
      /\ pages \in [Procs -> [Local -> Vpid \cup {None}]]
      /\ \A p \in Procs : Mine(p) \subseteq live
  BY DEF IInv, TypeOK, Procs, Vpid, PagesOwned
<1>1. CASE Stop \/ Hit \/ Renewed \/ MoreProcesses \/ UNCHANGED vars
  BY <1>0, <1>1 DEF Stop, Hit, Renewed, MoreProcesses, vars, Mine
<1>2. CASE TakeLast
  BY <1>0, <1>2 DEF TakeLast, Mine, IInv, PagesOwned
<1>3. CASE TakeFrame
  BY <1>0, <1>3 DEF TakeFrame, Mine
<1>4. CASE EndQuantum
  <2>1. dirty' \subseteq dirty /\ access' \subseteq access
    BY <1>4 DEF EndQuantum, ResetBits, ResetAllBits
  <2> QED BY <1>0, <1>4, <2>1 DEF EndQuantum
<1>5. CASE \E l \in Local : TakeMine(l)
  BY <1>0, <1>5 DEF TakeMine, Mine
<1>6. CASE \E l \in Local : KillPage(l)
  <2> PICK l \in Local : KillPage(l) BY <1>6
  <2> QED BY <1>0 DEF KillPage
<1>7. CASE \E l \in Local, fs \in BOOLEAN : RequestPage(l, fs)
  <2> PICK l \in Local, fs \in BOOLEAN : RequestPage(l, fs) BY <1>7
  <2>1. pages'[turn][l] = vpid /\ vpid # None
    BY <1>0 DEF RequestPage
  <2> QED BY <1>0, <2>1 DEF RequestPage, Mine
<1>8. CASE \E v \in Vpid : ReplacePage(v)
  BY <1>0, <1>8 DEF ReplacePage, Mine
<1>9. CASE \E write \in BOOLEAN : Touch(write)
  <2> PICK write \in BOOLEAN : Touch(write) BY <1>9
  <2> QED BY <1>0 DEF Touch
<1> QED
  BY <1>1, <1>2, <1>3, <1>4, <1>5, <1>6, <1>7, <1>8, <1>9 DEF Next

(* A page enters a process with request_page, and leaves it with kill_page. *)
LEMMA PagesStep == IInv /\ [Next]_vars => PagesOwned'
<1> SUFFICES ASSUME IInv, [Next]_vars PROVE PagesOwned'
  OBVIOUS
<1> USE NoneAssumption, NumbersAssumption
<1>0. /\ turn \in Procs /\ vpid \in Nat
      /\ pages \in [Procs -> [Local -> Vpid \cup {None}]]
      /\ last \in [Procs -> Vpid \cup {None}]
      /\ vpid \notin live /\ PagesOwned
  BY DEF IInv, TypeOK, Procs, Vpid, Fresh
<1>1. CASE UNCHANGED <<pages, last, live, turn>> /\ (pc = "renew" => pc' = "renew")
  BY <1>0, <1>1 DEF PagesOwned, Mine
<1>2. CASE \E write \in BOOLEAN : Touch(write)
  <2>1. last' = [last EXCEPT ![turn] = cur] /\ UNCHANGED <<pages, live, turn>>
        /\ pc # "renew" /\ cur \in Mine(turn)
    BY <1>2 DEF Touch, IInv, OwnPage
  <2> QED BY <1>0, <2>1 DEF PagesOwned, Mine
<1>3. CASE Renewed
  <2>1. last' = [last EXCEPT ![turn] = None] /\ UNCHANGED <<pages, live, turn>>
    BY <1>3 DEF Renewed
  <2> QED BY <1>0, <2>1 DEF PagesOwned, Mine
<1>4. CASE EndQuantum
  <2>1. UNCHANGED <<pages, last, live>> /\ pc # "renew"
    BY <1>4 DEF EndQuantum
  <2> QED BY <1>0, <2>1 DEF PagesOwned, Mine
<1>5. CASE \E l \in Local : KillPage(l)
  <2> PICK l \in Local : KillPage(l) BY <1>5
  <2> DEFINE v == pages[turn][l]
  <2>1. /\ v # None /\ pc = "renew" /\ live' = live \ {v}
        /\ pages' = [pages EXCEPT ![turn][l] = None]
        /\ UNCHANGED <<last, turn, pc>>
    BY DEF KillPage
  <2>2. \A p \in Procs, m \in Local :
          pages'[p][m] = IF p = turn /\ m = l THEN None ELSE pages[p][m]
    BY <1>0, <2>1
  <2>3. \A p \in Procs, m \in Local : p # turn \/ m # l => pages[p][m] # v
    BY <1>0, <2>1 DEF PagesOwned
  <2>4. \A w \in live' : \E p \in Procs, m \in Local : pages'[p][m] = w
    <3> TAKE w \in live'
    <3> PICK p \in Procs, m \in Local : pages[p][m] = w
      BY <1>0, <2>1 DEF PagesOwned
    <3>1. ~(p = turn /\ m = l) BY <2>1
    <3> QED BY <2>2, <3>1
  <2>5. \A p, q \in Procs : \A m, n \in Local :
          pages'[p][m] = pages'[q][n] /\ pages'[p][m] # None => p = q /\ m = n
    <3> TAKE p, q \in Procs
    <3> TAKE m, n \in Local
    <3> HAVE pages'[p][m] = pages'[q][n] /\ pages'[p][m] # None
    <3>1. pages[p][m] = pages[q][n] /\ pages[p][m] # None BY <2>2
    <3> QED BY <1>0, <3>1 DEF PagesOwned
  <2>6. \A p \in Procs : Mine(p)' \subseteq live'
    <3> TAKE p \in Procs
    <3>1. \A m \in Local : pages'[p][m] # None => pages'[p][m] \in live \ {v}
      <4> TAKE m \in Local
      <4> HAVE pages'[p][m] # None
      <4>1. ~(p = turn /\ m = l) /\ pages'[p][m] = pages[p][m] BY <2>2
      <4>2. pages[p][m] \in Mine(p) BY <4>1 DEF Mine
      <4> QED BY <4>1, <4>2, <2>3, <1>0 DEF PagesOwned
    <3> QED BY <2>1, <3>1 DEF Mine
  <2>7. \A p \in Procs : last'[p] \in Mine(p)' \cup {None} \/ (p = turn' /\ pc' = "renew")
    <3> TAKE p \in Procs
    <3>1. CASE p = turn BY <3>1, <2>1
    <3>2. CASE p # turn
      <4>1. Mine(p)' = Mine(p) BY <2>2, <3>2 DEF Mine
      <4> QED BY <4>1, <3>2, <2>1, <1>0 DEF PagesOwned
    <3> QED BY <3>1, <3>2
  <2> QED BY <2>4, <2>5, <2>6, <2>7 DEF PagesOwned
<1>6. CASE \E l \in Local, fs \in BOOLEAN : RequestPage(l, fs)
  <2> PICK l \in Local, fs \in BOOLEAN : RequestPage(l, fs) BY <1>6
  <2>1. /\ pages[turn][l] = None /\ pc = "quant" /\ live' = live \cup {vpid}
        /\ pages' = [pages EXCEPT ![turn][l] = vpid]
        /\ UNCHANGED <<last, turn>>
    BY DEF RequestPage
  <2>2. \A p \in Procs, m \in Local :
          pages'[p][m] = IF p = turn /\ m = l THEN vpid ELSE pages[p][m]
    BY <1>0, <2>1
  <2>3. \A p \in Procs, m \in Local : pages[p][m] # vpid
    <3> SUFFICES ASSUME NEW p \in Procs, NEW m \in Local, pages[p][m] = vpid
                 PROVE FALSE
      OBVIOUS
    <3>1. vpid \in Mine(p) BY <1>0 DEF Mine
    <3> QED BY <3>1, <1>0 DEF PagesOwned
  <2>4. \A w \in live' : \E p \in Procs, m \in Local : pages'[p][m] = w
    <3> TAKE w \in live'
    <3>1. CASE w = vpid BY <3>1, <2>2, <1>0
    <3>2. CASE w \in live
      <4> PICK p \in Procs, m \in Local : pages[p][m] = w
        BY <3>2, <1>0 DEF PagesOwned
      <4>1. w # None BY <3>2 DEF IInv, TypeOK, Vpid
      <4>2. ~(p = turn /\ m = l) BY <4>1, <2>1
      <4> QED BY <4>2, <2>2
    <3> QED BY <3>1, <3>2, <2>1
  <2>5. \A p, q \in Procs : \A m, n \in Local :
          pages'[p][m] = pages'[q][n] /\ pages'[p][m] # None => p = q /\ m = n
    BY <2>2, <2>3, <1>0 DEF PagesOwned
  <2>6. \A p \in Procs : Mine(p)' \subseteq live'
    BY <2>1, <2>2, <1>0 DEF Mine, PagesOwned
  <2>7. \A p \in Procs : Mine(p) \subseteq Mine(p)'
    <3> TAKE p \in Procs
    <3> SUFFICES ASSUME NEW m \in Local, pages[p][m] # None
                 PROVE pages[p][m] \in Mine(p)'
      BY DEF Mine
    <3>1. pages'[p][m] = pages[p][m] BY <2>1, <2>2
    <3> QED BY <3>1 DEF Mine
  <2> QED BY <2>1, <2>4, <2>5, <2>6, <2>7, <1>0 DEF PagesOwned
<1>7. CASE Stop \/ TakeLast \/ Hit \/ TakeFrame \/ MoreProcesses
           \/ (\E l \in Local : TakeMine(l)) \/ (\E v \in Vpid : ReplacePage(v))
           \/ UNCHANGED vars
  BY <1>1, <1>7 DEF Stop, TakeLast, Hit, TakeFrame, MoreProcesses, TakeMine,
     ReplacePage, vars
<1> QED
  BY <1>2, <1>3, <1>4, <1>5, <1>6, <1>7 DEF Next

(* The invariant of both programs.                                         *)
THEOREM Invariance == Spec => []IInv
<1>1. Init => IInv
  BY InitIInv
<1>2. IInv /\ [Next]_vars => IInv'
  BY TypeStep, FramesStep, FlagsStep, PagesStep DEF IInv
<1> QED BY <1>1, <1>2, PTL DEF Spec

(* Every variable stays within its type, whatever is requested and chosen: *)
(* frames are frames of the memory, and the page at hand exists.           *)
THEOREM TypesHold == Spec => []TypeOK
<1>1. IInv => TypeOK
  BY DEF IInv
<1> QED BY Invariance, <1>1, PTL

(* No frame is ever lost or held twice.                                    *)
THEOREM FramesAreConserved == Spec => []FramesConserved
<1>1. IInv => FramesConserved
  BY DEF IInv
<1> QED BY Invariance, <1>1, PTL

(* No process keeps the index of a page that was killed, and no page       *)
(* outlives its process's use of it.                                       *)
THEOREM PagesAreOwned == Spec => []PagesOwned
<1>1. IInv => PagesOwned
  BY DEF IInv
<1> QED BY Invariance, <1>1, PTL

(* Flags and residence agree, and a touched page is resident.              *)
THEOREM FlagsFollowResidence == Spec => []FlagsOfResidentPages
<1>1. IInv => FlagsOfResidentPages
  BY DEF IInv
<1> QED BY Invariance, <1>1, PTL

(* A full memory always has a victim, whatever the algorithm.              *)
THEOREM ThereIsAVictim == Spec => []VictimExists
<1>1. IInv => VictimExists
  <2> SUFFICES ASSUME IInv, pc = "resident", empty = <<>> PROVE Victims # {}
    BY DEF VictimExists
  <2>1. PICK u \in valid : ppid[u] = 0
    <3>1. 0 \in Frames BY NumbersAssumption DEF Frames
    <3>2. \A i \in DOMAIN empty : FALSE OBVIOUS
    <3> QED BY <3>1, <3>2 DEF IInv, FramesConserved
  <2>2. \A v : Weight(v) \in {0, 2, 4, 6, 8, 10, 12, 14}
    BY DEF Weight
  <2> DEFINE Has(n) == \E v \in valid : Weight(v) = n
  <2>3. Has(0) \/ Has(2) \/ Has(4) \/ Has(6) \/ Has(8) \/ Has(10) \/ Has(12) \/ Has(14)
    BY <2>1, <2>2
  <2> DEFINE Lowest(n) == Has(n) /\ \A m \in {0, 2, 4, 6, 8, 10, 12, 14} : m < n => ~Has(m)
             Highest(n) == Has(n) /\ \A m \in {0, 2, 4, 6, 8, 10, 12, 14} : m > n => ~Has(m)
  <2>4. \E n \in {0, 2, 4, 6, 8, 10, 12, 14} : Lowest(n)
    <3> HIDE DEF Has
    <3> QED BY <2>3
  <2>5. \E n \in {0, 2, 4, 6, 8, 10, 12, 14} : Highest(n)
    <3> HIDE DEF Has
    <3> QED BY <2>3
  <2>6. \E v \in valid : \A w \in valid : Weight(v) <= Weight(w)
    <3> PICK n \in {0, 2, 4, 6, 8, 10, 12, 14} : Lowest(n) BY <2>4
    <3> PICK v \in valid : Weight(v) = n OBVIOUS
    <3>1. \A w \in valid : Has(Weight(w)) OBVIOUS
    <3> HIDE DEF Has
    <3> QED BY <2>2, <3>1
  <2>7. \E v \in valid : \A w \in valid : Weight(v) >= Weight(w)
    <3> PICK n \in {0, 2, 4, 6, 8, 10, 12, 14} : Highest(n) BY <2>5
    <3> PICK v \in valid : Weight(v) = n OBVIOUS
    <3>1. \A w \in valid : Has(Weight(w)) OBVIOUS
    <3> HIDE DEF Has
    <3> QED BY <2>2, <3>1
  <2> QED BY <2>1, <2>6, <2>7, ChoiceAssumption DEF Victims
<1> QED BY Invariance, <1>1, PTL
=============================================================================
