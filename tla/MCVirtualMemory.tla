-------------------------- MODULE MCVirtualMemory --------------------------
(* VirtualMemory for TLC: a behaviour is one of either program.  The       *)
(* constants describe mem2.py, which resets all flags every Tick quanta;   *)
(* Mem is mem.py, with a countdown in each page and another algorithm.     *)
EXTENDS VirtualMemory

VARIABLE program   \* which of the two runs

Mem == INSTANCE VirtualMemory WITH Variant <- "mem", Algorithm <- "lru"

MCInit == Init /\ program \in {"mem", "mem2"}
MCNext ==
  /\ \/ program = "mem2" /\ Next
     \/ program = "mem" /\ Mem!Next
  /\ UNCHANGED program

MCSpec == MCInit /\ [][MCNext]_<<vars, program>> /\ WF_<<vars, program>>(MCNext)
=============================================================================
