-------------------------------- MODULE Heap --------------------------------
(***************************************************************************)
(* What both allocators promise their callers (allocator.h of              *)
(* linear-allocator and of zone-allocator): mem_alloc returns a part of    *)
(* the memory that nobody else holds, mem_realloc moves a block to such a  *)
(* part, mem_free gives it back, and a call that returns NULL leaves every *)
(* holder what it had.                                                     *)
(***************************************************************************)
EXTENDS Integers

CONSTANTS
  Memory,   \* the addresses, integers
  Sizes     \* the sizes that may be asked for, from 1

VARIABLE held   \* the blocks that have an owner

Extents  == [addr : Memory, size : Sizes]
Units(b) == b.addr .. b.addr + b.size - 1

(* b lies in memory and shares nothing with the blocks of others.          *)
Apart(b, others) ==
  /\ Units(b) \subseteq Memory
  /\ \A o \in others : Units(b) \cap Units(o) = {}

Init == held = {}

Take == \E b \in Extents : held' = held \cup {b} /\ Apart(b, held)
Give == \E b \in held : held' = held \ {b}
Resize ==
  \E b \in held, n \in Extents :
    held' = (held \ {b}) \cup {n} /\ Apart(n, held \ {b})

Next == Take \/ Give \/ Resize

Spec == Init /\ [][Next]_held
=============================================================================
