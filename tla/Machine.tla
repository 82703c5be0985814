------------------------------ MODULE Machine ------------------------------
(***************************************************************************)
(* The state machine library email/machine.py: a machine is a table from   *)
(* states and characters to states, and a stack of machines reads one      *)
(* input.  A character that is a trigger starts a machine on top of the    *)
(* stack, which reads until it stops and may push characters back to the   *)
(* one below.  What the handlers of a state do beyond that belongs to the  *)
(* program that uses the library (ConfParser, Emails).                     *)
(***************************************************************************)
EXTENDS Integers, Sequences, SequencesExt

AnyChar == "any"      \* the key False: any character without an entry
Raised  == "raised"   \* no entry at all: the machine raises an exception

(* Context.attach: one entry of a table, for each of some characters.      *)
Row(chars, target) == [c \in chars |-> target]

(* The lookup of _machine.                                                 *)
Target(matrix, state, c) ==
  IF c \in DOMAIN matrix[state] THEN matrix[state][c]
  ELSE IF AnyChar \in DOMAIN matrix[state] THEN matrix[state][AnyChar]
  ELSE Raised

(* The machine on top goes to state s.                                     *)
Moved(machines, s) == [machines EXCEPT ![Len(machines)].state = s]
=============================================================================
