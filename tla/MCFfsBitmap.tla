---------------------------- MODULE MCFfsBitmap ----------------------------
(* Instances of FfsBitmap for TLC.                                         *)
EXTENDS FfsBitmap
CONSTANTS p1, p2, p3, d1, d2

(* Every process works in one directory.                                   *)
OneDir == [p \in Procs |-> d1]
(* The first process works in a directory of its own.                      *)
TwoDirs == [p \in Procs |-> IF p = p1 THEN d1 ELSE d2]
=============================================================================
