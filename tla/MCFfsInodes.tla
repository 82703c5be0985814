---------------------------- MODULE MCFfsInodes ----------------------------
(* FfsInodes for TLC: two directories, with a file in each at first.       *)
EXTENDS FfsInodes

CONSTANTS d1, d2, p1, p2

OneEach == {<<d1, 1>>, <<d2, 2>>}
=============================================================================
