----------------------------- MODULE MCFfsFile -----------------------------
(* FfsFile for TLC: files and processes are interchangeable.               *)
EXTENDS FfsFile, TLC

Symmetry == Permutations(Files) \cup Permutations(Procs)
=============================================================================
