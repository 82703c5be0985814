--------------------------- MODULE FfsRefinement ---------------------------
(***************************************************************************)
(* Ffs implements FfsNamespace.  The namespace is read from the disk, not  *)
(* from memory: so the theorem the runs check covers crashes, a name being *)
(* there or not at every one of the disk writes an operation makes.        *)
(***************************************************************************)
EXTENDS Ffs

(* The call that the operation under way carries out; a write has none.    *)
Request ==
  [call |-> CASE op.kind \in {"create", "symlink"} -> "create"
              [] op.kind \in {"link", "unlink"} -> op.kind
              [] OTHER -> "none",
   dir |-> op.dir,
   name |-> IF op.kind \in {"none", "write"} THEN "none" ELSE op.name,
   file |-> IF op.kind = "write" THEN Root ELSE op.ino]

Ns == INSTANCE FfsNamespace
        WITH Files <- Fd, ns <- Triples(table), req <- Request,
             Initial <- {<<Root, Hello, 1>>, <<Root, World, 2>>}

(* Each call changes the namespace on disk in one step, by its own triple, *)
(* and returns only when that is done (create_entry, ffs_link, ffs_unlink),*)
(* until a crash tears a file: one with an entry too many may lose, with   *)
(* one name, what its other names lead to, and nothing is promised of it.  *)
ImplementsNamespace == Ns!NsInit /\ [][torn = {} => Ns!NsNext]_(Ns!nsvars)
=============================================================================
