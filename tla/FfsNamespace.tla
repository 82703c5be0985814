---------------------------- MODULE FfsNamespace ----------------------------
(***************************************************************************)
(* What the directory operations of ffs promise their callers: a namespace *)
(* of triples <<directory, name, file>>, changed by one call at a time,    *)
(* each call taking effect in a single step or, if a crash cuts it, either *)
(* entirely or not at all.  Ffs implements this with a dozen disk writes   *)
(* per call.                                                               *)
(***************************************************************************)
EXTENDS Naturals

CONSTANTS
  Files, Names,
  Root,         \* the root directory, one of Files
  Initial,      \* the namespace of a new file system: triples of the root
  MaxCrashes    \* bound: crashes

VARIABLES
  ns,      \* the triples
  req,     \* the call under way, or NoRequest
  crashes  \* how many times the machine stopped

nsvars == <<ns, req, crashes>>

Calls == {"create", "link", "unlink"}
NoRequest  == [call |-> "none", dir |-> Root, name |-> "none", file |-> Root]

Bound(d, n) == \E f \in Files : <<d, n, f>> \in ns
HasName(f)  == \E d \in Files, n \in Names : <<d, n, f>> \in ns
Target(r)   == <<r.dir, r.name, r.file>>

NsInit == ns = Initial /\ req = NoRequest /\ crashes = 0

(* A call is accepted.  A created file is new: no name leads to it.        *)
Invoke ==
  /\ req = NoRequest
  /\ \E c \in Calls, d \in Files, n \in Names, f \in Files :
       /\ req' = [call |-> c, dir |-> d, name |-> n, file |-> f]
       /\ d = Root \/ HasName(d)
       /\ c \in {"create", "link"} => ~ Bound(d, n)
       /\ c = "create" => ~ HasName(f) /\ f # Root
       /\ c = "link" => HasName(f)
       /\ c = "unlink" => <<d, n, f>> \in ns
  /\ UNCHANGED <<ns, crashes>>

(* The call takes effect; it may return in the same step.                 *)
Bind ==
  /\ req.call \in {"create", "link"}
  /\ ns' = ns \cup {Target(req)}
  /\ req' \in {req, NoRequest}
  /\ UNCHANGED crashes

(* Only a directory that is empty, or a file, loses a name.                *)
Unbind ==
  /\ req.call = "unlink"
  /\ \A e \in ns : e[1] # req.file
  /\ ns' = ns \ {Target(req)}
  /\ req' \in {req, NoRequest}
  /\ UNCHANGED crashes

(* A call returns only once its effect is there.                          *)
Return ==
  /\ req # NoRequest
  /\ req.call \in {"create", "link"} <=> Target(req) \in ns
  /\ req' = NoRequest
  /\ UNCHANGED <<ns, crashes>>

(* A crash forgets the call, done or not, and keeps the namespace.         *)
Cut ==
  /\ crashes < MaxCrashes
  /\ req' = NoRequest /\ crashes' = crashes + 1
  /\ UNCHANGED ns

NsNext == Invoke \/ Bind \/ Unbind \/ Return \/ Cut

NsSpec == NsInit /\ [][NsNext]_nsvars
=============================================================================
