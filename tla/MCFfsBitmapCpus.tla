-------------------------- MODULE MCFfsBitmapCpus --------------------------
(* FfsBitmap for TLC on machines of one CPU and of two: with two, two      *)
(* processes can meet at a lock and pass; with one, they may stop there.   *)
EXTENDS MCFfsBitmap

VARIABLE cpus   \* the CPUs of the machine

One == INSTANCE FfsBitmap WITH Cpus <- 1
Two == INSTANCE FfsBitmap WITH Cpus <- 2

(* A formula of the machine at hand; an action leaves the machine alone.   *)
On(one, two) == IF cpus = 1 THEN one ELSE two
Does(one, two) == On(one, two) /\ UNCHANGED cpus

MCSpec ==
  /\ Init /\ cpus \in {1, 2}
  /\ [][Does(One!Next, Two!Next)]_<<vars, cpus>>
  /\ \A p \in Procs :
       /\ WF_<<vars, cpus>>(Does(One!Run(p), Two!Run(p)))
       /\ SF_<<vars, cpus>>(Does(One!Enter(p), Two!Enter(p)))
       /\ SF_<<vars, cpus>>(Does(One!Lock(p), Two!Lock(p)))
       /\ SF_<<vars, cpus>>(Does(One!IoDone(p), Two!IoDone(p)))

(* Every call returns on either machine, unless the system comes to a stop *)
(* that is known: nothing else, no order of taking the locks and no unlock *)
(* left out, holds one up.                                                 *)
EveryCallReturns ==
  \A p \in Procs :
    (pc[p] # "idle") ~> (pc[p] = "idle" \/ On(One!Stopped, Two!Stopped))

(* The system stops for no other reason than those.                        *)
KnownStops == On(One!StopsOnlyBySpinning, Two!StopsOnlyBySpinning)
=============================================================================
