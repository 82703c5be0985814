----------------------------- MODULE MCMachines -----------------------------
(***************************************************************************)
(* The programs of email/ on every short text: conf2.py from three         *)
(* starting points, or the two programs that print e-mail addresses.       *)
(***************************************************************************)
EXTENDS ConfParser

VARIABLES hand, table, text, ended,   \* of Emails
          program                     \* which of them runs

E == INSTANCE Emails
evars == <<hand, table, text, ended>>

Section  == <<"letter", "newline", "{">>
Value    == Section \o <<"letter", "newline", "=">>
MCStarts == {<<>>, Section, Value}

Idle == Is(Fresh) /\ inp = <<>> /\ nread = 0
MCInit ==
  /\ E!Init
  /\ \/ program = "conf2" /\ Init
     \/ program = "email" /\ Idle
MCNext ==
  \/ program = "conf2" /\ Next /\ UNCHANGED <<evars, program>>
  \/ program = "email" /\ E!Next /\ UNCHANGED <<vars, program>>
MCSpec == MCInit /\ [][MCNext]_<<vars, evars, program>>

(* Both address programs print the same addresses of every text, at the    *)
(* same characters, and each address stands in the text, in order and      *)
(* without overlap (email.py, email2.py).                                  *)
AddressesOfText == E!TypeOK /\ E!SameAddresses /\ E!PrintedIsThere

(* conf2.py: the grammar sees the text without its comments, in states of  *)
(* its tables.                                                             *)
ConfOfText == TypeOK /\ CommentsVanish
=============================================================================
