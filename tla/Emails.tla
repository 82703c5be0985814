------------------------------- MODULE Emails -------------------------------
(***************************************************************************)
(* The two programs that print the e-mail addresses of a text:             *)
(* email/email.py, a generator written by hand, and email/email2.py, the   *)
(* same recogniser as a table for Machine.  Both read the same characters  *)
(* in step; email.py is told of the end by an empty string, email2.py by   *)
(* the newline that Context.process sends.                                 *)
(*                                                                         *)
(* Characters are classes: "word" (SMB_BEGIN), "-", ".", "@" and "other".  *)
(***************************************************************************)
EXTENDS Machine, TLC

CONSTANT MaxLen   \* bound: characters in the text

Begin    == {"word"}             \* SMB_BEGIN
Cont     == {"word", "-"}        \* SMB_CONT
ContUser == {"word", "-", "."}   \* SMB_CONT_USER
Char     == ContUser \cup {"@", "other"}
End      == "end"                \* '' to email.py, a newline to email2.py
States   == {"OUT", "USER", "DOMAIN", "SUBDOMAIN", "DOMAIN_CONT"}

VARIABLES
  hand,    \* email.py: state, username, domain, and what it printed
  table,   \* email2.py: the same
  text, ended

vars == <<hand, table, text, ended>>

Clean == [state |-> "OUT", username |-> <<>>, domain |-> <<>>, printed |-> <<>>]

Parser == [state : States, username : Seq(Char), domain : Seq(Char),
           printed : Seq(Seq(Char) \X Seq(Char))]
TypeOK ==
  /\ hand \in Parser /\ table \in Parser
  /\ text \in Seq(Char) /\ ended \in BOOLEAN

Printing(p) == [p EXCEPT !.printed = Append(@, <<p.username, p.domain>>)]
Forgetting(p) == [p EXCEPT !.state = "OUT", !.username = <<>>, !.domain = <<>>]

-----------------------------------------------------------------------------
(* email.py. An empty string is "in" any string, so at the end of the text *)
(* the first three states take it for a character they accept.             *)
In(c, chars)  == c = End \/ c \in chars
Added(s, c)   == IF c = End THEN s ELSE Append(s, c)
Hand(p, c) ==
  CASE p.state = "OUT" ->
         IF In(c, Begin) THEN [p EXCEPT !.state = "USER", !.username = Added(@, c)] ELSE p
    [] p.state = "USER" ->
         IF In(c, ContUser) THEN [p EXCEPT !.username = Added(@, c)]
         ELSE IF c = "@" THEN [p EXCEPT !.state = "DOMAIN"] ELSE Forgetting(p)
    [] p.state = "DOMAIN" ->
         IF In(c, Begin) THEN [p EXCEPT !.state = "DOMAIN_CONT", !.domain = Added(@, c)]
         ELSE Forgetting(p)
    [] p.state = "SUBDOMAIN" ->
         IF c \in Begin THEN [p EXCEPT !.state = "DOMAIN_CONT", !.domain = Append(@, c)]
         ELSE Forgetting(Printing(p))
    [] p.state = "DOMAIN_CONT" ->
         IF c \in Cont THEN [p EXCEPT !.domain = Append(@, c)]
         ELSE IF c = "." THEN [p EXCEPT !.state = "SUBDOMAIN", !.domain = Append(@, c)]
         ELSE Forgetting(Printing(p))

-----------------------------------------------------------------------------
(* email2.py: the table, and what its handlers do on leaving a state.      *)
(* Mutant: a dot in a domain ends it.                                      *)
MatrixNoDot ==
  [s \in States |->
   CASE s = "OUT" -> Row({AnyChar}, "OUT") @@ Row(Begin, "USER")
     [] s = "USER" -> Row({"@"}, "DOMAIN") @@ Row(ContUser, "USER") @@ Row({AnyChar}, "OUT")
     [] s = "DOMAIN" -> Row(Begin, "DOMAIN_CONT") @@ Row({AnyChar}, "OUT")
     [] s = "DOMAIN_CONT" -> Row(Cont, "DOMAIN_CONT") @@ Row({AnyChar}, "OUT")
     [] s = "SUBDOMAIN" -> Row(Begin, "DOMAIN_CONT") @@ Row({AnyChar}, "OUT")]
Matrix ==
  [s \in States |->
   CASE s = "OUT" -> Row({AnyChar}, "OUT") @@ Row(Begin, "USER")
     [] s = "USER" -> Row({"@"}, "DOMAIN") @@ Row(ContUser, "USER") @@ Row({AnyChar}, "OUT")
     [] s = "DOMAIN" -> Row(Begin, "DOMAIN_CONT") @@ Row({AnyChar}, "OUT")
     [] s = "DOMAIN_CONT" -> Row(Cont, "DOMAIN_CONT") @@ Row({"."}, "SUBDOMAIN") @@
                             Row({AnyChar}, "OUT")
     [] s = "SUBDOMAIN" -> Row(Begin, "DOMAIN_CONT") @@ Row({AnyChar}, "OUT")]

Handled(p, c, t) ==
  CASE p.state = "OUT" /\ t = "USER"             -> [p EXCEPT !.username = <<c>>]
    [] p.state = "USER" /\ t = "USER"            -> [p EXCEPT !.username = Append(@, c)]
    [] p.state = "DOMAIN" /\ t = "DOMAIN_CONT"   -> [p EXCEPT !.domain = <<c>>]
    [] p.state \in {"DOMAIN_CONT", "SUBDOMAIN"}  ->
         IF t = "OUT" THEN Printing(p) ELSE [p EXCEPT !.domain = Append(@, c)]
    [] OTHER -> p
ByTable(p, c) ==
  LET t == Target(Matrix, p.state, c)
  IN  [Handled(p, c, t) EXCEPT !.state = t]

-----------------------------------------------------------------------------
Init == hand = Clean /\ table = Clean /\ text = <<>> /\ ended = FALSE

Read(c) ==
  /\ ~ ended /\ Len(text) < MaxLen
  /\ hand' = Hand(hand, c) /\ table' = ByTable(table, c)
  /\ text' = Append(text, c) /\ UNCHANGED ended
Finish ==
  /\ ~ ended /\ ended' = TRUE
  /\ hand' = Hand(hand, End) /\ table' = ByTable(table, End)
  /\ UNCHANGED text

Next == (\E c \in Char : Read(c)) \/ Finish

Spec == Init /\ [][Next]_vars
-----------------------------------------------------------------------------
(* The two programs print the same addresses of every text, at the same    *)
(* characters, though email2.py clears nothing after an address or a       *)
(* failed one, and the two take the end of the text differently.           *)
SameAddresses ==
  /\ hand.printed = table.printed
  /\ ~ ended => hand.state = table.state

(* What is printed stands in the text, in order and without overlap: a     *)
(* word character and more of a user name, "@", and a domain, which does   *)
(* not stop before another word character.                                 *)
Address(a, i, j) ==     \* a is the text from i up to, not including, j
  LET k == i + Len(a[1])
  IN  /\ SubSeq(text, i, k - 1) = a[1] /\ text[k] = "@"
      /\ SubSeq(text, k + 1, j - 1) = a[2]
      /\ text[i] \in Begin /\ text[k + 1] \in Begin
      /\ j <= Len(text) => text[j] \notin Begin
PrintedIsThere ==
  LET after[n \in 0 .. Len(hand.printed)] ==      \* where the first n may end
        IF n = 0 THEN {1}
        ELSE {j \in 1 .. Len(text) + 1 :
                \E s \in after[n - 1] : \E i \in s .. j :
                  /\ j = i + Len(hand.printed[n][1]) + 1 + Len(hand.printed[n][2])
                  /\ Address(hand.printed[n], i, j)}
  IN  after[Len(hand.printed)] # {}
=============================================================================
