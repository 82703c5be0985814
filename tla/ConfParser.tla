----------------------------- MODULE ConfParser -----------------------------
(***************************************************************************)
(* The configuration parser email/conf2.py, on the library of Machine: the *)
(* main machine, and one for each kind of comment, "# ..." to the end of   *)
(* the line and "/* ... */", started by their first character and stopped  *)
(* by their last.                                                          *)
(*                                                                         *)
(* Characters are classes: "letter", "digit" (and "_"), "blank", "newline",*)
(* "other", and those with a meaning of their own.                         *)
(***************************************************************************)
EXTENDS Machine, TLC

CONSTANTS
  Alphabet,  \* the characters of the input
  Starts,    \* texts that may have been read before
  MaxLen     \* bound: characters read after them

Space == {"blank", "newline"}
Begin == {"letter"}                     \* SMB_BEGIN
Cont  == {"letter", "digit"}            \* SMB_CONT
Char  == Space \cup Cont \cup {"{", "}", "=", ";", "quote", "#", "/", "*", "other"}

ASSUME ConfAssumption ==
  Alphabet \subseteq Char /\ Starts \subseteq Seq(Char) /\ MaxLen \in Nat

(* The table of cont.                                                      *)
Matrix ==
  [OUT                   |-> Row(Space, "OUT") @@ Row(Begin, "SECTION_NAME"),
   SECTION_NAME          |-> Row(Space, "SECTION_NAME_FINISHED") @@ Row(Cont, "SECTION_NAME"),
   SECTION_NAME_FINISHED |-> Row(Space, "SECTION_NAME_FINISHED") @@
                            Row({"{"}, "INSIDE_SECTION") @@ Row(Cont, "SECTION_VALUE"),
   SECTION_VALUE         |-> Row({"{"}, "INSIDE_SECTION") @@ Row(Cont, "SECTION_VALUE"),
   INSIDE_SECTION        |-> Row(Space, "INSIDE_SECTION") @@
                            Row(Begin, "PROP_NAME") @@ Row({"}"}, "OUT"),
   PROP_NAME             |-> Row(Space, "PROP_NAME_FINISHED") @@ Row(Cont, "PROP_NAME"),
   PROP_NAME_FINISHED    |-> Row(Space, "PROP_NAME_FINISHED") @@ Row({"="}, "PROP_VALUE"),
   PROP_VALUE            |-> Row(Space, "PROP_VALUE") @@
                            Row(Begin, "PROP_VALUE_CONT") @@ Row({"quote"}, "PROP_VALUE_QUOTED"),
   PROP_VALUE_QUOTED     |-> Row({AnyChar}, "PROP_VALUE_QUOTED_CONT"),
   PROP_VALUE_QUOTED_CONT |-> Row({"quote"}, "PROP_VALUE_CONT") @@
                             Row({AnyChar}, "PROP_VALUE_QUOTED_CONT"),
   PROP_VALUE_CONT       |-> Row(Cont, "PROP_VALUE_CONT") @@ Row({";"}, "INSIDE_SECTION")]
Quoted == {"PROP_VALUE_QUOTED", "PROP_VALUE_QUOTED_CONT"}

OneLine ==
  [INSIDE  |-> Row({"newline"}, "OUTSIDE") @@ Row({AnyChar}, "INSIDE"),
   OUTSIDE |-> Row({"#"}, "INSIDE")]

(* Mutant: after "**" in a comment a "/" does not end it.                  *)
MultiLineStar ==
  [OUTSIDE      |-> Row({"/"}, "PROB_INSIDE"),
   PROB_INSIDE  |-> Row({"*"}, "INSIDE") @@ Row({AnyChar}, "OUTSIDE"),
   INSIDE       |-> Row({"*"}, "PROB_OUTSIDE") @@ Row({AnyChar}, "INSIDE"),
   PROB_OUTSIDE |-> Row({"/"}, "OUTSIDE") @@ Row({AnyChar}, "INSIDE")]
MultiLine ==
  [OUTSIDE      |-> Row({"/"}, "PROB_INSIDE"),
   PROB_INSIDE  |-> Row({"*"}, "INSIDE") @@ Row({AnyChar}, "OUTSIDE"),
   INSIDE       |-> Row({"*"}, "PROB_OUTSIDE") @@ Row({AnyChar}, "INSIDE"),
   PROB_OUTSIDE |-> Row({"/"}, "OUTSIDE") @@ Row({"*"}, "PROB_OUTSIDE") @@
                   Row({AnyChar}, "INSIDE")]

Table(ctx) == CASE ctx = "cont" -> Matrix [] ctx = "oneline" -> OneLine
                [] ctx = "multiline" -> MultiLine
Trigger == [c \in {"#", "/"} |-> IF c = "#" THEN "oneline" ELSE "multiline"]

VARIABLES
  machines,   \* cont.machines, each with its context and its state
  disabled,   \* cont.disable_triggers
  failed,     \* an exception has ended the parse
  fed,        \* history: what the tables of cont have consumed
  inp,        \* history: what was read
  nread

vars == <<machines, disabled, failed, fed, inp, nread>>
(* The first four in one record, as the calls pass them on.                *)
Now == [machines |-> machines, disabled |-> disabled, failed |-> failed, fed |-> fed]

Contexts == {"cont", "oneline", "multiline"}
TypeOK ==
  /\ \A i \in DOMAIN machines :
       /\ machines[i].ctx \in Contexts
       /\ machines[i].state \in DOMAIN Table(machines[i].ctx)
  /\ disabled \in BOOLEAN /\ failed \in BOOLEAN
  /\ fed \in Seq(Char) /\ inp \in Seq(Char) /\ nread \in 0 .. MaxLen

-----------------------------------------------------------------------------
(* machines[-1].send(c), when cont is the machine on top.                  *)
SendCont(m, c) ==
  LET s == Last(m.machines).state
      t == Target(Matrix, s, c)
  IN  IF ~ m.disabled /\ c \in DOMAIN Trigger
      THEN LET ctx == Trigger[c]
           IN  [m EXCEPT !.machines = Append(@, [ctx |-> ctx,
                                                 state |-> Target(Table(ctx), "OUTSIDE", c)])]
      ELSE IF t = Raised THEN [m EXCEPT !.failed = TRUE]
      ELSE [m EXCEPT !.machines = Moved(@, t), !.fed = Append(@, c),
                     !.disabled = IF t = "PROP_VALUE_QUOTED" THEN TRUE
                                  ELSE IF s = "PROP_VALUE_QUOTED_CONT" /\ c = "quote"
                                  THEN FALSE ELSE @]

(* Context.stop: back to the machine below, which reads the characters     *)
(* pushed back with its triggers off.                                      *)
Stop(m, pushback) ==
  LET send(x, c) == IF x.failed THEN x ELSE SendCont(x, c)
      last == FoldLeft(send, [m EXCEPT !.machines = Front(@), !.disabled = TRUE], pushback)
  IN  IF last.failed THEN last ELSE [last EXCEPT !.disabled = FALSE]

(* A comment stops when it is OUTSIDE again.                               *)
SendComment(m, c) ==
  LET top == Last(m.machines)
      t   == Target(Table(top.ctx), top.state, c)
  IN  IF t # "OUTSIDE" THEN [m EXCEPT !.machines = Moved(@, t)]
      ELSE Stop(m, IF top.ctx = "oneline" THEN <<"newline">>
                   ELSE IF top.state = "PROB_INSIDE" THEN <<"/", c>> ELSE <<>>)

(* The loop of process: the machine on top gets the character.             *)
Send(m, c) == IF Last(m.machines).ctx = "cont" THEN SendCont(m, c) ELSE SendComment(m, c)

Is(m) ==
  machines = m.machines /\ disabled = m.disabled /\ failed = m.failed /\ fed = m.fed

Read(c) ==
  /\ ~ failed /\ nread < MaxLen
  /\ LET m == Send(Now, c)
     IN  /\ machines' = m.machines /\ disabled' = m.disabled
         /\ failed' = m.failed /\ fed' = m.fed
  /\ inp' = Append(inp, c) /\ nread' = nread + 1

Fresh == [machines |-> <<[ctx |-> "cont", state |-> "OUT"]>>, disabled |-> FALSE,
          failed |-> FALSE, fed |-> <<>>]
Init ==
  \E text \in Starts : Is(FoldLeft(Send, Fresh, text)) /\ inp = text /\ nread = 0

Next == \E c \in Alphabet : Read(c)

Spec == Init /\ [][Next]_vars
-----------------------------------------------------------------------------
(* The input without its comments, said without any machine.               *)
FirstAt(s, from, P(_)) ==
  LET found == {j \in from .. Len(s) : P(j)}
  IN  IF found = {} THEN Len(s) + 1 ELSE CHOOSE j \in found : \A i \in found : j <= i
Stripped(s) ==
  LET newline(j) == s[j] = "newline"
      closes(j)  == s[j] = "/" /\ s[j - 1] = "*"
      quote(j)   == s[j] = "quote"
      n == Len(s)
      from[i \in 1 .. n + 2] ==
        IF i > n THEN <<>>
        ELSE IF s[i] = "#" THEN from[FirstAt(s, i + 1, newline)]
        ELSE IF s[i] = "/" /\ i = n THEN <<>>
        ELSE IF s[i] = "/" /\ s[i + 1] = "*" THEN from[FirstAt(s, i + 3, closes) + 1]
        ELSE IF s[i] = "quote"
        THEN LET j == FirstAt(s, i + 2, quote)
             IN  SubSeq(s, i, IF j > n THEN n ELSE j) \o from[j + 1]
        ELSE <<s[i]>> \o from[i + 1]
  IN  from[1]

(* conf2's grammar sees the text without its comments: nothing inside a    *)
(* comment reaches it, nothing outside one is lost, doubled or reordered   *)
(* by the characters that stop() pushes back, and quoted comment signs are *)
(* text.  Where the parse fails, it fails at the next character of it.     *)
CommentsVanish ==
  IF failed THEN IsStrictPrefix(fed, Stripped(inp)) ELSE fed = Stripped(inp)
=============================================================================
