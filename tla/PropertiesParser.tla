---------------------------- MODULE PropertiesParser ----------------------------
(***************************************************************************)
(* The parser of .properties files, src/src/neng/log/properties.c:62-303,  *)
(* as a function of its state and one character.  It is written to as the  *)
(* file is read, in blocks that may end anywhere.                          *)
(*                                                                         *)
(* Characters are told apart as far as the parser does; "eol" is LF or CR: *)
(* CR before LF ends a line itself, since the test that would skip it      *)
(* (properties.c:107) compares one character with both.                    *)
(***************************************************************************)
EXTENDS Integers, Sequences

Letters == {"a", "n"}    \* "n" has a meaning after a backslash
Characters == Letters \union {"blank", "equal", "eol", "nul", "hash", "backslash"}

\* What keys and values are made of: "lf" is what an escaped "n" stands for.
Contents == Letters \union {"blank", "equal", "backslash", "lf"}

\* status, as the comment at properties.c:101 numbers it
AtStart == 0
InName == 1
AfterName == 2
AtEqual == 3
AfterEqual == 4
InValue == 5
Wrapped == 6
InComment == 7

Start ==
  [status |-> AtStart, prevSpace |-> 0, haveEqual |-> FALSE, isEscape |-> FALSE,
   key |-> <<>>, val |-> <<>>]

\* Mutant: the escape stays on.
MutAppendString(s, ch, escape) ==
  IF escape THEN [s |-> Append(s, IF ch = "n" THEN "lf" ELSE ch), escape |-> TRUE]
  ELSE IF ch = "backslash" THEN [s |-> s, escape |-> TRUE]
  ELSE [s |-> Append(s, ch), escape |-> FALSE]

\* The text with the character, and whether a backslash is pending.
AppendString(s, ch, escape) ==
  IF ~escape
    THEN IF ch = "backslash" THEN [s |-> s, escape |-> TRUE]
         ELSE [s |-> Append(s, ch), escape |-> FALSE]
    ELSE [s |-> CASE ch = "n" -> Append(s, "lf")
                  [] ch = "backslash" -> Append(s, "backslash")
                  [] OTHER -> s \o <<"backslash", ch>>,
          escape |-> FALSE]

Blanks(k) == [j \in 1 .. k |-> "blank"]

\* Blanks inside a name come back when the name goes on; a backslash before
\* them is forgotten.
ToName(p, ch) ==
  LET r == AppendString(p.key \o Blanks(p.prevSpace), ch, p.isEscape /\ p.prevSpace = 0)
  IN  [p EXCEPT !.key = r.s, !.isEscape = r.escape, !.prevSpace = 0, !.status = InName]

ToValue(p, ch) ==
  LET r == AppendString(p.val, ch, p.isEscape)
  IN  [p EXCEPT !.val = r.s, !.isEscape = r.escape, !.status = InValue]

\* A backslash and a letter: a backslash that begins a name is not looked at
\* for what is before it.
OnText(p, ch) ==
  CASE p.status = AtStart /\ ch = "backslash" -> [p EXCEPT !.isEscape = TRUE, !.status = InName]
    [] p.status \in {AtStart, InName, AfterName} /\ ~(p.status = AtStart /\ ch = "backslash") -> ToName(p, ch)
    [] p.status \in {AtEqual, AfterEqual, InValue, Wrapped} -> ToValue(p, ch)
    [] p.status = InComment -> p

OnBlank(p) ==
  CASE p.status = InName -> [p EXCEPT !.isEscape = FALSE, !.prevSpace = @ + 1, !.status = AfterName]
    [] p.status = AfterName -> [p EXCEPT !.prevSpace = @ + 1]
    [] p.status = AtEqual -> [p EXCEPT !.status = AfterEqual]
    [] p.status = InValue -> ToValue(p, "blank")
    [] p.status \in {AtStart, AfterEqual, Wrapped, InComment} -> p

\* "=" or ":".
OnEqual(p) ==
  CASE p.status = AtStart -> [p EXCEPT !.haveEqual = TRUE, !.status = AtEqual]
    [] p.status = InName -> [p EXCEPT !.haveEqual = TRUE, !.isEscape = FALSE, !.status = AtEqual]
    [] p.status = AfterName -> [p EXCEPT !.haveEqual = TRUE, !.prevSpace = 0, !.status = AtEqual]
    [] p.status \in {AtEqual, AfterEqual, InValue, Wrapped} -> ToValue(p, "equal")
    [] p.status = InComment -> p

Wraps(p, ch) == p.isEscape /\ p.status >= AtEqual /\ ch # "nul"

\* Mutant: the value keeps the end of the line.
MutOnEnd(p, ch) ==
  IF Wraps(p, ch) THEN [p EXCEPT !.isEscape = FALSE, !.status = Wrapped, !.val = Append(@, "eol")]
  ELSE [Start EXCEPT !.isEscape = p.isEscape]

\* The pending backslash is the one thing that a line hands to the next.
OnEnd(p, ch) ==
  IF Wraps(p, ch) THEN [p EXCEPT !.isEscape = FALSE, !.status = Wrapped]
  ELSE [Start EXCEPT !.isEscape = p.isEscape]

Step(p, ch) ==
  CASE ch = "blank" -> OnBlank(p)
    [] ch = "equal" -> OnEqual(p)
    [] ch \in {"eol", "nul"} -> OnEnd(p, ch)
    [] ch = "hash" -> [p EXCEPT !.status = InComment]
    [] ch \in Letters \union {"backslash"} -> OnText(p, ch)

\* RB_INSERT: the first property of a name stays.
Insert(tree, name, value) ==
  IF \E e \in tree : e.name = name THEN tree
  ELSE tree \union {[name |-> name, property |-> value]}

\* The properties read, after the character.
StepTree(tree, p, ch) ==
  IF ch \in {"eol", "nul"} /\ ~Wraps(p, ch) /\ p.haveEqual /\ p.key # <<>>
    THEN Insert(tree, p.key, p.val)
    ELSE tree
=============================================================================
