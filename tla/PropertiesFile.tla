----------------------------- MODULE PropertiesFile -----------------------------
(***************************************************************************)
(* A .properties file and the parser that reads it.  The writer of the     *)
(* file puts down one element after the other - a letter, an escape, a     *)
(* wrapped line, a comment - and knows the properties it means; the parser *)
(* gets the characters.                                                    *)
(***************************************************************************)
EXTENDS PropertiesParser

CONSTANT MaxElements   \* bound: elements of a file

ASSUME FileAssumption == MaxElements \in Nat

VARIABLES
  parser,    \* the PropertiesParser of _neng_log_properties_read_file
  tree,      \* the properties it has put under root
  line,      \* the line being written: where it is, and what it means
  meant,     \* the properties that the finished lines mean
  elements,  \* elements written so far
  handle     \* what _neng_log_properties_read_file is about: "reading", "held" or "null"

vars == <<parser, tree, line, meant, elements, handle>>

NoLine == [at |-> "start", gap |-> 0, equal |-> FALSE, name |-> <<>>, value |-> <<>>]

\* open or calloc may fail; a file whose root cannot be allocated stays open.
Init ==
  /\ handle \in {"reading", "null"}
  /\ parser = Start /\ tree = {}
  /\ line = NoLine /\ meant = {}
  /\ elements = 0

\* The parser and the tree after one more character, and after an element, which has
\* one or two.
Feed(r, ch) == [p |-> Step(r.p, ch), t |-> StepTree(r.t, r.p, ch)]
FeedAll(r, chars) ==
  IF Len(chars) = 1 THEN Feed(r, chars[1]) ELSE Feed(Feed(r, chars[1]), chars[2])

\* The parser gets the characters of an element.
Write(chars) ==
  LET next == FeedAll([p |-> parser, t |-> tree], chars)
  IN  /\ handle = "reading" /\ elements < MaxElements
      /\ elements' = elements + 1
      /\ parser' = next.p
      /\ tree' = next.t

\* An element of a name or value: its characters, and what they mean.
Plain == {[chars |-> <<c>>, means |-> <<c>>] : c \in Letters}
Escaped ==
  {[chars |-> <<"backslash", "n">>, means |-> <<"lf">>],
   [chars |-> <<"backslash", "backslash">>, means |-> <<"backslash">>],
   [chars |-> <<"backslash", "a">>, means |-> <<"backslash", "a">>]}
Equal == {[chars |-> <<"equal">>, means |-> <<"equal">>]}
Blank == {[chars |-> <<"blank">>, means |-> <<"blank">>]}

\* Blanks count inside a name, not around it.
WriteName(e) ==
  /\ line.at \in {"start", "name", "gap"}
  /\ Write(e.chars)
  /\ line' = [line EXCEPT !.at = "name", !.name = @ \o Blanks(line.gap) \o e.means, !.gap = 0]
  /\ UNCHANGED <<meant, handle>>

WriteGap ==
  /\ line.at \in {"name", "gap"}
  /\ Write(<<"blank">>)
  /\ line' = [line EXCEPT !.at = "gap", !.gap = @ + 1]
  /\ UNCHANGED <<meant, handle>>

WriteEqual ==
  /\ line.at \in {"start", "name", "gap"}
  /\ Write(<<"equal">>)
  /\ line' = [line EXCEPT !.at = "equal", !.equal = TRUE, !.gap = 0]
  /\ UNCHANGED <<meant, handle>>

WriteValue(e) ==
  /\ line.at \in {"equal", "value"}
  /\ e \in Blank => line.at = "value"
  /\ Write(e.chars)
  /\ line' = [line EXCEPT !.at = "value", !.value = @ \o e.means]
  /\ UNCHANGED <<meant, handle>>

\* Blanks that mean nothing: before a name, before a value, in a comment.
WriteIndent ==
  /\ line.at \in {"start", "equal", "comment"}
  /\ Write(<<"blank">>)
  /\ UNCHANGED <<line, meant, handle>>

\* A value goes on in the next line.
WriteWrap ==
  /\ line.at \in {"equal", "value"}
  /\ Write(<<"backslash", "eol">>)
  /\ line' = [line EXCEPT !.at = "equal"]
  /\ UNCHANGED <<meant, handle>>

WriteComment ==
  /\ \E ch \in {"hash", "equal", "backslash"} :
       (line.at = "comment" \/ ch = "hash") /\ Write(<<ch>>)
  /\ line' = [line EXCEPT !.at = "comment"]
  /\ UNCHANGED <<meant, handle>>

\* A line without a name or without "=" means nothing.
LineMeans == IF line.equal /\ line.name # <<>> THEN Insert(meant, line.name, line.value) ELSE meant

WriteEnd(ch) ==
  /\ Write(<<ch>>)
  /\ line' = NoLine
  /\ meant' = LineMeans
  /\ UNCHANGED handle

\* read returns 0: the parser gets a NUL, which ends a last line that has no end,
\* and is cleared.
EndOfFile ==
  /\ handle = "reading"
  /\ tree' = StepTree(tree, parser, "nul")
  /\ parser' = Start /\ line' = NoLine
  /\ meant' = LineMeans
  /\ handle' = "held"
  /\ UNCHANGED elements

\* read fails: the caller gets NULL.  Only the root is freed, so that what was
\* read before is lost.
ReadFails ==
  /\ handle = "reading"
  /\ parser' = Start /\ tree' = {}
  /\ handle' = "null"
  /\ UNCHANGED <<line, meant, elements>>

\* _neng_log_properties_clear.
Clear ==
  /\ handle = "held"
  /\ tree' = {}
  /\ handle' = "null"
  /\ UNCHANGED <<parser, line, meant, elements>>

Next ==
  \/ \E e \in Plain \union Escaped : WriteName(e)
  \/ WriteGap
  \/ WriteEqual
  \/ \E e \in Plain \union Escaped \union Equal \union Blank : WriteValue(e)
  \/ WriteIndent
  \/ WriteWrap
  \/ WriteComment
  \/ \E ch \in {"eol", "nul"} : WriteEnd(ch)
  \/ EndOfFile
  \/ ReadFails
  \/ Clear

Spec == Init /\ [][Next]_vars

-----------------------------------------------------------------------------
TypeOK ==
  /\ parser.status \in AtStart .. InComment /\ parser.prevSpace \in Nat
  /\ parser.haveEqual \in BOOLEAN /\ parser.isEscape \in BOOLEAN
  /\ parser.key \in Seq(Contents) /\ parser.val \in Seq(Contents)
  /\ \A e \in tree \union meant : e.name \in Seq(Contents) /\ e.property \in Seq(Contents)
  /\ elements \in 0 .. MaxElements
  /\ handle \in {"reading", "held", "null"}

(* The parser finds the properties that the lines mean: escapes in names and   *)
(* values, "=" in values, blanks around and inside, wrapped values, comments   *)
(* at the end of a line, duplicate names and a last line without an end, in    *)
(* any order over the lines of a file; a file that cannot be read gives none   *)
(* (properties.c:99-356).                                                      *)
ReadsAsWritten == tree = IF handle = "null" THEN {} ELSE meant
=============================================================================
