-------------------------- MODULE PropertiesFileProofs --------------------------
(***************************************************************************)
(* Theorems about the parser of .properties files: whatever is written, it *)
(* reads what was meant.  The parser has no memory of the file; what it    *)
(* keeps is told by the line that is being written.                        *)
(***************************************************************************)
EXTENDS PropertiesFile, SequenceTheorems, TLAPS

Text == Seq(Contents)

Parser ==
  [status : AtStart .. InComment, prevSpace : Nat, haveEqual : BOOLEAN, isEscape : BOOLEAN,
   key : Text, val : Text]

Line ==
  [at : {"start", "name", "gap", "equal", "value", "comment"}, gap : Nat,
   equal : BOOLEAN, name : Text, value : Text]

Property == [name : Text, property : Text]

\* The states of the parser at a place of a line.  Blanks before a value and a wrap
\* make no difference to the line.
StatusAt(at) ==
  CASE at = "start" -> {AtStart}
    [] at = "name" -> {InName}
    [] at = "gap" -> {AfterName}
    [] at = "equal" -> {AtEqual, AfterEqual, Wrapped}
    [] at = "value" -> {InValue}
    [] at = "comment" -> {InComment}

\* Between two elements the parser has the line as far as it is written, and no
\* backslash is pending.
Follows ==
  /\ parser.status \in StatusAt(line.at)
  /\ ~parser.isEscape
  /\ parser.prevSpace = line.gap
  /\ parser.haveEqual = line.equal
  /\ parser.key = line.name
  /\ parser.val = line.value

\* What a line can be: nothing at its start, blanks only behind a name.
LineShape ==
  /\ line.at = "start" => line = NoLine
  /\ line.gap # 0 => line.at \in {"gap", "comment"}

FileType ==
  /\ parser \in Parser
  /\ line \in Line
  /\ tree \in SUBSET Property
  /\ meant \in SUBSET Property
  /\ elements \in 0 .. MaxElements
  /\ handle \in {"reading", "held", "null"}

FileInv ==
  /\ FileType
  /\ LineShape
  /\ handle = "reading" => Follows
  /\ ReadsAsWritten

-----------------------------------------------------------------------------
(* Text. *)

LEMMA TextFacts ==
  /\ \A k \in Nat : Blanks(k) \in Text
  /\ \A s \in Text : s \o Blanks(0) = s
  /\ \A s, t \in Text : s \o t \in Text
  /\ \A s \in Text, c \in Contents : Append(s, c) \in Text /\ Append(s, c) = s \o <<c>>
  /\ <<>> \in Text
  /\ \A c, d \in Contents : <<c>> \in Text /\ <<c, d>> \in Text
<1>1. \A k \in Nat : Blanks(k) \in Text
  BY IsASeq DEF Blanks, Text, Contents
<1>2. ASSUME NEW s \in Text PROVE s \o Blanks(0) = s
  <2>1. Blanks(0) = <<>>
    BY DEF Blanks
  <2>2. QED BY <2>1, ConcatEmptySeq DEF Text
<1>3. ASSUME NEW s \in Text, NEW c \in Contents
      PROVE  Append(s, c) \in Text /\ Append(s, c) = s \o <<c>>
  BY AppendProperties, AppendIsConcat DEF Text
<1>4. \A s, t \in Text : s \o t \in Text
  BY ConcatProperties DEF Text
<1>5. <<>> \in Text
  BY EmptySeq DEF Text
<1>6. ASSUME NEW c \in Contents, NEW d \in Contents
      PROVE  <<c>> \in Text /\ <<c, d>> \in Text
  <2>1. <<c>> = Append(<<>>, c) /\ <<c, d>> = Append(Append(<<>>, c), d)
    OBVIOUS
  <2>2. QED BY <1>3, <1>5, <2>1
<1>7. QED BY <1>1, <1>2, <1>3, <1>4, <1>5, <1>6

\* A character is put behind a text, with the meaning that a backslash gives it.
LEMMA AppendsText ==
  ASSUME NEW s \in Text, NEW ch \in Letters \union {"backslash", "equal", "blank"}, NEW escape \in BOOLEAN
  PROVE  /\ AppendString(s, ch, escape).s \in Text
         /\ AppendString(s, ch, escape).escape \in BOOLEAN
         /\ ch # "backslash" => AppendString(s, ch, FALSE) = [s |-> s \o <<ch>>, escape |-> FALSE]
         /\ AppendString(s, "backslash", FALSE) = [s |-> s, escape |-> TRUE]
         /\ AppendString(s, "n", TRUE) = [s |-> s \o <<"lf">>, escape |-> FALSE]
         /\ AppendString(s, "backslash", TRUE) = [s |-> s \o <<"backslash">>, escape |-> FALSE]
         /\ ch \notin {"n", "backslash"} =>
              AppendString(s, ch, TRUE) = [s |-> s \o <<"backslash", ch>>, escape |-> FALSE]
<1> USE DEF AppendString, Letters
<1>1. "lf" \in Contents /\ "backslash" \in Contents /\ ch \in Contents
  BY DEF Contents
<1>2. QED BY <1>1, TextFacts

\* A name of which something is read, and one that ends in a pending backslash.
Named(p, key) == [p EXCEPT !.key = key, !.isEscape = FALSE, !.prevSpace = 0, !.status = InName]
Pending(p, key) == [p EXCEPT !.key = key, !.isEscape = TRUE, !.prevSpace = 0, !.status = InName]

LEMMA ParserState ==
  ASSUME NEW status \in AtStart .. InComment, NEW prevSpace \in Nat, NEW haveEqual \in BOOLEAN,
         NEW isEscape \in BOOLEAN, NEW key \in Text, NEW val \in Text
  PROVE  [status |-> status, prevSpace |-> prevSpace, haveEqual |-> haveEqual, isEscape |-> isEscape,
          key |-> key, val |-> val] \in Parser
BY DEF Parser

LEMMA NamedFields ==
  ASSUME NEW p \in Parser, NEW key \in Text, NEW q, q = Named(p, key)
  PROVE  /\ q \in Parser
         /\ q.key = key /\ q.val = p.val /\ q.haveEqual = p.haveEqual
         /\ ~q.isEscape /\ q.prevSpace = 0 /\ q.status = InName
<1>1. q = [status |-> InName, prevSpace |-> 0, haveEqual |-> p.haveEqual, isEscape |-> FALSE,
           key |-> key, val |-> p.val]
  BY DEF Named, Parser
<1>2. q \in Parser
  <2>1. p.haveEqual \in BOOLEAN /\ p.val \in Text /\ InName \in AtStart .. InComment
    BY DEF Parser, InName, AtStart, InComment
  <2>2. QED BY <1>1, <2>1, ParserState
<1>3. ~q.isEscape
  BY DEF Named, Parser
<1>4. q.key = key /\ q.val = p.val /\ q.haveEqual = p.haveEqual /\ q.prevSpace = 0 /\ q.status = InName
  BY DEF Named, Parser
<1>5. QED BY <1>2, <1>3, <1>4

LEMMA PendingFields ==
  ASSUME NEW p \in Parser, NEW key \in Text, NEW q, q = Pending(p, key)
  PROVE  /\ q.isEscape /\ q.prevSpace = 0 /\ q.key = key /\ q.status = InName
         /\ \A k \in Text : Named(q, k) = Named(p, k)
<1>1. q.isEscape
  BY DEF Pending, Parser
<1>2. q.prevSpace = 0 /\ q.key = key /\ q.status = InName
  BY DEF Pending, Parser
<1>3. ASSUME NEW k \in Text PROVE Named(q, k) = Named(p, k)
  BY DEF Named, Pending, Parser
<1>4. QED BY <1>1, <1>2, <1>3

LEMMA ToNameIs ==
  ASSUME NEW p, NEW ch, NEW s
  PROVE  LET r == AppendString(p.key \o Blanks(p.prevSpace), ch, p.isEscape /\ p.prevSpace = 0)
         IN  /\ r = [s |-> s, escape |-> FALSE] => ToName(p, ch) = Named(p, s)
             /\ r = [s |-> s, escape |-> TRUE] => ToName(p, ch) = Pending(p, s)
<1>1. PICK r : r = AppendString(p.key \o Blanks(p.prevSpace), ch, p.isEscape /\ p.prevSpace = 0)
  OBVIOUS
<1>2. ToName(p, ch) = [p EXCEPT !.key = r.s, !.isEscape = r.escape, !.prevSpace = 0, !.status = InName]
  BY <1>1, Zenon DEF ToName
<1>3. ASSUME r = [s |-> s, escape |-> FALSE] PROVE ToName(p, ch) = Named(p, s)
  <2>1. r.s = s
    BY <1>3
  <2>2. r.escape = FALSE
    BY <1>3
  <2>3. QED BY <1>2, <2>1, <2>2, Zenon DEF Named
<1>4. ASSUME r = [s |-> s, escape |-> TRUE] PROVE ToName(p, ch) = Pending(p, s)
  <2>1. r.s = s
    BY <1>4
  <2>2. r.escape = TRUE
    BY <1>4
  <2>3. QED BY <1>2, <2>1, <2>2, Zenon DEF Pending
<1>5. QED BY <1>1, <1>3, <1>4, Zenon

LEMMA TextInName ==
  ASSUME NEW p, NEW ch \in Letters \union {"backslash"}, NEW t,
         p.status \in {AtStart, InName, AfterName}, ch = "backslash" => p.status # AtStart
  PROVE  Feed([p |-> p, t |-> t], ch) = [p |-> ToName(p, ch), t |-> t]
<1>1. OnText(p, ch) = ToName(p, ch)
  BY DEF OnText, AtStart, InName, AfterName, AtEqual, AfterEqual, InValue, Wrapped, InComment
<1>2. QED BY <1>1 DEF Feed, Step, StepTree, Letters

LEMMA NameElement ==
  ASSUME NEW p \in Parser, NEW t, NEW e \in Plain \union Escaped,
         p.status \in {AtStart, InName, AfterName}, ~p.isEscape,
         p.status = AfterName \/ p.prevSpace = 0
  PROVE  FeedAll([p |-> p, t |-> t], e.chars)
           = [p |-> Named(p, p.key \o Blanks(p.prevSpace) \o e.means), t |-> t]
<1> DEFINE before == p.key \o Blanks(p.prevSpace)
<1>1. before \in Text /\ p.prevSpace \in Nat /\ p.key \in Text
  BY TextFacts DEF Parser
<1>2. (p.isEscape /\ p.prevSpace = 0) = FALSE
  OBVIOUS
<1>3. ASSUME NEW ch \in Letters
      PROVE  Feed([p |-> p, t |-> t], ch) = [p |-> Named(p, before \o <<ch>>), t |-> t]
  <2>1. ch # "backslash"
    BY DEF Letters
  <2>2. AppendString(before, ch, p.isEscape /\ p.prevSpace = 0) = [s |-> before \o <<ch>>, escape |-> FALSE]
    BY <1>1, <1>2, <2>1, AppendsText
  <2>3. ToName(p, ch) = Named(p, before \o <<ch>>)
    BY <2>2, ToNameIs, Zenon
  <2>4. Feed([p |-> p, t |-> t], ch) = [p |-> ToName(p, ch), t |-> t]
    BY <2>1, TextInName
  <2>5. QED BY <2>3, <2>4, Zenon
<1>4. Feed([p |-> p, t |-> t], "backslash") = [p |-> Pending(p, before), t |-> t]
  <2>1. CASE p.status = AtStart
    <3>1. OnText(p, "backslash") = [p EXCEPT !.isEscape = TRUE, !.status = InName]
      BY <2>1 DEF OnText, AtStart, AtEqual, AfterEqual, InValue, Wrapped, InComment
    <3>2. p.prevSpace = 0
      BY <2>1 DEF AtStart, AfterName
    <3>3. before = p.key
      BY <1>1, <3>2, TextFacts
    <3>4. Pending(p, p.key) = [p EXCEPT !.isEscape = TRUE, !.status = InName]
      BY <3>2 DEF Pending, Parser
    <3>5. QED BY <3>1, <3>3, <3>4 DEF Feed, Step, StepTree, Letters
  <2>2. CASE p.status # AtStart
    <3>1. AppendString(before, "backslash", p.isEscape /\ p.prevSpace = 0) = [s |-> before, escape |-> TRUE]
      BY <1>1, <1>2, AppendsText
    <3>2. ToName(p, "backslash") = Pending(p, before)
      BY <3>1, ToNameIs, Zenon
    <3>3. Feed([p |-> p, t |-> t], "backslash") = [p |-> ToName(p, "backslash"), t |-> t]
      BY <2>2, TextInName
    <3>4. QED BY <3>2, <3>3, Zenon
  <2>3. QED BY <2>1, <2>2
<1>5. ASSUME NEW ch \in {"n", "backslash", "a"}, NEW means \in Text,
             AppendString(before, ch, TRUE) = [s |-> before \o means, escape |-> FALSE]
      PROVE  Feed([p |-> Pending(p, before), t |-> t], ch)
               = [p |-> Named(p, before \o means), t |-> t]
  <2>1. PICK q : q = Pending(p, before)
    OBVIOUS
  <2>2. /\ q.isEscape /\ q.prevSpace = 0 /\ q.key = before /\ q.status = InName
        /\ \A k \in Text : Named(q, k) = Named(p, k)
    <3>1. before \in Text
      BY <1>1
    <3> HIDE DEF before
    <3>2. QED BY <2>1, <3>1, PendingFields
  <2>3. q.key \o Blanks(q.prevSpace) = before
    BY <2>2, <1>1, TextFacts
  <2>4. (q.isEscape /\ q.prevSpace = 0) = TRUE
    BY <2>2
  <2>5. ToName(q, ch) = Named(q, before \o means)
    <3>1. AppendString(q.key \o Blanks(q.prevSpace), ch, q.isEscape /\ q.prevSpace = 0)
            = [s |-> before \o means, escape |-> FALSE]
      BY <1>5, <2>3, <2>4, Zenon
    <3>2. QED BY <3>1, ToNameIs, Zenon
  <2>6. Feed([p |-> q, t |-> t], ch) = [p |-> ToName(q, ch), t |-> t]
    BY <2>2, TextInName DEF Letters, AtStart, InName
  <2>7. Named(q, before \o means) = Named(p, before \o means)
    <3>1. before \o means \in Text
      BY <1>1, TextFacts
    <3>2. QED BY <2>2, <3>1
  <2>8. QED BY <2>1, <2>5, <2>6, <2>7, Zenon
<1>6. CASE e \in Plain
  <2>1. PICK c \in Letters : e = [chars |-> <<c>>, means |-> <<c>>]
    BY <1>6 DEF Plain
  <2>2. QED BY <1>3, <2>1 DEF FeedAll
<1>7. CASE e \in Escaped
  <2>1. PICK ch \in {"n", "backslash", "a"} :
          /\ e.chars = <<"backslash", ch>>
          /\ e.means \in Text
          /\ AppendString(before, ch, TRUE) = [s |-> before \o e.means, escape |-> FALSE]
    <3>1. \A c, d \in Contents : <<c>> \in Text /\ <<c, d>> \in Text
      BY TextFacts
    <3>2. CASE e = [chars |-> <<"backslash", "n">>, means |-> <<"lf">>]
      BY <1>1, <3>1, <3>2, AppendsText DEF Contents, Letters
    <3>3. CASE e = [chars |-> <<"backslash", "backslash">>, means |-> <<"backslash">>]
      BY <1>1, <3>1, <3>3, AppendsText DEF Contents, Letters
    <3>4. CASE e = [chars |-> <<"backslash", "a">>, means |-> <<"backslash", "a">>]
      BY <1>1, <3>1, <3>4, AppendsText DEF Contents, Letters
    <3>5. QED BY <1>7, <3>2, <3>3, <3>4 DEF Escaped
  <2>2. FeedAll([p |-> p, t |-> t], e.chars) = Feed(Feed([p |-> p, t |-> t], "backslash"), ch)
    BY <2>1 DEF FeedAll
  <2>3. QED BY <1>4, <1>5, <2>1, <2>2
<1>8. QED BY <1>6, <1>7

-----------------------------------------------------------------------------
(* Values, in the same way. *)

Valued(p, val) == [p EXCEPT !.val = val, !.isEscape = FALSE, !.status = InValue]
ValuePending(p, val) == [p EXCEPT !.val = val, !.isEscape = TRUE, !.status = InValue]

LEMMA ValuedFields ==
  ASSUME NEW p \in Parser, NEW val \in Text, NEW q, q = Valued(p, val)
  PROVE  /\ q \in Parser
         /\ q.key = p.key /\ q.val = val /\ q.haveEqual = p.haveEqual
         /\ ~q.isEscape /\ q.prevSpace = p.prevSpace /\ q.status = InValue
<1>1. q = [status |-> InValue, prevSpace |-> p.prevSpace, haveEqual |-> p.haveEqual, isEscape |-> FALSE,
           key |-> p.key, val |-> val]
  BY DEF Valued, Parser
<1>2. q \in Parser
  <2>1. /\ p.haveEqual \in BOOLEAN /\ p.key \in Text /\ p.prevSpace \in Nat
        /\ InValue \in AtStart .. InComment
    BY DEF Parser, InValue, AtStart, InComment
  <2>2. QED BY <1>1, <2>1, ParserState
<1>3. ~q.isEscape
  BY DEF Valued, Parser
<1>4. /\ q.key = p.key /\ q.val = val /\ q.haveEqual = p.haveEqual
      /\ q.prevSpace = p.prevSpace /\ q.status = InValue
  BY DEF Valued, Parser
<1>5. QED BY <1>2, <1>3, <1>4

LEMMA ValuePendingFields ==
  ASSUME NEW p \in Parser, NEW val \in Text, NEW q, q = ValuePending(p, val)
  PROVE  /\ q.isEscape /\ q.val = val /\ q.status = InValue
         /\ \A v \in Text : Valued(q, v) = Valued(p, v)
<1>1. q.isEscape
  BY DEF ValuePending, Parser
<1>2. q.val = val /\ q.status = InValue
  BY DEF ValuePending, Parser
<1>3. ASSUME NEW v \in Text PROVE Valued(q, v) = Valued(p, v)
  BY DEF Valued, ValuePending, Parser
<1>4. QED BY <1>1, <1>2, <1>3

LEMMA ToValueIs ==
  ASSUME NEW p, NEW ch, NEW s
  PROVE  LET r == AppendString(p.val, ch, p.isEscape)
         IN  /\ r = [s |-> s, escape |-> FALSE] => ToValue(p, ch) = Valued(p, s)
             /\ r = [s |-> s, escape |-> TRUE] => ToValue(p, ch) = ValuePending(p, s)
<1>1. PICK r : r = AppendString(p.val, ch, p.isEscape)
  OBVIOUS
<1>2. ToValue(p, ch) = [p EXCEPT !.val = r.s, !.isEscape = r.escape, !.status = InValue]
  BY <1>1, Zenon DEF ToValue
<1>3. ASSUME r = [s |-> s, escape |-> FALSE] PROVE ToValue(p, ch) = Valued(p, s)
  <2>1. r.s = s
    BY <1>3
  <2>2. r.escape = FALSE
    BY <1>3
  <2>3. QED BY <1>2, <2>1, <2>2, Zenon DEF Valued
<1>4. ASSUME r = [s |-> s, escape |-> TRUE] PROVE ToValue(p, ch) = ValuePending(p, s)
  <2>1. r.s = s
    BY <1>4
  <2>2. r.escape = TRUE
    BY <1>4
  <2>3. QED BY <1>2, <2>1, <2>2, Zenon DEF ValuePending
<1>5. QED BY <1>1, <1>3, <1>4, Zenon

LEMMA TextInValue ==
  ASSUME NEW p, NEW ch \in Letters \union {"backslash", "equal", "blank"}, NEW t,
         p.status \in {AtEqual, AfterEqual, InValue, Wrapped}, ch = "blank" => p.status = InValue
  PROVE  Feed([p |-> p, t |-> t], ch) = [p |-> ToValue(p, ch), t |-> t]
<1> USE DEF AtStart, InName, AfterName, AtEqual, AfterEqual, InValue, Wrapped, InComment
<1>1. CASE ch \in Letters \union {"backslash"}
  <2>1. OnText(p, ch) = ToValue(p, ch)
    BY DEF OnText
  <2>2. QED BY <1>1, <2>1 DEF Feed, Step, StepTree, Letters
<1>2. CASE ch = "equal"
  <2>1. OnEqual(p) = ToValue(p, "equal")
    BY DEF OnEqual
  <2>2. QED BY <1>2, <2>1 DEF Feed, Step, StepTree, Letters
<1>3. CASE ch = "blank"
  <2>1. OnBlank(p) = ToValue(p, "blank")
    BY <1>3 DEF OnBlank
  <2>2. QED BY <1>3, <2>1 DEF Feed, Step, StepTree, Letters
<1>4. QED BY <1>1, <1>2, <1>3

LEMMA ValueElement ==
  ASSUME NEW p \in Parser, NEW t, NEW e \in Plain \union Escaped \union Equal \union Blank,
         p.status \in {AtEqual, AfterEqual, InValue, Wrapped}, ~p.isEscape,
         e \in Blank => p.status = InValue
  PROVE  FeedAll([p |-> p, t |-> t], e.chars) = [p |-> Valued(p, p.val \o e.means), t |-> t]
<1>1. p.val \in Text
  BY DEF Parser
<1>2. p.isEscape = FALSE
  BY DEF Parser
<1>3. ASSUME NEW ch \in Letters \union {"equal", "blank"}, ch = "blank" => p.status = InValue
      PROVE  Feed([p |-> p, t |-> t], ch) = [p |-> Valued(p, p.val \o <<ch>>), t |-> t]
  <2>1. ch # "backslash"
    BY DEF Letters
  <2>2. AppendString(p.val, ch, p.isEscape) = [s |-> p.val \o <<ch>>, escape |-> FALSE]
    BY <1>1, <1>2, <2>1, AppendsText
  <2>3. ToValue(p, ch) = Valued(p, p.val \o <<ch>>)
    BY <2>2, ToValueIs, Zenon
  <2>4. Feed([p |-> p, t |-> t], ch) = [p |-> ToValue(p, ch), t |-> t]
    BY <1>3, TextInValue
  <2>5. QED BY <2>3, <2>4, Zenon
<1>4. Feed([p |-> p, t |-> t], "backslash") = [p |-> ValuePending(p, p.val), t |-> t]
  <2>1. AppendString(p.val, "backslash", p.isEscape) = [s |-> p.val, escape |-> TRUE]
    BY <1>1, <1>2, AppendsText
  <2>2. ToValue(p, "backslash") = ValuePending(p, p.val)
    BY <2>1, ToValueIs, Zenon
  <2>3. Feed([p |-> p, t |-> t], "backslash") = [p |-> ToValue(p, "backslash"), t |-> t]
    BY TextInValue
  <2>4. QED BY <2>2, <2>3, Zenon
<1>5. ASSUME NEW ch \in {"n", "backslash", "a"}, NEW means \in Text,
             AppendString(p.val, ch, TRUE) = [s |-> p.val \o means, escape |-> FALSE]
      PROVE  Feed([p |-> ValuePending(p, p.val), t |-> t], ch) = [p |-> Valued(p, p.val \o means), t |-> t]
  <2>1. PICK q : q = ValuePending(p, p.val)
    OBVIOUS
  <2>2. /\ q.isEscape /\ q.val = p.val /\ q.status = InValue
        /\ \A v \in Text : Valued(q, v) = Valued(p, v)
    BY <1>1, <2>1, ValuePendingFields
  <2>3. q.isEscape = TRUE
    BY <2>1 DEF ValuePending, Parser
  <2>4. ToValue(q, ch) = Valued(q, p.val \o means)
    <3>1. AppendString(q.val, ch, q.isEscape) = [s |-> p.val \o means, escape |-> FALSE]
      BY <1>5, <2>2, <2>3, Zenon
    <3>2. QED BY <3>1, ToValueIs, Zenon
  <2>5. Feed([p |-> q, t |-> t], ch) = [p |-> ToValue(q, ch), t |-> t]
    BY <2>2, TextInValue DEF Letters
  <2>6. Valued(q, p.val \o means) = Valued(p, p.val \o means)
    <3>1. p.val \o means \in Text
      BY <1>1, TextFacts
    <3>2. QED BY <2>2, <3>1
  <2>7. QED BY <2>1, <2>4, <2>5, <2>6, Zenon
<1>6. CASE e \in Plain \union Equal \union Blank
  <2>1. PICK c \in Letters \union {"equal", "blank"} :
          e = [chars |-> <<c>>, means |-> <<c>>] /\ (c = "blank" => p.status = InValue)
    BY <1>6 DEF Plain, Equal, Blank, Letters
  <2>2. QED BY <1>3, <2>1 DEF FeedAll
<1>7. CASE e \in Escaped
  <2>1. PICK ch \in {"n", "backslash", "a"} :
          /\ e.chars = <<"backslash", ch>>
          /\ e.means \in Text
          /\ AppendString(p.val, ch, TRUE) = [s |-> p.val \o e.means, escape |-> FALSE]
    <3>1. \A c, d \in Contents : <<c>> \in Text /\ <<c, d>> \in Text
      BY TextFacts
    <3>2. CASE e = [chars |-> <<"backslash", "n">>, means |-> <<"lf">>]
      BY <1>1, <3>1, <3>2, AppendsText DEF Contents, Letters
    <3>3. CASE e = [chars |-> <<"backslash", "backslash">>, means |-> <<"backslash">>]
      BY <1>1, <3>1, <3>3, AppendsText DEF Contents, Letters
    <3>4. CASE e = [chars |-> <<"backslash", "a">>, means |-> <<"backslash", "a">>]
      BY <1>1, <3>1, <3>4, AppendsText DEF Contents, Letters
    <3>5. QED BY <1>7, <3>2, <3>3, <3>4 DEF Escaped
  <2>2. FeedAll([p |-> p, t |-> t], e.chars) = Feed(Feed([p |-> p, t |-> t], "backslash"), ch)
    BY <2>1 DEF FeedAll
  <2>3. QED BY <1>4, <1>5, <2>1, <2>2
<1>8. QED BY <1>6, <1>7

-----------------------------------------------------------------------------
(* The other characters of a line. *)

LEMMA BlankOutside ==
  ASSUME NEW p \in Parser, NEW t, p.status \in {AtStart, AtEqual, AfterEqual, Wrapped, InComment}
  PROVE  \E q \in Parser :
           /\ Feed([p |-> p, t |-> t], "blank") = [p |-> q, t |-> t]
           /\ q.status = IF p.status = AtEqual THEN AfterEqual ELSE p.status
           /\ q.isEscape = p.isEscape /\ q.prevSpace = p.prevSpace /\ q.haveEqual = p.haveEqual
           /\ q.key = p.key /\ q.val = p.val
<1> USE DEF AtStart, InName, AfterName, AtEqual, AfterEqual, InValue, Wrapped, InComment
<1>1. Feed([p |-> p, t |-> t], "blank") = [p |-> OnBlank(p), t |-> t]
  BY DEF Feed, Step, StepTree, Letters
<1>2. CASE p.status = AtEqual
  <2>1. OnBlank(p) = [p EXCEPT !.status = AfterEqual]
    BY <1>2 DEF OnBlank
  <2>2. [p EXCEPT !.status = AfterEqual] \in Parser
    BY DEF Parser
  <2>3. QED BY <1>1, <1>2, <2>1, <2>2 DEF Parser
<1>3. CASE p.status # AtEqual
  <2>1. OnBlank(p) = p
    BY <1>3 DEF OnBlank
  <2>2. QED BY <1>1, <1>3, <2>1
<1>4. QED BY <1>2, <1>3

LEMMA BlankInName ==
  ASSUME NEW p \in Parser, NEW t, p.status \in {InName, AfterName}, ~p.isEscape
  PROVE  \E q \in Parser :
           /\ Feed([p |-> p, t |-> t], "blank") = [p |-> q, t |-> t]
           /\ q.status = AfterName /\ ~q.isEscape
           /\ q.prevSpace = p.prevSpace + 1 /\ q.haveEqual = p.haveEqual
           /\ q.key = p.key /\ q.val = p.val
<1> USE DEF AtStart, InName, AfterName, AtEqual, AfterEqual, InValue, Wrapped, InComment
<1>1. Feed([p |-> p, t |-> t], "blank") = [p |-> OnBlank(p), t |-> t]
  BY DEF Feed, Step, StepTree, Letters
<1>2. p.isEscape = FALSE
  BY DEF Parser
<1> DEFINE q == [status |-> AfterName, prevSpace |-> p.prevSpace + 1, haveEqual |-> p.haveEqual,
                 isEscape |-> FALSE, key |-> p.key, val |-> p.val]
<1>3. OnBlank(p) = q
  <2>1. CASE p.status = InName
    <3>1. OnBlank(p) = [p EXCEPT !.isEscape = FALSE, !.prevSpace = @ + 1, !.status = AfterName]
      BY <2>1 DEF OnBlank
    <3>2. QED BY <3>1 DEF Parser
  <2>2. CASE p.status = AfterName
    <3>1. OnBlank(p) = [p EXCEPT !.prevSpace = @ + 1]
      BY <2>2 DEF OnBlank
    <3>2. QED BY <1>2, <2>2, <3>1 DEF Parser
  <2>3. QED BY <2>1, <2>2
<1>4. q \in Parser
  BY DEF Parser
<1>5. QED BY <1>1, <1>3, <1>4

LEMMA EqualSign ==
  ASSUME NEW p \in Parser, NEW t, p.status \in {AtStart, InName, AfterName}, ~p.isEscape,
         p.status = AfterName \/ p.prevSpace = 0
  PROVE  \E q \in Parser :
           /\ Feed([p |-> p, t |-> t], "equal") = [p |-> q, t |-> t]
           /\ q.status = AtEqual /\ ~q.isEscape
           /\ q.prevSpace = 0 /\ q.haveEqual
           /\ q.key = p.key /\ q.val = p.val
<1> USE DEF AtStart, InName, AfterName, AtEqual, AfterEqual, InValue, Wrapped, InComment
<1>1. Feed([p |-> p, t |-> t], "equal") = [p |-> OnEqual(p), t |-> t]
  BY DEF Feed, Step, StepTree, Letters
<1>2. p.isEscape = FALSE
  BY DEF Parser
<1> DEFINE q == [status |-> AtEqual, prevSpace |-> 0, haveEqual |-> TRUE,
                 isEscape |-> FALSE, key |-> p.key, val |-> p.val]
<1>3. OnEqual(p) = q
  <2>1. CASE p.status = AtStart
    <3>1. OnEqual(p) = [p EXCEPT !.haveEqual = TRUE, !.status = AtEqual]
      BY <2>1 DEF OnEqual
    <3>2. OnEqual(p) = [status |-> AtEqual, prevSpace |-> p.prevSpace, haveEqual |-> TRUE,
                        isEscape |-> p.isEscape, key |-> p.key, val |-> p.val]
      BY <3>1 DEF Parser
    <3>3. p.prevSpace = 0
      BY <2>1
    <3>4. QED BY <1>2, <3>2, <3>3, Zenon
  <2>2. CASE p.status = InName
    <3>1. OnEqual(p) = [p EXCEPT !.haveEqual = TRUE, !.isEscape = FALSE, !.status = AtEqual]
      BY <2>2 DEF OnEqual
    <3>2. OnEqual(p) = [status |-> AtEqual, prevSpace |-> p.prevSpace, haveEqual |-> TRUE,
                        isEscape |-> FALSE, key |-> p.key, val |-> p.val]
      BY <3>1 DEF Parser
    <3>3. p.prevSpace = 0
      BY <2>2
    <3>4. QED BY <3>2, <3>3, Zenon
  <2>3. CASE p.status = AfterName
    <3>1. OnEqual(p) = [p EXCEPT !.haveEqual = TRUE, !.prevSpace = 0, !.status = AtEqual]
      BY <2>3 DEF OnEqual
    <3>2. QED BY <1>2, <2>3, <3>1 DEF Parser
  <2>4. QED BY <2>1, <2>2, <2>3
<1>4. q \in Parser
  BY DEF Parser
<1>5. QED BY <1>1, <1>3, <1>4

WrappedValue(p) == [p EXCEPT !.isEscape = FALSE, !.status = Wrapped]

LEMMA WrappedFields ==
  ASSUME NEW p \in Parser, NEW q, q = WrappedValue(p)
  PROVE  /\ q \in Parser
         /\ q.status = Wrapped /\ ~q.isEscape
         /\ q.prevSpace = p.prevSpace /\ q.haveEqual = p.haveEqual
         /\ q.key = p.key /\ q.val = p.val
<1>1. q = [status |-> Wrapped, prevSpace |-> p.prevSpace, haveEqual |-> p.haveEqual, isEscape |-> FALSE,
           key |-> p.key, val |-> p.val]
  BY DEF WrappedValue, Parser
<1>2. q \in Parser
  <2>1. /\ p.haveEqual \in BOOLEAN /\ p.key \in Text /\ p.val \in Text /\ p.prevSpace \in Nat
        /\ Wrapped \in AtStart .. InComment
    BY DEF Parser, AtStart, Wrapped, InComment
  <2>2. QED BY <1>1, <2>1, ParserState
<1>3. ~q.isEscape
  BY DEF WrappedValue, Parser
<1>4. /\ q.status = Wrapped /\ q.prevSpace = p.prevSpace /\ q.haveEqual = p.haveEqual
      /\ q.key = p.key /\ q.val = p.val
  BY DEF WrappedValue, Parser
<1>5. QED BY <1>2, <1>3, <1>4

\* A backslash and the end of the line, inside a value.
LEMMA WrapElement ==
  ASSUME NEW p \in Parser, NEW t, p.status \in {AtEqual, AfterEqual, InValue, Wrapped}, ~p.isEscape
  PROVE  \E q \in Parser :
           /\ FeedAll([p |-> p, t |-> t], <<"backslash", "eol">>) = [p |-> q, t |-> t]
           /\ q.status = Wrapped /\ ~q.isEscape
           /\ q.prevSpace = p.prevSpace /\ q.haveEqual = p.haveEqual
           /\ q.key = p.key /\ q.val = p.val
<1> USE DEF AtStart, InName, AfterName, AtEqual, AfterEqual, InValue, Wrapped, InComment
<1>1. p.val \in Text /\ p.isEscape = FALSE
  BY DEF Parser
<1>2. PICK r : r = ValuePending(p, p.val)
  OBVIOUS
<1>3. r.isEscape /\ r.status = InValue
  BY <1>1, <1>2, ValuePendingFields
<1>4. Feed([p |-> p, t |-> t], "backslash") = [p |-> r, t |-> t]
  <2>1. AppendString(p.val, "backslash", p.isEscape) = [s |-> p.val, escape |-> TRUE]
    BY <1>1, AppendsText
  <2>2. ToValue(p, "backslash") = ValuePending(p, p.val)
    BY <2>1, ToValueIs, Zenon
  <2>3. Feed([p |-> p, t |-> t], "backslash") = [p |-> ToValue(p, "backslash"), t |-> t]
    BY TextInValue
  <2>4. QED BY <1>2, <2>2, <2>3, Zenon
<1>5. Wraps(r, "eol")
  BY <1>3 DEF Wraps
<1> DEFINE q == [r EXCEPT !.isEscape = FALSE, !.status = Wrapped]
<1>6. Feed([p |-> r, t |-> t], "eol") = [p |-> q, t |-> t]
  BY <1>5 DEF Feed, Step, StepTree, OnEnd, Letters
<1>7. q = WrappedValue(p)
  BY <1>2 DEF ValuePending, WrappedValue, Parser
<1>8. \E w \in Parser : w = q /\ w.status = Wrapped /\ ~w.isEscape /\ w.prevSpace = p.prevSpace
        /\ w.haveEqual = p.haveEqual /\ w.key = p.key /\ w.val = p.val
  BY <1>7, WrappedFields
<1>9. FeedAll([p |-> p, t |-> t], <<"backslash", "eol">>) = [p |-> q, t |-> t]
  BY <1>4, <1>6 DEF FeedAll
<1>10. QED BY <1>8, <1>9

LEMMA CommentElement ==
  ASSUME NEW p \in Parser, NEW t, NEW ch,
         ch = "hash" \/ (ch \in {"equal", "backslash"} /\ p.status = InComment)
  PROVE  \E q \in Parser :
           /\ Feed([p |-> p, t |-> t], ch) = [p |-> q, t |-> t]
           /\ q.status = InComment /\ q.isEscape = p.isEscape
           /\ q.prevSpace = p.prevSpace /\ q.haveEqual = p.haveEqual
           /\ q.key = p.key /\ q.val = p.val
<1> USE DEF AtStart, InName, AfterName, AtEqual, AfterEqual, InValue, Wrapped, InComment
<1>1. CASE ch = "hash"
  <2>1. Feed([p |-> p, t |-> t], ch) = [p |-> [p EXCEPT !.status = InComment], t |-> t]
    BY <1>1 DEF Feed, Step, StepTree, Letters
  <2>2. [p EXCEPT !.status = InComment] \in Parser
    BY DEF Parser
  <2>3. QED BY <2>1, <2>2 DEF Parser
<1>2. CASE ch = "equal" /\ p.status = InComment
  <2>1. OnEqual(p) = p
    BY <1>2 DEF OnEqual
  <2>2. QED BY <1>2, <2>1 DEF Feed, Step, StepTree, Letters
<1>3. CASE ch = "backslash" /\ p.status = InComment
  <2>1. OnText(p, "backslash") = p
    BY <1>3 DEF OnText
  <2>2. QED BY <1>3, <2>1 DEF Feed, Step, StepTree, Letters
<1>4. QED BY <1>1, <1>2, <1>3

\* The end of a line, or of the file.
LEMMA EndElement ==
  ASSUME NEW p \in Parser, NEW t, NEW ch \in {"eol", "nul"}, ~p.isEscape
  PROVE  /\ Step(p, ch) = Start
         /\ StepTree(t, p, ch) = IF p.haveEqual /\ p.key # <<>> THEN Insert(t, p.key, p.val) ELSE t
<1>1. ~Wraps(p, ch)
  BY DEF Wraps
<1>2. p.isEscape = FALSE
  BY DEF Parser
<1>3. Step(p, ch) = [Start EXCEPT !.isEscape = p.isEscape]
  BY <1>1 DEF Step, OnEnd, Letters
<1>4. Step(p, ch) = Start
  BY <1>2, <1>3 DEF Start
<1>5. QED BY <1>1, <1>4 DEF StepTree

-----------------------------------------------------------------------------
(* Every element keeps the parser where the line is. *)

LEMMA WriteElement ==
  ASSUME FileInv, NEW chars, NEW q, Write(chars),
         FeedAll([p |-> parser, t |-> tree], chars) = [p |-> q, t |-> tree]
  PROVE  /\ handle = "reading"
         /\ parser' = q /\ tree' = tree
         /\ elements' \in 0 .. MaxElements
<1>1. handle = "reading" /\ parser' = q /\ tree' = tree
  BY DEF Write
<1>2. elements < MaxElements /\ elements' = elements + 1 /\ elements \in 0 .. MaxElements
  BY DEF Write, FileInv, FileType
<1>3. QED BY <1>1, <1>2, FileAssumption

\* What the invariant says while elements are written.
LEMMA Reading ==
  ASSUME FileInv, handle = "reading"
  PROVE  /\ parser \in Parser /\ line \in Line
         /\ parser.status \in StatusAt(line.at) /\ ~parser.isEscape
         /\ parser.prevSpace = line.gap /\ parser.haveEqual = line.equal
         /\ parser.key = line.name /\ parser.val = line.value
         /\ tree = meant
BY DEF FileInv, FileType, Follows, ReadsAsWritten

\* An element that puts no property into the tree keeps the invariant if the parser
\* and the line agree behind it.
LEMMA LineGoesOn ==
  ASSUME FileInv, NEW chars, NEW q \in Parser, Write(chars),
         FeedAll([p |-> parser, t |-> tree], chars) = [p |-> q, t |-> tree],
         line' \in Line, LineShape', UNCHANGED <<meant, handle>>,
         q.status \in StatusAt(line'.at), ~q.isEscape, q.prevSpace = line'.gap,
         q.haveEqual = line'.equal, q.key = line'.name, q.val = line'.value
  PROVE  FileInv'
<1>1. /\ handle = "reading" /\ parser' = q /\ tree' = tree
      /\ elements' \in 0 .. MaxElements
  BY WriteElement
<1>2. FileType'
  BY <1>1 DEF FileInv, FileType
<1>3. Follows'
  BY <1>1 DEF Follows
<1>4. ReadsAsWritten'
  BY <1>1 DEF FileInv, ReadsAsWritten
<1>5. QED BY <1>2, <1>3, <1>4 DEF FileInv

LEMMA MeansText ==
  ASSUME NEW e \in Plain \union Escaped \union Equal \union Blank
  PROVE  e.means \in Text
<1>1. \A c, d \in Contents : <<c>> \in Text /\ <<c, d>> \in Text
  BY TextFacts
<1>2. CASE e \in Plain \union Equal \union Blank
  <2>1. PICK c \in Contents : e = [chars |-> <<c>>, means |-> <<c>>]
    BY <1>2 DEF Plain, Equal, Blank, Contents
  <2>2. e.means = <<c>>
    BY <2>1
  <2>3. QED BY <1>1, <2>2
<1>3. CASE e \in Escaped
  <2>1. e.means \in {<<"lf">>, <<"backslash">>, <<"backslash", "a">>}
    BY <1>3 DEF Escaped
  <2>2. "lf" \in Contents /\ "backslash" \in Contents /\ "a" \in Contents
    BY DEF Contents, Letters
  <2>3. QED BY <1>1, <2>1, <2>2
<1>4. QED BY <1>2, <1>3

LEMMA NameStep ==
  ASSUME FileInv, NEW e \in Plain \union Escaped, WriteName(e)
  PROVE  FileInv'
<1>1. handle = "reading" /\ Write(e.chars) /\ line.at \in {"start", "name", "gap"}
  BY DEF WriteName, Write
<1>2. parser.status \in {AtStart, InName, AfterName} /\ (parser.status = AfterName \/ parser.prevSpace = 0)
  BY <1>1, Reading DEF FileInv, LineShape, StatusAt, NoLine
<1>3. PICK q : q = Named(parser, parser.key \o Blanks(parser.prevSpace) \o e.means)
  OBVIOUS
<1>4. FeedAll([p |-> parser, t |-> tree], e.chars) = [p |-> q, t |-> tree]
  BY <1>1, <1>2, <1>3, Reading, NameElement
<1>5. parser.key \o Blanks(parser.prevSpace) \o e.means \in Text
  <2>1. e.means \in Text
    BY MeansText
  <2>2. parser.key \in Text /\ parser.prevSpace \in Nat
    BY <1>1, Reading DEF Parser
  <2>3. QED BY <2>1, <2>2, TextFacts
<1>6. /\ q \in Parser /\ q.key = parser.key \o Blanks(parser.prevSpace) \o e.means
      /\ q.val = parser.val /\ q.haveEqual = parser.haveEqual
      /\ ~q.isEscape /\ q.prevSpace = 0 /\ q.status = InName
  BY <1>1, <1>3, <1>5, Reading, NamedFields
<1>7. line' = [line EXCEPT !.at = "name", !.name = parser.key \o Blanks(parser.prevSpace) \o e.means, !.gap = 0]
  BY <1>1, Reading DEF WriteName
<1>8. line' \in Line /\ line'.at = "name" /\ line'.gap = 0
      /\ line'.name = q.key /\ line'.equal = line.equal /\ line'.value = line.value
  BY <1>1, <1>5, <1>6, <1>7, Reading DEF Line
<1>9. LineShape' /\ q.status \in StatusAt(line'.at)
  BY <1>6, <1>8 DEF LineShape, StatusAt
<1>10. QED BY <1>1, <1>4, <1>6, <1>8, <1>9, Reading, LineGoesOn DEF WriteName

LEMMA GapStep ==
  ASSUME FileInv, WriteGap
  PROVE  FileInv'
<1>1. handle = "reading" /\ Write(<<"blank">>) /\ line.at \in {"name", "gap"}
  BY DEF WriteGap, Write
<1>2. parser.status \in {InName, AfterName}
  BY <1>1, Reading DEF StatusAt
<1>3. PICK q \in Parser :
        /\ Feed([p |-> parser, t |-> tree], "blank") = [p |-> q, t |-> tree]
        /\ q.status = AfterName /\ ~q.isEscape
        /\ q.prevSpace = parser.prevSpace + 1 /\ q.haveEqual = parser.haveEqual
        /\ q.key = parser.key /\ q.val = parser.val
  BY <1>1, <1>2, Reading, BlankInName
<1>4. FeedAll([p |-> parser, t |-> tree], <<"blank">>) = [p |-> q, t |-> tree]
  BY <1>3 DEF FeedAll
<1>5. line' \in Line /\ line'.at = "gap" /\ line'.gap = line.gap + 1
      /\ line'.name = line.name /\ line'.equal = line.equal /\ line'.value = line.value
  <2>1. line \in Line /\ line.gap \in Nat
    BY <1>1, Reading DEF Line
  <2>2. line' = [line EXCEPT !.at = "gap", !.gap = line.gap + 1]
    BY DEF WriteGap
  <2>3. line' \in Line
    <3>1. \A l \in Line, n \in Nat : [l EXCEPT !.at = "gap", !.gap = n] \in Line
      BY DEF Line
    <3>2. line.gap + 1 \in Nat
      BY <2>1
    <3>3. QED BY <2>1, <2>2, <3>1, <3>2
  <2>4. /\ line'.at = "gap" /\ line'.gap = line.gap + 1
        /\ line'.name = line.name /\ line'.equal = line.equal /\ line'.value = line.value
    BY <2>1, <2>2 DEF Line
  <2>5. QED BY <2>3, <2>4
<1>6. LineShape' /\ q.status \in StatusAt(line'.at)
  BY <1>3, <1>5 DEF LineShape, StatusAt
<1>7. QED BY <1>1, <1>3, <1>4, <1>5, <1>6, Reading, LineGoesOn DEF WriteGap

LEMMA EqualStep ==
  ASSUME FileInv, WriteEqual
  PROVE  FileInv'
<1>1. handle = "reading" /\ Write(<<"equal">>) /\ line.at \in {"start", "name", "gap"}
  BY DEF WriteEqual, Write
<1>2. parser.status \in {AtStart, InName, AfterName} /\ (parser.status = AfterName \/ parser.prevSpace = 0)
  BY <1>1, Reading DEF FileInv, LineShape, StatusAt, NoLine
<1>3. PICK q \in Parser :
        /\ Feed([p |-> parser, t |-> tree], "equal") = [p |-> q, t |-> tree]
        /\ q.status = AtEqual /\ ~q.isEscape /\ q.prevSpace = 0 /\ q.haveEqual
        /\ q.key = parser.key /\ q.val = parser.val
  BY <1>1, <1>2, Reading, EqualSign
<1>4. FeedAll([p |-> parser, t |-> tree], <<"equal">>) = [p |-> q, t |-> tree]
  BY <1>3 DEF FeedAll
<1>5. line' \in Line /\ line'.at = "equal" /\ line'.gap = 0 /\ line'.name = line.name /\ line'.value = line.value
  BY <1>1, Reading DEF Line, WriteEqual
<1>6. q.haveEqual = line'.equal
  <2>1. line'.equal = TRUE
    BY <1>1, Reading DEF Line, WriteEqual
  <2>2. q.haveEqual = TRUE
    BY <1>3 DEF Parser
  <2>3. QED BY <2>1, <2>2
<1>7. LineShape' /\ q.status \in StatusAt(line'.at)
  BY <1>3, <1>5 DEF LineShape, StatusAt
<1>8. QED BY <1>1, <1>3, <1>4, <1>5, <1>6, <1>7, Reading, LineGoesOn DEF WriteEqual

LEMMA ValueStep ==
  ASSUME FileInv, NEW e \in Plain \union Escaped \union Equal \union Blank, WriteValue(e)
  PROVE  FileInv'
<1>1. /\ handle = "reading" /\ Write(e.chars) /\ line.at \in {"equal", "value"}
      /\ e \in Blank => line.at = "value"
  BY DEF WriteValue, Write
<1>2. /\ parser.status \in {AtEqual, AfterEqual, InValue, Wrapped}
      /\ e \in Blank => parser.status = InValue
  BY <1>1, Reading DEF StatusAt
<1>3. PICK q : q = Valued(parser, parser.val \o e.means)
  OBVIOUS
<1>4. FeedAll([p |-> parser, t |-> tree], e.chars) = [p |-> q, t |-> tree]
  BY <1>1, <1>2, <1>3, Reading, ValueElement
<1>5. parser.val \o e.means \in Text
  <2>1. e.means \in Text
    BY MeansText
  <2>2. parser.val \in Text
    BY <1>1, Reading DEF Parser
  <2>3. QED BY <2>1, <2>2, TextFacts
<1>6. /\ q \in Parser /\ q.key = parser.key /\ q.val = parser.val \o e.means
      /\ q.haveEqual = parser.haveEqual
      /\ ~q.isEscape /\ q.prevSpace = parser.prevSpace /\ q.status = InValue
  BY <1>1, <1>3, <1>5, Reading, ValuedFields
<1>7. line' = [line EXCEPT !.at = "value", !.value = parser.val \o e.means]
  BY <1>1, Reading DEF WriteValue
<1>8. line' \in Line /\ line'.at = "value" /\ line'.gap = line.gap
      /\ line'.name = line.name /\ line'.equal = line.equal /\ line'.value = q.val
  BY <1>1, <1>5, <1>6, <1>7, Reading DEF Line
<1>9. LineShape' /\ q.status \in StatusAt(line'.at)
  BY <1>1, <1>6, <1>8 DEF FileInv, LineShape, StatusAt
<1>10. QED BY <1>1, <1>4, <1>6, <1>8, <1>9, Reading, LineGoesOn DEF WriteValue

LEMMA IndentStep ==
  ASSUME FileInv, WriteIndent
  PROVE  FileInv'
<1>1. /\ handle = "reading" /\ Write(<<"blank">>) /\ line.at \in {"start", "equal", "comment"}
      /\ UNCHANGED <<line, meant, handle>>
  BY DEF WriteIndent, Write
<1>2. parser.status \in {AtStart, AtEqual, AfterEqual, Wrapped, InComment}
  BY <1>1, Reading DEF StatusAt
<1>3. PICK q \in Parser :
        /\ Feed([p |-> parser, t |-> tree], "blank") = [p |-> q, t |-> tree]
        /\ q.status = IF parser.status = AtEqual THEN AfterEqual ELSE parser.status
        /\ q.isEscape = parser.isEscape /\ q.prevSpace = parser.prevSpace
        /\ q.haveEqual = parser.haveEqual /\ q.key = parser.key /\ q.val = parser.val
  BY <1>1, <1>2, Reading, BlankOutside
<1>4. FeedAll([p |-> parser, t |-> tree], <<"blank">>) = [p |-> q, t |-> tree]
  BY <1>3 DEF FeedAll
<1>5. ~q.isEscape
  BY <1>1, <1>3, Reading, Zenon
<1>6. q.status \in StatusAt(line.at)
  BY <1>1, <1>3, Reading DEF StatusAt, AtStart, AtEqual, AfterEqual, Wrapped, InComment
<1>7. line' \in Line /\ LineShape'
  BY <1>1, Reading DEF FileInv, LineShape
<1>8. QED BY <1>1, <1>3, <1>4, <1>5, <1>6, <1>7, Reading, LineGoesOn

LEMMA WrapStep ==
  ASSUME FileInv, WriteWrap
  PROVE  FileInv'
<1>1. handle = "reading" /\ Write(<<"backslash", "eol">>) /\ line.at \in {"equal", "value"}
  BY DEF WriteWrap, Write
<1>2. parser.status \in {AtEqual, AfterEqual, InValue, Wrapped}
  BY <1>1, Reading DEF StatusAt
<1>3. PICK q \in Parser :
        /\ FeedAll([p |-> parser, t |-> tree], <<"backslash", "eol">>) = [p |-> q, t |-> tree]
        /\ q.status = Wrapped /\ ~q.isEscape
        /\ q.prevSpace = parser.prevSpace /\ q.haveEqual = parser.haveEqual
        /\ q.key = parser.key /\ q.val = parser.val
  BY <1>1, <1>2, Reading, WrapElement
<1>4. line' \in Line
  BY <1>1, Reading DEF Line, WriteWrap
<1>5. /\ line'.at = "equal" /\ line'.gap = line.gap
      /\ line'.name = line.name /\ line'.equal = line.equal /\ line'.value = line.value
  BY <1>1, Reading DEF Line, WriteWrap
<1>6. LineShape' /\ q.status \in StatusAt(line'.at)
  BY <1>1, <1>3, <1>5 DEF FileInv, LineShape, StatusAt
<1>7. QED BY <1>1, <1>3, <1>4, <1>5, <1>6, Reading, LineGoesOn DEF WriteWrap

LEMMA CommentStep ==
  ASSUME FileInv, WriteComment
  PROVE  FileInv'
<1>1. PICK ch \in {"hash", "equal", "backslash"} : (line.at = "comment" \/ ch = "hash") /\ Write(<<ch>>)
  BY DEF WriteComment
<1>2. handle = "reading" /\ (ch = "hash" \/ parser.status = InComment)
  BY <1>1, Reading DEF Write, StatusAt
<1>3. PICK q \in Parser :
        /\ Feed([p |-> parser, t |-> tree], ch) = [p |-> q, t |-> tree]
        /\ q.status = InComment /\ q.isEscape = parser.isEscape
        /\ q.prevSpace = parser.prevSpace /\ q.haveEqual = parser.haveEqual
        /\ q.key = parser.key /\ q.val = parser.val
  <2>1. parser \in Parser /\ (ch = "hash" \/ (ch \in {"equal", "backslash"} /\ parser.status = InComment))
    BY <1>2, Reading
  <2>2. QED BY <2>1, CommentElement
<1>4. FeedAll([p |-> parser, t |-> tree], <<ch>>) = [p |-> q, t |-> tree]
  BY <1>3 DEF FeedAll
<1>5. ~q.isEscape
  BY <1>2, <1>3, Reading, Zenon
<1>6. line' \in Line
  BY <1>2, Reading DEF Line, WriteComment
<1>7. /\ line'.at = "comment" /\ line'.gap = line.gap
      /\ line'.name = line.name /\ line'.equal = line.equal /\ line'.value = line.value
  BY <1>2, Reading DEF Line, WriteComment
<1>8. LineShape' /\ q.status \in StatusAt(line'.at)
  BY <1>3, <1>7 DEF LineShape, StatusAt
<1>9. QED BY <1>1, <1>2, <1>3, <1>4, <1>5, <1>6, <1>7, <1>8, Reading, LineGoesOn DEF WriteComment

-----------------------------------------------------------------------------
(* The end of a line, and what becomes of the file. *)

LEMMA InsertType ==
  ASSUME NEW t \in SUBSET Property, NEW name \in Text, NEW value \in Text
  PROVE  Insert(t, name, value) \in SUBSET Property
BY DEF Insert, Property

LEMMA LineMeansType ==
  ASSUME FileInv
  PROVE  LineMeans \in SUBSET Property
<1>1. meant \in SUBSET Property /\ line.name \in Text /\ line.value \in Text
  BY DEF FileInv, FileType, Line
<1>2. QED BY <1>1, InsertType DEF LineMeans

LEMMA BlankLine ==
  /\ Start \in Parser /\ NoLine \in Line
  /\ Start.status = AtStart /\ ~Start.isEscape /\ Start.prevSpace = NoLine.gap
  /\ Start.haveEqual = NoLine.equal /\ Start.key = NoLine.name /\ Start.val = NoLine.value
  /\ NoLine.at = "start" /\ NoLine.gap = 0
<1>1. Start \in Parser
  <2>1. /\ AtStart \in AtStart .. InComment /\ 0 \in Nat /\ FALSE \in BOOLEAN
    BY DEF AtStart, InComment
  <2>2. <<>> \in Text
    BY TextFacts
  <2>3. QED BY <2>1, <2>2, Zenon DEF Start, Parser
<1>2. NoLine \in Line
  BY TextFacts DEF NoLine, Line
<1>3. Start.haveEqual = NoLine.equal
  BY DEF Start, NoLine
<1>4. ~Start.isEscape
  BY DEF Start
<1>5. /\ Start.status = AtStart /\ Start.prevSpace = NoLine.gap
      /\ Start.key = NoLine.name /\ Start.val = NoLine.value
      /\ NoLine.at = "start" /\ NoLine.gap = 0
  BY DEF Start, NoLine
<1>6. QED BY <1>1, <1>2, <1>3, <1>4, <1>5

\* The property that the parser puts into the tree is the one that the line means.
LEMMA EndMeans ==
  ASSUME FileInv, handle = "reading", NEW ch \in {"eol", "nul"}
  PROVE  Step(parser, ch) = Start /\ StepTree(tree, parser, ch) = LineMeans
<1>1. /\ Step(parser, ch) = Start
      /\ StepTree(tree, parser, ch)
           = IF parser.haveEqual /\ parser.key # <<>> THEN Insert(tree, parser.key, parser.val) ELSE tree
  BY Reading, EndElement
<1>2. QED BY <1>1, Reading DEF LineMeans

LEMMA NewLine ==
  ASSUME FileInv, line' = NoLine, parser' = Start, meant' = LineMeans, tree' = meant',
         elements' \in 0 .. MaxElements, handle' \in {"reading", "held"}
  PROVE  FileInv'
<1>1. FileType'
  BY BlankLine, LineMeansType DEF FileType
<1>2. LineShape'
  BY BlankLine DEF LineShape
<1>3. Follows'
  BY BlankLine DEF Follows, StatusAt
<1>4. ReadsAsWritten'
  BY DEF ReadsAsWritten
<1>5. QED BY <1>1, <1>2, <1>3, <1>4 DEF FileInv

LEMMA EndStep ==
  ASSUME FileInv, NEW ch \in {"eol", "nul"}, WriteEnd(ch)
  PROVE  FileInv'
<1>1. handle = "reading" /\ handle' = "reading"
  BY DEF WriteEnd, Write
<1>2. FeedAll([p |-> parser, t |-> tree], <<ch>>)
        = [p |-> Step(parser, ch), t |-> StepTree(tree, parser, ch)]
  BY DEF FeedAll, Feed
<1>3. parser' = Step(parser, ch) /\ tree' = StepTree(tree, parser, ch)
  BY <1>2 DEF WriteEnd, Write
<1>4. elements' \in 0 .. MaxElements
  BY FileAssumption DEF WriteEnd, Write, FileInv, FileType
<1>5. QED BY <1>1, <1>3, <1>4, EndMeans, NewLine DEF WriteEnd

LEMMA EndOfFileStep ==
  ASSUME FileInv, EndOfFile
  PROVE  FileInv'
<1>1. handle = "reading" /\ handle' = "held" /\ elements' = elements
  BY DEF EndOfFile
<1>2. elements' \in 0 .. MaxElements
  BY <1>1 DEF FileInv, FileType
<1>3. tree' = LineMeans
  BY <1>1, EndMeans DEF EndOfFile
<1>4. QED BY <1>1, <1>2, <1>3, NewLine DEF EndOfFile

\* Without a tree nothing is read any more.
LEMMA NothingRead ==
  ASSUME FileInv, tree' = {}, handle' = "null", parser' \in Parser, UNCHANGED <<line, meant, elements>>
  PROVE  FileInv'
BY DEF FileInv, FileType, LineShape, ReadsAsWritten

LEMMA InitInv == Init => FileInv
<1> SUFFICES ASSUME Init PROVE FileInv
  OBVIOUS
<1>1. FileType
  BY BlankLine, FileAssumption DEF Init, FileType
<1>2. LineShape
  BY BlankLine DEF Init, LineShape
<1>3. Follows
  BY BlankLine DEF Init, Follows, StatusAt
<1>4. ReadsAsWritten
  BY DEF Init, ReadsAsWritten
<1>5. QED BY <1>1, <1>2, <1>3, <1>4 DEF FileInv

LEMMA NextInv == FileInv /\ [Next]_vars => FileInv'
<1> SUFFICES ASSUME FileInv, [Next]_vars PROVE FileInv'
  OBVIOUS
<1>1. ASSUME NEW e \in Plain \union Escaped, WriteName(e) PROVE FileInv'
  BY <1>1, NameStep
<1>2. CASE WriteGap
  BY <1>2, GapStep
<1>3. CASE WriteEqual
  BY <1>3, EqualStep
<1>4. ASSUME NEW e \in Plain \union Escaped \union Equal \union Blank, WriteValue(e) PROVE FileInv'
  BY <1>4, ValueStep
<1>5. CASE WriteIndent
  BY <1>5, IndentStep
<1>6. CASE WriteWrap
  BY <1>6, WrapStep
<1>7. CASE WriteComment
  BY <1>7, CommentStep
<1>8. ASSUME NEW ch \in {"eol", "nul"}, WriteEnd(ch) PROVE FileInv'
  BY <1>8, EndStep
<1>9. CASE EndOfFile
  BY <1>9, EndOfFileStep
<1>10. CASE ReadFails
  BY <1>10, NothingRead, BlankLine DEF ReadFails
<1>11. CASE Clear
  BY <1>11, NothingRead DEF Clear, FileInv, FileType
<1>12. CASE UNCHANGED vars
  BY <1>12 DEF vars, FileInv, FileType, LineShape, Follows, ReadsAsWritten
<1>13. QED
  BY <1>1, <1>2, <1>3, <1>4, <1>5, <1>6, <1>7, <1>8, <1>9, <1>10, <1>11, <1>12 DEF Next

(* The parser, the tree and the handle keep their types, and what is in the    *)
(* tree are texts of characters that can be in a property (properties.c:62-303). *)
THEOREM PropertiesTypeCorrect == Spec => []TypeOK
<1>1. FileInv => TypeOK
  BY DEF FileInv, FileType, TypeOK, Parser, Property, Text
<1>2. QED BY <1>1, InitInv, NextInv, PTL DEF Spec

(* A file of any length is read as it was meant, however its elements follow   *)
(* each other (properties.c:99-356).                                           *)
THEOREM FilesReadAsWritten == Spec => []ReadsAsWritten
<1>1. FileInv => ReadsAsWritten
  BY DEF FileInv
<1>2. QED BY <1>1, InitInv, NextInv, PTL DEF Spec

=============================================================================
