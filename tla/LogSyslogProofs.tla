--------------------------- MODULE LogSyslogProofs ---------------------------
(***************************************************************************)
(* Theorems about the syslog appenders and the connection they share.      *)
(***************************************************************************)
EXTENDS LogSyslog, SequenceTheorems, TLAPS

(* The C library's ident is that of an appender whose connection is open: closelog *)
(* is called exactly by the appender that has it open (log_syslog.c:81-89, 152-155). *)
(* NoDanglingIdent alone does not say that the release which frees the ident's     *)
(* memory is one that also calls closelog.                                         *)
IdentOpened == tag # NoAppender => tag \in opened

SyslogInv == TypeOK /\ IdentOpened /\ SentWithSeverity

(* A priority keeps the severity, whatever facility is put into it (log_syslog.c:126, 136). *)
LEMMA SeverityKept ==
  ASSUME NEW word \in Nat, NEW x \in Nat
  PROVE  Severity(Severity(word) + Facility(x)) = Severity(word)
BY DEF Severity, Facility

(* Every way to choose the priorities sends something, with the severity of the message. *)
LEMMA PrioritiesSeverity ==
  ASSUME NEW c, c.facility \in Nat, NEW fs \in Seq(Filters), NEW word \in Nat
  PROVE  /\ DOMAIN Priorities(c, fs, word) # {}
         /\ \A k \in DOMAIN Priorities(c, fs, word) : Severity(Priorities(c, fs, word)[k]) = Severity(word)
<1> DEFINE hits == {k \in DOMAIN fs : fs[k].facility # 0 /\ Severity(word) \in fs[k].levels}
<1>1. \A k \in hits : fs[k].facility \in Nat
  <2>1. \A k \in DOMAIN fs : fs[k] \in Filters
    BY LenProperties, ElementOfSeq
  <2> QED BY <2>1, SyslogAssumption
<1>2. \A pri : DOMAIN One(pri) # {} /\ \A k \in DOMAIN One(pri) : One(pri)[k] = pri
  BY DEF One
<1>3. CASE Facility(word) # 0 /\ ~c.override
  BY <1>2, <1>3 DEF Priorities
<1>4. CASE ~(Facility(word) # 0 /\ ~c.override) /\ hits # {}
  <2>1. Priorities(c, fs, word) = [k \in hits |-> Severity(word) + Facility(fs[k].facility)]
    BY <1>4 DEF Priorities
  <2> HIDE DEF hits
  <2> QED BY <1>1, <1>4, <2>1, SeverityKept
<1>5. CASE ~(Facility(word) # 0 /\ ~c.override) /\ hits = {}
  <2>1. PICK x \in Nat : x = IF c.facility # 0 THEN c.facility ELSE word
    OBVIOUS
  <2>2. Priorities(c, fs, word) = One(Severity(word) + Facility(x))
    BY <1>5, <2>1 DEF Priorities
  <2> QED BY <1>2, <2>2, SeverityKept
<1> QED BY <1>3, <1>4, <1>5

(* A step that leaves the connection and what was sent alone. *)
LEMMA SyslogFrame ==
  ASSUME SyslogInv, UNCHANGED <<opened, tag, sent>>, TypeOK'
  PROVE  SyslogInv'
BY DEF SyslogInv, IdentOpened, SentWithSeverity

(* NengLogSyslogWrite: openlog hands out the ident of an open appender. *)
LEMMA WriteInv ==
  ASSUME SyslogInv, NEW a \in Appenders, NEW word \in Words, Write(a, word)
  PROVE  SyslogInv'
<1> USE DEF Write
<1>1. TypeOK'
  BY DEF SyslogInv, TypeOK
<1>2. IdentOpened'
  BY DEF SyslogInv, IdentOpened
<1>3. PICK c, fs : c = config[a] /\ fs = filters[a]
  OBVIOUS
<1>4. sent'.word = word /\ sent'.pris = Priorities(c, fs, word)
  BY <1>3
<1> HIDE DEF Write
<1>5. SentWithSeverity'
  <2>1. c \in [facility : Facilities \union {0}, override : BOOLEAN] /\ fs \in Seq(Filters)
    BY <1>3 DEF SyslogInv, TypeOK
  <2>2. Facilities \union {0} \subseteq Nat /\ Words \subseteq Nat
    BY SyslogAssumption
  <2>3. c.facility \in Nat
    <3>1. c.facility \in Facilities \union {0}
      BY <2>1
    <3> QED BY <2>2, <3>1
  <2>4. word \in Nat
    BY <2>2
  <2> QED BY <1>4, <2>1, <2>3, <2>4, PrioritiesSeverity DEF SentWithSeverity
<1> QED BY <1>1, <1>2, <1>5 DEF SyslogInv

(* NengLogSyslogRelease: the connection is closed by the appender that has it open. *)
LEMMA ReleaseInv ==
  ASSUME SyslogInv, NEW a \in Appenders, SyslogRelease(a)
  PROVE  SyslogInv'
<1> USE DEF SyslogRelease, Closed, NotOpened, ClearsCrash
<1>1. TypeOK'
  BY DEF SyslogInv, TypeOK
<1>2. IdentOpened'
  BY DEF SyslogInv, IdentOpened
<1>3. SentWithSeverity'
  BY DEF SyslogInv, SentWithSeverity
<1> QED BY <1>1, <1>2, <1>3 DEF SyslogInv

(* The connection and what was sent hold together in every reachable state. *)
LEMMA SyslogInvHolds == Spec => []SyslogInv
<1>1. Init => SyslogInv
  <2> SUFFICES ASSUME Init PROVE SyslogInv
    OBVIOUS
  <2>1. TypeOK
    BY EmptySeq, SyslogAssumption DEF Init, TypeOK, NoConfig
  <2>2. SentWithSeverity
    BY DEF Init, NothingSent, SentWithSeverity
  <2> QED BY <2>1, <2>2 DEF Init, SyslogInv, IdentOpened
<1>2. SyslogInv /\ [Next]_vars => SyslogInv'
  <2> SUFFICES ASSUME SyslogInv, [Next]_vars PROVE SyslogInv'
    OBVIOUS
  <2>1. CASE UNCHANGED vars
    BY <2>1, SyslogFrame DEF vars, SyslogInv, TypeOK
  <2>2. ASSUME NEW a \in Appenders, NEW facility \in Facilities, NEW override \in BOOLEAN,
               CreateSyslogAppender(a, facility, override)
        PROVE  SyslogInv'
    <3>1. TypeOK'
      BY <2>2, EmptySeq DEF CreateSyslogAppender, SyslogInv, TypeOK
    <3>2. opened' = opened
      BY <2>2 DEF CreateSyslogAppender, SyslogInv, TypeOK
    <3> QED BY <2>2, <3>1, <3>2, SyslogFrame DEF CreateSyslogAppender
  <2>3. ASSUME NEW a \in Appenders, NEW f \in Filters, AddFilter(a, f) PROVE SyslogInv'
    <3>1. Append(filters[a], f) \in Seq(Filters)
      BY AppendProperties DEF SyslogInv, TypeOK
    <3>2. TypeOK'
      BY <2>3, <3>1 DEF AddFilter, SyslogInv, TypeOK
    <3> QED BY <2>3, <3>2, SyslogFrame DEF AddFilter
  <2>4. ASSUME NEW a \in Appenders, ClearFilter(a) PROVE SyslogInv'
    <3>1. TypeOK'
      BY <2>4 DEF ClearFilter, ClearsCrash, SyslogInv, TypeOK
    <3> QED BY <2>4, <3>1, SyslogFrame DEF ClearFilter
  <2> QED BY <2>1, <2>2, <2>3, <2>4, WriteInv, ReleaseInv DEF Next
<1> QED BY <1>1, <1>2, PTL DEF Spec

(* The bookkeeping of the syslog appenders is sound: only allocated ones have the *)
(* connection open.                                                               *)
THEOREM SyslogTypeCorrect == Spec => []TypeOK
BY SyslogInvHolds, PTL DEF SyslogInv

(* The ident that the C library keeps is never that of a freed appender, for any *)
(* number of appenders that share the connection.                                *)
THEOREM IdentOutlivesNobody == Spec => []NoDanglingIdent
<1>1. SyslogInv => NoDanglingIdent
  BY DEF SyslogInv, TypeOK, IdentOpened, NoDanglingIdent
<1> QED BY <1>1, SyslogInvHolds, PTL

(* Every message is sent, and with its own severity, whatever the filters, the *)
(* facilities and the bits of the level word are.                              *)
THEOREM SeverityAlwaysKept == Spec => []SentWithSeverity
BY SyslogInvHolds, PTL DEF SyslogInv
=============================================================================
