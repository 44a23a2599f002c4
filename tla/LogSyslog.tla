-------------------------------- MODULE LogSyslog --------------------------------
(***************************************************************************)
(* The syslog appenders of neng-log, src/src/neng/log/log_syslog.c, and    *)
(* the one connection of the process to the system logger that they share. *)
(*                                                                         *)
(* Writes and releases are serialized by the lock of the appender lists.   *)
(* A filter is the facility it gives and the severities it hits; that it   *)
(* looks at modules and tags too is in LogFilter.                          *)
(***************************************************************************)
EXTENDS Integers, Sequences, FiniteSets

CONSTANTS
  Appenders,    \* identities of NengLogSyslogAppender structures, freed ones included
  NoAppender,   \* LogTag when no openlog is in force
  Facilities,   \* facilities callers choose, 0 for none
  Filters,      \* filters callers add
  Words,        \* level words of messages: level, facility, flags
  MaxFilters    \* bound: filters of an appender

ASSUME SyslogAssumption ==
  /\ NoAppender \notin Appenders
  /\ Facilities \subseteq Nat
  /\ \A f \in Filters : f.facility \in Nat /\ f.levels \subseteq 0 .. 7
  /\ Words \subseteq Nat
  /\ MaxFilters \in Nat

VARIABLES
  alive,     \* appenders that are allocated
  config,    \* facility and override_facility of each
  filters,   \* filter_list of each
  opened,    \* appenders with is_opened
  tag,       \* LogTag of the C library: the appender whose ident it points to
  crashed,   \* the process has followed a NULL pointer
  sent,      \* history: the level word of the last message, and the priorities sent
  cleared    \* history: appenders whose filters were cleared and not added to since

vars == <<alive, config, filters, opened, tag, crashed, sent, cleared>>

NoConfig == [facility |-> 0, override |-> FALSE]
NothingSent == [word |-> 0, pris |-> [k \in {0} |-> 0]]

Init ==
  /\ alive = {} /\ opened = {} /\ cleared = {}
  /\ config = [a \in Appenders |-> NoConfig]
  /\ filters = [a \in Appenders |-> <<>>]
  /\ tag = NoAppender
  /\ crashed = FALSE
  /\ sent = NothingSent

CreateSyslogAppender(a, facility, override) ==
  /\ ~crashed /\ a \notin alive
  /\ alive' = alive \union {a}
  /\ config' = [config EXCEPT ![a] = [facility |-> facility, override |-> override]]
  /\ filters' = [filters EXCEPT ![a] = <<>>]
  /\ opened' = opened \ {a}
  /\ UNCHANGED <<tag, crashed, sent, cleared>>

AddFilter(a, f) ==
  /\ ~crashed /\ a \in alive
  /\ Len(filters[a]) < MaxFilters
  /\ filters' = [filters EXCEPT ![a] = Append(@, f)]
  /\ cleared' = cleared \ {a}
  /\ UNCHANGED <<alive, config, opened, tag, crashed, sent>>

\* The loop runs while the list is empty (log_syslog.c:58): filters stay, and
\* without one the first element, NULL, is removed.
ClearsCrash(a) == filters[a] = <<>>

ClearFilter(a) ==
  /\ ~crashed /\ a \in alive
  /\ crashed' = ClearsCrash(a)
  /\ cleared' = cleared \union {a}
  /\ UNCHANGED <<alive, config, filters, opened, tag, sent>>

-----------------------------------------------------------------------------
Severity(word) == word % 8                      \* LOG_PRIMASK
Facility(word) == (word % 1024) - (word % 8)        \* LOG_FACMASK

One(pri) == [k \in {0} |-> pri]

\* Mutant: a filter without a facility hits, and sends nothing.
MutPriorities(c, fs, word) ==
  LET hits == {k \in DOMAIN fs : Severity(word) \in fs[k].levels}
      sends == {k \in hits : fs[k].facility # 0}
  IN  IF Facility(word) # 0 /\ ~c.override THEN One(word)
      ELSE IF hits # {} THEN [k \in sends |-> Severity(word) + Facility(fs[k].facility)]
      ELSE One(Severity(word) + (IF c.facility # 0 THEN Facility(c.facility) ELSE Facility(word)))

\* What vsyslog is called with: the message's own facility, one call for each
\* filter that hits, by its place in the list, or the appender's facility.
Priorities(c, fs, word) ==
  LET hits == {k \in DOMAIN fs : fs[k].facility # 0 /\ Severity(word) \in fs[k].levels}
  IN  IF Facility(word) # 0 /\ ~c.override THEN One(word)
      ELSE IF hits # {} THEN [k \in hits |-> Severity(word) + Facility(fs[k].facility)]
      ELSE One(Severity(word) + (IF c.facility # 0 THEN Facility(c.facility) ELSE Facility(word)))

\* openlog keeps the pointer to ident, for all calls of syslog that follow.
Write(a, word) ==
  /\ ~crashed /\ a \in alive
  /\ tag' = IF a \in opened THEN tag ELSE a
  /\ opened' = opened \union {a}
  /\ sent' = [word |-> word, pris |-> Priorities(config[a], filters[a], word)]
  /\ UNCHANGED <<alive, config, filters, crashed, cleared>>

\* Mutant: the connection stays.
MutClosed(a) == tag

\* closelog forgets the ident, whoever gave it.
Closed(a) == IF a \in opened THEN NoAppender ELSE tag

\* Mutant: is_opened survives.
MutNotOpened(a) == opened

NotOpened(a) == opened \ {a}

SyslogRelease(a) ==
  /\ ~crashed /\ a \in alive
  /\ tag' = Closed(a)
  /\ opened' = NotOpened(a)
  /\ crashed' = ClearsCrash(a)
  /\ alive' = IF ClearsCrash(a) THEN alive ELSE alive \ {a}
  /\ cleared' = cleared \ {a}
  /\ UNCHANGED <<config, filters, sent>>

Next ==
  \E a \in Appenders :
    \/ \E facility \in Facilities, override \in BOOLEAN : CreateSyslogAppender(a, facility, override)
    \/ \E f \in Filters : AddFilter(a, f)
    \/ ClearFilter(a)
    \/ \E word \in Words : Write(a, word)
    \/ SyslogRelease(a)

Spec == Init /\ [][Next]_vars

-----------------------------------------------------------------------------
TypeOK ==
  /\ alive \subseteq Appenders /\ opened \subseteq alive /\ cleared \subseteq alive
  /\ config \in [Appenders -> [facility : Facilities \union {0}, override : BOOLEAN]]
  /\ filters \in [Appenders -> Seq(Filters)]
  /\ tag \in Appenders \union {NoAppender}
  /\ crashed \in BOOLEAN

(* The C library's pointer to the ident never outlives the appender that the   *)
(* ident is in, in any order of first writes and releases of several appenders *)
(* (log_syslog.c:88, 154, 159).                                                *)
NoDanglingIdent == tag # NoAppender => tag \in alive

(* A message given to a syslog appender is sent at least once and always with  *)
(* its own severity, whatever filters and facilities there are.                *)
SentWithSeverity ==
  /\ DOMAIN sent.pris # {}
  /\ \A k \in DOMAIN sent.pris : Severity(sent.pris[k]) = Severity(sent.word)

(* NengLogSyslogAppenderClearFilter (log_syslog.h:59), which every release     *)
(* calls, comes to an end and leaves the appender without filters.             *)
FiltersCleared == ~crashed /\ \A a \in cleared : filters[a] = <<>>
=============================================================================
