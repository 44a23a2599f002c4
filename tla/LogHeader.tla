------------------------------- MODULE LogHeader -------------------------------
(***************************************************************************)
(* The text in front of a message, NengLogWriteHeader of                   *)
(* src/src/neng/log/log_core.c:21-216: nine optional fields one behind the *)
(* other, each with its separator.  A field is its number of characters,   *)
(* and 0 when the flags leave it out.                                      *)
(*                                                                         *)
(* An item gives the characters of its texts and of its numbers in decimal *)
(* (host, prog, pid, tid, mod, tag, func, line), those of the whole path   *)
(* and of the part behind its last separator (path, base).                 *)
(***************************************************************************)
EXTENDS Integers

\* NengLogAppenderFlags, log.h:318-336, without the separator's kind.
HeaderFlags ==
  {"disable_time", "enable_hostname", "enable_progname", "disable_pid", "disable_level",
   "enable_tid", "enable_mod", "enable_tag", "enable_file", "enable_func", "enable_fullpath"}

\* Sizes of the arrays of an item and of the buffer of both appenders (log_def.h).
HostnameSize == 32
PrognameSize == 32
FilePathSize == 128
FuncSize == 64
HeaderBufSize == FilePathSize + FuncSize + PrognameSize + HostnameSize + 128

Least(a, b) == IF a < b THEN a ELSE b
When(on, n) == IF on THEN n ELSE 0

PathShown(flags, item) == IF "enable_fullpath" \in flags THEN item.path ELSE item.base

\* The place in the source: "<path@func:line>", "<path:line>" or "<@func:line>".
PlaceWidth(flags, item) ==
  IF "enable_file" \in flags
    THEN PathShown(flags, item) + When("enable_func" \in flags, item.func + 1) + item.line + 4
    ELSE When("enable_func" \in flags, item.func + item.line + 5)

Widths(flags, item) ==
  [time  |-> When("disable_time" \notin flags, 24),
   host  |-> When("enable_hostname" \in flags, item.host + 1),
   prog  |-> When("enable_progname" \in flags, item.prog + 1),
   pid   |-> When("disable_pid" \notin flags, item.pid + 3),
   level |-> When("disable_level" \notin flags, 7),
   tid   |-> When("enable_tid" \in flags, item.tid + 5),
   mod   |-> When("enable_mod" \in flags, item.mod + 5),
   tag   |-> When("enable_tag" \in flags, item.tag + 5),
   place |-> PlaceWidth(flags, item)]

-----------------------------------------------------------------------------
(* Writing into a buffer of siz bytes.  A state has the length counted so far, *)
(* the bytes of the buffer used with the terminator, and whether the function  *)
(* has returned.                                                               *)
Blank == [len |-> 0, used |-> 0, done |-> FALSE]

\* Characters snprintf stores for a field of n: a size below 0 becomes huge.
Stored(n, room) == IF room < 0 THEN n ELSE Least(n, room - 1)

\* The state after a field of n characters behind len others.
Field(len, n, siz) ==
  [len  |-> len + n,
   used |-> len + Stored(n, siz - len) + 1,
   done |-> siz <= len + n + 1]

\* Mutant: the function goes on when the buffer is full.
MutPut(w, n, siz) == IF n = 0 THEN w ELSE [Field(w.len, n, siz) EXCEPT !.done = FALSE]

\* One field and WRITE_HEADER_CHECK behind it.
Put(w, n, siz) == IF w.done \/ n = 0 THEN w ELSE Field(w.len, n, siz)

WriteHeader(flags, item, siz) ==
  LET w  == Widths(flags, item)
      p1 == Put(Blank, w.time, siz)
      p2 == Put(p1, w.host, siz)
      p3 == Put(p2, w.prog, siz)
      p4 == Put(p3, w.pid, siz)
      p5 == Put(p4, w.level, siz)
      p6 == Put(p5, w.tid, siz)
      p7 == Put(p6, w.mod, siz)
      p8 == Put(p7, w.tag, siz)
  IN  Put(p8, w.place, siz)

\* Mutant: the place is measured in a buffer as large as that of a number.
MutPlaceRoom(flags) == 32

\* The temporary buffer in which the place is measured.
PlaceRoom(flags) == IF "enable_file" \in flags THEN FuncSize + FilePathSize + 32 ELSE FilePathSize + 32

\* The length alone, when there is no buffer: numbers and the place are printed
\* into temporary buffers first.
CalcHeader(flags, item) ==
  LET w == Widths(flags, item)
      Measured(n, room) == Least(n, room - 1)
  IN  w.time + w.host + w.prog + Measured(w.pid, 32) + w.level + Measured(w.tid, 32)
      + Measured(w.mod, 32) + Measured(w.tag, 32) + Measured(w.place, PlaceRoom(flags))

\* The flags under which the syslog appender writes, log_syslog.c:92-97.
SyslogFlags(flags) ==
  (flags \union {"disable_time", "disable_level", "disable_pid"})
     \ {"enable_hostname", "enable_progname"}

\* Bytes of its buffer the file appender uses, with ':' and the terminator behind
\* the returned length (log_file.c:231-234), and the syslog appender, which leaves
\* out ':' when there is no header (log_syslog.c:99-105).
FileHeaderUse(flags, item) == WriteHeader(flags, item, HeaderBufSize).len + 2

SyslogHeaderUse(flags, item) ==
  LET len == WriteHeader(SyslogFlags(flags), item, HeaderBufSize).len
  IN  IF len > 0 THEN len + 2 ELSE 1

-----------------------------------------------------------------------------
HeaderWidth(flags, item) ==
  LET w == Widths(flags, item)
  IN  w.time + w.host + w.prog + w.pid + w.level + w.tid + w.mod + w.tag + w.place

\* What WriteHeader stores is the header cut to the buffer.
CutToBuffer(flags, item, siz) ==
  LET total == HeaderWidth(flags, item)
  IN  WriteHeader(flags, item, siz).used = IF total = 0 THEN 0 ELSE Least(total + 1, siz)

\* A caller that asks for the length first and brings one byte more gets it all.
MeasuredRight(flags, item) ==
  LET n == CalcHeader(flags, item)
      w == WriteHeader(flags, item, n + 1)
  IN  n > 0 => w.len = n /\ w.used = n + 1 /\ HeaderWidth(flags, item) = n
===============================================================================
