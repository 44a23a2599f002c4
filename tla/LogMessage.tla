------------------------------- MODULE LogMessage -------------------------------
(***************************************************************************)
(* The making of a message, _NengLogV of src/src/neng/log/log_core.c:445-493, *)
(* with the names kept in log_misc.c:74-140: threads take a block from the *)
(* pool, fill in its texts, have its header written and give it back,      *)
(* while the program is being renamed.                                     *)
(*                                                                         *)
(* A text is its number of characters, a path has the positions of its     *)
(* separators as well.  The numbers of a message all have the same width.  *)
(***************************************************************************)
EXTENDS LogItem, LogHeader

CONSTANTS
  Threads,
  Calls,       \* records [file, func, size, digits]; file and func may be Null
  Names,       \* paths that NengLogSetProgName is called with
  HostLen,     \* characters of the name of the machine
  FlagSets,    \* flags of the appenders that have the header written
  BufferSizes, \* sizes of the buffers they bring
  TornLengths, \* lengths of names read while they are being changed
  Null         \* no text

NameBufSize == 128   \* _hostname and _progname

Path(n, seps) == [len |-> n, seps |-> seps]

IsPath(p) == p \in [len : Nat, seps : SUBSET Nat] /\ p.seps \subseteq 1 .. p.len

ASSUME MessageAssumption ==
  /\ HostLen \in 1 .. NameBufSize - 1
  /\ FlagSets \subseteq SUBSET HeaderFlags
  /\ BufferSizes \subseteq Nat \ {0} /\ TornLengths \subseteq Nat
  /\ \A p \in Names : IsPath(p)
  /\ \A c \in Calls : /\ c.file = Null \/ IsPath(c.file)
                      /\ c.func = Null \/ c.func \in Nat
                      /\ c.size \in Lengths
                      /\ c.digits \in 1 .. 11   \* of an int, with its sign

VARIABLES
  text,        \* the texts of each block: hostname, progname, file, func
  call,        \* what each thread is logging
  hostnameLen, \* _hostname_len
  progname,    \* length of the string in _progname
  prognameLen, \* _progname_len
  renaming     \* length of the name being copied into _progname, or Null

messageVars == <<itemVars, text, call, hostnameLen, progname, prognameLen, renaming>>
nameVars == <<hostnameLen, progname, prognameLen, renaming>>

NoText == [host |-> 0, prog |-> 0, file |-> Path(0, {}), func |-> 0]

\* Stands for whatever a block that is not in use holds.
OldText == [host |-> 9, prog |-> 9, file |-> Path(9, {9}), func |-> 9]
Idle == [at |-> "idle"]

\* Mutants: a copy is given the length of the source, or all of the array; a
\* block is handed out as it came back.
MutCut(n, size) == n
MutCutFull(n, size) == Least(n, size)
MutHandedText(i) == text[i]

\* strncpy and memcpy into an array of size bytes that ends with 0.
Cut(n, size) == Least(n, size - 1)

CutPath(p, size) ==
  LET n == Cut(p.len, size) IN Path(n, {k \in p.seps : k <= n})

\* What is behind the last separator.
BaseLen(p) ==
  p.len - (CHOOSE k \in p.seps \union {0} : \A j \in p.seps : j <= k)

MessageInit ==
  /\ ItemInit
  /\ text = [i \in Items |-> OldText]
  /\ call = [t \in Threads |-> Idle]
  /\ hostnameLen = 0
  /\ progname = 0 /\ prognameLen = 0
  /\ renaming = Null

-----------------------------------------------------------------------------
\* memset of a pooled block and calloc of a fresh one.
HandedText(i) == NoText

TakeBlock(t, c) ==
  /\ call[t] = Idle
  /\ \E i \in Items :
       /\ AllocItem(i, c.size)
       /\ text' = [text EXCEPT ![i] = HandedText(i)]
       /\ call' = [call EXCEPT ![t] = [at |-> "host", item |-> i, args |-> c]]
  /\ UNCHANGED nameVars

\* The name of the machine is asked for until there is one, under the mutex that
\* a renaming thread holds.
InitHostname ==
  /\ hostnameLen = 0 /\ renaming = Null
  /\ hostnameLen' \in {0, HostLen}

GetHostname(t) ==
  /\ call[t].at = "host"
  /\ \/ InitHostname
     \/ hostnameLen > 0 /\ UNCHANGED hostnameLen
  /\ text' = [text EXCEPT ![call[t].item].host = Cut(hostnameLen', HostnameSize)]
  /\ call' = [call EXCEPT ![t].at = "prog"]
  /\ UNCHANGED <<itemVars, progname, prognameLen, renaming>>

\* _progname_len is read without the mutex, and so is _progname after it.  The
\* history fields say what name was set then and whether it stays.
ReadProgLen(t) ==
  /\ call[t].at = "prog"
  /\ call' = [call EXCEPT ![t] = [at |-> "copy", item |-> @.item, args |-> @.args,
                                  len |-> Cut(prognameLen, PrognameSize),
                                  name |-> prognameLen, steady |-> renaming = Null]]
  /\ UNCHANGED <<itemVars, text, nameVars>>

\* During a strncpy into _progname a reader finds any mixture of the two names.
ReadableProg(m) ==
  IF renaming = Null THEN {Least(m, progname)} ELSE {n \in TornLengths : n <= m}

FillTexts(t) ==
  LET c == call[t].args
      i == call[t].item
  IN  /\ call[t].at = "copy"
      /\ \E n \in ReadableProg(call[t].len) :
           text' = [text EXCEPT ![i] =
             [host |-> @.host,
              prog |-> n,
              file |-> IF c.file = Null THEN @.file ELSE CutPath(c.file, FilePathSize),
              func |-> IF c.func = Null THEN @.func ELSE Cut(c.func, FuncSize)]]
      /\ call' = [call EXCEPT ![t].at = "filled"]
      /\ UNCHANGED <<itemVars, nameVars>>

\* The appenders have had the header written: see HeaderItem below.
ReleaseBlock(t) ==
  /\ call[t].at = "filled"
  /\ FreeItem(call[t].item)
  /\ text' = [text EXCEPT ![call[t].item] = OldText]
  /\ call' = [call EXCEPT ![t] = Idle]
  /\ UNCHANGED nameVars

\* An empty name changes nothing.  The mutex is held up to EndRename.
SetProgName(p) ==
  /\ renaming = Null /\ BaseLen(p) > 0
  /\ renaming' = Cut(BaseLen(p), NameBufSize)
  /\ call' = [t \in Threads |-> IF call[t].at = "copy"
                                  THEN [call[t] EXCEPT !.steady = FALSE] ELSE call[t]]
  /\ UNCHANGED <<itemVars, text, hostnameLen, progname, prognameLen>>

EndRename ==
  /\ renaming # Null
  /\ progname' = renaming /\ prognameLen' = renaming
  /\ renaming' = Null
  /\ UNCHANGED <<itemVars, text, call, hostnameLen>>

\* NengLogClear from any thread.
ClearPool == ClearItem /\ UNCHANGED <<text, call, nameVars>>

MessageNext ==
  \/ \E t \in Threads :
       \/ \E c \in Calls : TakeBlock(t, c)
       \/ GetHostname(t) \/ ReadProgLen(t) \/ FillTexts(t) \/ ReleaseBlock(t)
  \/ \E p \in Names : SetProgName(p)
  \/ EndRename
  \/ ClearPool

MessageSpec == MessageInit /\ [][MessageNext]_messageVars

-----------------------------------------------------------------------------
Filled == {t \in Threads : call[t].at = "filled"}

MessageTypeOK ==
  /\ ItemTypeOK
  /\ \A i \in Items : text[i].host < HostnameSize /\ text[i].prog < PrognameSize
  /\ hostnameLen \in {0, HostLen}
  /\ progname \in 0 .. NameBufSize - 1 /\ prognameLen \in 0 .. NameBufSize - 1
  /\ renaming \in (1 .. NameBufSize - 1) \union {Null}

\* The item as NengLogWriteHeader measures it.
HeaderItem(t) ==
  LET x == text[call[t].item]
      d == call[t].args.digits
  IN  [host |-> x.host, prog |-> x.prog, path |-> x.file.len, base |-> BaseLen(x.file),
       func |-> x.func, pid |-> d, tid |-> d, mod |-> d, tag |-> d, line |-> d]

(* A message carries the texts of its own call and no other: nothing of the    *)
(* message that had the block before (log_item.c:29), also where the caller    *)
(* passes NULL, the path and the function as far as their arrays reach, and    *)
(* the name the program had when the length was read, unless it was renamed    *)
(* meanwhile.                                                                  *)
MessageAsCalled ==
  \A t \in Filled :
    LET x == text[call[t].item]
        c == call[t].args
    IN  /\ x.file = IF c.file = Null THEN Path(0, {}) ELSE CutPath(c.file, FilePathSize)
        /\ x.func = IF c.func = Null THEN 0 ELSE Cut(c.func, FuncSize)
        /\ call[t].steady => x.prog = Cut(call[t].name, PrognameSize)

(* A header is written up to the end of the buffer at most, terminator         *)
(* included, and is the whole header cut there (log_core.c:27-39).             *)
HeaderCut ==
  \A t \in Filled, flags \in FlagSets, siz \in BufferSizes : CutToBuffer(flags, HeaderItem(t), siz)

(* A writer_fn that asks NengLogWriteHeader for the length first and brings one *)
(* byte more gets the whole header, for any flags (log_core.c:24).             *)
HeaderMeasured ==
  \A t \in Filled, flags \in FlagSets : MeasuredRight(flags, HeaderItem(t))

(* The buffer of the two appenders has room for every header, with the ':' and *)
(* the terminator that they store behind the returned length without asking    *)
(* (log_file.c:231-234, log_syslog.c:99-105).                                  *)
HeaderRoom ==
  \A t \in Filled, flags \in FlagSets :
    /\ FileHeaderUse(flags, HeaderItem(t)) <= HeaderBufSize
    /\ SyslogHeaderUse(flags, HeaderItem(t)) <= HeaderBufSize
===============================================================================
