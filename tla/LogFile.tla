------------------------------- MODULE LogFile -------------------------------
(***************************************************************************)
(* The file appender of neng-log, src/src/neng/log/log_file.c: opening,    *)
(* rotation by size or by day, writing, closing, with the file system as   *)
(* the appender sees it.                                                   *)
(*                                                                         *)
(* The log file and its numbered backups are names 0, 1, 2, ... that a     *)
(* rename moves files between.  The process can die between two system     *)
(* calls and calls can fail; time passes, and logrotate may take the log   *)
(* file away.  The path is that of a regular file: standard output, ttys   *)
(* and pipes are never rotated.  Sizes are counted in messages.            *)
(***************************************************************************)
EXTENDS Integers, Sequences, FiniteSets

CONSTANTS
  Options,     \* the options of appenders, with the bounds for each
  DayLength,   \* time units of a day
  Timezone,    \* timezone_offset
  MaxFaults    \* bound: system calls that fail

ASSUME FileAssumption ==
  /\ \A o \in Options :
       /\ o.max_size \in Nat /\ o.max_days \in Nat /\ o.max_loop \in Nat \ {0}
       /\ o.daily \in BOOLEAN
       /\ o.fd_zero \in BOOLEAN   \* open gives descriptor 0: stdin is closed
       /\ o.time \in Nat          \* bound: the clock stops there
       /\ o.lines \in Nat         \* bound: messages written
  /\ DayLength \in Nat \ {0} /\ Timezone \in Int
  /\ MaxFaults \in Nat

VARIABLES
  options,    \* what the application sets in the appender, 0 for no limit; the same all along
  now,        \* the clock
  file,       \* what each name stands for: messages in the order of writing, st_mtime
  fd,         \* the name of the open file, or Closed or Away
  fileSize,   \* file_size
  lastMtime,  \* last_mtime
  pc,         \* where the call of NengLogFileWrite is
  idx,        \* max_idx of __rotatefile
  began,      \* nowtm, the clock as the write read it
  count,      \* messages given to NengLogFileWrite
  faults,     \* system calls that failed
  misnamed,   \* history: a rename of a file that exists failed
  overwritten,\* history: <<message, st_mtime>> of the messages that renames destroyed
  crossed,    \* history: messages during whose writing a day ended
  taken       \* history: logrotate took the file, and NengLogClose has not been called since

contextVars == <<fd, fileSize, lastMtime>>
historyVars == <<misnamed, overwritten, crossed, taken>>
vars == <<options, now, file, contextVars, pc, idx, began, count, faults, historyVars>>

MaxSize == options.max_size
MaxDays == options.max_days
MaxLoop == options.max_loop   \* after its default is put in
Daily == options.daily
FdZero == options.fd_zero
MaxTime == options.time
MaxLines == options.lines

\* A backup gets a number above all others only when a message is written.
MaxIndex == MaxLines + MaxLoop
Names == 0 .. MaxIndex
Backups == 1 .. MaxIndex

Closed == -1   \* no descriptor
Unknown == -1  \* file_size and last_mtime of a closed file
Away == -2     \* a descriptor of a file that has no name here any more

PC == {"none", "idle", "check", "scan", "rename", "reopen", "write", "stamp"}

NoFile == [lines |-> <<>>, mtime |-> -1]
Exists(k) == file[k] # NoFile

Init ==
  /\ options \in Options
  /\ now = 0
  /\ file = [k \in Names |-> NoFile]
  /\ fd = Closed /\ fileSize = Unknown /\ lastMtime = Unknown
  /\ pc = "none" /\ idx = 0 /\ began = 0
  /\ count = 0 /\ faults = 0
  /\ misnamed = FALSE /\ overwritten = {} /\ crossed = {} /\ taken = FALSE

Goto(from, to) == pc = from /\ pc' = to

Fault == faults < MaxFaults /\ faults' = faults + 1

Day(t) == (t + Timezone) \div DayLength

-----------------------------------------------------------------------------
(* __openfile and __closefile. *)

Created == IF Exists(0) THEN file ELSE [file EXCEPT ![0] = [lines |-> <<>>, mtime |-> now]]

OpenFile ==
  IF fd = Closed
    THEN /\ file' = Created
         /\ fd' = 0
         /\ fileSize' = Len(Created[0].lines)
         /\ lastMtime' = Created[0].mtime
    ELSE UNCHANGED <<file, contextVars>>

\* open fails, or fstat does when the file has been created.
OpenFails ==
  /\ fd = Closed
  /\ Fault
  /\ file' \in IF FdZero THEN {file} ELSE {file, Created}
  /\ UNCHANGED contextVars

\* Mutant: the descriptor is kept.
MutCloseFile == UNCHANGED contextVars

\* Descriptor 0 passes for none.
CloseFile ==
  IF FdZero THEN UNCHANGED contextVars
  ELSE fd' = Closed /\ fileSize' = Unknown /\ lastMtime' = Unknown

-----------------------------------------------------------------------------
(* NengLogFileWrite, one message at a time: its caller holds the mutex of   *)
(* the appender's list item.                                                *)

WriteOpen ==
  /\ count < MaxLines
  /\ Goto("idle", "check")
  /\ OpenFile
  /\ count' = count + 1
  /\ UNCHANGED <<options, now, idx, began, faults, historyVars>>

\* The message is given up.
WriteCannotOpen ==
  /\ count < MaxLines
  /\ Goto("idle", "idle")
  /\ OpenFails
  /\ count' = count + 1
  /\ UNCHANGED <<options, now, idx, began, historyVars>>

\* Mutants: no look at the size; days of another time zone.
MutTooLarge == FALSE
MutAnotherDay == Daily /\ now \div DayLength # lastMtime \div DayLength

AnotherDay == Daily /\ Day(now) # Day(lastMtime)
TooLarge == MaxSize > 0 /\ fileSize > MaxSize

WriteCheck ==
  /\ began' = now
  /\ IF fileSize > 0 /\ (AnotherDay \/ TooLarge)
       THEN Goto("check", "scan") /\ CloseFile
       ELSE Goto("check", "write") /\ UNCHANGED contextVars
  /\ UNCHANGED <<options, now, file, idx, count, faults, historyVars>>

\* The three writes of a message, which go through.
WriteLine ==
  /\ Goto("write", "stamp")
  /\ LET line == [n |-> count, day |-> Day(began)]
     IN  file' = IF fd = Away THEN file
                 ELSE [file EXCEPT ![fd] = [lines |-> Append(@.lines, line), mtime |-> now]]
  /\ fileSize' = fileSize + 1
  /\ crossed' = IF Day(now) # Day(began) THEN crossed \union {count} ELSE crossed
  /\ UNCHANGED <<options, now, fd, lastMtime, idx, began, count, faults, misnamed, overwritten, taken>>

\* One of them fails: nothing or a part of the message is in the file.
WriteFails ==
  /\ Goto("write", "idle")
  /\ Fault
  /\ LET line == [n |-> count, day |-> Day(began)]
     IN  \/ UNCHANGED file
         \/ fd # Away /\ file' = [file EXCEPT ![fd] = [lines |-> Append(@.lines, line), mtime |-> now]]
  /\ CloseFile
  /\ crossed' = IF Day(now) # Day(began) THEN crossed \union {count} ELSE crossed
  /\ UNCHANGED <<options, now, idx, began, count, misnamed, overwritten, taken>>

\* Mutant: the stamp is a local time.
MutWriteStamp ==
  /\ Goto("stamp", "idle")
  /\ lastMtime' = now + Timezone
  /\ UNCHANGED <<options, now, file, fd, fileSize, idx, began, count, faults, historyVars>>

WriteStamp ==
  /\ Goto("stamp", "idle")
  /\ lastMtime' = now
  /\ crossed' = IF Day(now) # Day(began) THEN crossed \union {count} ELSE crossed
  /\ UNCHANGED <<options, now, file, fd, fileSize, idx, began, count, faults, misnamed, overwritten, taken>>

-----------------------------------------------------------------------------
(* __rotatefile. *)

\* The first number that no backup has, or max_loop if all are taken.
FirstUnused == CHOOSE k \in Backups : ~Exists(k) /\ \A j \in 1 .. k - 1 : Exists(j)
LastOfLoop == IF FirstUnused > MaxLoop THEN MaxLoop ELSE FirstUnused

\* The first number that no backup has, or only one that is old enough.
\* Mutant: the days are taken for time units.
MutExpired(k) == file[k].mtime < now - MaxDays

Expired(k) == file[k].mtime < now - MaxDays * DayLength
FirstExpired ==
  CHOOSE k \in Backups : (~Exists(k) \/ Expired(k)) /\ \A j \in 1 .. k - 1 : Exists(j) /\ ~Expired(j)

\* Mutant: the oldest backup is not given up, the one before it is.
MutTarget == IF FirstUnused > MaxLoop THEN MaxLoop - 1 ELSE FirstUnused

Target == IF MaxDays > 0 THEN FirstExpired ELSE LastOfLoop

Scan ==
  /\ Goto("scan", "rename")
  /\ idx' = Target
  /\ UNCHANGED <<options, now, file, contextVars, began, count, faults, historyVars>>

LinesOf(k) == {<<file[k].lines[j].n, file[k].mtime>> : j \in DOMAIN file[k].lines}

\* The file keeps its descriptor whatever its name.
Renamed(f) == IF f = idx - 1 THEN idx ELSE IF f = idx THEN Away ELSE f

\* Mutant: the log file gets the free number, so that the newest backup has the highest.
MutRenameOne ==
  /\ pc = "rename" /\ idx > 0 /\ idx' = 0
  /\ file' = [file EXCEPT ![idx] = file[0], ![0] = NoFile]
  /\ UNCHANGED <<options, now, contextVars, pc, began, count, faults, historyVars>>

RenameOne ==
  /\ pc = "rename" /\ idx > 0
  /\ idx' = idx - 1
  /\ \/ /\ Exists(idx - 1)
        /\ file' = [file EXCEPT ![idx] = file[idx - 1], ![idx - 1] = NoFile]
        /\ fd' = Renamed(fd)
        /\ overwritten' = overwritten \union LinesOf(idx)
        /\ UNCHANGED <<faults, misnamed>>
     \/ ~Exists(idx - 1) /\ UNCHANGED <<file, fd, overwritten, faults, misnamed>>
     \/ Exists(idx - 1) /\ Fault /\ misnamed' = TRUE /\ UNCHANGED <<file, fd, overwritten>>
  /\ UNCHANGED <<options, now, fileSize, lastMtime, pc, began, count, crossed, taken>>

RotateDone ==
  /\ idx = 0
  /\ Goto("rename", "reopen")
  /\ UNCHANGED <<options, now, file, contextVars, idx, began, count, faults, historyVars>>

Reopen ==
  /\ Goto("reopen", "write")
  /\ OpenFile
  /\ UNCHANGED <<options, now, idx, began, count, faults, historyVars>>

CannotReopen ==
  /\ Goto("reopen", "idle")
  /\ OpenFails
  /\ UNCHANGED <<options, now, idx, began, count, historyVars>>

-----------------------------------------------------------------------------
(* The life of the appender, and its surroundings. *)

CreateFileAppender ==
  /\ Goto("none", "idle")
  /\ fd' = Closed /\ fileSize' = Unknown /\ lastMtime' = Unknown
  /\ UNCHANGED <<options, now, file, idx, began, count, faults, historyVars>>

\* NengLogFileClose, called by NengLogClose under the same mutex.
FileClose ==
  /\ Goto("idle", "idle")
  /\ CloseFile
  /\ taken' = FALSE
  /\ UNCHANGED <<options, now, file, idx, began, count, faults, misnamed, overwritten, crossed>>

FileRelease ==
  /\ Goto("idle", "none")
  /\ CloseFile
  /\ UNCHANGED <<options, now, file, idx, began, count, faults, historyVars>>

\* The process dies; the system closes its files.
Crash ==
  /\ pc # "none"
  /\ pc' = "none"
  /\ fd' = Closed /\ fileSize' = Unknown /\ lastMtime' = Unknown
  /\ UNCHANGED <<options, now, file, idx, began, count, faults, historyVars>>

Tick ==
  /\ now < MaxTime
  /\ now' = now + 1
  /\ UNCHANGED <<options, file, contextVars, pc, idx, began, count, faults, historyVars>>

\* logrotate takes the log file to another place.
Logrotate ==
  /\ Exists(0)
  /\ file' = [file EXCEPT ![0] = NoFile]
  /\ fd' = IF fd = 0 THEN Away ELSE fd
  /\ taken' = TRUE
  /\ UNCHANGED <<options, now, fileSize, lastMtime, pc, idx, began, count, faults, misnamed, overwritten, crossed>>

Next ==
  \/ WriteOpen \/ WriteCannotOpen \/ WriteCheck \/ WriteLine \/ WriteFails \/ WriteStamp
  \/ Scan \/ RenameOne \/ RotateDone \/ Reopen \/ CannotReopen
  \/ CreateFileAppender \/ FileClose \/ FileRelease
  \/ Crash \/ Tick \/ Logrotate

Spec == Init /\ [][Next]_vars

-----------------------------------------------------------------------------
Line == [n : 1 .. MaxLines, day : Int]

TypeOK ==
  /\ options \in Options
  /\ now \in 0 .. MaxTime /\ began \in 0 .. MaxTime
  /\ file \in [Names -> [lines : Seq(Line), mtime : -1 .. MaxTime]]
  /\ fd \in Names \union {Closed, Away}
  /\ fileSize \in 0 .. MaxLines \union {Unknown}
  /\ lastMtime \in 0 .. MaxTime \union {Unknown}
  /\ pc \in PC
  /\ idx \in Names
  /\ count \in 0 .. MaxLines /\ faults \in 0 .. MaxFaults
  /\ misnamed \in BOOLEAN /\ taken \in BOOLEAN

NumbersIn(k) == {file[k].lines[j].n : j \in DOMAIN file[k].lines}

(* Read from the highest backup to the log file, the messages are in the order *)
(* in which they were logged, wherever the process died during a rotation      *)
(* (log_file.c:171-188) and whichever renames failed.                          *)
Chronological ==
  /\ \A k \in Names : \A i, j \in DOMAIN file[k].lines :
       i < j => file[k].lines[i].n < file[k].lines[j].n
  /\ \A j, k \in Names : j < k => \A m \in NumbersIn(k), n \in NumbersIn(j) : m < n

(* With max_loop, and renames that do not fail, a rotation destroys only the   *)
(* oldest messages there are, also when an earlier rotation was cut short.     *)
(* With max_days it destroys what is old enough, not what is oldest: it ends   *)
(* at the first number whose backup has expired (log_file.c:146-149).          *)
OldestLost ==
  MaxDays = 0 /\ ~misnamed =>
    \A o \in overwritten, k \in Names : \A n \in NumbersIn(k) : o[1] < n

(* No file grows beyond max_size and the message that made it so, over         *)
(* reopening, failed writes and restarts, unless it could not be renamed.      *)
(* Descriptor 0 is left out: it is not closed (log_file.c:81), so that after a *)
(* rotation the messages still go to the file that has become a backup.        *)
SizeBound ==
  MaxSize > 0 /\ ~misnamed /\ ~FdZero =>
    \A k \in Names : Len(file[k].lines) <= MaxSize + 1

(* With daily, a file holds messages of one local day, but for one whose       *)
(* writing midnight fell into (between log_file.c:207 and 252); descriptor 0   *)
(* is left out as above.                                                       *)
OneDay ==
  Daily /\ ~misnamed /\ ~FdZero =>
    \A k \in Names : \A j \in 1 .. Len(file[k].lines) - 1 :
      LET x == file[k].lines[j]
          y == file[k].lines[j + 1]
      IN  x.n \in crossed \/ x.day = y.day

(* A message is written to the file that has the log file's name, never to a   *)
(* backup, after rotations, and after NengLogClose (log_file.c:255-260), by    *)
(* which whoever takes the file away has the output opened anew (log.h:269).   *)
(* Descriptor 0 is left out: it is not closed (log_file.c:81).                 *)
WritesLogFile == pc \in {"write", "stamp"} /\ ~taken /\ ~FdZero => fd = 0

(* With max_days, a rename never destroys a message that is not old enough.    *)
OnlyExpiredLost ==
  MaxDays > 0 /\ ~misnamed => \A o \in overwritten : o[2] < now - MaxDays * DayLength
=============================================================================
