---------------------------- MODULE LogFileProofs ----------------------------
(***************************************************************************)
(* Proofs about the file appender: for every bound on messages, time and   *)
(* failing calls, the messages stay in order over the backups, and nothing *)
(* but what may be lost is lost; files stay small, or hold one day; the    *)
(* log file is the one that is written to.                                 *)
(***************************************************************************)
EXTENDS LogFile, WellFoundedInduction, SequenceTheorems, TLAPS

-----------------------------------------------------------------------------
(* The inductive invariant, in the order in which its parts need each other. *)

\* The message in progress is not in a file yet.
InFlight == {"check", "scan", "rename", "reopen", "write"}
Written == IF pc \in InFlight THEN count - 1 ELSE count

\* Files are no longer than the number of messages, nor is their number higher:
\* a rotation finds a free number below the message in progress.
WrittenBound ==
  /\ Written >= 0
  /\ fileSize <= Written
  /\ \A k \in Names : Len(file[k].lines) <= Written

HighestBound ==
  /\ \A k \in Names : Exists(k) => k < count
  /\ pc \in {"check", "scan"} => \A k \in Backups : Exists(k) => k < count - 1
  /\ pc = "scan" => count > 1
  /\ pc = "rename" => idx < count

\* Where a descriptor can stand.
DescriptorOpen ==
  /\ pc \in {"check", "write", "stamp"} => fd # Closed
  /\ FdZero /\ pc \in {"scan", "rename", "reopen"} => fd # Closed
  /\ fd # Closed => fileSize # Unknown
  /\ fd \in Names => Exists(fd)

DescriptorPlace ==
  ~FdZero =>
    /\ fd \in {Closed, 0, Away}
    /\ fd = Away => taken
    /\ pc \in {"scan", "rename", "reopen"} => fd = Closed

TypeInv == TypeOK /\ WrittenBound /\ HighestBound /\ DescriptorOpen /\ DescriptorPlace

\* All that is in the files is older than the message in progress, and nothing
\* but the file that is written can take the newest.
AllWritten == \A k \in Names : \A n \in NumbersIn(k) : n <= Written
WritesNewest == \A j \in Names : fd \in Names /\ j < fd => ~Exists(j)

OrderInv == AllWritten /\ WritesNewest /\ Chronological

\* What a rename may destroy.
MayDestroy(k) == IF MaxDays > 0 THEN Expired(k) ELSE k = MaxLoop
TargetFree == pc = "rename" /\ idx > 0 /\ ~misnamed => ~Exists(idx) \/ MayDestroy(idx)
LoopBound ==
  MaxDays = 0 =>
    /\ pc = "rename" => idx <= MaxLoop
    /\ \A k \in Names : Exists(k) => k <= MaxLoop
OverwrittenType == \A o \in overwritten : o[1] \in 1 .. Written /\ o[2] \in -1 .. MaxTime

LostInv == TargetFree /\ LoopBound /\ OverwrittenType /\ OldestLost /\ OnlyExpiredLost

\* After a rotation the log file is a new one.
RotatedAway ==
  ~misnamed /\ ~FdZero /\ (pc = "reopen" \/ (pc = "rename" /\ idx = 0)) => ~Exists(0)
SizeKnown == ~FdZero /\ fd = 0 => fileSize = Len(file[0].lines)
SizeChecked ==
  MaxSize > 0 /\ ~misnamed /\ ~FdZero /\ pc = "write" /\ fd = 0 => fileSize <= MaxSize

SizeInv == RotatedAway /\ SizeKnown /\ SizeChecked /\ SizeBound

\* The last message of a file, and the day the file is of.
LastLine(k) == file[k].lines[Len(file[k].lines)]
OfDay(k, d) == file[k].lines = <<>> \/ LastLine(k).n \in crossed \/ LastLine(k).day = d
StampOfDay == \A k \in Names : OfDay(k, Day(file[k].mtime))
OpenOfDay ==
  fd = 0 =>
    /\ pc \in {"idle", "check"} => OfDay(0, Day(lastMtime))
    /\ pc = "write" => OfDay(0, Day(began))
    /\ pc = "stamp" =>
         /\ file[0].lines # <<>>
         /\ LastLine(0) = [n |-> count, day |-> Day(began)]

DayInv == (Daily /\ ~misnamed /\ ~FdZero => StampOfDay /\ OpenOfDay) /\ OneDay

-----------------------------------------------------------------------------
(* The options and the names. *)

\* The options are those of an appender, and there is a name for every message.
LEMMA OptionTypes ==
  ASSUME TypeOK
  PROVE  /\ MaxSize \in Nat /\ MaxDays \in Nat /\ MaxLoop \in Nat /\ MaxLoop > 0
         /\ Daily \in BOOLEAN /\ FdZero \in BOOLEAN /\ MaxTime \in Nat /\ MaxLines \in Nat
         /\ MaxIndex \in Nat /\ MaxIndex >= MaxLines /\ MaxIndex > 0
<1>1. options \in Options
  BY DEF TypeOK
<1>2. /\ MaxSize \in Nat /\ MaxDays \in Nat /\ MaxLoop \in Nat \ {0}
      /\ Daily \in BOOLEAN /\ FdZero \in BOOLEAN /\ MaxTime \in Nat /\ MaxLines \in Nat
  BY <1>1, FileAssumption DEF MaxSize, MaxDays, MaxLoop, Daily, FdZero, MaxTime, MaxLines
<1> QED BY <1>2 DEF MaxIndex

\* Nothing changes the options, so neither what is read off them.
LEMMA OptionsKept ==
  ASSUME options' = options
  PROVE  /\ MaxSize' = MaxSize /\ MaxDays' = MaxDays /\ MaxLoop' = MaxLoop
         /\ Daily' = Daily /\ FdZero' = FdZero /\ MaxTime' = MaxTime /\ MaxLines' = MaxLines
         /\ MaxIndex' = MaxIndex /\ Names' = Names /\ Backups' = Backups /\ Line' = Line
BY DEF MaxSize, MaxDays, MaxLoop, Daily, FdZero, MaxTime, MaxLines, MaxIndex, Names, Backups, Line

LEMMA OptionsConstant == ASSUME Next PROVE options' = options
BY DEF Next, WriteOpen, WriteCannotOpen, WriteCheck, WriteLine, WriteFails, WriteStamp, Scan,
  RenameOne, RotateDone, Reopen, CannotReopen, CreateFileAppender, FileClose, FileRelease,
  Crash, Tick, Logrotate

LEMMA OptionsStay ==
  ASSUME Next
  PROVE  /\ MaxSize' = MaxSize /\ MaxDays' = MaxDays /\ MaxLoop' = MaxLoop
         /\ Daily' = Daily /\ FdZero' = FdZero /\ MaxTime' = MaxTime /\ MaxLines' = MaxLines
         /\ MaxIndex' = MaxIndex /\ Names' = Names /\ Backups' = Backups /\ Line' = Line
BY OptionsConstant, OptionsKept

LEMMA NameOfLog ==
  ASSUME TypeOK
  PROVE  0 \in Names /\ Names \subseteq Nat /\ Backups = Names \ {0}
BY OptionTypes DEF Names, Backups

\* Where the variables range, as the proofs use it.
LEMMA Ranges ==
  ASSUME TypeInv
  PROVE  /\ TypeOK /\ WrittenBound /\ HighestBound /\ DescriptorOpen /\ DescriptorPlace
         /\ 0 \in Names /\ Names \subseteq Nat /\ Backups = Names \ {0}
         /\ DOMAIN file = Names
         /\ \A k \in Names : file[k].lines \in Seq(Line) /\ file[k].mtime \in -1 .. MaxTime
         /\ fd \in Names \union {Closed, Away} /\ Closed = -1 /\ Away = -2 /\ Unknown = -1
         /\ fileSize \in Int /\ fileSize >= -1 /\ fileSize <= Written
         /\ now \in Int /\ idx \in Names /\ misnamed \in BOOLEAN
         /\ MaxLines \in Nat /\ count \in 0 .. MaxLines
         /\ Written \in Nat /\ Written <= MaxLines
<1>1. TypeOK /\ WrittenBound /\ HighestBound /\ DescriptorOpen /\ DescriptorPlace
  BY DEF TypeInv
<1>2. /\ file \in [Names -> [lines : Seq(Line), mtime : -1 .. MaxTime]]
      /\ fd \in Names \union {Closed, Away} /\ fileSize \in 0 .. MaxLines \union {Unknown}
      /\ now \in 0 .. MaxTime /\ idx \in Names /\ misnamed \in BOOLEAN /\ count \in 0 .. MaxLines
  BY <1>1 DEF TypeOK
<1>3. MaxLines \in Nat /\ MaxTime \in Nat /\ Closed = -1 /\ Away = -2 /\ Unknown = -1
  BY <1>1, OptionTypes DEF Closed, Away, Unknown
<1>4. Written >= 0 /\ fileSize <= Written /\ (Written = count \/ Written = count - 1)
  BY <1>1 DEF WrittenBound, Written
<1>5. fileSize \in Int /\ fileSize >= -1 /\ now \in Int /\ Written \in Nat /\ Written <= MaxLines
  BY <1>2, <1>3, <1>4
<1>6. /\ DOMAIN file = Names
      /\ \A k \in Names : file[k].lines \in Seq(Line) /\ file[k].mtime \in -1 .. MaxTime
  BY <1>2
<1> QED BY <1>1, <1>2, <1>3, <1>4, <1>5, <1>6, NameOfLog

LEMMA DayType == \A t \in Int : Day(t) \in Int
BY FileAssumption DEF Day

LEMMA ExpiryType ==
  ASSUME TypeOK
  PROVE  MaxDays * DayLength \in Int
BY OptionTypes, FileAssumption

-----------------------------------------------------------------------------
(* What a step does to the files. *)

Message == [n |-> count, day |-> Day(began)]

MadeNew ==
  /\ pc \in {"idle", "reopen"} /\ fd = Closed /\ ~Exists(0)
  /\ count' = IF pc = "idle" THEN count + 1 ELSE count
  /\ file' = [file EXCEPT ![0] = [lines |-> <<>>, mtime |-> now]]
Wrote ==
  /\ pc = "write" /\ pc' \in {"stamp", "idle"} /\ count' = count /\ fd \in Names
  /\ file' = [file EXCEPT ![fd] = [lines |-> Append(file[fd].lines, Message), mtime |-> now]]
  /\ Day(now) # Day(began) => count \in crossed'
Moved ==
  /\ pc = "rename" /\ idx > 0 /\ Exists(idx - 1)
  /\ file' = [file EXCEPT ![idx] = file[idx - 1], ![idx - 1] = NoFile]
TakenAway == file' = [file EXCEPT ![0] = NoFile]

\* A file is made, written to, moved to the next number or taken away; no other
\* step touches any.
LEMMA FileSteps ==
  ASSUME TypeOK, DescriptorOpen, Next
  PROVE  file' = file \/ MadeNew \/ Wrote \/ Moved \/ TakenAway
<1> USE DEF Goto
<1>1. CASE WriteOpen \/ Reopen
  BY <1>1 DEF WriteOpen, Reopen, OpenFile, Created, MadeNew
<1>2. CASE WriteCannotOpen \/ CannotReopen
  <2>1. /\ file' \in {file, Created} /\ fd = Closed /\ pc \in {"idle", "reopen"}
        /\ count' = IF pc = "idle" THEN count + 1 ELSE count
    BY <1>2 DEF WriteCannotOpen, CannotReopen, OpenFails
  <2> QED BY <2>1 DEF Created, MadeNew
<1>3. CASE WriteLine \/ WriteFails
  <2>1. pc = "write" /\ fd # Closed
    BY <1>3 DEF WriteLine, WriteFails, DescriptorOpen
  <2>2. fd = Away \/ fd \in Names
    BY <2>1 DEF TypeOK
  <2> QED BY <1>3, <2>1, <2>2 DEF WriteLine, WriteFails, Wrote, Message
<1>4. CASE RenameOne
  BY <1>4 DEF RenameOne, Moved
<1>5. CASE Logrotate
  BY <1>5 DEF Logrotate, TakenAway
<1>6. CASE WriteCheck \/ WriteStamp \/ Scan \/ RotateDone \/ CreateFileAppender \/ FileClose
           \/ FileRelease \/ Crash \/ Tick
  BY <1>6 DEF WriteCheck, WriteStamp, Scan, RotateDone, CreateFileAppender, FileClose,
    FileRelease, Crash, Tick
<1> QED BY <1>1, <1>2, <1>3, <1>4, <1>5, <1>6 DEF Next

\* The same, name by name.
LEMMA FilesAfter ==
  ASSUME TypeOK
  PROVE  /\ MadeNew => \A k \in Names :
              file'[k] = IF k = 0 THEN [lines |-> <<>>, mtime |-> now] ELSE file[k]
         /\ Wrote => \A k \in Names :
              file'[k] = IF k = fd THEN [lines |-> Append(file[fd].lines, Message), mtime |-> now]
                                   ELSE file[k]
         /\ Moved => \A k \in Names :
              file'[k] = IF k = idx THEN file[idx - 1]
                         ELSE IF k = idx - 1 THEN NoFile ELSE file[k]
         /\ TakenAway => \A k \in Names : file'[k] = IF k = 0 THEN NoFile ELSE file[k]
<1>1. DOMAIN file = Names /\ 0 \in Names /\ Names \subseteq Nat /\ idx \in Names
  BY NameOfLog DEF TypeOK
<1>2. pc = "rename" /\ idx > 0 => idx - 1 \in Names
  BY <1>1, OptionTypes DEF Names
<1>3. MadeNew \/ TakenAway => \A k \in Names \ {0} : file'[k] = file[k]
  BY <1>1 DEF MadeNew, TakenAway
<1>4. /\ MadeNew => file'[0] = [lines |-> <<>>, mtime |-> now]
      /\ TakenAway => file'[0] = NoFile
  BY <1>1 DEF MadeNew, TakenAway
<1>5. Wrote => \A k \in Names :
        file'[k] = IF k = fd THEN [lines |-> Append(file[fd].lines, Message), mtime |-> now]
                             ELSE file[k]
  BY <1>1 DEF Wrote
<1>6. Moved => \A k \in Names :
        file'[k] = IF k = idx THEN file[idx - 1] ELSE IF k = idx - 1 THEN NoFile ELSE file[k]
  BY <1>1, <1>2 DEF Moved
<1> QED BY <1>3, <1>4, <1>5, <1>6

-----------------------------------------------------------------------------
(* The state of an appender stays what it should be. *)

\* Messages, and sequences of them.
LEMMA LinesGrow ==
  ASSUME TypeOK, count \in 1 .. MaxLines, NEW k \in Names
  PROVE  /\ Append(file[k].lines, Message) \in Seq(Line)
         /\ Len(Append(file[k].lines, Message)) = Len(file[k].lines) + 1
<1>1. Message \in Line
  BY DayType DEF Message, Line, TypeOK
<1>2. file[k].lines \in Seq(Line)
  BY DEF TypeOK
<1> QED BY <1>1, <1>2, AppendProperties

LEMMA EmptyLines ==
  ASSUME TypeOK
  PROVE  /\ <<>> \in Seq(Line) /\ Len(<<>>) = 0
         /\ NoFile.lines = <<>> /\ NoFile.mtime = -1
         /\ NoFile \in [lines : Seq(Line), mtime : -1 .. MaxTime]
         /\ \A k \in Names : file[k] = NoFile => file[k].lines = <<>>
BY EmptySeq, OptionTypes DEF NoFile

\* A new file is not taken for none: its time is not before the clock's first.
LEMMA NoFileMtime ==
  ASSUME TypeOK
  PROVE  \A t \in 0 .. MaxTime, s \in Seq(Line) : [lines |-> s, mtime |-> t] # NoFile
BY EmptyLines, OptionTypes DEF NoFile

LEMMA MessageNumber ==
  ASSUME TypeOK, WrittenBound, pc = "write"
  PROVE  count \in 1 .. MaxLines
BY OptionTypes DEF WrittenBound, Written, InFlight, TypeOK

\* But for a write, a file has no lines after a step, or is as it was, be it under
\* the number before.
LEMMA FileAsBefore ==
  ASSUME TypeOK, NEW k \in Names
  PROVE  /\ MadeNew \/ TakenAway => file'[k].lines = <<>> \/ file'[k] = file[k]
         /\ Moved => idx - 1 \in Names /\ \/ file'[k].lines = <<>>
                                          \/ file'[k] = file[k]
                                          \/ file'[k] = file[idx - 1]
<1>1. Moved => idx - 1 \in Names
  BY OptionTypes DEF Moved, TypeOK, Names
<1> QED BY <1>1, FilesAfter, EmptyLines

LEMMA FileType ==
  ASSUME TypeInv, Next
  PROVE  file' \in [Names -> [lines : Seq(Line), mtime : -1 .. MaxTime]]
<1>1. TypeOK /\ DescriptorOpen /\ WrittenBound
  BY DEF TypeInv
<1>2. file \in [Names -> [lines : Seq(Line), mtime : -1 .. MaxTime]] /\ now \in -1 .. MaxTime
  BY <1>1, OptionTypes DEF TypeOK
<1>3. CASE file' = file
  BY <1>2, <1>3
<1>4. CASE MadeNew
  <2>1. [lines |-> <<>>, mtime |-> now] \in [lines : Seq(Line), mtime : -1 .. MaxTime]
    BY <1>1, <1>2, EmptyLines
  <2> QED BY <1>2, <1>4, <2>1 DEF MadeNew
<1>5. CASE Wrote
  <2>1. [lines |-> Append(file[fd].lines, Message), mtime |-> now]
          \in [lines : Seq(Line), mtime : -1 .. MaxTime]
    BY <1>1, <1>2, <1>5, MessageNumber, LinesGrow DEF Wrote
  <2> QED BY <1>2, <1>5, <2>1 DEF Wrote
<1>6. CASE Moved
  <2>1. idx \in Names /\ idx - 1 \in Names
    BY <1>1, <1>6, OptionTypes DEF TypeOK, Moved, Names
  <2>2. NoFile \in [lines : Seq(Line), mtime : -1 .. MaxTime]
    BY <1>1, EmptyLines
  <2> QED BY <1>2, <1>6, <2>1, <2>2 DEF Moved
<1>7. CASE TakenAway
  <2>1. NoFile \in [lines : Seq(Line), mtime : -1 .. MaxTime]
    BY <1>1, EmptyLines
  <2> QED BY <1>2, <1>7, <2>1 DEF TakenAway
<1> QED BY <1>1, <1>3, <1>4, <1>5, <1>6, <1>7, FileSteps

-----------------------------------------------------------------------------
(* The number that a rotation begins with. *)

\* Every set of numbers has a least one.
LEMMA Least ==
  ASSUME NEW S \in SUBSET Nat, S # {}
  PROVE  \E m \in S : \A n \in S : m <= n
<1> DEFINE Below == {ss \in Nat \X Nat : ss[1] < ss[2]}
<1>1. IsWellFoundedOn(Below, Nat)
  BY NatLessThanWellFounded DEF OpToRel
<1>2. \A m, n \in Nat : <<n, m>> \in Below <=> n < m
  OBVIOUS
<1>3. \E m \in S : \A n \in S : ~(<<n, m>> \in Below)
  <2> HIDE DEF Below
  <2> QED BY <1>1, WFMin
<1> HIDE DEF Below
<1>4. PICK m \in S : \A n \in S : ~(<<n, m>> \in Below)
  BY <1>3
<1>5. \A n \in S : ~(n < m) /\ n \in Nat /\ m \in Nat
  BY <1>2, <1>4
<1>6. \A n \in S : m <= n
  BY <1>5
<1> QED BY <1>6

\* The search ends at a number below any that is free.
LEMMA FirstUnusedIs ==
  ASSUME TypeOK, NEW k \in Backups, ~Exists(k)
  PROVE  /\ FirstUnused \in Backups /\ FirstUnused <= k
         /\ ~Exists(FirstUnused)
<1> DEFINE Free == {j \in Backups : ~Exists(j)}
<1>1. Free \in SUBSET Nat /\ Free # {}
  BY NameOfLog
<1>2. PICK f \in Free : \A j \in Free : f <= j
  BY <1>1, Least
<1>3. f \in Backups /\ ~Exists(f) /\ \A j \in 1 .. f - 1 : Exists(j)
  BY <1>2, OptionTypes DEF Backups
<1>4. /\ FirstUnused \in Backups /\ ~Exists(FirstUnused)
      /\ \A j \in 1 .. FirstUnused - 1 : Exists(j)
  BY <1>3 DEF FirstUnused
<1>5. FirstUnused <= k
  BY <1>4, OptionTypes DEF Backups
<1> QED BY <1>4, <1>5

LEMMA FirstExpiredIs ==
  ASSUME TypeOK, NEW k \in Backups, ~Exists(k)
  PROVE  /\ FirstExpired \in Backups /\ FirstExpired <= k
         /\ ~Exists(FirstExpired) \/ Expired(FirstExpired)
<1> DEFINE Free == {j \in Backups : ~Exists(j) \/ Expired(j)}
<1>1. Free \in SUBSET Nat /\ Free # {}
  BY NameOfLog
<1>2. PICK f \in Free : \A j \in Free : f <= j
  BY <1>1, Least
<1>3. /\ f \in Backups /\ (~Exists(f) \/ Expired(f))
      /\ \A j \in 1 .. f - 1 : Exists(j) /\ ~Expired(j)
  BY <1>2, OptionTypes DEF Backups
<1>4. /\ FirstExpired \in Backups /\ (~Exists(FirstExpired) \/ Expired(FirstExpired))
      /\ \A j \in 1 .. FirstExpired - 1 : Exists(j) /\ ~Expired(j)
  BY <1>3 DEF FirstExpired
<1>5. FirstExpired <= k
  BY <1>4, OptionTypes DEF Backups
<1> QED BY <1>4, <1>5

\* A rotation begins with a number that is not higher than any free one, and
\* the backup of which may be destroyed if there is one.
LEMMA TargetIs ==
  ASSUME TypeOK, NEW k \in Backups, ~Exists(k)
  PROVE  /\ Target \in Backups /\ Target <= k
         /\ ~Exists(Target) \/ MayDestroy(Target)
         /\ MaxDays = 0 => Target <= MaxLoop
<1>1. CASE MaxDays > 0
  BY <1>1, FirstExpiredIs DEF Target, MayDestroy
<1>2. CASE ~(MaxDays > 0)
  <2>1. Target = IF FirstUnused > MaxLoop THEN MaxLoop ELSE FirstUnused
    BY <1>2 DEF Target, LastOfLoop
  <2> QED BY <1>2, <2>1, FirstUnusedIs, OptionTypes DEF Backups, MayDestroy
<1> QED BY <1>1, <1>2

-----------------------------------------------------------------------------
(* What a step does to the descriptor and what is remembered of its file. *)

LEMMA OpenEffect ==
  ASSUME TypeInv, OpenFile
  PROVE  /\ fd' \in Names \union {Away} /\ fd' # Closed
         /\ fileSize' \in 0 .. Written
         /\ lastMtime' \in -1 .. MaxTime
         /\ fd = Closed => /\ file' = Created /\ fd' = 0
                           /\ fileSize' = Len(file'[0].lines)
                           /\ lastMtime' = file'[0].mtime
         /\ fd # Closed => UNCHANGED <<file, contextVars>>
<1>1. TypeOK /\ 0 \in Names
  BY NameOfLog DEF TypeInv
<1>2. /\ Written \in Nat /\ Len(file[0].lines) <= Written /\ fileSize <= Written
      /\ fd # Closed => fileSize # Unknown
  BY <1>1, Ranges DEF WrittenBound, DescriptorOpen
<1>3. CASE fd # Closed
  <2>1. UNCHANGED <<file, contextVars>>
    BY <1>3 DEF OpenFile
  <2>2. fileSize \in 0 .. Written
    BY <1>2, <1>3, Ranges
  <2>3. lastMtime \in -1 .. MaxTime
    BY <1>1, OptionTypes DEF TypeOK, Unknown
  <2>4. fd' = fd /\ fileSize' = fileSize /\ lastMtime' = lastMtime
    BY <2>1 DEF contextVars
  <2> QED BY <1>3, <2>1, <2>2, <2>3, <2>4, Ranges
<1>4. CASE fd = Closed
  <2>1. /\ file' = Created /\ fd' = 0
        /\ fileSize' = Len(Created[0].lines) /\ lastMtime' = Created[0].mtime
    BY <1>4 DEF OpenFile
  <2>2. CASE Exists(0)
    <3>1. Created = file
      BY <2>2 DEF Created
    <3>2. /\ file[0].lines \in Seq(Line) /\ file[0].mtime \in -1 .. MaxTime
      BY <1>1 DEF TypeOK
    <3> QED BY <1>1, <1>2, <1>4, <2>1, <3>1, <3>2, LenProperties DEF Closed, Away
  <2>3. CASE ~Exists(0)
    <3>1. Created[0] = [lines |-> <<>>, mtime |-> now]
      BY <2>3, <1>1 DEF Created, TypeOK
    <3>2. now \in -1 .. MaxTime
      BY <1>1, OptionTypes DEF TypeOK
    <3> QED BY <1>1, <1>2, <1>4, <2>1, <3>1, <3>2, EmptyLines DEF Closed, Away
  <2> QED BY <2>2, <2>3
<1> QED BY <1>3, <1>4

LEMMA CloseEffect ==
  ASSUME CloseFile
  PROVE  /\ FdZero => UNCHANGED contextVars
         /\ ~FdZero => fd' = Closed /\ fileSize' = Unknown /\ lastMtime' = Unknown
BY DEF CloseFile

\* The number that a rotation begins with is below that of the message, and so
\* is every number that is taken after it.
LEMMA ScanEffect ==
  ASSUME TypeInv, Scan
  PROVE  /\ idx' \in Backups /\ idx' <= count - 1
         /\ ~Exists(idx') \/ MayDestroy(idx')
         /\ MaxDays = 0 => idx' <= MaxLoop
<1>1. /\ count \in 0 .. MaxLines /\ count > 1
      /\ \A k \in Backups : Exists(k) => k < count - 1
  BY DEF TypeInv, TypeOK, HighestBound, Scan, Goto
<1>2. TypeOK
  BY DEF TypeInv
<1>3. count - 1 \in Backups /\ ~Exists(count - 1)
  BY <1>1, <1>2, OptionTypes DEF Backups
<1>4. idx' = Target
  BY DEF Scan
<1> QED BY <1>2, <1>3, <1>4, TargetIs

LEMMA WrittenStep ==
  ASSUME TypeInv, Next
  PROVE  /\ count' \in 0 .. MaxLines
         /\ Written' \in Nat
         /\ Written' >= Written
         /\ Wrote => Written' = Written + 1 /\ count = Written' /\ count = Written + 1
<1>1. Written \in Nat /\ Written <= MaxLines /\ count \in 0 .. MaxLines /\ MaxLines \in Nat
  BY Ranges
<1> DEFINE Grows == Written' \in Nat /\ Written' >= Written /\ count' \in 0 .. MaxLines
<1>2. WriteOpen \/ WriteCannotOpen => Grows
  BY <1>1 DEF WriteOpen, WriteCannotOpen, Goto, Written, InFlight
<1>3. WriteLine \/ WriteFails => Grows
  BY <1>1 DEF WriteLine, WriteFails, Goto, Written, InFlight
<1>4. WriteCheck \/ Scan \/ RotateDone \/ Reopen \/ RenameOne => Grows
  BY <1>1 DEF WriteCheck, Scan, RotateDone, Reopen, RenameOne, Goto, Written, InFlight
<1>5. WriteStamp \/ CreateFileAppender \/ FileClose \/ FileRelease \/ CannotReopen => Grows
  BY <1>1 DEF WriteStamp, CreateFileAppender, FileClose, FileRelease, CannotReopen,
    Goto, Written, InFlight
<1>6. Crash => Grows
  BY <1>1 DEF Crash, Written, InFlight
<1>7. Tick \/ Logrotate => Grows
  BY <1>1 DEF Tick, Logrotate, Written, InFlight
<1>8. Wrote => Written' = Written + 1 /\ count = Written' /\ count = Written + 1
  BY <1>1 DEF Wrote, Written, InFlight
<1>9. Grows
  BY <1>2, <1>3, <1>4, <1>5, <1>6, <1>7 DEF Next
<1> QED BY <1>8, <1>9

LEMMA ContextStep ==
  ASSUME TypeInv, Next
  PROVE  /\ fd' \in Names \union {Closed, Away}
         /\ fileSize' \in 0 .. MaxLines \union {Unknown}
         /\ fileSize' <= Written'
         /\ lastMtime' \in 0 .. MaxTime \union {Unknown}
<1> DEFINE ContextOK ==
      /\ fd' \in Names \union {Closed, Away}
      /\ fileSize' \in 0 .. MaxLines \union {Unknown}
      /\ fileSize' <= Written'
      /\ lastMtime' \in 0 .. MaxTime \union {Unknown}
<1>1. /\ fd \in Names \union {Closed, Away}
      /\ fileSize \in 0 .. MaxLines \union {Unknown} /\ fileSize <= Written
      /\ lastMtime \in 0 .. MaxTime \union {Unknown}
      /\ now \in 0 .. MaxTime /\ idx \in Names
      /\ MaxLines \in Nat /\ MaxTime \in Nat /\ Names \subseteq Nat /\ 0 \in Names
      /\ Unknown = -1 /\ Closed = -1 /\ Away = -2
  BY OptionTypes, NameOfLog DEF TypeInv, TypeOK, WrittenBound, Unknown, Closed, Away
<1>2. /\ Written \in Nat /\ Written <= MaxLines
      /\ Written' \in Nat /\ Written' >= Written /\ count' \in 0 .. MaxLines
  BY WrittenStep, OptionTypes DEF TypeInv, TypeOK, WrittenBound, Written
<1>3. ASSUME OpenFile PROVE ContextOK
  BY <1>1, <1>2, <1>3, OpenEffect
<1>4. ASSUME UNCHANGED contextVars PROVE ContextOK
  BY <1>1, <1>2, <1>4 DEF contextVars
<1>5. ASSUME fd' = Closed /\ fileSize' = Unknown /\ lastMtime' = Unknown PROVE ContextOK
  BY <1>1, <1>2, <1>5
<1>6. ASSUME CloseFile PROVE ContextOK
  BY <1>4, <1>5, <1>6 DEF CloseFile
<1>7. CASE WriteLine
  <2>1. /\ fd' = fd /\ lastMtime' = lastMtime /\ fileSize' = fileSize + 1
        /\ Written = count - 1 /\ Written' = count' /\ count' = count
    BY <1>7 DEF WriteLine, Goto, Written, InFlight
  <2> QED BY <1>1, <1>2, <2>1
<1>8. CASE WriteStamp
  <2>1. fd' = fd /\ lastMtime' = now /\ fileSize' = fileSize
    BY <1>8 DEF WriteStamp
  <2> QED BY <1>1, <1>2, <2>1
<1>9. CASE RenameOne
  <2>1. (fd' = fd \/ fd' = Renamed(fd)) /\ lastMtime' = lastMtime /\ fileSize' = fileSize
    BY <1>9 DEF RenameOne
  <2> QED BY <1>1, <1>2, <2>1 DEF Renamed
<1>10. CASE Logrotate
  <2>1. (fd' = fd \/ fd' = Away) /\ lastMtime' = lastMtime /\ fileSize' = fileSize
    BY <1>10 DEF Logrotate
  <2> QED BY <1>1, <1>2, <2>1
<1>11. CASE WriteCheck \/ WriteFails \/ FileClose \/ FileRelease
  BY <1>11, <1>4, <1>6 DEF WriteCheck, WriteFails, FileClose, FileRelease
<1>12. CASE WriteCannotOpen \/ CannotReopen \/ Scan \/ RotateDone \/ Tick
  BY <1>12, <1>4 DEF WriteCannotOpen, CannotReopen, OpenFails, Scan, RotateDone, Tick
<1>13. CASE WriteOpen \/ Reopen
  BY <1>13, <1>3 DEF WriteOpen, Reopen
<1>14. CASE CreateFileAppender \/ Crash
  BY <1>14, <1>5 DEF CreateFileAppender, Crash
<1> QED BY <1>7, <1>8, <1>9, <1>10, <1>11, <1>12, <1>13, <1>14 DEF Next

LEMMA TypeStep ==
  ASSUME TypeInv, Next
  PROVE  TypeOK'
<1> DEFINE RestOK ==
      /\ now' \in 0 .. MaxTime /\ began' \in 0 .. MaxTime
      /\ pc' \in PC /\ idx' \in Names /\ faults' \in 0 .. MaxFaults
      /\ misnamed' \in BOOLEAN /\ taken' \in BOOLEAN
<1>1. /\ now \in 0 .. MaxTime /\ began \in 0 .. MaxTime
      /\ pc \in PC /\ idx \in Names /\ faults \in 0 .. MaxFaults
      /\ misnamed \in BOOLEAN /\ taken \in BOOLEAN
      /\ MaxTime \in Nat /\ MaxFaults \in Nat
  BY OptionTypes, FileAssumption DEF TypeInv, TypeOK
<1> USE DEF Goto, Fault, PC
<1>2. WriteOpen \/ WriteCannotOpen \/ Reopen \/ CannotReopen \/ CreateFileAppender => RestOK
  BY <1>1 DEF WriteOpen, WriteCannotOpen, OpenFails, Reopen, CannotReopen, CreateFileAppender,
    historyVars
<1>3. WriteCheck \/ WriteLine \/ WriteStamp \/ WriteFails => RestOK
  BY <1>1 DEF WriteCheck, WriteLine, WriteStamp, WriteFails, historyVars
<1>4. Scan => RestOK
  <2>1. Scan => idx' \in Names
    BY ScanEffect, NameOfLog DEF TypeInv
  <2> QED BY <1>1, <2>1 DEF Scan, historyVars
<1>5. RenameOne => RestOK
  <2> SUFFICES ASSUME RenameOne PROVE RestOK
    OBVIOUS
  <2>1. idx' \in Names
    BY <1>1, OptionTypes DEF TypeInv, RenameOne, Names
  <2>2. now' = now /\ began' = began /\ pc' = pc /\ taken' = taken
    BY DEF RenameOne
  <2>3. faults' = faults \/ (faults < MaxFaults /\ faults' = faults + 1)
    BY DEF RenameOne
  <2>4. misnamed' \in BOOLEAN
    BY <1>1 DEF RenameOne
  <2>5. faults' \in 0 .. MaxFaults
    BY <1>1, <2>3
  <2> QED BY <1>1, <2>1, <2>2, <2>4, <2>5
<1>6. RotateDone \/ FileClose \/ FileRelease => RestOK
  BY <1>1 DEF RotateDone, FileClose, FileRelease, historyVars
<1>7. Crash \/ Logrotate => RestOK
  BY <1>1 DEF Crash, Logrotate, historyVars
<1>8. Tick => RestOK
  BY <1>1 DEF Tick, historyVars
<1>9. RestOK
  BY <1>2, <1>3, <1>4, <1>5, <1>6, <1>7, <1>8 DEF Next
<1>10. /\ options' \in Options
      /\ file' \in [Names -> [lines : Seq(Line), mtime : -1 .. MaxTime]]
      /\ count' \in 0 .. MaxLines
  BY OptionsConstant, FileType, WrittenStep DEF TypeInv, TypeOK
<1>11. Names' = Names /\ Line' = Line /\ MaxTime' = MaxTime /\ MaxLines' = MaxLines
  BY OptionsStay
<1> HIDE DEF Goto, Fault
<1> QED BY <1>9, <1>10, <1>11, ContextStep DEF TypeOK

\* A file exists that did before, or it is new, or it has moved there.
LEMMA Existing ==
  ASSUME TypeInv, Next
  PROVE  /\ \A k \in Names : Exists(k)' => Exists(k) \/ (MadeNew /\ k = 0) \/ (Moved /\ k = idx)
         /\ Names' = Names /\ Backups' = Backups
<1>1. TypeOK /\ DescriptorOpen
  BY DEF TypeInv
<1>2. Wrote => Exists(fd)
  BY <1>1 DEF Wrote, DescriptorOpen
<1>3. Names' = Names /\ Backups' = Backups
  BY OptionsStay
<1> QED BY <1>1, <1>2, <1>3, FileSteps, FilesAfter DEF Exists

LEMMA WrittenBoundStep ==
  ASSUME TypeInv, Next
  PROVE  WrittenBound'
<1>1. TypeOK /\ DescriptorOpen
  BY DEF TypeInv
<1>2. Written' \in Nat /\ Written \in Nat /\ Written <= Written'
  BY WrittenStep, OptionTypes DEF TypeInv, WrittenBound, TypeOK, Written
<1>3. /\ \A k \in Names : Len(file[k].lines) <= Written /\ Len(file[k].lines) \in Nat
      /\ 0 \in Names /\ Names \subseteq Nat /\ idx \in Names
  BY <1>1, NameOfLog, LenProperties DEF TypeInv, WrittenBound, TypeOK
<1>4. ASSUME NEW k \in Names PROVE Len(file'[k].lines) <= Written'
  <2>1. CASE file' = file
    BY <1>2, <1>3, <2>1
  <2>2. CASE MadeNew \/ TakenAway
    <3>1. file'[k].lines = <<>> \/ file'[k] = file[k]
      BY <1>1, <2>2, FileAsBefore
    <3> QED BY <1>1, <1>2, <1>3, <3>1, EmptyLines
  <2>3. CASE Wrote
    <3>1. fd \in Names /\ count \in 1 .. MaxLines /\ Written' = Written + 1
      BY <1>1, <2>3, MessageNumber, WrittenStep DEF Wrote, TypeInv
    <3>2. file'[k].lines = Append(file[fd].lines, Message) \/ file'[k] = file[k]
      BY <1>1, <2>3, FilesAfter
    <3>3. Len(Append(file[fd].lines, Message)) = Len(file[fd].lines) + 1
      BY <1>1, <3>1, LinesGrow
    <3> QED BY <1>2, <1>3, <3>1, <3>2, <3>3
  <2>4. CASE Moved
    <3>1. idx - 1 \in Names
      BY <1>1, <2>4, FileAsBefore
    <3>2. file'[k].lines = <<>> \/ file'[k] = file[k] \/ file'[k] = file[idx - 1]
      BY <1>1, <2>4, FileAsBefore
    <3>3. CASE file'[k].lines = <<>>
      BY <1>1, <1>2, <3>3, EmptyLines
    <3>4. ASSUME NEW j \in Names, file'[k] = file[j] PROVE Len(file'[k].lines) <= Written'
      <4>1. Len(file[j].lines) <= Written /\ Len(file[j].lines) \in Nat
        BY <1>3
      <4> QED BY <1>2, <3>4, <4>1
    <3> QED BY <3>1, <3>2, <3>3, <3>4
  <2> QED BY <1>1, <2>1, <2>2, <2>3, <2>4, FileSteps
<1>5. Names' = Names
  BY Existing
<1> QED BY <1>2, <1>4, <1>5, ContextStep DEF WrittenBound

LEMMA HighestBoundStep ==
  ASSUME TypeInv, Next
  PROVE  HighestBound'
<1>1. /\ TypeOK /\ HighestBound /\ WrittenBound
      /\ count \in Nat /\ idx \in Nat /\ Names \subseteq Nat
      /\ Backups = Names \ {0}
  BY Ranges
<1>2. count' \in Nat /\ count' >= count
  <2>1. count' = count \/ count' = count + 1
    BY DEF Next, WriteOpen, WriteCannotOpen, WriteCheck, WriteLine, WriteFails, WriteStamp, Scan,
      RenameOne, RotateDone, Reopen, CannotReopen, CreateFileAppender, FileClose, FileRelease,
      Crash, Tick, Logrotate
  <2> QED BY <1>1, <2>1
<1>3. ASSUME NEW k \in Names, Exists(k)' PROVE k < count'
  <2>1. CASE Exists(k)
    BY <1>1, <1>2, <2>1 DEF HighestBound
  <2>2. CASE MadeNew /\ k = 0
    BY <1>1, <2>2 DEF MadeNew, WrittenBound, Written, InFlight
  <2>3. CASE Moved /\ k = idx
    BY <1>1, <1>2, <2>3 DEF Moved, HighestBound
  <2> QED BY <1>3, <2>1, <2>2, <2>3, Existing
<1>4. /\ pc' \in {"check", "scan"} => \A k \in Backups : Exists(k)' => k < count' - 1
      /\ pc' = "scan" => count' > 1
  <2> SUFFICES ASSUME pc' \in {"check", "scan"}
      PROVE  /\ \A k \in Backups : Exists(k)' => k < count' - 1
             /\ pc' = "scan" => count' > 1
    OBVIOUS
  <2>1. \/ WriteOpen
        \/ WriteCheck
        \/ pc' = pc /\ count' = count
    BY DEF Next, WriteOpen, WriteCannotOpen, WriteCheck, WriteLine, WriteFails, WriteStamp, Scan,
      RenameOne, RotateDone, Reopen, CannotReopen, CreateFileAppender, FileClose, FileRelease,
      Crash, Tick, Logrotate, Goto
  <2>2. \A k \in Backups : Exists(k)' => Exists(k) \/ Moved
    BY <1>1, Existing
  <2>3. CASE WriteOpen
    <3>1. count' = count + 1 /\ pc' = "check" /\ pc = "idle"
      BY <2>3 DEF WriteOpen, Goto
    <3> QED BY <1>1, <2>2, <3>1 DEF HighestBound, Moved
  <2>4. CASE WriteCheck
    <3>1. count' = count /\ pc = "check" /\ (pc' = "scan" => fileSize > 0)
      BY <2>4 DEF WriteCheck, Goto
    <3>2. fileSize \in Int /\ fileSize <= count - 1
      BY <1>1, <3>1, OptionTypes DEF TypeOK, Unknown, WrittenBound, Written, InFlight
    <3> QED BY <1>1, <2>2, <3>1, <3>2 DEF HighestBound, Moved
  <2>5. CASE pc' = pc /\ count' = count
    BY <1>1, <2>2, <2>5 DEF HighestBound, Moved
  <2> QED BY <2>1, <2>3, <2>4, <2>5
<1>5. pc' = "rename" => idx' < count'
  <2> SUFFICES ASSUME pc' = "rename" PROVE idx' < count'
    OBVIOUS
  <2>1. \/ Scan
        \/ pc = "rename" /\ count' = count /\ (idx' = idx \/ idx' = idx - 1)
    BY DEF Next, WriteOpen, WriteCannotOpen, WriteCheck, WriteLine, WriteFails, WriteStamp, Scan,
      RenameOne, RotateDone, Reopen, CannotReopen, CreateFileAppender, FileClose, FileRelease,
      Crash, Tick, Logrotate, Goto
  <2>2. CASE Scan
    <3>1. idx' \in Nat /\ idx' <= count - 1 /\ count' = count
      BY <1>1, <2>2, ScanEffect DEF Scan
    <3> QED BY <1>1, <3>1
  <2>3. CASE pc = "rename" /\ count' = count /\ (idx' = idx \/ idx' = idx - 1)
    BY <1>1, <2>3 DEF HighestBound
  <2> QED BY <2>1, <2>2, <2>3
<1> QED BY <1>3, <1>4, <1>5, Existing DEF HighestBound

\* A descriptor keeps its file: it is that of the log file when it is opened, and
\* follows the file through renames, until it is closed.
LEMMA DescriptorSteps ==
  ASSUME TypeInv, Next
  PROVE  \/ fd' = Closed
         \/ fd = Closed /\ fd' = 0 /\ file' = Created
         \/ fd' = fd /\ (file' = file \/ Wrote)
         \/ Moved /\ fd' = Renamed(fd)
         \/ TakenAway /\ fd' = IF fd = 0 THEN Away ELSE fd
<1>1. fd \in Names \union {Closed, Away}
  BY DEF TypeInv, TypeOK
<1>2. CASE WriteOpen \/ Reopen
  BY <1>2, OpenEffect DEF WriteOpen, Reopen, contextVars
<1>3. CASE WriteCannotOpen \/ CannotReopen
  BY <1>3 DEF WriteCannotOpen, CannotReopen, OpenFails, contextVars
<1>4. CASE WriteLine \/ WriteFails
  <2>1. fd' \in {fd, Closed}
    BY <1>4 DEF WriteLine, WriteFails, CloseFile, contextVars
  <2>2. fd = Closed \/ file' = file \/ Wrote
    BY <1>1, <1>4 DEF WriteLine, WriteFails, Wrote, Message, Goto
  <2> QED BY <2>1, <2>2
<1>5. CASE RenameOne
  BY <1>5 DEF RenameOne, Moved
<1>6. CASE Logrotate
  BY <1>6 DEF Logrotate, TakenAway
<1>7. CASE WriteCheck \/ WriteStamp \/ Scan \/ RotateDone \/ CreateFileAppender \/ FileClose
           \/ FileRelease \/ Crash \/ Tick
  BY <1>7 DEF WriteCheck, WriteStamp, Scan, RotateDone, CreateFileAppender, FileClose,
    FileRelease, Crash, Tick, CloseFile, contextVars
<1> QED BY <1>2, <1>3, <1>4, <1>5, <1>6, <1>7 DEF Next

LEMMA RenamedIs ==
  ASSUME TypeInv, Moved, Renamed(fd) \in Names
  PROVE  /\ fd \in Names /\ fd # idx
         /\ Renamed(fd) = IF fd = idx - 1 THEN idx ELSE fd
<1>1. /\ fd \in Names \union {Closed, Away} /\ idx \in Names /\ Names \subseteq Nat
      /\ Closed = -1 /\ Away = -2 /\ idx > 0
  BY NameOfLog DEF TypeInv, TypeOK, Closed, Away, Moved
<1> QED BY <1>1 DEF Renamed

LEMMA DescriptorFile ==
  ASSUME TypeInv, Next
  PROVE  (fd \in Names => Exists(fd))'
<1>1. /\ TypeOK /\ DescriptorOpen /\ Names' = Names
      /\ 0 \in Names /\ Closed \notin Names /\ Away \notin Names /\ DOMAIN file = Names
  BY OptionsStay, Ranges
<1>2. fd \in Names => file[fd] # NoFile
  BY <1>1 DEF DescriptorOpen, Exists
<1> SUFFICES ASSUME fd' \in Names PROVE file'[fd'] # NoFile
  BY <1>1 DEF Exists
<1>3. CASE fd' = 0 /\ file' = Created
  <2>1. [lines |-> <<>>, mtime |-> now] # NoFile
    BY <1>1, NoFileMtime, EmptyLines DEF TypeOK
  <2> QED BY <1>1, <1>3, <2>1 DEF Created, Exists
<1>4. CASE fd' = fd /\ file' = file
  BY <1>2, <1>4
<1>5. CASE fd' = fd /\ Wrote
  <2>1. Append(file[fd].lines, Message) \in Seq(Line)
    BY <1>1, <1>5, LinesGrow, MessageNumber DEF Wrote, TypeInv
  <2>2. [lines |-> Append(file[fd].lines, Message), mtime |-> now] # NoFile
    BY <1>1, <2>1, NoFileMtime DEF TypeOK
  <2> QED BY <1>1, <1>5, <2>2, FilesAfter DEF Wrote
<1>6. CASE Moved /\ fd' = Renamed(fd)
  BY <1>1, <1>2, <1>6, RenamedIs, FilesAfter DEF Moved, Exists
<1>7. CASE TakenAway /\ fd' = IF fd = 0 THEN Away ELSE fd
  BY <1>1, <1>2, <1>7, FilesAfter
<1> QED BY <1>1, <1>3, <1>4, <1>5, <1>6, <1>7, DescriptorSteps

LEMMA DescriptorOpenStep ==
  ASSUME TypeInv, Next
  PROVE  DescriptorOpen'
<1>1. /\ TypeOK /\ DescriptorOpen /\ FdZero' = FdZero /\ Names' = Names
      /\ fd \in Names \union {Closed, Away} /\ idx \in Names /\ Names \subseteq Nat
      /\ 0 \in Names /\ Closed = -1 /\ Away = -2 /\ Unknown = -1
      /\ fileSize \in Int
  BY OptionsStay, Ranges
<1>2. ASSUME OpenFile PROVE fd' # Closed /\ fileSize' # Unknown
  BY <1>1, <1>2, OpenEffect DEF TypeInv, WrittenBound
<1>3. ASSUME CloseFile
      PROVE  /\ fd' # Closed => fileSize' # Unknown
             /\ FdZero /\ fd # Closed => fd' # Closed
  BY <1>1, <1>3 DEF CloseFile, contextVars, DescriptorOpen
<1> DEFINE OpenOK ==
      /\ pc' \in {"check", "write", "stamp"} => fd' # Closed
      /\ FdZero /\ pc' \in {"scan", "rename", "reopen"} => fd' # Closed
      /\ fd' # Closed => fileSize' # Unknown
<1>4. WriteOpen \/ Reopen => OpenOK
  BY <1>2 DEF WriteOpen, Reopen, Goto
<1>5. WriteCheck => OpenOK
  BY <1>1, <1>3 DEF WriteCheck, Goto, contextVars, DescriptorOpen
<1>6. WriteFails \/ FileClose \/ FileRelease => OpenOK
  BY <1>3 DEF WriteFails, FileClose, FileRelease, Goto
<1>7. WriteLine \/ WriteStamp => OpenOK
  <2>1. fileSize + 1 # Unknown \/ fileSize = Unknown - 1
    BY <1>1
  <2>2. fileSize >= -1
    BY <1>1, OptionTypes DEF TypeOK
  <2> QED BY <1>1, <2>1, <2>2 DEF WriteLine, WriteStamp, Goto, DescriptorOpen
<1>8. RenameOne => OpenOK
  BY <1>1 DEF RenameOne, Renamed, DescriptorOpen
<1>9. CreateFileAppender \/ Crash => OpenOK
  BY DEF CreateFileAppender, Crash, Goto
<1>10. WriteCannotOpen \/ CannotReopen \/ Scan \/ RotateDone => OpenOK
  BY <1>1 DEF WriteCannotOpen, CannotReopen, OpenFails, Scan, RotateDone, contextVars, Goto,
    DescriptorOpen
<1>11. Tick \/ Logrotate => OpenOK
  BY <1>1 DEF Tick, Logrotate, contextVars, DescriptorOpen
<1>12. OpenOK
  BY <1>4, <1>5, <1>6, <1>7, <1>8, <1>9, <1>10, <1>11 DEF Next
<1>13. (fd \in Names => Exists(fd))'
  BY DescriptorFile
<1> QED BY <1>1, <1>12, <1>13 DEF DescriptorOpen

LEMMA DescriptorPlaceStep ==
  ASSUME TypeInv, Next
  PROVE  DescriptorPlace'
<1>1. TypeOK /\ DescriptorPlace /\ FdZero' = FdZero /\ 0 # Closed /\ Away # Closed
  BY OptionsStay, Ranges
<1> SUFFICES ASSUME ~FdZero
             PROVE  /\ fd' \in {Closed, 0, Away}
                    /\ fd' = Away => taken'
                    /\ pc' \in {"scan", "rename", "reopen"} => fd' = Closed
  BY <1>1 DEF DescriptorPlace
<1>2. /\ fd \in {Closed, 0, Away}
      /\ fd = Away => taken
      /\ pc \in {"scan", "rename", "reopen"} => fd = Closed
  BY <1>1 DEF DescriptorPlace
<1>3. CASE WriteOpen \/ Reopen
  <2>1. OpenFile /\ taken' = taken /\ pc' \in {"check", "write"}
    BY <1>3 DEF WriteOpen, Reopen, historyVars, Goto
  <2>2. fd' = fd \/ fd' = 0
    BY <2>1 DEF OpenFile, contextVars
  <2> QED BY <1>1, <1>2, <2>1, <2>2 DEF Away
<1>4. CASE WriteFails \/ FileClose \/ FileRelease
  BY <1>1, <1>4, CloseEffect DEF WriteFails, FileClose, FileRelease
<1>5. CASE WriteCheck
  BY <1>1, <1>2, <1>5, CloseEffect DEF WriteCheck, Goto, contextVars, historyVars
<1>6. CASE WriteLine \/ WriteStamp
  BY <1>2, <1>6 DEF WriteLine, WriteStamp, Goto
<1>7. CASE WriteCannotOpen \/ CannotReopen \/ Scan \/ RotateDone
  BY <1>2, <1>7 DEF WriteCannotOpen, CannotReopen, OpenFails, Scan, RotateDone, Goto,
    contextVars, historyVars
<1>8. CASE RenameOne
  <2>1. pc = "rename" /\ pc' = pc /\ (fd' = fd \/ fd' = Renamed(fd)) /\ idx > 0 /\ taken' = taken
    BY <1>8 DEF RenameOne
  <2>2. idx \in Nat /\ fd = Closed
    BY <1>1, <1>2, <2>1, NameOfLog DEF TypeOK
  <2> QED BY <1>2, <2>1, <2>2 DEF Renamed, Closed
<1>9. CASE CreateFileAppender \/ Crash
  BY <1>1, <1>9 DEF CreateFileAppender, Crash
<1>10. CASE Tick
  BY <1>2, <1>10 DEF Tick, contextVars, historyVars
<1>11. CASE Logrotate
  BY <1>1, <1>2, <1>11 DEF Logrotate
<1> QED BY <1>3, <1>4, <1>5, <1>6, <1>7, <1>8, <1>9, <1>10, <1>11 DEF Next

LEMMA InitTypeInv == ASSUME Init PROVE TypeInv
<1>1. TypeOK
  <2>1. /\ options \in Options /\ idx = 0 /\ now = 0 /\ began = 0 /\ count = 0 /\ faults = 0
        /\ pc = "none" /\ fd = Closed /\ fileSize = Unknown /\ lastMtime = Unknown
        /\ misnamed = FALSE /\ taken = FALSE /\ file = [k \in Names |-> NoFile]
    BY DEF Init
  <2>2. /\ MaxTime \in Nat /\ MaxLines \in Nat /\ MaxIndex \in Nat /\ MaxFaults \in Nat
    BY <2>1, FileAssumption DEF MaxTime, MaxLines, MaxLoop, MaxIndex
  <2>3. NoFile \in [lines : Seq(Line), mtime : -1 .. MaxTime]
    BY <2>2, EmptySeq DEF NoFile
  <2>4. file \in [Names -> [lines : Seq(Line), mtime : -1 .. MaxTime]]
    BY <2>1, <2>3
  <2>5. 0 \in Names /\ 0 \in 0 .. MaxTime /\ 0 \in 0 .. MaxLines /\ 0 \in 0 .. MaxFaults
    BY <2>2 DEF Names
  <2>6. pc \in PC /\ misnamed \in BOOLEAN /\ taken \in BOOLEAN
    BY <2>1 DEF PC
  <2> QED BY <2>1, <2>4, <2>5, <2>6 DEF TypeOK
<1>2. /\ file = [k \in Names |-> NoFile] /\ count = 0 /\ pc = "none" /\ fd = -1 /\ fileSize = -1
  BY DEF Init, Closed, Unknown
<1>3. \A k \in Names : ~Exists(k) /\ Len(file[k].lines) = 0
  BY <1>1, <1>2, EmptyLines DEF Exists
<1>4. WrittenBound
  BY <1>2, <1>3 DEF WrittenBound, Written, InFlight
<1>5. HighestBound
  BY <1>1, <1>2, <1>3, NameOfLog DEF HighestBound
<1>6. fd = Closed /\ fd \notin Names
  BY <1>1, <1>2, NameOfLog DEF Closed
<1>7. DescriptorOpen
  BY <1>2, <1>6 DEF DescriptorOpen
<1>8. DescriptorPlace
  BY <1>2, <1>6 DEF DescriptorPlace, Closed, Away
<1> QED BY <1>1, <1>4, <1>5, <1>7, <1>8 DEF TypeInv

LEMMA TypeInvHolds == Spec => []TypeInv
<1>1. TypeInv /\ [Next]_vars => TypeInv'
  <2>1. ASSUME TypeInv, Next PROVE TypeInv'
    BY <2>1, TypeStep, WrittenBoundStep, HighestBoundStep, DescriptorOpenStep,
      DescriptorPlaceStep DEF TypeInv
  <2>2. ASSUME TypeInv, UNCHANGED vars PROVE TypeInv'
    <3>1. UNCHANGED <<options, now, file, fd, fileSize, lastMtime, pc, idx, began, count, faults,
                      misnamed, taken>>
      BY <2>2 DEF vars, contextVars, historyVars
    <3>2. /\ MaxTime' = MaxTime /\ MaxLines' = MaxLines /\ FdZero' = FdZero
          /\ Names' = Names /\ Backups' = Backups /\ Line' = Line
      BY <3>1, OptionsKept
    <3>3. TypeOK'
      BY <2>2, <3>1, <3>2 DEF TypeInv, TypeOK
    <3>4. WrittenBound' /\ HighestBound'
      BY <2>2, <3>1, <3>2 DEF TypeInv, WrittenBound, Written, HighestBound, Exists
    <3>5. DescriptorOpen' /\ DescriptorPlace'
      BY <2>2, <3>1, <3>2 DEF TypeInv, DescriptorOpen, DescriptorPlace, Exists
    <3> QED BY <3>3, <3>4, <3>5 DEF TypeInv
  <2> QED BY <2>1, <2>2
<1> QED BY <1>1, InitTypeInv, PTL DEF Spec

(* What is kept of the open file, and the file system as the appender sees it,   *)
(* stay what they should be; a rotation finds a number to begin with, whatever   *)
(* renames failed and whenever the process died.                                 *)
THEOREM FileTypeCorrect == Spec => []TypeOK
BY TypeInvHolds, PTL DEF TypeInv

(* With the log file moved or logrotate gone through, and the output closed after *)
(* it, each message goes to the file that has the name of the log file.           *)
THEOREM LogFileWritten == Spec => []WritesLogFile
<1>1. TypeInv => WritesLogFile
  BY DEF TypeInv, DescriptorOpen, DescriptorPlace, WritesLogFile
<1> QED BY <1>1, TypeInvHolds, PTL

-----------------------------------------------------------------------------
(* The order of the messages. *)

LEMMA NumberType ==
  ASSUME TypeOK, NEW k \in Names
  PROVE  /\ NumbersIn(k) \subseteq 1 .. MaxLines
         /\ NumbersIn(k) \subseteq Int
         /\ DOMAIN file[k].lines = 1 .. Len(file[k].lines) /\ Len(file[k].lines) \in Nat
         /\ \A j \in 1 .. Len(file[k].lines) : file[k].lines[j] \in Line
         /\ file[k].lines = <<>> <=> Len(file[k].lines) = 0
<1>1. file[k].lines \in Seq(Line)
  BY DEF TypeOK
<1>2. /\ DOMAIN file[k].lines = 1 .. Len(file[k].lines) /\ Len(file[k].lines) \in Nat
      /\ \A j \in 1 .. Len(file[k].lines) : file[k].lines[j] \in Line
      /\ file[k].lines = <<>> <=> Len(file[k].lines) = 0
  BY <1>1, LenProperties, ElementOfSeq, EmptySeq
<1>3. \A x \in Line : x.n \in 1 .. MaxLines
  BY DEF Line
<1>4. NumbersIn(k) \subseteq 1 .. MaxLines
  BY <1>2, <1>3 DEF NumbersIn
<1>5. 1 .. MaxLines \subseteq Int
  BY OptionTypes
<1> QED BY <1>2, <1>4, <1>5

\* The message written is put after all others of its file.
LEMMA LinesWritten ==
  ASSUME TypeInv, Wrote
  PROVE  /\ fd \in Names
         /\ Len(file'[fd].lines) = Len(file[fd].lines) + 1
         /\ \A j \in 1 .. Len(file[fd].lines) : file'[fd].lines[j] = file[fd].lines[j]
         /\ file'[fd].lines[Len(file[fd].lines) + 1] = Message
         /\ DOMAIN file'[fd].lines = 1 .. Len(file[fd].lines) + 1
         /\ file'[fd].mtime = now
<1>1. TypeOK /\ fd \in Names /\ count \in 1 .. MaxLines
  BY MessageNumber DEF TypeInv, Wrote
<1>2. file[fd].lines \in Seq(Line) /\ Message \in Line
  <2>1. began \in Int
    BY <1>1, OptionTypes DEF TypeOK
  <2>2. Message \in Line
    BY <1>1, <2>1, DayType DEF Message, Line
  <2> QED BY <1>1, <2>2 DEF TypeOK
<1>3. file'[fd] = [lines |-> Append(file[fd].lines, Message), mtime |-> now]
  BY <1>1, FilesAfter
<1>4. Append(file[fd].lines, Message) \in Seq(Line)
  BY <1>2, AppendProperties
<1> QED BY <1>1, <1>2, <1>3, <1>4, AppendProperties, LenProperties

\* Which messages are in which file, after a step.
LEMMA NumbersAfter ==
  ASSUME TypeInv, Next
  PROVE  /\ file' = file => \A k \in Names : NumbersIn(k)' = NumbersIn(k)
         /\ MadeNew \/ TakenAway => \A k \in Names :
              NumbersIn(k)' = IF k = 0 THEN {} ELSE NumbersIn(k)
         /\ Wrote => \A k \in Names :
              NumbersIn(k)' = IF k = fd THEN NumbersIn(k) \union {count} ELSE NumbersIn(k)
         /\ Moved => \A k \in Names :
              NumbersIn(k)' = IF k = idx THEN NumbersIn(idx - 1)
                              ELSE IF k = idx - 1 THEN {} ELSE NumbersIn(k)
<1>1. TypeOK
  BY DEF TypeInv
<1>2. file' = file => \A k \in Names : NumbersIn(k)' = NumbersIn(k)
  BY DEF NumbersIn
<1>3. DOMAIN <<>> = {}
  OBVIOUS
<1>4. ASSUME MadeNew \/ TakenAway, NEW k \in Names
      PROVE  NumbersIn(k)' = IF k = 0 THEN {} ELSE NumbersIn(k)
  <2>1. k = 0 => file'[k].lines = <<>>
    BY <1>1, <1>4, FilesAfter, EmptyLines
  <2>2. k # 0 => file'[k] = file[k]
    BY <1>1, <1>4, FilesAfter
  <2> QED BY <1>3, <2>1, <2>2 DEF NumbersIn
<1>5. ASSUME Wrote, NEW k \in Names
      PROVE  NumbersIn(k)' = IF k = fd THEN NumbersIn(k) \union {count} ELSE NumbersIn(k)
  <2>1. CASE k # fd
    <3>1. file'[k] = file[k]
      BY <1>1, <1>5, <2>1, FilesAfter
    <3> QED BY <2>1, <3>1 DEF NumbersIn
  <2>2. CASE k = fd
    <3>1. /\ DOMAIN file'[k].lines = 1 .. Len(file[k].lines) + 1
          /\ DOMAIN file[k].lines = 1 .. Len(file[k].lines) /\ Len(file[k].lines) \in Nat
          /\ \A j \in 1 .. Len(file[k].lines) : file'[k].lines[j].n = file[k].lines[j].n
          /\ file'[k].lines[Len(file[k].lines) + 1].n = count
      BY <1>1, <1>5, <2>2, LinesWritten, NumberType DEF Message
    <3> DEFINE L == Len(file[k].lines)
               f == [j \in 1 .. L + 1 |-> file'[k].lines[j].n]
    <3>2. NumbersIn(k)' = {f[j] : j \in 1 .. L + 1}
      BY <3>1 DEF NumbersIn
    <3>3. \A j \in 1 .. L : f[j] = file[k].lines[j].n
      BY <3>1
    <3>4. NumbersIn(k) = {f[j] : j \in 1 .. L}
      BY <3>1, <3>3 DEF NumbersIn
    <3>5. f[L + 1] = count
      BY <3>1
    <3>6. 1 .. L + 1 = (1 .. L) \union {L + 1}
      BY <3>1
    <3> HIDE DEF f, L
    <3> QED BY <2>2, <3>2, <3>4, <3>5, <3>6
  <2> QED BY <2>1, <2>2
<1>6. ASSUME Moved, NEW k \in Names
      PROVE  NumbersIn(k)' = IF k = idx THEN NumbersIn(idx - 1)
                             ELSE IF k = idx - 1 THEN {} ELSE NumbersIn(k)
  <2>1. k = idx - 1 /\ k # idx => file'[k].lines = <<>>
    BY <1>1, <1>6, FilesAfter, EmptyLines
  <2>2. k = idx => file'[k] = file[idx - 1]
    BY <1>1, <1>6, FilesAfter
  <2>3. k # idx /\ k # idx - 1 => file'[k] = file[k]
    BY <1>1, <1>6, FilesAfter
  <2> QED BY <1>3, <2>1, <2>2, <2>3 DEF NumbersIn
<1> QED BY <1>2, <1>4, <1>5, <1>6

\* No step brings a message into the files but the write of a new one.
LEMMA NumbersFrom ==
  ASSUME TypeInv, Next, NEW k \in Names, NEW n \in NumbersIn(k)'
  PROVE  (\E j \in Names : n \in NumbersIn(j)) \/ (Wrote /\ n = count)
<1>1. CASE file' = file
  BY <1>1, NumbersAfter
<1>2. CASE MadeNew \/ TakenAway
  BY <1>2, NumbersAfter
<1>3. CASE Wrote
  BY <1>3, NumbersAfter
<1>4. CASE Moved
  <2>1. idx - 1 \in Names
    BY <1>4, OptionTypes DEF Moved, TypeInv, TypeOK, Names
  <2> QED BY <1>4, <2>1, NumbersAfter
<1> QED BY <1>1, <1>2, <1>3, <1>4, FileSteps DEF TypeInv

LEMMA AllWrittenStep ==
  ASSUME TypeInv, OrderInv, Next
  PROVE  AllWritten'
<1>1. /\ \A k \in Names : \A n \in NumbersIn(k) : n \in Int /\ n <= Written
      /\ Written \in Nat /\ Written' \in Nat /\ Written <= Written'
  BY Ranges, NumberType, WrittenStep DEF OrderInv, AllWritten
<1>2. Wrote => count = Written'
  BY WrittenStep
<1>3. ASSUME NEW k \in Names, NEW n \in NumbersIn(k)' PROVE n <= Written'
  BY <1>1, <1>2, NumbersFrom
<1>4. Names' = Names
  BY Existing
<1> QED BY <1>3, <1>4 DEF AllWritten

LEMMA WritesNewestStep ==
  ASSUME TypeInv, OrderInv, Next
  PROVE  WritesNewest'
<1>1. /\ TypeOK /\ Names' = Names /\ Names \subseteq Nat
      /\ fd \in Names \union {Closed, Away} /\ idx \in Names
      /\ Closed \notin Names /\ Away \notin Names
      /\ \A j \in Names : fd \in Names /\ j < fd => ~Exists(j)
  BY OptionsStay, Ranges DEF OrderInv, WritesNewest
<1> SUFFICES ASSUME NEW j \in Names, fd' \in Names, j < fd' PROVE ~Exists(j)'
  BY <1>1 DEF WritesNewest
<1>2. CASE fd' = 0
  BY <1>1, <1>2
<1>3. CASE fd' = fd /\ (file' = file \/ Wrote)
  BY <1>1, <1>3, FilesAfter DEF Exists
<1>4. CASE Moved /\ fd' = Renamed(fd)
  <2>1. fd \in Names /\ fd # idx /\ fd' = (IF fd = idx - 1 THEN idx ELSE fd) /\ idx > 0
    BY <1>4, RenamedIs DEF Moved
  <2>2. idx - 1 \in Names
    BY <1>1, <2>1, OptionTypes DEF Names
  <2>3. ~(idx - 1 < fd)
    BY <1>1, <1>4, <2>1, <2>2 DEF Moved
  <2>4. j = idx - 1 \/ j < fd
    BY <1>1, <2>1, <2>3
  <2> QED BY <1>1, <1>4, <2>1, <2>2, <2>3, <2>4, FilesAfter DEF Exists
<1>5. CASE TakenAway /\ fd' = IF fd = 0 THEN Away ELSE fd
  BY <1>1, <1>5, FilesAfter DEF Exists
<1> QED BY <1>1, <1>2, <1>3, <1>4, <1>5, DescriptorSteps

LEMMA ChronologicalStep ==
  ASSUME TypeInv, OrderInv, Next
  PROVE  Chronological'
<1> DEFINE Rising(k) == \A i, j \in DOMAIN file[k].lines :
                          i < j => file[k].lines[i].n < file[k].lines[j].n
           Older(j, k) == \A m \in NumbersIn(k), n \in NumbersIn(j) : m < n
<1>1. /\ TypeOK /\ Names' = Names /\ Names \subseteq Nat /\ idx \in Names
      /\ \A k \in Names : Rising(k)
      /\ \A j, k \in Names : j < k => Older(j, k)
      /\ \A k \in Names : \A n \in NumbersIn(k) : n \in Int /\ n <= Written
  BY OptionsStay, Ranges, NumberType DEF OrderInv, AllWritten, Chronological
<1>2. ASSUME NEW k \in Names PROVE Rising(k)'
  <2>1. CASE file' = file
    BY <1>1, <2>1
  <2>2. CASE MadeNew \/ TakenAway
    <3>1. file'[k].lines = <<>> \/ file'[k] = file[k]
      BY <1>1, <2>2, FileAsBefore
    <3> QED BY <1>1, <3>1
  <2>3. CASE Wrote
    <3>1. CASE k # fd
      BY <1>1, <2>3, <3>1, FilesAfter
    <3>2. CASE k = fd
      <4> DEFINE L == Len(file[k].lines)
      <4>1. /\ DOMAIN file'[k].lines = 1 .. L + 1 /\ DOMAIN file[k].lines = 1 .. L /\ L \in Nat
            /\ \A j \in 1 .. L : file'[k].lines[j].n = file[k].lines[j].n
            /\ file'[k].lines[L + 1].n = count
        <5>1. DOMAIN file[k].lines = 1 .. L /\ L \in Nat
          BY <1>1, NumberType
        <5>2. /\ DOMAIN file'[k].lines = 1 .. L + 1
              /\ \A j \in 1 .. L : file'[k].lines[j] = file[k].lines[j]
              /\ file'[k].lines[L + 1] = Message
          BY <2>3, <3>2, LinesWritten
        <5> QED BY <5>1, <5>2 DEF Message
      <4>2. \A j \in 1 .. L : file[k].lines[j].n \in Int /\ file[k].lines[j].n <= Written
        BY <1>1, <4>1 DEF NumbersIn
      <4>3. count = Written + 1 /\ Written \in Int
        BY <2>3, WrittenStep, Ranges
      <4>4. \A i, j \in 1 .. L : i < j => file[k].lines[i].n < file[k].lines[j].n
        BY <1>1, <4>1
      <4> HIDE DEF L
      <4>5. ASSUME NEW i \in 1 .. L + 1, NEW j \in 1 .. L + 1, i < j
            PROVE  file'[k].lines[i].n < file'[k].lines[j].n
        <5>1. i \in 1 .. L
          BY <4>1, <4>5
        <5>2. file'[k].lines[i].n = file[k].lines[i].n
          BY <4>1, <5>1
        <5>3. CASE j \in 1 .. L
          <6>1. file'[k].lines[j].n = file[k].lines[j].n
            BY <4>1, <5>3
          <6> QED BY <4>4, <4>5, <5>1, <5>2, <5>3, <6>1
        <5>4. CASE j = L + 1
          BY <4>1, <4>2, <4>3, <5>1, <5>2, <5>4
        <5> QED BY <4>1, <5>3, <5>4
      <4> QED BY <4>1, <4>5
    <3> QED BY <3>1, <3>2
  <2>4. CASE Moved
    <3>1. idx - 1 \in Names
      BY <1>1, <2>4, FileAsBefore
    <3>2. file'[k].lines = <<>> \/ file'[k] = file[k] \/ file'[k] = file[idx - 1]
      BY <1>1, <2>4, FileAsBefore
    <3>3. CASE file'[k].lines = <<>>
      BY <3>3
    <3>4. ASSUME NEW j \in Names, file'[k] = file[j] PROVE Rising(k)'
      BY <1>1, <3>4
    <3> QED BY <1>1, <3>1, <3>2, <3>3, <3>4
  <2> QED BY <2>1, <2>2, <2>3, <2>4, FileSteps DEF TypeInv
<1>3. ASSUME NEW j \in Names, NEW k \in Names, j < k PROVE Older(j, k)'
  <2>1. CASE file' = file
    BY <1>1, <1>3, <2>1, NumbersAfter
  <2>2. CASE MadeNew \/ TakenAway
    BY <1>1, <1>3, <2>2, NumbersAfter
  <2>3. CASE Wrote
    <3>1. count = Written + 1 /\ Written \in Int
      BY <2>3, WrittenStep, Ranges
    <3>2. k = fd => NumbersIn(j) = {}
      <4>1. k = fd => file[j] = NoFile
        BY <1>1, <1>3, <2>3 DEF OrderInv, WritesNewest, Wrote, Exists
      <4>2. file[j] = NoFile => DOMAIN file[j].lines = {}
        BY DEF NoFile
      <4> QED BY <4>1, <4>2 DEF NumbersIn
    <3> QED BY <1>1, <1>3, <2>3, <3>1, <3>2, NumbersAfter
  <2>4. CASE Moved
    <3>1. idx - 1 \in Names /\ idx > 0
      BY <2>4, OptionTypes DEF Moved, TypeInv, TypeOK, Names
    <3> QED BY <1>1, <1>3, <2>4, <3>1, NumbersAfter
  <2> QED BY <2>1, <2>2, <2>3, <2>4, FileSteps DEF TypeInv
<1> QED BY <1>1, <1>2, <1>3 DEF Chronological

LEMMA OrderInvHolds == Spec => [](TypeInv /\ OrderInv)
<1>1. Init => OrderInv
  <2> SUFFICES ASSUME Init PROVE OrderInv
    OBVIOUS
  <2>1. \A k \in Names : file[k] = NoFile
    BY DEF Init
  <2>2. \A k \in Names : DOMAIN file[k].lines = {}
    BY <2>1 DEF NoFile
  <2>3. \A k \in Names : NumbersIn(k) = {}
    BY <2>2 DEF NumbersIn
  <2> QED BY <2>1, <2>2, <2>3 DEF OrderInv, AllWritten, WritesNewest, Chronological, Exists
<1>2. TypeInv /\ OrderInv /\ [Next]_vars => OrderInv'
  <2>1. ASSUME TypeInv, OrderInv, Next PROVE OrderInv'
    BY <2>1, AllWrittenStep, WritesNewestStep, ChronologicalStep DEF OrderInv
  <2>2. ASSUME OrderInv, UNCHANGED vars PROVE OrderInv'
    BY <2>2 DEF vars, contextVars, OrderInv, AllWritten, WritesNewest, Chronological, NumbersIn,
      Written, Exists, Names, MaxIndex, MaxLines, MaxLoop
  <2> QED BY <2>1, <2>2
<1> QED BY <1>1, <1>2, TypeInvHolds, PTL DEF Spec

(* The messages are in the order in which they were logged, from the highest      *)
(* backup to the log file, for any number of messages, backups, failing renames   *)
(* and crashes in the middle of a rotation.                                       *)
THEOREM BackupsKeepOrder == Spec => []Chronological
BY OrderInvHolds, PTL DEF OrderInv

-----------------------------------------------------------------------------
(* What renames destroy. *)

\* Nothing that is not old enough gets in the way of a rename, and a rename that
\* does not fail leaves the next number free.
LEMMA TargetFreeStep ==
  ASSUME TypeInv, LostInv, Next
  PROVE  TargetFree'
<1>1. /\ TypeOK /\ MaxDays' = MaxDays /\ MaxLoop' = MaxLoop /\ DOMAIN file = Names
      /\ now \in Int /\ idx \in Names /\ Names \subseteq Nat /\ MaxDays * DayLength \in Int
      /\ misnamed \in BOOLEAN
  BY OptionsStay, Ranges, ExpiryType
<1> SUFFICES ASSUME pc' = "rename", idx' > 0, ~misnamed'
             PROVE  ~Exists(idx)' \/ MayDestroy(idx)'
  BY DEF TargetFree
<1>2. CASE Scan
  <2>1. ~Exists(idx') \/ MayDestroy(idx')
    BY <1>2, ScanEffect
  <2>2. file' = file /\ now' = now
    BY <1>2 DEF Scan
  <2> QED BY <1>1, <2>1, <2>2 DEF Exists, MayDestroy, Expired
<1>3. CASE RenameOne
  <2>1. idx' = idx - 1 /\ idx > 0 /\ idx - 1 \in Names
    BY <1>1, <1>3, OptionTypes DEF RenameOne, Names
  <2>2. CASE Exists(idx - 1) /\ file' = [file EXCEPT ![idx] = file[idx - 1], ![idx - 1] = NoFile]
    BY <1>1, <2>1, <2>2 DEF Exists
  <2>3. CASE ~Exists(idx - 1) /\ file' = file
    BY <2>1, <2>3 DEF Exists
  <2> QED BY <1>3, <2>2, <2>3 DEF RenameOne
<1>4. CASE Tick \/ Logrotate
  <2>1. /\ idx' = idx /\ pc' = pc /\ misnamed' = misnamed
        /\ file' = file \/ file' = [file EXCEPT ![0] = NoFile]
        /\ now' = now \/ now' = now + 1
    BY <1>4 DEF Tick, Logrotate, historyVars
  <2>2. ~Exists(idx) \/ MayDestroy(idx)
    BY <2>1 DEF LostInv, TargetFree
  <2>3. file'[idx] = file[idx]
    BY <1>1, <2>1
  <2>4. Expired(idx) => Expired(idx)'
    <3>1. file[idx].mtime \in Int
      BY <1>1, OptionTypes DEF TypeOK
    <3> QED BY <1>1, <2>1, <2>3, <3>1 DEF Expired
  <2> QED BY <1>1, <2>1, <2>2, <2>3, <2>4 DEF Exists, MayDestroy
<1>5. CASE ~(Scan \/ RenameOne \/ Tick \/ Logrotate)
  BY <1>5 DEF Next, WriteOpen, WriteCannotOpen, WriteCheck, WriteLine, WriteFails, WriteStamp,
    RotateDone, Reopen, CannotReopen, CreateFileAppender, FileClose, FileRelease, Crash, Goto
<1> QED BY <1>2, <1>3, <1>4, <1>5

LEMMA LoopBoundStep ==
  ASSUME TypeInv, LostInv, Next
  PROVE  LoopBound'
<1>1. /\ TypeOK /\ MaxDays' = MaxDays /\ MaxLoop' = MaxLoop /\ MaxLoop > 0 /\ MaxLoop \in Nat
      /\ idx \in Names /\ Names \subseteq Nat /\ Names' = Names
  BY OptionsStay, Ranges, OptionTypes
<1> SUFFICES ASSUME MaxDays = 0
             PROVE  /\ pc' = "rename" => idx' <= MaxLoop
                    /\ \A k \in Names : Exists(k)' => k <= MaxLoop
  BY <1>1 DEF LoopBound
<1>2. /\ pc = "rename" => idx <= MaxLoop
      /\ \A k \in Names : Exists(k) => k <= MaxLoop
  BY DEF LostInv, LoopBound
<1>3. pc' = "rename" => idx' <= MaxLoop
  <2>1. CASE Scan
    BY <2>1, ScanEffect
  <2>2. CASE ~Scan
    <3>1. pc' = "rename" => pc = "rename" /\ (idx' = idx \/ idx' = idx - 1)
      BY <2>2 DEF Next, WriteOpen, WriteCannotOpen, WriteCheck, WriteLine, WriteFails, WriteStamp,
        RenameOne, RotateDone, Reopen, CannotReopen, CreateFileAppender, FileClose, FileRelease,
        Crash, Tick, Logrotate, Goto
    <3> QED BY <1>1, <1>2, <3>1
  <2> QED BY <2>1, <2>2
<1>4. \A k \in Names : Exists(k)' => k <= MaxLoop
  BY <1>1, <1>2, Existing DEF Moved
<1> QED BY <1>3, <1>4

\* Only a rename that goes through destroys messages: those of the file in its way.
LEMMA OverwrittenSteps ==
  ASSUME TypeInv, Next
  PROVE  /\ misnamed => misnamed'
         /\ \A o \in overwritten' :
              \/ o \in overwritten
              \/ /\ Moved
                 /\ \E n \in NumbersIn(idx) : o = <<n, file[idx].mtime>>
<1>1. CASE RenameOne
  <2>1. CASE /\ Exists(idx - 1) /\ misnamed' = misnamed
             /\ overwritten' = overwritten \union LinesOf(idx)
             /\ file' = [file EXCEPT ![idx] = file[idx - 1], ![idx - 1] = NoFile]
    <3>1. Moved
      BY <1>1, <2>1 DEF RenameOne, Moved
    <3>2. \A o \in LinesOf(idx) : \E n \in NumbersIn(idx) : o = <<n, file[idx].mtime>>
      BY DEF LinesOf, NumbersIn
    <3> QED BY <2>1, <3>1, <3>2
  <2>2. CASE overwritten' = overwritten /\ misnamed' = misnamed
    BY <2>2
  <2>3. CASE overwritten' = overwritten /\ misnamed' = TRUE
    BY <2>3
  <2> QED BY <1>1, <2>1, <2>2, <2>3 DEF RenameOne
<1>2. CASE ~RenameOne
  <2>1. overwritten' = overwritten /\ misnamed' = misnamed
    BY <1>2 DEF Next, WriteOpen, WriteCannotOpen, WriteCheck, WriteLine, WriteFails, WriteStamp,
      Scan, RotateDone, Reopen, CannotReopen, CreateFileAppender, FileClose, FileRelease, Crash,
      Tick, Logrotate, historyVars
  <2> QED BY <2>1
<1> QED BY <1>1, <1>2

LEMMA OverwrittenTypeStep ==
  ASSUME TypeInv, OrderInv, LostInv, Next
  PROVE  OverwrittenType'
<1>1. /\ TypeOK /\ MaxTime' = MaxTime /\ MaxTime \in Nat /\ idx \in Names
      /\ Written \in Nat /\ Written' \in Nat /\ Written <= Written'
      /\ file[idx].mtime \in -1 .. MaxTime
  BY OptionsStay, Ranges, OptionTypes, WrittenStep
<1>2. \A n \in NumbersIn(idx) : n \in 1 .. Written
  <2>1. NumbersIn(idx) \subseteq 1 .. MaxLines /\ MaxLines \in Nat
    BY <1>1, NumberType, Ranges
  <2>2. \A n \in NumbersIn(idx) : n <= Written
    BY <1>1 DEF OrderInv, AllWritten
  <2> QED BY <1>1, <2>1, <2>2
<1>3. ASSUME NEW o \in overwritten' PROVE o[1] \in 1 .. Written' /\ o[2] \in -1 .. MaxTime
  <2>1. CASE o \in overwritten
    BY <1>1, <2>1 DEF LostInv, OverwrittenType
  <2>2. CASE \E n \in NumbersIn(idx) : o = <<n, file[idx].mtime>>
    BY <1>1, <1>2, <2>2
  <2> QED BY <1>3, <2>1, <2>2, OverwrittenSteps
<1> QED BY <1>1, <1>3 DEF OverwrittenType

LEMMA OldestLostStep ==
  ASSUME TypeInv, OrderInv, LostInv, Next
  PROVE  OldestLost'
<1>1. /\ TypeOK /\ MaxDays' = MaxDays /\ Names' = Names /\ idx \in Names /\ Names \subseteq Nat
      /\ Written \in Nat
  BY OptionsStay, Ranges
<1>2. /\ \A k \in Names : NumbersIn(k) \subseteq Int
      /\ \A j, k \in Names : j < k => \A m \in NumbersIn(k), i \in NumbersIn(j) : m < i
  BY <1>1, NumberType DEF OrderInv, Chronological
<1> SUFFICES ASSUME MaxDays = 0, ~misnamed', NEW o \in overwritten', NEW k \in Names,
                    NEW n \in NumbersIn(k)'
             PROVE  o[1] < n
  BY <1>1 DEF OldestLost
<1>3. ~misnamed
  BY OverwrittenSteps
<1>4. CASE o \in overwritten
  <2>1. \A j \in Names : \A m \in NumbersIn(j) : o[1] < m
    BY <1>3, <1>4 DEF LostInv, OldestLost
  <2>2. o[1] \in Nat /\ o[1] <= Written
    BY <1>1, <1>4 DEF LostInv, OverwrittenType
  <2>3. Wrote => count = Written + 1
    BY WrittenStep
  <2> QED BY <1>1, <1>2, <2>1, <2>2, <2>3, NumbersFrom
<1>5. CASE Moved /\ \E m \in NumbersIn(idx) : o = <<m, file[idx].mtime>>
  <2>1. PICK m \in NumbersIn(idx) : o = <<m, file[idx].mtime>>
    BY <1>5
  <2>2. idx - 1 \in Names /\ idx > 0 /\ pc = "rename"
    BY <1>5, OptionTypes DEF Moved, TypeInv, TypeOK, Names
  <2>3. Exists(idx)
    <3>1. NumbersIn(idx) # {}
      BY <2>1
    <3>2. file[idx] = NoFile => DOMAIN file[idx].lines = {}
      BY DEF NoFile
    <3> QED BY <3>1, <3>2 DEF NumbersIn, Exists
  <2>4. idx = MaxLoop
    BY <1>3, <2>2, <2>3 DEF LostInv, TargetFree, MayDestroy
  <2>5. \A j \in Names : idx < j => NumbersIn(j) = {}
    <3>1. \A j \in Names : idx < j => file[j] = NoFile
      BY <1>1, <2>4, OptionTypes DEF LostInv, LoopBound, Exists
    <3>2. DOMAIN NoFile.lines = {}
      BY DEF NoFile
    <3> QED BY <3>1, <3>2 DEF NumbersIn
  <2>6. PICK j \in Names : j < idx /\ n \in NumbersIn(j)
    BY <1>1, <1>5, <2>2, <2>5, NumbersAfter
  <2>7. m < n
    BY <1>1, <1>2, <2>1, <2>6
  <2> QED BY <2>1, <2>7
<1> QED BY <1>4, <1>5, OverwrittenSteps

LEMMA OnlyExpiredLostStep ==
  ASSUME TypeInv, LostInv, Next
  PROVE  OnlyExpiredLost'
<1>1. /\ TypeOK /\ MaxDays' = MaxDays /\ MaxDays * DayLength \in Int /\ now \in Int
      /\ idx \in Names /\ MaxTime \in Nat
  BY OptionsStay, Ranges, OptionTypes, ExpiryType
<1>2. now' = now \/ now' = now + 1
  BY DEF Next, WriteOpen, WriteCannotOpen, WriteCheck, WriteLine, WriteFails, WriteStamp, Scan,
    RenameOne, RotateDone, Reopen, CannotReopen, CreateFileAppender, FileClose, FileRelease,
    Crash, Tick, Logrotate
<1> SUFFICES ASSUME MaxDays > 0, ~misnamed', NEW o \in overwritten'
             PROVE  o[2] < now' - MaxDays * DayLength
  BY <1>1 DEF OnlyExpiredLost
<1>3. ~misnamed
  BY OverwrittenSteps
<1>4. o[2] \in Int /\ o[2] < now - MaxDays * DayLength
  <2>1. CASE o \in overwritten
    BY <1>1, <1>3, <2>1 DEF LostInv, OverwrittenType, OnlyExpiredLost
  <2>2. CASE Moved /\ \E m \in NumbersIn(idx) : o = <<m, file[idx].mtime>>
    <3>1. o[2] = file[idx].mtime
      BY <2>2
    <3>2. file[idx].mtime \in Int
      BY <1>1 DEF TypeOK
    <3>3. Exists(idx)
      <4>1. NumbersIn(idx) # {}
        BY <2>2
      <4>2. file[idx] = NoFile => DOMAIN file[idx].lines = {}
        BY DEF NoFile
      <4> QED BY <4>1, <4>2 DEF NumbersIn, Exists
    <3>4. Expired(idx)
      BY <1>3, <2>2, <3>3 DEF Moved, LostInv, TargetFree, MayDestroy
    <3> QED BY <3>1, <3>2, <3>4 DEF Expired
  <2> QED BY <2>1, <2>2, OverwrittenSteps
<1> QED BY <1>1, <1>2, <1>4

LEMMA LostInvHolds == Spec => []LostInv
<1>1. Init => LostInv
  <2> SUFFICES ASSUME Init PROVE LostInv
    OBVIOUS
  <2>1. overwritten = {} /\ pc = "none" /\ \A k \in Names : ~Exists(k)
    BY DEF Init, Exists
  <2> QED BY <2>1 DEF LostInv, TargetFree, LoopBound, OverwrittenType, OldestLost, OnlyExpiredLost
<1>2. TypeInv /\ OrderInv /\ LostInv /\ [Next]_vars => LostInv'
  <2>1. ASSUME TypeInv, OrderInv, LostInv, Next PROVE LostInv'
    BY <2>1, TargetFreeStep, LoopBoundStep, OverwrittenTypeStep, OldestLostStep,
      OnlyExpiredLostStep DEF LostInv
  <2>2. ASSUME LostInv, UNCHANGED vars PROVE LostInv'
    BY <2>2 DEF vars, contextVars, historyVars, LostInv, TargetFree, LoopBound, OverwrittenType,
      OldestLost, OnlyExpiredLost, MayDestroy, Expired, NumbersIn, Written, Exists, Names, MaxIndex,
      MaxLines, MaxLoop, MaxDays, MaxTime
  <2> QED BY <2>1, <2>2
<1> QED BY <1>1, <1>2, OrderInvHolds, PTL DEF Spec

(* A rotation among max_loop backups destroys nothing but the oldest messages,   *)
(* whatever earlier rotations left behind.                                       *)
THEOREM OldestGoFirst == Spec => []OldestLost
BY LostInvHolds, PTL DEF LostInv

(* A rotation with max_days destroys no message whose file was written to within *)
(* these days.                                                                   *)
THEOREM ExpiredGoFirst == Spec => []OnlyExpiredLost
BY LostInvHolds, PTL DEF LostInv

-----------------------------------------------------------------------------
(* The sizes of the files. *)

\* A rotation whose renames do not fail leaves no log file.
LEMMA RotatedAwayStep ==
  ASSUME TypeInv, SizeInv, Next
  PROVE  RotatedAway'
<1>1. /\ DOMAIN file = Names /\ 0 \in Names /\ idx \in Nat /\ FdZero' = FdZero
      /\ Backups = Names \ {0}
  BY OptionsStay, Ranges
<1> SUFFICES ASSUME ~misnamed', ~FdZero, pc' = "reopen" \/ (pc' = "rename" /\ idx' = 0)
             PROVE  ~Exists(0)'
  BY <1>1 DEF RotatedAway
<1>2. CASE Scan
  BY <1>1, <1>2, ScanEffect DEF Scan, Goto
<1>3. CASE RenameOne
  <2>1. idx = 1
    BY <1>1, <1>3 DEF RenameOne
  <2> QED BY <1>1, <1>3, <2>1 DEF RenameOne, Exists
<1>4. CASE RotateDone \/ Tick
  <2>1. /\ file' = file /\ misnamed' = misnamed /\ idx' = idx
        /\ pc' = pc \/ (pc = "rename" /\ idx = 0)
    BY <1>4 DEF RotateDone, Tick, historyVars, Goto
  <2> QED BY <2>1 DEF SizeInv, RotatedAway, Exists
<1>5. CASE Logrotate
  BY <1>1, <1>5 DEF Logrotate, Exists
<1>6. CASE ~(Scan \/ RenameOne \/ RotateDone \/ Tick \/ Logrotate)
  BY <1>6 DEF Next, WriteOpen, WriteCannotOpen, WriteCheck, WriteLine, WriteFails, WriteStamp,
    Reopen, CannotReopen, CreateFileAppender, FileClose, FileRelease, Crash, Goto
<1> QED BY <1>2, <1>3, <1>4, <1>5, <1>6

\* The size that is remembered is that of the open file.
LEMMA SizeKnownStep ==
  ASSUME TypeInv, SizeInv, Next
  PROVE  SizeKnown'
<1>1. /\ FdZero' = FdZero /\ Closed # 0 /\ Away # 0 /\ 0 \in Names
      /\ TypeOK /\ WrittenBound
  BY OptionsStay, Ranges
<1> SUFFICES ASSUME ~FdZero, fd' = 0 PROVE fileSize' = Len(file'[0].lines)
  BY <1>1 DEF SizeKnown
<1>2. fd = 0 => fileSize = Len(file[0].lines)
  BY DEF SizeInv, SizeKnown
<1>3. CASE WriteOpen \/ Reopen
  BY <1>2, <1>3, OpenEffect DEF WriteOpen, Reopen, contextVars
<1>4. CASE WriteLine
  <2>1. fd = 0 /\ fileSize' = fileSize + 1 /\ Wrote
    BY <1>1, <1>4 DEF WriteLine, Wrote, Goto, Message
  <2> QED BY <1>2, <2>1, LinesWritten
<1>5. CASE WriteFails \/ FileClose \/ FileRelease \/ CreateFileAppender \/ Crash
  BY <1>1, <1>5, CloseEffect DEF WriteFails, FileClose, FileRelease, CreateFileAppender, Crash
<1>6. CASE WriteCannotOpen \/ CannotReopen
  BY <1>1, <1>6 DEF WriteCannotOpen, CannotReopen, OpenFails, contextVars
<1>7. CASE RenameOne
  <2>1. DescriptorPlace' /\ pc' = "rename"
    BY <1>7, DescriptorPlaceStep DEF RenameOne
  <2> QED BY <1>1, <2>1 DEF DescriptorPlace
<1>8. CASE Logrotate
  BY <1>1, <1>8 DEF Logrotate
<1>9. CASE WriteCheck
  BY <1>1, <1>2, <1>9, CloseEffect DEF WriteCheck, contextVars
<1>10. CASE WriteStamp \/ Scan \/ RotateDone \/ Tick
  BY <1>2, <1>10 DEF WriteStamp, Scan, RotateDone, Tick, contextVars
<1> QED BY <1>3, <1>4, <1>5, <1>6, <1>7, <1>8, <1>9, <1>10 DEF Next

\* A message is written to a new file, or to one that was not too large.
LEMMA SizeCheckedStep ==
  ASSUME TypeInv, SizeInv, Next
  PROVE  SizeChecked'
<1>1. /\ FdZero' = FdZero /\ MaxSize' = MaxSize /\ MaxSize \in Nat /\ fileSize \in Int
      /\ TypeOK /\ 0 \in Names /\ DOMAIN file = Names /\ Away # 0
  BY OptionsStay, Ranges, OptionTypes
<1> SUFFICES ASSUME MaxSize > 0, ~misnamed', ~FdZero, pc' = "write", fd' = 0
             PROVE  fileSize' <= MaxSize
  BY <1>1 DEF SizeChecked
<1>2. CASE WriteCheck
  <2>1. fileSize' = fileSize /\ ~(fileSize > 0 /\ TooLarge)
    BY <1>2 DEF WriteCheck, Goto, contextVars
  <2> QED BY <1>1, <2>1 DEF TooLarge
<1>3. CASE Reopen
  <2>1. pc = "reopen" /\ misnamed' = misnamed /\ OpenFile
    BY <1>3 DEF Reopen, Goto, historyVars
  <2>2. fd = Closed /\ ~Exists(0)
    BY <2>1 DEF TypeInv, DescriptorPlace, SizeInv, RotatedAway
  <2>3. file' = Created /\ fileSize' = Len(file'[0].lines)
    BY <2>1, <2>2, OpenEffect
  <2>4. file'[0].lines = <<>>
    BY <1>1, <2>2, <2>3 DEF Created
  <2> QED BY <1>1, <2>3, <2>4, EmptyLines
<1>4. CASE Tick \/ Logrotate
  <2>1. pc' = pc /\ misnamed' = misnamed /\ fd = 0 /\ fileSize' = fileSize
    BY <1>1, <1>4 DEF Tick, Logrotate, contextVars, historyVars
  <2> QED BY <2>1 DEF SizeInv, SizeChecked
<1>5. CASE ~(WriteCheck \/ Reopen \/ Tick \/ Logrotate)
  BY <1>5 DEF Next, WriteOpen, WriteCannotOpen, WriteLine, WriteFails, WriteStamp, Scan, RenameOne,
    RotateDone, CannotReopen, CreateFileAppender, FileClose, FileRelease, Crash, Goto
<1> QED BY <1>2, <1>3, <1>4, <1>5

LEMMA SizeBoundStep ==
  ASSUME TypeInv, SizeInv, Next
  PROVE  SizeBound'
<1>1. /\ FdZero' = FdZero /\ MaxSize' = MaxSize /\ MaxSize \in Nat /\ Names' = Names
      /\ TypeOK /\ 0 \in Names /\ Names \subseteq Nat
  BY OptionsStay, Ranges, OptionTypes
<1> SUFFICES ASSUME MaxSize > 0, ~misnamed', ~FdZero, NEW k \in Names
             PROVE  Len(file'[k].lines) <= MaxSize + 1
  BY <1>1 DEF SizeBound
<1>2. \A j \in Names : Len(file[j].lines) <= MaxSize + 1
  BY OverwrittenSteps DEF SizeInv, SizeBound
<1>3. CASE file' = file
  BY <1>2, <1>3
<1>4. CASE MadeNew \/ TakenAway
  <2>1. file'[k].lines = <<>> \/ file'[k] = file[k]
    BY <1>1, <1>4, FileAsBefore
  <2> QED BY <1>1, <1>2, <2>1, EmptyLines
<1>5. CASE Wrote
  <2>1. fd = 0
    BY <1>1, <1>5 DEF TypeInv, DescriptorPlace, Wrote, Closed, Away
  <2>2. Len(file[0].lines) <= MaxSize /\ Len(file[0].lines) \in Nat
    BY <1>1, <1>5, <2>1, OverwrittenSteps, NumberType
    DEF Wrote, SizeInv, SizeKnown, SizeChecked
  <2> QED BY <1>1, <1>2, <1>5, <2>1, <2>2, FilesAfter, LinesWritten
<1>6. CASE Moved
  <2>1. idx - 1 \in Names
    BY <1>1, <1>6, FileAsBefore
  <2>2. file'[k].lines = <<>> \/ file'[k] = file[k] \/ file'[k] = file[idx - 1]
    BY <1>1, <1>6, FileAsBefore
  <2>3. CASE file'[k].lines = <<>>
    BY <1>1, <2>3, EmptyLines
  <2>4. CASE file'[k] = file[k] \/ file'[k] = file[idx - 1]
    BY <1>2, <2>1, <2>4
  <2> QED BY <2>2, <2>3, <2>4
<1> QED BY <1>3, <1>4, <1>5, <1>6, FileSteps DEF TypeInv

LEMMA SizeInvHolds == Spec => []SizeInv
<1>1. Init => SizeInv
  <2> SUFFICES ASSUME Init PROVE SizeInv
    OBVIOUS
  <2>1. TypeOK
    BY InitTypeInv DEF TypeInv
  <2>2. fd # 0 /\ pc = "none" /\ \A k \in Names : file[k] = NoFile
    BY DEF Init, Closed
  <2>3. \A k \in Names : Len(file[k].lines) = 0
    BY <2>1, <2>2, EmptyLines
  <2> QED BY <2>1, <2>2, <2>3, OptionTypes
      DEF SizeInv, RotatedAway, SizeKnown, SizeChecked, SizeBound
<1>2. TypeInv /\ SizeInv /\ [Next]_vars => SizeInv'
  <2>1. ASSUME TypeInv, SizeInv, Next PROVE SizeInv'
    BY <2>1, RotatedAwayStep, SizeKnownStep, SizeCheckedStep, SizeBoundStep DEF SizeInv
  <2>2. ASSUME SizeInv, UNCHANGED vars PROVE SizeInv'
    BY <2>2 DEF vars, contextVars, historyVars, SizeInv, RotatedAway, SizeKnown, SizeChecked,
      SizeBound, Exists, Names, MaxIndex, MaxLines, MaxLoop, MaxSize, FdZero
  <2> QED BY <2>1, <2>2
<1> QED BY <1>1, <1>2, TypeInvHolds, PTL DEF Spec

(* No file is larger than max_size and one message, for any max_size and number   *)
(* of backups: what is remembered of the size is right over reopening, failing    *)
(* writes and restarts, and a rotation always leaves the log file to be made anew. *)
THEOREM FilesStaySmall == Spec => []SizeBound
BY SizeInvHolds, PTL DEF SizeInv

-----------------------------------------------------------------------------
(* The days of the files. *)

LEMMA DayFacts ==
  ASSUME TypeInv, Next
  PROVE  /\ TypeOK /\ Names' = Names /\ Names \subseteq Nat /\ 0 \in Names
         /\ FdZero' = FdZero /\ Daily' = Daily /\ 0 # Closed /\ 0 # Away
         /\ crossed \subseteq crossed'
         /\ misnamed => misnamed'
<1>1. crossed \subseteq crossed'
  <2>1. \/ crossed' = crossed
        \/ crossed' = IF Day(now) # Day(began) THEN crossed \union {count} ELSE crossed
    BY DEF Next, WriteOpen, WriteCannotOpen, WriteCheck, WriteLine, WriteFails, WriteStamp, Scan,
      RenameOne, RotateDone, Reopen, CannotReopen, CreateFileAppender, FileClose, FileRelease,
      Crash, Tick, Logrotate, historyVars
  <2> QED BY <2>1
<1> QED BY <1>1, OptionsStay, Ranges, OverwrittenSteps

\* The file that is written to is the log file, the last message of which, if it
\* has one, is of the day that the write takes for its own.
LEMMA WroteOnDay ==
  ASSUME TypeInv, DayInv, Wrote, Daily, ~misnamed, ~FdZero
  PROVE  /\ fd = 0 /\ OfDay(0, Day(began))
         /\ Len(file'[0].lines) = Len(file[0].lines) + 1 /\ Len(file[0].lines) \in Nat
         /\ \A j \in 1 .. Len(file[0].lines) : file'[0].lines[j] = file[0].lines[j]
         /\ file'[0].lines[Len(file'[0].lines)] = [n |-> count, day |-> Day(began)]
         /\ file'[0].mtime = now
<1>1. fd = 0 /\ TypeOK /\ 0 \in Names /\ pc = "write"
  <2>1. fd \in Names /\ fd \in {Closed, 0, Away} /\ pc = "write"
    BY Ranges DEF DescriptorPlace, Wrote
  <2> QED BY <2>1, Ranges
<1>2. OfDay(0, Day(began))
  BY <1>1 DEF DayInv, OpenOfDay
<1> QED BY <1>1, <1>2, LinesWritten, NumberType DEF Message

LEMMA StampOfDayStep ==
  ASSUME TypeInv, DayInv, Next, Daily, ~misnamed', ~FdZero
  PROVE  StampOfDay'
<1>1. StampOfDay /\ ~misnamed
  BY DayFacts DEF DayInv
<1> SUFFICES ASSUME NEW k \in Names
             PROVE  \/ file'[k].lines = <<>>
                    \/ file'[k].lines[Len(file'[k].lines)].n \in crossed'
                    \/ file'[k].lines[Len(file'[k].lines)].day = Day(file'[k].mtime)
  BY DayFacts DEF StampOfDay, OfDay, LastLine, Day
<1>2. ASSUME NEW j \in Names, file'[k] = file[j]
      PROVE  \/ file'[k].lines = <<>>
             \/ file'[k].lines[Len(file'[k].lines)].n \in crossed'
             \/ file'[k].lines[Len(file'[k].lines)].day = Day(file'[k].mtime)
  BY <1>1, <1>2, DayFacts DEF StampOfDay, OfDay, LastLine
<1>3. CASE file' = file
  BY <1>2, <1>3
<1>4. CASE MadeNew \/ TakenAway
  <2>1. file'[k].lines = <<>> \/ file'[k] = file[k]
    BY <1>4, DayFacts, FileAsBefore
  <2> QED BY <1>2, <2>1
<1>5. CASE Wrote
  <2>1. CASE k = fd
    <3>1. k = 0 /\ Day(now) # Day(began) => count \in crossed'
      BY <1>5 DEF Wrote
    <3> QED BY <1>1, <1>5, <2>1, <3>1, WroteOnDay
  <2>2. CASE k # fd
    BY <1>2, <1>5, <2>2, DayFacts, FilesAfter
  <2> QED BY <2>1, <2>2
<1>6. CASE Moved
  <2>1. idx - 1 \in Names
    BY <1>6, DayFacts, FileAsBefore
  <2>2. file'[k].lines = <<>> \/ file'[k] = file[k] \/ file'[k] = file[idx - 1]
    BY <1>6, DayFacts, FileAsBefore
  <2> QED BY <1>2, <2>1, <2>2
<1> QED BY <1>3, <1>4, <1>5, <1>6, FileSteps DEF TypeInv

LEMMA OneDayStep ==
  ASSUME TypeInv, DayInv, Next
  PROVE  OneDay'
<1> DEFINE SameDay(x, y, c) == x.n \in c \/ x.day = y.day
<1> SUFFICES ASSUME Daily, ~misnamed', ~FdZero, NEW k \in Names,
                    NEW j \in 1 .. Len(file'[k].lines) - 1
             PROVE  SameDay(file'[k].lines[j], file'[k].lines[j + 1], crossed')
  BY DayFacts DEF OneDay
<1>1. ~misnamed /\ crossed \subseteq crossed'
  BY DayFacts
<1>2. \A i \in Names : \A h \in 1 .. Len(file[i].lines) - 1 :
        SameDay(file[i].lines[h], file[i].lines[h + 1], crossed)
  BY <1>1 DEF DayInv, OneDay
<1>3. ASSUME NEW i \in Names, file'[k] = file[i]
      PROVE  SameDay(file'[k].lines[j], file'[k].lines[j + 1], crossed')
  BY <1>1, <1>2, <1>3
<1>4. ASSUME file'[k].lines = <<>>
      PROVE  SameDay(file'[k].lines[j], file'[k].lines[j + 1], crossed')
  <2>1. Len(file'[k].lines) = 0
    BY <1>4, DayFacts, EmptyLines
  <2> QED BY <2>1
<1> HIDE DEF SameDay
<1>5. CASE file' = file
  BY <1>3, <1>5
<1>6. CASE MadeNew \/ TakenAway
  <2>1. file'[k].lines = <<>> \/ file'[k] = file[k]
    BY <1>6, DayFacts, FileAsBefore
  <2> QED BY <1>3, <1>4, <2>1
<1>7. CASE Wrote
  <2>1. CASE k = fd
    <3> DEFINE L == Len(file[0].lines)
    <3>1. /\ k = 0 /\ OfDay(0, Day(began)) /\ L \in Nat
          /\ Len(file'[0].lines) = L + 1
          /\ \A h \in 1 .. L : file'[0].lines[h] = file[0].lines[h]
          /\ file'[0].lines[L + 1] = [n |-> count, day |-> Day(began)]
      BY <1>1, <1>7, <2>1, WroteOnDay
    <3>2. CASE j < L
      <4>1. j \in 1 .. L - 1 /\ j \in 1 .. L /\ j + 1 \in 1 .. L
        BY <3>1, <3>2
      <4>2. SameDay(file[0].lines[j], file[0].lines[j + 1], crossed)
        BY <1>2, <3>1, <4>1
      <4> QED BY <1>1, <3>1, <4>1, <4>2 DEF SameDay
    <3>3. CASE j = L
      <4>1. j \in 1 .. L /\ file[0].lines # <<>>
        BY <3>1, <3>3, DayFacts, EmptyLines
      <4>2. file[0].lines[L].n \in crossed \/ file[0].lines[L].day = Day(began)
        BY <3>1, <4>1 DEF OfDay, LastLine
      <4>3. j + 1 = L + 1 /\ file'[0].lines[j + 1].day = Day(began)
        BY <3>1, <3>3
      <4>4. file'[k].lines[j] = file[0].lines[L]
        BY <3>1, <3>3, <4>1
      <4> QED BY <1>1, <3>1, <4>2, <4>3, <4>4 DEF SameDay
    <3> QED BY <3>1, <3>2, <3>3
  <2>2. CASE k # fd
    BY <1>3, <1>7, <2>2, DayFacts, FilesAfter
  <2> QED BY <2>1, <2>2
<1>8. CASE Moved
  <2>1. idx - 1 \in Names
    BY <1>8, DayFacts, FileAsBefore
  <2>2. file'[k].lines = <<>> \/ file'[k] = file[k] \/ file'[k] = file[idx - 1]
    BY <1>8, DayFacts, FileAsBefore
  <2> QED BY <1>3, <1>4, <2>1, <2>2
<1> QED BY <1>5, <1>6, <1>7, <1>8, FileSteps DEF TypeInv

\* A file that is opened, or that a write goes on with, is of the day that is
\* remembered for it.
LEMMA OpenOfDayStep ==
  ASSUME TypeInv, SizeInv, DayInv, Next, Daily, ~misnamed', ~FdZero
  PROVE  OpenOfDay'
<1> DEFINE Rest == file'[0].lines[Len(file'[0].lines)]
           DayIs(d) == file'[0].lines = <<>> \/ Rest.n \in crossed' \/ Rest.day = d
<1>1. /\ StampOfDay /\ OpenOfDay /\ ~misnamed
      /\ FdZero' = FdZero /\ 0 # Closed /\ 0 # Away /\ 0 \in Names /\ TypeOK
      /\ crossed \subseteq crossed'
  BY DayFacts DEF DayInv
<1> SUFFICES ASSUME fd' = 0
             PROVE  /\ pc' \in {"idle", "check"} => DayIs(Day(lastMtime'))
                    /\ pc' = "write" => DayIs(Day(began'))
                    /\ pc' = "stamp" => /\ file'[0].lines # <<>>
                                        /\ Rest = [n |-> count', day |-> Day(began')]
  BY DEF OpenOfDay, OfDay, LastLine, Day
<1>2. pc' \notin {"scan", "rename", "reopen"}
  BY <1>1, DescriptorPlaceStep DEF DescriptorPlace
<1>3. \A d : file' = file /\ OfDay(0, d) => DayIs(d)
  BY <1>1 DEF OfDay, LastLine
<1>4. CASE WriteOpen \/ Reopen
  <2>1. OpenFile
    BY <1>4 DEF WriteOpen, Reopen
  <2>2. CASE WriteOpen /\ fd = Closed
    <3>1. lastMtime' = file'[0].mtime /\ pc' = "check"
      BY <2>1, <2>2, OpenEffect DEF WriteOpen, Goto
    <3>2. DayIs(Day(file'[0].mtime))
      <4>1. StampOfDay' /\ 0 \in Names'
        BY <1>1, StampOfDayStep, DayFacts
      <4> QED BY <4>1 DEF StampOfDay, OfDay, LastLine, Day
    <3> QED BY <3>1, <3>2
  <2>3. CASE WriteOpen /\ fd # Closed
    <3>1. file' = file /\ fd = 0 /\ lastMtime' = lastMtime /\ pc = "idle" /\ pc' = "check"
      BY <2>1, <2>3, OpenEffect DEF WriteOpen, Goto, contextVars
    <3> QED BY <1>1, <1>3, <3>1 DEF OpenOfDay
  <2>4. CASE Reopen
    <3>1. fd = Closed /\ ~Exists(0) /\ pc' = "write"
      BY <1>1, <2>4 DEF Reopen, Goto, TypeInv, DescriptorPlace, SizeInv, RotatedAway
    <3>2. file' = Created
      BY <2>1, <3>1, OpenEffect
    <3>3. file'[0].lines = <<>>
      BY <1>1, <3>1, <3>2 DEF Created, TypeOK
    <3> QED BY <3>1, <3>3
  <2> QED BY <1>4, <2>2, <2>3, <2>4
<1>5. CASE WriteCheck
  <2>1. /\ file' = file /\ fd = 0 /\ fileSize = Len(file[0].lines) /\ began' = now /\ pc' = "write"
        /\ pc = "check" /\ ~(fileSize > 0 /\ (AnotherDay \/ TooLarge))
    BY <1>1, <1>2, <1>5 DEF WriteCheck, Goto, contextVars, SizeInv, SizeKnown
  <2>2. OfDay(0, Day(lastMtime))
    BY <1>1, <2>1 DEF OpenOfDay
  <2>3. CASE fileSize > 0
    BY <1>3, <2>1, <2>2, <2>3 DEF AnotherDay
  <2>4. CASE ~(fileSize > 0)
    BY <1>1, <2>1, <2>4, NumberType
  <2> QED BY <2>3, <2>4
<1>6. CASE WriteLine
  <2>1. Wrote /\ pc' = "stamp" /\ count' = count /\ began' = began
    BY <1>1, <1>6 DEF WriteLine, Goto, Wrote, Message
  <2>2. /\ Len(file'[0].lines) = Len(file[0].lines) + 1 /\ Len(file[0].lines) \in Nat
        /\ Rest = [n |-> count, day |-> Day(began)]
    BY <1>1, <2>1, WroteOnDay
  <2>3. file'[0].lines # <<>>
    BY <1>1, <2>2, EmptyLines
  <2> QED BY <2>1, <2>2, <2>3
<1>7. CASE WriteStamp
  <2>1. /\ pc = "stamp" /\ pc' = "idle" /\ file' = file /\ fd = 0 /\ lastMtime' = now
        /\ Day(now) # Day(began) => count \in crossed'
    BY <1>7 DEF WriteStamp, Goto
  <2>2. Rest = [n |-> count, day |-> Day(began)]
    BY <1>1, <2>1 DEF OpenOfDay, LastLine
  <2> QED BY <2>1, <2>2
<1>8. CASE Tick
  <2>1. /\ file' = file /\ fd = 0 /\ lastMtime' = lastMtime /\ began' = began /\ pc' = pc
        /\ count' = count
    BY <1>8 DEF Tick, contextVars
  <2> QED BY <1>1, <1>3, <2>1 DEF OpenOfDay, LastLine
<1>9. CASE WriteCannotOpen \/ CannotReopen \/ WriteFails \/ FileClose \/ FileRelease
           \/ CreateFileAppender \/ Crash \/ Logrotate
  BY <1>1, <1>9, CloseEffect DEF WriteCannotOpen, CannotReopen, OpenFails, contextVars, WriteFails,
    FileClose, FileRelease, CreateFileAppender, Crash, Logrotate
<1>10. CASE Scan \/ RenameOne \/ RotateDone
  BY <1>2, <1>10 DEF Scan, RenameOne, RotateDone, Goto
<1> QED BY <1>4, <1>5, <1>6, <1>7, <1>8, <1>9, <1>10 DEF Next

LEMMA DayInvHolds == Spec => []DayInv
<1>1. Init => DayInv
  <2> SUFFICES ASSUME Init PROVE DayInv
    OBVIOUS
  <2>1. TypeOK
    BY InitTypeInv DEF TypeInv
  <2>2. fd # 0 /\ \A k \in Names : file[k] = NoFile
    BY DEF Init, Closed
  <2>3. \A k \in Names : file[k].lines = <<>> /\ Len(file[k].lines) = 0
    BY <2>1, <2>2, EmptyLines
  <2> QED BY <2>2, <2>3 DEF DayInv, StampOfDay, OpenOfDay, OfDay, OneDay
<1>2. TypeInv /\ SizeInv /\ DayInv /\ [Next]_vars => DayInv'
  <2>1. ASSUME TypeInv, SizeInv, DayInv, Next PROVE DayInv'
    <3>1. Daily' = Daily /\ FdZero' = FdZero
      BY <2>1, DayFacts
    <3> QED BY <2>1, <3>1, StampOfDayStep, OpenOfDayStep, OneDayStep DEF DayInv
  <2>2. ASSUME DayInv, UNCHANGED vars PROVE DayInv'
    BY <2>2 DEF vars, contextVars, historyVars, DayInv, StampOfDay, OpenOfDay, OfDay, LastLine,
      OneDay, Day, Daily, FdZero, Names, MaxIndex, MaxLines, MaxLoop
  <2> QED BY <2>1, <2>2
<1> QED BY <1>1, <1>2, TypeInvHolds, SizeInvHolds, PTL DEF Spec

(* With daily, two messages next to each other in a file are of the same local    *)
(* day, unless midnight fell into the writing of the first, for any length of a   *)
(* day and any time zone, over restarts and failing writes.                       *)
THEOREM FilesHoldOneDay == Spec => []OneDay
BY DayInvHolds, PTL DEF DayInv
=============================================================================
