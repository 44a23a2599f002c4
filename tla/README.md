# A formal model of neng-log

neng-log is a C library that a program links to write log messages: to files
that it rotates, to syslog, or to writers of the program's own, from the thread
that logs or from a worker thread.  This directory holds TLA+ modules that
model it, TLC configurations that check them on small instances, and theorems
about them that TLAPS has proved.  `PROJECT.json` maps every definition to the
lines it was translated from.  Paths below are relative to `src/src/neng/log/`
unless they begin with `include/`.

Run TLC with `tlc -config <cfg> <module>`, the prover with `tlapm <module>.tla`.

## 1. The system

| Component | State | Operations | Correct when |
|---|---|---|---|
| Dispatch core (`log_core.c`) | `_enable_async`, `_async_running`, the queue `_log_async_list`, its mutex and condition variable | `NengLog`/`NengLogV`, `NengLogWrite`, `NengLogWriteAsync`, `_log_async_routine`, `NengLogEnableAsync`, `NengLogClear`, `NengLogClose` | every accepted message reaches every appender registered for it once, in the order of the queue; one worker; no wake-up lost; a shutdown does not pull anything from under a running thread |
| Item pool (`log_item.c`) | the free list and its counter | `NengLogAllocItem`, `NengLogFreeItem`, `NengLogClearItem` | a block is large enough, has one owner and is not lost; the pool is bounded |
| Appender registry (`log_appender.c` 11-143) | two lists under a read-write lock | add, remove, clear | an appender is on one list, once; nobody uses a released one |
| Filters (`log_filter.c`, `log_misc.c` bit arrays, `log_appender.c` 145-258) | three bit arrays per filter, a list of filters behind `appender->extend` | set, clear, add, hit | a message is accepted exactly when one of the filters accepts its module, tag and level; everything is freed |
| Levels (`log_core.c` 381-443) | one level word per module | set, clear, get, check | the module's level or else the global one decides |
| File appender (`log_file.c`) | descriptor, size, time of last write; the files on disk | open, write, rotate, close, release | messages stay in order across backups, only the oldest or expired are lost, files are small or hold one day, output goes to the file of the right name |
| Syslog appender (`log_syslog.c`) | facility filters, `is_opened`; the process's one connection | write, filters, release | no dangling ident; every message sent with its severity |
| Properties parser (`properties.c`) | an automaton of eight states, escapes, a tree | read a file | the properties are those the lines mean |
| Properties loaders (`log_properties*.c`, `log_file_properties.c`, `log_syslog_properties.c`) | none of their own, but the thread's `errno` | create levels, appenders and filters | what the file says is set up, each appender in full or not at all |
| Header formatter (`log_core.c` 21-216) | none | `NengLogWriteHeader` | never writes beyond its buffer, and measures what it writes |
| Names, hostname, program name (`log_misc.c`) | two cached strings with their lengths, a mutex | get, set | a message has the names of its time, cut to its arrays |
| System wrappers (`sysfunc.c`) | none | clock, thread id, time zone | - |

How they interact.  An application thread calls `NengLog`; the level is looked
up, a block is taken from the pool and filled with the cached names, the file,
the function and the text, and `NengLogWrite` walks the
synchronous appenders under the read lock of the registry.  With asynchronous
mode off, or for a message marked synchronous, it walks the others too;
otherwise the block goes into the queue, a worker is started unless one runs,
and the condition variable is broadcast.  The worker takes blocks, walks the
asynchronous appenders under the read lock and frees the blocks.  Each walk asks the
appender's filters and calls its `writer_fn` under the mutex of its list item.
`NengLogAddAppender`, `NengLogRemoveAppender` and `NengLogClear` take the lock
for writing; the last two call `release_fn`.  `NengLogClose` walks both lists
under the read lock.  A `writer_fn` asks `NengLogWriteHeader` for the text before
the message.  A load reads a file into a tree and calls the public interface:
levels first, then appender by appender its numbers, flags and filters, then
`NengLogAddAppender`.

What is hard about it.

* `_async_running` is tested and set under the mutex by callers and stored to
  without it by a worker that ends and by `NengLogClear`, and workers are
  detached: an old worker may outlive a shutdown and store 0 when a new one has
  been started.
* The mode is read once, in the middle of a call, and may change at any time.
* The broadcast comes after the mutex is given up.
* `NengLogClear` polls the queue ten times and goes on whatever it finds.
* A rotation is a series of renames that a crash or a failure can cut short.
* Size, day and descriptor of a log file are copies in memory of what others
  (logrotate, a restart) change.
* The connection to syslog belongs to the process and not to an appender.
* A line of a properties file leaves state that the next one is read with.
* A loader asks `errno` after `strtol` and nobody sets it to 0.
* A header is cut at the end of a buffer that may end inside any of nine fields.
* Two cached names are read without the mutex under which they are changed.

`hazards` in `PROJECT.json` lists them at their lines with the properties that
would show them going wrong, or the reason why none does.

## 2. The modules

| Module | Models | Uses |
|---|---|---|
| `LogItem` | item pool, with a specification of its own | |
| `LogRegistry` | appender lists and their lock; operations only | |
| `LogCore` | callers, queue, workers, shutdown, `NengLogClose` | `LogItem`, `LogRegistry` |
| `LogQueue` | abstract: a fair first-in first-out service | implemented by `LogCore` |
| `LogHeader` | the header of a message: written into a buffer, and measured | |
| `LogMessage` | a message in the making: block, names, texts, header | `LogItem`, `LogHeader` |
| `LogFile` | file appender and the file system under it | |
| `LogFilter` | bit arrays, filters, the filter list of an appender | |
| `LogRoute` | abstract: filters as sets | implemented by `LogFilter` |
| `LogLevel` | levels | |
| `LogLoader` | loading a file: levels, appenders, flags, filters | `LogLevel`, `LogRoute` |
| `LogLoaderProofs` | theorems about levels and loading | `LogLoader` |
| `PropertiesParser` | the parser as a function of state and character | |
| `PropertiesFile` | a file written by one who knows what it means, and the parser reading it | `PropertiesParser` |
| `PropertiesFileProofs` | theorems about the parser | `PropertiesFile` |
| `LogSyslog` | syslog appenders and the connection they share | |
| `MC...` | instances for TLC | |
| `LogMessageProofs` | theorems about the pool, messages and their headers | `LogMessage` |
| `LogCoreProofs`, `LogWorkerProofs` | theorems about the core: blocks, appender lists and messages; workers and queue | `LogCore`, the second on the first |
| `LogFileProofs`, `LogFilterProofs`, `LogSyslogProofs` | theorems about the appenders and filters | their models |

**LogCore.**  A thread is a program counter, the block it holds and the part of
the appender list it has still to walk.  A step is one critical section, or one
access to `_enable_async` or `_async_running`, which the code reads and writes
without a lock; a store to such an int is taken as one step, as it is on every
machine the library is built for.  `LogV` is `_NengLogV` up to the call of
`NengLogWrite`; `CallerRdLock`, `WriteOne`, `WriteDirect`, `WriteLater` and
`WriteDone` are the walks; `Enqueue` is the critical section of
`NengLogWriteAsync` and `Broadcast` what follows it; `WorkerTop`, `WorkerTake`,
`WorkerWait`, `WorkerRdLock` and `WorkerStop` are `_log_async_routine`;
`ClearBegin`, `ClearAsk`, `ClearPoll`, `ClearStop`, `ClearItems` and `ClearAppenders` are
`NengLogClear`; `CloseBegin`, `CloseOne` and `CloseDone` are `NengLogClose`, called
by the threads in `Closers`.  Writers of the registry keep nothing between calls and exclude
everybody, so each of them is one step that waits until there is no reader.
Readers are preferred, the default of glibc.  A waiter may wake without a
broadcast, and `pthread_create` may fail.  `owed`, `written`, `enqueued` and
`stops` record history and influence nothing.

**LogItem.**  A block is its capacity and the length of the message it was
handed out for.  The free list is a set: its blocks are alike, so their order
cannot be seen.  The counter is a C int; decremented at the smallest value it may hold
anything (`Decremented`), as the overflow is undefined and the build has no `-fwrapv`.

**LogHeader.**  A field of the header is its width and the header a chain of
`Put`: the length the code returns, the bytes it stores, and whether the buffer
is full.  `CalcHeader` is the branch without a buffer.  `CutToBuffer` and
`MeasuredRight` compare the two with the sum of the widths.

**LogMessage.**  The steps of a thread between `NengLogAllocItem` and
`NengLogFreeItem`: `TakeBlock`, `GetHostname`, `ReadProgLen`, `FillTexts`,
`ReleaseBlock`.  A text is its length, a path its length and the places of its
separators, which say what `basename` leaves.  The program name is read in two
steps without the mutex; while `NengLogSetProgName` copies, a reader finds any of
`TornLengths`, and `EndRename` ends the copy.  A freed block keeps its texts
(`OldText`), so that `HandedText`, the zeroing, matters.  It composes the pool,
the names and the header; `LogCore` has the rest of a message's life, which
does not look at its text.

**LogFile.**  The log file and its backups are names 0, 1, 2, ...; a rename
moves a file, an open descriptor follows its file, and a file without a name
is "away".  `NengLogFileWrite` is a chain of steps (`WriteOpen`, `WriteCheck`,
`Scan`, `RenameOne`, `Reopen`, `WriteLine`, `WriteStamp`) with a step for each
call that fails.  Between any two steps the process can crash (`Crash`), the
clock can move (`Tick`) and the log file can be taken away (`Logrotate`).
A size is a number of messages.  The options of the appender are chosen in the
initial state; an appender that is created anew after a crash or a release has
the same ones.

**LogFilter.**  A byte of a bit array is a set of bit numbers, and numbers
passed in may be out of range.  `LogRoute` has sets in their place.

**LogLevel.**  The word of a module holds the level and the bit 0x1000 that
tells it from none; `chosen` is what the application set.

**LogLoader.**  A file is a record of what its keys say, a number is a value
with a unit, `Wrap` the cut to an int and `ErrnoAfter` what `strtol` leaves.
`at` is the place in `NengLogLoadProperties`: `LoadFile`, `LoadLevel`, `CopyList`,
`NextAppender`, `ReadNumbers`, `ReadFacilityFilter`, `ReadFlags`, `ReadFilter`,
`AddAppender`, `Loaded`, `Return`; `draft` is the appender that is not registered
yet.  Any allocation of a load may fail and sets `errno`.  Between the steps
other threads set levels (`LevelCall`), and between loads the thread makes other
calls that leave `errno` as they like (`OtherCall`).  A file may be loaded more
than once: levels are set anew and appenders registered once more.

**PropertiesParser, PropertiesFile.**  `Step` is the automaton of
`_properties_parser_write` on one character; the classes of characters are those
the code tells apart.  The writer in `PropertiesFile` puts down elements - a
letter, an escape, a blank, a wrap, a comment, an end of line - and notes what
they mean; its notes are the reference the parser is held against.  `Feed` gives the parser a character, and an element is one
or two of them.  `EndOfFile`, `ReadFails` and `Clear` are the rest of
`_neng_log_properties_read_file` and the release of the tree.  The writer
puts a backslash before a letter, before another backslash and, in a value, at the end of
a line.  It does not produce what no document gives a meaning: a backslash before a blank,
before `=` or before `#` (behind which a comment ends with the escape still pending), one
that ends a name, which hands its escape to the next line (`properties.c:183`), and one that
is the last character of the file.

**LogSyslog.**  `tag` is the pointer that `openlog` keeps, as the appender
whose memory it points into.

## 3. What is checked

Every run ends within three minutes on two cores.

| Run | Properties | What it shows |
|---|---|---|
| `message` | `MessageTypeOK`, `PoolUniform`, `MessageAsCalled`, `HeaderCut`, `HeaderMeasured`, `HeaderRoom` | two threads fill three blocks while the program is renamed and the pool is cleared: only blocks of the default size are pooled; no text fills its array to the last byte; a message has the texts of its own call; its header, under every set of flags, stays in buffers of five sizes, is measured right and fits the buffer of the appenders |
| `item_bound` (violation) | `PoolBounded` | the limit on the pool is not kept, see below (lengths around the default size, four blocks) |
| `item_room` (violation) | `MessageFits` | a long message has no room for its terminator, see below |
| `core_clear` | `TypeOK`, `OneOwner`, `NoLeak`, `WorkerBound`, `NoLostWakeup`, `NoUseAfterRelease`, `NoLoss` | two threads log one message each, short or long, to an asynchronous appender, with mode changes, `NengLogClear` and `NengLogClose` at any moment, workers that outlive it, and failing `pthread_create` |
| `core_live` | `QueueOrder`, `ListedOnce`, `AtMostOnce`, `EventuallyWritten`, `ImplementsQueue` | two threads log one message each while the mode changes, an asynchronous and a synchronous appender come and go and one thread closes them: the queue keeps its order, nothing is registered or written twice; under fairness every accepted message is written, and the queue with its worker implements `LogQueue`, its fairness included |
| `file` | `TypeOK`, `Chronological`, `OldestLost`, `SizeBound`, `OneDay`, `WritesLogFile`, `OnlyExpiredLost` | rotation by size, by day and with `max_days`, cut short anywhere |
| `filter_calls` | `TypeOK`, `DecidesAsRoute`, `ImplementsRoute` | all sequences of filter calls; numbers at both ends of a byte, beyond the array and negative; levels with facility and flags |
| `loader` | `LoaderTypeOK`, `ChecksThreshold`, `RoutesAsWritten`, `SettingsAsWritten`, `SyslogStaysSync`, `LoadsAllListed` | two loads of three kinds of files, one failing allocation, `errno` in any state, other threads setting levels: as long as `errno` was 0 each appender has the filters, sizes and list the file gives it, and none is left out |
| `loader_errno` (violation) | `OnlyMatching` | an old `errno` makes a loader drop filters, see below |
| `properties` | `TypeOK`, `ReadsAsWritten` | all files of up to seven elements, with reads and opens that fail |
| `syslog` | `TypeOK`, `NoDanglingIdent`, `SentWithSeverity` | two appenders with up to two facility filters each sharing the connection, in any order of calls |
| `syslog_filter` (violation) | `FiltersCleared` | clearing filters does the opposite, see below |

Why the bounds are enough.  *Core:* two callers and two or three workers are
the smallest numbers with a race between callers, between a caller and a
worker, and between an old worker, a new one and the one after; one message
from each caller is the smallest pair whose order can go wrong, and theorem
`MessagesKeepOrder` covers any number of messages of one caller; two blocks are both in
use at once, and a freed one comes back.  One `NengLogClear` with two
polls (ten in the code) has the poll that ends because the queue is empty and
the one that gives up; `NengLogClear` that stops no worker may be called any
number of times.  *File:* two messages fill a file and two backups are kept,
so that eight messages take every number, give up the oldest more than once and
leave a gap after a crash; one failing call is followed by calls that go well.
*Message:* a limit of one block and a counter of two bits make the
pool full and take the counter below its smallest value within three calls; lengths one below, at and above the default size; paths and names
that fit, that are too long, with the cut behind a separator, and none; buffers
that end in the first field, in the middle, and that of the appenders; widths
and array sizes are those of the code.  *Loader:* an int of eight bits and
1024 replaced by 4, so that one size fits and the next overflows; filters
numbered from 0 and from 1, numbers out of range, names that are
none, an appender listed twice; two loads make the second meet what the first
left.  *Filters:* two bytes have an end inside the array, two filters an order.
*Syslog:* two appenders take the connection from each other; two filters of three kinds make
none, one or both of them hit.  *Properties:* seven elements hold a whole line and the beginning of the next in
every state the first can leave.  Callers, workers and blocks are symmetric in
some runs that check invariants only; the run with liveness uses no symmetry.

Fairness (`FairSpec`).  Weak fairness of every thread that is inside a call or
inside the worker routine: the operating system runs threads that can run, and
a step that waits for the mutex waits for a critical section that is one step here.
Nobody is obliged to log, shut down, change the mode, register an appender or
wake without reason.  A call that waits for the write lock is not fair: with
readers preferred it can wait for ever, and nothing is claimed about it.
Liveness is stated without shutdown, since what `NengLogClear` drops after ten
polls is nowhere promised, and with `pthread_create` that succeeds: after a
failure the message waits for the next call of `NengLog`, which may never come.

Deadlock is disabled where the system may stop: all messages logged and the
worker asleep, messages or elements used up, a crash.

### Where the code and its documents differ

* `item_bound`: `NengLogFreeItem` does not count the block it puts on the free
  list (`log_item.c:66`) while `NengLogAllocItem` counts it off (`log_item.c:27`).  The
  limit of 100 blocks is never reached.
* `item_room`: a message of 200 characters (the content of a default block) or more gets
  `size + NENG_LOG_ITEM_FIXSIZE` bytes (`log_item.c:40`), which leaves `size` bytes for its
  content, and `vsprintf` (`log_core.c:487`) stores `size` characters and the terminator: one
  byte is written behind the block.  The test for shorter ones (`log_item.c:18`) keeps that
  byte, so they have it in any block, which is a theorem (`ShortMessagesFit`).
* `loader_errno`: `_string2ints` (`log_properties_misc.c:27`) drops a number when `errno` is not
  0 after `strtol`, which does not reset it.  After any failed call in the thread
  - for a file appender looking for the time zone is one - a filter of modules or tags reads as
  empty and is not added, and the appender takes every message, against
  `neng-log.properties:45`.
* `syslog_filter`: the loop at `log_syslog.c:58` runs while the list is empty.
  Filters stay, and an empty list is dereferenced, in every release of a syslog appender
  without facility filters too.

The models show more of the kind, without a run of their own:

* `_AppenderClearExtend` frees the filters `if (extend == NULL)`
  (`log_appender.c:169`), so it never does: the filters of a released appender are lost.
* `NengLogWriteHeader` returns the length it has written, where `log.h:345`
  promises 0 or -1; both appenders use the length.
* Descriptor 0 passes for none (`log_file.c:81`), so with standard input closed
  `NengLogClose` does not reopen the file, and after a rotation the messages go on to the file
  that is now a backup; `WritesLogFile`, `SizeBound` and `OneDay` except it.
* A rotation with `max_days` gives up the first expired backup and leaves those
  behind it for ever (`log_file.c:147`), so older lines can outlive younger ones;
  `include/neng/log/log_file.h:18` calls it the greatest number of days kept.
* A second syslog appender replaces the ident of the first (`log_syslog.c:88`).
* `disable_async` in a file has no effect: the getter stores only over a value
  that is not 0 and is given 0 (`properties.c:428`).
* The test that would skip a CR before a LF asks one character to be both
  (`properties.c:107`), so a CR ends a line and the LF behind it an empty one: a value wrapped
  before CR LF ends there, and its next line is read as a line of its own.
* A size such as 2g overflows an int and turns the rotation off (`properties.c:402`).
* A second load registers every appender of its file once more.
* A file whose tree cannot be allocated stays open (`properties.c:321`), and one
  whose reading fails loses what was read (`properties.c:349`).

## 4. What is proved

For every set of callers, workers, appenders, blocks, messages and texts, and every
value of the bounds:

| Module | Theorem | Says |
|---|---|---|
| `LogMessageProofs` | `ItemTypeCorrect`, `ItemPoolUniform` | `ItemTypeOK`, `PoolUniform` for the pool alone |
| | `ShortMessagesFit` | only blocks of messages as long as the default block or longer are written past their end |
| | `MessagesUseThePool` | `MessageSpec => ItemSpec`: a step of a message is a step of the pool or leaves it alone |
| | `MessagesKeepThePool` | `PoolUniform` while messages are made |
| | `MessageTypeCorrect`, `TextsAreOfTheCall` | `MessageTypeOK`, `MessageAsCalled` |
| | `HeadersEndInTheBuffer`, `HeadersAreMeasured`, `HeadersLeaveRoom` | `HeaderCut`, `HeaderMeasured`, `HeaderRoom` |
| `LogCoreProofs` | `CoreTypeCorrect`, `BlocksHaveOneOwner`, `NoBlockLeaks` | `TypeOK`, `OneOwner`, `NoLeak` |
| | `ReleasedAppendersRest`, `AppendersListedOnce` | `NoUseAfterRelease`, `ListedOnce` |
| | `MessagesWrittenOnce`, `NoMessageLost` | `AtMostOnce`, `NoLoss` |
| `LogWorkerProofs` | `WorkersBounded`, `NoWakeupLost`, `MessagesKeepOrder` | `WorkerBound`, `NoLostWakeup`, `QueueOrder` |
| | `AsyncModeIsAQueue` | `LogCore` without shutdown implements the safety part of `LogQueue` |
| `LogFilterProofs` | `FilterTypeCorrect`, `FiltersAreSets`, `FiltersDecide` | `TypeOK`, `LogFilter` implements `LogRoute`, `DecidesAsRoute` |
| `LogSyslogProofs` | `SyslogTypeCorrect`, `IdentOutlivesNobody`, `SeverityAlwaysKept` | `TypeOK`, `NoDanglingIdent`, `SentWithSeverity` |
| `LogFileProofs` | `FileTypeCorrect`, `LogFileWritten` | `TypeOK`, `WritesLogFile` |
| | `BackupsKeepOrder`, `OldestGoFirst`, `ExpiredGoFirst` | `Chronological`, `OldestLost`, `OnlyExpiredLost` |
| | `FilesStaySmall`, `FilesHoldOneDay` | `SizeBound`, `OneDay` |
| `PropertiesFileProofs` | `PropertiesTypeCorrect`, `FilesReadAsWritten` | `TypeOK`, `ReadsAsWritten` |
| `LogLoaderProofs` | `LevelsHoldBack`, `LoaderTypeCorrect`, `SyslogIsNeverAsync` | `ChecksThreshold`, `LoaderTypeOK`, `SyslogStaysSync` |
| | `RoutesReadAsWritten`, `SettingsReadAsWritten`, `AllListedAreLoaded` | `RoutesAsWritten`, `SettingsAsWritten`, `LoadsAllListed` |

Assumptions, each in the module that declares the constants: sizes are positive
and the pool's limit is an int (`ItemAssumption`); callers are not workers, and there
are finitely many workers, nothing else being finite (`CoreAssumption`); texts are
paths and lengths, numbers have at most 11 characters (`MessageAssumption`); the
options of a file appender are counts, a day has a length (`FileAssumption`); a properties
file has finitely many filters with numbers from 0, and numbers where numbers belong
(`LoaderAssumption`); no level is the value for none (`LevelAssumption`); numbers
given to filters and syslog are those of their C types, and the values that stand for
"no appender" and "no list" are none (`SyslogAssumption`, `FilterAssumption`,
`NoExtendAssumption`).

*The core's invariant* is `CoreInv`: `TypeOK`, `OneOwner`, `NoLeak`,
`HoldersHaveItems` and `Filled`.  `OneOwner` is not inductive alone: that
`Enqueue` puts in a block nobody else has needs that the thread at this place holds
one (`HoldersHaveItems`), that a fresh block is in no other place needs that
everything in a place is allocated (`NoLeak`), and the type of `enqueued` needs
that a block outside the pool has a message in it (`Filled`).  One lemma per
action proves that it keeps all five; actions that move a thread without
touching blocks share frame lemmas, and `PutDown` is what `Free` and `Enqueue`
have in common: a thread lets go of its block.

*The registry.*  `RegistryInv` is `ListedOnce`, `NoUseAfterRelease` and that no
listed appender is released.  A walk begins with a copy of a list, which the
last conjunct makes free of released ones; release waits until `readers` is
empty, and every walking thread is a reader.

*Once and never lost.*  `MessageInv` says where a message may already have been
written: the lists hold only appenders of their kind (`Sorted`), a message is in one
block (`OneBlock`) and has a number that no later call gets (`Numbered`), and no
appender that a thread has still to reach has written the message the thread holds
(`Fresh`); what is queued no asynchronous appender has written.  Without `Sorted` an appender
could be on both walks of one message, without `Numbered` a new message might have been written
before.  `LossInv` adds that what is `owed` was a hit, so that the walk writes it and does not pass
over.

*The workers.*  `WorkerBound` is inductive given `TypeOK`.  A step that starts a worker
sets the flag when it was clear; a store of 0 by a worker takes that worker
away; a store of 0 by `NengLogClear` is counted by `stops`.  `NoLostWakeup` needs
`FlagHasWorker`: while the flag is set some worker has not left its loop, else a
message could join the queue with nobody to be woken.

*The order.*  `QueueInv` says that the queue is the end of `enqueued` (`Backlog`), that
until a shutdown the message in service is the last one taken (`LastTaken`), which needs
`WorkerBound` with `stops = 0` for there to be one worker, and that what an appender
has written is in the order of joining (`Ordered`).  For the refinement, `Cut` splits
`enqueued` into what has been served and what is pending; `QueueSplit` says how,
`QueueStep` that `Enqueue` is `Accept`, the end of the worker's walk `Serve`, and
everything else a stutter.  `stops = 0` is the condition under which the model promises the order,
so it is an hypothesis of the refinement.

*Messages.*  `MakingInv`: a thread inside a call has a block in use that no
other thread has (`OwnBlocks`), whose texts are those `HandedText` left until they are filled in
(`Zeroed`), and while no other name is being copied the length that was read is that
of the name (`NameRead`).  The header needs no history: `Written` says of the state after some
fields that either all is in the buffer and there is room, or the buffer is full to
the last byte; `PutWritten` that one more field keeps this; the nine fields are nine
uses of it.  The bounds on the widths, and with them `HeaderRoom`, come from the sizes of the arrays
of an item.

*Filters* need no invariant beyond types: `MembersSet` says what a bit array means after
one bit is set, in or out of range, and each call is mapped to the call on sets.

*Syslog.*  `NoDanglingIdent` is not inductive: a release by an appender that has not opened
the connection leaves the pointer as it is.  `IdentOpened` - the pointer is to one that has -
makes the release that frees the ident also the one that closes.

*The file appender* has five invariants, each on top of the ones before.  `TypeInv`
bounds what is on disk by the number of messages, and says where the descriptor may point.
`OrderInv`: nothing on disk is newer than the message in progress, and no file
below the one that is written exists, so that a new line may be the newest there is.  `LostInv`:
the target of the next rename is free, or may be destroyed (`TargetFree`), and no
backup is beyond `max_loop`.  `SizeInv`: after a rotation there is no log file left, `fileSize` is
the size of the file behind the descriptor (`SizeKnown`), and it was compared before
the write (`SizeChecked`).  `DayInv`: the time of the last write tells the day of
the last line, for a file on disk (`StampOfDay`) and for the open one (`OpenOfDay`).
A crash anywhere and a file that is taken away are steps like the others.

*Levels and the loader.*  `LevelInv` says that the word of a module is 0 or the marked level
last chosen; `MarkReadBack` that the mark tells the two apart.  `LoaderInv` adds what a draft holds
at each place of the load, provided `errno` is 0 (`DraftRead`): the filters below the number
`n` it has come to, and past the end of a well numbered list, which has no gaps (`NumbersInARow`),
all of them; the settings once the numbers are read.  Since no step of a load sets `errno` back
to 0, `errno` 0 at the end means that nothing was dropped.  `IntsAsWritten` and
`DefIntAsWritten` say that what fits an int is read as written, for every width.  `ListInv` relates
registered appenders to the list: those of this load stand behind all others, and an increasing
map takes them onto what can be loaded below `idx`.

*The parser.*  `ReadsAsWritten` says nothing of a line that is not finished, so it is not
inductive.  `FileInv` adds `Follows`: between two elements the parser has the name, the value
and the blanks of the line as far as it is written, in the state that `StatusAt` gives for the place,
and no backslash is pending; and `LineShape`: a line at its start is empty, blanks are
counted behind a name only.  An element is one or two characters, so one lemma for each
kind of element (`NameElement`, `WrapElement`, `CommentElement`, ...) says what they do to a
parser in such a state, and one for each action that the line goes the same way.  The end of a line
puts into the tree what `LineMeans` puts among the meant ones.  No induction over the file is needed, as the
run of the specification is one: files of any length, with names and values of any length.

Proving them showed what the instances TLC checks had not:

* with descriptor 0 (section 3) the messages after a rotation still go to the file that has become
  a backup, so `SizeBound` and `OneDay` hold only where 0 is not handed out;
* with `max_days` a younger expired backup is given up while older ones with higher numbers
  stay, so `OldestLost` is about `max_loop`, and `OnlyExpiredLost` is what `max_days` promises;
* a facility filter without a facility ends the list, whatever else it has
  (`log_syslog_properties.c:124-131`), and only the syslog loader reads such filters, so
  `RoutesAsWritten` speaks of syslog appenders whose facility filters all name one.

Checked by TLC only: `EventuallyWritten` and the fairness in `ImplementsQueue`, which as
liveness are beyond the prover's reach.  Every other property of a passing run is a
theorem.  `PoolBounded`, `MessageFits`, `OnlyMatching` and `FiltersCleared` do not hold.

## 5. What is not modelled

* The characters of messages and headers: `vsnprintf` followed by `vsprintf` on
  the same `va_list` (`log_core.c:452`, `487`) is undefined behaviour whose
  effect is text.  The calendar text of a header is taken to have 24 characters.
* A `writer_fn` that logs or registers appenders: it would wait for locks its
  thread holds.  The appenders of the library do neither.
* Filters that change while other threads log: the examples and the loader set them before
  they register the appender, and `LogFilter` models that use.  Nothing promises more, and a walk
  that meets a change is a data race.
* Two appenders or processes with one path; `stat` failing for reasons other
  than a missing file; lines cut in pieces by a failing write; standard output,
  terminals and pipes, which are never rotated.
* Allocations that fail inside the parser, which leave a property out or end
  the program; names that differ in case only.
* With descriptor 0, an `fstat` that fails right after `open` (`log_file.c:59-64`): the
  descriptor would stay, without a size.
* The wrappers of system calls, the vendored lists and trees (sequences and
  sets here), the examples.  The repository has no tests.

## 6. Plan

Done: pool, registry and core, since every message passes them; the file
appender, which has the crashes; filters, levels, parser and syslog; then the
message with its names and header, the loaders on top of levels and filters, and
`NengLogClose` among the walks of the core.  Theorems: the safety of the core with its queue,
of messages, files, filters, syslog, levels, loading and parsing.  What could follow:

1. two file appenders, or two processes, that rotate the same files (`log_file.c:98`), once it is
   said what they may expect of each other;
2. a load from a file's characters, `PropertiesFile` in place of the records `LogLoader` reads.
