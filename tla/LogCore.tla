------------------------------- MODULE LogCore -------------------------------
(***************************************************************************)
(* The dispatch core of neng-log, src/src/neng/log/log_core.c: threads that *)
(* log, the queue and the worker threads of asynchronous mode, and the     *)
(* shutdown by NengLogClear.                                               *)
(*                                                                         *)
(* A caller formats a message into a block (LogItem), offers it to the     *)
(* synchronous appenders and then either to the asynchronous appenders     *)
(* itself or to the queue.  A worker takes blocks from the queue.  The     *)
(* appender lists and their lock are LogRegistry.                          *)
(*                                                                         *)
(* A step is a critical section, or one access to a variable that the code *)
(* reads or writes without a lock (_enable_async, _async_running).         *)
(***************************************************************************)
EXTENDS Integers, FiniteSets, Sequences, SequencesExt

CONSTANTS
  Callers,        \* application threads
  Workers,        \* identities for threads made by pthread_create
  Appenders, DisableAsync,
  Hits,           \* <<a, m>>: message m passes the filters of appender a
  Items, Lengths, DefSize, PoolSize, IntMax,
  NoItem,         \* a thread that holds no block
  NoMessage,      \* a block that holds no message
  MaxCalls,       \* bound: messages that one caller logs
  MaxStops,       \* bound: no NengLogClear starts to stop workers beyond it
  MaxPolls,       \* looks at the queue in _log_async_clear, 10 in the code
  CreateMayFail,  \* whether pthread_create can fail
  Closers         \* the callers that call NengLogClose

Threads == Callers \union Workers
Message == Callers \X (1 .. MaxCalls)

VARIABLES
  itemList, itemListSize, capacity, length,
  syncList, asyncList, readers, released,
  enableAsync,  \* _enable_async
  running,      \* _async_running
  queue,        \* _log_async_list
  content,      \* the message in each block
  isSync,       \* flags.u_bits.is_sync of each block
  pc,           \* where each thread is
  item,         \* the block each thread works on
  todo,         \* appenders of the list being walked that are still to come
  polls,        \* the loop counter n of _log_async_clear
  calls,        \* messages logged by each caller
  stops,        \* history: stores to _async_running made by NengLogClear
  owed,         \* history: messages that were offered while an appender was listed
  written,      \* history: calls of writer_fn for each appender
  enqueued      \* history: messages in the order they joined the queue

Pool == INSTANCE LogItem
Registry == INSTANCE LogRegistry

ASSUME CoreAssumption ==
  /\ DisableAsync \subseteq Appenders
  /\ Callers \intersect Workers = {}
  /\ IsFiniteSet(Workers)
  /\ Pool!ItemAssumption
  /\ Hits \subseteq Appenders \X Message
  /\ NoItem \notin Items
  /\ NoMessage \notin Message
  /\ MaxCalls \in Nat /\ MaxStops \in Nat /\ MaxPolls \in Nat \ {0}
  /\ CreateMayFail \in BOOLEAN
  /\ Closers \subseteq Callers

poolVars == <<itemList, itemListSize, capacity, length>>
registryVars == <<syncList, asyncList, readers, released>>
asyncVars == <<enableAsync, running, queue, stops>>
threadVars == <<pc, item, todo, polls, calls>>
messageVars == <<content, isSync>>
historyVars == <<owed, written, enqueued>>
vars == <<poolVars, registryVars, asyncVars, threadVars, messageVars, historyVars>>

CallerPC == {"idle", "rdlock", "syncWrite", "asyncWrite", "enqueue", "bcast",
             "free", "asked", "poll", "stop", "clearItem", "clearAppender", "closing"}
WorkerPC == {"none", "top", "take", "waiting", "rdlock", "asyncWrite", "free", "stopping"}

Init ==
  /\ Pool!ItemInit
  /\ Registry!RegistryInit
  /\ enableAsync = FALSE
  /\ running = FALSE
  /\ queue = <<>>
  /\ content = [i \in Items |-> NoMessage]
  /\ isSync = [i \in Items |-> FALSE]
  /\ pc = [t \in Threads |-> IF t \in Callers THEN "idle" ELSE "none"]
  /\ item = [t \in Threads |-> NoItem]
  /\ todo = [t \in Threads |-> <<>>]
  /\ polls = [c \in Callers |-> 0]
  /\ calls = [c \in Callers |-> 0]
  /\ stops = 0
  /\ owed = [a \in Appenders |-> {}]
  /\ written = [a \in Appenders |-> <<>>]
  /\ enqueued = <<>>

Goto(t, from, to) == pc[t] = from /\ pc' = [pc EXCEPT ![t] = to]

-----------------------------------------------------------------------------
(* NengLog and NengLogV.  A message below the log level, an empty one and   *)
(* one that no block can be had for return before any state changes.        *)

LogV(c, n, sync, i) ==
  /\ Goto(c, "idle", "rdlock")
  /\ calls[c] < MaxCalls
  /\ Pool!AllocItem(i, n)
  /\ item' = [item EXCEPT ![c] = i]
  /\ calls' = [calls EXCEPT ![c] = @ + 1]
  /\ content' = [content EXCEPT ![i] = <<c, calls[c] + 1>>]
  /\ isSync' = [isSync EXCEPT ![i] = sync]
  /\ UNCHANGED <<registryVars, asyncVars, todo, polls, historyVars>>

\* NengLogWrite takes the read lock and starts on the synchronous list.
CallerRdLock(c) ==
  /\ Goto(c, "rdlock", "syncWrite")
  /\ Registry!ReadLock(c)
  /\ todo' = [todo EXCEPT ![c] = syncList]
  /\ owed' = [a \in Appenders |->
                IF a \in Registry!Listed /\ <<a, content[item[c]]>> \in Hits
                  THEN owed[a] \union {content[item[c]]} ELSE owed[a]]
  /\ UNCHANGED <<poolVars, asyncVars, item, polls, calls, messageVars, written, enqueued>>

\* One appender of NengLogAppenderListWrite, under the mutex of its list item.
WriteOne(t) ==
  /\ pc[t] \in {"syncWrite", "asyncWrite"}
  /\ todo[t] # <<>>
  /\ todo' = [todo EXCEPT ![t] = Tail(@)]
  /\ LET a == Head(todo[t])
         m == content[item[t]]
     IN  written' = IF <<a, m>> \in Hits THEN [written EXCEPT ![a] = Append(@, m)] ELSE written
  /\ UNCHANGED <<poolVars, registryVars, asyncVars, pc, item, polls, calls,
                 messageVars, owed, enqueued>>

\* NengLogWrite writes to the asynchronous appenders itself.
Direct(i) == ~enableAsync \/ isSync[i]

\* Mutant: the synchronous list is walked a second time.
MutWriteDirect(c) ==
  /\ Goto(c, "syncWrite", "asyncWrite")
  /\ todo[c] = <<>>
  /\ Direct(item[c])
  /\ todo' = [todo EXCEPT ![c] = syncList]
  /\ UNCHANGED <<poolVars, registryVars, asyncVars, item, polls, calls, messageVars, historyVars>>

WriteDirect(c) ==
  /\ Goto(c, "syncWrite", "asyncWrite")
  /\ todo[c] = <<>>
  /\ Direct(item[c])
  /\ todo' = [todo EXCEPT ![c] = asyncList]
  /\ UNCHANGED <<poolVars, registryVars, asyncVars, item, polls, calls, messageVars, historyVars>>

\* Mutant: the test looks at the wrong list.
MutNobodyWaits == syncList = <<>>

NobodyWaits == asyncList = <<>>

\* ... or leaves them to a worker, if there is any of them.
WriteLater(c) ==
  /\ Goto(c, "syncWrite", IF NobodyWaits THEN "free" ELSE "enqueue")
  /\ todo[c] = <<>>
  /\ ~Direct(item[c])
  /\ Registry!ReadUnlock(c)
  /\ UNCHANGED <<poolVars, asyncVars, item, todo, polls, calls, messageVars, historyVars>>

\* The end of the walk over the asynchronous list, in a caller or a worker.
WriteDone(t) ==
  /\ Goto(t, "asyncWrite", "free")
  /\ todo[t] = <<>>
  /\ Registry!ReadUnlock(t)
  /\ UNCHANGED <<poolVars, asyncVars, item, todo, polls, calls, messageVars, historyVars>>

\* What follows NengLogFreeItem.
AfterFree(t) == IF t \in Callers THEN "idle" ELSE "top"

Free(t) ==
  /\ Goto(t, "free", AfterFree(t))
  /\ Pool!FreeItem(item[t])
  /\ item' = [item EXCEPT ![t] = NoItem]
  /\ content' = [content EXCEPT ![item[t]] = NoMessage]
  /\ isSync' = [isSync EXCEPT ![item[t]] = FALSE]
  /\ UNCHANGED <<registryVars, asyncVars, todo, polls, calls, historyVars>>

-----------------------------------------------------------------------------
(* NengLogWriteAsync: one critical section of _async_mtx, then the          *)
(* broadcast.  The block belongs to the queue from here on.                 *)

StartWorker(c, w) == pc' = [pc EXCEPT ![c] = "bcast", ![w] = "top"]
NoNewWorker(c) == pc' = [pc EXCEPT ![c] = "bcast"]

\* Mutant: a worker is started for every message.
MutEnsureWorker(c) ==
  running' = TRUE /\ \E w \in Workers : pc[w] = "none" /\ StartWorker(c, w)

\* Mutant: the flag is set and no worker is started.
MutNoWorker(c) == NoNewWorker(c) /\ running' = TRUE

\* A worker is started when none is meant to run; a failure to start it takes
\* the flag back and leaves the message in the queue.
EnsureWorker(c) ==
  \/ running /\ NoNewWorker(c) /\ UNCHANGED running
  \/ ~running /\ running' = TRUE /\ \E w \in Workers : pc[w] = "none" /\ StartWorker(c, w)
  \/ ~running /\ CreateMayFail /\ NoNewWorker(c) /\ UNCHANGED running

\* Mutant: TAILQ_INSERT_HEAD.
MutInserted(q, i) == <<i>> \o q

Inserted(q, i) == Append(q, i)

Enqueue(c) ==
  /\ pc[c] = "enqueue"
  /\ queue' = Inserted(queue, item[c])
  /\ enqueued' = Append(enqueued, content[item[c]])
  /\ item' = [item EXCEPT ![c] = NoItem]
  /\ EnsureWorker(c)
  /\ UNCHANGED <<poolVars, registryVars, enableAsync, stops, todo, polls, calls,
                 messageVars, owed, written>>

\* Mutant: nobody is woken.
MutAwakened(t) == FALSE

Awakened(t) == t \in Workers /\ pc[t] = "waiting"

Broadcast(c) ==
  /\ pc[c] = "bcast"
  /\ pc' = [t \in Threads |-> IF t = c THEN "idle" ELSE IF Awakened(t) THEN "top" ELSE pc[t]]
  /\ UNCHANGED <<poolVars, registryVars, asyncVars, item, todo, polls, calls,
                 messageVars, historyVars>>

-----------------------------------------------------------------------------
(* _log_async_routine. *)

\* The loop condition is read without the mutex.
WorkerTop(w) ==
  /\ Goto(w, "top", IF running THEN "take" ELSE "stopping")
  /\ UNCHANGED <<poolVars, registryVars, asyncVars, item, todo, polls, calls,
                 messageVars, historyVars>>

\* Mutant: the block stays in the queue.
MutWorkerTake(w) ==
  /\ queue # <<>>
  /\ Goto(w, "take", "rdlock")
  /\ item' = [item EXCEPT ![w] = Head(queue)]
  /\ UNCHANGED <<poolVars, registryVars, asyncVars, todo, polls, calls,
                 messageVars, historyVars>>

WorkerTake(w) ==
  /\ queue # <<>>
  /\ Goto(w, "take", "rdlock")
  /\ item' = [item EXCEPT ![w] = Head(queue)]
  /\ queue' = Tail(queue)
  /\ UNCHANGED <<poolVars, registryVars, enableAsync, running, stops, todo, polls, calls,
                 messageVars, historyVars>>

\* pthread_cond_wait: gives the mutex up and sleeps in one step.
WorkerWait(w) ==
  /\ queue = <<>>
  /\ Goto(w, "take", "waiting")
  /\ UNCHANGED <<poolVars, registryVars, asyncVars, item, todo, polls, calls,
                 messageVars, historyVars>>

\* A condition variable may wake its waiters without a broadcast.
SpuriousWake(w) ==
  /\ Goto(w, "waiting", "top")
  /\ UNCHANGED <<poolVars, registryVars, asyncVars, item, todo, polls, calls,
                 messageVars, historyVars>>

WorkerRdLock(w) ==
  /\ w \in Workers
  /\ Goto(w, "rdlock", "asyncWrite")
  /\ Registry!ReadLock(w)
  /\ todo' = [todo EXCEPT ![w] = asyncList]
  /\ UNCHANGED <<poolVars, asyncVars, item, polls, calls, messageVars, historyVars>>

\* The last store of the thread, whatever has been started meanwhile.
WorkerStop(w) ==
  /\ Goto(w, "stopping", "none")
  /\ running' = FALSE
  /\ UNCHANGED <<poolVars, registryVars, enableAsync, queue, stops, item, todo, polls, calls,
                 messageVars, historyVars>>

-----------------------------------------------------------------------------
(* NengLogClear. *)

ClearBegin(c) ==
  /\ stops < MaxStops
  /\ Goto(c, "idle", IF enableAsync THEN "asked" ELSE "clearItem")
  /\ UNCHANGED <<poolVars, registryVars, asyncVars, item, todo, polls, calls, messageVars, historyVars>>

ClearAsk(c) ==
  /\ Goto(c, "asked", IF running THEN "poll" ELSE "clearItem")
  /\ polls' = [polls EXCEPT ![c] = 0]
  /\ UNCHANGED <<poolVars, registryVars, asyncVars, item, todo, calls, messageVars, historyVars>>

\* Mutant: a loop without its limit.
MutPollsOver(c) == queue = <<>>

PollsOver(c) == queue = <<>> \/ polls[c] + 1 = MaxPolls

ClearPoll(c) ==
  /\ Goto(c, "poll", IF PollsOver(c) THEN "stop" ELSE "poll")
  /\ polls' = [polls EXCEPT ![c] = @ + 1]
  /\ UNCHANGED <<poolVars, registryVars, asyncVars, item, todo, calls, messageVars, historyVars>>

\* The workers are told by the flag alone: no signal, no join.
ClearStop(c) ==
  /\ Goto(c, "stop", "clearItem")
  /\ running' = FALSE
  /\ stops' = stops + 1
  /\ UNCHANGED <<poolVars, registryVars, enableAsync, queue, item, todo, polls, calls,
                 messageVars, historyVars>>

ClearItems(c) ==
  /\ Goto(c, "clearItem", "clearAppender")
  /\ Pool!ClearItem
  /\ UNCHANGED <<registryVars, asyncVars, item, todo, polls, calls, messageVars, historyVars>>

ClearAppenders(c) ==
  /\ Goto(c, "clearAppender", "idle")
  /\ Registry!ClearAppender
  /\ UNCHANGED <<poolVars, asyncVars, item, todo, polls, calls, messageVars, historyVars>>

-----------------------------------------------------------------------------
(* NengLogClose: both lists are walked under one read lock.  What close_fn does *)
(* to a file appender is FileClose of LogFile.                                  *)

CloseBegin(c) ==
  /\ c \in Closers
  /\ Goto(c, "idle", "closing")
  /\ Registry!ReadLock(c)
  /\ todo' = [todo EXCEPT ![c] = asyncList \o syncList]
  /\ UNCHANGED <<poolVars, asyncVars, item, polls, calls, messageVars, historyVars>>

CloseOne(c) ==
  /\ pc[c] = "closing"
  /\ todo[c] # <<>>
  /\ todo' = [todo EXCEPT ![c] = Tail(@)]
  /\ UNCHANGED <<poolVars, registryVars, asyncVars, pc, item, polls, calls,
                 messageVars, historyVars>>

CloseDone(c) ==
  /\ Goto(c, "closing", "idle")
  /\ todo[c] = <<>>
  /\ Registry!ReadUnlock(c)
  /\ UNCHANGED <<poolVars, asyncVars, item, todo, polls, calls, messageVars, historyVars>>

-----------------------------------------------------------------------------
(* Calls that are one step, from any thread of the application. *)

EnableAsync(b) ==
  /\ enableAsync' = b
  /\ UNCHANGED <<poolVars, registryVars, running, queue, stops, threadVars,
                 messageVars, historyVars>>

AddAppender(a) ==
  /\ Registry!AddAppender(a)
  /\ UNCHANGED <<poolVars, asyncVars, threadVars, messageVars, historyVars>>

RemoveAppender(a) ==
  /\ Registry!RemoveAppender(a)
  /\ UNCHANGED <<poolVars, asyncVars, threadVars, messageVars, historyVars>>

-----------------------------------------------------------------------------
\* A call that has begun.
CallerStep(c) ==
  \/ CallerRdLock(c) \/ WriteOne(c) \/ WriteDirect(c) \/ WriteLater(c) \/ WriteDone(c)
  \/ Free(c) \/ Enqueue(c) \/ Broadcast(c)
  \/ ClearAsk(c) \/ ClearPoll(c) \/ ClearStop(c) \/ ClearItems(c) \/ ClearAppenders(c)
  \/ CloseOne(c) \/ CloseDone(c)

WorkerStep(w) ==
  \/ WorkerTop(w) \/ WorkerTake(w) \/ WorkerWait(w) \/ WorkerRdLock(w)
  \/ WriteOne(w) \/ WriteDone(w) \/ Free(w) \/ WorkerStop(w)

Environment ==
  \/ \E c \in Callers, n \in Lengths, sync \in BOOLEAN, i \in Items : LogV(c, n, sync, i)
  \/ \E c \in Callers : ClearBegin(c) \/ CloseBegin(c)
  \/ \E w \in Workers : SpuriousWake(w)
  \/ \E b \in BOOLEAN : EnableAsync(b)
  \/ \E a \in Appenders : AddAppender(a) \/ RemoveAppender(a)

Next ==
  \/ \E c \in Callers : CallerStep(c)
  \/ \E w \in Workers : WorkerStep(w)
  \/ Environment

Spec == Init /\ [][Next]_vars

\* The scheduler runs every thread that can move.  Nobody is obliged to log,
\* to clear, to change the mode, to register an appender or to wake a waiter.
FairSpec ==
  /\ Spec
  /\ \A c \in Callers : WF_vars(CallerStep(c))
  /\ \A w \in Workers : WF_vars(WorkerStep(w))
-----------------------------------------------------------------------------
RegistryTypeOK ==
  /\ syncList \in Seq(Appenders) /\ asyncList \in Seq(Appenders)
  /\ readers \subseteq Threads /\ released \subseteq Appenders

AsyncTypeOK ==
  /\ enableAsync \in BOOLEAN /\ running \in BOOLEAN
  /\ queue \in Seq(Items)
  /\ stops \in Nat

PcTypeOK ==
  /\ pc \in [Threads -> CallerPC \union WorkerPC]
  /\ \A c \in Callers : pc[c] \in CallerPC
  /\ \A w \in Workers : pc[w] \in WorkerPC

ThreadTypeOK ==
  /\ item \in [Threads -> Items \union {NoItem}]
  /\ todo \in [Threads -> Seq(Appenders)]
  /\ polls \in [Callers -> 0 .. MaxPolls]
  /\ \A c \in Callers : pc[c] = "poll" => polls[c] < MaxPolls
  /\ calls \in [Callers -> 0 .. MaxCalls]

MessageTypeOK ==
  /\ content \in [Items -> Message \union {NoMessage}]
  /\ isSync \in [Items -> BOOLEAN]

HistoryTypeOK ==
  /\ owed \in [Appenders -> SUBSET Message]
  /\ written \in [Appenders -> Seq(Message)]
  /\ enqueued \in Seq(Message)

TypeOK ==
  /\ Pool!ItemTypeOK
  /\ RegistryTypeOK
  /\ AsyncTypeOK
  /\ PcTypeOK
  /\ ThreadTypeOK
  /\ MessageTypeOK
  /\ HistoryTypeOK

\* The places where a thread is in charge of a block, and of the read lock.
Holding == {"rdlock", "syncWrite", "asyncWrite", "enqueue", "free"}
Reading == {"syncWrite", "asyncWrite", "closing"}

Held == {item[t] : t \in {u \in Threads : pc[u] \in Holding}}
LiveWorkers == {w \in Workers : pc[w] # "none"}

\* What a thread holds: a block while it is in charge of one, otherwise nothing.
HoldersHaveItems ==
  \A t \in Threads : IF pc[t] \in Holding THEN item[t] \in Items ELSE item[t] = NoItem

\* A block outside the pool carries a message.
Filled == \A i \in Pool!HandedOut : content[i] # NoMessage

(* Every block has exactly one owner: the free list, the queue or one thread. *)
(* No caller touches a block it has put in the queue (log_core.c:345-346), no *)
(* block is in the queue twice, and none is freed twice or while in use.      *)
OneOwner ==
  /\ IsInjective(queue)
  /\ ToSet(queue) \intersect (itemList \union Held) = {}
  /\ itemList \intersect Held = {}
  /\ \A t, u \in Threads :
       pc[t] \in Holding /\ pc[u] \in Holding /\ item[t] = item[u] => t = u

(* Every allocated block has an owner: whatever a thread or NengLogClear does, *)
(* no block is lost to the program.                                            *)
NoLeak == Pool!Live = itemList \union ToSet(queue) \union Held

(* No more workers than NengLogClear has cancelled, and one: the flag tested  *)
(* and set in NengLogWriteAsync (log_core.c:310-312) keeps one worker at a    *)
(* time until a shutdown, although the test and the worker's last store       *)
(* (log_core.c:282) are not in one critical section.                          *)
WorkerBound == Cardinality(LiveWorkers) <= stops + (IF running THEN 1 ELSE 0)

(* While the flag says that a worker runs, a queue with a message in it has a *)
(* worker that is awake or a caller about to wake one, although the broadcast *)
(* comes after the mutex is released (log_core.c:319-320).                    *)
NoLostWakeup ==
  running /\ queue # <<>> =>
    \/ \E w \in Workers : pc[w] \notin {"none", "waiting", "stopping"}
    \/ (\E c \in Callers : pc[c] = "bcast") /\ (\E w \in Workers : pc[w] = "waiting")

(* A thread that walks an appender list has appenders on its list that are    *)
(* still registered, so it never calls writer_fn or close_fn of a released    *)
(* one: Remove and Clear wait for the walks (log_appender.c:68, 113).         *)
NoUseAfterRelease ==
  \A t \in Threads : pc[t] \in Reading =>
    /\ t \in readers
    /\ ToSet(todo[t]) \intersect released = {}

(* An appender is on one list at most, and once: NengLogAddAppender looks at  *)
(* both lists (log_appender.c:21-39) and no message is written twice by it.   *)
ListedOnce ==
  /\ IsInjective(syncList) /\ IsInjective(asyncList)
  /\ ToSet(syncList) \intersect ToSet(asyncList) = {}

(* No appender writes one message twice, in any change of mode between the    *)
(* two halves of NengLogWrite (log_core.c:329-339).                           *)
AtMostOnce == \A a \in Appenders : IsInjective(written[a])

(* The way of a message to an appender that it has not reached yet. *)
OnItsWay(a, t) ==
  \/ pc[t] = "syncWrite" /\ a \in ToSet(todo[t]) \union ToSet(asyncList)
  \/ pc[t] = "asyncWrite" /\ a \in ToSet(todo[t])
  \/ pc[t] = "enqueue" /\ a \in ToSet(asyncList)
  \/ t \in Workers /\ pc[t] = "rdlock" /\ a \in ToSet(asyncList)

InFlight(a, m) ==
  \/ \E i \in ToSet(queue) : content[i] = m /\ a \in ToSet(asyncList)
  \/ \E t \in Threads : item[t] # NoItem /\ content[item[t]] = m /\ OnItsWay(a, t)

(* A message that an appender was registered for when it was logged has been  *)
(* written by it, is on its way to it, or the appender has been removed.      *)
(* Changing the mode, adding and removing other appenders, a worker that      *)
(* could not be started or a shutdown never make it vanish.                   *)
NoLoss ==
  \A a \in Appenders : \A m \in owed[a] :
    m \in ToSet(written[a]) \/ InFlight(a, m) \/ a \in released

Position(s, x) == CHOOSE k \in DOMAIN s : s[k] = x

(* Until a shutdown the messages that went through the queue reach every      *)
(* asynchronous appender in the order in which they joined it: one worker,    *)
(* and no worker overtaken by a caller.                                       *)
QueueOrder ==
  stops = 0 =>
    \A a \in Appenders \ DisableAsync : \A j, k \in DOMAIN written[a] :
      j < k /\ {written[a][j], written[a][k]} \subseteq ToSet(enqueued)
        => Position(enqueued, written[a][j]) < Position(enqueued, written[a][k])

(* An asynchronous message is written in the end, by every appender it was    *)
(* offered to that stays registered.                                          *)
EventuallyWritten ==
  \A a \in Appenders : \A m \in Message :
    m \in owed[a] ~> m \in ToSet(written[a]) \/ a \in released
-----------------------------------------------------------------------------
(* Without a shutdown the queue and its worker implement LogQueue: a message  *)
(* is pending from the moment it joins the queue until the worker has offered *)
(* it to the last appender.                                                   *)

Serving == {w \in Workers : pc[w] \in {"rdlock", "asyncWrite"}}

InService == IF Serving = {} THEN <<>> ELSE <<content[item[CHOOSE w \in Serving : TRUE]]>>

Pending == InService \o [k \in DOMAIN queue |-> content[queue[k]]]

Served == SubSeq(enqueued, 1, Len(enqueued) - Len(Pending))

Abstract == INSTANCE LogQueue WITH pending <- Pending, served <- Served

(* Every message that joins the queue is served, once, in the order of joining. *)
ImplementsQueue == Abstract!QueueSpec
=============================================================================
