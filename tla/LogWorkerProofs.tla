--------------------------- MODULE LogWorkerProofs ---------------------------
(***************************************************************************)
(* Theorems about the worker threads of LogCore, on top of its type and     *)
(* ownership invariant.                                                     *)
(***************************************************************************)
EXTENDS LogCoreProofs

USE DEF poolVars, registryVars, asyncVars, threadVars, messageVars, historyVars

(* A step that starts and ends no worker and leaves the flag alone. *)
Steady ==
  /\ \A w \in Workers : pc'[w] = "none" <=> pc[w] = "none"
  /\ UNCHANGED <<running, stops>>

(* The worker threads can be counted. *)
LEMMA LiveWorkersFinite == IsFiniteSet(LiveWorkers) /\ Cardinality(LiveWorkers) \in Nat
BY CoreAssumption, FS_Subset, FS_CardinalityType DEF LiveWorkers

(* A step that starts and ends no worker keeps the bound. *)
LEMMA SteadyBound == ASSUME WorkerBound, Steady PROVE WorkerBound'
<1>1. LiveWorkers' = LiveWorkers
  BY DEF Steady, LiveWorkers
<1> QED BY <1>1 DEF Steady, WorkerBound

(* A thread that neither starts nor ends leaves the set of workers alone. *)
LEMMA GotoSteady ==
  ASSUME PcTypeOK, NEW t \in Threads, NEW from, NEW to, Goto(t, from, to),
         t \in Workers => from # "none" /\ to # "none",
         UNCHANGED <<running, stops>>
  PROVE  Steady
BY DEF PcTypeOK, Goto, Threads, Steady

(* A worker is started only when the flag is clear, and the flag is set then (log_core.c:310-312). *)
LEMMA EnqueueBound ==
  ASSUME CoreInv, WorkerBound, NEW c \in Callers, Enqueue(c)
  PROVE  WorkerBound'
<1> USE DEF Enqueue
<1>1. c \notin Workers
  BY CoreAssumption
<1>2. CASE NoNewWorker(c) /\ UNCHANGED running
  <2>1. Steady
    BY <1>1, <1>2 DEF NoNewWorker, Steady, CoreInv, TypeOK, PcTypeOK
  <2> QED BY <2>1, SteadyBound
<1>3. ASSUME ~running, running', NEW w \in Workers, pc[w] = "none", StartWorker(c, w)
      PROVE  WorkerBound'
  <2>1. w \notin LiveWorkers /\ LiveWorkers' = LiveWorkers \union {w}
    BY <1>1, <1>3 DEF StartWorker, LiveWorkers, CoreInv, TypeOK, PcTypeOK, Threads
  <2>2. Cardinality(LiveWorkers') = Cardinality(LiveWorkers) + 1
    BY <2>1, LiveWorkersFinite, FS_AddElement
  <2>3. stops' = stops /\ stops \in Nat
    BY DEF CoreInv, TypeOK, AsyncTypeOK
  <2>4. Cardinality(LiveWorkers) <= stops
    BY <1>3, <2>3 DEF WorkerBound
  <2> QED BY <1>3, <2>2, <2>3, <2>4, LiveWorkersFinite DEF WorkerBound
<1> QED BY <1>2, <1>3 DEF EnsureWorker

(* A worker that ends pays for clearing the flag (log_core.c:282). *)
LEMMA WorkerStopBound ==
  ASSUME CoreInv, WorkerBound, NEW w \in Workers, WorkerStop(w)
  PROVE  WorkerBound'
<1> USE DEF WorkerStop
<1>1. w \in LiveWorkers /\ LiveWorkers' = LiveWorkers \ {w}
  BY DEF Goto, LiveWorkers, CoreInv, TypeOK, PcTypeOK, Threads
<1>2. Cardinality(LiveWorkers') = Cardinality(LiveWorkers) - 1
  BY <1>1, LiveWorkersFinite, FS_RemoveElement
<1>3. stops' = stops /\ stops \in Nat /\ ~running'
  BY DEF CoreInv, TypeOK, AsyncTypeOK
<1>4. Cardinality(LiveWorkers) <= stops + 1
  BY <1>3, LiveWorkersFinite DEF WorkerBound
<1> QED BY <1>2, <1>3, <1>4, LiveWorkersFinite DEF WorkerBound

(* A shutdown that clears the flag (log_core.c:303) is counted. *)
LEMMA ClearStopBound ==
  ASSUME CoreInv, WorkerBound, NEW c \in Callers, ClearStop(c)
  PROVE  WorkerBound'
<1> USE DEF ClearStop
<1>1. LiveWorkers' = LiveWorkers
  BY CoreAssumption DEF Goto, LiveWorkers, CoreInv, TypeOK, PcTypeOK, Threads
<1>2. stops' = stops + 1 /\ stops \in Nat /\ ~running'
  BY DEF CoreInv, TypeOK, AsyncTypeOK
<1>3. Cardinality(LiveWorkers) <= stops + 1
  BY <1>2, LiveWorkersFinite DEF WorkerBound
<1> QED BY <1>1, <1>2, <1>3, LiveWorkersFinite DEF WorkerBound

(* Every step of a caller keeps the bound. *)
LEMMA CallerStepBound ==
  ASSUME CoreInv, WorkerBound, NEW c \in Callers, CallerStep(c)
  PROVE  WorkerBound'
<1>1. c \in Threads /\ c \notin Workers /\ PcTypeOK
  BY CoreAssumption DEF Threads, CoreInv, TypeOK
<1>2. CASE CallerRdLock(c) \/ WriteDirect(c) \/ WriteLater(c) \/ WriteDone(c) \/ Free(c)
  <2>1. Steady
    BY <1>1, <1>2, GotoSteady DEF CallerRdLock, WriteDirect, WriteLater, WriteDone, Free
  <2> QED BY <2>1, SteadyBound
<1>3. CASE WriteOne(c)
  <2>1. Steady
    BY <1>3 DEF WriteOne, Steady
  <2> QED BY <2>1, SteadyBound
<1>4. CASE Broadcast(c)
  <2>1. Steady
    BY <1>1, <1>4 DEF Broadcast, Steady, Threads, Awakened
  <2> QED BY <2>1, SteadyBound
<1>5. CASE ClearAsk(c) \/ ClearPoll(c) \/ ClearItems(c) \/ ClearAppenders(c)
  <2>1. Steady
    BY <1>1, <1>5, GotoSteady DEF ClearAsk, ClearPoll, ClearItems, ClearAppenders
  <2> QED BY <2>1, SteadyBound
<1>6. CASE CloseOne(c)
  <2>1. Steady
    BY <1>6 DEF CloseOne, Steady
  <2> QED BY <2>1, SteadyBound
<1>7. CASE CloseDone(c)
  <2>1. Steady
    BY <1>1, <1>7, GotoSteady DEF CloseDone
  <2> QED BY <2>1, SteadyBound
<1> QED BY <1>2, <1>3, <1>4, <1>5, <1>6, <1>7, EnqueueBound, ClearStopBound DEF CallerStep

(* Every step of a worker keeps the bound. *)
LEMMA WorkerStepBound ==
  ASSUME CoreInv, WorkerBound, NEW w \in Workers, WorkerStep(w)
  PROVE  WorkerBound'
<1>1. w \in Threads /\ w \notin Callers /\ PcTypeOK
  BY CoreAssumption DEF Threads, CoreInv, TypeOK
<1>2. CASE WorkerTop(w)
  <2>1. (IF running THEN "take" ELSE "stopping") # "none"
    OBVIOUS
  <2>2. Steady
    BY <1>1, <1>2, <2>1, GotoSteady DEF WorkerTop
  <2> QED BY <2>2, SteadyBound
<1>3. CASE WorkerTake(w) \/ WorkerWait(w) \/ WorkerRdLock(w) \/ WriteDone(w)
  <2>1. Steady
    BY <1>1, <1>3, GotoSteady DEF WorkerTake, WorkerWait, WorkerRdLock, WriteDone
  <2> QED BY <2>1, SteadyBound
<1>4. CASE Free(w)
  <2>1. Goto(w, "free", "top") /\ UNCHANGED <<running, stops>>
    BY <1>1, <1>4 DEF Free, AfterFree
  <2>2. Steady
    BY <1>1, <2>1, GotoSteady
  <2> QED BY <2>2, SteadyBound
<1>5. CASE WriteOne(w)
  <2>1. Steady
    BY <1>5 DEF WriteOne, Steady
  <2> QED BY <2>1, SteadyBound
<1> QED BY <1>2, <1>3, <1>4, <1>5, WorkerStopBound DEF WorkerStep

(* Every other step keeps the bound. *)
LEMMA EnvironmentBound ==
  ASSUME CoreInv, WorkerBound, Environment
  PROVE  WorkerBound'
<1>1. ASSUME NEW c \in Callers, NEW n \in Lengths, NEW sync \in BOOLEAN, NEW i \in Items, LogV(c, n, sync, i)
      PROVE  Steady
  BY <1>1, GotoSteady, CoreAssumption DEF LogV, Threads, CoreInv, TypeOK
<1>2. ASSUME NEW c \in Callers, ClearBegin(c) \/ CloseBegin(c) PROVE Steady
  BY <1>2, GotoSteady, CoreAssumption DEF ClearBegin, CloseBegin, Threads, CoreInv, TypeOK
<1>3. ASSUME NEW w \in Workers, SpuriousWake(w) PROVE Steady
  BY <1>3, GotoSteady DEF SpuriousWake, Threads, CoreInv, TypeOK
<1>4. ASSUME NEW b \in BOOLEAN, EnableAsync(b) PROVE Steady
  BY <1>4 DEF EnableAsync, Steady
<1>5. ASSUME NEW a \in Appenders, AddAppender(a) \/ RemoveAppender(a) PROVE Steady
  BY <1>5 DEF AddAppender, RemoveAppender, Steady
<1> QED BY <1>1, <1>2, <1>3, <1>4, <1>5, SteadyBound DEF Environment

(* However many threads log and shut the logger down, and however the races on *)
(* _async_running end: there are never more workers than NengLogClear has      *)
(* cancelled, plus the one that the flag stands for.                           *)
THEOREM WorkersBounded == Spec => []WorkerBound
<1>1. Init => WorkerBound
  <2> SUFFICES ASSUME Init PROVE WorkerBound
    OBVIOUS
  <2>1. LiveWorkers = {}
    BY CoreAssumption DEF Init, LiveWorkers, Threads
  <2> QED BY <2>1, FS_EmptySet DEF Init, WorkerBound
<1>2. CoreInv /\ WorkerBound /\ [Next]_vars => WorkerBound'
  <2> SUFFICES ASSUME CoreInv, WorkerBound, [Next]_vars PROVE WorkerBound'
    OBVIOUS
  <2>1. CASE UNCHANGED vars
    BY <2>1, SteadyBound DEF vars, Steady
  <2> QED BY <2>1, CallerStepBound, WorkerStepBound, EnvironmentBound DEF Next
<1> QED BY <1>1, <1>2, CoreInvHolds, PTL DEF Spec
-----------------------------------------------------------------------------
Awake(w) == pc[w] \notin {"none", "waiting", "stopping"}

(* While the flag is set there is a worker that has not left its loop.  Without *)
(* it a message could join the queue with nobody to be woken, so NoLostWakeup   *)
(* alone is not inductive.                                                      *)
FlagHasWorker == running => \E w \in Workers : pc[w] \notin {"none", "stopping"}

WakeInv == NoLostWakeup /\ FlagHasWorker

(* A step after which nobody sleeps or ends who did not before. *)
LEMMA WakeFrame ==
  ASSUME WakeInv, running' => running, queue' # <<>> => queue # <<>>,
         \A w \in Workers : Awake(w) => Awake(w)',
         \A w \in Workers : pc[w] = "waiting" => Awake(w)' \/ pc'[w] = "waiting",
         \A c \in Callers : pc[c] = "bcast" => pc'[c] = "bcast"
  PROVE  WakeInv'
<1>1. ASSUME running' PROVE \E w \in Workers : pc'[w] \notin {"none", "stopping"}
  BY <1>1 DEF WakeInv, FlagHasWorker, Awake
<1>2. ASSUME running', queue' # <<>>
      PROVE  \/ \E w \in Workers : Awake(w)'
             \/ (\E c \in Callers : pc'[c] = "bcast") /\ (\E w \in Workers : pc'[w] = "waiting")
  BY <1>2 DEF WakeInv, NoLostWakeup, Awake
<1> QED BY <1>1, <1>2 DEF WakeInv, NoLostWakeup, FlagHasWorker, Awake

(* A thread that moves on without ending, going to sleep or dropping a broadcast. *)
LEMMA GotoWake ==
  ASSUME PcTypeOK, WakeInv, NEW t \in Threads, NEW from, NEW to, Goto(t, from, to),
         from # "bcast", t \in Workers => to \notin {"none", "waiting", "stopping"},
         running' => running, queue' # <<>> => queue # <<>>
  PROVE  WakeInv'
<1>1. pc[t] = from /\ pc'[t] = to /\ \A u \in Threads \ {t} : pc'[u] = pc[u]
  BY DEF PcTypeOK, Goto
<1>2. Workers \subseteq Threads /\ Callers \subseteq Threads
  BY DEF Threads
<1> QED BY <1>1, <1>2, WakeFrame DEF Awake

(* With the flag cleared there is nothing to show. *)
LEMMA FlagClear == ~running' => WakeInv'
BY DEF WakeInv, NoLostWakeup, FlagHasWorker

(* NengLogWriteAsync: the message joins the queue while the flag stands for a   *)
(* worker, or one is started (log_core.c:308-320).                              *)
LEMMA EnqueueWake ==
  ASSUME CoreInv, WakeInv, NEW c \in Callers, Enqueue(c)
  PROVE  WakeInv'
<1> USE DEF Enqueue
<1>1. /\ c \notin Workers /\ c \in Threads /\ Workers \subseteq Threads
      /\ pc \in [Threads -> CallerPC \union WorkerPC]
  BY CoreAssumption DEF Threads, CoreInv, TypeOK, PcTypeOK
<1>2. CASE running /\ NoNewWorker(c) /\ UNCHANGED running
  <2>1. PICK w \in Workers : pc[w] \notin {"none", "stopping"}
    BY <1>2 DEF WakeInv, FlagHasWorker
  <2>2. pc'[c] = "bcast" /\ pc'[w] = pc[w]
    BY <1>1, <1>2 DEF NoNewWorker
  <2> QED BY <2>1, <2>2 DEF WakeInv, NoLostWakeup, FlagHasWorker
<1>3. ASSUME NEW w \in Workers, pc[w] = "none", StartWorker(c, w) PROVE WakeInv'
  <2>1. pc'[w] = "top"
    BY <1>1, <1>3 DEF StartWorker
  <2> QED BY <2>1 DEF WakeInv, NoLostWakeup, FlagHasWorker
<1> QED BY <1>2, <1>3, FlagClear DEF EnsureWorker

(* The broadcast (log_core.c:320) makes every sleeper look again. *)
LEMMA BroadcastWake ==
  ASSUME CoreInv, WakeInv, NEW c \in Callers, Broadcast(c)
  PROVE  WakeInv'
<1> USE DEF Broadcast, Awakened
<1>1. c \notin Workers /\ Workers \subseteq Threads
  BY CoreAssumption DEF Threads
<1>2. \A w \in Workers : pc'[w] = IF pc[w] = "waiting" THEN "top" ELSE pc[w]
  BY <1>1
<1>3. running' = running /\ queue' = queue
  OBVIOUS
<1> HIDE DEF Broadcast
<1>4. FlagHasWorker'
  BY <1>2, <1>3 DEF WakeInv, FlagHasWorker
<1>5. NoLostWakeup'
  <2> SUFFICES ASSUME running, queue # <<>>
               PROVE  \E w \in Workers : pc'[w] \notin {"none", "waiting", "stopping"}
    BY <1>3 DEF NoLostWakeup
  <2>1. PICK w \in Workers : pc[w] \notin {"none", "stopping"}
    BY DEF WakeInv, FlagHasWorker
  <2> QED BY <2>1, <1>2
<1> QED BY <1>4, <1>5 DEF WakeInv

(* A worker sleeps only over an empty queue (log_core.c:265-267). *)
LEMMA WorkerWaitWake ==
  ASSUME CoreInv, WakeInv, NEW w \in Workers, WorkerWait(w)
  PROVE  WakeInv'
<1>1. pc'[w] = "waiting" /\ queue' = <<>>
  BY DEF WorkerWait, Goto, CoreInv, TypeOK, PcTypeOK, Threads
<1> QED BY <1>1 DEF WakeInv, NoLostWakeup, FlagHasWorker

(* A worker that takes a block is awake. *)
LEMMA WorkerTakeWake ==
  ASSUME CoreInv, WakeInv, NEW w \in Workers, WorkerTake(w)
  PROVE  WakeInv'
<1>1. Goto(w, "take", "rdlock") /\ queue # <<>> /\ running' = running
  BY DEF WorkerTake
<1> QED BY <1>1, GotoWake DEF Threads, CoreInv, TypeOK

(* Every step of a caller keeps the invariant. *)
LEMMA CallerStepWake ==
  ASSUME CoreInv, WakeInv, NEW c \in Callers, CallerStep(c)
  PROVE  WakeInv'
<1>1. c \in Threads /\ c \notin Workers /\ PcTypeOK
  BY CoreAssumption DEF Threads, CoreInv, TypeOK
<1>2. CASE CallerRdLock(c) \/ WriteDirect(c) \/ WriteLater(c) \/ WriteDone(c) \/ Free(c)
  BY <1>1, <1>2, GotoWake DEF CallerRdLock, WriteDirect, WriteLater, WriteDone, Free
<1>3. CASE WriteOne(c) \/ CloseOne(c)
  BY <1>3, WakeFrame DEF WriteOne, CloseOne, Awake
<1>4. CASE ClearAsk(c) \/ ClearPoll(c) \/ ClearItems(c) \/ ClearAppenders(c) \/ CloseDone(c)
  BY <1>1, <1>4, GotoWake DEF ClearAsk, ClearPoll, ClearItems, ClearAppenders, CloseDone
<1>5. CASE ClearStop(c)
  BY <1>5, FlagClear DEF ClearStop
<1> QED BY <1>2, <1>3, <1>4, <1>5, EnqueueWake, BroadcastWake DEF CallerStep

(* Every step of a worker keeps the invariant. *)
LEMMA WorkerStepWake ==
  ASSUME CoreInv, WakeInv, NEW w \in Workers, WorkerStep(w)
  PROVE  WakeInv'
<1>1. w \in Threads /\ PcTypeOK
  BY DEF Threads, CoreInv, TypeOK
<1>2. CASE WorkerTop(w) /\ running
  BY <1>1, <1>2, GotoWake DEF WorkerTop
<1>3. CASE WorkerTop(w) /\ ~running
  BY <1>3, FlagClear DEF WorkerTop
<1>4. CASE WorkerRdLock(w) \/ WriteDone(w)
  BY <1>1, <1>4, GotoWake DEF WorkerRdLock, WriteDone
<1>5. CASE Free(w)
  <2>1. AfterFree(w) = "top"
    BY CoreAssumption DEF AfterFree
  <2> QED BY <1>1, <1>5, <2>1, GotoWake DEF Free
<1>6. CASE WriteOne(w)
  BY <1>6, WakeFrame DEF WriteOne, Awake
<1>7. CASE WorkerStop(w)
  BY <1>7, FlagClear DEF WorkerStop
<1> QED BY <1>2, <1>3, <1>4, <1>5, <1>6, <1>7, WorkerWaitWake, WorkerTakeWake DEF WorkerStep

(* Every other step keeps the invariant. *)
LEMMA EnvironmentWake ==
  ASSUME CoreInv, WakeInv, Environment
  PROVE  WakeInv'
<1>1. PcTypeOK /\ Callers \subseteq Threads /\ Workers \subseteq Threads /\ Callers \intersect Workers = {}
  BY CoreAssumption DEF CoreInv, TypeOK, Threads
<1>2. ASSUME NEW c \in Callers, NEW n \in Lengths, NEW sync \in BOOLEAN, NEW i \in Items, LogV(c, n, sync, i)
      PROVE  WakeInv'
  BY <1>1, <1>2, GotoWake DEF LogV
<1>3. ASSUME NEW c \in Callers, ClearBegin(c) \/ CloseBegin(c) PROVE WakeInv'
  BY <1>1, <1>3, GotoWake DEF ClearBegin, CloseBegin
<1>4. ASSUME NEW w \in Workers, SpuriousWake(w) PROVE WakeInv'
  BY <1>1, <1>4, GotoWake DEF SpuriousWake
<1>5. ASSUME NEW b \in BOOLEAN, EnableAsync(b) PROVE WakeInv'
  BY <1>5, WakeFrame DEF EnableAsync, Awake
<1>6. ASSUME NEW a \in Appenders, AddAppender(a) \/ RemoveAppender(a) PROVE WakeInv'
  BY <1>6, WakeFrame DEF AddAppender, RemoveAppender, Awake
<1> QED BY <1>2, <1>3, <1>4, <1>5, <1>6 DEF Environment

(* A message never waits in the queue with every worker asleep and no          *)
(* broadcast to come, for any number of callers, workers and shutdowns and     *)
(* with any failure to start a worker: the broadcast after the critical        *)
(* section (log_core.c:319-320) is late enough, and early enough.              *)
THEOREM NoWakeupLost == Spec => []NoLostWakeup
<1>1. Init => WakeInv
  BY DEF Init, WakeInv, NoLostWakeup, FlagHasWorker
<1>2. CoreInv /\ WakeInv /\ [Next]_vars => WakeInv'
  <2> SUFFICES ASSUME CoreInv, WakeInv, [Next]_vars PROVE WakeInv'
    OBVIOUS
  <2>1. CASE UNCHANGED vars
    BY <2>1, WakeFrame DEF vars, Awake
  <2> QED BY <2>1, CallerStepWake, WorkerStepWake, EnvironmentWake DEF Next
<1>3. WakeInv => NoLostWakeup
  BY DEF WakeInv
<1> QED BY <1>1, <1>2, <1>3, CoreInvHolds, PTL DEF Spec

-----------------------------------------------------------------------------
(* How many messages the workers have taken from the queue. *)
Taken == Len(enqueued) - Len(queue)

(* The queue is what is left of the messages that joined it, in their order. *)
Backlog ==
  /\ Len(queue) <= Len(enqueued)
  /\ \A k \in 1 .. Len(queue) : content[queue[k]] = enqueued[Taken + k]

Serves(w) == pc[w] \in {"rdlock", "asyncWrite"}

(* Until a shutdown the message in service is the last one taken. *)
LastTaken == stops = 0 => \A w \in Workers : Serves(w) => Taken > 0 /\ Msg(w) = enqueued[Taken]

(* QueueOrder in terms of places in enqueued. *)
Ordered ==
  stops = 0 =>
    \A a \in Asynchronous : \A j, k \in DOMAIN written[a], p, q \in DOMAIN enqueued :
      j < k /\ written[a][j] = enqueued[p] /\ written[a][k] = enqueued[q] => p < q

(* The inductive invariant behind QueueOrder. *)
QueueInv ==
  /\ \A m \in ToSet(enqueued) : Logged(m)
  /\ IsInjective(enqueued)
  /\ \A c \in Callers : pc[c] \in Holding => Msg(c) \notin ToSet(enqueued)
  /\ Backlog
  /\ LastTaken
  /\ Ordered

(* Until a shutdown there is one worker at most. *)
LEMMA OneWorker ==
  ASSUME CoreInv, WorkerBound, stops = 0, NEW v \in LiveWorkers, NEW w \in LiveWorkers
  PROVE  v = w
<1>1. Cardinality(LiveWorkers) <= 1
  BY LiveWorkersFinite DEF WorkerBound
<1>2. Cardinality(LiveWorkers) # 0
  BY LiveWorkersFinite, FS_EmptySet
<1>3. Cardinality(LiveWorkers) = 1
  BY <1>1, <1>2, LiveWorkersFinite
<1> QED BY <1>3, LiveWorkersFinite, FS_Singleton

(* The lengths and entries of the queue and of its history. *)
LEMMA QueueTypes ==
  ASSUME CoreInv
  PROVE  /\ queue \in Seq(Items) /\ Len(queue) \in Nat /\ DOMAIN queue = 1 .. Len(queue)
         /\ enqueued \in Seq(Message) /\ Len(enqueued) \in Nat /\ DOMAIN enqueued = 1 .. Len(enqueued)
         /\ stops \in Nat
         /\ \A a \in Appenders : written[a] \in Seq(Message) /\ Len(written[a]) \in Nat
                                 /\ DOMAIN written[a] = 1 .. Len(written[a])
BY LenProperties DEF CoreInv, TypeOK, AsyncTypeOK, HistoryTypeOK

(* A step that leaves the queue and its history alone, and that nobody begins a *)
(* message with or takes one in.                                                *)
LEMMA QueueFrame ==
  ASSUME QueueInv, UNCHANGED <<enqueued, queue, written, calls>>, stops' = 0 => stops = 0,
         \A i \in ToSet(queue) : content'[i] = content[i],
         \A c \in Callers : pc'[c] \in Holding => pc[c] \in Holding /\ Msg(c)' = Msg(c),
         \A w \in Workers : Serves(w)' => Serves(w) /\ Msg(w)' = Msg(w)
  PROVE  QueueInv'
<1>1. Taken' = Taken
  BY DEF Taken
<1>2. Backlog'
  BY <1>1, LenProperties DEF QueueInv, Backlog, ToSet
<1>3. LastTaken'
  BY <1>1 DEF QueueInv, LastTaken
<1>4. Ordered'
  BY DEF QueueInv, Ordered
<1> QED BY <1>2, <1>3, <1>4 DEF QueueInv, ToSet, IsInjective, Logged

(* A step of one thread that neither logs nor takes a message. *)
LEMMA GotoQueue ==
  ASSUME CoreInv, QueueInv, NEW t \in Threads, NEW from, NEW to, Goto(t, from, to),
         UNCHANGED <<content, item, enqueued, queue, written, calls>>, stops' = 0 => stops = 0,
         to \in Holding => from \in Holding,
         to \in {"rdlock", "asyncWrite"} /\ t \in Workers => from \in {"rdlock", "asyncWrite"}
  PROVE  QueueInv'
<1>1. pc[t] = from /\ pc'[t] = to /\ \A u \in Threads \ {t} : pc'[u] = pc[u]
  BY DEF CoreInv, TypeOK, PcTypeOK, Goto
<1>2. \A u : Msg(u)' = Msg(u)
  BY DEF Msg
<1>3. \A c \in Callers : pc'[c] \in Holding => pc[c] \in Holding
  BY <1>1 DEF Threads
<1>4. \A w \in Workers : Serves(w)' => Serves(w)
  BY <1>1 DEF Threads, Serves
<1> QED BY <1>2, <1>3, <1>4, QueueFrame

(* A new message has not joined the queue: its number is new (log_core.c:463-489). *)
LEMMA LogVQueue ==
  ASSUME CoreInv, QueueInv, NEW c \in Callers, NEW n \in Lengths, NEW sync \in BOOLEAN, NEW i \in Items,
         LogV(c, n, sync, i)
  PROVE  QueueInv'
<1> USE DEF LogV
<1>0. PICK new : new = <<c, calls[c] + 1>>
  OBVIOUS
<1>1. /\ c \in Threads /\ c \notin Workers /\ pc[c] = "idle" /\ item'[c] = i /\ content'[i] = new
      /\ \A t \in Threads \ {c} : pc'[t] = pc[t] /\ item'[t] = item[t]
      /\ \A j \in Items \ {i} : content'[j] = content[j]
      /\ calls[c] \in Nat /\ calls'[c] = calls[c] + 1
      /\ \A d \in Callers : calls[d] \in Nat /\ calls'[d] \in {calls[d], calls[d] + 1}
      /\ UNCHANGED <<queue, enqueued, written, stops>>
      /\ Pool!AllocItem(i, n)
  BY <1>0, CoreAssumption DEF Goto, CoreInv, TypeOK, PcTypeOK, ThreadTypeOK, MessageTypeOK, Threads
<1> HIDE DEF LogV
<1>2. ASSUME NEW m \in Message, Logged(m) PROVE Logged(m)' /\ m # new
  <2>1. m[1] \in Callers /\ m[2] \in Int
    BY DEF Message
  <2> QED BY <1>0, <1>1, <1>2, <2>1 DEF Logged
<1>3. \A m \in ToSet(enqueued) : Logged(m)' /\ m # new
  <2>1. \A m \in ToSet(enqueued) : m \in Message /\ Logged(m)
    BY QueueTypes, ElementOfSeq DEF ToSet, QueueInv
  <2> QED BY <1>2, <2>1
<1>4. ASSUME NEW t \in Threads \ {c}, pc[t] \in Holding PROVE Msg(t)' = Msg(t)
  <2>1. item[t] \in Items \ {i}
    BY <1>1, <1>4, BlocksInUse, AllocUnused
  <2> QED BY <1>1, <2>1 DEF Msg
<1>5. ASSUME NEW d \in Callers, pc'[d] \in Holding PROVE Msg(d)' \notin ToSet(enqueued')
  <2>1. CASE d = c
    BY <1>1, <1>3, <2>1 DEF Msg, ToSet
  <2>2. CASE d # c
    BY <1>1, <1>4, <1>5, <2>2 DEF QueueInv, Threads, ToSet
  <2> QED BY <2>1, <2>2
<1>6. Backlog'
  <2>1. \A j \in ToSet(queue) : content'[j] = content[j]
    BY <1>1, BlocksInUse, AllocUnused
  <2> QED BY <1>1, <2>1, QueueTypes DEF QueueInv, Backlog, Taken, ToSet
<1>7. LastTaken'
  <2>1. ASSUME NEW w \in Workers, Serves(w)' PROVE Serves(w) /\ Msg(w)' = Msg(w)
    BY <1>1, <1>4, <2>1 DEF Serves, Holding, Threads
  <2> QED BY <1>1, <2>1 DEF QueueInv, LastTaken, Taken
<1>8. Ordered' /\ IsInjective(enqueued')
  BY <1>1 DEF QueueInv, Ordered, IsInjective
<1> QED BY <1>1, <1>3, <1>5, <1>6, <1>7, <1>8 DEF QueueInv, ToSet

(* The message joins the end of the queue and of its history (log_core.c:308-309). *)
LEMMA EnqueueQueue ==
  ASSUME CoreInv, MessageInv, QueueInv, NEW c \in Callers, Enqueue(c)
  PROVE  QueueInv'
<1> USE DEF Enqueue, Inserted
<1>0. PICK m : m = Msg(c)
  OBVIOUS
<1>1. /\ c \in Threads /\ c \notin Workers /\ pc[c] = "enqueue" /\ item[c] \in Items
      /\ m = content[item[c]] /\ m \in Message /\ m \notin ToSet(enqueued) /\ Logged(m) /\ m # NoMessage
      /\ \A a \in Asynchronous : m \notin ToSet(written[a])
  <2>1. c \in Threads /\ c \notin Workers /\ pc[c] = "enqueue" /\ pc[c] \in Holding
    BY CoreAssumption DEF Threads, Holding
  <2>2. item[c] \in Items /\ m \in Message /\ m = content[item[c]]
    BY <1>0, <2>1, BlocksInUse DEF Msg
  <2> QED BY <1>0, <2>1, <2>2, CoreAssumption DEF QueueInv, MessageInv, Numbered, Fresh, Unwritten
<1>2. /\ queue' = Append(queue, item[c]) /\ enqueued' = Append(enqueued, m)
      /\ UNCHANGED <<content, calls, written, stops>>
      /\ \A t \in Threads \ {c} : item'[t] = item[t]
  BY <1>1 DEF CoreInv, TypeOK, ThreadTypeOK
<1>3. /\ ~Serves(c)'
      /\ \A t \in Threads : pc'[t] \in Holding => t # c /\ pc'[t] = pc[t]
  BY <1>1 DEF EnsureWorker, StartWorker, NoNewWorker, Holding, CoreInv, TypeOK, PcTypeOK, Serves
<1> HIDE DEF Enqueue, Inserted
<1>4. /\ Len(queue') = Len(queue) + 1 /\ \A k \in 1 .. Len(queue) : queue'[k] = queue[k]
      /\ queue'[Len(queue) + 1] = item[c]
      /\ Len(enqueued') = Len(enqueued) + 1 /\ \A k \in 1 .. Len(enqueued) : enqueued'[k] = enqueued[k]
      /\ enqueued'[Len(enqueued) + 1] = m
      /\ DOMAIN enqueued' = 1 .. Len(enqueued) + 1
  BY <1>1, <1>2, QueueTypes, AppendProperties
<1>5. ToSet(enqueued') = ToSet(enqueued) \union {m} /\ IsInjective(enqueued')
  BY <1>1, <1>2, QueueTypes, AppendDistinct DEF QueueInv
<1>6. Taken' = Taken /\ Len(queue) \in Nat /\ Len(enqueued) \in Nat
  BY <1>4, QueueTypes DEF Taken
<1>7. \A x \in ToSet(enqueued') : Logged(x)'
  BY <1>1, <1>2, <1>5 DEF QueueInv, Logged
<1>8. ASSUME NEW d \in Callers, pc'[d] \in Holding PROVE Msg(d)' \notin ToSet(enqueued')
  <2>1. d \in Threads /\ d # c /\ pc[d] \in Holding /\ Msg(d)' = Msg(d)
    BY <1>2, <1>3, <1>8 DEF Threads, Msg
  <2>2. item[d] \in Items /\ item[d] # item[c] /\ Msg(d) \notin ToSet(enqueued)
    BY <1>1, <2>1, BlocksInUse DEF Holding, QueueInv
  <2>3. Msg(d) # m
    BY <1>1, <2>2 DEF MessageInv, OneBlock, Msg
  <2> QED BY <1>5, <2>1, <2>2, <2>3
<1>9. Backlog'
  <2>1. Len(queue') <= Len(enqueued')
    BY <1>4, <1>6 DEF QueueInv, Backlog
  <2>2. ASSUME NEW k \in 1 .. Len(queue) + 1 PROVE content'[queue'[k]] = enqueued'[Taken + k]
    <3>1. CASE k = Len(queue) + 1
      BY <1>1, <1>2, <1>4, <1>6, <3>1 DEF Taken
    <3>2. CASE k # Len(queue) + 1
      <4>1. k \in 1 .. Len(queue) /\ Taken + k \in 1 .. Len(enqueued)
        BY <1>6, <3>2 DEF QueueInv, Backlog, Taken
      <4> QED BY <1>2, <1>4, <4>1 DEF QueueInv, Backlog
    <3> QED BY <3>1, <3>2
  <2> QED BY <1>4, <1>6, <2>1, <2>2 DEF Backlog
<1>10. LastTaken'
  <2> SUFFICES ASSUME stops = 0, NEW w \in Workers, Serves(w)' PROVE Taken > 0 /\ Msg(w)' = enqueued'[Taken]
    BY <1>2, <1>6 DEF LastTaken
  <2>1. Serves(w) /\ Msg(w)' = Msg(w)
    BY <1>2, <1>3 DEF Serves, Holding, Msg, Threads
  <2>2. Taken > 0 /\ Msg(w) = enqueued[Taken] /\ Taken \in 1 .. Len(enqueued)
    BY <1>6, <2>1 DEF QueueInv, LastTaken, Taken
  <2> QED BY <1>4, <2>1, <2>2
<1>11. Ordered'
  <2> SUFFICES ASSUME stops = 0, NEW a \in Asynchronous, NEW j \in DOMAIN written[a], NEW k \in DOMAIN written[a],
                      NEW p \in 1 .. Len(enqueued) + 1, NEW q \in 1 .. Len(enqueued) + 1,
                      j < k, written[a][j] = enqueued'[p], written[a][k] = enqueued'[q]
               PROVE  p < q
    BY <1>2, <1>4 DEF Ordered
  <2>1. written[a][j] # m /\ written[a][k] # m
    BY <1>1 DEF ToSet
  <2>2. p \in 1 .. Len(enqueued) /\ q \in 1 .. Len(enqueued)
    BY <1>4, <1>6, <2>1
  <2> QED BY <1>4, <2>2, QueueTypes DEF QueueInv, Ordered
<1> QED BY <1>5, <1>7, <1>8, <1>9, <1>10, <1>11 DEF QueueInv, ToSet

(* A worker takes the message that is next in the order of joining (log_core.c:259-264). *)
LEMMA WorkerTakeQueue ==
  ASSUME CoreInv, WorkerBound, QueueInv, NEW w \in Workers, WorkerTake(w)
  PROVE  QueueInv'
<1> USE DEF WorkerTake
<1>1. /\ w \in Threads /\ w \notin Callers /\ pc[w] = "take" /\ item'[w] = Head(queue)
      /\ \A t \in Threads \ {w} : pc'[t] = pc[t] /\ item'[t] = item[t]
      /\ queue # <<>> /\ queue' = Tail(queue)
      /\ UNCHANGED <<content, calls, written, enqueued, stops>>
  BY CoreAssumption DEF Goto, CoreInv, TypeOK, PcTypeOK, ThreadTypeOK, Threads
<1> HIDE DEF WorkerTake
<1>2. /\ Len(queue) \in Nat /\ Len(enqueued) \in Nat /\ Len(queue) >= 1 /\ Head(queue) = queue[1]
      /\ Len(queue') = Len(queue) - 1
      /\ \A k \in 1 .. Len(queue) - 1 : queue'[k] = queue[k + 1]
  BY <1>1, QueueTypes, HeadTailProperties, EmptySeq
<1>3. Taken' = Taken + 1 /\ Taken \in Nat
  BY <1>1, <1>2 DEF Taken, QueueInv, Backlog
<1>4. Backlog'
  <2>1. ASSUME NEW k \in 1 .. Len(queue) - 1 PROVE content'[queue'[k]] = enqueued'[Taken + 1 + k]
    <3>1. k + 1 \in 1 .. Len(queue) /\ Taken + (k + 1) = Taken + 1 + k
      BY <1>2, <1>3
    <3>2. content[queue[k + 1]] = enqueued[Taken + (k + 1)]
      BY <3>1 DEF QueueInv, Backlog
    <3> QED BY <1>1, <1>2, <3>1, <3>2
  <2>2. Len(queue) - 1 <= Len(enqueued)
    BY <1>2 DEF QueueInv, Backlog
  <2> QED BY <1>1, <1>2, <1>3, <2>1, <2>2 DEF Backlog
<1>5. LastTaken'
  <2> SUFFICES ASSUME stops = 0, NEW v \in Workers, Serves(v)' PROVE Msg(v)' = enqueued[Taken + 1]
    BY <1>1, <1>3 DEF LastTaken
  <2>1. v = w
    <3>1. w \in LiveWorkers
      BY <1>1 DEF LiveWorkers
    <3>2. v # w => v \in LiveWorkers
      BY <1>1 DEF Serves, LiveWorkers, Threads
    <3> QED BY <3>1, <3>2, OneWorker
  <2>2. content[queue[1]] = enqueued[Taken + 1]
    BY <1>2 DEF QueueInv, Backlog
  <2> QED BY <1>1, <1>2, <2>1, <2>2 DEF Msg
<1>6. ASSUME NEW c \in Callers, pc'[c] \in Holding PROVE Msg(c)' \notin ToSet(enqueued')
  BY <1>1, <1>6 DEF QueueInv, Msg, Threads
<1>7. Ordered' /\ IsInjective(enqueued') /\ \A m \in ToSet(enqueued') : Logged(m)'
  BY <1>1 DEF QueueInv, Ordered, IsInjective, Logged
<1> QED BY <1>4, <1>5, <1>6, <1>7 DEF QueueInv, ToSet

(* What a worker writes is later than all that the appender has written before it: *)
(* the message in service is the last one taken, and those taken later are in the   *)
(* queue, unwritten (log_core.c:275-277).                                           *)
LEMMA WriteOneQueue ==
  ASSUME CoreInv, MessageInv, QueueInv, NEW t \in Threads, WriteOne(t)
  PROVE  QueueInv'
<1>0. PICK b, m : b = Head(todo[t]) /\ m = Msg(t)
  OBVIOUS
<1>1. /\ pc[t] \in {"syncWrite", "asyncWrite"}
      /\ UNCHANGED <<content, calls, queue, enqueued, pc, item, stops>>
  BY DEF WriteOne
<1>2. /\ b \in Appenders /\ m \in Message /\ m \notin ToSet(written[b])
      /\ \A a \in Appenders : IF a = b /\ <<a, m>> \in Hits
                                THEN written'[a] = Append(written[a], m)
                                ELSE written'[a] = written[a]
  BY <1>0, HeadUnwritten, WriteOneHistory
<1>3. Backlog' /\ LastTaken'
  BY <1>1 DEF QueueInv, Backlog, LastTaken, Taken, Serves, Msg
<1>4. Ordered'
  <2> SUFFICES ASSUME stops = 0, NEW a \in Asynchronous, NEW j \in DOMAIN written'[a], NEW k \in DOMAIN written'[a],
                      NEW p \in DOMAIN enqueued, NEW q \in DOMAIN enqueued,
                      j < k, written'[a][j] = enqueued[p], written'[a][k] = enqueued[q]
               PROVE  p < q
    BY <1>1 DEF Ordered
  <2>1. /\ a \in Appenders /\ written[a] \in Seq(Message) /\ Len(written[a]) \in Nat
        /\ DOMAIN written[a] = 1 .. Len(written[a])
        /\ Len(queue) \in Nat /\ Len(enqueued) \in Nat /\ DOMAIN enqueued = 1 .. Len(enqueued)
    BY QueueTypes DEF Asynchronous
  <2>2. CASE written'[a] = written[a]
    BY <2>2 DEF QueueInv, Ordered
  <2>3. CASE a = b /\ written'[a] = Append(written[a], m)
    <3>1. /\ DOMAIN written'[a] = 1 .. Len(written[a]) + 1 /\ written'[a][Len(written[a]) + 1] = m
          /\ \A x \in 1 .. Len(written[a]) : written'[a][x] = written[a][x]
      BY <1>2, <2>1, <2>3, AppendProperties
    <3>2. j \in DOMAIN written[a] /\ written[a][j] = enqueued[p] /\ enqueued[p] \in ToSet(written[a])
      BY <2>1, <3>1 DEF ToSet
    <3>3. CASE k \in DOMAIN written[a]
      BY <2>1, <3>1, <3>2, <3>3 DEF QueueInv, Ordered
    <3>4. CASE k \notin DOMAIN written[a]
      <4>1. m = enqueued[q] /\ m \in ToSet(enqueued)
        BY <2>1, <3>1, <3>4 DEF ToSet
      <4>2. t \in Workers /\ Serves(t)
        BY <1>0, <1>1, <4>1 DEF QueueInv, Holding, Threads, Serves, CoreInv, TypeOK, PcTypeOK, WorkerPC
      <4>3. Taken > 0 /\ m = enqueued[Taken] /\ Taken \in DOMAIN enqueued
        BY <1>0, <2>1, <4>2 DEF QueueInv, LastTaken, Taken
      <4>4. q = Taken
        BY <4>1, <4>3 DEF QueueInv, IsInjective
      <4>5. p # Taken
        BY <1>2, <2>3, <3>2, <4>3
      <4>6. ~(p > Taken)
        <5> SUFFICES ASSUME p > Taken PROVE FALSE
          OBVIOUS
        <5>1. p - Taken \in 1 .. Len(queue) /\ Taken + (p - Taken) = p
          BY <2>1 DEF Taken
        <5>2. content[queue[p - Taken]] = enqueued[p]
          BY <5>1 DEF QueueInv, Backlog
        <5>3. queue[p - Taken] \in ToSet(queue)
          BY <5>1, QueueTypes DEF ToSet
        <5> QED BY <3>2, <5>2, <5>3 DEF MessageInv, Unwritten
      <4> QED BY <2>1, <4>3, <4>4, <4>5, <4>6
    <3> QED BY <3>3, <3>4
  <2> QED BY <1>2, <2>1, <2>2, <2>3
<1> QED BY <1>1, <1>3, <1>4 DEF QueueInv, ToSet, IsInjective, Logged, Msg

(* A thread gives back a block that is not in the queue (log_core.c:278, 343). *)
LEMMA FreeQueue ==
  ASSUME CoreInv, QueueInv, NEW t \in Threads, Free(t)
  PROVE  QueueInv'
<1> USE DEF Free
<1>1. /\ pc[t] = "free" /\ item[t] \in Items /\ pc'[t] = AfterFree(t)
      /\ \A i \in Items \ {item[t]} : content'[i] = content[i]
      /\ \A u \in Threads \ {t} : pc'[u] = pc[u] /\ item'[u] = item[u]
      /\ UNCHANGED <<queue, enqueued, written, calls, stops>>
  <2>1. pc[t] = "free" /\ item[t] \in Items
    BY BlocksInUse DEF Goto, Holding
  <2> QED BY <2>1 DEF Goto, CoreInv, TypeOK, PcTypeOK, ThreadTypeOK, MessageTypeOK
<1> HIDE DEF Free
<1>2. \A i \in ToSet(queue) : content'[i] = content[i]
  BY <1>1, BlocksInUse DEF Holding
<1>3. ASSUME NEW u \in Threads, pc'[u] \in Holding PROVE pc[u] = pc'[u] /\ Msg(u)' = Msg(u)
  <2>1. u # t /\ pc[u] \in Holding
    BY <1>1, <1>3 DEF AfterFree, Holding
  <2>2. item[u] \in Items \ {item[t]}
    BY <1>1, <2>1, BlocksInUse DEF Holding
  <2> QED BY <1>1, <2>1, <2>2 DEF Msg
<1>4. \A w \in Workers : Serves(w)' => Serves(w) /\ Msg(w)' = Msg(w)
  BY <1>3 DEF Serves, Holding, Threads
<1>5. \A c \in Callers : pc'[c] \in Holding => pc[c] \in Holding /\ Msg(c)' = Msg(c)
  BY <1>3 DEF Threads
<1> QED BY <1>1, <1>2, <1>4, <1>5, QueueFrame

(* Every step of a caller keeps the invariant. *)
LEMMA CallerStepQueue ==
  ASSUME CoreInv, MessageInv, QueueInv, NEW c \in Callers, CallerStep(c)
  PROVE  QueueInv'
<1>1. c \in Threads /\ c \notin Workers
  BY CoreAssumption DEF Threads
<1>2. CASE CallerRdLock(c) \/ WriteDirect(c) \/ WriteLater(c) \/ WriteDone(c)
  BY <1>1, <1>2, GotoQueue DEF CallerRdLock, WriteDirect, WriteLater, WriteDone, Holding
<1>3. CASE ClearAsk(c) \/ ClearPoll(c) \/ ClearItems(c) \/ ClearAppenders(c) \/ CloseDone(c)
  BY <1>1, <1>3, GotoQueue DEF ClearAsk, ClearPoll, ClearItems, ClearAppenders, CloseDone, Holding
<1>4. CASE ClearStop(c)
  <2>1. stops' # 0
    BY <1>4 DEF ClearStop, CoreInv, TypeOK, AsyncTypeOK
  <2> QED BY <1>1, <1>4, <2>1, GotoQueue DEF ClearStop, Holding
<1>5. CASE Broadcast(c)
  <2>1. \A t \in Threads : pc'[t] \in Holding => pc'[t] = pc[t]
    BY <1>5 DEF Broadcast, Holding
  <2> QED BY <1>5, <2>1, QueueFrame DEF Broadcast, Serves, Holding, Threads, Msg
<1>6. CASE CloseOne(c)
  BY <1>6, QueueFrame DEF CloseOne, Serves, Msg
<1> QED BY <1>1, <1>2, <1>3, <1>4, <1>5, <1>6, WriteOneQueue, EnqueueQueue, FreeQueue DEF CallerStep

(* Every step of a worker keeps the invariant. *)
LEMMA WorkerStepQueue ==
  ASSUME CoreInv, WorkerBound, MessageInv, QueueInv, NEW w \in Workers, WorkerStep(w)
  PROVE  QueueInv'
<1>1. w \in Threads /\ w \notin Callers
  BY CoreAssumption DEF Threads
<1>2. CASE WorkerTop(w) \/ WorkerWait(w) \/ WorkerStop(w)
  BY <1>1, <1>2, GotoQueue DEF WorkerTop, WorkerWait, WorkerStop, Holding
<1>3. CASE WorkerRdLock(w) \/ WriteDone(w)
  BY <1>1, <1>3, GotoQueue DEF WorkerRdLock, WriteDone, Holding
<1> QED BY <1>1, <1>2, <1>3, WriteOneQueue, WorkerTakeQueue, FreeQueue DEF WorkerStep

(* Every other step keeps the invariant. *)
LEMMA EnvironmentQueue ==
  ASSUME CoreInv, QueueInv, Environment
  PROVE  QueueInv'
<1>1. Callers \subseteq Threads /\ Workers \subseteq Threads /\ Callers \intersect Workers = {}
  BY CoreAssumption DEF Threads
<1>2. ASSUME NEW c \in Callers, ClearBegin(c) PROVE QueueInv'
  <2>1. PICK to \in {"asked", "clearItem"} : Goto(c, "idle", to)
    BY <1>2 DEF ClearBegin
  <2> QED BY <1>1, <1>2, <2>1, GotoQueue DEF ClearBegin, Holding
<1>3. ASSUME NEW c \in Callers, CloseBegin(c) PROVE QueueInv'
  BY <1>1, <1>3, GotoQueue DEF CloseBegin, Holding
<1>4. ASSUME NEW w \in Workers, SpuriousWake(w) PROVE QueueInv'
  BY <1>1, <1>4, GotoQueue DEF SpuriousWake, Holding
<1>5. ASSUME NEW b \in BOOLEAN, EnableAsync(b) PROVE QueueInv'
  BY <1>5, QueueFrame DEF EnableAsync, Serves, Msg
<1>6. ASSUME NEW a \in Appenders, AddAppender(a) \/ RemoveAppender(a) PROVE QueueInv'
  BY <1>6, QueueFrame DEF AddAppender, RemoveAppender, Serves, Msg
<1> QED BY <1>2, <1>3, <1>4, <1>5, <1>6, LogVQueue DEF Environment

(* The queue and its history hold together in every reachable state. *)
LEMMA QueueInvHolds == Spec => []QueueInv
<1>1. Init => QueueInv
  <2> SUFFICES ASSUME Init PROVE QueueInv
    OBVIOUS
  <2>1. /\ ToSet(enqueued) = {} /\ IsInjective(enqueued) /\ Len(queue) = 0 /\ Len(enqueued) = 0
        /\ \A a \in Appenders : DOMAIN written[a] = {}
    BY EmptySeq DEF Init, ToSet, IsInjective
  <2>2. \A t \in Threads : pc[t] \notin Holding
    BY DEF Init, Holding
  <2> QED BY <2>1, <2>2 DEF QueueInv, Backlog, LastTaken, Serves, Holding, Ordered, Asynchronous, Threads
<1>2. CoreInv /\ WorkerBound /\ MessageInv /\ QueueInv /\ [Next]_vars => QueueInv'
  <2> SUFFICES ASSUME CoreInv, WorkerBound, MessageInv, QueueInv, [Next]_vars PROVE QueueInv'
    OBVIOUS
  <2>1. CASE UNCHANGED vars
    BY <2>1, QueueFrame DEF vars, Serves, Msg
  <2> QED BY <2>1, CallerStepQueue, WorkerStepQueue, EnvironmentQueue DEF Next
<1> QED BY <1>1, <1>2, CoreInvHolds, WorkersBounded, MessageInvHolds, PTL DEF Spec

(* Until a shutdown every asynchronous appender writes the messages of the queue *)
(* in the order in which they joined it, although callers write to the same      *)
(* appenders themselves when the mode changes (log_core.c:329-339).              *)
THEOREM MessagesKeepOrder == Spec => []QueueOrder
<1>1. QueueInv => QueueOrder
  <2> SUFFICES ASSUME QueueInv, stops = 0, NEW a \in Appenders \ DisableAsync,
                      NEW j \in DOMAIN written[a], NEW k \in DOMAIN written[a], j < k,
                      {written[a][j], written[a][k]} \subseteq ToSet(enqueued)
               PROVE  Position(enqueued, written[a][j]) < Position(enqueued, written[a][k])
    BY DEF QueueOrder
  <2>1. ASSUME NEW x \in ToSet(enqueued)
        PROVE  Position(enqueued, x) \in DOMAIN enqueued /\ enqueued[Position(enqueued, x)] = x
    BY DEF Position, ToSet
  <2> QED BY <2>1 DEF QueueInv, Ordered, Asynchronous
<1> QED BY <1>1, QueueInvHolds, PTL

-----------------------------------------------------------------------------
(* LogCore implements LogQueue.  Up to a shutdown the history enqueued splits at *)
(* Cut into what has been served and what is pending.                            *)
Cut == Taken - (IF Serving = {} THEN 0 ELSE 1)

(* The entries of a range determine it. *)
LEMMA SubSeqAgree ==
  ASSUME NEW S, NEW s, NEW t, NEW m \in Int, NEW n \in Int,
         \A j \in m .. n : s[j] \in S /\ t[j] = s[j]
  PROVE  SubSeq(s, m, n) = SubSeq(t, m, n)
<1>1. CASE n < m
  BY <1>1, SubSeqEmpty
<1>2. CASE m <= n
  <2>0. PICK k \in Nat : k = n - m + 1
    BY <1>2
  <2>1. /\ SubSeq(s, m, n) \in Seq(S) /\ Len(SubSeq(s, m, n)) = k
        /\ \A i \in 1 .. k : SubSeq(s, m, n)[i] = s[m + i - 1]
    BY <1>2, <2>0, SubSeqProperties
  <2>2. /\ SubSeq(t, m, n) \in Seq(S) /\ Len(SubSeq(t, m, n)) = k
        /\ \A i \in 1 .. k : SubSeq(t, m, n)[i] = t[m + i - 1]
    <3>1. \A j \in m .. n : t[j] \in S
      OBVIOUS
    <3> QED BY <1>2, <2>0, <3>1, SubSeqProperties
  <2>3. \A i \in 1 .. k : s[m + i - 1] = t[m + i - 1]
    BY <2>0
  <2> QED BY <2>1, <2>2, <2>3, SeqEqual
<1> QED BY <1>1, <1>2

(* A sequence split before and after one more entry. *)
LEMMA AppendSplit ==
  ASSUME NEW S, NEW s \in Seq(S), NEW x \in S, NEW k \in 0 .. Len(s)
  PROVE  /\ SubSeq(Append(s, x), 1, k) = SubSeq(s, 1, k)
         /\ SubSeq(Append(s, x), k + 1, Len(s) + 1) = Append(SubSeq(s, k + 1, Len(s)), x)
<1>1. Len(s) \in Nat /\ \A j \in 1 .. Len(s) : s[j] \in S
  BY LenProperties, ElementOfSeq
<1>2. PICK u \in Seq(S) : u = Append(s, x)
  BY AppendProperties
<1>3. Len(u) = Len(s) + 1 /\ u[Len(s) + 1] = x /\ \A j \in 1 .. Len(s) : u[j] = s[j]
  BY <1>2, AppendProperties
<1>4. /\ \A j \in 1 .. k : s[j] \in S /\ u[j] = s[j]
      /\ \A j \in k + 1 .. Len(s) : s[j] \in S /\ u[j] = s[j]
  BY <1>1, <1>3
<1>5. SubSeq(s, 1, k) = SubSeq(u, 1, k)
  BY <1>1, <1>4, SubSeqAgree
<1>6. SubSeq(s, k + 1, Len(s)) = SubSeq(u, k + 1, Len(s))
  BY <1>1, <1>4, SubSeqAgree
<1>7. SubSeq(u, k + 1, Len(s) + 1) = SubSeq(u, k + 1, Len(s)) \o <<x>>
  <2>1. PICK m \in 1 .. Len(u), n \in 1 .. Len(u) : m = k + 1 /\ n = Len(s) + 1
    BY <1>1, <1>3
  <2>2. n \in m .. Len(u) /\ n - 1 = Len(s)
    BY <1>1, <2>1
  <2>3. SubSeq(u, m, n) = SubSeq(u, m, n - 1) \o <<u[n]>>
    BY <2>2, SubSeqRecursiveSecond
  <2> QED BY <1>3, <2>1, <2>2, <2>3
<1>8. SubSeq(s, k + 1, Len(s)) \in Seq(S)
  BY <1>1, <1>4, SubSeqProperties
<1> QED BY <1>2, <1>5, <1>6, <1>7, <1>8, AppendIsConcat

(* The split at Cut. *)
LEMMA QueueSplit ==
  CoreInv /\ WorkerBound /\ QueueInv /\ stops = 0 =>
    /\ Cut \in 0 .. Len(enqueued)
    /\ Pending = SubSeq(enqueued, Cut + 1, Len(enqueued))
    /\ Served = SubSeq(enqueued, 1, Cut)
<1> SUFFICES ASSUME CoreInv, WorkerBound, QueueInv, stops = 0
             PROVE  /\ Cut \in 0 .. Len(enqueued)
                    /\ Pending = SubSeq(enqueued, Cut + 1, Len(enqueued))
                    /\ Served = SubSeq(enqueued, 1, Cut)
  OBVIOUS
<1> DEFINE waiting == [k \in DOMAIN queue |-> content[queue[k]]]
<1>1. /\ Len(queue) \in Nat /\ Len(enqueued) \in Nat /\ Taken \in 0 .. Len(enqueued)
      /\ enqueued \in Seq(Message) /\ DOMAIN queue = 1 .. Len(queue)
      /\ Len(queue) = Len(enqueued) - Taken
      /\ \A j \in 1 .. Len(enqueued) : enqueued[j] \in Message
  BY QueueTypes, ElementOfSeq DEF QueueInv, Backlog, Taken
<1>2. waiting = SubSeq(enqueued, Taken + 1, Len(enqueued)) /\ waiting \in Seq(Message)
  <2>1. \A k \in 1 .. Len(queue) : Taken + k \in 1 .. Len(enqueued) /\ content[queue[k]] = enqueued[Taken + k]
    BY <1>1 DEF QueueInv, Backlog
  <2>2. /\ SubSeq(enqueued, Taken + 1, Len(enqueued)) \in Seq(Message)
        /\ Len(SubSeq(enqueued, Taken + 1, Len(enqueued))) = Len(queue)
        /\ \A k \in 1 .. Len(queue) : SubSeq(enqueued, Taken + 1, Len(enqueued))[k] = enqueued[Taken + k]
    <3>1. \A j \in Taken + 1 .. Len(enqueued) : enqueued[j] \in Message
      BY <1>1
    <3>2. /\ SubSeq(enqueued, Taken + 1, Len(enqueued)) \in Seq(Message)
          /\ Len(SubSeq(enqueued, Taken + 1, Len(enqueued))) =
               IF Taken + 1 <= Len(enqueued) THEN Len(enqueued) - (Taken + 1) + 1 ELSE 0
          /\ \A k \in 1 .. Len(enqueued) - (Taken + 1) + 1 :
               SubSeq(enqueued, Taken + 1, Len(enqueued))[k] = enqueued[Taken + 1 + k - 1]
      BY <1>1, <3>1, SubSeqProperties
    <3> QED BY <1>1, <3>2
  <2>3. waiting = [k \in 1 .. Len(queue) |-> SubSeq(enqueued, Taken + 1, Len(enqueued))[k]]
    BY <1>1, <2>1, <2>2
  <2>4. SubSeq(enqueued, Taken + 1, Len(enqueued)) =
          [k \in 1 .. Len(queue) |-> SubSeq(enqueued, Taken + 1, Len(enqueued))[k]]
    BY <2>2, LenProperties
  <2> QED BY <2>2, <2>3, <2>4
<1>3. Cut \in 0 .. Len(enqueued) /\ Pending = SubSeq(enqueued, Cut + 1, Len(enqueued))
  <2>1. CASE Serving = {}
    <3>1. Pending = <<>> \o waiting /\ Cut = Taken
      BY <1>1, <2>1 DEF Pending, InService, Cut
    <3> QED BY <1>1, <1>2, <3>1, ConcatEmptySeq
  <2>2. CASE Serving # {}
    <3>0. PICK w : w = CHOOSE v \in Serving : TRUE
      OBVIOUS
    <3>1. w \in Workers /\ Serves(w)
      BY <2>2, <3>0 DEF Serving, Serves
    <3>2. Taken > 0 /\ Msg(w) = enqueued[Taken]
      BY <3>1 DEF QueueInv, LastTaken
    <3>3. Pending = <<enqueued[Taken]>> \o waiting /\ Cut = Taken - 1
      BY <1>1, <2>2, <3>0, <3>2 DEF Pending, InService, Cut, Msg
    <3>4. Taken \in 1 .. Len(enqueued) /\ Len(enqueued) \in Taken .. Len(enqueued) /\ Cut + 1 = Taken
      BY <1>1, <3>2, <3>3
    <3>5. SubSeq(enqueued, Taken, Len(enqueued)) = <<enqueued[Taken]>> \o SubSeq(enqueued, Taken + 1, Len(enqueued))
      BY <1>1, <3>4, SubSeqRecursiveFirst
    <3> HIDE DEF waiting
    <3> QED BY <1>1, <1>2, <3>3, <3>4, <3>5
  <2> QED BY <2>1, <2>2
<1>4. Served = SubSeq(enqueued, 1, Cut)
  <2>1. \A j \in Cut + 1 .. Len(enqueued) : enqueued[j] \in Message
    BY <1>1, <1>3
  <2>2. Len(Pending) = Len(enqueued) - Cut
    BY <1>1, <1>3, <2>1, SubSeqProperties
  <2>3. Len(enqueued) - Len(Pending) = Cut
    BY <1>1, <1>3, <2>2
  <2> QED BY <2>3 DEF Served
<1> QED BY <1>3, <1>4

(* A step that LogQueue does not see. *)
Unseen == enqueued' = enqueued /\ Cut' = Cut

(* A step of one thread that neither begins nor ends the service of a message. *)
LEMMA GotoUnseen ==
  ASSUME CoreInv, NEW t \in Threads, NEW from, NEW to, Goto(t, from, to), UNCHANGED <<enqueued, queue>>,
         t \in Workers => (to \in {"rdlock", "asyncWrite"} <=> from \in {"rdlock", "asyncWrite"})
  PROVE  Unseen
<1>1. pc[t] = from /\ pc'[t] = to /\ \A u \in Threads \ {t} : pc'[u] = pc[u]
  BY DEF CoreInv, TypeOK, PcTypeOK, Goto
<1>2. Serving' = Serving
  BY <1>1 DEF Serving, Threads
<1> QED BY <1>2 DEF Unseen, Cut, Taken

(* A step that moves no thread. *)
LEMMA StillUnseen == UNCHANGED <<enqueued, queue, pc>> => Unseen
BY DEF Unseen, Cut, Taken, Serving

(* The worker that takes a message is the only one: what leaves the queue enters service. *)
LEMMA WorkerTakeUnseen ==
  ASSUME CoreInv, WorkerBound, stops = 0, NEW w \in Workers, WorkerTake(w)
  PROVE  Unseen
<1> USE DEF WorkerTake
<1>1. /\ pc[w] = "take" /\ pc'[w] = "rdlock" /\ \A u \in Threads \ {w} : pc'[u] = pc[u]
      /\ queue # <<>> /\ queue' = Tail(queue) /\ enqueued' = enqueued
  BY DEF Goto, CoreInv, TypeOK, PcTypeOK, Threads
<1>2. Serving = {} /\ w \in Serving'
  <2>1. \A v \in Serving : v \in LiveWorkers /\ v # w
    BY <1>1 DEF Serving, LiveWorkers
  <2>2. w \in LiveWorkers
    BY <1>1 DEF LiveWorkers
  <2> QED BY <1>1, <2>1, <2>2, OneWorker DEF Serving
<1>3. Len(queue') = Len(queue) - 1 /\ Len(queue) \in Nat /\ Len(enqueued) \in Nat
  BY <1>1, QueueTypes, HeadTailProperties
<1> QED BY <1>1, <1>2, <1>3 DEF Unseen, Cut, Taken

(* Enqueue moves no worker into or out of service. *)
LEMMA EnqueueCut ==
  ASSUME CoreInv, NEW c \in Callers, Enqueue(c)
  PROVE  /\ enqueued' = Append(enqueued, Msg(c)) /\ Msg(c) \in Message
         /\ Cut' = Cut
<1>1. c \notin Workers /\ c \in Threads /\ pc[c] = "enqueue"
  BY CoreAssumption DEF Enqueue, Threads
<1>2. item[c] \in Items /\ Msg(c) \in Message
  BY <1>1, BlocksInUse DEF Holding
<1>3. queue' = Append(queue, item[c]) /\ enqueued' = Append(enqueued, Msg(c))
  BY DEF Enqueue, Inserted, Msg
<1>4. Len(queue') = Len(queue) + 1 /\ Len(enqueued') = Len(enqueued) + 1 /\ Len(queue) \in Nat /\ Len(enqueued) \in Nat
  BY <1>2, <1>3, QueueTypes, AppendProperties
<1>5. Serving' = Serving
  BY <1>1 DEF Enqueue, EnsureWorker, StartWorker, NoNewWorker, Serving, CoreInv, TypeOK, PcTypeOK, Threads
<1> QED BY <1>2, <1>3, <1>4, <1>5 DEF Cut, Taken

(* A worker that is done with its message leaves nobody in service. *)
LEMMA WriteDoneCut ==
  ASSUME CoreInv, WorkerBound, QueueInv, stops = 0, NEW w \in Workers, WriteDone(w)
  PROVE  enqueued' = enqueued /\ Cut \in 0 .. Len(enqueued) - 1 /\ Cut' = Cut + 1
<1>1. /\ pc[w] = "asyncWrite" /\ pc'[w] = "free" /\ \A u \in Threads \ {w} : pc'[u] = pc[u]
      /\ UNCHANGED <<enqueued, queue>>
  BY DEF WriteDone, Goto, CoreInv, TypeOK, PcTypeOK, Threads
<1>2. w \in Serving /\ Serving' = {}
  <2>1. w \in Serving
    BY <1>1 DEF Serving
  <2>2. \A v \in Serving : v \in LiveWorkers
    BY DEF Serving, LiveWorkers
  <2>3. \A v \in Serving : v = w
    BY <2>1, <2>2, OneWorker
  <2> QED BY <1>1, <2>1, <2>3 DEF Serving, Threads
<1>3. Taken > 0 /\ Taken <= Len(enqueued) /\ Len(enqueued) \in Nat /\ Len(queue) \in Nat
  BY <1>1, QueueTypes DEF QueueInv, LastTaken, Serves, Taken
<1> QED BY <1>1, <1>2, <1>3 DEF Cut, Taken

(* Every step but these two is unseen. *)
LEMMA OthersUnseen ==
  ASSUME CoreInv, WorkerBound, stops = 0, [Next]_vars,
         \A c \in Callers : ~Enqueue(c), \A w \in Workers : ~WriteDone(w)
  PROVE  Unseen
<1>0. Callers \subseteq Threads /\ Workers \subseteq Threads /\ Callers \intersect Workers = {}
  BY CoreAssumption DEF Threads
<1>1. CASE UNCHANGED vars
  BY <1>1, StillUnseen DEF vars
<1>2. ASSUME NEW c \in Callers, CallerStep(c) PROVE Unseen
  <2>1. CASE CallerRdLock(c) \/ WriteDirect(c) \/ WriteLater(c) \/ WriteDone(c) \/ Free(c)
    BY <1>0, <2>1, GotoUnseen DEF CallerRdLock, WriteDirect, WriteLater, WriteDone, Free
  <2>2. CASE ClearAsk(c) \/ ClearPoll(c) \/ ClearStop(c) \/ ClearItems(c) \/ ClearAppenders(c) \/ CloseDone(c)
    BY <1>0, <2>2, GotoUnseen DEF ClearAsk, ClearPoll, ClearStop, ClearItems, ClearAppenders, CloseDone
  <2>3. CASE WriteOne(c) \/ CloseOne(c)
    BY <2>3, StillUnseen DEF WriteOne, CloseOne
  <2>4. CASE Broadcast(c)
    <3>1. Serving' = Serving
      BY <1>0, <2>4 DEF Broadcast, Awakened, Serving
    <3> QED BY <2>4, <3>1 DEF Broadcast, Unseen, Cut, Taken
  <2> QED BY <1>2, <2>1, <2>2, <2>3, <2>4 DEF CallerStep
<1>3. ASSUME NEW w \in Workers, WorkerStep(w) PROVE Unseen
  <2>1. CASE WorkerTop(w)
    <3>1. PICK to \in {"take", "stopping"} : Goto(w, "top", to)
      BY <2>1 DEF WorkerTop
    <3> QED BY <1>0, <2>1, <3>1, GotoUnseen DEF WorkerTop
  <2>2. CASE WorkerWait(w) \/ WorkerRdLock(w) \/ WorkerStop(w)
    BY <1>0, <2>2, GotoUnseen DEF WorkerWait, WorkerRdLock, WorkerStop
  <2>3. CASE Free(w)
    <3>1. Goto(w, "free", "top") /\ UNCHANGED <<enqueued, queue>>
      BY <1>0, <2>3 DEF Free, AfterFree
    <3> QED BY <1>0, <3>1, GotoUnseen
  <2>4. CASE WriteOne(w)
    BY <2>4, StillUnseen DEF WriteOne
  <2> QED BY <1>3, <2>1, <2>2, <2>3, <2>4, WorkerTakeUnseen DEF WorkerStep
<1>4. CASE Environment
  <2>1. ASSUME NEW c \in Callers, NEW n \in Lengths, NEW sync \in BOOLEAN, NEW i \in Items, LogV(c, n, sync, i)
        PROVE  Unseen
    BY <1>0, <2>1, GotoUnseen DEF LogV
  <2>2. ASSUME NEW c \in Callers, ClearBegin(c) \/ CloseBegin(c) PROVE Unseen
    BY <1>0, <2>2, GotoUnseen DEF ClearBegin, CloseBegin
  <2>3. ASSUME NEW w \in Workers, SpuriousWake(w) PROVE Unseen
    BY <1>0, <2>3, GotoUnseen DEF SpuriousWake
  <2>4. ASSUME NEW b \in BOOLEAN, EnableAsync(b) PROVE Unseen
    BY <2>4, StillUnseen DEF EnableAsync
  <2>5. ASSUME NEW a \in Appenders, AddAppender(a) \/ RemoveAppender(a) PROVE Unseen
    BY <2>5, StillUnseen DEF AddAppender, RemoveAppender
  <2> QED BY <1>4, <2>1, <2>2, <2>3, <2>4, <2>5 DEF Environment
<1> QED BY <1>1, <1>2, <1>3, <1>4 DEF Next

QueueView == CoreInv /\ WorkerBound /\ QueueInv /\ stops = 0

(* Every step is a step of LogQueue, or leaves its variables alone. *)
LEMMA QueueStep == QueueView /\ QueueView' /\ [Next]_vars => [Abstract!QueueNext]_(Abstract!queueVars)
<1> SUFFICES ASSUME QueueView, QueueView', [Next]_vars
             PROVE  Abstract!QueueNext \/ UNCHANGED <<Pending, Served>>
  BY DEF Abstract!queueVars
<1>1. /\ Cut \in 0 .. Len(enqueued)
      /\ Pending = SubSeq(enqueued, Cut + 1, Len(enqueued))
      /\ Served = SubSeq(enqueued, 1, Cut)
  BY QueueSplit DEF QueueView
<1>2. /\ Pending' = SubSeq(enqueued', Cut' + 1, Len(enqueued'))
      /\ Served' = SubSeq(enqueued', 1, Cut')
  <2>1. (CoreInv /\ WorkerBound /\ QueueInv /\ stops = 0 =>
           /\ Cut \in 0 .. Len(enqueued)
           /\ Pending = SubSeq(enqueued, Cut + 1, Len(enqueued))
           /\ Served = SubSeq(enqueued, 1, Cut))'
    BY QueueSplit, PTL
  <2> QED BY <2>1 DEF QueueView
<1>3. enqueued \in Seq(Message) /\ Len(enqueued) \in Nat /\ \A j \in 1 .. Len(enqueued) : enqueued[j] \in Message
  BY QueueTypes, ElementOfSeq DEF QueueView
<1>4. ASSUME NEW c \in Callers, Enqueue(c) PROVE Abstract!QueueNext
  <2>0. PICK m \in Message : enqueued' = Append(enqueued, m) /\ Cut' = Cut
    BY <1>4, EnqueueCut DEF QueueView
  <2>1. Len(enqueued') = Len(enqueued) + 1
    BY <1>3, <2>0, AppendProperties
  <2>2. Pending' = Append(Pending, m) /\ Served' = Served
    BY <1>1, <1>2, <1>3, <2>0, <2>1, AppendSplit
  <2> QED BY <2>2 DEF Abstract!QueueNext, Abstract!Accept
<1>5. ASSUME NEW w \in Workers, WriteDone(w) PROVE Abstract!QueueNext
  <2>1. enqueued' = enqueued /\ Cut \in 0 .. Len(enqueued) - 1 /\ Cut' = Cut + 1
    BY <1>5, WriteDoneCut DEF QueueView
  <2>0. PICK m \in 1 .. Len(enqueued) : m = Cut + 1
    BY <1>3, <2>1
  <2>2. Pending = SubSeq(enqueued, m, Len(enqueued)) /\ Pending' = SubSeq(enqueued, m + 1, Len(enqueued))
    BY <1>1, <1>2, <2>0, <2>1
  <2>3. Pending # <<>> /\ Head(Pending) = enqueued[m] /\ Pending' = Tail(Pending)
    <3>1. Len(enqueued) \in m .. Len(enqueued)
      BY <1>3
    <3>2. Head(Pending) = enqueued[m] /\ Pending' = Tail(Pending)
      BY <1>3, <2>2, <3>1, HeadTailOfSubSeq
    <3>3. \A j \in m .. Len(enqueued) : enqueued[j] \in Message
      BY <1>3
    <3>4. Len(Pending) > 0
      BY <1>3, <2>2, <3>3, SubSeqProperties
    <3> QED BY <3>2, <3>4, EmptySeq
  <2>4. Served' = Append(Served, enqueued[m])
    <3>1. Served' = SubSeq(enqueued, 1, m) /\ Served = SubSeq(enqueued, 1, m - 1)
      BY <1>1, <1>2, <2>0, <2>1
    <3>2. SubSeq(enqueued, 1, m) = SubSeq(enqueued, 1, m - 1) \o <<enqueued[m]>>
      <4>1. 1 \in 1 .. Len(enqueued) /\ m \in 1 .. Len(enqueued)
        BY <1>3
      <4> QED BY <1>3, <4>1, SubSeqRecursiveSecond
    <3>3. \A j \in 1 .. m - 1 : enqueued[j] \in Message
      BY <1>3
    <3>4. Served \in Seq(Message)
      BY <1>3, <3>1, <3>3, SubSeqProperties
    <3> QED BY <1>3, <3>1, <3>2, <3>4, AppendIsConcat
  <2> QED BY <2>3, <2>4 DEF Abstract!QueueNext, Abstract!Serve
<1>6. CASE Unseen
  BY <1>1, <1>2, <1>6 DEF Unseen
<1> QED BY <1>4, <1>5, <1>6, OthersUnseen DEF QueueView

(* Until a shutdown asynchronous mode is a first-in first-out queue with one     *)
(* server, whatever the number of callers: every step of the program accepts one *)
(* message, serves the oldest one or does not concern the queue.                 *)
THEOREM AsyncModeIsAQueue ==
  Spec /\ [](stops = 0) => Abstract!QueueInit /\ [][Abstract!QueueNext]_(Abstract!queueVars)
<1>1. Init => Abstract!QueueInit
  <2> SUFFICES ASSUME Init PROVE Pending = <<>> /\ Served = <<>>
    BY DEF Abstract!QueueInit
  <2>1. Serving = {} /\ queue = <<>> /\ enqueued = <<>>
    BY CoreAssumption DEF Init, Serving, Threads
  <2>2. Pending = <<>>
    BY <2>1 DEF Pending, InService
  <2>3. Served = SubSeq(<<>>, 1, 0)
    BY <2>1, <2>2 DEF Served
  <2> QED BY <2>2, <2>3, SubSeqEmpty
<1>2. QueueView <=> CoreInv /\ WorkerBound /\ QueueInv /\ stops = 0
  BY DEF QueueView
<1> QED BY <1>1, <1>2, QueueStep, CoreInvHolds, WorkersBounded, QueueInvHolds, PTL DEF Spec
=============================================================================
