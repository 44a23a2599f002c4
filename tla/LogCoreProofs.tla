---------------------------- MODULE LogCoreProofs ----------------------------
(***************************************************************************)
(* Theorems about blocks, lists and messages of LogCore.                   *)
(*                                                                         *)
(* OneOwner is not inductive by itself: FreeItem puts what the thread      *)
(* holds onto the free list, so that a thread in charge of a block must    *)
(* really hold one (HoldersHaveItems), and Enqueue hands out its message,  *)
(* so that every block outside the pool must carry one (Filled).  NoLeak   *)
(* is part of the invariant because a fresh block is told from all owned   *)
(* ones by not being live.  CoreInv is their conjunction with TypeOK;      *)
(* every action has a lemma CoreInv /\ Action => CoreInv', and the actions *)
(* that move no block go through OwnFrame.                                 *)
(*                                                                         *)
(* On top of it: the lists the threads walk hold each appender once and no *)
(* released one, a message is written once, and it is not lost on the way  *)
(* from the call that logs it to the appenders.                            *)
(***************************************************************************)
EXTENDS LogCore, SequenceTheorems, FiniteSetTheorems, TLAPS

(* Taking an entry out of a list leaves a list of the same kind. *)
LEMMA DroppedType ==
  ASSUME NEW S, NEW s \in Seq(S), NEW a
  PROVE  Registry!Dropped(s, a) \in Seq(S)
<1> DEFINE k0 == CHOOSE k \in DOMAIN s : s[k] = a
<1>1. CASE Registry!Contains(s, a)
  <2>1. Registry!Dropped(s, a) = SubSeq(s, 1, k0 - 1) \o SubSeq(s, k0 + 1, Len(s))
    BY <1>1 DEF Registry!Dropped, Registry!RemoveAt
  <2>2. \E k \in DOMAIN s : s[k] = a
    BY <1>1 DEF Registry!Contains
  <2>3. k0 \in 1 .. Len(s)
    BY <2>2
  <2>4. /\ SubSeq(s, 1, k0 - 1) \in Seq(S)
        /\ SubSeq(s, k0 + 1, Len(s)) \in Seq(S)
    <3> HIDE DEF k0
    <3>1. Len(s) \in Nat /\ Len(s) \in Int /\ \A k \in 1 .. Len(s) : s[k] \in S
      BY LenProperties, ElementOfSeq
    <3>2. /\ k0 - 1 \in Int /\ k0 + 1 \in Int
          /\ \A k \in 1 .. k0 - 1 : s[k] \in S
          /\ \A k \in k0 + 1 .. Len(s) : s[k] \in S
      BY <2>3, <3>1
    <3>3. SubSeq(s, 1, k0 - 1) \in Seq(S)
      BY <3>2, SubSeqProperties
    <3>4. SubSeq(s, k0 + 1, Len(s)) \in Seq(S)
      BY <3>1, <3>2, SubSeqProperties
    <3> QED BY <3>3, <3>4
  <2> QED BY <2>1, <2>4, ConcatProperties
<1>2. CASE ~Registry!Contains(s, a)
  BY <1>2 DEF Registry!Dropped
<1> QED BY <1>1, <1>2

(* Joining a queue at its tail, and leaving it at its head. *)
LEMMA AppendDistinct ==
  ASSUME NEW S, NEW q \in Seq(S), NEW x \in S, x \notin ToSet(q)
  PROVE  /\ Append(q, x) \in Seq(S)
         /\ ToSet(Append(q, x)) = ToSet(q) \union {x}
         /\ IsInjective(q) => IsInjective(Append(q, x))
<1>1. /\ Append(q, x) \in Seq(S)
      /\ Len(Append(q, x)) = Len(q) + 1
      /\ Append(q, x)[Len(q) + 1] = x
      /\ \A k \in 1 .. Len(q) : Append(q, x)[k] = q[k]
  BY AppendProperties
<1>2. DOMAIN q = 1 .. Len(q) /\ DOMAIN Append(q, x) = 1 .. Len(q) + 1 /\ Len(q) \in Nat
  BY <1>1, LenProperties
<1>3. ToSet(Append(q, x)) = ToSet(q) \union {x}
  <2>1. ASSUME NEW k \in 1 .. Len(q) + 1 PROVE Append(q, x)[k] \in ToSet(q) \union {x}
    BY <1>1, <1>2 DEF ToSet
  <2>2. ASSUME NEW y \in ToSet(q) \union {x} PROVE \E k \in 1 .. Len(q) + 1 : Append(q, x)[k] = y
    <3>1. CASE y = x
      BY <3>1, <1>1, <1>2
    <3>2. CASE y \in ToSet(q)
      <4>1. PICK k \in 1 .. Len(q) : q[k] = y
        BY <3>2, <1>2 DEF ToSet
      <4> QED BY <4>1, <1>1, <1>2
    <3> QED BY <3>1, <3>2
  <2> QED BY <2>1, <2>2, <1>2 DEF ToSet
<1>4. ASSUME IsInjective(q) PROVE IsInjective(Append(q, x))
  <2>1. \A k \in 1 .. Len(q) : q[k] # x
    BY <1>2 DEF ToSet
  <2> QED BY <2>1, <1>1, <1>2, <1>4 DEF IsInjective
<1> QED BY <1>1, <1>3, <1>4

(* What is left of a list of distinct entries after its head is taken is distinct and lacks the head. *)
LEMMA TailDistinct ==
  ASSUME NEW S, NEW q \in Seq(S), q # <<>>
  PROVE  /\ Head(q) \in S /\ Tail(q) \in Seq(S)
         /\ Head(q) \in ToSet(q)
         /\ ToSet(Tail(q)) \subseteq ToSet(q)
         /\ ToSet(q) \subseteq ToSet(Tail(q)) \union {Head(q)}
         /\ IsInjective(q) => IsInjective(Tail(q)) /\ Head(q) \notin ToSet(Tail(q))
<1>1. /\ Head(q) \in S
      /\ Tail(q) \in Seq(S)
      /\ Len(Tail(q)) = Len(q) - 1
      /\ \A k \in 1 .. Len(Tail(q)) : Tail(q)[k] = q[k + 1]
  BY HeadTailProperties
<1>2. /\ DOMAIN q = 1 .. Len(q) /\ DOMAIN Tail(q) = 1 .. Len(q) - 1
      /\ Len(q) \in Nat /\ Len(q) >= 1 /\ Head(q) = q[1]
  BY <1>1, LenProperties, EmptySeq
<1>3. Head(q) \in ToSet(q)
  BY <1>2 DEF ToSet
<1>4. ToSet(Tail(q)) \subseteq ToSet(q)
  <2>1. ASSUME NEW k \in 1 .. Len(q) - 1 PROVE Tail(q)[k] = q[k + 1] /\ k + 1 \in 1 .. Len(q)
    BY <1>1, <1>2
  <2> QED BY <2>1, <1>2 DEF ToSet
<1>5. ToSet(q) \subseteq ToSet(Tail(q)) \union {Head(q)}
  <2>1. ASSUME NEW k \in 1 .. Len(q) PROVE q[k] \in ToSet(Tail(q)) \union {Head(q)}
    <3>1. CASE k = 1
      BY <3>1, <1>2
    <3>2. CASE k # 1
      <4>1. k - 1 \in 1 .. Len(q) - 1 /\ Tail(q)[k - 1] = q[k]
        BY <3>2, <1>1, <1>2
      <4> QED BY <4>1, <1>2 DEF ToSet
    <3> QED BY <3>1, <3>2
  <2> QED BY <2>1, <1>2 DEF ToSet
<1>6. ASSUME IsInjective(q) PROVE IsInjective(Tail(q)) /\ Head(q) \notin ToSet(Tail(q))
  <2>1. \A k \in 1 .. Len(q) - 1 : Tail(q)[k] = q[k + 1] /\ k + 1 \in 1 .. Len(q)
    BY <1>1, <1>2
  <2>2. IsInjective(Tail(q))
    BY <2>1, <1>2, <1>6 DEF IsInjective
  <2>3. \A k \in 1 .. Len(q) - 1 : q[k + 1] # q[1]
    BY <1>2, <1>6 DEF IsInjective
  <2> QED BY <2>1, <2>2, <2>3, <1>2 DEF ToSet
<1> QED BY <1>1, <1>3, <1>4, <1>5, <1>6
-----------------------------------------------------------------------------
(* Ownership of blocks, together with what its induction needs. *)
Own == OneOwner /\ NoLeak /\ HoldersHaveItems /\ Filled

CoreInv == TypeOK /\ Own

(* The program starts in the invariant: nobody holds a block and none is live. *)
LEMMA InitInv == Init => CoreInv
<1> SUFFICES ASSUME Init PROVE CoreInv
  OBVIOUS
<1> USE CoreAssumption DEF Init, Pool!ItemInit, Registry!RegistryInit
<1>1. TypeOK
  <2>1. Pool!ItemTypeOK
    BY DEF Pool!ItemTypeOK, Pool!ItemAssumption
  <2>2. \A S : <<>> \in Seq(S)
    BY EmptySeq
  <2>3. PcTypeOK
    BY DEF PcTypeOK, CallerPC, WorkerPC, Threads
  <2>4. /\ readers \subseteq Threads /\ released \subseteq Appenders
        /\ content \in [Items -> Message \union {NoMessage}]
        /\ isSync \in [Items -> BOOLEAN]
        /\ \A c \in Callers : pc[c] # "poll"
        /\ item \in [Threads -> Items \union {NoItem}]
        /\ polls \in [Callers -> 0 .. MaxPolls]
        /\ calls \in [Callers -> 0 .. MaxCalls]
        /\ owed \in [Appenders -> SUBSET Message]
    BY DEF Threads
  <2>5. /\ todo \in [Threads -> Seq(Appenders)]
        /\ written \in [Appenders -> Seq(Message)]
    BY <2>2
  <2> QED BY <2>1, <2>2, <2>3, <2>4, <2>5 DEF TypeOK, RegistryTypeOK, AsyncTypeOK, ThreadTypeOK, MessageTypeOK, HistoryTypeOK
<1>2. \A t \in Threads : pc[t] \notin Holding
  BY DEF Holding
<1>3. Held = {} /\ ToSet(queue) = {}
  BY <1>2 DEF Held, ToSet
<1>4. OneOwner
  BY <1>2, <1>3 DEF OneOwner, IsInjective
<1>5. NoLeak /\ Filled
  BY <1>3 DEF NoLeak, Filled, Pool!Live, Pool!HandedOut
<1>6. HoldersHaveItems
  BY <1>2 DEF HoldersHaveItems
<1> QED BY <1>1, <1>4, <1>5, <1>6 DEF CoreInv, Own

(* A step that leaves the blocks, the queue and the hands alone. *)
LEMMA OwnFrame ==
  ASSUME Own, UNCHANGED <<itemList, capacity, queue, item, content>>,
         \A t \in Threads : pc'[t] \in Holding <=> pc[t] \in Holding
  PROVE  Own'
<1>1. Held' = Held
  BY DEF Held
<1>2. Pool!Live' = Pool!Live /\ Pool!HandedOut' = Pool!HandedOut
  BY DEF Pool!Live, Pool!HandedOut
<1>3. OneOwner'
  BY <1>1 DEF Own, OneOwner, IsInjective, ToSet
<1>4. NoLeak' /\ Filled' /\ HoldersHaveItems'
  BY <1>1, <1>2 DEF Own, NoLeak, Filled, HoldersHaveItems, ToSet
<1> QED BY <1>3, <1>4 DEF Own
-----------------------------------------------------------------------------
(* One lemma per action: the step keeps CoreInv. *)

USE DEF poolVars, registryVars, asyncVars, threadVars, messageVars, historyVars

(* A move from one place to another of the same kind of thread keeps the types of pc. *)
LEMMA GotoType ==
  ASSUME PcTypeOK, NEW t \in Threads, NEW from, NEW to, Goto(t, from, to),
         t \in Callers => to \in CallerPC,
         t \in Workers => to \in WorkerPC
  PROVE  PcTypeOK' /\ pc'[t] = to /\ \A u \in Threads \ {t} : pc'[u] = pc[u]
BY CoreAssumption DEF PcTypeOK, Goto, Threads

(* The types of the pool depend on the variables of the pool alone. *)
LEMMA PoolTypeFrame == ASSUME Pool!ItemTypeOK, UNCHANGED poolVars PROVE Pool!ItemTypeOK'
BY DEF Pool!ItemTypeOK

(* NengLogWrite taking the read lock (log_core.c:328) moves no block. *)
LEMMA CallerRdLockInv ==
  ASSUME CoreInv, NEW c \in Callers, CallerRdLock(c)
  PROVE  CoreInv'
<1> USE DEF CallerRdLock, Registry!ReadLock
<1>1. c \in Threads /\ Goto(c, "rdlock", "syncWrite")
  BY DEF Threads
<1>2. PcTypeOK' /\ pc'[c] = "syncWrite" /\ \A u \in Threads \ {c} : pc'[u] = pc[u]
  BY <1>1, GotoType, CoreAssumption DEF CoreInv, TypeOK, CallerPC
<1>3. HistoryTypeOK'
  BY CoreAssumption DEF CoreInv, TypeOK, HistoryTypeOK
<1>4. TypeOK'
  BY <1>1, <1>2, <1>3, PoolTypeFrame
     DEF CoreInv, TypeOK, RegistryTypeOK, AsyncTypeOK, ThreadTypeOK, MessageTypeOK, Threads
<1>5. Own'
  BY <1>1, <1>2, OwnFrame DEF CoreInv, Goto, Holding
<1> QED BY <1>4, <1>5 DEF CoreInv
(* Going on to the asynchronous list (log_core.c:330-333) moves no block. *)
LEMMA WriteDirectInv ==
  ASSUME CoreInv, NEW c \in Callers, WriteDirect(c)
  PROVE  CoreInv'
<1> USE DEF WriteDirect
<1>1. c \in Threads /\ Goto(c, "syncWrite", "asyncWrite")
  BY DEF Threads
<1>2. PcTypeOK' /\ pc'[c] = "asyncWrite" /\ \A u \in Threads \ {c} : pc'[u] = pc[u]
  BY <1>1, GotoType, CoreAssumption DEF CoreInv, TypeOK, CallerPC, WorkerPC
<1>3. TypeOK'
  BY <1>1, <1>2, PoolTypeFrame
     DEF CoreInv, TypeOK, RegistryTypeOK, AsyncTypeOK, ThreadTypeOK, MessageTypeOK, HistoryTypeOK, Threads
<1>4. Own'
  BY <1>1, <1>2, OwnFrame DEF CoreInv, Goto, Holding
<1> QED BY <1>3, <1>4 DEF CoreInv

(* Giving the read lock up (log_core.c:341) leaves the block with the caller. *)
LEMMA WriteLaterInv ==
  ASSUME CoreInv, NEW c \in Callers, WriteLater(c)
  PROVE  CoreInv'
<1> USE DEF WriteLater, Registry!ReadUnlock
<1> DEFINE next == IF NobodyWaits THEN "free" ELSE "enqueue"
<1>1. /\ c \in Threads /\ Goto(c, "syncWrite", next)
      /\ next \in {"free", "enqueue"}
  BY DEF Threads
<1> HIDE DEF next
<1>2. PcTypeOK' /\ pc'[c] = next /\ \A u \in Threads \ {c} : pc'[u] = pc[u]
  BY <1>1, GotoType, CoreAssumption DEF CoreInv, TypeOK, CallerPC, WorkerPC
<1>3. TypeOK'
  BY <1>1, <1>2, PoolTypeFrame
     DEF CoreInv, TypeOK, RegistryTypeOK, AsyncTypeOK, ThreadTypeOK, MessageTypeOK, HistoryTypeOK, Threads
<1>4. Own'
  BY <1>1, <1>2, OwnFrame DEF CoreInv, Goto, Holding
<1> QED BY <1>3, <1>4 DEF CoreInv

(* The end of a walk (log_core.c:277, 341) leaves the block with its thread. *)
LEMMA WriteDoneInv ==
  ASSUME CoreInv, NEW t \in Threads, WriteDone(t)
  PROVE  CoreInv'
<1> USE DEF WriteDone, Registry!ReadUnlock
<1>1. t \in Threads /\ Goto(t, "asyncWrite", "free")
  BY DEF Threads
<1>2. PcTypeOK' /\ pc'[t] = "free" /\ \A u \in Threads \ {t} : pc'[u] = pc[u]
  BY <1>1, GotoType, CoreAssumption DEF CoreInv, TypeOK, CallerPC, WorkerPC
<1>3. TypeOK'
  BY <1>1, <1>2, PoolTypeFrame
     DEF CoreInv, TypeOK, RegistryTypeOK, AsyncTypeOK, ThreadTypeOK, MessageTypeOK, HistoryTypeOK, Threads
<1>4. Own'
  BY <1>1, <1>2, OwnFrame DEF CoreInv, Goto, Holding
<1> QED BY <1>3, <1>4 DEF CoreInv

(* The loop condition of a worker (log_core.c:258) is read without a block in hand. *)
LEMMA WorkerTopInv ==
  ASSUME CoreInv, NEW w \in Workers, WorkerTop(w)
  PROVE  CoreInv'
<1> USE DEF WorkerTop
<1> DEFINE next == IF running THEN "take" ELSE "stopping"
<1>1. /\ w \in Threads /\ Goto(w, "top", next)
      /\ next \in {"take", "stopping"}
  BY DEF Threads
<1> HIDE DEF next
<1>2. PcTypeOK' /\ pc'[w] = next /\ \A u \in Threads \ {w} : pc'[u] = pc[u]
  BY <1>1, GotoType, CoreAssumption DEF CoreInv, TypeOK, CallerPC, WorkerPC
<1>3. TypeOK'
  BY <1>1, <1>2, PoolTypeFrame
     DEF CoreInv, TypeOK, RegistryTypeOK, AsyncTypeOK, ThreadTypeOK, MessageTypeOK, HistoryTypeOK, Threads
<1>4. Own'
  BY <1>1, <1>2, OwnFrame DEF CoreInv, Goto, Holding
<1> QED BY <1>3, <1>4 DEF CoreInv

(* A worker sleeps (log_core.c:267) without a block in hand. *)
LEMMA WorkerWaitInv ==
  ASSUME CoreInv, NEW w \in Workers, WorkerWait(w)
  PROVE  CoreInv'
<1> USE DEF WorkerWait
<1>1. w \in Threads /\ Goto(w, "take", "waiting")
  BY DEF Threads
<1>2. PcTypeOK' /\ pc'[w] = "waiting" /\ \A u \in Threads \ {w} : pc'[u] = pc[u]
  BY <1>1, GotoType, CoreAssumption DEF CoreInv, TypeOK, CallerPC, WorkerPC
<1>3. TypeOK'
  BY <1>1, <1>2, PoolTypeFrame
     DEF CoreInv, TypeOK, RegistryTypeOK, AsyncTypeOK, ThreadTypeOK, MessageTypeOK, HistoryTypeOK, Threads
<1>4. Own'
  BY <1>1, <1>2, OwnFrame DEF CoreInv, Goto, Holding
<1> QED BY <1>3, <1>4 DEF CoreInv

(* A worker wakes up (log_core.c:267-269) without a block in hand. *)
LEMMA SpuriousWakeInv ==
  ASSUME CoreInv, NEW w \in Workers, SpuriousWake(w)
  PROVE  CoreInv'
<1> USE DEF SpuriousWake
<1>1. w \in Threads /\ Goto(w, "waiting", "top")
  BY DEF Threads
<1>2. PcTypeOK' /\ pc'[w] = "top" /\ \A u \in Threads \ {w} : pc'[u] = pc[u]
  BY <1>1, GotoType, CoreAssumption DEF CoreInv, TypeOK, CallerPC, WorkerPC
<1>3. TypeOK'
  BY <1>1, <1>2, PoolTypeFrame
     DEF CoreInv, TypeOK, RegistryTypeOK, AsyncTypeOK, ThreadTypeOK, MessageTypeOK, HistoryTypeOK, Threads
<1>4. Own'
  BY <1>1, <1>2, OwnFrame DEF CoreInv, Goto, Holding
<1> QED BY <1>3, <1>4 DEF CoreInv

(* A worker taking the read lock (log_core.c:275) keeps its block. *)
LEMMA WorkerRdLockInv ==
  ASSUME CoreInv, NEW w \in Workers, WorkerRdLock(w)
  PROVE  CoreInv'
<1> USE DEF WorkerRdLock, Registry!ReadLock
<1>1. w \in Threads /\ Goto(w, "rdlock", "asyncWrite")
  BY DEF Threads
<1>2. PcTypeOK' /\ pc'[w] = "asyncWrite" /\ \A u \in Threads \ {w} : pc'[u] = pc[u]
  BY <1>1, GotoType, CoreAssumption DEF CoreInv, TypeOK, CallerPC, WorkerPC
<1>3. TypeOK'
  BY <1>1, <1>2, PoolTypeFrame
     DEF CoreInv, TypeOK, RegistryTypeOK, AsyncTypeOK, ThreadTypeOK, MessageTypeOK, HistoryTypeOK, Threads
<1>4. Own'
  BY <1>1, <1>2, OwnFrame DEF CoreInv, Goto, Holding
<1> QED BY <1>3, <1>4 DEF CoreInv

(* A worker ends (log_core.c:282) without a block in hand. *)
LEMMA WorkerStopInv ==
  ASSUME CoreInv, NEW w \in Workers, WorkerStop(w)
  PROVE  CoreInv'
<1> USE DEF WorkerStop
<1>1. w \in Threads /\ Goto(w, "stopping", "none")
  BY DEF Threads
<1>2. PcTypeOK' /\ pc'[w] = "none" /\ \A u \in Threads \ {w} : pc'[u] = pc[u]
  BY <1>1, GotoType, CoreAssumption DEF CoreInv, TypeOK, CallerPC, WorkerPC
<1>3. TypeOK'
  BY <1>1, <1>2, PoolTypeFrame
     DEF CoreInv, TypeOK, RegistryTypeOK, AsyncTypeOK, ThreadTypeOK, MessageTypeOK, HistoryTypeOK, Threads
<1>4. Own'
  BY <1>1, <1>2, OwnFrame DEF CoreInv, Goto, Holding
<1> QED BY <1>3, <1>4 DEF CoreInv

(* The beginning of NengLogClear (log_core.c:290) moves no block. *)
LEMMA ClearBeginInv ==
  ASSUME CoreInv, NEW c \in Callers, ClearBegin(c)
  PROVE  CoreInv'
<1> USE DEF ClearBegin
<1> DEFINE next == IF enableAsync THEN "asked" ELSE "clearItem"
<1>1. /\ c \in Threads /\ Goto(c, "idle", next)
      /\ next \in {"asked", "clearItem"}
  BY DEF Threads
<1> HIDE DEF next
<1>2. PcTypeOK' /\ pc'[c] = next /\ \A u \in Threads \ {c} : pc'[u] = pc[u]
  BY <1>1, GotoType, CoreAssumption DEF CoreInv, TypeOK, CallerPC, WorkerPC
<1>3. TypeOK'
  BY <1>1, <1>2, PoolTypeFrame
     DEF CoreInv, TypeOK, RegistryTypeOK, AsyncTypeOK, ThreadTypeOK, MessageTypeOK, HistoryTypeOK, Threads
<1>4. Own'
  BY <1>1, <1>2, OwnFrame DEF CoreInv, Goto, Holding
<1> QED BY <1>3, <1>4 DEF CoreInv

(* Asking for _async_running and setting the polls to 0 (log_core.c:290-295) moves no block. *)
LEMMA ClearAskInv ==
  ASSUME CoreInv, NEW c \in Callers, ClearAsk(c)
  PROVE  CoreInv'
<1> USE DEF ClearAsk
<1> DEFINE next == IF running THEN "poll" ELSE "clearItem"
<1>1. /\ c \in Threads /\ Goto(c, "asked", next)
      /\ next \in {"poll", "clearItem"}
  BY DEF Threads
<1> HIDE DEF next
<1>2. PcTypeOK' /\ pc'[c] = next /\ \A u \in Threads \ {c} : pc'[u] = pc[u]
  BY <1>1, GotoType, CoreAssumption DEF CoreInv, TypeOK, CallerPC, WorkerPC
<1>3. ThreadTypeOK'
  <2>1. ThreadTypeOK /\ MaxPolls \in Nat \ {0}
    BY CoreAssumption DEF CoreInv, TypeOK
  <2>2. polls' = [polls EXCEPT ![c] = 0] /\ UNCHANGED <<item, todo, calls>>
    OBVIOUS
  <2>3. polls' \in [Callers -> 0 .. MaxPolls]
    <3>1. 0 \in 0 .. MaxPolls
      BY <2>1
    <3> QED BY <2>1, <2>2, <3>1 DEF ThreadTypeOK
  <2>4. ASSUME NEW u \in Callers, pc'[u] = "poll" PROVE polls'[u] < MaxPolls
    <3>1. CASE u = c
      BY <2>1, <2>2, <3>1 DEF ThreadTypeOK
    <3>2. CASE u # c
      BY <2>1, <2>2, <2>4, <1>2, <3>2 DEF ThreadTypeOK, Threads
    <3> QED BY <3>1, <3>2
  <2> QED BY <2>1, <2>2, <2>3, <2>4 DEF ThreadTypeOK
<1>4. TypeOK'
  BY <1>1, <1>2, <1>3, PoolTypeFrame
     DEF CoreInv, TypeOK, RegistryTypeOK, AsyncTypeOK, MessageTypeOK, HistoryTypeOK, Threads
<1>5. Own'
  BY <1>1, <1>2, OwnFrame DEF CoreInv, Goto, Holding
<1> QED BY <1>4, <1>5 DEF CoreInv

(* A look at the queue (log_core.c:297-299) moves no block, and the polls stay below their limit. *)
LEMMA ClearPollInv ==
  ASSUME CoreInv, NEW c \in Callers, ClearPoll(c)
  PROVE  CoreInv'
<1> USE DEF ClearPoll
<1> DEFINE next == IF PollsOver(c) THEN "stop" ELSE "poll"
<1>1. /\ c \in Threads /\ Goto(c, "poll", next)
      /\ next \in {"stop", "poll"}
      /\ next = "poll" => polls[c] + 1 # MaxPolls
  BY DEF Threads, PollsOver
<1> HIDE DEF next
<1>2. PcTypeOK' /\ pc'[c] = next /\ \A u \in Threads \ {c} : pc'[u] = pc[u]
  BY <1>1, GotoType, CoreAssumption DEF CoreInv, TypeOK, CallerPC, WorkerPC
<1>3. ThreadTypeOK'
  BY <1>1, <1>2, CoreAssumption DEF CoreInv, TypeOK, ThreadTypeOK, Threads, Goto
<1>4. TypeOK'
  BY <1>1, <1>2, <1>3, PoolTypeFrame
     DEF CoreInv, TypeOK, RegistryTypeOK, AsyncTypeOK, MessageTypeOK, HistoryTypeOK, Threads
<1>5. Own'
  BY <1>1, <1>2, OwnFrame DEF CoreInv, Goto, Holding
<1> QED BY <1>4, <1>5 DEF CoreInv

(* Clearing the flag (log_core.c:303) moves no block. *)
LEMMA ClearStopInv ==
  ASSUME CoreInv, NEW c \in Callers, ClearStop(c)
  PROVE  CoreInv'
<1> USE DEF ClearStop
<1>1. c \in Threads /\ Goto(c, "stop", "clearItem")
  BY DEF Threads
<1>2. PcTypeOK' /\ pc'[c] = "clearItem" /\ \A u \in Threads \ {c} : pc'[u] = pc[u]
  BY <1>1, GotoType, CoreAssumption DEF CoreInv, TypeOK, CallerPC, WorkerPC
<1>3. AsyncTypeOK'
  <2>1. stops' \in Nat
    BY DEF CoreInv, TypeOK, AsyncTypeOK
  <2> QED BY <2>1 DEF CoreInv, TypeOK, AsyncTypeOK
<1>4. TypeOK'
  BY <1>1, <1>2, <1>3, PoolTypeFrame
     DEF CoreInv, TypeOK, RegistryTypeOK, ThreadTypeOK, MessageTypeOK, HistoryTypeOK, Threads
<1>5. Own'
  BY <1>1, <1>2, OwnFrame DEF CoreInv, Goto, Holding
<1> QED BY <1>4, <1>5 DEF CoreInv

(* NengLogClearAppender moves no block. *)
LEMMA ClearAppendersInv ==
  ASSUME CoreInv, NEW c \in Callers, ClearAppenders(c)
  PROVE  CoreInv'
<1> USE DEF ClearAppenders, Registry!ClearAppender
<1>1. c \in Threads /\ Goto(c, "clearAppender", "idle")
  BY DEF Threads
<1>2. PcTypeOK' /\ pc'[c] = "idle" /\ \A u \in Threads \ {c} : pc'[u] = pc[u]
  BY <1>1, GotoType, CoreAssumption DEF CoreInv, TypeOK, CallerPC, WorkerPC
<1>3. RegistryTypeOK'
  BY <1>1, <1>2, EmptySeq DEF CoreInv, TypeOK, RegistryTypeOK, Registry!Listed, Registry!ToSet
<1>4. TypeOK'
  BY <1>1, <1>2, <1>3, PoolTypeFrame
     DEF CoreInv, TypeOK, AsyncTypeOK, ThreadTypeOK, MessageTypeOK, HistoryTypeOK, Threads
<1>5. Own'
  BY <1>1, <1>2, OwnFrame DEF CoreInv, Goto, Holding
<1> QED BY <1>4, <1>5 DEF CoreInv

(* A call of writer_fn (log_core.c:245-250) reads the block only. *)
LEMMA WriteOneInv ==
  ASSUME CoreInv, NEW t \in Threads, WriteOne(t)
  PROVE  CoreInv'
<1> USE DEF WriteOne
<1>1. Head(todo[t]) \in Appenders /\ Tail(todo[t]) \in Seq(Appenders)
  BY HeadTailProperties DEF CoreInv, TypeOK, ThreadTypeOK
<1>2. ThreadTypeOK'
  BY <1>1 DEF CoreInv, TypeOK, ThreadTypeOK
<1>3. HistoryTypeOK'
  <2>1. ASSUME <<Head(todo[t]), content[item[t]]>> \in Hits
        PROVE  Append(written[Head(todo[t])], content[item[t]]) \in Seq(Message)
    BY <1>1, <2>1, CoreAssumption, AppendProperties DEF CoreInv, TypeOK, HistoryTypeOK
  <2> QED BY <1>1, <2>1 DEF CoreInv, TypeOK, HistoryTypeOK
<1>4. TypeOK'
  BY <1>2, <1>3, PoolTypeFrame DEF CoreInv, TypeOK, RegistryTypeOK, AsyncTypeOK, PcTypeOK, MessageTypeOK
<1>5. Own'
  BY OwnFrame DEF CoreInv
<1> QED BY <1>4, <1>5 DEF CoreInv

(* Waking the workers (log_core.c:320) moves no block. *)
LEMMA BroadcastInv ==
  ASSUME CoreInv, NEW c \in Callers, Broadcast(c)
  PROVE  CoreInv'
<1> USE DEF Broadcast
<1>1. PcTypeOK'
  BY CoreAssumption DEF CoreInv, TypeOK, PcTypeOK, Threads, CallerPC, WorkerPC, Awakened
<1>2. \A t \in Threads : /\ pc'[t] \in Holding <=> pc[t] \in Holding
                         /\ pc'[t] = "poll" => pc[t] = "poll"
  BY CoreAssumption DEF CoreInv, TypeOK, PcTypeOK, Threads, Holding, Awakened
<1>3. TypeOK'
  BY <1>1, <1>2, PoolTypeFrame
     DEF CoreInv, TypeOK, RegistryTypeOK, AsyncTypeOK, ThreadTypeOK, MessageTypeOK,
         HistoryTypeOK, Threads
<1>4. Own'
  BY <1>2, OwnFrame DEF CoreInv
<1> QED BY <1>3, <1>4 DEF CoreInv

(* Changing the mode (log_core.c:227-230) moves no block. *)
LEMMA EnableAsyncInv ==
  ASSUME CoreInv, NEW b \in BOOLEAN, EnableAsync(b)
  PROVE  CoreInv'
<1> USE DEF EnableAsync
<1>1. TypeOK'
  BY PoolTypeFrame
     DEF CoreInv, TypeOK, RegistryTypeOK, AsyncTypeOK, PcTypeOK, ThreadTypeOK, MessageTypeOK, HistoryTypeOK
<1>2. Own'
  BY OwnFrame DEF CoreInv
<1> QED BY <1>1, <1>2 DEF CoreInv

(* NengLogAddAppender moves no block. *)
LEMMA AddAppenderInv ==
  ASSUME CoreInv, NEW a \in Appenders, AddAppender(a)
  PROVE  CoreInv'
<1> USE DEF AddAppender, Registry!AddAppender
<1>1. RegistryTypeOK'
  <2>1. Append(syncList, a) \in Seq(Appenders) /\ Append(asyncList, a) \in Seq(Appenders)
    BY AppendProperties DEF CoreInv, TypeOK, RegistryTypeOK
  <2> QED BY <2>1 DEF CoreInv, TypeOK, RegistryTypeOK
<1>2. TypeOK'
  BY <1>1, PoolTypeFrame
     DEF CoreInv, TypeOK, AsyncTypeOK, PcTypeOK, ThreadTypeOK, MessageTypeOK, HistoryTypeOK
<1>3. Own'
  BY OwnFrame DEF CoreInv
<1> QED BY <1>2, <1>3 DEF CoreInv

(* NengLogClose taking the read lock (log_core.c:528) moves no block. *)
LEMMA CloseBeginInv ==
  ASSUME CoreInv, NEW c \in Callers, CloseBegin(c)
  PROVE  CoreInv'
<1> USE DEF CloseBegin, Registry!ReadLock
<1>1. c \in Threads /\ Goto(c, "idle", "closing")
  BY DEF Threads
<1>2. PcTypeOK' /\ pc'[c] = "closing" /\ \A u \in Threads \ {c} : pc'[u] = pc[u]
  BY <1>1, GotoType, CoreAssumption DEF CoreInv, TypeOK, CallerPC
<1>3. asyncList \o syncList \in Seq(Appenders)
  BY ConcatProperties DEF CoreInv, TypeOK, RegistryTypeOK
<1>4. ThreadTypeOK'
  BY <1>1, <1>2, <1>3 DEF CoreInv, TypeOK, ThreadTypeOK, Threads
<1>5. TypeOK'
  BY <1>1, <1>2, <1>4, PoolTypeFrame
     DEF CoreInv, TypeOK, RegistryTypeOK, AsyncTypeOK, MessageTypeOK, HistoryTypeOK
<1>6. Own'
  BY <1>1, <1>2, OwnFrame DEF CoreInv, Goto, Holding
<1> QED BY <1>5, <1>6 DEF CoreInv

(* One close_fn (log_core.c:530-548) moves no block. *)
LEMMA CloseOneInv ==
  ASSUME CoreInv, NEW c \in Callers, CloseOne(c)
  PROVE  CoreInv'
<1> USE DEF CloseOne
<1>1. c \in Threads /\ Tail(todo[c]) \in Seq(Appenders)
  BY HeadTailProperties DEF CoreInv, TypeOK, ThreadTypeOK, Threads
<1>2. ThreadTypeOK'
  BY <1>1 DEF CoreInv, TypeOK, ThreadTypeOK
<1>3. TypeOK'
  BY <1>2, PoolTypeFrame
     DEF CoreInv, TypeOK, RegistryTypeOK, AsyncTypeOK, PcTypeOK, MessageTypeOK, HistoryTypeOK
<1>4. Own'
  BY OwnFrame DEF CoreInv
<1> QED BY <1>3, <1>4 DEF CoreInv

(* NengLogClose giving the read lock up (log_core.c:550) moves no block. *)
LEMMA CloseDoneInv ==
  ASSUME CoreInv, NEW c \in Callers, CloseDone(c)
  PROVE  CoreInv'
<1> USE DEF CloseDone, Registry!ReadUnlock
<1>1. c \in Threads /\ Goto(c, "closing", "idle")
  BY DEF Threads
<1>2. PcTypeOK' /\ pc'[c] = "idle" /\ \A u \in Threads \ {c} : pc'[u] = pc[u]
  BY <1>1, GotoType, CoreAssumption DEF CoreInv, TypeOK, CallerPC
<1>3. TypeOK'
  BY <1>1, <1>2, PoolTypeFrame
     DEF CoreInv, TypeOK, RegistryTypeOK, AsyncTypeOK, ThreadTypeOK, MessageTypeOK, HistoryTypeOK, Threads
<1>4. Own'
  BY <1>1, <1>2, OwnFrame DEF CoreInv, Goto, Holding
<1> QED BY <1>3, <1>4 DEF CoreInv

(* NengLogRemoveAppender moves no block. *)
LEMMA RemoveAppenderInv ==
  ASSUME CoreInv, NEW a \in Appenders, RemoveAppender(a)
  PROVE  CoreInv'
<1> USE DEF RemoveAppender, Registry!RemoveAppender
<1>1. RegistryTypeOK'
  BY DroppedType DEF CoreInv, TypeOK, RegistryTypeOK
<1>2. TypeOK'
  BY <1>1, PoolTypeFrame
     DEF CoreInv, TypeOK, AsyncTypeOK, PcTypeOK, ThreadTypeOK, MessageTypeOK, HistoryTypeOK
<1>3. Own'
  BY OwnFrame DEF CoreInv
<1> QED BY <1>2, <1>3 DEF CoreInv
(* _NengLogV gives the caller a block that nobody else has (log_core.c:458-487). *)
LEMMA LogVInv ==
  ASSUME CoreInv, NEW c \in Callers, NEW n \in Lengths, NEW sync \in BOOLEAN, NEW i \in Items,
         LogV(c, n, sync, i)
  PROVE  CoreInv'
<1> USE DEF LogV
<1>1. c \in Threads /\ Goto(c, "idle", "rdlock")
  BY DEF Threads
<1>2. PcTypeOK' /\ pc'[c] = "rdlock" /\ \A u \in Threads \ {c} : pc'[u] = pc[u]
  BY <1>1, GotoType, CoreAssumption DEF CoreInv, TypeOK, CallerPC
<1>3. Pool!AllocPooled(i, n) \/ Pool!AllocFresh(i, n)
  BY DEF Pool!AllocItem
<1>4. /\ i \notin ToSet(queue) \union Held
      /\ itemList' = itemList \ {i}
      /\ Pool!Live' = Pool!Live \union {i}
  <2>1. CASE Pool!AllocPooled(i, n)
    BY <2>1 DEF Pool!AllocPooled, CoreInv, Own, OneOwner, NoLeak, Pool!Live
  <2>2. CASE Pool!AllocFresh(i, n)
    <3>1. Pool!BlockSize(n) # 0
      BY CoreAssumption DEF Pool!BlockSize, Pool!ItemAssumption
    <3>2. i \notin Pool!Live /\ i \notin itemList
      BY <2>2 DEF Pool!AllocFresh, CoreInv, Own, NoLeak
    <3>3. Pool!Live' = Pool!Live \union {i}
      BY <2>2, <3>1 DEF Pool!AllocFresh, CoreInv, TypeOK, Pool!ItemTypeOK, Pool!Live
    <3> QED BY <2>2, <3>2, <3>3 DEF Pool!AllocFresh, CoreInv, Own, NoLeak
  <2> QED BY <1>3, <2>1, <2>2
<1>5. Pool!ItemTypeOK'
  <2>1. CASE Pool!AllocPooled(i, n)
    <3>1. itemListSize' \in -IntMax - 1 .. IntMax
      BY <2>1, CoreAssumption
         DEF Pool!AllocPooled, Pool!Decremented, Pool!ItemAssumption, CoreInv, TypeOK, Pool!ItemTypeOK
    <3> QED BY <2>1, <3>1, CoreAssumption
            DEF Pool!AllocPooled, Pool!ItemAssumption, CoreInv, TypeOK, Pool!ItemTypeOK
  <2>2. CASE Pool!AllocFresh(i, n)
    <3>1. Pool!BlockSize(n) \in Nat /\ n \in Nat
      BY CoreAssumption DEF Pool!BlockSize, Pool!ItemAssumption
    <3> QED BY <2>2, <3>1 DEF Pool!AllocFresh, CoreInv, TypeOK, Pool!ItemTypeOK
  <2> QED BY <1>3, <2>1, <2>2
<1>6. <<c, calls[c] + 1>> \in Message /\ calls[c] + 1 \in 0 .. MaxCalls
  BY CoreAssumption DEF CoreInv, TypeOK, ThreadTypeOK, Message
<1>7. ThreadTypeOK'
  BY <1>1, <1>2, <1>6 DEF CoreInv, TypeOK, ThreadTypeOK, Threads
<1>8. MessageTypeOK'
  BY <1>6 DEF CoreInv, TypeOK, MessageTypeOK
<1>9. TypeOK'
  BY <1>2, <1>5, <1>7, <1>8 DEF CoreInv, TypeOK, RegistryTypeOK, AsyncTypeOK, HistoryTypeOK
<1>10. pc[c] \notin Holding /\ item'[c] = i /\ \A u \in Threads \ {c} : item'[u] = item[u]
  BY <1>1 DEF Goto, Holding, CoreInv, TypeOK, ThreadTypeOK
<1>11. Held' = Held \union {i}
  BY <1>1, <1>2, <1>10 DEF Held, Holding
<1>12. ToSet(queue)' = ToSet(queue) /\ UNCHANGED queue
  BY DEF ToSet
<1>13. OneOwner'
  <2>1. \A u \in Threads : pc[u] \in Holding => item[u] # i
    BY <1>4 DEF Held
  <2>2. \A t, u \in Threads :
          pc'[t] \in Holding /\ pc'[u] \in Holding /\ item'[t] = item'[u] => t = u
    BY <1>2, <1>10, <2>1 DEF CoreInv, Own, OneOwner
  <2>3. itemList' \intersect Held' = {} /\ ToSet(queue)' \intersect (itemList' \union Held') = {}
    BY <1>4, <1>11, <1>12 DEF CoreInv, Own, OneOwner
  <2> QED BY <1>12, <2>2, <2>3 DEF CoreInv, Own, OneOwner
<1>14. NoLeak'
  BY <1>4, <1>11, <1>12 DEF CoreInv, Own, NoLeak
<1>15. HoldersHaveItems'
  BY <1>2, <1>10 DEF CoreInv, Own, HoldersHaveItems, Holding
<1>16. Filled'
  BY <1>4, <1>6, CoreAssumption DEF CoreInv, Own, Filled, Pool!HandedOut, TypeOK, MessageTypeOK
<1> QED BY <1>9, <1>13, <1>14, <1>15, <1>16 DEF CoreInv, Own
(* A thread that puts its block down: no other thread holds it. *)
LEMMA PutDown ==
  ASSUME CoreInv, NEW t \in Threads, pc[t] \in Holding,
         \A u \in Threads \ {t} : pc'[u] \in Holding <=> pc[u] \in Holding,
         pc'[t] \notin Holding,
         item' = [item EXCEPT ![t] = NoItem]
  PROVE  /\ item[t] \in Items /\ item[t] \in Held
         /\ item[t] \notin itemList \union ToSet(queue)
         /\ Held' = Held \ {item[t]}
         /\ HoldersHaveItems'
         /\ \A u, v \in Threads :
              pc'[u] \in Holding /\ pc'[v] \in Holding /\ item'[u] = item'[v] => u = v
<1>1. item'[t] = NoItem /\ \A u \in Threads \ {t} : item'[u] = item[u]
  BY DEF CoreInv, TypeOK, ThreadTypeOK
<1>2. item[t] \in Items
  BY DEF CoreInv, Own, HoldersHaveItems
<1>3. item[t] \in Held
  BY DEF Held
<1>4. item[t] \notin itemList \union ToSet(queue)
  BY <1>3 DEF CoreInv, Own, OneOwner
<1>5. \A u \in Threads \ {t} : pc[u] \in Holding => item[u] # item[t]
  BY DEF CoreInv, Own, OneOwner
<1>6. Held' = Held \ {item[t]}
  BY <1>1, <1>5 DEF Held
<1>7. HoldersHaveItems'
  BY <1>1 DEF CoreInv, Own, HoldersHaveItems
<1>8. \A u, v \in Threads :
        pc'[u] \in Holding /\ pc'[v] \in Holding /\ item'[u] = item'[v] => u = v
  BY <1>1 DEF CoreInv, Own, OneOwner
<1> QED BY <1>2, <1>3, <1>4, <1>6, <1>7, <1>8

(* NengLogFreeItem keeps the types of the pool. *)
LEMMA FreeItemType ==
  ASSUME Pool!ItemTypeOK, NEW i, Pool!FreeItem(i)
  PROVE  Pool!ItemTypeOK'
<1>1. CASE Pool!Pooled(i)
  BY <1>1 DEF Pool!FreeItem, Pool!HandedOut, Pool!Live, Pool!ItemTypeOK
<1>2. CASE ~Pool!Pooled(i)
  BY <1>2 DEF Pool!FreeItem, Pool!HandedOut, Pool!Live, Pool!ItemTypeOK
<1> QED BY <1>1, <1>2

(* NengLogFreeItem takes the block from its thread and pools it or gives it back to the system. *)
LEMMA FreeInv ==
  ASSUME CoreInv, NEW t \in Threads, Free(t)
  PROVE  CoreInv'
<1> USE DEF Free
<1> DEFINE i == item[t]
<1>1. Goto(t, "free", AfterFree(t)) /\ AfterFree(t) \notin Holding /\ AfterFree(t) # "poll"
  BY DEF AfterFree, Holding
<1>2. PcTypeOK' /\ pc'[t] = AfterFree(t) /\ \A u \in Threads \ {t} : pc'[u] = pc[u]
  BY <1>1, GotoType, CoreAssumption DEF CoreInv, TypeOK, CallerPC, WorkerPC, AfterFree
<1>3. pc[t] \in Holding
  BY <1>1 DEF Goto, Holding
<1>4. /\ i \in Items /\ i \in Held
      /\ i \notin itemList \union ToSet(queue)
      /\ Held' = Held \ {i}
      /\ HoldersHaveItems'
      /\ \A u, v \in Threads :
           pc'[u] \in Holding /\ pc'[v] \in Holding /\ item'[u] = item'[v] => u = v
  BY <1>1, <1>2, <1>3, PutDown
<1> HIDE DEF i
<1>5. /\ Pool!ItemTypeOK'
      /\ \/ itemList' = itemList \union {i} /\ Pool!Live' = Pool!Live
         \/ itemList' = itemList /\ Pool!Live' = Pool!Live \ {i}
      /\ Pool!HandedOut' = Pool!HandedOut \ {i}
  <2>1. Pool!FreeItem(i)
    BY DEF i
  <2>2. Pool!ItemTypeOK'
    BY <2>1, FreeItemType DEF CoreInv, TypeOK
  <2>3. CASE Pool!Pooled(i)
    BY <2>1, <2>2, <2>3 DEF Pool!FreeItem, Pool!Live, Pool!HandedOut
  <2>4. CASE ~Pool!Pooled(i)
    BY <2>1, <2>2, <2>4, <1>4 DEF Pool!FreeItem, Pool!Live, Pool!HandedOut, CoreInv, TypeOK, Pool!ItemTypeOK
  <2> QED BY <2>2, <2>3, <2>4
<1>6. ThreadTypeOK'
  BY <1>1, <1>2 DEF CoreInv, TypeOK, ThreadTypeOK, Threads
<1>7. MessageTypeOK' /\ \A j \in Items \ {i} : content'[j] = content[j]
  BY DEF CoreInv, TypeOK, MessageTypeOK, i
<1>8. TypeOK'
  BY <1>2, <1>5, <1>6, <1>7 DEF CoreInv, TypeOK, RegistryTypeOK, AsyncTypeOK, HistoryTypeOK
<1>9. ToSet(queue)' = ToSet(queue) /\ UNCHANGED queue
  BY DEF ToSet
<1>10. OneOwner'
  BY <1>4, <1>5, <1>9 DEF CoreInv, Own, OneOwner
<1>11. NoLeak'
  BY <1>4, <1>5, <1>9 DEF CoreInv, Own, NoLeak
<1>12. Filled'
  BY <1>5, <1>7 DEF CoreInv, Own, Filled, Pool!HandedOut, Pool!Live
<1> QED BY <1>4, <1>8, <1>10, <1>11, <1>12 DEF CoreInv, Own

(* NengLogWriteAsync moves the block from the caller to the queue (log_core.c:309). *)
LEMMA EnqueueInv ==
  ASSUME CoreInv, NEW c \in Callers, Enqueue(c)
  PROVE  CoreInv'
<1> USE DEF Enqueue
<1> DEFINE i == item[c]
<1>1. c \in Threads /\ pc[c] = "enqueue"
  BY DEF Threads
<1> DEFINE OneStarted == \A u \in Threads \ {c} :
             pc'[u] = pc[u] \/ (u \in Workers /\ pc[u] = "none" /\ pc'[u] = "top")
<1>2. PcTypeOK' /\ pc'[c] = "bcast" /\ OneStarted /\ running' \in BOOLEAN
  <2>1. CASE NoNewWorker(c)
    BY <2>1, <1>1, CoreAssumption
       DEF NoNewWorker, EnsureWorker, CoreInv, TypeOK, PcTypeOK, AsyncTypeOK, Threads, CallerPC
  <2>2. ASSUME NEW w \in Workers, pc[w] = "none", StartWorker(c, w), running' = TRUE
        PROVE  PcTypeOK' /\ pc'[c] = "bcast" /\ OneStarted
    BY <2>2, <1>1, CoreAssumption
       DEF StartWorker, CoreInv, TypeOK, PcTypeOK, Threads, CallerPC, WorkerPC
  <2> QED BY <2>1, <2>2 DEF EnsureWorker, CoreInv, TypeOK, AsyncTypeOK
<1>3. /\ i \in Items /\ i \in Held
      /\ i \notin itemList \union ToSet(queue)
      /\ Held' = Held \ {i}
      /\ HoldersHaveItems'
      /\ \A u, v \in Threads :
           pc'[u] \in Holding /\ pc'[v] \in Holding /\ item'[u] = item'[v] => u = v
  BY <1>1, <1>2, PutDown DEF Holding
<1> HIDE DEF i
<1>4. queue' = Append(queue, i)
  BY DEF Inserted, i
<1>5. /\ queue' \in Seq(Items)
      /\ ToSet(queue') = ToSet(queue) \union {i}
      /\ IsInjective(queue')
  BY <1>3, <1>4, AppendDistinct DEF CoreInv, TypeOK, AsyncTypeOK, Own, OneOwner
<1>6. content[i] \in Message
  BY <1>3 DEF CoreInv, Own, NoLeak, Filled, Pool!HandedOut, TypeOK, MessageTypeOK
<1>7. HistoryTypeOK'
  BY <1>6, AppendProperties DEF CoreInv, TypeOK, HistoryTypeOK, i
<1>8. ThreadTypeOK'
  BY <1>1, <1>2, CoreAssumption DEF CoreInv, TypeOK, ThreadTypeOK, Threads
<1>9. TypeOK'
  BY <1>2, <1>5, <1>7, <1>8, PoolTypeFrame DEF CoreInv, TypeOK, RegistryTypeOK, AsyncTypeOK, MessageTypeOK
<1>10. OneOwner'
  BY <1>3, <1>5 DEF CoreInv, Own, OneOwner, ToSet
<1>11. NoLeak' /\ Filled'
  BY <1>3, <1>5 DEF CoreInv, Own, NoLeak, Filled, Pool!Live, Pool!HandedOut, ToSet
<1> QED BY <1>3, <1>9, <1>10, <1>11 DEF CoreInv, Own

(* A worker moves the block from the queue into its hand (log_core.c:263-272). *)
LEMMA WorkerTakeInv ==
  ASSUME CoreInv, NEW w \in Workers, WorkerTake(w)
  PROVE  CoreInv'
<1> USE DEF WorkerTake
<1> DEFINE i == Head(queue)
<1>1. w \in Threads /\ Goto(w, "take", "rdlock")
  BY DEF Threads
<1>2. PcTypeOK' /\ pc'[w] = "rdlock" /\ \A u \in Threads \ {w} : pc'[u] = pc[u]
  BY <1>1, GotoType, CoreAssumption DEF CoreInv, TypeOK, WorkerPC
<1>3. /\ i \in Items /\ queue' \in Seq(Items)
      /\ ToSet(queue) = ToSet(queue') \union {i} /\ i \notin ToSet(queue')
      /\ IsInjective(queue')
  BY TailDistinct DEF CoreInv, TypeOK, AsyncTypeOK, Own, OneOwner
<1>4. pc[w] \notin Holding /\ item'[w] = i /\ \A u \in Threads \ {w} : item'[u] = item[u]
  BY <1>1 DEF Goto, Holding, CoreInv, TypeOK, ThreadTypeOK
<1> HIDE DEF i
<1>5. Held' = Held \union {i}
  BY <1>1, <1>2, <1>4 DEF Held, Holding
<1>6. ThreadTypeOK'
  BY <1>1, <1>2, <1>3, <1>4 DEF CoreInv, TypeOK, ThreadTypeOK, Threads, i
<1>7. TypeOK'
  BY <1>2, <1>3, <1>6, PoolTypeFrame
     DEF CoreInv, TypeOK, RegistryTypeOK, AsyncTypeOK, MessageTypeOK, HistoryTypeOK
<1>8. i \notin itemList \union Held
  BY <1>3 DEF CoreInv, Own, OneOwner
<1>9. OneOwner'
  <2>1. \A u \in Threads : pc[u] \in Holding => item[u] # i
    BY <1>8 DEF Held
  <2>2. \A t, u \in Threads :
          pc'[t] \in Holding /\ pc'[u] \in Holding /\ item'[t] = item'[u] => t = u
    BY <1>2, <1>4, <2>1 DEF CoreInv, Own, OneOwner
  <2> QED BY <1>3, <1>5, <1>8, <2>2 DEF CoreInv, Own, OneOwner, ToSet
<1>10. NoLeak' /\ Filled'
  BY <1>3, <1>5 DEF CoreInv, Own, NoLeak, Filled, Pool!Live, Pool!HandedOut, ToSet
<1>11. HoldersHaveItems'
  BY <1>2, <1>3, <1>4 DEF CoreInv, Own, HoldersHaveItems, Holding
<1> QED BY <1>7, <1>9, <1>10, <1>11 DEF CoreInv, Own

(* NengLogClearItem frees the pooled blocks, which nobody else has. *)
LEMMA ClearItemsInv ==
  ASSUME CoreInv, NEW c \in Callers, ClearItems(c)
  PROVE  CoreInv'
<1> USE DEF ClearItems, Pool!ClearItem
<1>1. c \in Threads /\ Goto(c, "clearItem", "clearAppender")
  BY DEF Threads
<1>2. PcTypeOK' /\ pc'[c] = "clearAppender" /\ \A u \in Threads \ {c} : pc'[u] = pc[u]
  BY <1>1, GotoType, CoreAssumption DEF CoreInv, TypeOK, CallerPC
<1>3. Pool!ItemTypeOK' /\ Pool!Live' = Pool!Live \ itemList /\ itemList' = {}
  BY DEF CoreInv, TypeOK, Pool!ItemTypeOK, Pool!Live
<1>4. ThreadTypeOK'
  BY <1>1, <1>2 DEF CoreInv, TypeOK, ThreadTypeOK, Threads
<1>5. TypeOK'
  BY <1>2, <1>3, <1>4
     DEF CoreInv, TypeOK, RegistryTypeOK, AsyncTypeOK, MessageTypeOK, HistoryTypeOK
<1>6. Held' = Held /\ ToSet(queue)' = ToSet(queue) /\ UNCHANGED queue
  BY <1>1, <1>2 DEF Held, Holding, Goto, ToSet
<1>7. HoldersHaveItems'
  BY <1>1, <1>2 DEF CoreInv, Own, HoldersHaveItems, Holding, Goto
<1>8. OneOwner'
  BY <1>1, <1>2, <1>3, <1>6 DEF CoreInv, Own, OneOwner, Holding, Goto
<1>9. NoLeak' /\ Filled'
  BY <1>3, <1>6 DEF CoreInv, Own, NoLeak, Filled, OneOwner, Pool!HandedOut
<1> QED BY <1>5, <1>7, <1>8, <1>9 DEF CoreInv, Own
(* A step that changes nothing keeps the invariant. *)
LEMMA StutterInv == CoreInv /\ UNCHANGED vars => CoreInv'
<1> SUFFICES ASSUME CoreInv, UNCHANGED vars PROVE CoreInv'
  OBVIOUS
<1> USE DEF vars
<1>1. TypeOK'
  BY PoolTypeFrame
     DEF CoreInv, TypeOK, RegistryTypeOK, AsyncTypeOK, PcTypeOK, ThreadTypeOK, MessageTypeOK, HistoryTypeOK
<1>2. Own'
  BY OwnFrame DEF CoreInv
<1> QED BY <1>1, <1>2 DEF CoreInv

(* Every step keeps the invariant. *)
LEMMA StepInv == CoreInv /\ [Next]_vars => CoreInv'
<1> SUFFICES ASSUME CoreInv, [Next]_vars PROVE CoreInv'
  OBVIOUS
<1>1. ASSUME NEW c \in Callers, CallerStep(c) PROVE CoreInv'
  <2>1. c \in Threads
    BY DEF Threads
  <2> QED
    BY <1>1, <2>1, CallerRdLockInv, WriteOneInv, WriteDirectInv, WriteLaterInv, WriteDoneInv, FreeInv,
       EnqueueInv, BroadcastInv, ClearAskInv, ClearPollInv, ClearStopInv, ClearItemsInv, ClearAppendersInv,
       CloseOneInv, CloseDoneInv
    DEF CallerStep
<1>2. ASSUME NEW w \in Workers, WorkerStep(w) PROVE CoreInv'
  <2>1. w \in Threads
    BY DEF Threads
  <2> QED
    BY <1>2, <2>1, WorkerTopInv, WorkerTakeInv, WorkerWaitInv, WorkerRdLockInv, WriteOneInv,
       WriteDoneInv, FreeInv, WorkerStopInv
    DEF WorkerStep
<1>3. CASE Environment
  BY <1>3, LogVInv, ClearBeginInv, CloseBeginInv, SpuriousWakeInv, EnableAsyncInv, AddAppenderInv,
         RemoveAppenderInv
  DEF Environment
<1>4. CASE UNCHANGED vars
  BY <1>4, StutterInv
<1> QED BY <1>1, <1>2, <1>3, <1>4 DEF Next

(* The invariant holds in every reachable state. *)
LEMMA CoreInvHolds == Spec => []CoreInv
BY InitInv, StepInv, PTL DEF Spec

(* For any number of threads, messages, appenders and blocks, every variable   *)
(* of the core keeps its type, and no poll is made beyond the limit.           *)
THEOREM CoreTypeCorrect == Spec => []TypeOK
BY CoreInvHolds, PTL DEF CoreInv

(* For any number of threads and workers, also after a shutdown: every block   *)
(* is on the free list, in the queue or with one thread, and in one place only. *)
THEOREM BlocksHaveOneOwner == Spec => []OneOwner
BY CoreInvHolds, PTL DEF CoreInv, Own

(* No block is lost: what is allocated is always in one of those places. *)
THEOREM NoBlockLeaks == Spec => []NoLeak
BY CoreInvHolds, PTL DEF CoreInv, Own

-----------------------------------------------------------------------------
(* The appender lists as the threads use them.                             *)

(* Taking an entry out of a list without duplicates takes the appender out of  *)
(* it, and leaves everything else.                                             *)
LEMMA DroppedDistinct ==
  ASSUME NEW S, NEW s \in Seq(S), NEW a, IsInjective(s)
  PROVE  /\ IsInjective(Registry!Dropped(s, a))
         /\ ToSet(Registry!Dropped(s, a)) = ToSet(s) \ {a}
<1> DEFINE k0 == CHOOSE k \in DOMAIN s : s[k] = a
           d == Registry!Dropped(s, a)
<1>1. Len(s) \in Nat /\ DOMAIN s = 1 .. Len(s) /\ \A k \in 1 .. Len(s) : s[k] \in S
  BY LenProperties, ElementOfSeq
<1>2. CASE Registry!Contains(s, a)
  <2>1. d = SubSeq(s, 1, k0 - 1) \o SubSeq(s, k0 + 1, Len(s))
    BY <1>2 DEF Registry!Dropped, Registry!RemoveAt
  <2>2. \E k \in DOMAIN s : s[k] = a
    BY <1>1, <1>2 DEF Registry!Contains
  <2>3. k0 \in 1 .. Len(s) /\ s[k0] = a
    BY <1>1, <2>2
  <2> HIDE DEF k0, d
  <2>4. /\ k0 - 1 \in Int /\ k0 + 1 \in Int /\ Len(s) \in Int /\ 1 \in Int
        /\ \A k \in 1 .. k0 - 1 : s[k] \in S
        /\ \A k \in k0 + 1 .. Len(s) : s[k] \in S
    BY <1>1, <2>3
  <2> DEFINE l == SubSeq(s, 1, k0 - 1)
             r == SubSeq(s, k0 + 1, Len(s))
  <2>5. l \in Seq(S) /\ Len(l) = k0 - 1 /\ \A k \in 1 .. k0 - 1 : l[k] = s[k]
    <3>1. /\ l \in Seq(S)
          /\ Len(l) = IF 1 <= k0 - 1 THEN k0 - 1 - 1 + 1 ELSE 0
          /\ \A k \in 1 .. k0 - 1 - 1 + 1 : l[k] = s[1 + k - 1]
      BY <2>4, SubSeqProperties
    <3> HIDE DEF l
    <3> QED BY <3>1, <2>3, <1>1
  <2>6. r \in Seq(S) /\ Len(r) = Len(s) - k0 /\ \A k \in 1 .. Len(s) - k0 : r[k] = s[k0 + k]
    <3>1. /\ r \in Seq(S)
          /\ Len(r) = IF k0 + 1 <= Len(s) THEN Len(s) - (k0 + 1) + 1 ELSE 0
          /\ \A k \in 1 .. Len(s) - (k0 + 1) + 1 : r[k] = s[k0 + 1 + k - 1]
      BY <2>4, SubSeqProperties
    <3> HIDE DEF r
    <3>2. Len(r) = Len(s) - k0
      <4>1. Len(r) = IF k0 + 1 <= Len(s) THEN Len(s) - (k0 + 1) + 1 ELSE 0
        BY <3>1
      <4>2. k0 \in Int /\ Len(s) \in Int /\ k0 <= Len(s)
        BY <2>3, <1>1
      <4> QED BY <4>1, <4>2
    <3>3. ASSUME NEW k \in 1 .. Len(s) - k0 PROVE r[k] = s[k0 + k]
      <4>1. k \in 1 .. Len(s) - (k0 + 1) + 1 /\ k0 + 1 + k - 1 = k0 + k
        BY <2>3, <1>1
      <4> QED BY <4>1, <3>1
    <3> QED BY <3>1, <3>2, <3>3
  <2> HIDE DEF l, r
  <2>7. d = l \o r
    BY <2>1 DEF l, r
  <2>8. /\ d \in Seq(S) /\ Len(d) = Len(s) - 1
        /\ \A k \in 1 .. Len(s) - 1 : d[k] = IF k < k0 THEN s[k] ELSE s[k + 1]
    <3>1. /\ d \in Seq(S) /\ Len(d) = Len(l) + Len(r)
          /\ \A k \in 1 .. Len(l) + Len(r) : d[k] = IF k <= Len(l) THEN l[k] ELSE r[k - Len(l)]
      BY <2>5, <2>6, <2>7, ConcatProperties
    <3>2. ASSUME NEW k \in 1 .. Len(s) - 1 PROVE d[k] = IF k < k0 THEN s[k] ELSE s[k + 1]
      <4>0. k \in 1 .. Len(l) + Len(r) /\ (k < k0 <=> k <= Len(l))
        BY <2>3, <2>5, <2>6, <1>1
      <4>1. CASE k < k0
        <5>1. k \in 1 .. k0 - 1
          BY <4>1, <2>3, <1>1
        <5> QED BY <4>0, <4>1, <5>1, <3>1, <2>5
      <4>2. CASE ~(k < k0)
        <5>1. k - Len(l) \in 1 .. Len(s) - k0 /\ k0 + (k - Len(l)) = k + 1
          BY <4>2, <2>3, <2>5, <1>1
        <5>2. d[k] = r[k - Len(l)]
          BY <4>0, <4>2, <3>1
        <5> QED BY <4>2, <5>1, <5>2, <2>6
      <4> QED BY <4>1, <4>2
    <3> QED BY <3>1, <3>2, <2>3, <2>5, <2>6, <1>1
  <2>9. DOMAIN d = 1 .. Len(s) - 1
    BY <2>8, LenProperties
  <2>10. IsInjective(d)
    <3>1. ASSUME NEW j \in 1 .. Len(s) - 1, NEW k \in 1 .. Len(s) - 1, d[j] = d[k] PROVE j = k
      <4>1. \A m, n \in 1 .. Len(s) : s[m] = s[n] => m = n
        BY <1>1 DEF IsInjective
      <4> QED BY <3>1, <4>1, <2>3, <2>8, <1>1
    <3> QED BY <3>1, <2>9 DEF IsInjective
  <2>11. ASSUME NEW k \in 1 .. Len(s) - 1 PROVE d[k] \in ToSet(s) \ {a}
    <3>1. \A m \in 1 .. Len(s) : m # k0 => s[m] # a
      BY <1>1, <2>3 DEF IsInjective
    <3>2. \E m \in 1 .. Len(s) : m # k0 /\ d[k] = s[m]
      BY <2>3, <2>8, <1>1
    <3> QED BY <3>1, <3>2, <1>1 DEF ToSet
  <2>12. ASSUME NEW m \in 1 .. Len(s), s[m] # a PROVE \E k \in 1 .. Len(s) - 1 : d[k] = s[m]
    <3>1. CASE m < k0
      BY <3>1, <2>3, <2>8, <1>1
    <3>2. CASE m > k0
      <4>1. m - 1 \in 1 .. Len(s) - 1 /\ ~(m - 1 < k0) /\ m - 1 + 1 = m
        BY <3>2, <2>3, <1>1
      <4> QED BY <4>1, <2>8
    <3> QED BY <3>1, <3>2, <2>12, <2>3, <1>1
  <2>13. ToSet(d) = ToSet(s) \ {a}
    <3>1. ToSet(d) \subseteq ToSet(s) \ {a}
      BY <2>9, <2>11 DEF ToSet
    <3>2. ASSUME NEW x \in ToSet(s) \ {a} PROVE x \in ToSet(d)
      <4>1. PICK m \in 1 .. Len(s) : s[m] = x
        BY <1>1 DEF ToSet
      <4>2. PICK k \in 1 .. Len(s) - 1 : d[k] = x
        BY <4>1, <3>2, <2>12
      <4> QED BY <4>2, <2>9 DEF ToSet
    <3> QED BY <3>1, <3>2
  <2> QED BY <2>10, <2>13 DEF d
<1>3. CASE ~Registry!Contains(s, a)
  <2>1. d = s
    BY <1>3 DEF Registry!Dropped
  <2>2. a \notin ToSet(s)
    BY <1>1, <1>3 DEF Registry!Contains, ToSet
  <2> QED BY <2>1, <2>2
<1> QED BY <1>2, <1>3
-----------------------------------------------------------------------------
Listed == ToSet(syncList) \union ToSet(asyncList)

(* The inductive invariant: what the walks and the lists hold is not released. *)
RegistryInv ==
  /\ ListedOnce
  /\ NoUseAfterRelease
  /\ Listed \intersect released = {}

(* The registered appenders of the registry are those of its two lists. *)
LEMMA RegistryListed == Registry!Listed = Listed
BY DEF Registry!Listed, Registry!ToSet, Listed, ToSet

(* The tail of a list has no entries of its own. *)
LEMMA ToSetTail ==
  ASSUME NEW S, NEW q \in Seq(S), q # <<>>
  PROVE  ToSet(Tail(q)) \subseteq ToSet(q)
BY TailDistinct

(* A step that leaves the lists, the lock and the walks alone and starts none. *)
LEMMA RegistryFrame ==
  ASSUME RegistryInv, UNCHANGED registryVars, UNCHANGED todo,
         \A t \in Threads : pc'[t] \in Reading => pc[t] \in Reading
  PROVE  RegistryInv'
BY DEF RegistryInv, ListedOnce, NoUseAfterRelease, Listed, ToSet, IsInjective

(* A thread that is not walking and does not begin to changes nothing for the walks. *)
LEMMA GotoFrame ==
  ASSUME PcTypeOK, RegistryInv, NEW t \in Threads, NEW from, NEW to, Goto(t, from, to),
         to \notin Reading, UNCHANGED registryVars, UNCHANGED todo
  PROVE  RegistryInv'
<1>1. \A u \in Threads : pc'[u] \in Reading => pc[u] \in Reading
  BY DEF PcTypeOK, Goto
<1> QED BY <1>1, RegistryFrame

(* NengLogClose walks both lists: the entries of two lists in a row are theirs. *)
LEMMA ToSetConcat ==
  ASSUME NEW S, NEW p \in Seq(S), NEW q \in Seq(S)
  PROVE  ToSet(p \o q) \subseteq ToSet(p) \union ToSet(q)
<1>1. /\ DOMAIN p = 1 .. Len(p) /\ DOMAIN q = 1 .. Len(q)
      /\ DOMAIN (p \o q) = 1 .. Len(p) + Len(q)
      /\ Len(p) \in Nat /\ Len(q) \in Nat
  BY ConcatProperties, LenProperties
<1>2. ASSUME NEW k \in 1 .. Len(p) + Len(q) PROVE (p \o q)[k] \in ToSet(p) \union ToSet(q)
  <2>1. CASE k <= Len(p)
    <3>1. (p \o q)[k] = p[k] /\ k \in DOMAIN p
      BY <1>1, <2>1, ConcatProperties
    <3> QED BY <3>1 DEF ToSet
  <2>2. CASE ~(k <= Len(p))
    <3>1. (p \o q)[k] = q[k - Len(p)] /\ k - Len(p) \in DOMAIN q
      BY <1>1, <2>2, ConcatProperties
    <3> QED BY <3>1 DEF ToSet
  <2> QED BY <2>1, <2>2
<1> QED BY <1>1, <1>2 DEF ToSet

(* A thread that begins to walk a list, with the lock or having just taken it. *)
LEMMA BeginWalk ==
  ASSUME CoreInv, RegistryInv, NEW t \in Threads, NEW from, NEW to, Goto(t, from, to),
         readers' = readers \union {t}, UNCHANGED <<syncList, asyncList, released>>,
         NEW s, ToSet(s) \subseteq Listed, todo' = [todo EXCEPT ![t] = s]
  PROVE  RegistryInv'
<1>1. /\ todo'[t] = s
      /\ \A u \in Threads \ {t} : todo'[u] = todo[u] /\ pc'[u] = pc[u]
  BY DEF CoreInv, TypeOK, ThreadTypeOK, PcTypeOK, Goto
<1>2. ToSet(todo'[t]) \subseteq Listed
  BY <1>1
<1>3. NoUseAfterRelease'
  BY <1>1, <1>2 DEF RegistryInv, NoUseAfterRelease, ToSet
<1> QED BY <1>3 DEF RegistryInv, ListedOnce, Listed, ToSet, IsInjective

(* A thread that ends its walk and gives the lock back. *)
LEMMA EndWalk ==
  ASSUME PcTypeOK, RegistryInv, NEW t \in Threads, NEW from, NEW to, Goto(t, from, to),
         to \notin Reading, readers' = readers \ {t},
         UNCHANGED <<syncList, asyncList, released, todo>>
  PROVE  RegistryInv'
<1>1. pc'[t] \notin Reading /\ \A u \in Threads \ {t} : pc'[u] = pc[u]
  BY DEF PcTypeOK, Goto
<1>2. NoUseAfterRelease'
  BY <1>1 DEF RegistryInv, NoUseAfterRelease, ToSet
<1> QED BY <1>2 DEF RegistryInv, ListedOnce, Listed, ToSet, IsInjective

(* A walk goes one appender on (log_core.c:236-253). *)
LEMMA WriteOneRegistry ==
  ASSUME CoreInv, RegistryInv, NEW t \in Threads, WriteOne(t)
  PROVE  RegistryInv'
<1> USE DEF WriteOne
<1>1. todo'[t] = Tail(todo[t]) /\ \A u \in Threads \ {t} : todo'[u] = todo[u]
  BY DEF CoreInv, TypeOK, ThreadTypeOK
<1>2. ToSet(todo'[t]) \subseteq ToSet(todo[t])
  BY <1>1, ToSetTail DEF CoreInv, TypeOK, ThreadTypeOK
<1>3. NoUseAfterRelease'
  BY <1>1, <1>2 DEF RegistryInv, NoUseAfterRelease
<1>4. UNCHANGED <<syncList, asyncList, released>>
  OBVIOUS
<1> HIDE DEF WriteOne
<1>5. ListedOnce' /\ Listed' = Listed
  BY <1>4 DEF RegistryInv, ListedOnce, Listed, ToSet, IsInjective
<1> QED BY <1>3, <1>4, <1>5 DEF RegistryInv

(* NengLogClose goes one appender on (log_core.c:530-548). *)
LEMMA CloseOneRegistry ==
  ASSUME CoreInv, RegistryInv, NEW c \in Callers, CloseOne(c)
  PROVE  RegistryInv'
<1> USE DEF CloseOne
<1>1. c \in Threads /\ todo'[c] = Tail(todo[c]) /\ \A u \in Threads \ {c} : todo'[u] = todo[u]
  BY DEF CoreInv, TypeOK, ThreadTypeOK, Threads
<1>2. ToSet(todo'[c]) \subseteq ToSet(todo[c])
  BY <1>1, ToSetTail DEF CoreInv, TypeOK, ThreadTypeOK
<1>3. NoUseAfterRelease'
  BY <1>1, <1>2 DEF RegistryInv, NoUseAfterRelease
<1>4. UNCHANGED <<syncList, asyncList, released>>
  OBVIOUS
<1> HIDE DEF CloseOne
<1>5. ListedOnce' /\ Listed' = Listed
  BY <1>4 DEF RegistryInv, ListedOnce, Listed, ToSet, IsInjective
<1> QED BY <1>3, <1>4, <1>5 DEF RegistryInv

(* While the lock is held exclusively there is no walk. *)
LEMMA NoWalk ==
  ASSUME RegistryInv, Registry!WriteLockFree
  PROVE  \A t \in Threads : pc[t] \notin Reading
BY DEF RegistryInv, NoUseAfterRelease, Registry!WriteLockFree

(* NengLogAddAppender lists an appender that was in neither list (log_appender.c:21-39). *)
LEMMA AddAppenderRegistry ==
  ASSUME CoreInv, RegistryInv, NEW a \in Appenders, AddAppender(a)
  PROVE  RegistryInv'
<1> USE DEF AddAppender, Registry!AddAppender
<1>1. a \notin Listed /\ a \notin released
  BY RegistryListed DEF Registry!Registered
<1>2. syncList \in Seq(Appenders) /\ asyncList \in Seq(Appenders)
  BY DEF CoreInv, TypeOK, RegistryTypeOK
<1>3. NoUseAfterRelease'
  BY NoWalk DEF NoUseAfterRelease
<1>4. CASE a \in DisableAsync
  <2>1. ToSet(syncList') = ToSet(syncList) \union {a} /\ IsInjective(syncList')
    <3>1. syncList' = Append(syncList, a)
      BY <1>4
    <3>2. a \notin ToSet(syncList) /\ IsInjective(syncList)
      BY <1>1 DEF RegistryInv, ListedOnce, Listed
    <3> QED BY <1>2, <3>1, <3>2, AppendDistinct
  <2>2. asyncList' = asyncList
    BY <1>4
  <2> QED BY <1>1, <1>3, <2>1, <2>2 DEF RegistryInv, ListedOnce, Listed
<1>5. CASE a \notin DisableAsync
  <2>1. ToSet(asyncList') = ToSet(asyncList) \union {a} /\ IsInjective(asyncList')
    <3>1. asyncList' = Append(asyncList, a)
      BY <1>5
    <3>2. a \notin ToSet(asyncList) /\ IsInjective(asyncList)
      BY <1>1 DEF RegistryInv, ListedOnce, Listed
    <3> QED BY <1>2, <3>1, <3>2, AppendDistinct
  <2>2. syncList' = syncList
    BY <1>5
  <2> QED BY <1>1, <1>3, <2>1, <2>2 DEF RegistryInv, ListedOnce, Listed
<1> QED BY <1>4, <1>5

(* NengLogRemoveAppender waits for the walks (log_appender.c:68) and releases what it has taken off the lists. *)
LEMMA RemoveAppenderRegistry ==
  ASSUME CoreInv, RegistryInv, NEW a \in Appenders, RemoveAppender(a)
  PROVE  RegistryInv'
<1> USE DEF RemoveAppender, Registry!RemoveAppender
<1>1. syncList \in Seq(Appenders) /\ asyncList \in Seq(Appenders)
  BY DEF CoreInv, TypeOK, RegistryTypeOK
<1>2. NoUseAfterRelease'
  BY NoWalk DEF NoUseAfterRelease
<1>3. IsInjective(syncList') /\ ToSet(syncList') = ToSet(syncList) \ {a}
  BY <1>1, DroppedDistinct DEF RegistryInv, ListedOnce
<1>4. CASE Registry!Contains(syncList, a)
  <2>1. a \in ToSet(syncList) /\ asyncList' = asyncList
    BY <1>1, <1>4, LenProperties DEF Registry!Contains, ToSet
  <2> QED BY <1>2, <1>3, <2>1 DEF RegistryInv, ListedOnce, Listed
<1>5. CASE ~Registry!Contains(syncList, a)
  <2>1. IsInjective(asyncList') /\ ToSet(asyncList') = ToSet(asyncList) \ {a}
    BY <1>1, <1>5, DroppedDistinct DEF RegistryInv, ListedOnce
  <2> QED BY <1>2, <1>3, <2>1 DEF RegistryInv, ListedOnce, Listed
<1> QED BY <1>4, <1>5

(* NengLogClearAppender waits for the walks (log_appender.c:113) and releases all. *)
LEMMA ClearAppendersRegistry ==
  ASSUME CoreInv, RegistryInv, NEW c \in Callers, ClearAppenders(c)
  PROVE  RegistryInv'
<1> USE DEF ClearAppenders, Registry!ClearAppender
<1>1. \A t \in Threads : pc'[t] \notin Reading
  BY NoWalk DEF CoreInv, TypeOK, PcTypeOK, Goto, Reading
<1>2. ToSet(syncList') = {} /\ ToSet(asyncList') = {} /\ IsInjective(syncList') /\ IsInjective(asyncList')
  BY DEF ToSet, IsInjective
<1> QED BY <1>1, <1>2 DEF RegistryInv, ListedOnce, NoUseAfterRelease, Listed

(* Every step of a caller keeps the invariant. *)
LEMMA CallerStepRegistry ==
  ASSUME CoreInv, RegistryInv, NEW c \in Callers, CallerStep(c)
  PROVE  RegistryInv'
<1>1. c \in Threads /\ c \notin Workers /\ PcTypeOK
  BY CoreAssumption DEF Threads, CoreInv, TypeOK
<1>2. CASE CallerRdLock(c)
  BY <1>1, <1>2, BeginWalk DEF CallerRdLock, Registry!ReadLock, Listed
<1>3. CASE WriteDirect(c)
  <2>1. readers' = readers \union {c}
    BY <1>1, <1>3 DEF WriteDirect, Goto, RegistryInv, NoUseAfterRelease, Reading
  <2> QED BY <1>1, <1>3, <2>1, BeginWalk DEF WriteDirect, Listed
<1>4. CASE WriteLater(c)
  <2>1. (IF NobodyWaits THEN "free" ELSE "enqueue") \notin Reading
    BY DEF Reading
  <2> QED BY <1>1, <1>4, <2>1, EndWalk DEF WriteLater, Registry!ReadUnlock
<1>5. CASE WriteDone(c)
  BY <1>1, <1>5, EndWalk DEF WriteDone, Registry!ReadUnlock, Reading
<1>6. CASE Free(c)
  <2>1. AfterFree(c) \notin Reading
    BY DEF AfterFree, Reading
  <2> QED BY <1>1, <1>6, <2>1, GotoFrame DEF Free
<1>7. CASE Enqueue(c)
  <2>1. \A t \in Threads : pc'[t] \in Reading => pc[t] \in Reading
    BY <1>1, <1>7 DEF Enqueue, EnsureWorker, StartWorker, NoNewWorker, PcTypeOK, Reading
  <2> QED BY <1>7, <2>1, RegistryFrame DEF Enqueue
<1>8. CASE Broadcast(c)
  <2>1. \A t \in Threads : pc'[t] \in Reading => pc[t] \in Reading
    BY <1>8 DEF Broadcast, Awakened, Reading
  <2> QED BY <1>8, <2>1, RegistryFrame DEF Broadcast
<1>9. CASE ClearPoll(c)
  <2>1. (IF PollsOver(c) THEN "stop" ELSE "poll") \notin Reading
    BY DEF Reading
  <2> QED BY <1>1, <1>9, <2>1, GotoFrame DEF ClearPoll
<1>10. CASE ClearStop(c) \/ ClearItems(c)
  BY <1>1, <1>10, GotoFrame DEF ClearStop, ClearItems, Reading
<1>11. CASE CloseDone(c)
  BY <1>1, <1>11, EndWalk DEF CloseDone, Registry!ReadUnlock, Reading
<1>12. CASE ClearAsk(c)
  <2>1. (IF running THEN "poll" ELSE "clearItem") \notin Reading
    BY DEF Reading
  <2> QED BY <1>1, <1>12, <2>1, GotoFrame DEF ClearAsk
<1> QED
  BY <1>1, <1>2, <1>3, <1>4, <1>5, <1>6, <1>7, <1>8, <1>9, <1>10, <1>11, <1>12, WriteOneRegistry,
     CloseOneRegistry, ClearAppendersRegistry
  DEF CallerStep

(* Every step of a worker keeps the invariant. *)
LEMMA WorkerStepRegistry ==
  ASSUME CoreInv, RegistryInv, NEW w \in Workers, WorkerStep(w)
  PROVE  RegistryInv'
<1>1. w \in Threads /\ PcTypeOK
  BY DEF Threads, CoreInv, TypeOK
<1>2. CASE WorkerTop(w)
  <2>1. (IF running THEN "take" ELSE "stopping") \notin Reading
    BY DEF Reading
  <2> QED BY <1>1, <1>2, <2>1, GotoFrame DEF WorkerTop
<1>3. CASE WorkerTake(w) \/ WorkerWait(w) \/ WorkerStop(w)
  BY <1>1, <1>3, GotoFrame DEF WorkerTake, WorkerWait, WorkerStop, Reading
<1>4. CASE WorkerRdLock(w)
  BY <1>1, <1>4, BeginWalk DEF WorkerRdLock, Registry!ReadLock, Listed
<1>5. CASE WriteDone(w)
  BY <1>1, <1>5, EndWalk DEF WriteDone, Registry!ReadUnlock, Reading
<1>6. CASE Free(w)
  <2>1. AfterFree(w) \notin Reading
    BY DEF AfterFree, Reading
  <2> QED BY <1>1, <1>6, <2>1, GotoFrame DEF Free
<1> QED BY <1>1, <1>2, <1>3, <1>4, <1>5, <1>6, WriteOneRegistry DEF WorkerStep

(* Every other step keeps the invariant. *)
LEMMA EnvironmentRegistry ==
  ASSUME CoreInv, RegistryInv, Environment
  PROVE  RegistryInv'
<1>1. PcTypeOK /\ Callers \subseteq Threads /\ Workers \subseteq Threads
  BY DEF CoreInv, TypeOK, Threads
<1>2. ASSUME NEW c \in Callers, NEW n \in Lengths, NEW sync \in BOOLEAN, NEW i \in Items, LogV(c, n, sync, i)
      PROVE  RegistryInv'
  BY <1>1, <1>2, GotoFrame DEF LogV, Reading
<1>3. ASSUME NEW c \in Callers, ClearBegin(c) PROVE RegistryInv'
  <2>1. (IF enableAsync THEN "asked" ELSE "clearItem") \notin Reading
    BY DEF Reading
  <2> QED BY <1>1, <1>3, <2>1, GotoFrame DEF ClearBegin
<1>4. ASSUME NEW w \in Workers, SpuriousWake(w) PROVE RegistryInv'
  BY <1>1, <1>4, GotoFrame DEF SpuriousWake, Reading
<1>5. ASSUME NEW b \in BOOLEAN, EnableAsync(b) PROVE RegistryInv'
  BY <1>5, RegistryFrame DEF EnableAsync
<1>6. ASSUME NEW c \in Callers, CloseBegin(c) PROVE RegistryInv'
  <2>1. ToSet(asyncList \o syncList) \subseteq Listed
    BY ToSetConcat DEF CoreInv, TypeOK, RegistryTypeOK, Listed
  <2> QED BY <1>1, <1>6, <2>1, BeginWalk DEF CloseBegin, Registry!ReadLock
<1> QED BY <1>2, <1>3, <1>4, <1>5, <1>6, AddAppenderRegistry, RemoveAppenderRegistry DEF Environment

(* The invariant holds in every reachable state. *)
LEMMA RegistryInvHolds == Spec => []RegistryInv
<1>1. Init => RegistryInv
  <2> SUFFICES ASSUME Init PROVE RegistryInv
    OBVIOUS
  <2>1. ToSet(syncList) = {} /\ ToSet(asyncList) = {} /\ IsInjective(syncList) /\ IsInjective(asyncList)
    BY DEF Init, Registry!RegistryInit, ToSet, IsInjective
  <2>2. \A t \in Threads : pc[t] \notin Reading
    BY DEF Init, Reading
  <2> QED BY <2>1, <2>2 DEF RegistryInv, ListedOnce, NoUseAfterRelease, Listed
<1>2. CoreInv /\ RegistryInv /\ [Next]_vars => RegistryInv'
  <2> SUFFICES ASSUME CoreInv, RegistryInv, [Next]_vars PROVE RegistryInv'
    OBVIOUS
  <2>1. CASE UNCHANGED vars
    BY <2>1, RegistryFrame DEF vars
  <2> QED BY <2>1, CallerStepRegistry, WorkerStepRegistry, EnvironmentRegistry DEF Next
<1> QED BY <1>1, <1>2, CoreInvHolds, PTL DEF Spec

(* However registrations, removals, shutdowns and the walks of any number of   *)
(* callers and workers interleave, writer_fn is never called for an appender   *)
(* that has been released.                                                     *)
THEOREM ReleasedAppendersRest == Spec => []NoUseAfterRelease
BY RegistryInvHolds, PTL DEF RegistryInv

(* An appender is on one of the lists, and once, or on none. *)
THEOREM AppendersListedOnce == Spec => []ListedOnce
BY RegistryInvHolds, PTL DEF RegistryInv

-----------------------------------------------------------------------------
(* Messages on their way.                                                  *)

(* The message of the block that a thread works on. *)
Msg(t) == content[item[t]]

Asynchronous == Appenders \ DisableAsync

(* No appender of S has written m. *)
Unwritten(m, S) == \A a \in S : m \notin ToSet(written[a])

(* A message that has been logged, by its number. *)
Logged(m) == m[2] <= calls[m[1]]

(* The lists hold the appenders that belong there (log_appender.c:41-49). *)
Sorted == ToSet(syncList) \subseteq DisableAsync /\ ToSet(asyncList) \subseteq Asynchronous

(* No message is ahead of its caller's count, so the next one is new. *)
Numbered ==
  /\ \A i \in Items : content[i] # NoMessage => Logged(content[i])
  /\ \A a \in Appenders : \A m \in ToSet(written[a]) : Logged(m)

(* A message is in one block. *)
OneBlock == \A i, j \in Items : content[i] = content[j] /\ content[i] # NoMessage => i = j

(* What has not been written of the message a thread carries, by how far it is. *)
Fresh(t) ==
  /\ pc[t] = "rdlock" /\ t \in Callers => Unwritten(Msg(t), Appenders)
  /\ pc[t] \in {"rdlock", "syncWrite", "enqueue"} => Unwritten(Msg(t), Asynchronous)
  /\ pc[t] \in {"syncWrite", "asyncWrite"} =>
       IsInjective(todo[t]) /\ Unwritten(Msg(t), ToSet(todo[t]))
  /\ pc[t] = "syncWrite" => ToSet(todo[t]) \subseteq DisableAsync

(* The inductive invariant behind AtMostOnce. *)
MessageInv ==
  /\ Sorted
  /\ Numbered
  /\ OneBlock
  /\ \A t \in Threads : Fresh(t)
  /\ \A i \in ToSet(queue) : Unwritten(content[i], Asynchronous)
  /\ AtMostOnce

Carrying == Holding \ {"free"}

(* The blocks of the threads and of the queue carry messages, each its own. *)
LEMMA BlocksInUse ==
  ASSUME CoreInv
  PROVE  /\ \A t \in Threads : pc[t] \in Holding => item[t] \in Items /\ Msg(t) \in Message
         /\ \A i \in ToSet(queue) : i \in Items /\ content[i] \in Message
         /\ \A t \in Threads : pc[t] \in Holding => item[t] \notin ToSet(queue)
         /\ \A t, u \in Threads : pc[t] \in Holding /\ pc[u] \in Holding /\ t # u => item[t] # item[u]
<1>1. ToSet(queue) \union Held \subseteq Pool!HandedOut
  BY DEF CoreInv, Own, NoLeak, OneOwner, Pool!HandedOut
<1>2. \A i \in Pool!HandedOut : i \in Items /\ content[i] \in Message
  BY <1>1 DEF CoreInv, TypeOK, MessageTypeOK, Own, Filled, Pool!HandedOut, Pool!Live
<1>3. \A t \in Threads : pc[t] \in Holding => item[t] \in Held
  BY DEF Held
<1>4. ToSet(queue) \intersect Held = {}
  BY DEF CoreInv, Own, OneOwner
<1>5. \A t, u \in Threads : pc[t] \in Holding /\ pc[u] \in Holding /\ t # u => item[t] # item[u]
  BY DEF CoreInv, Own, OneOwner
<1> QED BY <1>1, <1>2, <1>3, <1>4, <1>5 DEF Msg

(* A block that the pool hands out is in nobody's use. *)
LEMMA AllocUnused ==
  ASSUME CoreInv, NEW i \in Items, NEW n, Pool!AllocItem(i, n)
  PROVE  i \notin ToSet(queue) /\ \A t \in Threads : pc[t] \in Holding => item[t] # i
<1>1. i \in itemList \/ i \notin Pool!Live
  BY DEF Pool!AllocItem, Pool!AllocPooled, Pool!AllocFresh
<1>2. ToSet(queue) \union Held \subseteq Pool!Live /\ (ToSet(queue) \union Held) \intersect itemList = {}
  BY DEF CoreInv, Own, NoLeak, OneOwner
<1>3. \A t \in Threads : pc[t] \in Holding => item[t] \in Held
  BY DEF Held
<1> QED BY <1>1, <1>2, <1>3

(* A thread that carries the same message in the same place, while nothing is written. *)
LEMMA FreshFrame ==
  ASSUME NEW t \in Threads, Fresh(t), UNCHANGED written,
         pc'[t] \in Carrying =>
           /\ pc'[t] = pc[t] /\ todo'[t] = todo[t]
           /\ item'[t] = item[t] /\ content'[item[t]] = content[item[t]]
  PROVE  Fresh(t)'
BY DEF Fresh, Carrying, Holding, Msg, Unwritten, ToSet, IsInjective

(* A step that moves no message nearer to an appender. *)
LEMMA MessageFrame ==
  ASSUME CoreInv, MessageInv, UNCHANGED <<content, calls, queue, written>>, Sorted',
         \A t \in Threads : pc'[t] \in Carrying =>
           pc'[t] = pc[t] /\ todo'[t] = todo[t] /\ item'[t] = item[t]
  PROVE  MessageInv'
<1>1. \A t \in Threads : Fresh(t)'
  BY FreshFrame DEF MessageInv
<1>2. Numbered' /\ OneBlock' /\ AtMostOnce'
  BY DEF MessageInv, Numbered, OneBlock, AtMostOnce, Logged, ToSet, IsInjective
<1>3. \A i \in ToSet(queue)' : Unwritten(content[i], Asynchronous)'
  BY DEF MessageInv, Unwritten, ToSet
<1> QED BY <1>1, <1>2, <1>3 DEF MessageInv

(* The lists have not changed. *)
LEMMA SortedFrame == ASSUME MessageInv, UNCHANGED <<syncList, asyncList>> PROVE Sorted'
BY DEF MessageInv, Sorted, ToSet

(* A thread that goes to a place where it carries nothing. *)
LEMMA GotoMessage ==
  ASSUME CoreInv, MessageInv, NEW t \in Threads, NEW from, NEW to, Goto(t, from, to),
         to \notin Carrying, UNCHANGED <<content, calls, queue, written, syncList, asyncList, item, todo>>
  PROVE  MessageInv'
<1>1. \A u \in Threads : pc'[u] \in Carrying => pc'[u] = pc[u]
  BY DEF CoreInv, TypeOK, PcTypeOK, Goto
<1> QED BY <1>1, MessageFrame, SortedFrame
-----------------------------------------------------------------------------
(* One lemma per action: the step keeps MessageInv. *)

(* A new message (log_core.c:463-489) has a number that none has had. *)
LEMMA LogVMessage ==
  ASSUME CoreInv, MessageInv, NEW c \in Callers, NEW n \in Lengths, NEW sync \in BOOLEAN, NEW i \in Items,
         LogV(c, n, sync, i)
  PROVE  MessageInv'
<1> USE DEF LogV
<1>0. PICK new : new = <<c, calls[c] + 1>>
  OBVIOUS
<1>1. /\ c \in Threads /\ pc'[c] = "rdlock" /\ item'[c] = i
      /\ \A t \in Threads \ {c} : pc'[t] = pc[t] /\ item'[t] = item[t]
      /\ calls[c] \in Nat /\ calls'[c] = calls[c] + 1
      /\ \A d \in Callers : calls[d] \in Nat /\ calls'[d] >= calls[d]
      /\ content'[i] = new
      /\ \A j \in Items \ {i} : content'[j] = content[j]
  BY <1>0 DEF Goto, CoreInv, TypeOK, PcTypeOK, ThreadTypeOK, MessageTypeOK, Threads
<1>2. ASSUME NEW m \in Message, Logged(m) PROVE Logged(m)' /\ m # new
  <2>1. m[1] \in Callers /\ m[2] \in Int
    BY DEF Message
  <2> QED BY <1>0, <1>1, <1>2, <2>1 DEF Logged
<1>3. Logged(new)'
  BY <1>0, <1>1 DEF Logged
<1>4. /\ \A j \in Items : content[j] # NoMessage => content[j] \in Message /\ Logged(content[j])
      /\ \A a \in Appenders : \A m \in ToSet(written[a]) : m \in Message /\ Logged(m)
  <2>1. \A a \in Appenders : \A m \in ToSet(written[a]) : m \in Message
    BY ElementOfSeq, LenProperties DEF CoreInv, TypeOK, HistoryTypeOK, ToSet
  <2> QED BY <2>1 DEF MessageInv, Numbered, CoreInv, TypeOK, MessageTypeOK
<1>5. Numbered'
  <2>1. \A j \in Items : content'[j] # NoMessage => Logged(content[j])'
    BY <1>1, <1>2, <1>3, <1>4 DEF Logged
  <2>2. written' = written
    OBVIOUS
  <2>3. \A a \in Appenders : \A m \in ToSet(written'[a]) : Logged(m)'
    BY <1>2, <1>4, <2>2
  <2> QED BY <2>1, <2>3 DEF Numbered
<1>6. OneBlock'
  BY <1>1, <1>2, <1>4 DEF MessageInv, OneBlock
<1>7. Fresh(c)'
  <2>1. \A a \in Appenders : new \notin ToSet(written[a])
    BY <1>2, <1>4
  <2>2. Unwritten(Msg(c), Appenders)'
    BY <1>1, <2>1 DEF Unwritten, Msg
  <2> QED BY <1>1, <2>2 DEF Fresh, Unwritten, Asynchronous
<1>8. ASSUME NEW t \in Threads \ {c} PROVE Fresh(t)'
  <2>1. pc[t] \in Holding => item[t] \in Items /\ item[t] # i
    BY BlocksInUse, AllocUnused
  <2> QED BY <1>1, <2>1, FreshFrame DEF MessageInv, Carrying
<1>9. \A j \in ToSet(queue)' : Unwritten(content[j], Asynchronous)'
  <2>1. \A j \in ToSet(queue) : j \in Items /\ j # i
    BY BlocksInUse, AllocUnused
  <2> QED BY <1>1, <2>1 DEF MessageInv, Unwritten, ToSet
<1>10. Sorted' /\ AtMostOnce'
  BY DEF MessageInv, Sorted, AtMostOnce, ToSet, IsInjective
<1> QED BY <1>5, <1>6, <1>7, <1>8, <1>9, <1>10 DEF MessageInv

(* A step of one thread that leaves the blocks, their messages and what is written alone. *)
LEMMA MoveMessage ==
  ASSUME CoreInv, MessageInv, NEW t \in Threads, NEW from, NEW to, Goto(t, from, to),
         UNCHANGED <<content, calls, queue, written, syncList, asyncList, item>>,
         \A u \in Threads \ {t} : todo'[u] = todo[u],
         Fresh(t)'
  PROVE  MessageInv'
<1>1. \A u \in Threads \ {t} : pc'[u] = pc[u]
  BY DEF CoreInv, TypeOK, PcTypeOK, Goto
<1>2. \A u \in Threads : Fresh(u)'
  BY <1>1, FreshFrame DEF MessageInv
<1>3. Numbered' /\ OneBlock' /\ AtMostOnce' /\ Sorted'
  BY DEF MessageInv, Numbered, OneBlock, AtMostOnce, Sorted, Logged, ToSet, IsInjective
<1>4. \A i \in ToSet(queue)' : Unwritten(content[i], Asynchronous)'
  BY DEF MessageInv, Unwritten, ToSet
<1> QED BY <1>2, <1>3, <1>4 DEF MessageInv

(* A caller starts on the synchronous list (log_core.c:328-329) with a message nobody has written. *)
LEMMA CallerRdLockMessage ==
  ASSUME CoreInv, RegistryInv, MessageInv, NEW c \in Callers, CallerRdLock(c)
  PROVE  MessageInv'
<1> USE DEF CallerRdLock, Registry!ReadLock
<1>1. c \in Threads /\ pc[c] = "rdlock" /\ pc'[c] = "syncWrite" /\ todo'[c] = syncList
  BY DEF Goto, CoreInv, TypeOK, PcTypeOK, ThreadTypeOK, Threads
<1>2. Unwritten(Msg(c), Appenders)
  BY <1>1 DEF MessageInv, Fresh
<1>3. IsInjective(syncList) /\ ToSet(syncList) \subseteq DisableAsync /\ DisableAsync \subseteq Appenders
  BY CoreAssumption DEF RegistryInv, ListedOnce, MessageInv, Sorted
<1>4. Fresh(c)'
  BY <1>1, <1>2, <1>3 DEF Fresh, Unwritten, Msg, Asynchronous, ToSet, IsInjective
<1>5. \A u \in Threads \ {c} : todo'[u] = todo[u]
  BY DEF CoreInv, TypeOK, ThreadTypeOK
<1> QED BY <1>1, <1>4, <1>5, MoveMessage

(* Only the synchronous list has been walked before the asynchronous one (log_core.c:330-333). *)
LEMMA WriteDirectMessage ==
  ASSUME CoreInv, RegistryInv, MessageInv, NEW c \in Callers, WriteDirect(c)
  PROVE  MessageInv'
<1> USE DEF WriteDirect
<1>1. c \in Threads /\ pc[c] = "syncWrite" /\ pc'[c] = "asyncWrite" /\ todo'[c] = asyncList
  BY DEF Goto, CoreInv, TypeOK, PcTypeOK, ThreadTypeOK, Threads
<1>2. Unwritten(Msg(c), Asynchronous)
  BY <1>1 DEF MessageInv, Fresh
<1>3. IsInjective(asyncList) /\ ToSet(asyncList) \subseteq Asynchronous
  BY DEF RegistryInv, ListedOnce, MessageInv, Sorted
<1>4. Fresh(c)'
  BY <1>1, <1>2, <1>3 DEF Fresh, Unwritten, Msg, ToSet, IsInjective
<1>5. \A u \in Threads \ {c} : todo'[u] = todo[u]
  BY DEF CoreInv, TypeOK, ThreadTypeOK
<1> QED BY <1>1, <1>4, <1>5, MoveMessage

(* A worker starts on the asynchronous list (log_core.c:275-276). *)
LEMMA WorkerRdLockMessage ==
  ASSUME CoreInv, RegistryInv, MessageInv, NEW w \in Workers, WorkerRdLock(w)
  PROVE  MessageInv'
<1> USE DEF WorkerRdLock, Registry!ReadLock
<1>1. w \in Threads /\ pc[w] = "rdlock" /\ pc'[w] = "asyncWrite" /\ todo'[w] = asyncList
  BY DEF Goto, CoreInv, TypeOK, PcTypeOK, ThreadTypeOK, Threads
<1>2. Unwritten(Msg(w), Asynchronous)
  BY <1>1 DEF MessageInv, Fresh
<1>3. IsInjective(asyncList) /\ ToSet(asyncList) \subseteq Asynchronous
  BY DEF RegistryInv, ListedOnce, MessageInv, Sorted
<1>4. Fresh(w)'
  BY <1>1, <1>2, <1>3 DEF Fresh, Unwritten, Msg, ToSet, IsInjective
<1>5. \A u \in Threads \ {w} : todo'[u] = todo[u]
  BY DEF CoreInv, TypeOK, ThreadTypeOK
<1> QED BY <1>1, <1>4, <1>5, MoveMessage

(* A message left to the workers (log_core.c:334-339) is new to every asynchronous appender. *)
LEMMA WriteLaterMessage ==
  ASSUME CoreInv, MessageInv, NEW c \in Callers, WriteLater(c)
  PROVE  MessageInv'
<1> USE DEF WriteLater, Registry!ReadUnlock
<1>1. c \in Threads /\ pc[c] = "syncWrite" /\ pc'[c] \in {"free", "enqueue"}
  BY DEF Goto, CoreInv, TypeOK, PcTypeOK, Threads
<1>2. Unwritten(Msg(c), Asynchronous)
  BY <1>1 DEF MessageInv, Fresh
<1>3. Fresh(c)'
  BY <1>1, <1>2 DEF Fresh, Unwritten, Msg, ToSet
<1> QED BY <1>1, <1>3, MoveMessage

(* What writer_fn is called for (log_core.c:236-253): the message joins those of  *)
(* the appender at the head of the walk if it passes its filters, and no others.  *)
LEMMA WriteOneHistory ==
  ASSUME CoreInv, NEW t \in Threads, WriteOne(t), Msg(t) \notin ToSet(written[Head(todo[t])])
  PROVE  /\ Head(todo[t]) \in Appenders /\ Msg(t) \in Message
         /\ todo'[t] = Tail(todo[t]) /\ \A u \in Threads \ {t} : todo'[u] = todo[u]
         /\ \A a \in Appenders :
              IF a = Head(todo[t]) /\ <<a, Msg(t)>> \in Hits
                THEN /\ written'[a] = Append(written[a], Msg(t))
                     /\ ToSet(written'[a]) = ToSet(written[a]) \union {Msg(t)}
                     /\ IsInjective(written[a]) => IsInjective(written'[a])
                ELSE written'[a] = written[a]
<1> USE DEF WriteOne
<1> DEFINE a == Head(todo[t])
           m == Msg(t)
<1>1. todo[t] \in Seq(Appenders) /\ todo[t] # <<>> /\ written \in [Appenders -> Seq(Message)]
  BY DEF CoreInv, TypeOK, ThreadTypeOK, HistoryTypeOK
<1>2. a \in Appenders
  BY <1>1, HeadTailProperties
<1>3. m \in Message
  BY BlocksInUse DEF Holding
<1>4. /\ todo' = [todo EXCEPT ![t] = Tail(todo[t])]
      /\ written' = IF <<a, m>> \in Hits THEN [written EXCEPT ![a] = Append(written[a], m)] ELSE written
  BY DEF Msg
<1>5. todo'[t] = Tail(todo[t]) /\ \A u \in Threads \ {t} : todo'[u] = todo[u]
  BY <1>4 DEF CoreInv, TypeOK, ThreadTypeOK
<1>6. /\ ToSet(Append(written[a], m)) = ToSet(written[a]) \union {m}
      /\ IsInjective(written[a]) => IsInjective(Append(written[a], m))
  BY <1>1, <1>2, <1>3, AppendDistinct
<1> HIDE DEF a, m, WriteOne
<1>7. \A b \in Appenders : IF b = a /\ <<b, m>> \in Hits
                             THEN written'[b] = Append(written[b], m)
                             ELSE written'[b] = written[b]
  BY <1>1, <1>2, <1>4
<1>8. \A b \in Appenders :
        IF b = a /\ <<b, m>> \in Hits
          THEN /\ written'[b] = Append(written[b], m)
               /\ ToSet(written'[b]) = ToSet(written[b]) \union {m}
               /\ IsInjective(written[b]) => IsInjective(written'[b])
          ELSE written'[b] = written[b]
  BY <1>6, <1>7
<1> QED BY <1>2, <1>3, <1>5, <1>8 DEF a, m

(* The appender at the head of a walk has not written the thread's message. *)
LEMMA HeadUnwritten ==
  ASSUME CoreInv, MessageInv, NEW t \in Threads, WriteOne(t)
  PROVE  Msg(t) \notin ToSet(written[Head(todo[t])])
<1>1. pc[t] \in {"syncWrite", "asyncWrite"} /\ todo[t] \in Seq(Appenders) /\ todo[t] # <<>>
  BY DEF WriteOne, CoreInv, TypeOK, ThreadTypeOK
<1>2. Head(todo[t]) \in ToSet(todo[t])
  BY <1>1, TailDistinct
<1> QED BY <1>1, <1>2 DEF MessageInv, Fresh, Unwritten

(* A walk goes one appender on. *)
LEMMA WriteOneMessage ==
  ASSUME CoreInv, MessageInv, NEW t \in Threads, WriteOne(t)
  PROVE  MessageInv'
<1>0. PICK a, m : a = Head(todo[t]) /\ m = Msg(t)
  OBVIOUS
<1>1. /\ pc[t] \in {"syncWrite", "asyncWrite"} /\ todo[t] \in Seq(Appenders) /\ todo[t] # <<>>
      /\ UNCHANGED <<content, calls, queue, pc, item, syncList, asyncList>>
  BY DEF WriteOne, CoreInv, TypeOK, ThreadTypeOK
<1>2. /\ a \in Appenders /\ m \in Message
      /\ todo'[t] = Tail(todo[t]) /\ \A u \in Threads \ {t} : todo'[u] = todo[u]
      /\ \A b \in Appenders : b # a => written'[b] = written[b]
      /\ ToSet(written'[a]) \subseteq ToSet(written[a]) \union {m}
      /\ \A b \in Appenders : IsInjective(written[b]) => IsInjective(written'[b])
  BY <1>0, HeadUnwritten, WriteOneHistory
<1>3. /\ IsInjective(todo[t]) /\ Unwritten(m, ToSet(todo[t]))
      /\ pc[t] = "syncWrite" => ToSet(todo[t]) \subseteq DisableAsync /\ Unwritten(m, Asynchronous)
  BY <1>0, <1>1 DEF MessageInv, Fresh
<1>4. /\ a \in ToSet(todo[t]) /\ ToSet(Tail(todo[t])) \subseteq ToSet(todo[t])
      /\ IsInjective(Tail(todo[t])) /\ a \notin ToSet(Tail(todo[t]))
  BY <1>0, <1>1, <1>3, TailDistinct
<1>5. m \in Message /\ m # NoMessage /\ item[t] \in Items /\ content[item[t]] = m
  BY <1>0, <1>1, BlocksInUse, CoreAssumption DEF Holding, Msg
<1>6. Msg(t)' = m
  BY <1>1, <1>5 DEF Msg
<1>7. Fresh(t)'
  <2>1. Unwritten(m, ToSet(todo[t]))'
    <3>1. ToSet(todo[t]) \subseteq Appenders
      BY <1>1, ElementOfSeq, LenProperties DEF ToSet
    <3>2. ASSUME NEW b \in ToSet(Tail(todo[t])) PROVE m \notin ToSet(written'[b])
      BY <1>2, <1>3, <1>4, <3>1 DEF Unwritten
    <3> QED BY <1>2, <3>2 DEF Unwritten
  <2>2. CASE pc[t] = "syncWrite"
    <3>1. a \notin Asynchronous
      BY <1>3, <1>4, <2>2 DEF Asynchronous
    <3>2. Unwritten(m, Asynchronous)'
      BY <1>2, <1>3, <2>2, <3>1 DEF Unwritten, Asynchronous
    <3> QED BY <1>1, <1>2, <1>3, <1>4, <1>6, <2>1, <2>2, <3>2 DEF Fresh, Unwritten
  <2>3. CASE pc[t] = "asyncWrite"
    BY <1>1, <1>2, <1>4, <1>6, <2>1, <2>3 DEF Fresh, Unwritten
  <2> QED BY <1>1, <2>2, <2>3
<1>8. ASSUME NEW u \in Threads \ {t} PROVE Fresh(u)'
  <2>1. pc[u] \in Holding => Msg(u) \in Message /\ Msg(u) # m /\ Msg(u)' = Msg(u)
    <3> SUFFICES ASSUME pc[u] \in Holding PROVE Msg(u) \in Message /\ Msg(u) # m /\ Msg(u)' = Msg(u)
      OBVIOUS
    <3>1. item[u] \in Items /\ Msg(u) \in Message /\ item[u] # item[t]
      BY <1>1, BlocksInUse DEF Holding
    <3>2. Msg(u) # m
      BY <3>1, <1>5 DEF MessageInv, OneBlock, Msg
    <3> QED BY <1>1, <3>1, <3>2 DEF Msg
  <2>2. todo'[u] = todo[u] /\ pc'[u] = pc[u] /\ ToSet(todo[u]) \subseteq Appenders /\ Fresh(u)
    <3>1. todo[u] \in Seq(Appenders)
      BY DEF CoreInv, TypeOK, ThreadTypeOK
    <3> QED BY <1>1, <1>2, <3>1, ElementOfSeq, LenProperties DEF ToSet, MessageInv
  <2> QED BY <1>2, <2>1, <2>2 DEF Fresh, Unwritten, Asynchronous, Holding
<1>9. ASSUME NEW i \in ToSet(queue) PROVE Unwritten(content[i], Asynchronous)'
  <2>1. i \in Items /\ content[i] \in Message /\ i # item[t]
    BY <1>1, BlocksInUse DEF Holding
  <2>2. content[i] # m
    BY <1>5, <2>1 DEF MessageInv, OneBlock
  <2>3. Unwritten(content[i], Asynchronous)
    BY DEF MessageInv
  <2> QED BY <1>1, <1>2, <2>2, <2>3 DEF Unwritten, Asynchronous
<1>10. Numbered'
  <2>1. Logged(m)
    BY <1>5 DEF MessageInv, Numbered
  <2> QED BY <1>1, <1>2, <2>1 DEF MessageInv, Numbered, Logged
<1>11. AtMostOnce'
  BY <1>2 DEF MessageInv, AtMostOnce
<1>12. Sorted' /\ OneBlock' /\ queue' = queue
  BY <1>1 DEF MessageInv, Sorted, OneBlock, ToSet
<1> QED BY <1>7, <1>8, <1>9, <1>10, <1>11, <1>12 DEF MessageInv, ToSet

(* The caller's message joins the queue with its block (log_core.c:308-309). *)
LEMMA EnqueueMessage ==
  ASSUME CoreInv, MessageInv, NEW c \in Callers, Enqueue(c)
  PROVE  MessageInv'
<1> USE DEF Enqueue, Inserted
<1>1. c \in Threads /\ item[c] \in Items /\ Unwritten(content[item[c]], Asynchronous)
  BY BlocksInUse DEF Threads, Holding, MessageInv, Fresh, Msg
<1>2. queue \in Seq(Items) /\ item[c] \notin ToSet(queue)
  BY <1>1, BlocksInUse DEF CoreInv, TypeOK, AsyncTypeOK, Holding
<1>3. ToSet(queue') = ToSet(queue) \union {item[c]}
  BY <1>1, <1>2, AppendDistinct
<1>4. UNCHANGED <<content, calls, written, syncList, asyncList, todo>> /\ \A t \in Threads \ {c} : item'[t] = item[t]
  BY DEF CoreInv, TypeOK, ThreadTypeOK
<1>5. ASSUME NEW t \in Threads, pc'[t] \in Carrying PROVE pc'[t] = pc[t] /\ t # c
  BY <1>1, <1>5, CoreAssumption DEF EnsureWorker, StartWorker, NoNewWorker, Carrying, Holding, CoreInv, TypeOK, PcTypeOK, Threads
<1> HIDE DEF Enqueue, Inserted
<1>6. \A t \in Threads : Fresh(t)'
  BY <1>4, <1>5, FreshFrame DEF MessageInv
<1>7. ASSUME NEW i \in ToSet(queue') PROVE Unwritten(content[i], Asynchronous)'
  <2>1. Unwritten(content[i], Asynchronous)
    BY <1>1, <1>3 DEF MessageInv
  <2> QED BY <1>4, <2>1 DEF Unwritten
<1>8. Numbered' /\ OneBlock' /\ AtMostOnce' /\ Sorted'
  BY <1>4 DEF MessageInv, Numbered, OneBlock, AtMostOnce, Sorted, Logged, ToSet, IsInjective
<1> QED BY <1>6, <1>7, <1>8 DEF MessageInv, ToSet

(* A worker takes the message over from the queue (log_core.c:259-264). *)
LEMMA WorkerTakeMessage ==
  ASSUME CoreInv, MessageInv, NEW w \in Workers, WorkerTake(w)
  PROVE  MessageInv'
<1> USE DEF WorkerTake
<1>1. /\ w \in Threads /\ pc'[w] = "rdlock" /\ item'[w] = Head(queue) /\ w \notin Callers
      /\ \A t \in Threads \ {w} : pc'[t] = pc[t] /\ item'[t] = item[t]
  BY CoreAssumption DEF Goto, CoreInv, TypeOK, PcTypeOK, ThreadTypeOK, Threads
<1>2. queue \in Seq(Items) /\ queue # <<>>
  BY DEF CoreInv, TypeOK, AsyncTypeOK
<1>3. Head(queue) \in ToSet(queue) /\ ToSet(queue') \subseteq ToSet(queue)
  BY <1>2, TailDistinct
<1>4. UNCHANGED <<content, calls, written, syncList, asyncList, todo>>
  OBVIOUS
<1> HIDE DEF WorkerTake
<1>5. Fresh(w)'
  <2>1. Unwritten(Msg(w), Asynchronous)'
    BY <1>1, <1>3, <1>4 DEF MessageInv, Unwritten, Msg
  <2> QED BY <1>1, <2>1 DEF Fresh
<1>6. \A t \in Threads : Fresh(t)'
  BY <1>1, <1>4, <1>5, FreshFrame DEF MessageInv
<1>7. ASSUME NEW i \in ToSet(queue') PROVE Unwritten(content[i], Asynchronous)'
  BY <1>3, <1>4 DEF MessageInv, Unwritten
<1>8. Numbered' /\ OneBlock' /\ AtMostOnce' /\ Sorted'
  BY <1>4 DEF MessageInv, Numbered, OneBlock, AtMostOnce, Sorted, Logged, ToSet, IsInjective
<1> QED BY <1>6, <1>7, <1>8 DEF MessageInv, ToSet

(* A block that is given back (log_core.c:278, 343) carries no message. *)
LEMMA FreeMessage ==
  ASSUME CoreInv, MessageInv, NEW t \in Threads, Free(t)
  PROVE  MessageInv'
<1> USE DEF Free
<1>1. /\ pc[t] = "free" /\ pc'[t] \in {"idle", "top"} /\ item[t] \in Items
      /\ content'[item[t]] = NoMessage
      /\ \A i \in Items \ {item[t]} : content'[i] = content[i]
      /\ \A u \in Threads \ {t} : pc'[u] = pc[u] /\ item'[u] = item[u]
  <2>1. pc[t] = "free" /\ item[t] \in Items
    BY BlocksInUse DEF Goto, Holding
  <2> QED BY <2>1 DEF Goto, AfterFree, CoreInv, TypeOK, PcTypeOK, ThreadTypeOK, MessageTypeOK
<1>2. UNCHANGED <<calls, queue, written, syncList, asyncList, todo>>
  OBVIOUS
<1> HIDE DEF Free
<1>3. ASSUME NEW u \in Threads PROVE Fresh(u)'
  <2>1. CASE u = t
    BY <1>1, <2>1 DEF Fresh
  <2>2. CASE u # t
    <3>1. pc[u] \in Holding => item[u] \in Items \ {item[t]}
      BY <1>1, <2>2, BlocksInUse DEF Holding
    <3> QED BY <1>1, <1>2, <2>2, <3>1, FreshFrame DEF MessageInv, Carrying
  <2> QED BY <2>1, <2>2
<1>4. ASSUME NEW i \in ToSet(queue) PROVE Unwritten(content[i], Asynchronous)'
  <2>1. i \in Items \ {item[t]}
    BY <1>1, BlocksInUse DEF Holding
  <2> QED BY <1>1, <1>2, <2>1 DEF MessageInv, Unwritten
<1>5. Numbered' /\ OneBlock'
  BY <1>1, <1>2 DEF MessageInv, Numbered, OneBlock, Logged
<1>6. AtMostOnce' /\ Sorted' /\ ToSet(queue') = ToSet(queue)
  BY <1>2 DEF MessageInv, AtMostOnce, Sorted, ToSet, IsInjective
<1> QED BY <1>3, <1>4, <1>5, <1>6 DEF MessageInv

(* Adding to a list and taking from it leaves the other kind of appender out of it. *)
LEMMA ListsSorted ==
  ASSUME CoreInv, RegistryInv, MessageInv, NEW a \in Appenders, AddAppender(a) \/ RemoveAppender(a)
  PROVE  Sorted'
<1>1. syncList \in Seq(Appenders) /\ asyncList \in Seq(Appenders) /\ IsInjective(syncList) /\ IsInjective(asyncList)
  BY DEF CoreInv, TypeOK, RegistryTypeOK, RegistryInv, ListedOnce
<1>2. CASE AddAppender(a)
  <2>1. a \notin Listed
    BY <1>2, RegistryListed DEF AddAppender, Registry!AddAppender, Registry!Registered
  <2>2. ToSet(Append(syncList, a)) = ToSet(syncList) \union {a} /\ ToSet(Append(asyncList, a)) = ToSet(asyncList) \union {a}
    BY <1>1, <2>1, AppendDistinct DEF Listed
  <2> QED BY <1>2, <2>2 DEF AddAppender, Registry!AddAppender, MessageInv, Sorted, Asynchronous
<1>3. CASE RemoveAppender(a)
  <2>1. /\ ToSet(Registry!Dropped(syncList, a)) = ToSet(syncList) \ {a}
        /\ ToSet(Registry!Dropped(asyncList, a)) = ToSet(asyncList) \ {a}
    BY <1>1, DroppedDistinct
  <2> QED BY <1>3, <2>1 DEF RemoveAppender, Registry!RemoveAppender, MessageInv, Sorted
<1> QED BY <1>2, <1>3

(* Every step of a caller keeps the invariant. *)
LEMMA CallerStepMessage ==
  ASSUME CoreInv, RegistryInv, MessageInv, NEW c \in Callers, CallerStep(c)
  PROVE  MessageInv'
<1>1. c \in Threads /\ c \notin Workers
  BY CoreAssumption DEF Threads
<1>2. CASE WriteDone(c)
  BY <1>1, <1>2, GotoMessage DEF WriteDone, Registry!ReadUnlock, Carrying
<1>3. CASE Broadcast(c)
  <2>1. \A t \in Threads : pc'[t] \in Carrying => pc'[t] = pc[t]
    BY <1>3 DEF Broadcast, Carrying, Holding
  <2> QED BY <1>3, <2>1, MessageFrame, SortedFrame DEF Broadcast
<1>4. CASE ClearPoll(c)
  <2>1. (IF PollsOver(c) THEN "stop" ELSE "poll") \notin Carrying
    BY DEF Carrying, Holding
  <2> QED BY <1>1, <1>4, <2>1, GotoMessage DEF ClearPoll
<1>5. CASE ClearStop(c) \/ ClearItems(c)
  BY <1>1, <1>5, GotoMessage DEF ClearStop, ClearItems, Carrying, Holding
<1>6. CASE ClearAppenders(c)
  <2>1. Goto(c, "clearAppender", "idle") /\ syncList' = <<>> /\ asyncList' = <<>>
    BY <1>6 DEF ClearAppenders, Registry!ClearAppender
  <2>2. \A t \in Threads : pc'[t] \in Carrying => pc'[t] = pc[t]
    BY <2>1 DEF CoreInv, TypeOK, PcTypeOK, Goto, Carrying, Holding
  <2>3. Sorted'
    BY <2>1 DEF Sorted, ToSet
  <2> QED BY <1>6, <2>2, <2>3, MessageFrame DEF ClearAppenders
<1>7. CASE CloseOne(c)
  <2>1. \A t \in Threads : pc'[t] \in Carrying => pc'[t] = pc[t] /\ todo'[t] = todo[t]
    BY <1>7 DEF CloseOne, CoreInv, TypeOK, ThreadTypeOK, Carrying, Holding
  <2> QED BY <1>7, <2>1, MessageFrame, SortedFrame DEF CloseOne
<1>8. CASE CloseDone(c)
  BY <1>1, <1>8, GotoMessage DEF CloseDone, Registry!ReadUnlock, Carrying, Holding
<1>9. CASE ClearAsk(c)
  <2>1. (IF running THEN "poll" ELSE "clearItem") \notin Carrying
    BY DEF Carrying, Holding
  <2> QED BY <1>1, <1>9, <2>1, GotoMessage DEF ClearAsk
<1> QED
  BY <1>1, <1>2, <1>3, <1>4, <1>5, <1>6, <1>7, <1>8, <1>9, CallerRdLockMessage, WriteOneMessage, WriteDirectMessage,
     WriteLaterMessage, FreeMessage, EnqueueMessage
  DEF CallerStep

(* Every step of a worker keeps the invariant. *)
LEMMA WorkerStepMessage ==
  ASSUME CoreInv, RegistryInv, MessageInv, NEW w \in Workers, WorkerStep(w)
  PROVE  MessageInv'
<1>1. w \in Threads
  BY DEF Threads
<1>2. CASE WorkerTop(w)
  <2>1. (IF running THEN "take" ELSE "stopping") \notin Carrying
    BY DEF Carrying, Holding
  <2> QED BY <1>1, <1>2, <2>1, GotoMessage DEF WorkerTop
<1>3. CASE WorkerWait(w) \/ WorkerStop(w)
  BY <1>1, <1>3, GotoMessage DEF WorkerWait, WorkerStop, Carrying, Holding
<1>4. CASE WriteDone(w)
  BY <1>1, <1>4, GotoMessage DEF WriteDone, Registry!ReadUnlock, Carrying
<1> QED
  BY <1>1, <1>2, <1>3, <1>4, WorkerTakeMessage, WorkerRdLockMessage, WriteOneMessage, FreeMessage
  DEF WorkerStep

(* Every other step keeps the invariant. *)
LEMMA EnvironmentMessage ==
  ASSUME CoreInv, RegistryInv, MessageInv, Environment
  PROVE  MessageInv'
<1>1. Callers \subseteq Threads /\ Workers \subseteq Threads
  BY DEF Threads
<1>2. ASSUME NEW c \in Callers, ClearBegin(c) PROVE MessageInv'
  <2>1. (IF enableAsync THEN "asked" ELSE "clearItem") \notin Carrying
    BY DEF Carrying, Holding
  <2> QED BY <1>1, <1>2, <2>1, GotoMessage DEF ClearBegin
<1>3. ASSUME NEW c \in Callers, CloseBegin(c) PROVE MessageInv'
  <2>1. \A t \in Threads : pc'[t] \in Carrying => pc'[t] = pc[t] /\ todo'[t] = todo[t]
    BY <1>1, <1>3 DEF CloseBegin, Goto, CoreInv, TypeOK, PcTypeOK, ThreadTypeOK, Carrying, Holding
  <2> QED BY <1>3, <2>1, MessageFrame, SortedFrame DEF CloseBegin, Registry!ReadLock
<1>4. ASSUME NEW w \in Workers, SpuriousWake(w) PROVE MessageInv'
  BY <1>1, <1>4, GotoMessage DEF SpuriousWake, Carrying, Holding
<1>5. ASSUME NEW b \in BOOLEAN, EnableAsync(b) PROVE MessageInv'
  BY <1>5, MessageFrame, SortedFrame DEF EnableAsync
<1>6. ASSUME NEW a \in Appenders, AddAppender(a) \/ RemoveAppender(a) PROVE MessageInv'
  <2>1. UNCHANGED <<content, calls, queue, written, pc, todo, item>>
    BY <1>6 DEF AddAppender, RemoveAppender
  <2> QED BY <1>6, <2>1, ListsSorted, MessageFrame
<1> QED BY <1>2, <1>3, <1>4, <1>5, <1>6, LogVMessage DEF Environment

(* The invariant holds in every reachable state. *)
LEMMA MessageInvHolds == Spec => []MessageInv
<1>1. Init => MessageInv
  <2> SUFFICES ASSUME Init PROVE MessageInv
    OBVIOUS
  <2>1. \A t \in Threads : pc[t] \notin Carrying
    BY DEF Init, Carrying, Holding
  <2>2. ToSet(syncList) = {} /\ ToSet(asyncList) = {} /\ ToSet(queue) = {}
    BY DEF Init, Registry!RegistryInit, ToSet
  <2>3. \A a \in Appenders : ToSet(written[a]) = {} /\ IsInjective(written[a])
    BY DEF Init, ToSet, IsInjective
  <2>4. \A i \in Items : content[i] = NoMessage
    BY DEF Init
  <2>5. \A t \in Threads : Fresh(t)
    BY <2>1 DEF Fresh, Carrying, Holding
  <2> QED BY <2>2, <2>3, <2>4, <2>5 DEF MessageInv, Sorted, Numbered, OneBlock, AtMostOnce
<1>2. CoreInv /\ RegistryInv /\ MessageInv /\ [Next]_vars => MessageInv'
  <2> SUFFICES ASSUME CoreInv, RegistryInv, MessageInv, [Next]_vars PROVE MessageInv'
    OBVIOUS
  <2>1. CASE UNCHANGED vars
    BY <2>1, MessageFrame, SortedFrame DEF vars
  <2> QED BY <2>1, CallerStepMessage, WorkerStepMessage, EnvironmentMessage DEF Next
<1> QED BY <1>1, <1>2, CoreInvHolds, RegistryInvHolds, PTL DEF Spec

(* No appender writes a message twice, whenever the mode changes and appenders  *)
(* come and go while the message is on its way, directly or through the queue.  *)
THEOREM MessagesWrittenOnce == Spec => []AtMostOnce
BY MessageInvHolds, PTL DEF MessageInv

-----------------------------------------------------------------------------
(* The inductive invariant behind NoLoss: what is owed to an appender passes its *)
(* filters, so a walk that comes to the appender pays it.                        *)
LossInv ==
  /\ \A a \in Appenders : \A m \in owed[a] : <<a, m>> \in Hits
  /\ NoLoss

(* A message in flight in a step that leaves its block and its place alone. *)
LEMMA FlightFrame ==
  ASSUME NEW a, NEW m, InFlight(a, m),
         a \in ToSet(asyncList) => a \in ToSet(asyncList'),
         \A i \in ToSet(queue) : i \in ToSet(queue') /\ content'[i] = content[i],
         \A t \in Threads : OnItsWay(a, t) =>
           item'[t] = item[t] /\ content'[item[t]] = content[item[t]] /\ OnItsWay(a, t)'
  PROVE  InFlight(a, m)'
<1>1. CASE \E i \in ToSet(queue) : content[i] = m /\ a \in ToSet(asyncList)
  BY <1>1 DEF InFlight, ToSet
<1>2. CASE \E t \in Threads : item[t] # NoItem /\ content[item[t]] = m /\ OnItsWay(a, t)
  BY <1>2 DEF InFlight
<1> QED BY <1>1, <1>2 DEF InFlight

(* A step after which whatever was in flight is safe. *)
LEMMA LossFrame ==
  ASSUME LossInv, UNCHANGED owed, released \subseteq released',
         \A a \in Appenders : ToSet(written[a]) \subseteq ToSet(written'[a]),
         \A a \in Appenders : \A m \in Message :
           InFlight(a, m) => m \in ToSet(written'[a]) \/ InFlight(a, m)' \/ a \in released',
         HistoryTypeOK
  PROVE  LossInv'
<1>1. \A a \in Appenders : owed'[a] = owed[a] /\ owed[a] \subseteq Message
  BY DEF HistoryTypeOK
<1>2. ASSUME NEW a \in Appenders, NEW m \in owed'[a]
      PROVE  <<a, m>> \in Hits /\ (m \in ToSet(written'[a]) \/ InFlight(a, m)' \/ a \in released')
  BY <1>1, <1>2 DEF LossInv, NoLoss
<1> QED BY <1>2 DEF LossInv, NoLoss, ToSet

(* A step that leaves the lists, the queue and what is written alone, of a thread   *)
(* whose message is on its way to the same appenders before and after.             *)
LEMMA MoveLoss ==
  ASSUME CoreInv, LossInv, NEW t \in Threads, NEW from, NEW to, Goto(t, from, to),
         UNCHANGED <<content, queue, asyncList, item, written, owed>>, released \subseteq released',
         \A u \in Threads \ {t} : todo'[u] = todo[u],
         \A a : OnItsWay(a, t) => OnItsWay(a, t)'
  PROVE  LossInv'
<1>1. \A u \in Threads \ {t} : pc'[u] = pc[u]
  BY DEF CoreInv, TypeOK, PcTypeOK, Goto
<1>2. ASSUME NEW a, NEW u \in Threads, OnItsWay(a, u) PROVE OnItsWay(a, u)'
  <2>1. CASE u = t
    BY <1>2, <2>1
  <2>2. CASE u # t
    <3>1. pc'[u] = pc[u] /\ todo'[u] = todo[u] /\ asyncList' = asyncList
      BY <1>1, <2>2
    <3>2. QED BY <1>2, <3>1, Zenon DEF OnItsWay
  <2>3. QED BY <2>1, <2>2
<1>3. \A a, m : InFlight(a, m) => InFlight(a, m)'
  BY <1>2, FlightFrame DEF ToSet
<1> QED BY <1>3, LossFrame DEF CoreInv, TypeOK, ToSet

(* A step of threads that carry nothing to anybody. *)
LEMMA IdleLoss ==
  ASSUME CoreInv, LossInv, UNCHANGED <<content, queue, asyncList, written, owed, released>>,
         \A t \in Threads : pc[t] \in Carrying =>
           pc'[t] = pc[t] /\ item'[t] = item[t] /\ todo'[t] = todo[t]
  PROVE  LossInv'
<1>1. ASSUME NEW a, NEW t \in Threads, OnItsWay(a, t) PROVE item'[t] = item[t] /\ OnItsWay(a, t)'
  BY <1>1 DEF OnItsWay, Carrying, Holding, ToSet
<1>2. \A a, m : InFlight(a, m) => InFlight(a, m)'
  BY <1>1, FlightFrame DEF ToSet
<1> QED BY <1>2, LossFrame DEF CoreInv, TypeOK, ToSet

(* A thread that carries nothing and moves. *)
LEMMA GotoLoss ==
  ASSUME CoreInv, LossInv, NEW t \in Threads, NEW from, NEW to, Goto(t, from, to), from \notin Carrying,
         UNCHANGED <<content, queue, asyncList, written, owed, released, item, todo>>
  PROVE  LossInv'
<1>1. \A u \in Threads : pc[u] \in Carrying => pc'[u] = pc[u]
  BY DEF CoreInv, TypeOK, PcTypeOK, Goto
<1> QED BY <1>1, IdleLoss

(* A new message is owed to nobody yet, and its block was in nobody's use. *)
LEMMA LogVLoss ==
  ASSUME CoreInv, LossInv, NEW c \in Callers, NEW n \in Lengths, NEW sync \in BOOLEAN, NEW i \in Items,
         LogV(c, n, sync, i)
  PROVE  LossInv'
<1> USE DEF LogV
<1>1. /\ c \in Threads /\ pc[c] = "idle"
      /\ \A t \in Threads \ {c} : pc'[t] = pc[t] /\ item'[t] = item[t]
      /\ \A j \in Items \ {i} : content'[j] = content[j]
      /\ UNCHANGED <<queue, asyncList, written, owed, released, todo>>
  BY DEF Goto, CoreInv, TypeOK, PcTypeOK, ThreadTypeOK, MessageTypeOK, Threads
<1>2. Pool!AllocItem(i, n)
  OBVIOUS
<1> HIDE DEF LogV
<1>3. ASSUME NEW a, NEW t \in Threads, OnItsWay(a, t)
      PROVE  item'[t] = item[t] /\ content'[item[t]] = content[item[t]] /\ OnItsWay(a, t)'
  <2>1. t # c /\ pc[t] \in Holding
    BY <1>1, <1>3 DEF OnItsWay, Holding
  <2>2. item[t] \in Items \ {i}
    BY <1>2, <2>1, BlocksInUse, AllocUnused
  <2> QED BY <1>1, <1>3, <2>1, <2>2 DEF OnItsWay, ToSet
<1>4. \A j \in ToSet(queue) : j \in ToSet(queue') /\ content'[j] = content[j]
  BY <1>1, <1>2, BlocksInUse, AllocUnused DEF ToSet
<1>5. \A a, m : InFlight(a, m) => InFlight(a, m)'
  BY <1>1, <1>3, <1>4, FlightFrame DEF ToSet
<1> QED BY <1>1, <1>5, LossFrame DEF CoreInv, TypeOK, ToSet

(* What becomes owed is on its way: the caller has the synchronous list before it *)
(* and the asynchronous one after it (log_core.c:328-333).                        *)
LEMMA CallerRdLockLoss ==
  ASSUME CoreInv, LossInv, NEW c \in Callers, CallerRdLock(c)
  PROVE  LossInv'
<1> USE DEF CallerRdLock, Registry!ReadLock
<1>1. /\ c \in Threads /\ pc[c] = "rdlock" /\ pc'[c] = "syncWrite" /\ c \notin Workers
      /\ todo'[c] = syncList /\ item[c] \in Items /\ item[c] # NoItem
      /\ \A t \in Threads \ {c} : pc'[t] = pc[t] /\ todo'[t] = todo[t]
      /\ UNCHANGED <<content, item, queue, asyncList, syncList, written, released>>
  <2>1. c \in Threads /\ pc[c] = "rdlock"
    BY DEF Goto, Threads
  <2>2. item[c] \in Items /\ item[c] # NoItem
    BY <2>1, BlocksInUse, CoreAssumption DEF Holding
  <2> QED BY <2>1, <2>2, CoreAssumption DEF Goto, CoreInv, TypeOK, PcTypeOK, ThreadTypeOK
<1>2. \A a \in Appenders : \A m \in owed'[a] :
        m \in owed[a] \/ (a \in Listed /\ m = Msg(c) /\ <<a, m>> \in Hits)
  BY RegistryListed DEF CoreInv, TypeOK, HistoryTypeOK, Msg
<1> HIDE DEF CallerRdLock
<1>3. ASSUME NEW a, NEW t \in Threads, OnItsWay(a, t) PROVE OnItsWay(a, t)'
  BY <1>1, <1>3 DEF OnItsWay, ToSet
<1>4. \A a, m : InFlight(a, m) => InFlight(a, m)'
  BY <1>1, <1>3, FlightFrame DEF ToSet
<1>5. ASSUME NEW a \in Listed PROVE InFlight(a, Msg(c))'
  <2>1. OnItsWay(a, c)'
    BY <1>1 DEF OnItsWay, Listed, ToSet
  <2> QED BY <1>1, <2>1 DEF InFlight, Msg
<1>6. ASSUME NEW a \in Appenders, NEW m \in owed'[a]
      PROVE  <<a, m>> \in Hits /\ (m \in ToSet(written'[a]) \/ InFlight(a, m)' \/ a \in released')
  <2>1. CASE m \in owed[a]
    BY <1>1, <1>4, <2>1 DEF LossInv, NoLoss
  <2>2. CASE a \in Listed /\ m = Msg(c) /\ <<a, m>> \in Hits
    <3>1. PICK x : x = Msg(c)
      OBVIOUS
    <3>2. Msg(c)' = x
      BY <1>1, <3>1 DEF Msg
    <3>3. InFlight(a, x)'
      BY <1>5, <2>2, <3>2 DEF InFlight
    <3> QED BY <2>2, <3>1, <3>3
  <2> QED BY <1>2, <2>1, <2>2
<1> QED BY <1>6 DEF LossInv, NoLoss, ToSet

(* A walk pays the appender it is at, and no other is skipped. *)
LEMMA WriteOneLoss ==
  ASSUME CoreInv, MessageInv, LossInv, NEW t \in Threads, WriteOne(t)
  PROVE  LossInv'
<1>0. PICK b, x : b = Head(todo[t]) /\ x = Msg(t)
  OBVIOUS
<1>1. /\ pc[t] \in {"syncWrite", "asyncWrite"} /\ todo[t] \in Seq(Appenders) /\ todo[t] # <<>>
      /\ UNCHANGED <<content, queue, pc, item, asyncList, owed, released>>
  BY DEF WriteOne, CoreInv, TypeOK, ThreadTypeOK
<1>2. /\ todo'[t] = Tail(todo[t]) /\ \A u \in Threads \ {t} : todo'[u] = todo[u]
      /\ \A a \in Appenders : ToSet(written[a]) \subseteq ToSet(written'[a])
      /\ <<b, x>> \in Hits /\ b \in Appenders => x \in ToSet(written'[b])
  BY <1>0, HeadUnwritten, WriteOneHistory DEF ToSet
<1>3. ToSet(todo[t]) \subseteq ToSet(Tail(todo[t])) \union {b}
  BY <1>0, <1>1, TailDistinct
<1>4. ASSUME NEW a, NEW u \in Threads, OnItsWay(a, u), ~(u = t /\ a = b) PROVE OnItsWay(a, u)'
  <2>1. pc'[u] = pc[u] /\ asyncList' = asyncList
    BY <1>1
  <2>2. CASE u = t
    <3>1. a # b /\ (a \in ToSet(todo[u]) => a \in ToSet(todo'[u]))
      BY <1>2, <1>3, <1>4, <2>2
    <3> QED BY <1>4, <2>1, <3>1, Zenon DEF OnItsWay
  <2>3. CASE u # t
    <3>1. todo'[u] = todo[u]
      BY <1>2, <2>3
    <3> QED BY <1>4, <2>1, <3>1, Zenon DEF OnItsWay
  <2> QED BY <2>2, <2>3
<1>5. ASSUME NEW a \in Appenders, NEW m \in owed[a], InFlight(a, m)
      PROVE  m \in ToSet(written'[a]) \/ InFlight(a, m)'
  <2>1. CASE \E i \in ToSet(queue) : content[i] = m /\ a \in ToSet(asyncList)
    BY <1>1, <2>1 DEF InFlight, ToSet
  <2>2. ASSUME NEW u \in Threads, item[u] # NoItem, content[item[u]] = m, OnItsWay(a, u)
        PROVE  m \in ToSet(written'[a]) \/ InFlight(a, m)'
    <3>1. CASE u = t /\ a = b
      BY <1>0, <1>2, <1>5, <2>2, <3>1 DEF LossInv, Msg
    <3>2. CASE ~(u = t /\ a = b)
      BY <1>1, <1>4, <2>2, <3>2 DEF InFlight
    <3> QED BY <3>1, <3>2
  <2> QED BY <1>5, <2>1, <2>2 DEF InFlight
<1>6. ASSUME NEW a \in Appenders, NEW m \in owed'[a]
      PROVE  <<a, m>> \in Hits /\ (m \in ToSet(written'[a]) \/ InFlight(a, m)' \/ a \in released')
  BY <1>1, <1>2, <1>5 DEF LossInv, NoLoss
<1> QED BY <1>6 DEF LossInv, NoLoss, ToSet

(* The block joins the queue: on its way to the same appenders (log_core.c:308). *)
LEMMA EnqueueLoss ==
  ASSUME CoreInv, LossInv, NEW c \in Callers, Enqueue(c)
  PROVE  LossInv'
<1> USE DEF Enqueue, Inserted
<1>1. c \in Threads /\ c \notin Workers /\ pc[c] = "enqueue" /\ item[c] \in Items /\ queue \in Seq(Items)
  BY BlocksInUse, CoreAssumption DEF Threads, Holding, CoreInv, TypeOK, AsyncTypeOK
<1>2. ToSet(queue') = ToSet(queue) \union {item[c]}
  <2>1. item[c] \notin ToSet(queue)
    BY <1>1, BlocksInUse DEF Holding
  <2> QED BY <1>1, <2>1, AppendDistinct
<1>3. UNCHANGED <<content, asyncList, written, owed, released, todo>> /\ \A t \in Threads \ {c} : item'[t] = item[t]
  BY DEF CoreInv, TypeOK, ThreadTypeOK
<1>4. ASSUME NEW t \in Threads \ {c}, pc[t] \in Carrying PROVE pc'[t] = pc[t]
  BY <1>1, <1>4 DEF EnsureWorker, StartWorker, NoNewWorker, Carrying, Holding, CoreInv, TypeOK, PcTypeOK
<1> HIDE DEF Enqueue, Inserted
<1>5. ASSUME NEW a \in Appenders, NEW m, InFlight(a, m) PROVE InFlight(a, m)'
  <2>1. CASE \E i \in ToSet(queue) : content[i] = m /\ a \in ToSet(asyncList)
    BY <1>2, <1>3, <2>1 DEF InFlight, ToSet
  <2>2. ASSUME NEW t \in Threads, item[t] # NoItem, content[item[t]] = m, OnItsWay(a, t)
        PROVE  InFlight(a, m)'
    <3>1. CASE t = c
      <4>1. a \in ToSet(asyncList)
        BY <1>1, <2>2, <3>1 DEF OnItsWay
      <4>2. item[c] \in ToSet(queue)' /\ content'[item[c]] = m /\ a \in ToSet(asyncList)'
        BY <1>2, <1>3, <2>2, <3>1, <4>1 DEF ToSet
      <4> QED BY <4>2 DEF InFlight
    <3>2. CASE t # c
      <4>1. pc'[t] = pc[t]
        BY <1>4, <2>2, <3>2 DEF OnItsWay, Carrying, Holding
      <4>2. OnItsWay(a, t)' /\ item'[t] = item[t]
        BY <1>3, <2>2, <3>2, <4>1 DEF OnItsWay, ToSet
      <4> QED BY <1>3, <2>2, <4>2 DEF InFlight
    <3> QED BY <3>1, <3>2
  <2> QED BY <1>5, <2>1, <2>2 DEF InFlight
<1> QED BY <1>3, <1>5, LossFrame DEF CoreInv, TypeOK, ToSet

(* A worker has the whole asynchronous list before it (log_core.c:259-264). *)
LEMMA WorkerTakeLoss ==
  ASSUME CoreInv, LossInv, NEW w \in Workers, WorkerTake(w)
  PROVE  LossInv'
<1> USE DEF WorkerTake
<1>1. /\ w \in Threads /\ pc[w] = "take" /\ pc'[w] = "rdlock" /\ item'[w] = Head(queue)
      /\ \A t \in Threads \ {w} : pc'[t] = pc[t] /\ item'[t] = item[t]
      /\ UNCHANGED <<content, asyncList, written, owed, released, todo>>
  BY DEF Goto, CoreInv, TypeOK, PcTypeOK, ThreadTypeOK, Threads
<1>2. queue \in Seq(Items) /\ queue # <<>>
  BY DEF CoreInv, TypeOK, AsyncTypeOK
<1>3. ToSet(queue) \subseteq ToSet(queue') \union {Head(queue)} /\ Head(queue) \in Items /\ Head(queue) # NoItem
  BY <1>2, TailDistinct, CoreAssumption
<1> HIDE DEF WorkerTake
<1>4. ASSUME NEW a \in Appenders, NEW m, InFlight(a, m) PROVE InFlight(a, m)'
  <2>1. ASSUME NEW i \in ToSet(queue), content[i] = m, a \in ToSet(asyncList) PROVE InFlight(a, m)'
    <3>1. CASE i = Head(queue)
      <4>1. OnItsWay(a, w)'
        BY <1>1, <2>1 DEF OnItsWay, ToSet
      <4> QED BY <1>1, <1>3, <2>1, <3>1, <4>1 DEF InFlight
    <3>2. CASE i # Head(queue)
      BY <1>1, <1>3, <2>1, <3>2 DEF InFlight, ToSet
    <3> QED BY <3>1, <3>2
  <2>2. ASSUME NEW t \in Threads, item[t] # NoItem, content[item[t]] = m, OnItsWay(a, t)
        PROVE  InFlight(a, m)'
    <3>1. t # w
      BY <1>1, <2>2 DEF OnItsWay
    <3>2. OnItsWay(a, t)' /\ item'[t] = item[t]
      BY <1>1, <2>2, <3>1 DEF OnItsWay, ToSet
    <3> QED BY <1>1, <2>2, <3>2 DEF InFlight
  <2> QED BY <1>4, <2>1, <2>2 DEF InFlight
<1> QED BY <1>1, <1>4, LossFrame DEF CoreInv, TypeOK, ToSet

(* A thread that gives its block back owes nothing with it (log_core.c:278, 343). *)
LEMMA FreeLoss ==
  ASSUME CoreInv, LossInv, NEW t \in Threads, Free(t)
  PROVE  LossInv'
<1> USE DEF Free
<1>1. /\ pc[t] = "free" /\ item[t] \in Items
      /\ \A i \in Items \ {item[t]} : content'[i] = content[i]
      /\ \A u \in Threads \ {t} : pc'[u] = pc[u] /\ item'[u] = item[u]
      /\ UNCHANGED <<queue, asyncList, written, owed, released, todo>>
  <2>1. pc[t] = "free" /\ item[t] \in Items
    BY BlocksInUse DEF Goto, Holding
  <2> QED BY <2>1 DEF Goto, CoreInv, TypeOK, PcTypeOK, ThreadTypeOK, MessageTypeOK
<1> HIDE DEF Free
<1>2. ASSUME NEW a, NEW u \in Threads, OnItsWay(a, u)
      PROVE  item'[u] = item[u] /\ content'[item[u]] = content[item[u]] /\ OnItsWay(a, u)'
  <2>1. u # t /\ pc[u] \in Holding
    BY <1>1, <1>2 DEF OnItsWay, Holding
  <2>2. item[u] \in Items \ {item[t]}
    BY <1>1, <2>1, BlocksInUse DEF Holding
  <2> QED BY <1>1, <1>2, <2>1, <2>2 DEF OnItsWay, ToSet
<1>3. \A i \in ToSet(queue) : i \in ToSet(queue') /\ content'[i] = content[i]
  BY <1>1, BlocksInUse DEF Holding, ToSet
<1>4. \A a, m : InFlight(a, m) => InFlight(a, m)'
  BY <1>1, <1>2, <1>3, FlightFrame DEF ToSet
<1> QED BY <1>1, <1>4, LossFrame DEF CoreInv, TypeOK, ToSet

(* An added appender takes nobody's place; a removed one is released, and the walks *)
(* to the others go on.                                                             *)
LEMMA ListsLoss ==
  ASSUME CoreInv, RegistryInv, LossInv, NEW a \in Appenders, AddAppender(a) \/ RemoveAppender(a)
  PROVE  LossInv'
<1>1. UNCHANGED <<content, queue, pc, item, todo, written, owed>>
  BY DEF AddAppender, RemoveAppender
<1>2. released \subseteq released' /\ ToSet(asyncList) \subseteq ToSet(asyncList') \union released'
  <2>1. asyncList \in Seq(Appenders) /\ IsInjective(asyncList)
    BY DEF CoreInv, TypeOK, RegistryTypeOK, RegistryInv, ListedOnce
  <2>2. CASE AddAppender(a)
    <3>1. a \notin Listed
      BY <2>2, RegistryListed DEF AddAppender, Registry!AddAppender, Registry!Registered
    <3>2. ToSet(Append(asyncList, a)) = ToSet(asyncList) \union {a}
      BY <2>1, <3>1, AppendDistinct DEF Listed
    <3> QED BY <2>2, <3>2 DEF AddAppender, Registry!AddAppender
  <2>3. CASE RemoveAppender(a)
    <3>1. ToSet(Registry!Dropped(asyncList, a)) = ToSet(asyncList) \ {a}
      BY <2>1, DroppedDistinct
    <3> QED BY <2>3, <3>1 DEF RemoveAppender, Registry!RemoveAppender
  <2> QED BY <2>2, <2>3
<1>3. ASSUME NEW b, NEW m, InFlight(b, m), b \notin released' PROVE InFlight(b, m)'
  <2>1. \A t \in Threads : OnItsWay(b, t) => OnItsWay(b, t)'
    BY <1>1, <1>2, <1>3 DEF OnItsWay, ToSet
  <2> QED BY <1>1, <1>2, <1>3, <2>1, FlightFrame DEF ToSet
<1> QED BY <1>1, <1>2, <1>3, LossFrame DEF CoreInv, TypeOK, ToSet

(* NengLogClearAppender releases every appender that messages of the queue were for, *)
(* and waits for the walks to the end of their lists.                               *)
LEMMA ClearAppendersLoss ==
  ASSUME CoreInv, RegistryInv, LossInv, NEW c \in Callers, ClearAppenders(c)
  PROVE  LossInv'
<1> USE DEF ClearAppenders, Registry!ClearAppender
<1>1. UNCHANGED <<content, queue, item, todo, written, owed>> /\ released' = released \union Listed
  BY RegistryListed
<1>2. \A t \in Threads : pc[t] \notin Reading
  BY NoWalk
<1> HIDE DEF ClearAppenders, Registry!ClearAppender
<1>3. ASSUME NEW b, NEW m, InFlight(b, m) PROVE b \in released'
  <2>1. ToSet(asyncList) \subseteq released'
    BY <1>1 DEF Listed
  <2>2. ASSUME NEW t \in Threads, OnItsWay(b, t) PROVE b \in ToSet(asyncList)
    BY <1>2, <2>2 DEF OnItsWay, Reading
  <2> QED BY <1>3, <2>1, <2>2 DEF InFlight
<1> QED BY <1>1, <1>3, LossFrame DEF CoreInv, TypeOK, ToSet

(* Between the lists, at their end and on the way to a worker nothing is dropped *)
(* (log_core.c:275-277, 329-341).                                                *)
LEMMA MovesLoss ==
  ASSUME CoreInv, LossInv, NEW t \in Threads,
         \/ t \in Callers /\ (WriteDirect(t) \/ WriteLater(t))
         \/ WorkerRdLock(t) \/ WriteDone(t)
  PROVE  LossInv'
<1>1. /\ UNCHANGED <<content, queue, asyncList, item, written, owed, released>>
      /\ \A u \in Threads \ {t} : todo'[u] = todo[u]
  BY DEF WriteDirect, WriteLater, WorkerRdLock, WriteDone, Registry!ReadLock, Registry!ReadUnlock,
         CoreInv, TypeOK, ThreadTypeOK
<1>2. ToSet(<<>>) = {}
  BY DEF ToSet
<1>3. CASE t \in Callers /\ WriteDirect(t)
  <2>1. /\ pc[t] = "syncWrite" /\ todo[t] = <<>> /\ pc'[t] = "asyncWrite" /\ todo'[t] = asyncList
        /\ Goto(t, "syncWrite", "asyncWrite")
    BY <1>3 DEF WriteDirect, Goto, CoreInv, TypeOK, PcTypeOK, ThreadTypeOK
  <2>2. \A a : OnItsWay(a, t) => OnItsWay(a, t)'
    BY <1>2, <2>1 DEF OnItsWay, ToSet
  <2> QED BY <1>1, <2>1, <2>2, MoveLoss
<1>4. CASE t \in Callers /\ WriteLater(t)
  <2>1. /\ pc[t] = "syncWrite" /\ todo[t] = <<>> /\ pc'[t] = IF NobodyWaits THEN "free" ELSE "enqueue"
        /\ Goto(t, "syncWrite", IF NobodyWaits THEN "free" ELSE "enqueue")
    BY <1>4 DEF WriteLater, Goto, CoreInv, TypeOK, PcTypeOK
  <2>2. \A a : OnItsWay(a, t) => a \in ToSet(asyncList)
    BY <1>2, <2>1 DEF OnItsWay
  <2>3. NobodyWaits => ToSet(asyncList) = {}
    BY <1>2 DEF NobodyWaits
  <2>4. \A a : OnItsWay(a, t) => OnItsWay(a, t)'
    BY <1>1, <2>1, <2>2, <2>3 DEF OnItsWay, ToSet
  <2> QED BY <1>1, <2>1, <2>4, MoveLoss
<1>5. CASE WorkerRdLock(t)
  <2>1. /\ pc[t] = "rdlock" /\ pc'[t] = "asyncWrite" /\ todo'[t] = asyncList
        /\ Goto(t, "rdlock", "asyncWrite")
    BY <1>5 DEF WorkerRdLock, Goto, CoreInv, TypeOK, PcTypeOK, ThreadTypeOK
  <2>2. \A a : OnItsWay(a, t) => OnItsWay(a, t)'
    BY <2>1 DEF OnItsWay, ToSet
  <2> QED BY <1>1, <2>1, <2>2, MoveLoss
<1>6. CASE WriteDone(t)
  <2>1. pc[t] = "asyncWrite" /\ todo[t] = <<>> /\ Goto(t, "asyncWrite", "free")
    BY <1>6 DEF WriteDone, Goto
  <2>2. \A a : ~OnItsWay(a, t)
    BY <1>2, <2>1 DEF OnItsWay
  <2> QED BY <1>1, <2>1, <2>2, MoveLoss
<1> QED BY <1>3, <1>4, <1>5, <1>6

(* Every step of a caller keeps the invariant. *)
LEMMA CallerStepLoss ==
  ASSUME CoreInv, RegistryInv, MessageInv, LossInv, NEW c \in Callers, CallerStep(c)
  PROVE  LossInv'
<1>1. c \in Threads
  BY DEF Threads
<1>2. CASE Broadcast(c)
  <2>1. \A t \in Threads : pc[t] \in Carrying => pc'[t] = pc[t]
    BY <1>2 DEF Broadcast, Awakened, Carrying, Holding
  <2> QED BY <1>2, <2>1, IdleLoss DEF Broadcast
<1>3. CASE ClearAsk(c) \/ ClearPoll(c) \/ ClearStop(c) \/ ClearItems(c)
  BY <1>1, <1>3, GotoLoss DEF ClearAsk, ClearPoll, ClearStop, ClearItems, Carrying, Holding
<1>4. CASE CloseOne(c)
  <2>1. \A t \in Threads : pc[t] \in Carrying => pc'[t] = pc[t] /\ todo'[t] = todo[t]
    BY <1>4 DEF CloseOne, CoreInv, TypeOK, ThreadTypeOK, Carrying, Holding
  <2> QED BY <1>4, <2>1, IdleLoss DEF CloseOne
<1>5. CASE CloseDone(c)
  BY <1>1, <1>5, GotoLoss DEF CloseDone, Registry!ReadUnlock, Carrying, Holding
<1> QED
  BY <1>1, <1>2, <1>3, <1>4, <1>5, MovesLoss, CallerRdLockLoss, WriteOneLoss, EnqueueLoss, FreeLoss, ClearAppendersLoss
  DEF CallerStep

(* Every step of a worker keeps the invariant. *)
LEMMA WorkerStepLoss ==
  ASSUME CoreInv, MessageInv, LossInv, NEW w \in Workers, WorkerStep(w)
  PROVE  LossInv'
<1>1. w \in Threads
  BY DEF Threads
<1>2. CASE WorkerTop(w) \/ WorkerWait(w) \/ WorkerStop(w)
  BY <1>1, <1>2, GotoLoss DEF WorkerTop, WorkerWait, WorkerStop, Carrying, Holding
<1> QED BY <1>1, <1>2, MovesLoss, WriteOneLoss, WorkerTakeLoss, FreeLoss DEF WorkerStep

(* Every other step keeps the invariant. *)
LEMMA EnvironmentLoss ==
  ASSUME CoreInv, RegistryInv, LossInv, Environment
  PROVE  LossInv'
<1>1. Callers \subseteq Threads /\ Workers \subseteq Threads
  BY DEF Threads
<1>2. ASSUME NEW c \in Callers, ClearBegin(c) PROVE LossInv'
  BY <1>1, <1>2, GotoLoss DEF ClearBegin, Carrying, Holding
<1>3. ASSUME NEW c \in Callers, CloseBegin(c) PROVE LossInv'
  <2>1. \A t \in Threads : pc[t] \in Carrying => pc'[t] = pc[t] /\ todo'[t] = todo[t]
    BY <1>1, <1>3 DEF CloseBegin, Goto, CoreInv, TypeOK, PcTypeOK, ThreadTypeOK, Carrying, Holding
  <2> QED BY <1>3, <2>1, IdleLoss DEF CloseBegin, Registry!ReadLock
<1>4. ASSUME NEW w \in Workers, SpuriousWake(w) PROVE LossInv'
  BY <1>1, <1>4, GotoLoss DEF SpuriousWake, Carrying, Holding
<1>5. ASSUME NEW b \in BOOLEAN, EnableAsync(b) PROVE LossInv'
  BY <1>5, IdleLoss DEF EnableAsync
<1> QED BY <1>2, <1>3, <1>4, <1>5, LogVLoss, ListsLoss DEF Environment

(* A message that an appender was registered for when it was logged is written  *)
(* by it, is on its way to it, or the appender has been removed: whatever the   *)
(* changes of mode, the workers that cannot be started, the appenders that come *)
(* and go and the shutdowns, of any number of threads.                          *)
THEOREM NoMessageLost == Spec => []NoLoss
<1>1. Init => LossInv
  BY DEF Init, LossInv, NoLoss
<1>2. CoreInv /\ RegistryInv /\ MessageInv /\ LossInv /\ [Next]_vars => LossInv'
  <2> SUFFICES ASSUME CoreInv, RegistryInv, MessageInv, LossInv, [Next]_vars PROVE LossInv'
    OBVIOUS
  <2>1. CASE UNCHANGED vars
    BY <2>1, IdleLoss DEF vars
  <2> QED BY <2>1, CallerStepLoss, WorkerStepLoss, EnvironmentLoss DEF Next
<1>3. LossInv => NoLoss
  BY DEF LossInv
<1> QED BY <1>1, <1>2, <1>3, CoreInvHolds, RegistryInvHolds, MessageInvHolds, PTL DEF Spec
=============================================================================
