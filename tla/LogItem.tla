------------------------------- MODULE LogItem -------------------------------
(***************************************************************************)
(* The pool of log items of neng-log, src/src/neng/log/log_item.c.         *)
(*                                                                         *)
(* A block holds one formatted message.  Blocks of the default capacity    *)
(* are kept on a free list when released, larger ones go back to the heap. *)
(* Every operation is one critical section of _item_list_mtx, so it is one *)
(* step.  The free list is a set: the blocks on it are all of one size and *)
(* are zeroed when taken, so their order cannot be observed.               *)
(***************************************************************************)
EXTENDS Integers, FiniteSets

CONSTANTS
  Items,      \* identities a live block can have
  Lengths,    \* message lengths that callers ask for
  DefSize,    \* NENG_LOG_ITEM_CONTENT_DEFSIZE, bytes of content in a pooled block
  PoolSize,   \* NENG_LOG_ITEM_POOL_SIZE
  IntMax      \* largest value of the C type int

ASSUME ItemAssumption ==
  /\ Lengths \subseteq Nat \ {0}
  /\ DefSize \in Nat \ {0}
  /\ PoolSize \in Nat \ {0}
  /\ IntMax \in Nat /\ PoolSize <= IntMax

VARIABLES
  itemList,      \* the blocks on _item_list
  itemListSize,  \* _item_list_size
  capacity,      \* bytes of content in each block, 0 when it is not allocated
  length         \* length of the message a block was handed out for, 0 if none

itemVars == <<itemList, itemListSize, capacity, length>>

ItemInit ==
  /\ itemList = {}
  /\ itemListSize = 0
  /\ capacity = [i \in Items |-> 0]
  /\ length = [i \in Items |-> 0]

Live == {i \in Items : capacity[i] # 0}

\* The blocks that are in the hands of a user of the pool.
HandedOut == Live \ itemList

\* Mutants: a pool that takes blocks of any size; a ClearItem that forgets the
\* blocks.
MutPooled(i) == itemListSize < PoolSize
MutClearItem == itemList' = {} /\ UNCHANGED <<itemListSize, capacity, length>>

\* A C int decremented.  Below the smallest value the language defines nothing:
\* any int may be found there.
Decremented(n) == IF n = -IntMax - 1 THEN -IntMax - 1 .. IntMax ELSE {n - 1}

\* Bytes of content that calloc is asked for.
BlockSize(n) == IF n < DefSize THEN DefSize ELSE n

AllocPooled(i, n) ==
  /\ n < DefSize
  /\ i \in itemList
  /\ itemList' = itemList \ {i}
  /\ itemListSize' \in Decremented(itemListSize)
  /\ length' = [length EXCEPT ![i] = n]
  /\ UNCHANGED capacity

AllocFresh(i, n) ==
  /\ n < DefSize => itemList = {}
  /\ i \in Items \ Live
  /\ capacity' = [capacity EXCEPT ![i] = BlockSize(n)]
  /\ length' = [length EXCEPT ![i] = n]
  /\ UNCHANGED <<itemList, itemListSize>>

AllocItem(i, n) == AllocPooled(i, n) \/ AllocFresh(i, n)

\* A freed block joins the list while the counter is below the limit.  The
\* insertion does not count it.
Pooled(i) == capacity[i] = DefSize /\ itemListSize < PoolSize

FreeItem(i) ==
  /\ i \in HandedOut
  /\ length' = [length EXCEPT ![i] = 0]
  /\ UNCHANGED itemListSize
  /\ IF Pooled(i)
       THEN itemList' = itemList \union {i} /\ UNCHANGED capacity
       ELSE capacity' = [capacity EXCEPT ![i] = 0] /\ UNCHANGED itemList

ClearItem ==
  /\ capacity' = [i \in Items |-> IF i \in itemList THEN 0 ELSE capacity[i]]
  /\ itemList' = {}
  /\ UNCHANGED <<itemListSize, length>>

ItemNext ==
  \/ \E i \in Items, n \in Lengths : AllocItem(i, n)
  \/ \E i \in Items : FreeItem(i)
  \/ ClearItem

ItemSpec == ItemInit /\ [][ItemNext]_itemVars

-----------------------------------------------------------------------------
ItemTypeOK ==
  /\ itemList \subseteq Items
  /\ itemListSize \in -IntMax - 1 .. IntMax
  /\ capacity \in [Items -> Nat]
  /\ length \in [Items -> Nat]

(* A block in use has room for its message and for the terminator that        *)
(* vsprintf stores behind it (log_core.c:487), of whatever length the message  *)
(* is and wherever the block comes from.  The pooled sizes have that byte      *)
(* (log_item.c:18); a block made for a longer message has size + FIXSIZE bytes *)
(* (log_item.c:40), none of them for the terminator.                           *)
MessageFits == \A i \in HandedOut : length[i] < capacity[i]

(* The list only holds allocated blocks of the default capacity that carry no *)
(* message: one that AllocPooled hands out (log_item.c:22) is never too small *)
(* and never still in use.                                                    *)
PoolUniform == \A i \in itemList : capacity[i] = DefSize /\ length[i] = 0

(* The list never holds more than NENG_LOG_ITEM_POOL_SIZE blocks, which is    *)
(* what the test of log_item.c:64 is for.                                     *)
PoolBounded == Cardinality(itemList) <= PoolSize
=============================================================================
