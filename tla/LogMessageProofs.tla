-------------------------- MODULE LogMessageProofs --------------------------
(***************************************************************************)
(* Theorems about messages: the blocks they are made in, their texts and   *)
(* their headers, for any number of threads and blocks, any texts and any  *)
(* buffers.                                                                *)
(***************************************************************************)
EXTENDS LogMessage, WellFoundedInduction, TLAPS

-----------------------------------------------------------------------------
(* The pool.  MessageFits does not hold: a message of DefSize bytes or more    *)
(* has no room for its terminator (log_item.c:40).  This is how far the damage *)
(* goes: the block of a shorter message has that room, whether it is fresh or  *)
(* held another message before (log_item.c:18-30, log_core.c:487).             *)
ShortMessageFits == \A i \in HandedOut : length[i] < DefSize => length[i] < capacity[i]

(* A block can only be handed out again safely because the free list is        *)
(* uniform, so the invariant has that too.                                     *)
ItemInv == ItemTypeOK /\ PoolUniform /\ ShortMessageFits

(* Whatever is found in an int that was decremented is an int. *)
LEMMA DecrementedType ==
  ASSUME NEW n \in -IntMax - 1 .. IntMax
  PROVE  Decremented(n) \subseteq -IntMax - 1 .. IntMax
BY ItemAssumption DEF Decremented

(* A block that calloc is asked for is not empty, and has room for a short message. *)
LEMMA BlockSizeFits ==
  ASSUME NEW n \in Lengths
  PROVE  /\ BlockSize(n) \in Nat \ {0}
         /\ n < DefSize => n < BlockSize(n)
BY ItemAssumption DEF BlockSize

(* An empty pool satisfies the invariant. *)
LEMMA ItemInitInv == ItemInit => ItemInv
BY ItemAssumption DEF ItemInit, ItemInv, ItemTypeOK, PoolUniform, ShortMessageFits, HandedOut, Live

(* Taking a block from the free list keeps the invariant: it is of the default size and the message is shorter. *)
LEMMA AllocPooledInv ==
  ASSUME NEW i \in Items, NEW n \in Lengths, ItemInv, AllocPooled(i, n)
  PROVE  ItemInv'
<1>1. ItemTypeOK'
  BY DecrementedType, ItemAssumption DEF ItemInv, ItemTypeOK, AllocPooled
<1>2. PoolUniform'
  BY DEF ItemInv, ItemTypeOK, PoolUniform, AllocPooled
<1>3. ShortMessageFits'
  BY ItemAssumption DEF ItemInv, ItemTypeOK, PoolUniform, ShortMessageFits, AllocPooled, HandedOut, Live
<1> QED BY <1>1, <1>2, <1>3 DEF ItemInv

(* A fresh block has the size that was computed for the message. *)
LEMMA AllocFreshInv ==
  ASSUME NEW i \in Items, NEW n \in Lengths, ItemInv, AllocFresh(i, n)
  PROVE  ItemInv'
<1>1. ItemTypeOK'
  BY BlockSizeFits, ItemAssumption DEF ItemInv, ItemTypeOK, AllocFresh
<1>2. i \notin itemList
  BY ItemAssumption DEF ItemInv, PoolUniform, AllocFresh, Live
<1>3. PoolUniform'
  BY <1>2 DEF ItemInv, ItemTypeOK, PoolUniform, AllocFresh
<1>4. ShortMessageFits'
  BY <1>2, BlockSizeFits DEF ItemInv, ItemTypeOK, ShortMessageFits, AllocFresh, HandedOut, Live
<1> QED BY <1>1, <1>3, <1>4 DEF ItemInv

(* Only blocks of the default size go to the free list. *)
LEMMA FreeItemInv ==
  ASSUME NEW i \in Items, ItemInv, FreeItem(i)
  PROVE  ItemInv'
<1>1. ItemTypeOK'
  BY DEF ItemInv, ItemTypeOK, FreeItem
<1>2. PoolUniform'
  BY DEF ItemInv, ItemTypeOK, PoolUniform, FreeItem, Pooled, HandedOut
<1>3. ShortMessageFits'
  BY DEF ItemInv, ItemTypeOK, ShortMessageFits, FreeItem, HandedOut, Live
<1> QED BY <1>1, <1>2, <1>3 DEF ItemInv

(* Emptying the free list keeps the invariant. *)
LEMMA ClearItemInv ==
  ASSUME ItemInv, ClearItem
  PROVE  ItemInv'
BY DEF ItemInv, ItemTypeOK, PoolUniform, ShortMessageFits, ClearItem, HandedOut, Live

(* Every step keeps the invariant. *)
LEMMA ItemStepInv == ItemInv /\ [ItemNext]_itemVars => ItemInv'
<1> SUFFICES ASSUME ItemInv, [ItemNext]_itemVars PROVE ItemInv'
  OBVIOUS
<1>1. ASSUME NEW i \in Items, NEW n \in Lengths, AllocItem(i, n) PROVE ItemInv'
  BY <1>1, AllocPooledInv, AllocFreshInv DEF AllocItem
<1>2. ASSUME NEW i \in Items, FreeItem(i) PROVE ItemInv'
  BY <1>2, FreeItemInv
<1>3. CASE ClearItem
  BY <1>3, ClearItemInv
<1>4. CASE UNCHANGED itemVars
  BY <1>4 DEF itemVars, ItemInv, ItemTypeOK, PoolUniform, ShortMessageFits, HandedOut, Live
<1> QED BY <1>1, <1>2, <1>3, <1>4 DEF ItemNext

(* The invariant holds in every reachable state. *)
LEMMA ItemInvHolds == ItemSpec => []ItemInv
BY ItemInitInv, ItemStepInv, PTL DEF ItemSpec

(* For every pool limit, block size and width of int the state of the pool is *)
(* well formed, also when the counter has left the range of int.              *)
THEOREM ItemTypeCorrect == ItemSpec => []ItemTypeOK
BY ItemInvHolds, PTL DEF ItemInv

(* Of the blocks in use only those of messages of DefSize bytes or more are   *)
(* written past their end: a shorter message and its terminator fit any block *)
(* that the pool or the heap gives it.                                        *)
THEOREM ShortMessagesFit == ItemSpec => []ShortMessageFits
BY ItemInvHolds, PTL DEF ItemInv

(* The free list only ever holds idle blocks of the default capacity. *)
THEOREM ItemPoolUniform == ItemSpec => []PoolUniform
BY ItemInvHolds, PTL DEF ItemInv

-----------------------------------------------------------------------------
(* The header.  After some of the fields, total characters in all, the state  *)
(* w says either that everything is in the buffer, with room for more, or     *)
(* that the buffer is full to the last byte.                                  *)
Written(w, total, siz) ==
  IF w.done
    THEN /\ w.used = siz /\ w.len \in Nat /\ total > 0
         /\ w.len <= total /\ siz <= w.len + 1
    ELSE /\ w.len = total
         /\ w.used = IF total = 0 THEN 0 ELSE total + 1
         /\ total > 0 => total + 1 < siz

HeaderStates == [len : Nat, used : Int, done : BOOLEAN]

(* A field that begins before the end of the buffer. *)
LEMMA FieldWritten ==
  ASSUME NEW siz \in Nat \ {0}, NEW total \in Nat, NEW n \in Nat \ {0},
         total = 0 \/ total + 1 < siz
  PROVE  /\ Field(total, n, siz) \in HeaderStates
         /\ Written(Field(total, n, siz), total + n, siz)
<1>1. PICK room \in Int : room = siz - total
  OBVIOUS
<1>2. room > 0 /\ (total > 0 => room > 1)
  BY <1>1
<1>3. Stored(n, room) = IF n < room - 1 THEN n ELSE room - 1
  BY <1>2 DEF Stored, Least
<1>4. PICK used \in Int : used = total + Stored(n, room) + 1
  BY <1>2, <1>3
<1>5. PICK len \in Nat : len = total + n
  OBVIOUS
<1>7. Field(total, n, siz) = [len |-> len, used |-> used, done |-> siz <= len + 1]
  BY <1>1, <1>4, <1>5 DEF Field
<1>8. CASE siz <= len + 1
  <2>1. Stored(n, room) = room - 1
    BY <1>1, <1>2, <1>3, <1>5, <1>8
  <2>2. used = siz
    BY <1>1, <1>4, <2>1
  <2>3. Field(total, n, siz) = [len |-> len, used |-> siz, done |-> TRUE]
    BY <1>7, <1>8, <2>2
  <2> QED BY <1>5, <1>8, <2>3 DEF Written, HeaderStates
<1>9. CASE len + 1 < siz
  <2>1. Stored(n, room) = n
    BY <1>1, <1>2, <1>3, <1>5, <1>9
  <2>2. used = len + 1
    BY <1>4, <1>5, <2>1
  <2>3. Field(total, n, siz) = [len |-> len, used |-> len + 1, done |-> FALSE]
    <3>1. (siz <= len + 1) = FALSE
      BY <1>9
    <3> QED BY Zenon, <1>7, <2>2, <3>1
  <2> QED BY <1>5, <1>9, <2>3 DEF Written, HeaderStates
<1> QED BY <1>8, <1>9

(* One more field keeps that, whether it fits or not. *)
LEMMA PutWritten ==
  ASSUME NEW siz \in Nat \ {0}, NEW total \in Nat, NEW n \in Nat,
         NEW w \in HeaderStates, Written(w, total, siz)
  PROVE  \E sum \in Nat, v \in HeaderStates :
           sum = total + n /\ v = Put(w, n, siz) /\ Written(v, sum, siz)
<1> SUFFICES Put(w, n, siz) \in HeaderStates /\ Written(Put(w, n, siz), total + n, siz)
  BY total + n \in Nat
<1>1. CASE w.done
  <2>1. Put(w, n, siz) = w
    BY <1>1 DEF Put
  <2>2. PICK sum \in Nat : sum = total + n /\ total <= sum
    OBVIOUS
  <2>3. PICK len \in Nat : /\ len = w.len /\ len <= total /\ siz <= len + 1
                           /\ w.used = siz /\ total > 0
    BY <1>1 DEF Written
  <2>4. len <= sum /\ sum > 0
    BY <2>2, <2>3
  <2> QED BY <1>1, <2>1, <2>2, <2>3, <2>4 DEF Written
<1>2. CASE n = 0
  <2>1. Put(w, n, siz) = w /\ total + n = total
    BY <1>2 DEF Put
  <2> QED BY <2>1
<1>3. CASE ~w.done /\ n # 0
  <2>1. Put(w, n, siz) = Field(w.len, n, siz)
    BY <1>3 DEF Put
  <2>2. w.len = total /\ (total = 0 \/ total + 1 < siz)
    BY <1>3 DEF Written
  <2> QED BY <1>3, <2>1, <2>2, FieldWritten
<1> QED BY <1>1, <1>2, <1>3

(* The items a header is written for: the texts and numbers have their bounds. *)
IsHeaderItem(item) ==
  /\ item.host \in 0 .. HostnameSize - 1 /\ item.prog \in 0 .. PrognameSize - 1
  /\ item.path \in 0 .. FilePathSize - 1 /\ item.base \in 0 .. FilePathSize - 1
  /\ item.func \in 0 .. FuncSize - 1
  /\ item.pid \in 1 .. 11 /\ item.tid \in 1 .. 11 /\ item.mod \in 1 .. 11
  /\ item.tag \in 1 .. 11 /\ item.line \in 1 .. 11

(* How wide the fields can be. *)
LEMMA WidthBounds ==
  ASSUME NEW flags \in SUBSET HeaderFlags, NEW item, IsHeaderItem(item)
  PROVE  LET w == Widths(flags, item) IN
         /\ w.time \in 0 .. 24 /\ w.host \in 0 .. 32 /\ w.prog \in 0 .. 32
         /\ w.pid \in 0 .. 14 /\ w.level \in 0 .. 7 /\ w.tid \in 0 .. 16
         /\ w.mod \in 0 .. 16 /\ w.tag \in 0 .. 16
         /\ w.place \in 0 .. 206
         /\ "enable_file" \notin flags => w.place <= 79
<1> DEFINE w == Widths(flags, item)
           shown == PathShown(flags, item)
<1>1. shown \in 0 .. 127
  BY DEF PathShown, IsHeaderItem, FilePathSize
<1>2. PlaceWidth(flags, item) \in 0 .. 206
  <2>1. PICK path \in 0 .. 127, func \in 0 .. 63, line \in 1 .. 11 :
          path = shown /\ func = item.func /\ line = item.line
    <3>1. item.func \in 0 .. 63 /\ item.line \in 1 .. 11
      BY DEF IsHeaderItem, FuncSize
    <3> HIDE DEF shown
    <3> QED BY <1>1, <3>1
  <2>2. PlaceWidth(flags, item) =
          IF "enable_file" \in flags
            THEN path + (IF "enable_func" \in flags THEN func + 1 ELSE 0) + line + 4
            ELSE IF "enable_func" \in flags THEN func + line + 5 ELSE 0
    BY <2>1 DEF PlaceWidth, When
  <2>3. path + func + 1 + line + 4 \in 0 .. 206 /\ path + 0 + line + 4 \in 0 .. 206
        /\ func + line + 5 \in 0 .. 206
    OBVIOUS
  <2> QED BY <2>2, <2>3
<1>3. "enable_file" \notin flags => PlaceWidth(flags, item) <= 79
  BY DEF PlaceWidth, When, IsHeaderItem, FuncSize
<1>4. w.place = PlaceWidth(flags, item)
  BY DEF Widths
<1>5. w.time \in 0 .. 24 /\ w.host \in 0 .. 32 /\ w.prog \in 0 .. 32
  BY DEF Widths, When, IsHeaderItem, HostnameSize, PrognameSize
<1>6. w.pid \in 0 .. 14 /\ w.level \in 0 .. 7 /\ w.tid \in 0 .. 16
  BY DEF Widths, When, IsHeaderItem
<1>7. w.mod \in 0 .. 16 /\ w.tag \in 0 .. 16
  BY DEF Widths, When, IsHeaderItem
<1> QED BY <1>2, <1>3, <1>4, <1>5, <1>6, <1>7

(* The whole header, in a buffer of any size. *)
LEMMA HeaderWritten ==
  ASSUME NEW flags \in SUBSET HeaderFlags, NEW item, IsHeaderItem(item), NEW siz \in Nat \ {0}
  PROVE  /\ HeaderWidth(flags, item) \in 0 .. 363
         /\ WriteHeader(flags, item, siz) \in HeaderStates
         /\ Written(WriteHeader(flags, item, siz), HeaderWidth(flags, item), siz)
<1>w. PICK w : w = Widths(flags, item)
  OBVIOUS
<1>0. /\ w.time \in 0 .. 24 /\ w.host \in 0 .. 32 /\ w.prog \in 0 .. 32
      /\ w.pid \in 0 .. 14 /\ w.level \in 0 .. 7 /\ w.tid \in 0 .. 16
      /\ w.mod \in 0 .. 16 /\ w.tag \in 0 .. 16 /\ w.place \in 0 .. 206
  BY <1>w, WidthBounds
<1>n1. PICK n1 \in Nat : n1 = w.time /\ n1 <= 24
  BY <1>0
<1>n2. PICK n2 \in Nat : n2 = w.host /\ n2 <= 32
  BY <1>0
<1>n3. PICK n3 \in Nat : n3 = w.prog /\ n3 <= 32
  BY <1>0
<1>n4. PICK n4 \in Nat : n4 = w.pid /\ n4 <= 14
  BY <1>0
<1>n5. PICK n5 \in Nat : n5 = w.level /\ n5 <= 7
  BY <1>0
<1>n6. PICK n6 \in Nat : n6 = w.tid /\ n6 <= 16
  BY <1>0
<1>n7. PICK n7 \in Nat : n7 = w.mod /\ n7 <= 16
  BY <1>0
<1>n8. PICK n8 \in Nat : n8 = w.tag /\ n8 <= 16
  BY <1>0
<1>n9. PICK n9 \in Nat : n9 = w.place /\ n9 <= 206
  BY <1>0
<1>b. Blank \in HeaderStates /\ Written(Blank, 0, siz)
  BY DEF Blank, HeaderStates, Written
<1>1. PICK s1 \in Nat, p1 \in HeaderStates :
        s1 = 0 + n1 /\ p1 = Put(Blank, n1, siz) /\ Written(p1, s1, siz)
  BY <1>b, PutWritten
<1>2. PICK s2 \in Nat, p2 \in HeaderStates :
        s2 = s1 + n2 /\ p2 = Put(p1, n2, siz) /\ Written(p2, s2, siz)
  BY <1>1, PutWritten
<1>3. PICK s3 \in Nat, p3 \in HeaderStates :
        s3 = s2 + n3 /\ p3 = Put(p2, n3, siz) /\ Written(p3, s3, siz)
  BY <1>2, PutWritten
<1>4. PICK s4 \in Nat, p4 \in HeaderStates :
        s4 = s3 + n4 /\ p4 = Put(p3, n4, siz) /\ Written(p4, s4, siz)
  BY <1>3, PutWritten
<1>5. PICK s5 \in Nat, p5 \in HeaderStates :
        s5 = s4 + n5 /\ p5 = Put(p4, n5, siz) /\ Written(p5, s5, siz)
  BY <1>4, PutWritten
<1>6. PICK s6 \in Nat, p6 \in HeaderStates :
        s6 = s5 + n6 /\ p6 = Put(p5, n6, siz) /\ Written(p6, s6, siz)
  BY <1>5, PutWritten
<1>7. PICK s7 \in Nat, p7 \in HeaderStates :
        s7 = s6 + n7 /\ p7 = Put(p6, n7, siz) /\ Written(p7, s7, siz)
  BY <1>6, PutWritten
<1>8. PICK s8 \in Nat, p8 \in HeaderStates :
        s8 = s7 + n8 /\ p8 = Put(p7, n8, siz) /\ Written(p8, s8, siz)
  BY <1>7, PutWritten
<1>9. PICK s9 \in Nat, p9 \in HeaderStates :
        s9 = s8 + n9 /\ p9 = Put(p8, n9, siz) /\ Written(p9, s9, siz)
  BY <1>8, PutWritten
<1>10. WriteHeader(flags, item, siz) = p9
  BY <1>w, <1>n1, <1>n2, <1>n3, <1>n4, <1>n5, <1>n6, <1>n7, <1>n8, <1>n9,
     <1>1, <1>2, <1>3, <1>4, <1>5, <1>6, <1>7, <1>8, <1>9 DEF WriteHeader
<1>11. HeaderWidth(flags, item) = n1 + n2 + n3 + n4 + n5 + n6 + n7 + n8 + n9
  BY <1>w, <1>n1, <1>n2, <1>n3, <1>n4, <1>n5, <1>n6, <1>n7, <1>n8, <1>n9 DEF HeaderWidth
<1>12. s9 = n1 + n2 + n3 + n4 + n5 + n6 + n7 + n8 + n9
  BY <1>1, <1>2, <1>3, <1>4, <1>5, <1>6, <1>7, <1>8, <1>9
<1>14. s9 \in 0 .. 363
  <2>1. s1 <= 24
    BY <1>1, <1>n1
  <2>2. s2 <= 56
    BY <1>2, <1>n2, <2>1
  <2>3. s3 <= 88
    BY <1>3, <1>n3, <2>2
  <2>4. s4 <= 102
    BY <1>4, <1>n4, <2>3
  <2>5. s5 <= 109
    BY <1>5, <1>n5, <2>4
  <2>6. s6 <= 125
    BY <1>6, <1>n6, <2>5
  <2>7. s7 <= 141
    BY <1>7, <1>n7, <2>6
  <2>8. s8 <= 157
    BY <1>8, <1>n8, <2>7
  <2>9. s9 <= 363
    BY <1>9, <1>n9, <2>8
  <2> QED BY <2>9
<1> QED BY <1>9, <1>10, <1>11, <1>12, <1>14

(* A header ends at the end of the buffer and is complete before it. *)
LEMMA HeaderIsCut ==
  ASSUME NEW flags \in SUBSET HeaderFlags, NEW item, IsHeaderItem(item), NEW siz \in Nat \ {0}
  PROVE  CutToBuffer(flags, item, siz)
<1>1. PICK total \in Nat, v \in HeaderStates :
        /\ total = HeaderWidth(flags, item) /\ v = WriteHeader(flags, item, siz)
        /\ Written(v, total, siz)
  BY HeaderWritten
<1>2. PICK len \in Nat, used \in Int, done \in BOOLEAN : v = [len |-> len, used |-> used, done |-> done]
  BY DEF HeaderStates
<1>3. used = IF total = 0 THEN 0 ELSE Least(total + 1, siz)
  <2>1. CASE done
    <3>1. used = siz /\ len <= total /\ siz <= len + 1
      BY <1>1, <1>2, <2>1 DEF Written
    <3>2. PICK sum \in Nat : sum = total + 1 /\ siz <= sum
      BY <3>1
    <3>3. Least(sum, siz) = siz
      BY <3>2 DEF Least
    <3>4. total # 0
      BY <1>1, <1>2, <2>1 DEF Written
    <3> QED BY <3>1, <3>2, <3>3, <3>4
  <2>2. CASE ~done
    <3>1. used = (IF total = 0 THEN 0 ELSE total + 1) /\ (total > 0 => total + 1 < siz)
      BY <1>1, <1>2, <2>2 DEF Written
    <3>2. total > 0 => Least(total + 1, siz) = total + 1
      BY <3>1 DEF Least
    <3> QED BY <3>1, <3>2
  <2> QED BY <2>1, <2>2
<1> QED BY <1>1, <1>2, <1>3 DEF CutToBuffer

(* The temporary buffers of the measuring branch are large enough. *)
LEMMA MeasuredWidth ==
  ASSUME NEW flags \in SUBSET HeaderFlags, NEW item, IsHeaderItem(item)
  PROVE  CalcHeader(flags, item) = HeaderWidth(flags, item)
<1> DEFINE w == Widths(flags, item)
           room == PlaceRoom(flags)
<1>1. /\ w.pid \in 0 .. 14 /\ w.tid \in 0 .. 16 /\ w.mod \in 0 .. 16 /\ w.tag \in 0 .. 16
      /\ w.place \in 0 .. 206
      /\ "enable_file" \notin flags => w.place <= 79
  BY WidthBounds
<1>2. room = IF "enable_file" \in flags THEN 224 ELSE 160
  BY DEF PlaceRoom, FuncSize, FilePathSize
<1>3. ASSUME NEW n \in Nat, NEW k \in Nat, n <= k PROVE Least(n, k) = n
  BY <1>3 DEF Least
<1>4. /\ Least(w.pid, 32 - 1) = w.pid /\ Least(w.tid, 32 - 1) = w.tid
      /\ Least(w.mod, 32 - 1) = w.mod /\ Least(w.tag, 32 - 1) = w.tag
  BY <1>1, <1>3
<1>5. Least(w.place, room - 1) = w.place
  <2>1. PICK place \in 0 .. 206 : place = w.place /\ ("enable_file" \notin flags => place <= 79)
    BY <1>1
  <2>2. PICK rest \in Nat : rest = room - 1 /\ place <= rest
    <3>1. CASE "enable_file" \in flags
      BY <1>2, <2>1, <3>1
    <3>2. CASE "enable_file" \notin flags
      BY <1>2, <2>1, <3>2
    <3> QED BY <3>1, <3>2
  <2> QED BY <1>3, <2>1, <2>2
<1> QED BY <1>4, <1>5 DEF CalcHeader, HeaderWidth

(* A buffer of the measured length and one byte holds the whole header. *)
LEMMA HeaderIsMeasured ==
  ASSUME NEW flags \in SUBSET HeaderFlags, NEW item, IsHeaderItem(item)
  PROVE  MeasuredRight(flags, item)
<1> DEFINE n == CalcHeader(flags, item)
           v == WriteHeader(flags, item, n + 1)
<1>1. n = HeaderWidth(flags, item)
  BY MeasuredWidth
<1>2. n \in Nat /\ n + 1 \in Nat \ {0}
  BY <1>1, HeaderWritten, 1 \in Nat \ {0}
<1>3. v \in HeaderStates /\ Written(v, n, n + 1)
  BY <1>1, <1>2, HeaderWritten
<1> HIDE DEF n, v
<1>4. n > 0 => v.len = n /\ v.used = n + 1
  BY <1>2, <1>3 DEF Written, HeaderStates
<1> QED BY <1>1, <1>4 DEF MeasuredRight, n, v

(* No header fills the buffer of the appenders. *)
LEMMA HeaderLeavesRoom ==
  ASSUME NEW flags \in SUBSET HeaderFlags, NEW item, IsHeaderItem(item)
  PROVE  /\ FileHeaderUse(flags, item) <= HeaderBufSize
         /\ SyslogHeaderUse(flags, item) <= HeaderBufSize
<1>1. HeaderBufSize = 384 /\ HeaderBufSize \in Nat \ {0}
  BY DEF HeaderBufSize, FilePathSize, FuncSize, PrognameSize, HostnameSize
<1>2. ASSUME NEW fs \in SUBSET HeaderFlags
      PROVE  WriteHeader(fs, item, HeaderBufSize).len \in 0 .. 363
  <2> DEFINE v == WriteHeader(fs, item, HeaderBufSize)
             total == HeaderWidth(fs, item)
  <2>1. total \in 0 .. 363 /\ v \in HeaderStates /\ Written(v, total, HeaderBufSize)
    BY <1>1, HeaderWritten
  <2> HIDE DEF v, total
  <2>2. v.len \in 0 .. 363
    BY <2>1 DEF Written, HeaderStates
  <2> QED BY <2>2 DEF v
<1>3. SyslogFlags(flags) \in SUBSET HeaderFlags
  BY DEF SyslogFlags, HeaderFlags
<1>4. FileHeaderUse(flags, item) <= HeaderBufSize
  BY <1>1, <1>2 DEF FileHeaderUse
<1>5. SyslogHeaderUse(flags, item) <= HeaderBufSize
  BY <1>1, <1>2, <1>3 DEF SyslogHeaderUse
<1> QED BY <1>4, <1>5

-----------------------------------------------------------------------------
(* The invariant.  A thread inside a call has a block of its own, which is in *)
(* use; until its texts are filled in they are as HandedText left them; and   *)
(* while no other name is being copied, the length that was read is that of   *)
(* the name.                                                                  *)
Texts == [host : 0 .. HostnameSize - 1, prog : 0 .. PrognameSize - 1,
          file : [len : Nat, seps : SUBSET Nat], func : Nat]

Asked == [at : {"host", "prog"}, item : Items, args : Calls]
Named == [at : {"copy", "filled"}, item : Items, args : Calls,
          len : 0 .. PrognameSize - 1, name : 0 .. NameBufSize - 1, steady : BOOLEAN]

CallTypeOK ==
  /\ text \in [Items -> Texts]
  /\ call \in [Threads -> {Idle} \union Asked \union Named]

NamesOK ==
  /\ hostnameLen \in {0, HostLen}
  /\ progname \in 0 .. NameBufSize - 1 /\ prognameLen \in 0 .. NameBufSize - 1
  /\ renaming \in (1 .. NameBufSize - 1) \union {Null}

Busy == {t \in Threads : call[t] # Idle}

OwnBlocks ==
  /\ \A t \in Busy : call[t].item \in HandedOut
  /\ \A t, u \in Busy : call[t].item = call[u].item => t = u

Zeroed ==
  \A t \in Busy \ Filled :
    text[call[t].item].file = Path(0, {}) /\ text[call[t].item].func = 0

NameRead ==
  /\ prognameLen = progname
  /\ \A t \in Threads : call[t].at \in {"copy", "filled"} =>
       call[t].len = Cut(call[t].name, PrognameSize)
  /\ \A t \in Threads : call[t].at = "copy" /\ call[t].steady =>
       renaming = Null /\ call[t].name = prognameLen

TypesInv == ItemInv /\ CallTypeOK /\ NamesOK
MakingInv == TypesInv /\ OwnBlocks /\ Zeroed /\ NameRead /\ MessageAsCalled

(* What strncpy leaves of a text fits its array. *)
LEMMA CutFits ==
  ASSUME NEW n \in Nat, NEW size \in Nat \ {0}
  PROVE  Cut(n, size) \in 0 .. size - 1 /\ Cut(n, size) <= n
BY DEF Cut, Least

(* A bounded set of numbers that is not empty has a last one. *)
LEMMA LastOne ==
  ASSUME NEW n \in Nat, NEW S \in SUBSET (0 .. n), S # {}
  PROVE  \E k \in S : \A j \in S : j <= k
<1> DEFINE Below == {ss \in Nat \X Nat : ss[1] < ss[2]}
           T == {n - k : k \in S}
<1>1. IsWellFoundedOn(Below, Nat)
  BY NatLessThanWellFounded DEF OpToRel
<1>2. \A a, b \in Nat : <<a, b>> \in Below <=> a < b
  OBVIOUS
<1>3. T \subseteq Nat /\ T # {}
  <2>1. ASSUME NEW k \in S PROVE n - k \in Nat
    OBVIOUS
  <2>2. PICK k \in S : TRUE
    OBVIOUS
  <2> QED BY <2>1, <2>2
<1> HIDE DEF Below
<1>4. PICK m \in T : \A j \in T : ~(<<j, m>> \in Below)
  BY <1>1, <1>3, WFMin
<1>5. PICK k \in S : m = n - k
  OBVIOUS
<1>6. ASSUME NEW j \in S PROVE j <= k
  <2>1. n - j \in T /\ n - j \in Nat /\ m \in Nat
    BY <1>3
  <2>2. ~(n - j < m)
    BY <1>2, <1>4, <2>1
  <2>3. j \in 0 .. n /\ k \in 0 .. n
    OBVIOUS
  <2> QED BY <1>5, <2>2, <2>3
<1> QED BY <1>6

(* basename leaves a part of the path. *)
LEMMA BaseFits ==
  ASSUME NEW p, IsPath(p)
  PROVE  BaseLen(p) \in 0 .. p.len
<1> DEFINE S == p.seps \union {0}
           last == CHOOSE k \in p.seps \union {0} : \A j \in p.seps : j <= k
<1>1. p.len \in Nat /\ S \in SUBSET (0 .. p.len) /\ S # {}
  BY DEF IsPath
<1>2. \E k \in p.seps \union {0} : \A j \in p.seps : j <= k
  <2> HIDE DEF S
  <2>1. \E k \in S : \A j \in S : j <= k
    BY <1>1, LastOne
  <2> QED BY <2>1 DEF S
<1>3. last \in S
  BY <1>2
<1>4. last \in 0 .. p.len
  BY <1>1, <1>3
<1>5. BaseLen(p) = p.len - last
  BY Zenon DEF BaseLen
<1> HIDE DEF last
<1> QED BY <1>1, <1>4, <1>5

(* A path that is cut is a path that fits. *)
LEMMA CutPathFits ==
  ASSUME NEW p, IsPath(p)
  PROVE  /\ IsPath(CutPath(p, FilePathSize))
         /\ CutPath(p, FilePathSize).len \in 0 .. FilePathSize - 1
<1> DEFINE n == Cut(p.len, FilePathSize)
           q == CutPath(p, FilePathSize)
<1>1. p.len \in Nat /\ p.seps \subseteq 1 .. p.len
  BY DEF IsPath
<1>2. n \in 0 .. FilePathSize - 1 /\ n \in Nat
  <2>1. FilePathSize \in Nat \ {0}
    BY DEF FilePathSize
  <2> QED BY <1>1, <2>1, CutFits
<1>3. q = [len |-> n, seps |-> {k \in p.seps : k <= n}]
  BY DEF CutPath, Path
<1> HIDE DEF n, q
<1>4. {k \in p.seps : k <= n} \subseteq 1 .. n
  BY <1>1, <1>2
<1>5. IsPath(q) /\ q.len \in 0 .. FilePathSize - 1
  BY <1>2, <1>3, <1>4 DEF IsPath
<1> QED BY <1>5 DEF q

(* What a call passes. *)
LEMMA CallArgs ==
  ASSUME NEW c \in Calls
  PROVE  /\ c.size \in Lengths
         /\ c.file # Null => IsPath(c.file)
         /\ c.func # Null => c.func \in Nat
         /\ c.digits \in 1 .. 11
BY MessageAssumption

(* A thread is outside, or knows its block and its call. *)
LEMMA CallRanges ==
  ASSUME CallTypeOK, NEW t \in Threads
  PROVE  /\ call[t] \in {Idle} \union Asked \union Named
         /\ call[t].at \in {"host", "prog"} => call[t] \in Asked
         /\ call[t].at \in {"copy", "filled"} => call[t] \in Named
         /\ call[t] = Idle <=> call[t].at = "idle"
         /\ t \in Busy => call[t].item \in Items /\ call[t].args \in Calls
         /\ t \in Filled => t \in Busy
BY DEF CallTypeOK, Idle, Asked, Named, Busy, Filled

(* Which blocks are in use, before and after the operations of the pool. *)
LEMMA AllocHandsOut ==
  ASSUME ItemInv, NEW i \in Items, NEW n \in Lengths, AllocItem(i, n)
  PROVE  i \notin HandedOut /\ HandedOut' = HandedOut \union {i}
<1>1. CASE AllocPooled(i, n)
  BY <1>1, ItemAssumption
  DEF AllocPooled, ItemInv, ItemTypeOK, PoolUniform, HandedOut, Live
<1>2. CASE AllocFresh(i, n)
  <2>1. i \notin itemList /\ i \notin HandedOut
    BY <1>2, ItemAssumption DEF AllocFresh, ItemInv, PoolUniform, HandedOut, Live
  <2>2. capacity' = [capacity EXCEPT ![i] = BlockSize(n)] /\ itemList' = itemList
    BY <1>2 DEF AllocFresh
  <2>3. capacity \in [Items -> Nat] /\ BlockSize(n) # 0
    BY BlockSizeFits DEF ItemInv, ItemTypeOK
  <2>4. Live' = Live \union {i}
    BY <2>2, <2>3 DEF Live
  <2> QED BY <2>1, <2>2, <2>4 DEF HandedOut
<1> QED BY <1>1, <1>2 DEF AllocItem

(* A block that is given back is the only one that is handed out no more. *)
LEMMA FreeTakesBack ==
  ASSUME ItemInv, NEW i \in Items, FreeItem(i)
  PROVE  i \in HandedOut /\ HandedOut' = HandedOut \ {i}
<1>1. capacity \in [Items -> Nat] /\ i \in HandedOut
  BY DEF ItemInv, ItemTypeOK, FreeItem
<1>2. CASE Pooled(i)
  <2>1. itemList' = itemList \union {i} /\ capacity' = capacity
    BY <1>2 DEF FreeItem
  <2> QED BY <1>1, <2>1 DEF HandedOut, Live
<1>3. CASE ~Pooled(i)
  <2>1. itemList' = itemList /\ capacity' = [capacity EXCEPT ![i] = 0]
    BY <1>3 DEF FreeItem
  <2> QED BY <1>1, <2>1 DEF HandedOut, Live
<1> QED BY <1>1, <1>2, <1>3

(* Emptying the free list takes no block from a thread. *)
LEMMA ClearTakesNone ==
  ASSUME ItemInv, ClearItem
  PROVE  HandedOut' = HandedOut
BY DEF ItemInv, ItemTypeOK, ClearItem, HandedOut, Live

(* A step that leaves the pool alone. *)
LEMMA PoolStays ==
  ASSUME ItemInv, UNCHANGED itemVars
  PROVE  ItemInv' /\ HandedOut' = HandedOut
<1>1. ItemInv'
  BY ItemStepInv
<1> QED BY <1>1 DEF itemVars, HandedOut, Live

-----------------------------------------------------------------------------
(* The steps of a thread: the thread goes on as x, the texts of the block i   *)
(* become y, and every other thread and block stays as it is.                 *)
Goes(t, x, i, y) ==
  /\ call' = [call EXCEPT ![t] = x]
  /\ text' = [text EXCEPT ![i] = y]

(* A thread that goes on changes its own call and the text of its block. *)
LEMMA GoesTypes ==
  ASSUME CallTypeOK, NEW t \in Threads, NEW i \in Items,
         NEW x \in {Idle} \union Asked \union Named, NEW y \in Texts, Goes(t, x, i, y)
  PROVE  /\ CallTypeOK'
         /\ call'[t] = x /\ \A u \in Threads \ {t} : call'[u] = call[u]
         /\ text'[i] = y /\ \A j \in Items \ {i} : text'[j] = text[j]
BY DEF CallTypeOK, Goes

(* A thread that keeps its block. *)
LEMMA KeepsBlock ==
  ASSUME CallTypeOK, OwnBlocks, NEW t \in Busy,
         NEW x \in Asked \union Named, NEW y \in Texts,
         x.item = call[t].item, Goes(t, x, x.item, y), HandedOut' = HandedOut
  PROVE  /\ CallTypeOK' /\ OwnBlocks' /\ Busy' = Busy
         /\ call'[t] = x /\ text'[x.item] = y
         /\ \A u \in Threads \ {t} : call'[u] = call[u]
         /\ \A u \in Busy \ {t} : call'[u] = call[u] /\ text'[call[u].item] = text[call[u].item]
<1>1. t \in Threads /\ x.item \in Items /\ x # Idle
  BY DEF Busy, Asked, Named, Idle
<1>2. /\ CallTypeOK'
      /\ call'[t] = x /\ \A u \in Threads \ {t} : call'[u] = call[u]
      /\ text'[x.item] = y /\ \A j \in Items \ {x.item} : text'[j] = text[j]
  BY <1>1, GoesTypes
<1>3. Busy' = Busy
  BY <1>1, <1>2 DEF Busy
<1>4. \A u \in Busy : call'[u].item = call[u].item
  BY <1>2 DEF Busy
<1>5. OwnBlocks'
  BY <1>3, <1>4 DEF OwnBlocks
<1>6. \A u \in Busy \ {t} : call[u].item \in Items \ {x.item} /\ u \in Threads \ {t}
  BY CallRanges DEF OwnBlocks, Busy
<1> QED BY <1>1, <1>2, <1>3, <1>5, <1>6

(* Taking a block: it was nobody's, and comes without texts. *)
LEMMA TakeBlockInv ==
  ASSUME MakingInv, NEW t \in Threads, NEW c \in Calls, TakeBlock(t, c)
  PROVE  MakingInv'
<1>1. PICK i \in Items : /\ AllocItem(i, c.size)
                         /\ Goes(t, [at |-> "host", item |-> i, args |-> c], i, NoText)
  BY DEF TakeBlock, HandedText, Goes
<1>2. call[t] = Idle /\ UNCHANGED nameVars
  BY DEF TakeBlock
<1> DEFINE x == [at |-> "host", item |-> i, args |-> c]
<1>3. x \in Asked /\ x # Idle /\ NoText \in Texts
  BY DEF Asked, Idle, NoText, Texts, Path, HostnameSize, PrognameSize
<1>4. /\ CallTypeOK'
      /\ call'[t] = x /\ \A u \in Threads \ {t} : call'[u] = call[u]
      /\ text'[i] = NoText /\ \A j \in Items \ {i} : text'[j] = text[j]
  BY <1>1, <1>3, GoesTypes DEF MakingInv, TypesInv
<1>5. i \notin HandedOut /\ HandedOut' = HandedOut \union {i}
  BY <1>1, CallArgs, AllocHandsOut DEF MakingInv, TypesInv
<1>6. ItemInv'
  BY <1>1, CallArgs, ItemStepInv DEF MakingInv, TypesInv, ItemNext
<1>7. TypesInv'
  BY <1>2, <1>4, <1>6 DEF MakingInv, TypesInv, NamesOK, nameVars
<1>8. Busy' = Busy \union {t} /\ t \notin Busy
  BY <1>2, <1>3, <1>4 DEF Busy
<1>9. \A u \in Busy : /\ call'[u] = call[u] /\ call[u].item \in Items \ {i}
                      /\ text'[call[u].item] = text[call[u].item]
  BY <1>4, <1>5, <1>8 DEF Busy, MakingInv, OwnBlocks, HandedOut, Live
<1>10. x.item = i /\ x.at = "host"
  OBVIOUS
<1> HIDE DEF x
<1>11. OwnBlocks'
  BY <1>4, <1>5, <1>8, <1>9, <1>10 DEF MakingInv, OwnBlocks
<1>12. Filled' = Filled /\ t \notin Filled /\ Filled \subseteq Busy
  BY <1>2, <1>4, <1>10 DEF Filled, Idle, Busy
<1>13. Zeroed'
  <2>1. NoText.file = Path(0, {}) /\ NoText.func = 0
    BY DEF NoText
  <2> QED BY <1>4, <1>8, <1>9, <1>10, <1>12, <2>1 DEF MakingInv, Zeroed
<1>14. NameRead'
  BY <1>2, <1>4, <1>10 DEF MakingInv, NameRead, nameVars
<1>15. MessageAsCalled'
  BY <1>9, <1>12 DEF MakingInv, MessageAsCalled
<1> QED BY <1>7, <1>11, <1>13, <1>14, <1>15 DEF MakingInv

(* The name of the machine changes nothing else in the block. *)
LEMMA GetHostnameInv ==
  ASSUME MakingInv, NEW t \in Threads, GetHostname(t)
  PROVE  MakingInv'
<1> DEFINE i == call[t].item
           x == [call[t] EXCEPT !.at = "prog"]
           y == [text[i] EXCEPT !.host = Cut(hostnameLen', HostnameSize)]
<1>1. call[t] \in Asked /\ t \in Busy /\ i \in Items /\ text[i] \in Texts /\ call[t].at = "host"
  BY CallRanges DEF GetHostname, MakingInv, TypesInv, CallTypeOK, Busy, Idle, Asked
<1>2. hostnameLen' \in {0, HostLen} /\ UNCHANGED <<itemVars, progname, prognameLen, renaming>>
  BY DEF GetHostname, InitHostname, MakingInv, TypesInv, NamesOK
<1>3. y \in Texts /\ y.file = text[i].file /\ y.func = text[i].func
  <2>1. hostnameLen' \in Nat /\ HostnameSize \in Nat \ {0}
    BY <1>2, MessageAssumption DEF NameBufSize, HostnameSize
  <2>2. Cut(hostnameLen', HostnameSize) \in 0 .. HostnameSize - 1
    BY <2>1, CutFits
  <2> QED BY <1>1, <2>2 DEF Texts
<1>4. x \in Asked /\ x.item = i /\ x.at = "prog"
  BY <1>1 DEF Asked
<1>5. Goes(t, x, x.item, y)
  BY <1>4 DEF GetHostname, Goes
<1>6. ItemInv' /\ HandedOut' = HandedOut
  BY <1>2, PoolStays DEF MakingInv, TypesInv
<1> HIDE DEF i, x, y
<1>7. /\ CallTypeOK' /\ OwnBlocks' /\ Busy' = Busy
      /\ call'[t] = x /\ text'[x.item] = y
      /\ \A u \in Threads \ {t} : call'[u] = call[u]
      /\ \A u \in Busy \ {t} : call'[u] = call[u] /\ text'[call[u].item] = text[call[u].item]
  BY <1>1, <1>3, <1>4, <1>5, <1>6, KeepsBlock DEF MakingInv, TypesInv, i
<1>8. TypesInv'
  BY <1>2, <1>6, <1>7 DEF MakingInv, TypesInv, NamesOK
<1>9. Filled' = Filled /\ t \notin Filled /\ Filled \subseteq Busy
  BY <1>1, <1>4, <1>7, CallRanges DEF Filled, MakingInv, TypesInv
<1>10. Zeroed'
  BY <1>1, <1>3, <1>4, <1>7, <1>9 DEF MakingInv, Zeroed, i
<1>11. NameRead'
  BY <1>2, <1>4, <1>7 DEF MakingInv, NameRead
<1>12. MessageAsCalled'
  BY <1>7, <1>9 DEF MakingInv, MessageAsCalled
<1> QED BY <1>7, <1>8, <1>10, <1>11, <1>12 DEF MakingInv

(* Reading the length of the program's name. *)
LEMMA ReadProgLenInv ==
  ASSUME MakingInv, NEW t \in Threads, ReadProgLen(t)
  PROVE  MakingInv'
<1> DEFINE i == call[t].item
           x == [at |-> "copy", item |-> call[t].item, args |-> call[t].args,
                 len |-> Cut(prognameLen, PrognameSize),
                 name |-> prognameLen, steady |-> renaming = Null]
           y == text[i]
<1>1. call[t] \in Asked /\ t \in Busy /\ i \in Items /\ text \in [Items -> Texts] /\ call[t].at = "prog"
  BY CallRanges DEF ReadProgLen, MakingInv, TypesInv, CallTypeOK, Busy, Idle, Asked
<1>2. UNCHANGED <<itemVars, text, nameVars>> /\ call' = [call EXCEPT ![t] = x]
  BY DEF ReadProgLen
<1>3. y \in Texts /\ text' = [text EXCEPT ![i] = y]
  BY <1>1, <1>2
<1>4. x \in Named /\ x.item = i /\ x.at = "copy" /\ x.len = Cut(prognameLen, PrognameSize)
      /\ x.name = prognameLen /\ x.steady = (renaming = Null)
  <2>1. prognameLen \in 0 .. NameBufSize - 1 /\ prognameLen \in Nat /\ PrognameSize \in Nat \ {0}
    BY DEF MakingInv, TypesInv, NamesOK, NameBufSize, PrognameSize
  <2>2. Cut(prognameLen, PrognameSize) \in 0 .. PrognameSize - 1
    BY <2>1, CutFits
  <2> QED BY <1>1, <2>1, <2>2 DEF Asked, Named
<1>5. Goes(t, x, x.item, y)
  BY <1>2, <1>3, <1>4 DEF Goes
<1>6. ItemInv' /\ HandedOut' = HandedOut
  BY <1>2, PoolStays DEF MakingInv, TypesInv
<1> HIDE DEF i, x, y
<1>7. /\ CallTypeOK' /\ OwnBlocks' /\ Busy' = Busy
      /\ call'[t] = x /\ text'[x.item] = y
      /\ \A u \in Threads \ {t} : call'[u] = call[u]
      /\ \A u \in Busy \ {t} : call'[u] = call[u] /\ text'[call[u].item] = text[call[u].item]
  BY <1>1, <1>3, <1>4, <1>5, <1>6, KeepsBlock DEF MakingInv, TypesInv, i
<1>8. TypesInv'
  BY <1>2, <1>6, <1>7 DEF MakingInv, TypesInv, NamesOK, nameVars
<1>9. Filled' = Filled /\ t \notin Filled /\ Filled \subseteq Busy
  BY <1>1, <1>4, <1>7, CallRanges DEF Filled, MakingInv, TypesInv
<1>10. Zeroed'
  BY <1>1, <1>4, <1>7, <1>9 DEF MakingInv, Zeroed, i, y
<1>11. NameRead'
  <2>1. prognameLen' = prognameLen /\ progname' = progname /\ renaming' = renaming
    BY <1>2 DEF nameVars
  <2>2. /\ call'[t].len = Cut(prognameLen, PrognameSize) /\ call'[t].name = prognameLen
        /\ call'[t].steady = (renaming = Null)
    BY <1>4, <1>7
  <2>3. \A u \in Threads \ {t} : call'[u] = call[u]
    BY <1>7
  <2> QED BY <2>1, <2>2, <2>3 DEF MakingInv, NameRead
<1>12. MessageAsCalled'
  BY <1>7, <1>9 DEF MakingInv, MessageAsCalled
<1> QED BY <1>7, <1>8, <1>10, <1>11, <1>12 DEF MakingInv

(* Filling in the texts: from here on they are those of the call. *)
LEMMA FillTextsInv ==
  ASSUME MakingInv, NEW t \in Threads, FillTexts(t)
  PROVE  MakingInv'
<1> DEFINE i == call[t].item
           c == call[t].args
           x == [call[t] EXCEPT !.at = "filled"]
<1>1. call[t] \in Named /\ t \in Busy /\ i \in Items /\ text[i] \in Texts /\ call[t].at = "copy"
      /\ c \in Calls
  BY CallRanges DEF FillTexts, MakingInv, TypesInv, CallTypeOK, Busy, Idle, Named
<1>2. UNCHANGED <<itemVars, nameVars>> /\ call' = [call EXCEPT ![t] = x]
  BY DEF FillTexts
<1>3. PICK n \in ReadableProg(call[t].len) :
        text' = [text EXCEPT ![i] =
          [host |-> text[i].host, prog |-> n,
           file |-> IF c.file = Null THEN text[i].file ELSE CutPath(c.file, FilePathSize),
           func |-> IF c.func = Null THEN text[i].func ELSE Cut(c.func, FuncSize)]]
  BY <1>1 DEF FillTexts, MakingInv, TypesInv, CallTypeOK
<1>4. text[i].file = Path(0, {}) /\ text[i].func = 0
  BY <1>1 DEF MakingInv, Zeroed, Filled
<1> DEFINE y == [host |-> text[i].host, prog |-> n,
                 file |-> IF c.file = Null THEN Path(0, {}) ELSE CutPath(c.file, FilePathSize),
                 func |-> IF c.func = Null THEN 0 ELSE Cut(c.func, FuncSize)]
<1>5. text' = [text EXCEPT ![i] = y]
  BY <1>3, <1>4
<1>6. n \in 0 .. PrognameSize - 1
  <2>1. PICK m \in 0 .. PrognameSize - 1 : m = call[t].len
    BY <1>1 DEF Named
  <2>2. progname \in Nat
    BY DEF MakingInv, TypesInv, NamesOK
  <2>3. CASE renaming = Null
    <3>1. n = Least(m, progname)
      BY <2>1, <2>3 DEF ReadableProg
    <3>2. Least(m, progname) \in 0 .. m
      BY <2>2 DEF Least, PrognameSize
    <3> QED BY <3>1, <3>2 DEF PrognameSize
  <2>4. CASE renaming # Null
    <3>1. n \in TornLengths /\ n <= m
      BY <2>1, <2>4 DEF ReadableProg
    <3>2. n \in Nat
      BY <3>1, MessageAssumption
    <3> QED BY <3>1, <3>2 DEF PrognameSize
  <2> QED BY <2>3, <2>4
<1>7. y \in Texts
  <2>1. y.file \in [len : Nat, seps : SUBSET Nat]
    BY <1>1, CallArgs, CutPathFits DEF Path, IsPath
  <2>2. y.func \in Nat
    <3>1. FuncSize \in Nat \ {0}
      BY DEF FuncSize
    <3> QED BY <1>1, <3>1, CallArgs, CutFits
  <2>3. text[i].host \in 0 .. HostnameSize - 1
    BY <1>1 DEF Texts
  <2> QED BY <1>6, <2>1, <2>2, <2>3 DEF Texts
<1>8. x \in Named /\ x.item = i /\ x.at = "filled" /\ x.args = c /\ x.len = call[t].len
      /\ x.name = call[t].name /\ x.steady = call[t].steady
  BY <1>1 DEF Named
<1>9. Goes(t, x, x.item, y)
  BY <1>2, <1>5, <1>8 DEF Goes
<1>10. ItemInv' /\ HandedOut' = HandedOut
  BY <1>2, PoolStays DEF MakingInv, TypesInv
<1>11. call[t].steady => n = Cut(call[t].name, PrognameSize)
  <2> SUFFICES ASSUME call[t].steady PROVE n = Cut(call[t].name, PrognameSize)
    OBVIOUS
  <2>1. /\ renaming = Null /\ call[t].name = progname
        /\ call[t].len = Cut(call[t].name, PrognameSize)
    BY <1>1 DEF MakingInv, NameRead
  <2>2. progname \in Nat /\ PrognameSize \in Nat \ {0}
    BY DEF MakingInv, TypesInv, NamesOK, PrognameSize
  <2>3. n = Least(Cut(progname, PrognameSize), progname)
    BY <2>1 DEF ReadableProg
  <2>4. Cut(progname, PrognameSize) \in 0 .. PrognameSize - 1 /\ Cut(progname, PrognameSize) <= progname
    BY <2>2, CutFits
  <2>5. n = Cut(progname, PrognameSize)
    BY <2>2, <2>3, <2>4 DEF Least
  <2> QED BY <2>1, <2>5
<1>12. y.prog = n
       /\ y.file = (IF c.file = Null THEN Path(0, {}) ELSE CutPath(c.file, FilePathSize))
       /\ y.func = (IF c.func = Null THEN 0 ELSE Cut(c.func, FuncSize))
  OBVIOUS
<1> HIDE DEF i, x, y, c
<1>13. /\ CallTypeOK' /\ OwnBlocks' /\ Busy' = Busy
       /\ call'[t] = x /\ text'[x.item] = y
       /\ \A u \in Threads \ {t} : call'[u] = call[u]
       /\ \A u \in Busy \ {t} : call'[u] = call[u] /\ text'[call[u].item] = text[call[u].item]
  BY <1>1, <1>7, <1>8, <1>9, <1>10, KeepsBlock DEF MakingInv, TypesInv, i
<1>14. TypesInv'
  BY <1>2, <1>10, <1>13 DEF MakingInv, TypesInv, NamesOK, nameVars
<1>15. Filled' = Filled \union {t} /\ Filled \subseteq Busy
  BY <1>1, <1>8, <1>13, CallRanges DEF Filled, MakingInv, TypesInv, Busy
<1>16. Zeroed'
  BY <1>13, <1>15 DEF MakingInv, Zeroed
<1>17. NameRead'
  BY <1>1, <1>2, <1>8, <1>13 DEF MakingInv, NameRead, nameVars
<1>18. MessageAsCalled'
  <2>1. ASSUME NEW u \in Filled', u # t
        PROVE  /\ u \in Filled /\ call'[u] = call[u]
               /\ text'[call[u].item] = text[call[u].item]
    BY <1>13, <1>15, <2>1
  <2>2. /\ text'[call'[t].item] = y /\ call'[t].args = c /\ call'[t].steady = call[t].steady
        /\ call'[t].name = call[t].name
    BY <1>8, <1>13
  <2> QED BY <1>11, <1>12, <2>1, <2>2 DEF MakingInv, MessageAsCalled
<1> QED BY <1>13, <1>14, <1>16, <1>17, <1>18 DEF MakingInv

(* Giving the block back. *)
LEMMA ReleaseBlockInv ==
  ASSUME MakingInv, NEW t \in Threads, ReleaseBlock(t)
  PROVE  MakingInv'
<1> DEFINE i == call[t].item
<1>1. t \in Busy /\ i \in Items /\ t \in Filled
  BY CallRanges DEF ReleaseBlock, MakingInv, TypesInv, Filled
<1>2. FreeItem(i) /\ Goes(t, Idle, i, OldText) /\ UNCHANGED nameVars
  BY DEF ReleaseBlock, Goes
<1>3. ItemInv' /\ HandedOut' = HandedOut \ {i}
  BY <1>1, <1>2, FreeItemInv, FreeTakesBack DEF MakingInv, TypesInv
<1>4. OldText \in Texts
  BY DEF OldText, Texts, Path, HostnameSize, PrognameSize
<1> HIDE DEF i
<1>5. /\ CallTypeOK'
      /\ call'[t] = Idle /\ \A u \in Threads \ {t} : call'[u] = call[u]
      /\ text'[i] = OldText /\ \A j \in Items \ {i} : text'[j] = text[j]
  BY <1>1, <1>2, <1>4, GoesTypes DEF MakingInv, TypesInv, Busy
<1>6. Busy' = Busy \ {t}
  BY <1>5 DEF Busy
<1>7. \A u \in Busy \ {t} : /\ call'[u] = call[u] /\ call[u].item \in Items \ {i}
                            /\ text'[call[u].item] = text[call[u].item]
  BY <1>1, <1>5, CallRanges DEF MakingInv, TypesInv, OwnBlocks, Busy, i
<1>8. TypesInv'
  BY <1>2, <1>3, <1>5 DEF MakingInv, TypesInv, NamesOK, nameVars
<1>9. OwnBlocks'
  BY <1>3, <1>6, <1>7 DEF MakingInv, OwnBlocks
<1>10. Filled' = Filled \ {t} /\ Filled \subseteq Busy
  BY <1>1, <1>5, CallRanges DEF Filled, Idle, MakingInv, TypesInv
<1>11. Zeroed'
  BY <1>6, <1>7, <1>10 DEF MakingInv, Zeroed
<1>12. NameRead'
  BY <1>2, <1>5 DEF MakingInv, NameRead, nameVars, Idle
<1>13. MessageAsCalled'
  BY <1>7, <1>10 DEF MakingInv, MessageAsCalled
<1> QED BY <1>8, <1>9, <1>11, <1>12, <1>13 DEF MakingInv

(* A new name: every thread that is about to read the old one is told so. *)
LEMMA SetProgNameInv ==
  ASSUME MakingInv, NEW p \in Names, SetProgName(p)
  PROVE  MakingInv'
<1>1. /\ renaming = Null /\ renaming' = Cut(BaseLen(p), NameBufSize) /\ BaseLen(p) > 0
      /\ UNCHANGED <<itemVars, text, hostnameLen, progname, prognameLen>>
  BY DEF SetProgName
<1>2. renaming' \in 1 .. NameBufSize - 1
  <2>1. IsPath(p)
    BY MessageAssumption
  <2>2. PICK n \in Nat : n = BaseLen(p) /\ n > 0
    BY <1>1, <2>1, BaseFits DEF IsPath
  <2>3. Cut(n, NameBufSize) \in 1 .. NameBufSize - 1
    BY <2>2 DEF Cut, Least, NameBufSize
  <2> QED BY <1>1, <2>2, <2>3
<1>3. ASSUME NEW t \in Threads
      PROVE  /\ call'[t] \in {Idle} \union Asked \union Named
             /\ call'[t].at = call[t].at
             /\ call[t].at # "copy" => call'[t] = call[t]
             /\ call[t].at = "copy" => /\ call'[t].item = call[t].item
                                       /\ call'[t].len = call[t].len
                                       /\ call'[t].name = call[t].name
                                       /\ ~call'[t].steady
  <2>1. call'[t] = IF call[t].at = "copy" THEN [call[t] EXCEPT !.steady = FALSE] ELSE call[t]
    BY DEF SetProgName
  <2>2. call[t] \in {Idle} \union Asked \union Named
    BY CallRanges DEF MakingInv, TypesInv
  <2>3. CASE call[t].at = "copy"
    <3>1. call[t] \in Named /\ call'[t] = [call[t] EXCEPT !.steady = FALSE]
      BY <2>1, <2>3, CallRanges DEF MakingInv, TypesInv
    <3>2. PICK at \in {"copy", "filled"}, item \in Items, args \in Calls, len \in 0 .. PrognameSize - 1,
               name \in 0 .. NameBufSize - 1, steady \in BOOLEAN :
            call[t] = [at |-> at, item |-> item, args |-> args, len |-> len, name |-> name,
                       steady |-> steady]
      BY <3>1 DEF Named
    <3>3. call'[t] = [at |-> at, item |-> item, args |-> args, len |-> len, name |-> name,
                      steady |-> FALSE]
      <4>1. call'[t] = [[at |-> at, item |-> item, args |-> args, len |-> len, name |-> name,
                         steady |-> steady] EXCEPT !.steady = FALSE]
        BY <3>1, <3>2, Zenon
      <4> QED BY <4>1
    <3>4. call'[t] \in Named
      BY <3>3 DEF Named
    <3> QED BY <2>3, <3>2, <3>3, <3>4
  <2>4. CASE call[t].at # "copy"
    BY <2>1, <2>2, <2>4
  <2> QED BY <2>3, <2>4
<1>4. CallTypeOK'
  <2>1. call' \in [Threads -> {Idle} \union Asked \union Named]
    <3>1. call' = [t \in Threads |-> call'[t]]
      BY DEF SetProgName
    <3> QED BY <1>3, <3>1
  <2> QED BY <1>1, <2>1 DEF MakingInv, TypesInv, CallTypeOK
<1>5. ItemInv' /\ HandedOut' = HandedOut
  BY <1>1, PoolStays DEF MakingInv, TypesInv
<1>6. TypesInv'
  BY <1>1, <1>2, <1>4, <1>5 DEF MakingInv, TypesInv, NamesOK
<1>7. Busy' = Busy /\ Filled' = Filled /\ Filled \subseteq Busy
  BY <1>3, <1>4, CallRanges DEF Busy, Filled, Idle, MakingInv, TypesInv, CallTypeOK
<1>8. \A t \in Busy : call'[t].item = call[t].item
  BY <1>3 DEF Busy
<1>9. OwnBlocks'
  BY <1>5, <1>7, <1>8 DEF MakingInv, OwnBlocks
<1>10. Zeroed'
  BY <1>1, <1>7, <1>8 DEF MakingInv, Zeroed
<1>11. NameRead'
  BY <1>1, <1>3 DEF MakingInv, NameRead
<1>12. MessageAsCalled'
  <2>1. \A t \in Filled : call'[t] = call[t]
    BY <1>3 DEF Filled
  <2> QED BY <1>1, <1>7, <2>1 DEF MakingInv, MessageAsCalled
<1> QED BY <1>6, <1>9, <1>10, <1>11, <1>12 DEF MakingInv

(* The copy ends. *)
LEMMA EndRenameInv ==
  ASSUME MakingInv, EndRename
  PROVE  MakingInv'
<1>1. /\ renaming # Null /\ renaming' = Null /\ progname' = renaming /\ prognameLen' = renaming
      /\ UNCHANGED <<itemVars, text, call, hostnameLen>>
  BY DEF EndRename
<1>2. ItemInv' /\ HandedOut' = HandedOut
  BY <1>1, PoolStays DEF MakingInv, TypesInv
<1>3. TypesInv'
  BY <1>1, <1>2 DEF MakingInv, TypesInv, NamesOK, CallTypeOK, NameBufSize
<1>4. OwnBlocks' /\ Zeroed' /\ MessageAsCalled'
  BY <1>1, <1>2 DEF MakingInv, OwnBlocks, Zeroed, MessageAsCalled, Busy, Filled
<1>5. NameRead'
  BY <1>1 DEF MakingInv, NameRead
<1> QED BY <1>3, <1>4, <1>5 DEF MakingInv

(* Emptying the pool takes no block from anybody. *)
LEMMA ClearPoolInv ==
  ASSUME MakingInv, ClearPool
  PROVE  MakingInv'
<1>1. ClearItem /\ UNCHANGED <<text, call, nameVars>>
  BY DEF ClearPool
<1>2. ItemInv' /\ HandedOut' = HandedOut
  BY <1>1, ClearItemInv, ClearTakesNone DEF MakingInv, TypesInv
<1>3. TypesInv'
  BY <1>1, <1>2 DEF MakingInv, TypesInv, NamesOK, CallTypeOK, nameVars
<1>4. OwnBlocks' /\ Zeroed' /\ MessageAsCalled' /\ NameRead'
  BY <1>1, <1>2 DEF MakingInv, OwnBlocks, Zeroed, MessageAsCalled, NameRead, Busy, Filled, nameVars
<1> QED BY <1>3, <1>4 DEF MakingInv

(* The invariant holds before the first call. *)
LEMMA MakingInitInv == MessageInit => MakingInv
<1> SUFFICES ASSUME MessageInit PROVE MakingInv
  OBVIOUS
<1>1. ItemInv
  BY ItemInitInv DEF MessageInit
<1>2. OldText \in Texts
  BY DEF OldText, Texts, Path, HostnameSize, PrognameSize
<1>3. CallTypeOK /\ NamesOK
  BY <1>2 DEF MessageInit, CallTypeOK, NamesOK, NameBufSize
<1>4. Busy = {} /\ Filled = {} /\ \A t \in Threads : call[t].at = "idle"
  BY DEF MessageInit, Busy, Filled, Idle
<1>5. OwnBlocks /\ Zeroed /\ MessageAsCalled
  BY <1>4 DEF OwnBlocks, Zeroed, MessageAsCalled
<1>6. NameRead
  BY <1>4 DEF NameRead, MessageInit
<1> QED BY <1>1, <1>3, <1>5, <1>6 DEF MakingInv, TypesInv

(* Every step keeps the invariant. *)
LEMMA MakingStepInv == MakingInv /\ [MessageNext]_messageVars => MakingInv'
<1> SUFFICES ASSUME MakingInv, [MessageNext]_messageVars PROVE MakingInv'
  OBVIOUS
<1>1. ASSUME NEW t \in Threads, NEW c \in Calls, TakeBlock(t, c) PROVE MakingInv'
  BY <1>1, TakeBlockInv
<1>2. ASSUME NEW t \in Threads, GetHostname(t) \/ ReadProgLen(t) \/ FillTexts(t) \/ ReleaseBlock(t)
      PROVE  MakingInv'
  BY <1>2, GetHostnameInv, ReadProgLenInv, FillTextsInv, ReleaseBlockInv
<1>3. ASSUME NEW p \in Names, SetProgName(p) PROVE MakingInv'
  BY <1>3, SetProgNameInv
<1>4. CASE EndRename \/ ClearPool
  BY <1>4, EndRenameInv, ClearPoolInv
<1>5. CASE UNCHANGED messageVars
  <2>1. UNCHANGED <<itemVars, text, call, hostnameLen, progname, prognameLen, renaming>>
    BY <1>5 DEF messageVars
  <2>2. ItemInv' /\ HandedOut' = HandedOut
    BY <2>1, PoolStays DEF MakingInv, TypesInv
  <2> QED BY <2>1, <2>2 DEF MakingInv, TypesInv, NamesOK, CallTypeOK, OwnBlocks, Zeroed,
                            MessageAsCalled, NameRead, Busy, Filled
<1> QED BY <1>1, <1>2, <1>3, <1>4, <1>5 DEF MessageNext

(* The invariant holds in every reachable state. *)
LEMMA MakingInvHolds == MessageSpec => []MakingInv
BY MakingInitInv, MakingStepInv, PTL DEF MessageSpec

(* Every message whose header is written has texts that fit their arrays. *)
LEMMA ItemOfHeader ==
  ASSUME MakingInv, NEW t \in Filled
  PROVE  IsHeaderItem(HeaderItem(t))
<1> DEFINE x == text[call[t].item]
           c == call[t].args
           h == HeaderItem(t)
<1>1. t \in Busy /\ call[t].item \in Items /\ c \in Calls
  BY CallRanges DEF MakingInv, TypesInv, Filled
<1>2. x.host \in 0 .. HostnameSize - 1 /\ x.prog \in 0 .. PrognameSize - 1
  BY <1>1 DEF MakingInv, TypesInv, CallTypeOK, Texts
<1>3. x.file.len \in 0 .. FilePathSize - 1 /\ BaseLen(x.file) \in 0 .. FilePathSize - 1
  <2>1. x.file = IF c.file = Null THEN Path(0, {}) ELSE CutPath(c.file, FilePathSize)
    BY DEF MakingInv, MessageAsCalled
  <2>2. IsPath(Path(0, {})) /\ Path(0, {}).len \in 0 .. FilePathSize - 1
    BY DEF IsPath, Path, FilePathSize
  <2>3. IsPath(x.file) /\ x.file.len \in 0 .. FilePathSize - 1
    BY <1>1, <2>1, <2>2, CallArgs, CutPathFits
  <2>4. BaseLen(x.file) \in 0 .. x.file.len
    BY <2>3, BaseFits
  <2>5. PICK len \in 0 .. FilePathSize - 1 : len = x.file.len
    BY <2>3
  <2>6. PICK base \in Int : base = BaseLen(x.file) /\ 0 <= base /\ base <= len
    BY <2>4, <2>5
  <2>7. base \in 0 .. FilePathSize - 1
    BY <2>6 DEF FilePathSize
  <2> QED BY <2>3, <2>6, <2>7
<1>4. x.func \in 0 .. FuncSize - 1
  <2>1. x.func = IF c.func = Null THEN 0 ELSE Cut(c.func, FuncSize)
    BY DEF MakingInv, MessageAsCalled
  <2>2. FuncSize \in Nat \ {0} /\ 0 \in 0 .. FuncSize - 1
    BY DEF FuncSize
  <2> QED BY <1>1, <2>1, <2>2, CallArgs, CutFits
<1>5. c.digits \in 1 .. 11
  BY <1>1, CallArgs
<1>6. h = [host |-> x.host, prog |-> x.prog, path |-> x.file.len, base |-> BaseLen(x.file),
           func |-> x.func, pid |-> c.digits, tid |-> c.digits, mod |-> c.digits,
           tag |-> c.digits, line |-> c.digits]
  BY Zenon DEF HeaderItem
<1> HIDE DEF x, c, h
<1>7. IsHeaderItem(h)
  BY <1>2, <1>3, <1>4, <1>5, <1>6 DEF IsHeaderItem
<1> QED BY <1>7 DEF h

-----------------------------------------------------------------------------
(* The making of messages uses the pool by its operations only, so that what  *)
(* is proved of the pool holds here (log_core.c:455, log_item.c).             *)
THEOREM MessagesUseThePool == MessageSpec => ItemSpec
<1>1. MessageInit => ItemInit
  BY DEF MessageInit
<1>2. [MessageNext]_messageVars => [ItemNext]_itemVars
  <2> SUFFICES ASSUME [MessageNext]_messageVars, ~UNCHANGED itemVars PROVE ItemNext
    OBVIOUS
  <2>1. ASSUME NEW t \in Threads, NEW c \in Calls, TakeBlock(t, c) PROVE ItemNext
    BY <2>1, CallArgs DEF TakeBlock, ItemNext
  <2>2. ASSUME NEW t \in Threads, GetHostname(t) \/ ReadProgLen(t) \/ FillTexts(t)
        PROVE  UNCHANGED itemVars
    BY <2>2 DEF GetHostname, ReadProgLen, FillTexts
  <2>3. ASSUME NEW t \in Threads, ReleaseBlock(t) PROVE ItemNext
    BY <2>3 DEF ReleaseBlock, ItemNext, FreeItem, HandedOut, Live
  <2>4. ASSUME NEW p \in Names, SetProgName(p) PROVE UNCHANGED itemVars
    BY <2>4 DEF SetProgName
  <2>5. EndRename => UNCHANGED itemVars
    BY DEF EndRename
  <2>6. ClearPool => ItemNext
    BY DEF ClearPool, ItemNext
  <2>7. UNCHANGED messageVars => UNCHANGED itemVars
    BY DEF messageVars
  <2> QED BY <2>1, <2>2, <2>3, <2>4, <2>5, <2>6, <2>7 DEF MessageNext
<1> QED BY <1>1, <1>2, PTL DEF MessageSpec, ItemSpec

(* So the list holds idle blocks of the default size while threads make their *)
(* messages, and none of them is handed out in use (log_item.c:22).           *)
THEOREM MessagesKeepThePool == MessageSpec => []PoolUniform
BY MessagesUseThePool, ItemPoolUniform, PTL

(* The blocks, the texts and the names have their types, a text never fills   *)
(* its array to the last byte, for every size of the pool.                    *)
THEOREM MessageTypeCorrect == MessageSpec => []MessageTypeOK
<1>1. MakingInv => MessageTypeOK
  <2> SUFFICES ASSUME MakingInv PROVE MessageTypeOK
    OBVIOUS
  <2>1. ItemTypeOK /\ NamesOK /\ text \in [Items -> Texts]
    BY DEF MakingInv, TypesInv, ItemInv, CallTypeOK
  <2>2. \A i \in Items : text[i].host < HostnameSize /\ text[i].prog < PrognameSize
    BY <2>1 DEF Texts, HostnameSize, PrognameSize
  <2> QED BY <2>1, <2>2 DEF MessageTypeOK, NamesOK
<1> QED BY <1>1, MakingInvHolds, PTL

(* A message has the texts of its own call, whatever the block held before    *)
(* and however many threads log and rename the program (log_item.c:29,        *)
(* log_misc.c:133).                                                           *)
THEOREM TextsAreOfTheCall == MessageSpec => []MessageAsCalled
BY MakingInvHolds, PTL DEF MakingInv

(* No header is written beyond its buffer, and each is the header cut there,  *)
(* for buffers of every size and every width of its fields                    *)
(* (log_core.c:27-39).                                                        *)
THEOREM HeadersEndInTheBuffer == MessageSpec => []HeaderCut
<1>1. MakingInv => HeaderCut
  BY ItemOfHeader, HeaderIsCut, MessageAssumption DEF HeaderCut
<1> QED BY <1>1, MakingInvHolds, PTL

(* The length that NengLogWriteHeader returns without a buffer is the length  *)
(* of the header it writes into one (log_core.c:24).                          *)
THEOREM HeadersAreMeasured == MessageSpec => []HeaderMeasured
<1>1. MakingInv => HeaderMeasured
  BY ItemOfHeader, HeaderIsMeasured, MessageAssumption DEF HeaderMeasured
<1> QED BY <1>1, MakingInvHolds, PTL

(* The two bytes that the appenders store behind a header are in their buffer *)
(* (log_file.c:231-234, log_syslog.c:99-105).                                 *)
THEOREM HeadersLeaveRoom == MessageSpec => []HeaderRoom
<1>1. MakingInv => HeaderRoom
  BY ItemOfHeader, HeaderLeavesRoom, MessageAssumption DEF HeaderRoom
<1> QED BY <1>1, MakingInvHolds, PTL
=============================================================================
