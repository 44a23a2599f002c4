------------------------------- MODULE LogFilter -------------------------------
(***************************************************************************)
(* The filters of an appender, src/src/neng/log/log_filter.c, with the     *)
(* bit arrays of log_misc.c, and the list of filters that log_appender.c   *)
(* keeps behind the appender's extend pointer.                             *)
(*                                                                         *)
(* One application thread fills a filter and gives it to an appender that  *)
(* is not registered yet, as the examples do.  A byte of a bit array is    *)
(* the set of its bits that are 1, the most significant one being 0.       *)
(***************************************************************************)
EXTENDS Integers, Sequences, FiniteSets

CONSTANTS
  ModBytes, TagBytes, LevelBytes,  \* lengths of the bit arrays
  ModIds, TagIds, LevelIds,        \* numbers callers pass, valid or not
  Words,                           \* level words of messages: level, facility, flags
  NoExtend,                        \* an extend pointer that is NULL
  MaxFilters                       \* bound: filters of an appender

ASSUME FilterAssumption ==
  /\ ModBytes \in Nat \ {0} /\ TagBytes \in Nat \ {0} /\ LevelBytes \in Nat \ {0}
  /\ ModIds \subseteq Int /\ TagIds \subseteq Int /\ LevelIds \subseteq Int
  /\ Words \subseteq Nat
  /\ MaxFilters \in Nat

VARIABLES
  filter,   \* the caller's NengLogFilter
  extend    \* the filter_list behind appender->extend, or NoExtend

vars == <<filter, extend>>

-----------------------------------------------------------------------------
(* __neng_log_bits_set, _get, _empty and _clear. *)

Bits(n) == [0 .. n - 1 -> SUBSET (0 .. 7)]
Filter == [mods : Bits(ModBytes), tags : Bits(TagBytes), levels : Bits(LevelBytes)]

ASSUME NoExtendAssumption == NoExtend \notin Seq(Filter)

ZeroBits(n) == [b \in 0 .. n - 1 |-> {}]

\* Mutant: bits 4 to 7 of a byte fall onto bits 0 to 3.
MutBitIndex(v) == v % 4

\* Mutant: the masks are counted from 1.
MutBitIndexOne(v) == 1 + (v % 8)

BitIndex(v) == v % 8
InRange(bits, v) == v >= 0 /\ v \div 8 \in DOMAIN bits

SetBit(bits, v) ==
  IF InRange(bits, v) THEN [bits EXCEPT ![v \div 8] = @ \union {BitIndex(v)}] ELSE bits

GetBit(bits, v) ==
  IF ~InRange(bits, v) THEN -1 ELSE IF BitIndex(v) \in bits[v \div 8] THEN 1 ELSE 0

IsEmpty(bits) == \A b \in DOMAIN bits : bits[b] = {}

-----------------------------------------------------------------------------
(* Filling a filter. *)

NoFilter == [mods |-> ZeroBits(ModBytes), tags |-> ZeroBits(TagBytes), levels |-> ZeroBits(LevelBytes)]

FilterIsEmpty(f) == \A k \in DOMAIN f : IsEmpty(f[k])

Init ==
  /\ filter = NoFilter
  /\ extend = NoExtend

SetModBit(v) == filter' = [filter EXCEPT !.mods = SetBit(@, v)] /\ UNCHANGED extend
SetTagBit(v) == filter' = [filter EXCEPT !.tags = SetBit(@, v)] /\ UNCHANGED extend
SetLevelBit(v) == filter' = [filter EXCEPT !.levels = SetBit(@, v)] /\ UNCHANGED extend

ClearBit(k) == filter' = [filter EXCEPT ![k] = NoFilter[k]] /\ UNCHANGED extend

FilterClear == filter' = NoFilter /\ UNCHANGED extend

-----------------------------------------------------------------------------
(* The appender. *)

FilterList == IF extend = NoExtend THEN <<>> ELSE extend

\* An empty filter is refused with EINVAL, which changes nothing.
AddFilter ==
  /\ ~FilterIsEmpty(filter)
  /\ Len(FilterList) < MaxFilters
  /\ extend' = Append(FilterList, filter)
  /\ UNCHANGED filter

\* No memory for the item, when there was some for the list.
AddFilterFails ==
  /\ ~FilterIsEmpty(filter)
  /\ extend' = FilterList
  /\ UNCHANGED filter

ClearFilter ==
  /\ extend # NoExtend
  /\ extend' = <<>>
  /\ UNCHANGED filter

\* NengLogClearAppender releases the appender, and a new one is made.  The list is
\* left allocated (log_appender.c:169), out of everybody's reach.
ReleaseAppender ==
  /\ extend' = NoExtend
  /\ UNCHANGED filter

Next ==
  \/ \E v \in ModIds : SetModBit(v)
  \/ \E v \in TagIds : SetTagBit(v)
  \/ \E v \in LevelIds : SetLevelBit(v)
  \/ \E k \in DOMAIN filter : ClearBit(k)
  \/ FilterClear
  \/ AddFilter \/ AddFilterFails \/ ClearFilter \/ ReleaseAppender

Spec == Init /\ [][Next]_vars

-----------------------------------------------------------------------------
(* NengLogFilterHit and NengLogAppenderHitLogItem. *)

\* Mutant: the test for a set without members is forgotten.
MutPasses(bits, v) == v >= 0 /\ GetBit(bits, v) = 1

Passes(bits, v) == ~IsEmpty(bits) => v >= 0 /\ GetBit(bits, v) = 1

FilterHit(f, mod, tag, level) ==
  Passes(f.mods, mod) /\ Passes(f.tags, tag) /\ Passes(f.levels, level)

LevelOf(word) == word % 8

HitLogItem(mod, tag, word) ==
  \/ extend = NoExtend \/ extend = <<>>
  \/ \E k \in DOMAIN extend : FilterHit(extend[k], mod, tag, LevelOf(word))

-----------------------------------------------------------------------------
TypeOK ==
  /\ filter \in Filter
  /\ extend = NoExtend \/ extend \in Seq(Filter)
  /\ Len(FilterList) <= MaxFilters

Members(bits, n) == {v \in 0 .. 8 * n - 1 : GetBit(bits, v) = 1}
Sets(f) ==
  [mods |-> Members(f.mods, ModBytes), tags |-> Members(f.tags, TagBytes),
   levels |-> Members(f.levels, LevelBytes)]

Route == INSTANCE LogRoute WITH
  Mods <- 0 .. 8 * ModBytes - 1, Tags <- 0 .. 8 * TagBytes - 1, Levels <- 0 .. 8 * LevelBytes - 1,
  draft <- Sets(filter),
  filters <- [k \in DOMAIN FilterList |-> Sets(FilterList[k])]

(* Every call of the filter interface does to the bit arrays what LogRoute     *)
(* does to sets: numbers out of range are ignored, no bit stands for two       *)
(* numbers, an AddFilter that runs out of memory changes nothing, and filters  *)
(* that were added do not follow the caller's later changes.                   *)
ImplementsRoute == Route!Spec

(* A message is given to the appender (log_appender.c:237-258) exactly when    *)
(* the sets accept its module, tag and level, whatever facility and flags its  *)
(* level word carries and whatever numbers the caller made up for module and   *)
(* tag.                                                                        *)
DecidesAsRoute ==
  \A mod \in ModIds, tag \in TagIds, word \in Words :
    HitLogItem(mod, tag, word) <=> Route!Accepts(mod, tag, word % 8)
=============================================================================
