-------------------------------- MODULE LogRoute --------------------------------
(***************************************************************************)
(* What the filters of an appender promise, with a filter as the sets of   *)
(* modules, tags and levels that were put into it.  LogFilter, with the    *)
(* bit arrays of the code, implements it.                                  *)
(***************************************************************************)
EXTENDS Integers, Sequences

CONSTANTS Mods, Tags, Levels

VARIABLES
  draft,    \* the filter being filled
  filters   \* the filters of the appender, in the order they were added

NoSets == [mods |-> {}, tags |-> {}, levels |-> {}]

Init == draft = NoSets /\ filters = <<>>

Set ==
  /\ \/ \E v \in Mods : draft' = [draft EXCEPT !.mods = @ \union {v}]
     \/ \E v \in Tags : draft' = [draft EXCEPT !.tags = @ \union {v}]
     \/ \E v \in Levels : draft' = [draft EXCEPT !.levels = @ \union {v}]
  /\ UNCHANGED filters

Clear ==
  /\ \E k \in DOMAIN draft : draft' = [draft EXCEPT ![k] = {}]
  /\ UNCHANGED filters

ClearAll == draft' = NoSets /\ UNCHANGED filters

\* A filter of empty sets is none.
AddFilter ==
  /\ draft # NoSets
  /\ filters' = Append(filters, draft)
  /\ UNCHANGED draft

ClearFilter == filters' = <<>> /\ UNCHANGED draft

Next == Set \/ Clear \/ ClearAll \/ AddFilter \/ ClearFilter

Spec == Init /\ [][Next]_<<draft, filters>>

\* An empty set excludes nothing.
Matches(f, mod, tag, level) ==
  /\ f.mods = {} \/ mod \in f.mods
  /\ f.tags = {} \/ tag \in f.tags
  /\ f.levels = {} \/ level \in f.levels

Accepts(mod, tag, level) ==
  filters = <<>> \/ \E k \in DOMAIN filters : Matches(filters[k], mod, tag, level)
=============================================================================
