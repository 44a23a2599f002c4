--------------------------- MODULE LogFilterProofs ---------------------------
(***************************************************************************)
(* The filters of an appender are sets of modules, tags and levels: the    *)
(* bit arrays of LogFilter implement LogRoute and decide as it does, for   *)
(* arrays of any length and any numbers that callers pass.                 *)
(***************************************************************************)
EXTENDS LogFilter, SequenceTheorems, TLAPS

(* A number of an array of n bytes is a byte and a bit of it. *)
LEMMA BitPlace ==
  ASSUME NEW n \in Nat, NEW v \in 0 .. 8 * n - 1
  PROVE  /\ v \div 8 \in 0 .. n - 1 /\ BitIndex(v) \in 0 .. 7
         /\ v = 8 * (v \div 8) + BitIndex(v)
BY DEF BitIndex

(* ... and every bit of a byte is one number. *)
LEMMA PlaceBit ==
  ASSUME NEW n \in Nat, NEW b \in 0 .. n - 1, NEW x \in 0 .. 7
  PROVE  8 * b + x \in 0 .. 8 * n - 1 /\ (8 * b + x) \div 8 = b /\ BitIndex(8 * b + x) = x
BY DEF BitIndex

(* The numbers an array takes are those of its bits. *)
LEMMA InRangeOf ==
  ASSUME NEW n \in Nat, NEW bits \in Bits(n), NEW v \in Int
  PROVE  InRange(bits, v) <=> v \in 0 .. 8 * n - 1
BY DEF InRange, Bits

(* Membership in the set an array stands for. *)
LEMMA MembersOf ==
  ASSUME NEW n \in Nat, NEW bits \in Bits(n), NEW v
  PROVE  v \in Members(bits, n) <=> v \in 0 .. 8 * n - 1 /\ BitIndex(v) \in bits[v \div 8]
BY InRangeOf DEF Members, GetBit

(* __neng_log_bits_set adds the number to the set, or does nothing (log_misc.c). *)
LEMMA MembersSet ==
  ASSUME NEW n \in Nat, NEW bits \in Bits(n), NEW v \in Int
  PROVE  /\ SetBit(bits, v) \in Bits(n)
         /\ v \in 0 .. 8 * n - 1 => Members(SetBit(bits, v), n) = Members(bits, n) \union {v}
         /\ v \notin 0 .. 8 * n - 1 => SetBit(bits, v) = bits
<1>1. CASE v \notin 0 .. 8 * n - 1
  BY <1>1, InRangeOf DEF SetBit
<1>2. CASE v \in 0 .. 8 * n - 1
  <2>1. /\ v \div 8 \in 0 .. n - 1 /\ BitIndex(v) \in 0 .. 7
    BY <1>2, BitPlace
  <2>2. SetBit(bits, v) = [bits EXCEPT ![v \div 8] = bits[v \div 8] \union {BitIndex(v)}]
    BY <1>2, InRangeOf DEF SetBit
  <2>3. SetBit(bits, v) \in Bits(n)
    BY <2>1, <2>2 DEF Bits
  <2>4. ASSUME NEW u \in 0 .. 8 * n - 1
        PROVE  BitIndex(u) \in SetBit(bits, v)[u \div 8] <=> BitIndex(u) \in bits[u \div 8] \/ u = v
    <3>1. u \div 8 \in 0 .. n - 1 /\ u = 8 * (u \div 8) + BitIndex(u) /\ v = 8 * (v \div 8) + BitIndex(v)
      BY <1>2, BitPlace
    <3>2. u = v <=> u \div 8 = v \div 8 /\ BitIndex(u) = BitIndex(v)
      BY <3>1
    <3>3. bits \in [0 .. n - 1 -> SUBSET (0 .. 7)]
      BY DEF Bits
    <3> QED BY <2>1, <2>2, <3>1, <3>2, <3>3
  <2> QED BY <1>2, <2>3, <2>4, MembersOf
<1> QED BY <1>1, <1>2

(* __neng_log_bits_empty asks whether the set is empty. *)
LEMMA MembersEmpty ==
  ASSUME NEW n \in Nat, NEW bits \in Bits(n)
  PROVE  IsEmpty(bits) <=> Members(bits, n) = {}
<1>1. ASSUME IsEmpty(bits), NEW v \in Members(bits, n) PROVE FALSE
  <2>1. v \in 0 .. 8 * n - 1 /\ BitIndex(v) \in bits[v \div 8]
    BY <1>1, MembersOf
  <2>2. v \div 8 \in DOMAIN bits
    BY <2>1, BitPlace DEF Bits
  <2> QED BY <1>1, <2>1, <2>2 DEF IsEmpty
<1>2. ASSUME NEW b \in DOMAIN bits, bits[b] # {} PROVE Members(bits, n) # {}
  <2>1. b \in 0 .. n - 1 /\ bits[b] \subseteq 0 .. 7
    BY DEF Bits
  <2>2. PICK x \in 0 .. 7 : x \in bits[b]
    BY <1>2, <2>1
  <2>3. 8 * b + x \in Members(bits, n)
    BY <2>1, <2>2, PlaceBit, MembersOf
  <2> QED BY <2>3
<1> QED BY <1>1, <1>2 DEF IsEmpty

(* NengLogFilterHit on one array: a set without members excludes nothing, and no *)
(* number out of range is in a set (log_filter.c).                               *)
LEMMA PassesOf ==
  ASSUME NEW n \in Nat, NEW bits \in Bits(n), NEW v \in Int
  PROVE  Passes(bits, v) <=> Members(bits, n) = {} \/ v \in Members(bits, n)
<1>1. v >= 0 /\ GetBit(bits, v) = 1 <=> v \in Members(bits, n)
  BY InRangeOf DEF Members, GetBit
<1> QED BY <1>1, MembersEmpty DEF Passes

(* An array that was just cleared. *)
LEMMA ZeroBitsOf ==
  ASSUME NEW n \in Nat
  PROVE  ZeroBits(n) \in Bits(n) /\ Members(ZeroBits(n), n) = {}
<1>1. ZeroBits(n) \in Bits(n) /\ IsEmpty(ZeroBits(n))
  BY DEF ZeroBits, Bits, IsEmpty
<1> QED BY <1>1, MembersEmpty

-----------------------------------------------------------------------------
(* The filters of the appender are those that AddFilter gave it, none before. *)
LEMMA InitType == Init => TypeOK
<1> SUFFICES ASSUME Init PROVE TypeOK
  OBVIOUS
<1>1. filter \in Filter
  BY FilterAssumption, ZeroBitsOf DEF Init, NoFilter, Filter
<1>2. FilterList = <<>>
  BY DEF Init, FilterList
<1> QED BY <1>1, <1>2, EmptySeq, FilterAssumption DEF Init, TypeOK

(* The list behind extend, also when extend is NULL. *)
LEMMA FilterListType ==
  ASSUME TypeOK
  PROVE  FilterList \in Seq(Filter) /\ Len(FilterList) \in Nat /\ DOMAIN FilterList = 1 .. Len(FilterList)
<1>1. FilterList \in Seq(Filter)
  BY EmptySeq DEF TypeOK, FilterList
<1> QED BY <1>1, LenProperties

(* The list after a call that leaves a list, or NULL. *)
LEMMA FilterListNext ==
  /\ \A s \in Seq(Filter) : extend' = s => FilterList' = s
  /\ extend' = NoExtend => FilterList' = <<>>
BY NoExtendAssumption DEF FilterList

(* A bit array gets a number of its own. *)
LEMMA SetFilterType ==
  ASSUME TypeOK, NEW v \in Int
  PROVE  /\ [filter EXCEPT !.mods = SetBit(@, v)] \in Filter
         /\ [filter EXCEPT !.tags = SetBit(@, v)] \in Filter
         /\ [filter EXCEPT !.levels = SetBit(@, v)] \in Filter
<1>1. /\ filter.mods \in Bits(ModBytes) /\ ModBytes \in Nat
      /\ filter.tags \in Bits(TagBytes) /\ TagBytes \in Nat
      /\ filter.levels \in Bits(LevelBytes) /\ LevelBytes \in Nat
  BY FilterAssumption DEF TypeOK, Filter
<1> QED BY <1>1, MembersSet DEF TypeOK, Filter

(* No call leaves a filter or a list of another kind, or one filter too many. *)
THEOREM FilterTypeCorrect == Spec => []TypeOK
<1>1. TypeOK /\ [Next]_vars => TypeOK'
  <2> SUFFICES ASSUME TypeOK, [Next]_vars PROVE TypeOK'
    OBVIOUS
  <2>1. FilterList \in Seq(Filter) /\ Len(FilterList) <= MaxFilters /\ filter \in Filter /\ MaxFilters \in Nat
    BY FilterListType, FilterAssumption DEF TypeOK
  <2>2. NoFilter \in Filter
    BY FilterAssumption, ZeroBitsOf DEF NoFilter, Filter
  <2>3. CASE UNCHANGED extend /\ filter' \in Filter
    BY <2>3 DEF TypeOK, FilterList
  <2>4. CASE UNCHANGED vars
    BY <2>3, <2>4 DEF vars, TypeOK
  <2>5. ASSUME NEW v \in ModIds, SetModBit(v) PROVE TypeOK'
    BY <2>3, <2>5, SetFilterType, FilterAssumption DEF SetModBit
  <2>6. ASSUME NEW v \in TagIds, SetTagBit(v) PROVE TypeOK'
    BY <2>3, <2>6, SetFilterType, FilterAssumption DEF SetTagBit
  <2>7. ASSUME NEW v \in LevelIds, SetLevelBit(v) PROVE TypeOK'
    BY <2>3, <2>7, SetFilterType, FilterAssumption DEF SetLevelBit
  <2>8. ASSUME NEW k \in DOMAIN filter, ClearBit(k) PROVE TypeOK'
    <3>1. filter' = [filter EXCEPT ![k] = NoFilter[k]] /\ k \in {"mods", "tags", "levels"}
      BY <2>1, <2>8 DEF ClearBit, Filter
    <3>2. filter' \in Filter
      BY <2>1, <2>2, <3>1 DEF Filter
    <3> QED BY <2>3, <2>8, <3>2 DEF ClearBit
  <2>9. CASE FilterClear
    BY <2>2, <2>3, <2>9 DEF FilterClear
  <2>10. CASE AddFilter
    <3>1. /\ Append(FilterList, filter) \in Seq(Filter) /\ Len(Append(FilterList, filter)) = Len(FilterList) + 1
          /\ Len(FilterList) \in Nat
      BY <2>1, AppendProperties, LenProperties
    <3> QED BY <2>1, <2>10, <3>1, FilterListNext DEF AddFilter, TypeOK
  <2>11. CASE AddFilterFails
    <3>1. extend' = FilterList /\ filter' = filter
      BY <2>11 DEF AddFilterFails
    <3>2. FilterList' = FilterList
      BY <2>1, <3>1, FilterListNext
    <3>3. extend' \in Seq(Filter) /\ Len(FilterList') <= MaxFilters /\ filter' \in Filter
      BY <2>1, <3>1, <3>2
    <3> QED BY <3>3 DEF TypeOK
  <2>12. CASE ClearFilter \/ ReleaseAppender
    <3>1. /\ extend' = NoExtend \/ (extend' = <<>> /\ <<>> \in Seq(Filter))
          /\ filter' = filter
      BY <2>12, EmptySeq DEF ClearFilter, ReleaseAppender
    <3>2. FilterList' = <<>> /\ Len(<<>>) = 0
      BY <3>1, FilterListNext
    <3>3. Len(FilterList') <= MaxFilters /\ filter' \in Filter
      BY <2>1, <3>1, <3>2
    <3> QED BY <3>1, <3>3 DEF TypeOK
  <2> QED BY <2>4, <2>5, <2>6, <2>7, <2>8, <2>9, <2>10, <2>11, <2>12 DEF Next
<1> QED BY <1>1, InitType, PTL DEF Spec
-----------------------------------------------------------------------------
(* The sets that a filter and the list of them stand for. *)
Draft == Sets(filter)
Routes == [k \in DOMAIN FilterList |-> Sets(FilterList[k])]

SetRecords == [mods : SUBSET Int, tags : SUBSET Int, levels : SUBSET Int]

(* The array of a filter by the name of its set. *)
LEMMA FilterArrays ==
  ASSUME NEW f \in Filter
  PROVE  /\ ModBytes \in Nat /\ f.mods \in Bits(ModBytes)
         /\ TagBytes \in Nat /\ f.tags \in Bits(TagBytes)
         /\ LevelBytes \in Nat /\ f.levels \in Bits(LevelBytes)
         /\ Sets(f) \in SetRecords
         /\ DOMAIN f = {"mods", "tags", "levels"}
BY FilterAssumption DEF Filter, Sets, SetRecords, Members

(* A filter is empty when its sets are. *)
LEMMA EmptySets ==
  ASSUME NEW f \in Filter
  PROVE  FilterIsEmpty(f) <=> Sets(f) = Route!NoSets
<1>1. FilterIsEmpty(f) <=> IsEmpty(f.mods) /\ IsEmpty(f.tags) /\ IsEmpty(f.levels)
  BY FilterArrays DEF FilterIsEmpty
<1>2. FilterIsEmpty(f) <=> /\ Members(f.mods, ModBytes) = {} /\ Members(f.tags, TagBytes) = {}
                           /\ Members(f.levels, LevelBytes) = {}
  BY <1>1, FilterArrays, MembersEmpty
<1> QED BY <1>2 DEF Sets, Route!NoSets

(* The list one filter longer. *)
LEMMA RoutesAppend ==
  ASSUME TypeOK, FilterList' = Append(FilterList, filter)
  PROVE  Routes' = Append(Routes, Draft)
<1>0. PICK n \in Nat : n = Len(FilterList)
  BY FilterListType
<1>1. /\ FilterList \in Seq(Filter) /\ DOMAIN FilterList = 1 .. n /\ filter \in Filter
      /\ \A k \in 1 .. n : FilterList[k] \in Filter
  BY <1>0, FilterListType, ElementOfSeq DEF TypeOK
<1>2. /\ DOMAIN FilterList' = 1 .. n + 1 /\ FilterList'[n + 1] = filter
      /\ \A k \in 1 .. n : FilterList'[k] = FilterList[k]
  BY <1>0, <1>1, AppendProperties, LenProperties
<1>3. PICK sets : sets = [k \in 1 .. n |-> Sets(FilterList[k])]
  OBVIOUS
<1>4. sets = Routes /\ \A k \in 1 .. n : sets[k] \in SetRecords
  BY <1>1, <1>3, FilterArrays DEF Routes
<1>5. sets \in Seq(SetRecords) /\ Len(sets) = n
  <2>1. sets \in [1 .. n -> SetRecords]
    BY <1>3, <1>4
  <2>2. sets \in Seq(SetRecords)
    BY <2>1, SeqDef
  <2> QED BY <2>1, <2>2, LenProperties
<1>6. Draft \in SetRecords
  BY <1>1, FilterArrays DEF Draft
<1>7. /\ Append(sets, Draft) \in Seq(SetRecords) /\ Len(Append(sets, Draft)) = n + 1
      /\ Append(sets, Draft)[n + 1] = Draft /\ \A k \in 1 .. n : Append(sets, Draft)[k] = sets[k]
  BY <1>5, <1>6, AppendProperties
<1>8. Append(sets, Draft) = [k \in 1 .. n + 1 |-> Append(sets, Draft)[k]]
  BY <1>7, LenProperties
<1>9. \A k \in 1 .. n + 1 : Sets(FilterList'[k]) = Append(sets, Draft)[k]
  BY <1>2, <1>3, <1>7 DEF Draft
<1>10. Routes' = [k \in 1 .. n + 1 |-> Sets(FilterList'[k])]
  BY <1>2 DEF Routes
<1> QED BY <1>4, <1>8, <1>9, <1>10

(* A call on the caller's filter, or on the list of the appender, does what the     *)
(* call of the same name does to the sets.                                          *)
LEMMA FilterStep == TypeOK /\ [Next]_vars => [Route!Next]_<<Draft, Routes>>
<1> SUFFICES ASSUME TypeOK, [Next]_vars PROVE Route!Next \/ UNCHANGED <<Draft, Routes>>
  OBVIOUS
<1> USE DEF Draft
<1>1. filter \in Filter /\ FilterList \in Seq(Filter)
  BY FilterListType DEF TypeOK
<1>2. UNCHANGED extend => UNCHANGED Routes
  BY DEF Routes, FilterList
<1>3. CASE UNCHANGED vars
  BY <1>2, <1>3 DEF vars
<1>4. ASSUME NEW v \in ModIds, SetModBit(v) PROVE Route!Set \/ UNCHANGED <<Draft, Routes>>
  <2>1. v \in Int /\ filter' = [filter EXCEPT !.mods = SetBit(filter.mods, v)]
    BY <1>4, FilterAssumption DEF SetModBit
  <2>2. /\ filter'.mods = SetBit(filter.mods, v) /\ filter'.tags = filter.tags
        /\ filter'.levels = filter.levels
    BY <1>1, <2>1 DEF Filter
  <2>3. CASE v \in 0 .. 8 * ModBytes - 1
    <3>0. Members(filter'.mods, ModBytes) = Members(filter.mods, ModBytes) \union {v}
      BY <1>1, <2>1, <2>2, <2>3, FilterArrays, MembersSet
    <3>1. Sets(filter)' = [Sets(filter) EXCEPT !.mods = Sets(filter).mods \union {v}]
      BY <2>2, <3>0 DEF Sets
    <3> QED BY <1>2, <1>4, <2>3, <3>1 DEF Route!Set, SetModBit, Routes
  <2>4. CASE v \notin 0 .. 8 * ModBytes - 1
    <3>1. Sets(filter)' = Sets(filter)
      BY <1>1, <2>1, <2>2, <2>4, FilterArrays, MembersSet DEF Sets
    <3> QED BY <1>2, <1>4, <3>1 DEF SetModBit
  <2> QED BY <2>3, <2>4
<1>5. ASSUME NEW v \in TagIds, SetTagBit(v) PROVE Route!Set \/ UNCHANGED <<Draft, Routes>>
  <2>1. v \in Int /\ filter' = [filter EXCEPT !.tags = SetBit(filter.tags, v)]
    BY <1>5, FilterAssumption DEF SetTagBit
  <2>2. /\ filter'.tags = SetBit(filter.tags, v) /\ filter'.mods = filter.mods
        /\ filter'.levels = filter.levels
    BY <1>1, <2>1 DEF Filter
  <2>3. CASE v \in 0 .. 8 * TagBytes - 1
    <3>0. Members(filter'.tags, TagBytes) = Members(filter.tags, TagBytes) \union {v}
      BY <1>1, <2>1, <2>2, <2>3, FilterArrays, MembersSet
    <3>1. Sets(filter)' = [Sets(filter) EXCEPT !.tags = Sets(filter).tags \union {v}]
      BY <2>2, <3>0 DEF Sets
    <3> QED BY <1>2, <1>5, <2>3, <3>1 DEF Route!Set, SetTagBit, Routes
  <2>4. CASE v \notin 0 .. 8 * TagBytes - 1
    <3>1. Sets(filter)' = Sets(filter)
      BY <1>1, <2>1, <2>2, <2>4, FilterArrays, MembersSet DEF Sets
    <3> QED BY <1>2, <1>5, <3>1 DEF SetTagBit
  <2> QED BY <2>3, <2>4
<1>6. ASSUME NEW v \in LevelIds, SetLevelBit(v) PROVE Route!Set \/ UNCHANGED <<Draft, Routes>>
  <2>1. v \in Int /\ filter' = [filter EXCEPT !.levels = SetBit(filter.levels, v)]
    BY <1>6, FilterAssumption DEF SetLevelBit
  <2>2. /\ filter'.levels = SetBit(filter.levels, v) /\ filter'.tags = filter.tags
        /\ filter'.mods = filter.mods
    BY <1>1, <2>1 DEF Filter
  <2>3. CASE v \in 0 .. 8 * LevelBytes - 1
    <3>0. Members(filter'.levels, LevelBytes) = Members(filter.levels, LevelBytes) \union {v}
      BY <1>1, <2>1, <2>2, <2>3, FilterArrays, MembersSet
    <3>1. Sets(filter)' = [Sets(filter) EXCEPT !.levels = Sets(filter).levels \union {v}]
      BY <2>2, <3>0 DEF Sets
    <3> QED BY <1>2, <1>6, <2>3, <3>1 DEF Route!Set, SetLevelBit, Routes
  <2>4. CASE v \notin 0 .. 8 * LevelBytes - 1
    <3>1. Sets(filter)' = Sets(filter)
      BY <1>1, <2>1, <2>2, <2>4, FilterArrays, MembersSet DEF Sets
    <3> QED BY <1>2, <1>6, <3>1 DEF SetLevelBit
  <2> QED BY <2>3, <2>4
<1>7. ASSUME NEW k \in DOMAIN filter, ClearBit(k) PROVE Route!Clear
  <2>1. filter' = [filter EXCEPT ![k] = NoFilter[k]] /\ k \in {"mods", "tags", "levels"}
    BY <1>1, <1>7, FilterArrays DEF ClearBit
  <2>2. /\ Members(NoFilter.mods, ModBytes) = {} /\ Members(NoFilter.tags, TagBytes) = {}
        /\ Members(NoFilter.levels, LevelBytes) = {}
    BY FilterAssumption, ZeroBitsOf DEF NoFilter
  <2>3. Sets(filter)' = [Sets(filter) EXCEPT ![k] = {}]
    <3>1. CASE k = "mods"
      <4>1. filter'.mods = NoFilter.mods /\ filter'.tags = filter.tags /\ filter'.levels = filter.levels
        BY <1>1, <2>1, <3>1 DEF Filter
      <4> QED BY <2>2, <3>1, <4>1 DEF Sets
    <3>2. CASE k = "tags"
      <4>1. filter'.tags = NoFilter.tags /\ filter'.mods = filter.mods /\ filter'.levels = filter.levels
        BY <1>1, <2>1, <3>2 DEF Filter
      <4> QED BY <2>2, <3>2, <4>1 DEF Sets
    <3>3. CASE k = "levels"
      <4>1. filter'.levels = NoFilter.levels /\ filter'.mods = filter.mods /\ filter'.tags = filter.tags
        BY <1>1, <2>1, <3>3 DEF Filter
      <4> QED BY <2>2, <3>3, <4>1 DEF Sets
    <3> QED BY <2>1, <3>1, <3>2, <3>3
  <2>4. k \in DOMAIN Sets(filter)
    BY <2>1 DEF Sets
  <2> QED BY <1>2, <1>7, <2>3, <2>4 DEF Route!Clear, ClearBit, Routes
<1>8. CASE FilterClear
  <2>1. Sets(filter)' = Route!NoSets
    BY <1>8, FilterAssumption, ZeroBitsOf DEF FilterClear, NoFilter, Sets, Route!NoSets
  <2> QED BY <1>2, <1>8, <2>1 DEF Route!Next, Route!ClearAll, FilterClear, Routes
<1>9. CASE AddFilter
  <2>1. FilterList' = Append(FilterList, filter)
    BY <1>1, <1>9, AppendProperties, FilterListNext DEF AddFilter
  <2>2. Routes' = Append(Routes, Draft) /\ Draft' = Draft /\ Draft # Route!NoSets
    BY <1>1, <1>9, <2>1, RoutesAppend, EmptySets DEF AddFilter
  <2> QED BY <2>2 DEF Route!Next, Route!AddFilter, Routes
<1>10. CASE AddFilterFails
  <2>1. FilterList' = FilterList
    BY <1>1, <1>10, FilterListNext DEF AddFilterFails
  <2> QED BY <1>10, <2>1 DEF AddFilterFails, Routes
<1>11. CASE ClearFilter \/ ReleaseAppender
  <2>1. FilterList' = <<>> /\ UNCHANGED filter
    BY <1>11, FilterListNext, EmptySeq DEF ClearFilter, ReleaseAppender
  <2>2. Routes' = <<>>
    BY <2>1 DEF Routes
  <2> QED BY <2>1, <2>2 DEF Route!Next, Route!ClearFilter, Routes
<1> QED BY <1>3, <1>4, <1>5, <1>6, <1>7, <1>8, <1>9, <1>10, <1>11 DEF Next, Route!Next

(* Every call of the filter interface does to the bit arrays what LogRoute does *)
(* to sets, for arrays of any length and numbers of any size: a number out of   *)
(* range never reaches a neighbouring byte, no bit stands for two numbers, and  *)
(* an AddFilter without memory changes nothing.                                 *)
THEOREM FiltersAreSets == Spec => ImplementsRoute
<1>1. Init => Route!Init
  <2> SUFFICES ASSUME Init PROVE Draft = Route!NoSets /\ Routes = <<>>
    BY DEF Route!Init, Draft, Routes
  <2>1. Draft = Route!NoSets
    BY FilterAssumption, ZeroBitsOf DEF Init, NoFilter, Sets, Draft, Route!NoSets
  <2>2. Routes = <<>>
    BY DEF Init, FilterList, Routes
  <2> QED BY <2>1, <2>2
<1>2. TypeOK /\ [Next]_vars => [Route!Next]_<<Sets(filter), [k \in DOMAIN FilterList |-> Sets(FilterList[k])]>>
  BY FilterStep DEF Draft, Routes
<1> QED BY <1>1, <1>2, FilterTypeCorrect, PTL DEF Spec, ImplementsRoute, Route!Spec

-----------------------------------------------------------------------------
(* NengLogFilterHit on one filter, for any numbers (log_filter.c). *)
LEMMA FilterHitOf ==
  ASSUME NEW f \in Filter, NEW mod \in Int, NEW tag \in Int, NEW level \in Int
  PROVE  FilterHit(f, mod, tag, level) <=> Route!Matches(Sets(f), mod, tag, level)
<1>1. /\ Passes(f.mods, mod) <=> Members(f.mods, ModBytes) = {} \/ mod \in Members(f.mods, ModBytes)
      /\ Passes(f.tags, tag) <=> Members(f.tags, TagBytes) = {} \/ tag \in Members(f.tags, TagBytes)
      /\ Passes(f.levels, level) <=> Members(f.levels, LevelBytes) = {} \/ level \in Members(f.levels, LevelBytes)
  BY FilterArrays, PassesOf
<1> QED BY <1>1 DEF FilterHit, Sets, Route!Matches

(* An appender is given a message exactly when the sets of one of its filters *)
(* accept it, or it has no filters: whatever numbers the message carries.     *)
THEOREM FiltersDecide == Spec => []DecidesAsRoute
<1>1. TypeOK => DecidesAsRoute
  <2> SUFFICES ASSUME TypeOK, NEW mod \in ModIds, NEW tag \in TagIds, NEW word \in Words
               PROVE  HitLogItem(mod, tag, word) <=> Route!Accepts(mod, tag, word % 8)
    BY DEF DecidesAsRoute
  <2>0. PICK level \in Int : level = word % 8
    BY FilterAssumption
  <2>1. mod \in Int /\ tag \in Int /\ LevelOf(word) = level
    BY <2>0, FilterAssumption DEF LevelOf
  <2>2. /\ FilterList \in Seq(Filter) /\ DOMAIN FilterList = 1 .. Len(FilterList) /\ Len(FilterList) \in Nat
        /\ \A k \in DOMAIN FilterList : FilterList[k] \in Filter
    BY FilterListType, ElementOfSeq
  <2>3. \A k \in DOMAIN FilterList :
          FilterHit(FilterList[k], mod, tag, level) <=> Route!Matches(Sets(FilterList[k]), mod, tag, level)
    BY <2>1, <2>2, FilterHitOf
  <2>4. HitLogItem(mod, tag, word) <=>
          FilterList = <<>> \/ \E k \in DOMAIN FilterList : FilterHit(FilterList[k], mod, tag, level)
    BY <2>1 DEF HitLogItem, FilterList
  <2>5. /\ DOMAIN Routes = DOMAIN FilterList
        /\ \A k \in DOMAIN FilterList : Routes[k] = Sets(FilterList[k])
    BY DEF Routes
  <2>6. Routes = <<>> <=> FilterList = <<>>
    BY <2>2 DEF Routes
  <2>7. Route!Accepts(mod, tag, level) <=>
          Routes = <<>> \/ \E k \in DOMAIN Routes : Route!Matches(Routes[k], mod, tag, level)
    BY DEF Route!Accepts, Routes
  <2> QED BY <2>0, <2>3, <2>4, <2>5, <2>6, <2>7
<1> QED BY <1>1, FilterTypeCorrect, PTL
=============================================================================
