--------------------------- MODULE LogLoaderProofs ---------------------------
(***************************************************************************)
(* Theorems about levels and about the loading of properties files, for    *)
(* any files, any failures, and other threads that change levels meanwhile. *)
(***************************************************************************)
EXTENDS LogLoader, FiniteSetTheorems, TLAPS

-----------------------------------------------------------------------------
(* Levels.  A word is 0 or the marked level last set.                          *)
LevelInv ==
  /\ chosen \in [Mods -> Levels \union {None}]
  /\ modLevel = [m \in Mods |-> IF chosen[m] = None THEN 0 ELSE Marked(chosen[m])]

(* The mark tells a level from none, and leaves the level to be read. *)
LEMMA MarkReadBack ==
  /\ ~IsSet(0)
  /\ \A l \in Levels : Marked(l) \in Int /\ IsSet(Marked(l)) /\ Marked(l) - BitMask = l
<1>1. \A l \in 0 .. 7 : ((l + 4096) \div 4096) % 2 = 1 /\ (0 \div 4096) % 2 = 0
  OBVIOUS
<1> QED BY <1>1 DEF IsSet, Marked, BitMask, Levels, Emerg, Debug

(* Calls keep the word of a module and its history together. *)
LEMMA LevelNext == ASSUME LevelInv, Next PROVE LevelInv'
<1>1. None \notin Levels
  BY LevelAssumption
<1>2. CASE \E level \in LevelIds, mod \in ModIds : SetLevel(level, mod)
  BY <1>1, <1>2 DEF SetLevel, LevelInv
<1>3. CASE \E mod \in ModIds : ClearLevel(mod)
  BY <1>3 DEF ClearLevel, LevelInv
<1> QED BY <1>2, <1>3 DEF Next

(* The invariant has the types of the levels in it. *)
LEMMA LevelTypes == ASSUME LevelInv PROVE TypeOK
BY DEF LevelInv, TypeOK

(* The level that is asked for is the one that was set. *)
LEMMA GetLevelChosen ==
  ASSUME LevelInv, NEW mod \in Int
  PROVE  GetLevel(mod) =
           IF mod \in Mods /\ chosen[mod] # None THEN chosen[mod]
           ELSE IF mod = 0 THEN Info ELSE -1
<1>1. CASE mod \notin Mods
  BY <1>1, LevelAssumption DEF GetLevel, Mods
<1>2. CASE mod \in Mods /\ chosen[mod] = None
  BY <1>2, MarkReadBack DEF GetLevel, LevelInv
<1>3. CASE mod \in Mods /\ chosen[mod] # None
  <2>1. chosen[mod] \in Levels /\ modLevel[mod] = Marked(chosen[mod])
    BY <1>3 DEF LevelInv
  <2> QED BY <1>3, <2>1, MarkReadBack DEF GetLevel
<1> QED BY <1>1, <1>2, <1>3

(* What is compared with a message is the level that counts for its module. *)
LEMMA LevelChecks == ASSUME LevelInv PROVE ChecksThreshold
<1> SUFFICES ASSUME NEW mod \in ModIds, NEW word \in Words
             PROVE  CheckLeve(mod, word) <=> word % 8 <= Threshold(mod)
  BY DEF ChecksThreshold
<1>1. mod \in Int /\ word \in Nat /\ None \notin Levels /\ 0 \in Mods
  BY LevelAssumption DEF Mods
<1>2. PICK w \in Int : w = word % 8
  BY <1>1
<1>3. PICK global \in Levels : global = GetLevel(0) /\ global = IF chosen[0] # None THEN chosen[0] ELSE Info
  BY <1>1, GetLevelChosen DEF LevelInv, Levels, Emerg, Debug, Info
<1>4. CASE mod \in Mods /\ chosen[mod] # None
  <2>1. PICK own \in Levels : own = chosen[mod] /\ own = GetLevel(mod)
    BY <1>1, <1>4, GetLevelChosen DEF LevelInv
  <2>2. own >= 0
    BY DEF Levels, Emerg
  <2> QED BY <1>4, <2>1, <2>2 DEF CheckLeve, Threshold
<1>5. CASE mod = 0 /\ chosen[0] = None
  BY <1>1, <1>3, <1>5 DEF CheckLeve, Threshold, Levels, Emerg
<1>6. CASE mod # 0 /\ ~(mod \in Mods /\ chosen[mod] # None)
  <2>1. GetLevel(mod) = -1
    BY <1>1, <1>6, GetLevelChosen
  <2>2. CheckLeve(mod, word) <=> word % 8 <= global
    BY <1>3, <1>6, <2>1 DEF CheckLeve
  <2>3. Threshold(mod) = global
    BY <1>3, <1>6 DEF Threshold
  <2> QED BY <2>2, <2>3
<1> QED BY <1>1, <1>4, <1>5, <1>6

(* The loader sets levels only by the calls that everybody has. *)
LEMMA LoadStepsLevels ==
  ASSUME LevelInv, [LoadNext]_<<vars, loadVars>>
  PROVE  LevelInv'
<1>1. CASE UNCHANGED vars
  BY <1>1 DEF vars, LevelInv
<1>2. ASSUME NEW level, NEW mod, SetLevel(level, mod) PROVE LevelInv'
  <2>1. None \notin Levels
    BY LevelAssumption
  <2> QED BY <1>2, <2>1 DEF SetLevel, LevelInv
<1>3. CASE LoadLevel
  BY <1>1, <1>2, <1>3 DEF LoadLevel
<1>4. CASE LevelCall
  BY <1>4, LevelNext DEF LevelCall
<1> QED
  BY <1>1, <1>3, <1>4 DEF LoadNext, LoadFile, CopyList, NextAppender, ReadNumbers, ReadFacilityFilter,
       ReadFlags, ReadFilter, AddAppender, Loaded, Return, OtherCall

(* No level is set at first. *)
LEMMA LevelInit == Init => LevelInv
BY LevelAssumption DEF Init, LevelInv

(* The words and their history agree in every state of a load. *)
LEMMA LoaderLevelInv == LoadSpec => []LevelInv
BY LevelInit, LoadStepsLevels, PTL DEF LoadSpec, LoadInit

(* ChecksThreshold, for any levels, modules and files: whatever was set, loaded *)
(* or cleared, the level that counts is that of the module or else the global  *)
(* one, whatever else the number of a message carries (log_core.c:381-443).    *)
THEOREM LevelsHoldBack == LoadSpec => []ChecksThreshold
BY LoaderLevelInv, LevelChecks, PTL

-----------------------------------------------------------------------------
(* What is read: filters and numbers, apart from the steps that read them.     *)

FilterSets == [mods : SUBSET Mods, tags : SUBSET Tags, levels : SUBSET Levels]

(* A name stands for a level or for none. *)
LEMMA Name2LevelType == \A name : Name2Level(name) \in Levels \union {-1}
BY DEF Name2Level, Key, Levels, Emerg, Debug

(* Names that are none are left out of a filter. *)
LEMMA LevelsNamedType == \A names : LevelsNamed(names) \subseteq Levels
BY Name2LevelType DEF LevelsNamed

(* A number that is in the range of an int is not cut. *)
LEMMA WrapFits == \A n \in -IntMax .. IntMax : Wrap(n) = n
<1> SUFFICES ASSUME NEW n \in -IntMax .. IntMax PROVE Wrap(n) = n
  OBVIOUS
<1>1. PICK i \in Nat : i = IntMax
  BY LoaderAssumption
<1>2. n \in Int /\ -i <= n /\ n <= i
  BY <1>1
<1>3. (n + i + 1) % (2 * i + 2) = n + i + 1
  BY <1>2
<1>4. Wrap(n) = (n + i + 1) - (i + 1)
  BY <1>1, <1>3 DEF Wrap
<1> QED BY <1>2, <1>4

(* A list of numbers that strtol could hold and that fit an int is read as written. *)
LEMMA IntsAsWritten ==
  ASSUME NEW numbers \in Seq(Number), ~ErrnoAfter(FALSE, numbers), Fits(numbers)
  PROVE  Ints(FALSE, numbers) = Values(numbers)
<1>1. \A j \in DOMAIN numbers : ~ErrnoAfter(FALSE, SubSeq(numbers, 1, j))
  <2> SUFFICES ASSUME NEW j \in DOMAIN numbers PROVE ~ErrnoAfter(FALSE, SubSeq(numbers, 1, j))
    OBVIOUS
  <2>1. j \in 1 .. Len(numbers)
    OBVIOUS
  <2>2. \A k \in DOMAIN SubSeq(numbers, 1, j) :
          k \in DOMAIN numbers /\ SubSeq(numbers, 1, j)[k] = numbers[k]
    BY <2>1
  <2> QED BY <2>2 DEF ErrnoAfter
<1>2. \A k \in DOMAIN numbers : Wrap(numbers[k].val) = numbers[k].val
  BY WrapFits DEF Fits
<1> QED BY <1>1, <1>2 DEF Ints, Values

(* Whatever is written and whatever fails, sets of numbers in range are read. *)
LEMMA FilterReadType ==
  ASSUME NEW e \in BOOLEAN, NEW f, NEW failed
  PROVE  /\ FilterRead(e, f, failed).sets \in FilterSets
         /\ FilterRead(e, f, failed).errno \in BOOLEAN
<1>1. ErrnoAfter(e, Key(f, "mods", <<>>)) \in BOOLEAN /\ ErrnoAfter(e, <<>>) \in BOOLEAN
  BY DEF ErrnoAfter
<1> QED BY <1>1, LevelsNamedType DEF FilterRead, FilterSets, Tags

(* errno 0 after a filter means that it was 0 before, that no list was without memory and *)
(* that no number was too large; then the sets are what the file says.                    *)
LEMMA FilterReadIntact ==
  ASSUME NEW e \in BOOLEAN, NEW f, IsFilter(f), NEW failed, ~FilterRead(e, f, failed).errno
  PROVE  /\ ~e /\ failed \cap FilterKeys = {}
         /\ FitsSets(f) => FilterRead(e, f, failed).sets = Written(f)
<1> DEFINE mods == Key(f, "mods", <<>>)
           tags == Key(f, "tags", <<>>)
<1>1. mods \in Seq(Number) /\ tags \in Seq(Number)
  BY DEF IsFilter
<1>2. /\ "mods" \notin failed /\ "tags" \notin failed /\ "levels" \notin failed
      /\ e = FALSE
  BY DEF FilterRead, ErrnoAfter
<1>3. failed \cap FilterKeys = {}
  BY <1>2 DEF FilterKeys
<1>4. ErrnoAfter(e, mods) = FALSE
  BY <1>2 DEF FilterRead, ErrnoAfter
<1>5. ~ErrnoAfter(FALSE, mods) /\ ~ErrnoAfter(FALSE, tags)
  BY <1>2, <1>4 DEF FilterRead, ErrnoAfter
<1>6. FilterRead(e, f, failed).sets =
        [mods |-> Ints(FALSE, mods) \cap Mods, tags |-> Ints(FALSE, tags) \cap (0 .. TagSize - 1),
         levels |-> LevelsNamed(Key(f, "levels", <<>>))]
  BY <1>2, <1>4 DEF FilterRead
<1>7. ASSUME FitsSets(f) PROVE FilterRead(e, f, failed).sets = Written(f)
  <2>1. Ints(FALSE, mods) = Values(mods) /\ Ints(FALSE, tags) = Values(tags)
    BY <1>1, <1>5, <1>7, IntsAsWritten DEF FitsSets
  <2> QED BY <1>6, <2>1 DEF Written
<1> QED BY <1>2, <1>3, <1>7

(* The sizes and counts of a section are read as written. *)
Setting(c, k) == LET w == Key(c, k, [val |-> 0, unit |-> ""]) IN
  IF k = "max_size" THEN w.val * Scale(w.unit) ELSE w.val
SettingFits(c, k) ==
  /\ Key(c, k, [val |-> 0, unit |-> ""]).val \in -IntMax .. IntMax
  /\ Setting(c, k) \in -IntMax .. IntMax

(* The switch of the code multiplies by what a unit stands for. *)
LEMMA FactorIsScale == \A unit : Factor(unit) = Scale(unit) /\ Scale(unit) \in Nat
<1>1. Kilo \in Nat /\ Kilo * Kilo \in Nat /\ Kilo * Kilo * Kilo \in Nat
  BY LoaderAssumption
<1> QED BY <1>1 DEF Factor, Scale, Key

(* A number or size that fits is read as written, and 0 where there is none. *)
LEMMA DefIntAsWritten ==
  ASSUME NEW e \in BOOLEAN, NEW c, NEW k \in {"max_size", "max_days", "max_loop"},
         k \in DOMAIN c => c[k] \in Number,
         ~KeyErrno(e, c, k), SettingFits(c, k)
  PROVE  DefInt(e, c, k, k = "max_size") = Setting(c, k)
<1>1. CASE k \notin DOMAIN c
  <2>1. DefInt(e, c, k, k = "max_size") = 0
    BY <1>1 DEF DefInt
  <2>2. Setting(c, k) = 0
    BY <1>1 DEF Setting, Key, Scale
  <2> QED BY <2>1, <2>2
<1>2. CASE k \in DOMAIN c
  <2>1. PICK w \in Number : w = c[k]
    BY <1>2
  <2>2. ~ErrnoAfter(e, <<w>>)
    BY <1>2, <2>1 DEF KeyErrno, ErrnoAfter
  <2>3. DefInt(e, c, k, k = "max_size") = UnitInt(w, k = "max_size")
    BY <1>2, <2>1, <2>2 DEF DefInt
  <2>4. /\ w.val \in -IntMax .. IntMax
        /\ Setting(c, k) = IF k = "max_size" THEN w.val * Scale(w.unit) ELSE w.val
        /\ Setting(c, k) \in -IntMax .. IntMax
    BY <1>2, <2>1 DEF SettingFits, Setting, Key
  <2>5. Wrap(w.val) = w.val /\ Wrap(Setting(c, k)) = Setting(c, k)
    BY <2>4, WrapFits
  <2>6. Factor(w.unit) = Scale(w.unit)
    BY FactorIsScale
  <2>7. CASE k = "max_size"
    BY <2>3, <2>4, <2>5, <2>6, <2>7 DEF UnitInt
  <2>8. CASE k # "max_size"
    BY <2>3, <2>4, <2>5, <2>8 DEF UnitInt
  <2> QED BY <2>7, <2>8
<1> QED BY <1>1, <1>2

-----------------------------------------------------------------------------
(* The lists of filters of a section, and what of them has been read when the  *)
(* loader comes to the number m.                                               *)

Filters(c) == Key(c, "filters", NoKeys)
Faced(c) == Key(c, "facility_filters", NoKeys)
AllFaced(list) == \A n \in DOMAIN list : "facility" \in DOMAIN list[n]

FacilityOf(list, n) == Facility(Key(list[n], "facility", ""))

FiltersBelow(list, m) == {Written(list[j]) : j \in {i \in DOMAIN list : i < m}} \ {Route!NoSets}
FacedBelow(list, m) ==
  {<<FacilityOf(list, j), Written(list[j])>> : j \in
     {i \in DOMAIN list : i < m /\ FacilityOf(list, i) # 0 /\ Written(list[i]) # Route!NoSets}}

Members(s) == {s[k] : k \in DOMAIN s}
FacedMembers(s) == {<<f.facility, f.sets>> : f \in Members(s)}

(* What is in a sequence after one more. *)
LEMMA MembersAppend ==
  ASSUME NEW S, NEW s \in Seq(S), NEW x
  PROVE  Members(Append(s, x)) = Members(s) \union {x}
<1>1. s \in Seq(S \union {x})
  OBVIOUS
<1>2. /\ DOMAIN Append(s, x) = 1 .. Len(s) + 1 /\ DOMAIN s = 1 .. Len(s)
      /\ \A k \in 1 .. Len(s) : Append(s, x)[k] = s[k]
      /\ Append(s, x)[Len(s) + 1] = x
  BY <1>1
<1>3. Len(s) \in Nat
  BY <1>1
<1>4. 1 .. Len(s) + 1 = (1 .. Len(s)) \union {Len(s) + 1}
  BY <1>3
<1> QED BY <1>2, <1>4 DEF Members

(* Only an empty sequence has nothing in it. *)
LEMMA MembersEmpty ==
  ASSUME NEW S, NEW s \in Seq(S)
  PROVE  s = <<>> <=> Members(s) = {}
<1>1. DOMAIN s = 1 .. Len(s) /\ Len(s) \in Nat
  OBVIOUS
<1>2. Members(s) = {} <=> DOMAIN s = {}
  BY DEF Members
<1>3. Len(s) = 0 <=> DOMAIN s = {}
  <2>1. \A n \in Nat : n = 0 <=> 1 .. n = {}
    OBVIOUS
  <2> QED BY <1>1, <2>1
<1>4. Len(s) = 0 <=> s = <<>>
  OBVIOUS
<1> QED BY <1>2, <1>3, <1>4

(* The numbers of a list are 0 or 1 and the following. *)
LEMMA NumbersInARow ==
  ASSUME NEW list, IsFilterList(list), WellNumbered(list)
  PROVE  \E k \in Nat : DOMAIN list = 0 .. k \/ DOMAIN list = 1 .. k
<1>1. Cardinality(DOMAIN list) \in Nat
  BY FS_CardinalityType DEF IsFilterList
<1> QED BY <1>1 DEF WellNumbered

(* A number but 0 that is missing ends them. *)
LEMMA ListEnds ==
  ASSUME NEW list, IsFilterList(list), WellNumbered(list), NEW n \in Nat \ {0},
         n \notin DOMAIN list
  PROVE  \A i \in DOMAIN list : i < n
BY NumbersInARow

(* What is not in a list is a filter without keys, and reads as no sets. *)
LEMMA NoKeysRead == IsFilter(NoKeys) /\ FitsSets(NoKeys) /\ Written(NoKeys) = Route!NoSets
<1>1. \A k, default : Key(NoKeys, k, default) = default
  BY DEF Key, NoKeys
<1>2. LevelsNamed(<<>>) = {} /\ Values(<<>>) = {} /\ Fits(<<>>)
  BY DEF LevelsNamed, Values, Fits
<1>3. Written(NoKeys) = Route!NoSets
  BY <1>1, <1>2 DEF Written, Route!NoSets
<1>4. IsFilter(NoKeys)
  <2>1. <<>> \in Seq(Number)
    OBVIOUS
  <2> QED BY <1>1, <2>1 DEF IsFilter
<1>5. FitsSets(NoKeys)
  BY <1>1, <1>2 DEF FitsSets
<1> QED BY <1>3, <1>4, <1>5

(* The filter with the number n, if there is one. *)
LEMMA FilterAt ==
  ASSUME NEW list, IsFilterList(list), WellNumbered(list), NEW n
  PROVE  IsFilter(Key(list, n, NoKeys)) /\ FitsSets(Key(list, n, NoKeys))
BY NoKeysRead DEF Key, IsFilterList, WellNumbered

(* One more filter, which is empty if there is none with the number n. *)
LEMMA FiltersBelowNext ==
  ASSUME NEW list, IsFilterList(list), NEW n \in Nat
  PROVE  FiltersBelow(list, n + 1) =
           FiltersBelow(list, n) \union ({Written(Key(list, n, NoKeys))} \ {Route!NoSets})
<1>1. DOMAIN list \subseteq Nat
  BY DEF IsFilterList
<1>2. CASE n \in DOMAIN list
  <2>1. {i \in DOMAIN list : i < n + 1} = {i \in DOMAIN list : i < n} \union {n}
    BY <1>1, <1>2
  <2> QED BY <1>2, <2>1 DEF FiltersBelow, Key
<1>3. CASE n \notin DOMAIN list
  <2>1. {i \in DOMAIN list : i < n + 1} = {i \in DOMAIN list : i < n}
    BY <1>1, <1>3
  <2> QED BY <1>3, <2>1, NoKeysRead DEF FiltersBelow, Key
<1> QED BY <1>2, <1>3

(* The same for the filters that give a facility, when there is one with the number n. *)
LEMMA FacedBelowNext ==
  ASSUME NEW list, IsFilterList(list), NEW n \in DOMAIN list
  PROVE  FacedBelow(list, n + 1) =
           FacedBelow(list, n) \union
             (IF FacilityOf(list, n) # 0 /\ Written(list[n]) # Route!NoSets
                THEN {<<FacilityOf(list, n), Written(list[n])>>} ELSE {})
<1>1. DOMAIN list \subseteq Nat
  BY DEF IsFilterList
<1>2. \A i \in DOMAIN list : i < n + 1 <=> i < n \/ i = n
  BY <1>1
<1> QED BY <1>2 DEF FacedBelow

(* A number without filter, or a filter without facility, adds nothing. *)
LEMMA FacedBelowSkip ==
  ASSUME NEW list, IsFilterList(list), NEW n \in Nat,
         n \in DOMAIN list => FacilityOf(list, n) = 0
  PROVE  FacedBelow(list, n + 1) = FacedBelow(list, n)
<1>1. \A i \in DOMAIN list : FacilityOf(list, i) # 0 => (i < n + 1 <=> i < n)
  BY DEF IsFilterList
<1> QED BY <1>1 DEF FacedBelow

-----------------------------------------------------------------------------
(* The appender that is being filled.                                          *)

AppenderKeys ==
  {"name", "section", "load", "filters", "n", "flags", "intact", "sync", "daily", "max_size", "max_days",
   "max_loop", "option", "facility", "override", "facility_filters"}

Reading == {"numbers", "facility", "flags", "filters", "add"}

DraftOf(d, f) ==
  /\ DOMAIN d = AppenderKeys
  /\ d.name \in DOMAIN f.sections
  /\ d.section = f.sections[d.name] /\ Loadable(d.section)
  /\ d.n \in Nat
  /\ d.filters \in Seq(FilterSets)
  /\ d.facility_filters \in Seq([facility : Int, sets : FilterSets])
  /\ d.sync \in BOOLEAN
  /\ d.section.type = "syslog" => d.sync

FiltersRead(a) == WellNumbered(Filters(a.section)) => Members(a.filters) = WrittenFilters(a.section)

IsFaced(a) ==
  a.section.type = "syslog" /\ WellNumbered(Faced(a.section)) /\ AllFaced(Faced(a.section))

AllFacedOf(list) ==
  {<<FacilityOf(list, n), Written(list[n])>> :
     n \in {m \in DOMAIN list : FacilityOf(list, m) # 0 /\ Written(list[m]) # Route!NoSets}}
FacedRead(a) == IsFaced(a) => FacedMembers(a.facility_filters) = AllFacedOf(Faced(a.section))

SettingsRead(a) ==
  a.section.type = "file" =>
    \A k \in {"max_size", "max_days", "max_loop"} : SettingFits(a.section, k) => a[k] = Setting(a.section, k)

(* What is read at each place, provided errno has been 0. *)
DraftRead(d, place) ==
  /\ place \in {"numbers", "flags", "facility"} => d.filters = <<>>
  /\ place \in {"numbers", "flags"} => d.n = 0
  /\ place = "filters" /\ WellNumbered(Filters(d.section)) =>
       Members(d.filters) = FiltersBelow(Filters(d.section), d.n)
  /\ place = "add" => FiltersRead(d)
  /\ place = "numbers" => d.section.type = "file"
  /\ place = "facility" /\ IsFaced(d) =>
       FacedMembers(d.facility_filters) = FacedBelow(Faced(d.section), d.n)
  /\ place \in {"flags", "filters", "add"} => FacedRead(d)
  /\ place = "facility" => d.section.type = "syslog"
  /\ place \in {"flags", "filters", "add"} => SettingsRead(d)

Complete(a) ==
  /\ a.filters \in Seq(FilterSets)
  /\ a.section.type = "syslog" => a.sync
  /\ a.intact => FiltersRead(a) /\ FacedRead(a) /\ SettingsRead(a)

PlaceInv ==
  /\ errno \in BOOLEAN
  /\ at \in Reading \union {"idle", "levels", "list", "appenders", "done"}
  /\ failures \in 0 .. MaxFailures
  /\ file \in IF at = "idle" THEN {None} ELSE Files
  /\ at \notin Reading => draft = None

DraftInv ==
  at \in Reading =>
    /\ DraftOf(draft, file)
    /\ ~errno => DraftRead(draft, at)

RegisteredInv ==
  /\ appenders \in Seq(Registered)
  /\ \A a \in Registered : Complete(a)

LoaderInv == LevelInv /\ PlaceInv /\ DraftInv /\ RegisteredInv

(* Past the end of the list every filter has been read. *)
LEMMA AllBelow ==
  ASSUME NEW c, NEW n, IsFilterList(Filters(c)), \A i \in DOMAIN Filters(c) : i < n
  PROVE  FiltersBelow(Filters(c), n) = WrittenFilters(c)
BY DEF FiltersBelow, WrittenFilters, Filters

(* So has every filter that gives a facility. *)
LEMMA AllFacedBelow ==
  ASSUME NEW list, NEW n, \A i \in DOMAIN list : i < n
  PROVE  FacedBelow(list, n) = AllFacedOf(list)
BY DEF FacedBelow, AllFacedOf

(* At the start of a list nothing has been read. *)
LEMMA NoneBelow ==
  ASSUME NEW list, IsFilterList(list)
  PROVE  FiltersBelow(list, 0) = {} /\ FacedBelow(list, 0) = {}
<1>1. \A i \in DOMAIN list : ~(i < 0)
  BY DEF IsFilterList
<1> QED BY <1>1 DEF FiltersBelow, FacedBelow

(* The section of a draft is one of a well formed file. *)
LEMMA FileLists ==
  ASSUME NEW f \in Files, NEW d, DraftOf(d, f)
  PROVE  /\ IsSection(d.section)
         /\ IsFilterList(Filters(d.section)) /\ IsFilterList(Faced(d.section))
BY LoaderAssumption DEF IsFile, DraftOf, IsSection, Filters, Faced

(* A facility is a number. *)
LEMMA FacilityType == \A name : Facility(name) \in Int
BY DEF Facility, Key

-----------------------------------------------------------------------------
(* A section that can be loaded is in the file and has a type. *)
LEMMA LoadableSection ==
  ASSUME NEW f, NEW name, Loadable(Section(f, name))
  PROVE  /\ name \in DOMAIN f.sections /\ Section(f, name) = f.sections[name]
         /\ Section(f, name).type \in {"file", "syslog"}
<1>1. Key(NoKeys, "type", "") = ""
  BY DEF Key, NoKeys
<1>2. Section(f, name) # NoKeys
  BY <1>1 DEF Loadable
<1>3. name \in DOMAIN f.sections
  BY <1>2 DEF Section, Key
<1>4. Section(f, name).type \in {"file", "syslog"}
  BY DEF Loadable, Key
<1> QED BY <1>3, <1>4 DEF Section, Key

(* What is created for a section is a draft of it, of which nothing has been read. *)
LEMMA NewAppenderOf ==
  ASSUME NEW f \in Files, NEW name, Loadable(Section(f, name)), NEW o
  PROVE  /\ DraftOf(NewAppender(name, Section(f, name), o), f)
         /\ DraftRead(NewAppender(name, Section(f, name), o),
                      IF Section(f, name).type = "file" THEN "numbers" ELSE "facility")
<1> DEFINE c == Section(f, name)
<1>1. PICK d : d = NewAppender(name, c, o)
  OBVIOUS
<1>2. /\ DOMAIN d = AppenderKeys
      /\ d.name = name /\ d.section = c /\ d.n = 0 /\ d.filters = <<>> /\ d.facility_filters = <<>>
      /\ d.sync = (c.type = "syslog")
  BY <1>1 DEF NewAppender, AppenderKeys
<1>3. name \in DOMAIN f.sections /\ c = f.sections[name] /\ c.type \in {"file", "syslog"}
  BY LoadableSection
<1>4. DraftOf(d, f)
  <2>1. d.filters \in Seq(FilterSets) /\ d.facility_filters \in Seq([facility : Int, sets : FilterSets])
    BY <1>2
  <2>2. d.sync \in BOOLEAN /\ (d.section.type = "syslog" => d.sync)
    BY <1>2
  <2>3. d.name \in DOMAIN f.sections /\ d.section = f.sections[d.name] /\ Loadable(d.section) /\ d.n \in Nat
    BY <1>2, <1>3
  <2> QED BY <1>2, <2>1, <2>2, <2>3 DEF DraftOf
<1>5. IsFilterList(Faced(c))
  BY <1>2, <1>4, FileLists
<1>6. FacedMembers(<<>>) = {} /\ FacedBelow(Faced(c), 0) = {}
  BY <1>5, NoneBelow DEF FacedMembers, Members
<1>7. DraftRead(d, IF c.type = "file" THEN "numbers" ELSE "facility")
  BY <1>2, <1>3, <1>6 DEF DraftRead
<1> QED BY <1>1, <1>4, <1>7

(* The invariant holds before the first load. *)
LEMMA LoadInitInv == LoadInit => LoaderInv
<1> SUFFICES ASSUME LoadInit PROVE LoaderInv
  OBVIOUS
<1>1. appenders = <<>> /\ Registered = {}
  BY DEF LoadInit, Registered
<1>2. appenders \in Seq(Registered)
  BY <1>1
<1> QED BY <1>1, <1>2, LevelInit, LoaderAssumption
      DEF LoadInit, LoaderInv, PlaceInv, Reading, DraftInv, RegisteredInv

(* One more failure within the bound. *)
LEMMA OneMoreFailure ==
  \A n \in 0 .. MaxFailures : n < MaxFailures => n + 1 \in 0 .. MaxFailures
BY LoaderAssumption

(* Steps that neither fill nor register an appender. *)
LEMMA RegisteredSame == ASSUME RegisteredInv, UNCHANGED appenders PROVE RegisteredInv'
BY DEF RegisteredInv, Registered

(* Such a step keeps the invariant. *)
LEMMA QuietInv ==
  ASSUME PlaceInv, RegisteredInv,
         \/ \E f \in Files : LoadFile(f)
         \/ LoadLevel \/ CopyList \/ Loaded \/ Return \/ OtherCall
  PROVE  PlaceInv' /\ DraftInv' /\ RegisteredInv'
<1>1. UNCHANGED appenders /\ UNCHANGED draft
  BY DEF LoadFile, LoadLevel, CopyList, Loaded, Return, OtherCall
<1>2. at \notin Reading /\ at' \notin Reading
  BY DEF LoadFile, LoadLevel, CopyList, Loaded, Return, OtherCall, Reading
<1>3. PlaceInv'
  <2>1. CASE \E f \in Files : LoadFile(f)
    BY <1>1, <2>1, LoaderAssumption DEF LoadFile, PlaceInv, Reading
  <2>2. CASE LoadLevel
    BY <1>1, <2>2 DEF LoadLevel, PlaceInv, Reading
  <2>3. CASE CopyList
    BY <1>1, <2>3, OneMoreFailure DEF CopyList, PlaceInv, Reading
  <2>4. CASE Loaded
    BY <1>1, <2>4 DEF Loaded, PlaceInv, Reading
  <2>5. CASE Return
    BY <1>1, <2>5 DEF Return, PlaceInv, Reading
  <2>6. CASE OtherCall
    BY <1>1, <2>6 DEF OtherCall, PlaceInv, Reading
  <2> QED BY <2>1, <2>2, <2>3, <2>4, <2>5, <2>6
<1> QED BY <1>1, <1>2, <1>3, RegisteredSame DEF DraftInv

(* Coming to an appender that can be loaded starts a draft, every other is passed over. *)
LEMMA NextAppenderInv ==
  ASSUME PlaceInv, RegisteredInv, NextAppender
  PROVE  PlaceInv' /\ DraftInv' /\ RegisteredInv'
<1> DEFINE name == file.appenders[idx]
           c == Section(file, name)
<1>1. /\ at = "appenders" /\ file \in Files /\ file' = file /\ appenders' = appenders /\ errno \in BOOLEAN
      /\ draft = None /\ failures \in 0 .. MaxFailures /\ MaxFailures \in Nat
  BY LoaderAssumption DEF NextAppender, PlaceInv, Reading
<1>2. RegisteredInv'
  BY <1>1, RegisteredSame
<1>3. CASE Skip /\ \/ UNCHANGED <<errno, failures>>
                   \/ failures < MaxFailures /\ errno' = TRUE /\ failures' = failures + 1
  <2>1. failures' \in 0 .. MaxFailures /\ errno' \in BOOLEAN
    BY <1>1, <1>3, OneMoreFailure
  <2>2. at' = at /\ draft' = draft
    BY <1>3 DEF Skip
  <2> QED BY <1>1, <1>2, <2>1, <2>2 DEF PlaceInv, DraftInv, Reading
<1>4. ASSUME Loadable(c), NEW o, draft' = NewAppender(name, c, o),
             at' = IF c.type = "file" THEN "numbers" ELSE "facility",
             errno' \in BOOLEAN, failures' \in 0 .. MaxFailures
      PROVE  PlaceInv' /\ DraftInv' /\ RegisteredInv'
  <2>1. DraftOf(draft', file') /\ DraftRead(draft', at')
    BY <1>1, <1>4, NewAppenderOf
  <2>2. PlaceInv'
    BY <1>1, <1>4 DEF PlaceInv, Reading
  <2> QED BY <1>2, <2>1, <2>2 DEF DraftInv
<1>5. CASE /\ Loadable(c) /\ c.type = "file"
           /\ draft' = NewAppender(name, c, {})
           /\ at' = "numbers"
           /\ errno' \in {errno, TRUE}
           /\ UNCHANGED <<idx, failures>>
  BY <1>1, <1>4, <1>5
<1>6. CASE /\ Loadable(c) /\ c.type = "syslog"
           /\ \E failed \in Failing({"option"} \cap DOMAIN c) :
                /\ draft' = NewAppender(name, c, IF failed = {} THEN Options(Key(c, "option", <<>>)) ELSE {})
                /\ errno' = (errno \/ failed # {})
                /\ failures' = failures + Cardinality(failed)
           /\ at' = "facility"
           /\ UNCHANGED idx
  <2>1. PICK failed \in Failing({"option"} \cap DOMAIN c) :
           /\ draft' = NewAppender(name, c, IF failed = {} THEN Options(Key(c, "option", <<>>)) ELSE {})
           /\ errno' = (errno \/ failed # {})
           /\ failures' = failures + Cardinality(failed)
    BY <1>6
  <2>2. Cardinality(failed) \in Nat /\ Cardinality(failed) + failures <= MaxFailures
    <3>1. failed \in SUBSET {"option"} /\ Cardinality(failed) + failures <= MaxFailures
      BY DEF Failing
    <3> QED BY <3>1, FS_Singleton, FS_Subset, FS_CardinalityType
  <2>3. failures' \in 0 .. MaxFailures
    BY <1>1, <2>1, <2>2
  <2> QED BY <1>1, <1>4, <1>6, <2>1, <2>3
<1> QED BY <1>3, <1>5, <1>6 DEF NextAppender

(* errno, once set, stays set while a number is read. *)
LEMMA KeyErrnoType ==
  ASSUME NEW e \in BOOLEAN, NEW c, NEW k
  PROVE  KeyErrno(e, c, k) \in BOOLEAN /\ (~KeyErrno(e, c, k) => ~e)
BY DEF KeyErrno

(* A draft keeps its form when neither its section nor its filters are touched. *)
LEMMA SameForm ==
  ASSUME NEW f, NEW d, DraftOf(d, f), NEW d2,
         DOMAIN d2 = AppenderKeys, d2.name = d.name, d2.section = d.section, d2.n = d.n,
         d2.filters = d.filters, d2.facility_filters = d.facility_filters,
         d2.sync \in BOOLEAN, d.sync => d2.sync
  PROVE  DraftOf(d2, f)
BY DEF DraftOf

(* After the numbers the settings are as written. *)
LEMMA ReadNumbersInv ==
  ASSUME PlaceInv, DraftInv, RegisteredInv, ReadNumbers
  PROVE  PlaceInv' /\ DraftInv' /\ RegisteredInv'
<1> DEFINE c == draft.section
<1>1. /\ at = "numbers" /\ at' = "flags" /\ errno \in BOOLEAN /\ file \in Files /\ file' = file
      /\ DraftOf(draft, file) /\ (~errno => DraftRead(draft, at))
      /\ UNCHANGED <<appenders, failures>>
  BY DEF ReadNumbers, PlaceInv, DraftInv, Reading
<1>2. PICK e1 \in BOOLEAN : e1 = KeyErrno(errno, c, "max_size") /\ (~e1 => ~errno)
  BY <1>1, KeyErrnoType
<1>3. PICK e2 \in BOOLEAN : e2 = KeyErrno(e1, c, "max_days") /\ (~e2 => ~e1)
  BY KeyErrnoType
<1>4. PICK e3 \in BOOLEAN : e3 = KeyErrno(e2, c, "max_loop") /\ (~e3 => ~e2)
  BY KeyErrnoType
<1>5. PICK size, days, loop : /\ size = DefInt(errno, c, "max_size", TRUE)
                              /\ days = DefInt(e1, c, "max_days", FALSE)
                              /\ loop = DefInt(e2, c, "max_loop", FALSE)
  OBVIOUS
<1>6. /\ errno' = e3
      /\ draft' = [draft EXCEPT !.max_size = size, !.max_days = days, !.max_loop = loop,
                                !.daily = True(Key(c, "daily", ""))]
  BY <1>2, <1>3, <1>4, <1>5 DEF ReadNumbers
<1>7. DOMAIN draft = AppenderKeys /\ draft.sync \in BOOLEAN
  BY <1>1 DEF DraftOf
<1>8. /\ DOMAIN draft' = AppenderKeys
      /\ draft'.name = draft.name /\ draft'.section = draft.section /\ draft'.n = draft.n
      /\ draft'.filters = draft.filters /\ draft'.facility_filters = draft.facility_filters
      /\ draft'.sync = draft.sync
      /\ draft'["max_size"] = size /\ draft'["max_days"] = days /\ draft'["max_loop"] = loop
  BY <1>6, <1>7 DEF AppenderKeys
<1>9. DraftOf(draft', file)
  BY <1>1, <1>7, <1>8, SameForm
<1>10. ASSUME ~errno' PROVE DraftRead(draft', "flags")
  <2>1. ~e3 /\ ~e2 /\ ~e1 /\ ~errno
    BY <1>2, <1>3, <1>4, <1>6, <1>10
  <2>2. draft.section.type = "file" /\ draft.filters = <<>> /\ draft.n = 0
    BY <1>1, <2>1 DEF DraftRead
  <2>3. \A k \in {"max_size", "max_days", "max_loop"} : k \in DOMAIN c => c[k] \in Number
    BY <1>1, FileLists DEF IsSection
  <2>4. SettingFits(c, "max_size") => size = Setting(c, "max_size")
    BY <1>1, <1>2, <1>5, <2>1, <2>3, DefIntAsWritten
  <2>5. SettingFits(c, "max_days") => days = Setting(c, "max_days")
    <3>1. SettingFits(c, "max_days") => DefInt(e1, c, "max_days", "max_days" = "max_size") = Setting(c, "max_days")
      BY <1>3, <2>1, <2>3, DefIntAsWritten
    <3>2. ("max_days" = "max_size") = FALSE
      OBVIOUS
    <3> QED BY <1>5, <3>1, <3>2
  <2>6. SettingFits(c, "max_loop") => loop = Setting(c, "max_loop")
    <3>1. SettingFits(c, "max_loop") => DefInt(e2, c, "max_loop", "max_loop" = "max_size") = Setting(c, "max_loop")
      BY <1>4, <2>1, <2>3, DefIntAsWritten
    <3>2. ("max_loop" = "max_size") = FALSE
      OBVIOUS
    <3> QED BY <1>5, <3>1, <3>2
  <2>7. SettingsRead(draft')
    BY <1>8, <2>4, <2>5, <2>6 DEF SettingsRead
  <2> QED BY <1>8, <2>2, <2>7 DEF DraftRead, FacedRead, IsFaced
<1>11. PlaceInv'
  BY <1>1, <1>6 DEF PlaceInv, Reading
<1> QED BY <1>1, <1>9, <1>10, <1>11, RegisteredSame DEF DraftInv

(* The flags change nothing that was read, and the list of filters begins at 0. *)
LEMMA ReadFlagsInv ==
  ASSUME PlaceInv, DraftInv, RegisteredInv, ReadFlags
  PROVE  PlaceInv' /\ DraftInv' /\ RegisteredInv'
<1> DEFINE c == draft.section
<1>1. /\ at = "flags" /\ at' = "filters" /\ errno \in BOOLEAN /\ file \in Files /\ file' = file
      /\ DraftOf(draft, file) /\ (~errno => DraftRead(draft, at))
      /\ UNCHANGED <<appenders, failures>>
  BY DEF ReadFlags, PlaceInv, DraftInv, Reading
<1>2. PICK sync \in BOOLEAN : sync = SyncFlag(c) /\ (draft.sync => sync)
  BY DEF SyncFlag
<1>3. PICK flags : draft' = [draft EXCEPT !.flags = flags, !.sync = sync]
  BY <1>2 DEF ReadFlags
<1>4. errno' \in BOOLEAN /\ (~errno' => ~errno)
  BY <1>1, KeyErrnoType DEF ReadFlags
<1>5. DOMAIN draft = AppenderKeys
  BY <1>1 DEF DraftOf
<1>6. /\ DOMAIN draft' = AppenderKeys
      /\ draft'.name = draft.name /\ draft'.section = draft.section /\ draft'.n = draft.n
      /\ draft'.filters = draft.filters /\ draft'.facility_filters = draft.facility_filters
      /\ draft'.sync = sync
      /\ \A k \in {"max_size", "max_days", "max_loop"} : draft'[k] = draft[k]
  BY <1>3, <1>5 DEF AppenderKeys
<1>7. DraftOf(draft', file)
  BY <1>1, <1>2, <1>6, SameForm
<1>8. ASSUME ~errno' PROVE DraftRead(draft', "filters")
  <2>1. DraftRead(draft, "flags")
    BY <1>1, <1>4, <1>8
  <2>2. Members(<<>>) = {} /\ FiltersBelow(Filters(c), 0) = {}
    BY <1>1, FileLists, NoneBelow DEF Members
  <2>3. draft.filters = <<>> /\ draft.n = 0 /\ FacedRead(draft) /\ SettingsRead(draft)
    BY <2>1 DEF DraftRead
  <2>4. FacedRead(draft') /\ SettingsRead(draft')
    BY <1>6, <2>3 DEF FacedRead, IsFaced, SettingsRead
  <2> QED BY <1>6, <2>2, <2>3, <2>4 DEF DraftRead
<1>9. PlaceInv'
  BY <1>1, <1>4 DEF PlaceInv, Reading
<1> QED BY <1>1, <1>7, <1>8, <1>9, RegisteredSame DEF DraftInv

(* The allocations that fail are within the bound. *)
LEMMA FailuresCounted ==
  ASSUME failures \in 0 .. MaxFailures, NEW f, NEW failed \in Failing((DOMAIN f \cap FilterKeys) \union {"item"})
  PROVE  failures + Cardinality(failed) \in 0 .. MaxFailures
<1>1. failed \subseteq {"mods", "tags", "levels"} \union {"item"}
  BY DEF Failing, FilterKeys
<1>2. IsFiniteSet({"mods", "tags", "levels"} \union {"item"})
  <2>1. IsFiniteSet({"mods"} \union {"tags"})
    BY FS_Singleton, FS_AddElement
  <2>2. IsFiniteSet(({"mods"} \union {"tags"}) \union {"levels"})
    BY <2>1, FS_AddElement
  <2>3. IsFiniteSet((({"mods"} \union {"tags"}) \union {"levels"}) \union {"item"})
    BY <2>2, FS_AddElement
  <2>4. {"mods", "tags", "levels"} \union {"item"} = (({"mods"} \union {"tags"}) \union {"levels"}) \union {"item"}
    OBVIOUS
  <2> QED BY <2>3, <2>4
<1>3. Cardinality(failed) \in Nat
  BY <1>1, <1>2, FS_Subset, FS_CardinalityType
<1>4. Cardinality(failed) + failures <= MaxFailures
  BY DEF Failing
<1> QED BY <1>3, <1>4, LoaderAssumption

(* With each number one more filter has been read, and at the end all. *)
LEMMA ReadFilterInv ==
  ASSUME PlaceInv, DraftInv, RegisteredInv, ReadFilter
  PROVE  PlaceInv' /\ DraftInv' /\ RegisteredInv'
<1> DEFINE list == Filters(draft.section)
           n == draft.n
           f == Key(list, n, NoKeys)
<1>1. /\ at = "filters" /\ errno \in BOOLEAN /\ file \in Files /\ file' = file
      /\ DraftOf(draft, file) /\ (~errno => DraftRead(draft, at))
      /\ failures \in 0 .. MaxFailures /\ appenders' = appenders
  BY DEF ReadFilter, PlaceInv, DraftInv, Reading
<1>2. /\ DOMAIN draft = AppenderKeys /\ n \in Nat /\ draft.filters \in Seq(FilterSets)
      /\ IsFilterList(list) /\ RegisteredInv'
  BY <1>1, FileLists, RegisteredSame DEF DraftOf
<1>3. CASE AtEnd(HasSets(f), n)
  <2>1. at' = "add" /\ draft' = draft /\ errno' = errno /\ failures' = failures
    BY <1>3 DEF ReadFilter, Filters
  <2>2. ASSUME ~errno PROVE DraftRead(draft, "add")
    <3>1. DraftRead(draft, "filters")
      BY <1>1, <2>2
    <3>2. ASSUME WellNumbered(list) PROVE Members(draft.filters) = WrittenFilters(draft.section)
      <4>1. n > 0 /\ n \notin DOMAIN list
        BY <1>3, <3>2 DEF AtEnd, WellNumbered, Key
      <4>2. \A i \in DOMAIN list : i < n
        BY <1>2, <3>2, <4>1, ListEnds
      <4> QED BY <1>2, <3>1, <3>2, <4>2, AllBelow DEF DraftRead
    <3>3. FiltersRead(draft)
      BY <3>2 DEF FiltersRead
    <3> QED BY <3>1, <3>3 DEF DraftRead
  <2>3. PlaceInv'
    BY <1>1, <2>1 DEF PlaceInv, Reading
  <2> QED BY <1>1, <1>2, <2>1, <2>2, <2>3 DEF DraftInv
<1>4. CASE ~AtEnd(HasSets(f), n)
  <2> DEFINE next == [draft EXCEPT !.n = n + 1]
  <2> DEFINE Reads(failed, r) ==
           /\ draft' = IF r.sets # Route!NoSets /\ "item" \notin failed
                         THEN [next EXCEPT !.filters = Append(@, r.sets)] ELSE next
           /\ errno' = (r.errno \/ "item" \in failed)
           /\ failures' = failures + Cardinality(failed)
           /\ at' = at
  <2>0. PICK failed \in Failing((DOMAIN f \cap FilterKeys) \union {"item"}) :
           Reads(failed, FilterRead(errno, f, failed))
    BY <1>4 DEF ReadFilter, Filters
  <2>1. PICK r : r = FilterRead(errno, f, failed) /\ Reads(failed, r)
    BY <2>0
  <2>2. r.sets \in FilterSets /\ r.errno \in BOOLEAN
    BY <1>1, <2>1, FilterReadType
  <2>3. /\ DOMAIN draft' = AppenderKeys
        /\ draft'.name = draft.name /\ draft'.section = draft.section /\ draft'.n = n + 1
        /\ draft'.facility_filters = draft.facility_filters /\ draft'.sync = draft.sync
        /\ \A k \in {"max_size", "max_days", "max_loop"} : draft'[k] = draft[k]
        /\ draft'.filters = IF r.sets # Route!NoSets /\ "item" \notin failed
                              THEN Append(draft.filters, r.sets) ELSE draft.filters
    BY <1>2, <2>1 DEF AppenderKeys
  <2>4. draft'.filters \in Seq(FilterSets)
    BY <1>2, <2>2, <2>3
  <2>5. DraftOf(draft', file)
    BY <1>1, <1>2, <2>3, <2>4 DEF DraftOf
  <2>6. PlaceInv'
    BY <1>1, <2>1, <2>2, FailuresCounted DEF PlaceInv, Reading
  <2>7. ASSUME ~errno' PROVE DraftRead(draft', "filters")
    <3>1. ~r.errno /\ "item" \notin failed
      BY <2>1, <2>7
    <3>2. ASSUME WellNumbered(list) PROVE Members(draft'.filters) = FiltersBelow(list, n + 1)
      <4>1. IsFilter(f) /\ FitsSets(f)
        BY <1>2, <3>2, FilterAt
      <4>2. ~errno /\ r.sets = Written(f)
        BY <1>1, <2>1, <3>1, <4>1, FilterReadIntact
      <4>3. Members(draft.filters) = FiltersBelow(list, n)
        BY <1>1, <3>2, <4>2 DEF DraftRead
      <4>4. Members(Append(draft.filters, r.sets)) = Members(draft.filters) \union {r.sets}
        BY <1>2, MembersAppend
      <4>5. FiltersBelow(list, n + 1) = FiltersBelow(list, n) \union ({r.sets} \ {Route!NoSets})
        BY <1>2, <4>2, FiltersBelowNext
      <4> QED BY <2>3, <3>1, <4>3, <4>4, <4>5
    <3>3. ~errno
      BY <1>1, <2>1, <3>1 DEF FilterRead, ErrnoAfter
    <3>4. DraftRead(draft, "filters")
      BY <1>1, <3>3
    <3>5. FacedRead(draft') /\ SettingsRead(draft')
      BY <2>3, <3>4 DEF DraftRead, FacedRead, IsFaced, SettingsRead
    <3> QED BY <2>3, <3>2, <3>5 DEF DraftRead
  <2> QED BY <1>1, <1>2, <2>1, <2>5, <2>6, <2>7 DEF DraftInv
<1> QED BY <1>3, <1>4

(* The facility and the sets of one more filter. *)
LEMMA FacedMembersAppend ==
  ASSUME NEW s \in Seq([facility : Int, sets : FilterSets]), NEW x
  PROVE  FacedMembers(Append(s, x)) = FacedMembers(s) \union {<<x.facility, x.sets>>}
BY MembersAppend DEF FacedMembers

(* The same for the filters that give a facility; they end where the first has none. *)
LEMMA ReadFacilityFilterInv ==
  ASSUME PlaceInv, DraftInv, RegisteredInv, ReadFacilityFilter
  PROVE  PlaceInv' /\ DraftInv' /\ RegisteredInv'
<1> DEFINE list == Faced(draft.section)
           n == draft.n
           f == Key(list, n, NoKeys)
           facility == Facility(Key(f, "facility", ""))
<1>1. /\ at = "facility" /\ errno \in BOOLEAN /\ file \in Files /\ file' = file
      /\ DraftOf(draft, file) /\ (~errno => DraftRead(draft, at))
      /\ failures \in 0 .. MaxFailures /\ appenders' = appenders
  BY DEF ReadFacilityFilter, PlaceInv, DraftInv, Reading
<1>2. /\ DOMAIN draft = AppenderKeys /\ n \in Nat
      /\ draft.facility_filters \in Seq([facility : Int, sets : FilterSets])
      /\ IsFilterList(list) /\ RegisteredInv'
  BY <1>1, FileLists, RegisteredSame DEF DraftOf
<1>3. ~HasSets(NoKeys) /\ Key(NoKeys, "facility", "") = "" /\ Facility("") = 0
  BY DEF HasSets, NoKeys, Key, Facility
<1>4. ASSUME n \in DOMAIN list PROVE f = list[n] /\ facility = FacilityOf(list, n)
  BY <1>4 DEF Key, FacilityOf
<1>5. ASSUME n \notin DOMAIN list PROVE f = NoKeys
  BY <1>5 DEF Key
<1>6. CASE AtEnd("facility" \in DOMAIN f, n)
  <2>1. /\ at' = "flags" /\ errno' = errno /\ failures' = failures
        /\ draft' = [draft EXCEPT !.n = 0]
    BY <1>6 DEF ReadFacilityFilter, Faced
  <2>2. /\ DOMAIN draft' = AppenderKeys /\ draft'.n = 0
        /\ \A k \in AppenderKeys \ {"n"} : draft'[k] = draft[k]
    BY <1>2, <2>1 DEF AppenderKeys
  <2>3. DraftOf(draft', file)
    BY <1>1, <2>2 DEF DraftOf, AppenderKeys
  <2>4. ASSUME ~errno PROVE DraftRead(draft', "flags")
    <3>1. DraftRead(draft, "facility")
      BY <1>1, <2>4
    <3>2. draft.filters = <<>> /\ draft.section.type = "syslog"
      BY <3>1 DEF DraftRead
    <3>3. ASSUME IsFaced(draft) PROVE FacedMembers(draft.facility_filters) = AllFacedOf(list)
      <4>1. n > 0 /\ n \notin DOMAIN list
        BY <1>4, <1>6, <3>3 DEF AtEnd, IsFaced, AllFaced
      <4>2. \A i \in DOMAIN list : i < n
        BY <1>2, <3>3, <4>1, ListEnds DEF IsFaced
      <4>3. FacedMembers(draft.facility_filters) = FacedBelow(list, n)
        BY <3>1, <3>3 DEF DraftRead
      <4> QED BY <4>2, <4>3, AllFacedBelow
    <3>4. FacedRead(draft') /\ SettingsRead(draft')
      BY <2>2, <3>2, <3>3 DEF FacedRead, IsFaced, SettingsRead, AppenderKeys
    <3> QED BY <2>2, <3>2, <3>4 DEF DraftRead, AppenderKeys
  <2>5. PlaceInv'
    BY <1>1, <2>1 DEF PlaceInv, Reading
  <2> QED BY <1>1, <1>2, <2>1, <2>3, <2>4, <2>5 DEF DraftInv
<1> DEFINE next == [draft EXCEPT !.n = n + 1]
<1>7. CASE ~AtEnd("facility" \in DOMAIN f, n) /\ (facility = 0 \/ ~HasSets(f))
  <2>1. at' = at /\ errno' = errno /\ failures' = failures /\ draft' = next
    BY <1>7 DEF ReadFacilityFilter, Faced
  <2>2. /\ DOMAIN draft' = AppenderKeys /\ draft'.n = n + 1
        /\ \A k \in AppenderKeys \ {"n"} : draft'[k] = draft[k]
    BY <1>2, <2>1 DEF AppenderKeys
  <2>3. DraftOf(draft', file)
    BY <1>1, <1>2, <2>2 DEF DraftOf, AppenderKeys
  <2>4. ASSUME ~errno PROVE DraftRead(draft', "facility")
    <3>1. DraftRead(draft, "facility")
      BY <1>1, <2>4
    <3>2. ASSUME IsFaced(draft) PROVE FacedMembers(draft.facility_filters) = FacedBelow(list, n + 1)
      <4>1. FacedMembers(draft.facility_filters) = FacedBelow(list, n)
        BY <3>1, <3>2 DEF DraftRead
      <4>2. ASSUME n \in DOMAIN list PROVE FacilityOf(list, n) = 0
        <5>1. HasSets(f)
          BY <1>4, <3>2, <4>2 DEF IsFaced, WellNumbered
        <5> QED BY <1>4, <1>7, <4>2, <5>1
      <4> QED BY <1>2, <4>1, <4>2, FacedBelowSkip
    <3>3. IsFaced(draft') => IsFaced(draft)
      BY <2>2 DEF IsFaced, AppenderKeys
    <3> QED BY <2>2, <3>1, <3>2, <3>3 DEF DraftRead, AppenderKeys
  <2>5. PlaceInv'
    BY <1>1, <2>1 DEF PlaceInv, Reading
  <2> QED BY <1>1, <1>2, <2>1, <2>3, <2>4, <2>5 DEF DraftInv
<1>8. CASE ~AtEnd("facility" \in DOMAIN f, n) /\ facility # 0 /\ HasSets(f)
  <2> DEFINE Reads(failed, r) ==
           /\ draft' = IF r.sets # Route!NoSets /\ "item" \notin failed
                         THEN [next EXCEPT !.facility_filters =
                                 Append(@, [facility |-> Facility(f.facility), sets |-> r.sets])]
                         ELSE next
           /\ errno' = (r.errno \/ "item" \in failed)
           /\ failures' = failures + Cardinality(failed)
           /\ at' = at
  <2>0. PICK failed \in Failing((DOMAIN f \cap FilterKeys) \union {"item"}) :
           Reads(failed, FilterRead(errno, f, failed))
    BY <1>8 DEF ReadFacilityFilter, Faced
  <2>1. PICK r : r = FilterRead(errno, f, failed) /\ Reads(failed, r)
    BY <2>0
  <2>2. r.sets \in FilterSets /\ r.errno \in BOOLEAN
    BY <1>1, <2>1, FilterReadType
  <2>3. PICK x \in [facility : Int, sets : FilterSets] : x = [facility |-> Facility(f.facility), sets |-> r.sets]
    BY <2>2, FacilityType
  <2>4. /\ DOMAIN draft' = AppenderKeys /\ draft'.n = n + 1
        /\ \A k \in AppenderKeys \ {"n", "facility_filters"} : draft'[k] = draft[k]
        /\ draft'.facility_filters = IF r.sets # Route!NoSets /\ "item" \notin failed
                                       THEN Append(draft.facility_filters, x) ELSE draft.facility_filters
    BY <1>2, <2>1, <2>3 DEF AppenderKeys
  <2>5. draft'.facility_filters \in Seq([facility : Int, sets : FilterSets])
    <3>1. Append(draft.facility_filters, x) \in Seq([facility : Int, sets : FilterSets])
      BY <1>2
    <3> QED BY <1>2, <2>4, <3>1
  <2>6. DraftOf(draft', file)
    BY <1>1, <1>2, <2>4, <2>5 DEF DraftOf, AppenderKeys
  <2>7. PlaceInv'
    BY <1>1, <2>1, <2>2, FailuresCounted DEF PlaceInv, Reading
  <2>8. n \in DOMAIN list /\ f = list[n] /\ facility = FacilityOf(list, n) /\ Facility(f.facility) = facility
    <3>1. n \in DOMAIN list
      BY <1>3, <1>5, <1>8
    <3>2. "facility" \in DOMAIN f
      BY <1>3, <1>8 DEF Key
    <3> QED BY <1>4, <3>1, <3>2 DEF Key
  <2>9. ASSUME ~errno' PROVE DraftRead(draft', "facility")
    <3>1. ~r.errno /\ "item" \notin failed
      BY <2>1, <2>9
    <3>2. ~errno
      BY <1>1, <2>1, <3>1 DEF FilterRead, ErrnoAfter
    <3>3. DraftRead(draft, "facility")
      BY <1>1, <3>2
    <3>4. ASSUME IsFaced(draft) PROVE FacedMembers(draft'.facility_filters) = FacedBelow(list, n + 1)
      <4>1. FacedMembers(draft.facility_filters) = FacedBelow(list, n)
        BY <3>3, <3>4 DEF DraftRead
      <4>2. IsFilter(f) /\ FitsSets(f)
        BY <1>2, <3>4, FilterAt DEF IsFaced
      <4>3. r.sets = Written(list[n])
        BY <1>1, <2>1, <2>8, <3>1, <4>2, FilterReadIntact
      <4>4. x.facility = FacilityOf(list, n) /\ x.sets = Written(list[n])
        BY <2>3, <2>8, <4>3
      <4>5. FacedMembers(Append(draft.facility_filters, x)) =
              FacedMembers(draft.facility_filters) \union {<<x.facility, x.sets>>}
        BY <1>2, FacedMembersAppend
      <4>6. FacedBelow(list, n + 1) =
              FacedBelow(list, n) \union (IF Written(list[n]) # Route!NoSets
                                            THEN {<<FacilityOf(list, n), Written(list[n])>>} ELSE {})
        BY <1>2, <1>8, <2>8, FacedBelowNext
      <4> QED BY <2>4, <3>1, <4>1, <4>3, <4>4, <4>5, <4>6
    <3>5. IsFaced(draft') => IsFaced(draft)
      BY <2>4 DEF IsFaced, AppenderKeys
    <3> QED BY <2>4, <3>3, <3>4, <3>5 DEF DraftRead, AppenderKeys
  <2> QED BY <1>1, <1>2, <2>1, <2>6, <2>7, <2>9 DEF DraftInv
<1> QED BY <1>6, <1>7, <1>8

(* An appender that is registered is complete. *)
LEMMA AddAppenderInv ==
  ASSUME PlaceInv, DraftInv, RegisteredInv, AddAppender
  PROVE  PlaceInv' /\ DraftInv' /\ RegisteredInv'
<1>1. /\ at = "add" /\ at' = "appenders" /\ draft' = None /\ errno \in BOOLEAN /\ file \in Files /\ file' = file
      /\ DraftOf(draft, file) /\ (~errno => DraftRead(draft, at))
      /\ failures \in 0 .. MaxFailures
  BY DEF AddAppender, PlaceInv, DraftInv, Reading
<1>2. errno' \in BOOLEAN /\ failures' \in 0 .. MaxFailures
  BY <1>1, OneMoreFailure DEF AddAppender
<1>3. PlaceInv' /\ DraftInv'
  BY <1>1, <1>2 DEF PlaceInv, DraftInv, Reading
<1>4. CASE UNCHANGED appenders
  BY <1>3, <1>4, RegisteredSame
<1>5. CASE appenders' = Append(appenders, [draft EXCEPT !.intact = ~errno])
  <2>1. PICK a : a = [draft EXCEPT !.intact = ~errno]
    OBVIOUS
  <2>2. /\ a.intact = ~errno
        /\ \A k \in AppenderKeys \ {"intact"} : a[k] = draft[k]
    BY <1>1, <2>1 DEF DraftOf, AppenderKeys
  <2>3. Complete(a)
    <3>1. a.filters \in Seq(FilterSets) /\ (a.section.type = "syslog" => a.sync)
      BY <1>1, <2>2 DEF DraftOf, AppenderKeys
    <3>2. ASSUME ~errno PROVE FiltersRead(a) /\ FacedRead(a) /\ SettingsRead(a)
      <4>1. FiltersRead(draft) /\ FacedRead(draft) /\ SettingsRead(draft)
        BY <1>1, <3>2 DEF DraftRead
      <4>2. /\ a.section = draft.section /\ a.filters = draft.filters
            /\ a.facility_filters = draft.facility_filters
            /\ \A k \in {"max_size", "max_days", "max_loop"} : a[k] = draft[k]
        BY <2>2 DEF AppenderKeys
      <4>3. FiltersRead(a) /\ FacedRead(a)
        BY <4>1, <4>2 DEF FiltersRead, FacedRead, IsFaced
      <4>4. SettingsRead(a)
        BY <4>1, <4>2 DEF SettingsRead
      <4> QED BY <4>3, <4>4
    <3> QED BY <2>2, <3>1, <3>2 DEF Complete
  <2>4. appenders \in Seq(Registered) /\ Registered = Members(appenders)
    BY DEF RegisteredInv, Registered, Members
  <2>5. Registered' = Registered \union {a}
    <3>1. Registered' = Members(Append(appenders, a))
      BY <1>5, <2>1 DEF Registered, Members
    <3> QED BY <2>4, <3>1, MembersAppend
  <2>6. appenders' \in Seq(Registered')
    <3>1. Append(appenders, a) \in Seq(Registered \union {a})
      BY <2>4
    <3> QED BY <1>5, <2>1, <2>5, <3>1
  <2>7. \A b \in Registered' : Complete(b)
    BY <2>3, <2>5 DEF RegisteredInv
  <2>8. RegisteredInv'
    BY <2>6, <2>7 DEF RegisteredInv, Complete, FiltersRead, FacedRead, SettingsRead
  <2> QED BY <1>3, <2>8
<1> QED BY <1>4, <1>5 DEF AddAppender

(* Every step keeps the invariant. *)
LEMMA LoaderNextInv ==
  ASSUME LoaderInv, [LoadNext]_<<vars, loadVars>>
  PROVE  LoaderInv'
<1>1. LevelInv' /\ PlaceInv /\ DraftInv /\ RegisteredInv
  BY LoadStepsLevels DEF LoaderInv
<1>2. CASE UNCHANGED loadVars
  BY <1>1, <1>2 DEF loadVars, LoaderInv, PlaceInv, DraftInv, RegisteredInv, Registered
<1>3. CASE \/ \E f \in Files : LoadFile(f)
           \/ LoadLevel \/ CopyList \/ Loaded \/ Return \/ OtherCall
  BY <1>1, <1>3, QuietInv DEF LoaderInv
<1>4. CASE NextAppender
  BY <1>1, <1>4, NextAppenderInv DEF LoaderInv
<1>5. CASE ReadNumbers
  BY <1>1, <1>5, ReadNumbersInv DEF LoaderInv
<1>6. CASE ReadFacilityFilter
  BY <1>1, <1>6, ReadFacilityFilterInv DEF LoaderInv
<1>7. CASE ReadFlags
  BY <1>1, <1>7, ReadFlagsInv DEF LoaderInv
<1>8. CASE ReadFilter
  BY <1>1, <1>8, ReadFilterInv DEF LoaderInv
<1>9. CASE AddAppender
  BY <1>1, <1>9, AddAppenderInv DEF LoaderInv
<1> QED BY <1>2, <1>3, <1>4, <1>5, <1>6, <1>7, <1>8, <1>9 DEF LoadNext, LevelCall

(* The invariant holds in every reachable state. *)
LEMMA LoaderInvariant == LoadSpec => []LoaderInv
BY LoadInitInv, LoaderNextInv, PTL DEF LoadSpec

(* LoaderTypeOK, for any files and failures: an appender that is being filled   *)
(* belongs to a section of the file that is loaded.                            *)
THEOREM LoaderTypeCorrect == LoadSpec => []LoaderTypeOK
<1>1. LoaderInv => LoaderTypeOK
  <2> SUFFICES ASSUME LoaderInv PROVE LoaderTypeOK
    OBVIOUS
  <2>1. draft # None => draft.name \in DOMAIN file.sections
    BY DEF LoaderInv, PlaceInv, DraftInv, DraftOf
  <2> QED BY <2>1, LevelTypes DEF LoaderInv, PlaceInv, Reading, LoaderTypeOK
<1> QED BY <1>1, LoaderInvariant, PTL

(* RoutesAsWritten, for any files: an appender read while errno was 0 accepts    *)
(* what some filter written for it matches (log_properties_misc.c:121-147,     *)
(* log_syslog_properties.c:120-154).                                           *)
THEOREM RoutesReadAsWritten == LoadSpec => []RoutesAsWritten
<1>1. LoaderInv => RoutesAsWritten
  <2> SUFFICES ASSUME LoaderInv, NEW a \in Registered, a.intact
               PROVE  /\ WellNumbered(Filters(a.section)) =>
                           \A mod \in Mods, tag \in Tags, level \in Levels :
                             Accepts(a, mod, tag, level) <=>
                               \/ WrittenFilters(a.section) = {}
                               \/ Matched(WrittenFilters(a.section), mod, tag, level)
                      /\ IsFaced(a) =>
                           FacedMembers(a.facility_filters) = AllFacedOf(Faced(a.section))
    BY DEF RoutesAsWritten, Filters, Faced, IsFaced, AllFaced, FacedMembers, Members, AllFacedOf, FacilityOf
  <2>1. Complete(a)
    BY DEF LoaderInv, RegisteredInv
  <2>2. a.filters = <<>> <=> Members(a.filters) = {}
    BY <2>1, MembersEmpty DEF Complete
  <2>3. ASSUME WellNumbered(Filters(a.section)), NEW mod, NEW tag, NEW level
        PROVE  Accepts(a, mod, tag, level) <=>
                 \/ WrittenFilters(a.section) = {}
                 \/ Matched(WrittenFilters(a.section), mod, tag, level)
    <3>1. Members(a.filters) = WrittenFilters(a.section)
      BY <2>1, <2>3 DEF Complete, FiltersRead
    <3>2. (\E k \in DOMAIN a.filters : Route!Matches(a.filters[k], mod, tag, level))
            <=> \E s \in Members(a.filters) : Route!Matches(s, mod, tag, level)
      BY DEF Members
    <3> QED BY <2>2, <3>1, <3>2 DEF Accepts, Matched
  <2> QED BY <2>1, <2>3 DEF Complete, FacedRead
<1> QED BY <1>1, LoaderInvariant, PTL

(* SettingsAsWritten, for any files and any widths of int and long: numbers     *)
(* that fit an int are read as they are written (properties.c:370-455,         *)
(* log_file_properties.c:26-33).                                               *)
THEOREM SettingsReadAsWritten == LoadSpec => []SettingsAsWritten
<1>1. LoaderInv => SettingsAsWritten
  <2> SUFFICES ASSUME LoaderInv, NEW a \in Registered, a.intact, a.section.type = "file",
                      NEW k \in {"max_size", "max_days", "max_loop"}, SettingFits(a.section, k)
               PROVE  a[k] = Setting(a.section, k)
    BY DEF SettingsAsWritten, SettingFits, Setting
  <2> QED BY DEF LoaderInv, RegisteredInv, Complete, SettingsRead
<1> QED BY <1>1, LoaderInvariant, PTL

(* SyslogStaysSync, for any files: no file can make a syslog appender           *)
(* asynchronous (log_syslog.c:175, log_properties_misc.c:149-198).             *)
THEOREM SyslogIsNeverAsync == LoadSpec => []SyslogStaysSync
<1>1. LoaderInv => SyslogStaysSync
  BY DEF LoaderInv, RegisteredInv, Complete, SyslogStaysSync
<1> QED BY <1>1, LoaderInvariant, PTL

-----------------------------------------------------------------------------
(* The list of appenders: one is registered for each that can be loaded, in    *)
(* the order of the list.                                                      *)

Mine(apps, ld) == {k \in DOMAIN apps : apps[k].load = ld}
ListedBelow(f, m) == {i \in DOMAIN f.appenders : i < m /\ Loadable(Section(f, f.appenders[i]))}

InOrder(apps, mine, f, listed) ==
  \E place \in [mine -> listed] :
    /\ \A i \in listed : \E k \in mine : place[k] = i
    /\ \A k, m \in mine : k < m => place[k] < place[m]
    /\ \A k \in mine : apps[k].name = f.appenders[place[k]]

Underway == Reading \union {"appenders"}

ListInv ==
  /\ loads \in Nat /\ idx \in Nat
  /\ \A k \in DOMAIN appenders : appenders[k].load \in 0 .. loads
  /\ \A k \in DOMAIN appenders \ Mine(appenders, loads), m \in Mine(appenders, loads) : k < m
  /\ at \in {"levels", "list"} => Mine(appenders, loads) = {}
  /\ at = "list" => idx = 1
  /\ at \in Underway => idx > 0
  /\ at \in Reading =>
       /\ idx \in DOMAIN file.appenders /\ draft.name = file.appenders[idx]
       /\ draft.load = loads
  /\ at \in Underway /\ ~errno =>
       InOrder(appenders, Mine(appenders, loads), file, ListedBelow(file, idx))
  /\ at = "done" /\ ~errno =>
       InOrder(appenders, Mine(appenders, loads), file, ListedBelow(file, Len(file.appenders) + 1))

(* One more that can be loaded, and is registered. *)
LEMMA InOrderNext ==
  ASSUME NEW S, NEW apps \in Seq(S), NEW a, NEW ld, a.load = ld,
         NEW f \in Files, NEW m \in DOMAIN f.appenders,
         Loadable(Section(f, f.appenders[m])), a.name = f.appenders[m],
         InOrder(apps, Mine(apps, ld), f, ListedBelow(f, m))
  PROVE  InOrder(Append(apps, a), Mine(Append(apps, a), ld), f, ListedBelow(f, m + 1))
<1> DEFINE mine == Mine(apps, ld)
           listed == ListedBelow(f, m)
           new == Append(apps, a)
<1>1. PICK n \in Nat : n = Len(apps)
  OBVIOUS
<1>2. /\ DOMAIN apps = 1 .. n /\ DOMAIN new = (1 .. n) \union {n + 1}
      /\ \A k \in 1 .. n : new[k] = apps[k]
      /\ new[n + 1] = a
  <2>1. apps \in Seq(S \union {a})
    OBVIOUS
  <2>2. DOMAIN new = 1 .. n + 1
    BY <1>1, <2>1
  <2>3. 1 .. n + 1 = (1 .. n) \union {n + 1}
    OBVIOUS
  <2> QED BY <1>1, <2>1, <2>2, <2>3
<1>3. mine \subseteq 1 .. n /\ n + 1 \notin mine
  BY <1>2 DEF Mine
<1>4. Mine(new, ld) = mine \union {n + 1}
  BY <1>2 DEF Mine
<1>5. DOMAIN f.appenders \subseteq Nat
  BY LoaderAssumption DEF IsFile
<1>6. ListedBelow(f, m + 1) = listed \union {m} /\ m \notin listed /\ \A i \in listed : i \in Nat /\ i < m
  BY <1>5 DEF ListedBelow
<1>7. PICK place \in [mine -> listed] :
        /\ \A i \in listed : \E k \in mine : place[k] = i
        /\ \A k, j \in mine : k < j => place[k] < place[j]
        /\ \A k \in mine : apps[k].name = f.appenders[place[k]]
  BY DEF InOrder
<1>8. PICK longer \in [mine \union {n + 1} -> listed \union {m}] :
        longer = [k \in mine \union {n + 1} |-> IF k = n + 1 THEN m ELSE place[k]]
  BY <1>3
<1>9. longer[n + 1] = m /\ \A k \in mine : longer[k] = place[k]
  BY <1>3, <1>8
<1>10. \A i \in listed \union {m} : \E k \in mine \union {n + 1} : longer[k] = i
  BY <1>7, <1>9
<1>11. ASSUME NEW k \in mine \union {n + 1}, NEW j \in mine \union {n + 1}, k < j
       PROVE  longer[k] < longer[j]
  <2>1. k \in mine
    BY <1>3, <1>11
  <2>2. CASE j \in mine
    BY <1>7, <1>9, <1>11, <2>1, <2>2
  <2>3. CASE j = n + 1
    <3>1. place[k] < m
      BY <1>6, <1>7, <2>1
    <3> QED BY <1>9, <2>1, <2>3, <3>1
  <2> QED BY <2>2, <2>3
<1>12. \A k \in mine \union {n + 1} : new[k].name = f.appenders[longer[k]]
  BY <1>2, <1>3, <1>7, <1>9
<1>13. InOrder(new, mine \union {n + 1}, f, listed \union {m})
  BY <1>10, <1>11, <1>12 DEF InOrder
<1> QED BY <1>4, <1>6, <1>13

(* What cannot be loaded is passed over. *)
LEMMA ListedSkip ==
  ASSUME NEW f \in Files, NEW m \in DOMAIN f.appenders, ~Loadable(Section(f, f.appenders[m]))
  PROVE  ListedBelow(f, m + 1) = ListedBelow(f, m)
<1>1. DOMAIN f.appenders \subseteq Nat
  BY LoaderAssumption DEF IsFile
<1>2. \A i \in DOMAIN f.appenders : i < m + 1 <=> i < m \/ i = m
  BY <1>1
<1> QED BY <1>2 DEF ListedBelow

(* Nothing is listed before the first, everything before what is behind the last. *)
LEMMA ListedNone ==
  ASSUME NEW f \in Files
  PROVE  /\ ListedBelow(f, 1) = {}
         /\ \A m \in Nat : m > Len(f.appenders) => ListedBelow(f, m) = ListedBelow(f, Len(f.appenders) + 1)
<1>1. DOMAIN f.appenders = 1 .. Len(f.appenders) /\ Len(f.appenders) \in Nat
  BY LoaderAssumption DEF IsFile
<1>2. \A i \in DOMAIN f.appenders : ~(i < 1) /\ i < Len(f.appenders) + 1
  BY <1>1
<1>3. \A m \in Nat : m > Len(f.appenders) => \A i \in DOMAIN f.appenders : i < m
  BY <1>1
<1> QED BY <1>2, <1>3 DEF ListedBelow

(* Where nothing is listed, nothing need be registered. *)
LEMMA InOrderNone == \A apps, f : InOrder(apps, {}, f, {})
<1> SUFFICES ASSUME NEW apps, NEW f PROVE InOrder(apps, {}, f, {})
  OBVIOUS
<1>1. PICK place \in [{} -> {}] : TRUE
  <2>1. [k \in {} |-> k] \in [{} -> {}]
    OBVIOUS
  <2> QED BY <2>1
<1> QED BY <1>1 DEF InOrder

(* Nothing is registered before the first load. *)
LEMMA ListInit == LoadInit => ListInv
<1> SUFFICES ASSUME LoadInit PROVE ListInv
  OBVIOUS
<1>1. DOMAIN appenders = {}
  BY DEF LoadInit
<1> QED BY <1>1 DEF LoadInit, ListInv, Underway, Reading

(* The steps that read the keys of an appender keep its name, and errno once it is set. *)
LEMMA ReadStep ==
  ASSUME PlaceInv, DraftInv, ReadNumbers \/ ReadFacilityFilter \/ ReadFlags \/ ReadFilter
  PROVE  /\ at \in Reading /\ at' \in Reading
         /\ UNCHANGED <<file, idx, appenders, loads>>
         /\ draft'.name = draft.name /\ draft'.load = draft.load
         /\ ~errno' => ~errno
<1>1. at \in Reading /\ errno \in BOOLEAN
  BY DEF ReadNumbers, ReadFacilityFilter, ReadFlags, ReadFilter, PlaceInv, Reading
<1>2. DOMAIN draft = AppenderKeys
  BY <1>1 DEF DraftInv, DraftOf
<1>3. \A f, failed : ~FilterRead(errno, f, failed).errno => ~errno
  BY DEF FilterRead, ErrnoAfter
<1>4. CASE ReadNumbers
  <2>1. PICK size, days, loop, daily :
          draft' = [draft EXCEPT !.max_size = size, !.max_days = days, !.max_loop = loop, !.daily = daily]
    BY <1>4 DEF ReadNumbers
  <2>2. draft'.name = draft.name /\ draft'.load = draft.load
    BY <1>2, <2>1 DEF AppenderKeys
  <2>3. ~errno' => ~errno
    BY <1>4 DEF ReadNumbers, KeyErrno
  <2> QED BY <1>1, <1>4, <2>2, <2>3 DEF ReadNumbers, Reading
<1>5. CASE ReadFlags
  <2>1. PICK flags, sync : draft' = [draft EXCEPT !.flags = flags, !.sync = sync]
    BY <1>5 DEF ReadFlags
  <2>2. draft'.name = draft.name /\ draft'.load = draft.load
    BY <1>2, <2>1 DEF AppenderKeys
  <2>3. ~errno' => ~errno
    BY <1>5 DEF ReadFlags, KeyErrno
  <2> QED BY <1>1, <1>5, <2>2, <2>3 DEF ReadFlags, Reading
<1>6. CASE ReadFilter
  <2>1. \E n, filters : draft' = draft \/ draft' = [draft EXCEPT !.n = n]
                          \/ draft' = [draft EXCEPT !.n = n, !.filters = filters]
    BY <1>6 DEF ReadFilter
  <2>2. draft'.name = draft.name /\ draft'.load = draft.load
    BY <1>2, <2>1 DEF AppenderKeys
  <2>3. ~errno' => ~errno
    BY <1>3, <1>6 DEF ReadFilter
  <2> QED BY <1>1, <1>6, <2>2, <2>3 DEF ReadFilter, Reading
<1>7. CASE ReadFacilityFilter
  <2>1. \E n, filters : draft' = [draft EXCEPT !.n = n]
                          \/ draft' = [draft EXCEPT !.n = n, !.facility_filters = filters]
    BY <1>7 DEF ReadFacilityFilter
  <2>2. draft'.name = draft.name /\ draft'.load = draft.load
    BY <1>2, <2>1 DEF AppenderKeys
  <2>3. ~errno' => ~errno
    BY <1>3, <1>7 DEF ReadFacilityFilter
  <2> QED BY <1>1, <1>7, <2>2, <2>3 DEF ReadFacilityFilter, Reading
<1> QED BY <1>4, <1>5, <1>6, <1>7

(* Before the list none of this load is registered, behind it all are. *)
LEMMA ListQuiet ==
  ASSUME LoaderInv, ListInv,
         \/ \E f \in Files : LoadFile(f)
         \/ LoadLevel \/ CopyList \/ Loaded \/ Return \/ OtherCall
  PROVE  ListInv'
<1>1. at \notin Reading /\ PlaceInv
  BY DEF LoadFile, LoadLevel, CopyList, Loaded, Return, OtherCall, Reading, LoaderInv
<1>2. CASE \E f \in Files : LoadFile(f)
  <2>1. loads' = loads + 1 /\ appenders' = appenders /\ at' = "levels" /\ idx' = 0
    BY <1>2 DEF LoadFile
  <2>2. \A k \in DOMAIN appenders : appenders[k].load \in 0 .. loads + 1 /\ appenders[k].load # loads + 1
    BY DEF ListInv
  <2>3. loads + 1 \in Nat /\ Mine(appenders, loads + 1) = {}
    BY <2>2 DEF ListInv, Mine
  <2> QED BY <2>1, <2>2, <2>3 DEF ListInv, Underway, Reading
<1>3. CASE LoadLevel
  <2>1. /\ at = "levels" /\ UNCHANGED <<appenders, loads>>
        /\ \/ at' = "levels" /\ idx' = idx + 1
           \/ at' = "list" /\ idx' = 1
    BY <1>3 DEF LoadLevel
  <2> QED BY <2>1 DEF ListInv, Underway, Reading
<1>4. CASE CopyList
  <2>1. /\ at = "list" /\ UNCHANGED <<appenders, loads, idx, file>>
        /\ at' = "appenders" \/ (at' = "done" /\ errno')
    BY <1>4 DEF CopyList
  <2>2. idx = 1 /\ Mine(appenders, loads) = {} /\ file \in Files
    BY <1>1, <2>1 DEF ListInv, PlaceInv
  <2>3. InOrder(appenders, Mine(appenders, loads), file, ListedBelow(file, idx))
    BY <2>2, ListedNone, InOrderNone
  <2> QED BY <2>1, <2>2, <2>3 DEF ListInv, Underway, Reading
<1>5. CASE Loaded
  <2>1. /\ at = "appenders" /\ at' = "done" /\ UNCHANGED <<appenders, loads, idx, file, errno>>
        /\ idx > Len(file.appenders)
    BY <1>5 DEF Loaded
  <2>2. file \in Files /\ idx \in Nat
    BY <2>1 DEF ListInv, LoaderInv, PlaceInv
  <2>3. ListedBelow(file, idx) = ListedBelow(file, Len(file.appenders) + 1)
    BY <2>1, <2>2, ListedNone
  <2> QED BY <2>1, <2>3 DEF ListInv, Underway, Reading
<1>6. CASE Return
  BY <1>6 DEF Return, ListInv, Underway, Reading
<1>7. CASE OtherCall
  BY <1>7 DEF OtherCall, ListInv, Underway, Reading
<1> QED BY <1>2, <1>3, <1>4, <1>5, <1>6, <1>7

(* Passing over what cannot be loaded keeps the order. *)
LEMMA ListNextAppender ==
  ASSUME LoaderInv, ListInv, NextAppender
  PROVE  ListInv'
<1> DEFINE name == file.appenders[idx]
           c == Section(file, name)
<1>1. /\ at = "appenders" /\ file \in Files /\ errno \in BOOLEAN
      /\ UNCHANGED <<file, appenders, loads>> /\ idx <= Len(file.appenders)
  BY DEF NextAppender, LoaderInv, PlaceInv
<1>2. idx \in DOMAIN file.appenders /\ idx \in Nat /\ idx > 0
  <2>1. file.appenders \in Seq(STRING)
    BY <1>1, LoaderAssumption DEF IsFile
  <2>2. idx \in Nat /\ idx > 0
    BY <1>1 DEF ListInv, Underway
  <2> QED BY <1>1, <2>1, <2>2
<1>3. CASE Skip /\ ((~Loadable(c) /\ errno' = errno) \/ errno')
  <2>1. at' = at /\ draft' = draft /\ idx' = idx + 1
    BY <1>3 DEF Skip
  <2>2. ~errno' => ~errno /\ ListedBelow(file, idx + 1) = ListedBelow(file, idx)
    BY <1>1, <1>2, <1>3, ListedSkip
  <2> QED BY <1>1, <1>2, <2>1, <2>2 DEF ListInv, Underway, Reading
<1>4. CASE /\ \E o : draft' = NewAppender(name, c, o)
           /\ at' \in Reading /\ idx' = idx /\ (~errno' => ~errno)
  <2>1. PICK o : draft' = NewAppender(name, c, o)
    BY <1>4
  <2>2. draft'.name = name /\ draft'.load = loads
    BY <2>1 DEF NewAppender
  <2> QED BY <1>1, <1>2, <1>4, <2>2 DEF ListInv, Underway, Reading
<1> QED BY <1>1, <1>3, <1>4 DEF NextAppender, Reading

(* Reading the keys of an appender keeps the order. *)
LEMMA ListReading ==
  ASSUME LoaderInv, ListInv, ReadNumbers \/ ReadFacilityFilter \/ ReadFlags \/ ReadFilter
  PROVE  ListInv'
BY ReadStep DEF LoaderInv, ListInv, Underway, Reading

(* Registering an appender continues the order. *)
LEMMA ListAddAppender ==
  ASSUME LoaderInv, ListInv, AddAppender
  PROVE  ListInv'
<1>1. /\ at = "add" /\ at' = "appenders" /\ errno \in BOOLEAN /\ file \in Files
      /\ UNCHANGED <<file, loads>> /\ idx' = idx + 1
      /\ DraftOf(draft, file) /\ appenders \in Seq(Registered)
  BY DEF AddAppender, LoaderInv, PlaceInv, DraftInv, Reading, RegisteredInv
<1>2. /\ idx \in Nat /\ idx > 0 /\ idx \in DOMAIN file.appenders /\ draft.name = file.appenders[idx]
      /\ draft.load = loads /\ loads \in Nat
      /\ ~errno => InOrder(appenders, Mine(appenders, loads), file, ListedBelow(file, idx))
  BY <1>1 DEF ListInv, Underway, Reading
<1>3. CASE errno' /\ UNCHANGED appenders
  BY <1>1, <1>2, <1>3 DEF ListInv, Underway, Reading
<1>4. CASE errno' = errno /\ appenders' = Append(appenders, [draft EXCEPT !.intact = ~errno])
  <2>1. PICK a : a = [draft EXCEPT !.intact = ~errno]
    OBVIOUS
  <2>2. a.name = draft.name /\ a.section = draft.section /\ a.load = loads
    BY <1>1, <1>2, <2>1 DEF DraftOf, AppenderKeys
  <2>3. Loadable(Section(file, file.appenders[idx]))
    BY <1>1, <1>2 DEF DraftOf, Section, Key
  <2>4. ~errno' => InOrder(appenders', Mine(appenders', loads), file, ListedBelow(file, idx + 1))
    BY <1>1, <1>2, <1>4, <2>1, <2>2, <2>3, InOrderNext
  <2>5. PICK n \in Nat : n = Len(appenders) /\ DOMAIN appenders = 1 .. n
    BY <1>1
  <2>6. /\ DOMAIN appenders' = (1 .. n) \union {n + 1}
        /\ \A k \in 1 .. n : appenders'[k] = appenders[k]
        /\ appenders'[n + 1] = a
    <3>1. appenders \in Seq(Registered \union {a})
      BY <1>1
    <3>2. DOMAIN appenders' = 1 .. n + 1
      BY <1>4, <2>1, <2>5, <3>1
    <3>3. 1 .. n + 1 = (1 .. n) \union {n + 1}
      OBVIOUS
    <3> QED BY <1>4, <2>1, <2>5, <3>1, <3>2, <3>3
  <2>7. Mine(appenders', loads) = Mine(appenders, loads) \union {n + 1}
    BY <2>2, <2>5, <2>6 DEF Mine
  <2>8. \A k \in DOMAIN appenders' \ Mine(appenders', loads), m \in Mine(appenders', loads) : k < m
    BY <2>5, <2>6, <2>7 DEF ListInv
  <2>9. \A k \in DOMAIN appenders' : appenders'[k].load \in 0 .. loads
    BY <1>2, <2>2, <2>5, <2>6 DEF ListInv
  <2> QED BY <1>1, <1>2, <2>4, <2>8, <2>9 DEF ListInv, Underway, Reading
<1> QED BY <1>3, <1>4 DEF AddAppender

(* Every step keeps the order. *)
LEMMA ListNext ==
  ASSUME LoaderInv, ListInv, [LoadNext]_<<vars, loadVars>>
  PROVE  ListInv'
<1>1. CASE UNCHANGED loadVars
  BY <1>1 DEF loadVars, ListInv
<1> QED
  BY <1>1, ListQuiet, ListNextAppender, ListReading, ListAddAppender DEF LoadNext, LevelCall

(* LoadsAllListed, for any files: when nothing has failed, what can be loaded is *)
(* registered, once for each time it is listed, in the order of the list        *)
(* (log_properties.c:50-81).                                                   *)
THEOREM AllListedAreLoaded == LoadSpec => []LoadsAllListed
<1>1. LoaderInv /\ ListInv => LoadsAllListed
  <2> SUFFICES ASSUME LoaderInv, ListInv, at = "done", ~errno
               PROVE  /\ \A k \in DOMAIN appenders \ Mine(appenders, loads),
                            m \in Mine(appenders, loads) : k < m
                      /\ InOrder(appenders, Mine(appenders, loads), file,
                                 {i \in DOMAIN file.appenders : Loadable(Section(file, file.appenders[i]))})
    BY DEF LoadsAllListed, InOrder, Mine
  <2>1. file \in Files
    BY DEF LoaderInv, PlaceInv
  <2>2. DOMAIN file.appenders = 1 .. Len(file.appenders) /\ Len(file.appenders) \in Nat
    BY <2>1, LoaderAssumption DEF IsFile
  <2>3. ListedBelow(file, Len(file.appenders) + 1) =
          {i \in DOMAIN file.appenders : Loadable(Section(file, file.appenders[i]))}
    BY <2>2 DEF ListedBelow
  <2> QED BY <2>3 DEF ListInv
<1>2. LoadSpec => []ListInv
  BY ListInit, LoaderInvariant, ListNext, PTL DEF LoadSpec
<1> QED BY <1>1, <1>2, LoaderInvariant, PTL
=============================================================================
