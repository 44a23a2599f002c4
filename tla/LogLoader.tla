------------------------------- MODULE LogLoader -------------------------------
(***************************************************************************)
(* Loading a properties file into levels and appenders,                    *)
(* src/src/neng/log/log_properties.c with log_properties_misc.c,           *)
(* log_file_properties.c, log_syslog_properties.c and the numbers of       *)
(* properties.c, while other threads call NengLogSetLevel and              *)
(* NengLogClearLevel.                                                      *)
(*                                                                         *)
(* A file is what _neng_log_properties_get finds in it: the levels of the  *)
(* modules by number, the names after log.appenders, and for each name a   *)
(* section, a record with the keys that are present.  A number is written  *)
(* as a value and the character behind it, a list as a sequence.           *)
(***************************************************************************)
EXTENDS LogLevel, Sequences, FiniteSets

CONSTANTS
  Files,       \* the files that are loaded
  TagSize,     \* NENG_LOG_TAG_SIZE
  IntMax,      \* largest value of the C type int
  LongMax,     \* largest value of the C type long
  Kilo,        \* 1024
  MaxLoads,    \* bound: calls of NengLogLoadProperties
  MaxFailures  \* bound: allocations that fail in one call

Key(c, k, default) == IF k \in DOMAIN c THEN c[k] ELSE default
NoKeys == [k \in {} |-> k]

\* What a file may hold.
Number == [val : Int, unit : STRING]
IsFilter(f) == \A k \in {"mods", "tags"} : Key(f, k, <<>>) \in Seq(Number)
IsFilterList(list) ==
  /\ IsFiniteSet(DOMAIN list) /\ DOMAIN list \subseteq Nat
  /\ \A n \in DOMAIN list : IsFilter(list[n])
IsSection(c) ==
  /\ \A k \in {"max_size", "max_days", "max_loop"} : k \in DOMAIN c => c[k] \in Number
  /\ \A k \in {"filters", "facility_filters"} : IsFilterList(Key(c, k, NoKeys))
IsFile(f) ==
  /\ f.appenders \in Seq(STRING)
  /\ \A name \in DOMAIN f.sections : IsSection(f.sections[name])

ASSUME LoaderAssumption ==
  /\ TagSize \in Nat \ {0} /\ IntMax \in Nat /\ LongMax \in Nat /\ Kilo \in Nat
  /\ MaxLoads \in Nat /\ MaxFailures \in Nat
  /\ \A f \in Files : IsFile(f)

VARIABLES
  errno,      \* errno of the thread that loads is not 0
  at,         \* what that thread does next
  file,       \* the file being loaded, or None
  idx,        \* module, appender and filter it has come to
  draft,      \* the appender being filled, or None
  appenders,  \* the registered appenders with the sections they come from
  loads,      \* history: calls so far
  failures    \* history: allocations that failed in this call

loadVars == <<errno, at, file, idx, draft, appenders, loads, failures>>

Route == INSTANCE LogRoute WITH Mods <- Mods, Tags <- 0 .. TagSize - 1, Levels <- Levels,
                                draft <- draft, filters <- appenders

\* NengLogName2Level and _string2facility, without the case of letters; kern has
\* the code of what is none.
Name2Level(name) ==
  Key([emerg |-> 0, alert |-> 1, crit |-> 2, error |-> 3, err |-> 3, warn |-> 4, warning |-> 4,
       notice |-> 5, info |-> 6, debug |-> 7], name, -1)

Facility(name) ==
  Key([kern |-> 0, user |-> 1, mail |-> 2, daemon |-> 3, auth |-> 4, security |-> 4, syslog |-> 5,
       lpr |-> 6, news |-> 7, uucp |-> 8, cron |-> 9, authpriv |-> 10, ftp |-> 11,
       local0 |-> 16, local1 |-> 17, local2 |-> 18, local3 |-> 19,
       local4 |-> 20, local5 |-> 21, local6 |-> 22, local7 |-> 23], name, 0)

\* _string2syslogoption: what is no option is left out.
Options(names) == {names[k] : k \in DOMAIN names} \cap {"pid", "cons", "odelay", "ndelay", "perror"}

-----------------------------------------------------------------------------
(* Numbers: strtol, the cut to int, and the units. *)

True(word) == word \in {"on", "true", "yes"}

\* A C int; the build wraps.
Wrap(n) == ((n + IntMax + 1) % (2 * IntMax + 2)) - (IntMax + 1)

TooLarge(number) == number.val > LongMax \/ number.val < -LongMax - 1

\* strtol sets errno for a number that is too large and never resets it, so that
\* after any failure the callers take no number.
ErrnoAfter(e, numbers) == e \/ \E k \in DOMAIN numbers : TooLarge(numbers[k])

\* Mutant: a missing break lets k run on into m.
MutFactor(unit) == CASE unit \in {"k", "m"} -> Kilo * Kilo [] unit = "g" -> Kilo * Kilo * Kilo [] OTHER -> 1

Factor(unit) ==
  CASE unit = "k" -> Kilo [] unit = "m" -> Kilo * Kilo [] unit = "g" -> Kilo * Kilo * Kilo
    [] OTHER -> 1

\* _neng_log_properties_unittype_int.
UnitInt(number, isByte) ==
  IF isByte THEN Wrap(Wrap(number.val) * Factor(number.unit)) ELSE Wrap(number.val)

\* _neng_log_properties_get_int: the result is stored only over one that is not 0.
GetInt(number, out) == IF out # 0 THEN UnitInt(number, FALSE) ELSE out

\* _string2ints.
Ints(e, numbers) ==
  {Wrap(numbers[k].val) : k \in {j \in DOMAIN numbers : ~ErrnoAfter(e, SubSeq(numbers, 1, j))}}

\* _neng_log_properties_get_defint with 0 as the default.
DefInt(e, c, k, isByte) ==
  IF k \in DOMAIN c /\ ~ErrnoAfter(e, <<c[k]>>) THEN UnitInt(c[k], isByte) ELSE 0

KeyErrno(e, c, k) == e \/ (k \in DOMAIN c /\ TooLarge(c[k]))

\* _string2levels: a name that is none is left out.
LevelsNamed(names) == {Name2Level(names[k]) : k \in DOMAIN names} \ {-1}

-----------------------------------------------------------------------------
(* Filters.  The allocations that fail are among the keys and "item".  *)

\* _NengLogLoadFilterProperties: the sets, and errno after it.
FilterRead(e, f, failed) ==
  LET List(k) == IF k \in failed THEN <<>> ELSE Key(f, k, <<>>)
      e1 == "mods" \in failed \/ ErrnoAfter(e, List("mods"))
      e2 == "tags" \in failed \/ ErrnoAfter(e1, List("tags"))
  IN  [sets  |-> [mods   |-> Ints(e, List("mods")) \cap Mods,
                  tags   |-> Ints(e1, List("tags")) \cap (0 .. TagSize - 1),
                  levels |-> LevelsNamed(List("levels"))],
       errno |-> e2 \/ "levels" \in failed]

FilterKeys == {"mods", "tags", "levels"}
HasSets(f) == DOMAIN f \cap FilterKeys # {}

\* Mutant: a list has to start at 0.
MutAtEnd(present, n) == ~present

\* A number that is missing ends a list, except 0.
AtEnd(present, n) == ~present /\ n > 0

Failing(keys) == {s \in SUBSET keys : Cardinality(s) + failures <= MaxFailures}

-----------------------------------------------------------------------------
LoadInit ==
  /\ Init
  /\ errno \in BOOLEAN
  /\ at = "idle" /\ file = None /\ idx = 0 /\ draft = None
  /\ appenders = <<>>
  /\ loads = 0 /\ failures = 0

\* Whatever the thread calls between loads, a load that cannot read its file
\* among it, leaves errno behind.
OtherCall ==
  /\ at = "idle"
  /\ errno' \in BOOLEAN
  /\ UNCHANGED <<vars, at, file, idx, draft, appenders, loads, failures>>

LevelCall == Next /\ UNCHANGED loadVars

LoadFile(f) ==
  /\ at = "idle" /\ loads < MaxLoads
  /\ file' = f /\ at' = "levels" /\ idx' = 0
  /\ loads' = loads + 1 /\ failures' = 0
  /\ UNCHANGED <<vars, errno, draft, appenders>>

\* NengLogSetLevel refuses the -1 of a name that is none, and of no name at all.
LoadLevel ==
  LET level == Name2Level(Key(file.levels, idx, "")) IN
  /\ at = "levels"
  /\ IF level \in Levels THEN SetLevel(level, idx) ELSE UNCHANGED vars
  /\ IF idx + 1 < ModSize
       THEN idx' = idx + 1 /\ UNCHANGED at
       ELSE idx' = 1 /\ at' = "list"
  /\ UNCHANGED <<errno, file, draft, appenders, loads, failures>>

\* The list is copied for strtok_r; without a copy nothing is loaded.
CopyList ==
  /\ at = "list"
  /\ \/ at' = "appenders" /\ UNCHANGED <<errno, failures>>
     \/ /\ failures < MaxFailures
        /\ at' = "done" /\ errno' = TRUE /\ failures' = failures + 1
  /\ UNCHANGED <<vars, file, idx, draft, appenders, loads>>

Section(f, name) == Key(f.sections, name, NoKeys)

Loadable(c) ==
  \/ Key(c, "type", "") = "file" /\ "filepath" \in DOMAIN c
  \/ Key(c, "type", "") = "syslog"

\* NengLogCreateFileAppender and NengLogCreateSyslogAppender, with the options that
\* were read.
NewAppender(name, c, o) ==
  [name |-> name, section |-> c, load |-> loads, filters |-> <<>>, n |-> 0, flags |-> {},
   intact |-> FALSE, sync |-> c.type = "syslog", daily |-> FALSE,
   max_size |-> 0, max_days |-> 0, max_loop |-> 30,
   option |-> IF o = {} THEN {"odelay", "pid"} ELSE o,
   facility |-> Facility(Key(c, "facility", "")),
   override |-> True(Key(c, "override_facility", "")),
   facility_filters |-> <<>>]

\* Mutant: what cannot be loaded ends the list.
MutSkip == at' = "done" /\ UNCHANGED <<idx, draft>>

Skip == idx' = idx + 1 /\ UNCHANGED <<at, draft>>

\* A file appender asks localtime for the time zone, which leaves errno behind on
\* a machine without a file of it.
NextAppender ==
  LET name == file.appenders[idx]
      c    == Section(file, name)
  IN  /\ at = "appenders" /\ idx <= Len(file.appenders)
      /\ \/ /\ ~Loadable(c)
            /\ Skip
            /\ UNCHANGED <<errno, failures>>
         \/ /\ Loadable(c) /\ failures < MaxFailures
            /\ Skip
            /\ errno' = TRUE /\ failures' = failures + 1
         \/ /\ Loadable(c) /\ c.type = "file"
            /\ draft' = NewAppender(name, c, {})
            /\ at' = "numbers"
            /\ errno' \in {errno, TRUE}
            /\ UNCHANGED <<idx, failures>>
         \/ /\ Loadable(c) /\ c.type = "syslog"
            /\ \E failed \in Failing({"option"} \cap DOMAIN c) :
                 /\ draft' = NewAppender(name, c, IF failed = {} THEN Options(Key(c, "option", <<>>)) ELSE {})
                 /\ errno' = (errno \/ failed # {})
                 /\ failures' = failures + Cardinality(failed)
            /\ at' = "facility"
            /\ UNCHANGED idx
      /\ UNCHANGED <<vars, file, appenders, loads>>

ReadNumbers ==
  LET c  == draft.section
      e1 == KeyErrno(errno, c, "max_size")
      e2 == KeyErrno(e1, c, "max_days")
  IN  /\ at = "numbers"
      /\ draft' = [draft EXCEPT !.max_size = DefInt(errno, c, "max_size", TRUE),
                                !.max_days = DefInt(e1, c, "max_days", FALSE),
                                !.max_loop = DefInt(e2, c, "max_loop", FALSE),
                                !.daily = True(Key(c, "daily", ""))]
      /\ errno' = KeyErrno(e2, c, "max_loop")
      /\ at' = "flags"
      /\ UNCHANGED <<vars, file, idx, appenders, loads, failures>>

\* One facility_filter[n], skipped as a whole when its facility or its sets are none.
ReadFacilityFilter ==
  LET all  == Key(draft.section, "facility_filters", NoKeys)
      n    == draft.n
      f    == Key(all, n, NoKeys)
      next == [draft EXCEPT !.n = n + 1]
  IN  /\ at = "facility"
      /\ IF AtEnd("facility" \in DOMAIN f, n)
           THEN /\ at' = "flags" /\ draft' = [draft EXCEPT !.n = 0]
                /\ UNCHANGED <<errno, failures>>
           ELSE IF Facility(Key(f, "facility", "")) = 0 \/ ~HasSets(f)
           THEN draft' = next /\ UNCHANGED <<at, errno, failures>>
           ELSE \E failed \in Failing((DOMAIN f \cap FilterKeys) \union {"item"}) :
                  LET r == FilterRead(errno, f, failed)
                      valid == r.sets # Route!NoSets
                  IN  /\ "item" \in failed => valid
                      /\ draft' = IF valid /\ "item" \notin failed
                           THEN [next EXCEPT !.facility_filters =
                                   Append(@, [facility |-> Facility(f.facility), sets |-> r.sets])]
                           ELSE next
                      /\ errno' = (r.errno \/ "item" \in failed)
                      /\ failures' = failures + Cardinality(failed)
                      /\ UNCHANGED at
      /\ UNCHANGED <<vars, file, idx, appenders, loads>>

\* Mutant: disable_async is read as the other flags are.
MutSyncFlag(c) == draft.sync /\ "disable_async" \in DOMAIN c

\* flags.disable_async, which GetInt can only leave as it is.
SyncFlag(c) == draft.sync \/ ("disable_async" \in DOMAIN c /\ GetInt(c.disable_async, 0) # 0)

ReadFlags ==
  LET c == draft.section
      words == Key(c, "flags", NoKeys)
  IN  /\ at = "flags"
      /\ draft' = [draft EXCEPT !.flags = {k \in DOMAIN words : True(words[k])},
                                !.sync = SyncFlag(c)]
      /\ errno' = KeyErrno(errno, c, "disable_async")
      /\ at' = "filters"
      /\ UNCHANGED <<vars, file, idx, appenders, loads, failures>>

ReadFilter ==
  LET n    == draft.n
      f    == Key(Key(draft.section, "filters", NoKeys), n, NoKeys)
      next == [draft EXCEPT !.n = n + 1]
  IN  /\ at = "filters"
      /\ IF AtEnd(HasSets(f), n)
           THEN at' = "add" /\ UNCHANGED <<draft, errno, failures>>
           ELSE \E failed \in Failing((DOMAIN f \cap FilterKeys) \union {"item"}) :
                  LET r == FilterRead(errno, f, failed)
                      valid == r.sets # Route!NoSets
                  IN  /\ "item" \in failed => valid
                      /\ draft' = IF valid /\ "item" \notin failed
                           THEN [next EXCEPT !.filters = Append(@, r.sets)] ELSE next
                      /\ errno' = (r.errno \/ "item" \in failed)
                      /\ failures' = failures + Cardinality(failed)
                      /\ UNCHANGED at
      /\ UNCHANGED <<vars, file, idx, appenders, loads>>

\* An appender that cannot be added is lost.
AddAppender ==
  /\ at = "add"
  /\ \/ /\ appenders' = Append(appenders, [draft EXCEPT !.intact = ~errno])
        /\ UNCHANGED <<errno, failures>>
     \/ /\ failures < MaxFailures
        /\ errno' = TRUE /\ failures' = failures + 1
        /\ UNCHANGED appenders
  /\ draft' = None /\ at' = "appenders" /\ idx' = idx + 1
  /\ UNCHANGED <<vars, file, loads>>

\* The call returns 0, whatever has failed.
Loaded ==
  /\ at = "appenders" /\ idx > Len(file.appenders)
  /\ at' = "done"
  /\ UNCHANGED <<vars, errno, file, idx, draft, appenders, loads, failures>>

Return ==
  /\ at = "done"
  /\ at' = "idle" /\ file' = None /\ idx' = 0
  /\ UNCHANGED <<vars, errno, draft, appenders, loads, failures>>

LoadNext ==
  \/ \E f \in Files : LoadFile(f)
  \/ LoadLevel \/ CopyList \/ NextAppender \/ ReadNumbers \/ ReadFacilityFilter \/ ReadFlags
  \/ ReadFilter \/ AddAppender \/ Loaded \/ Return
  \/ OtherCall \/ LevelCall

LoadSpec == LoadInit /\ [][LoadNext]_<<vars, loadVars>>

-----------------------------------------------------------------------------
LoaderTypeOK ==
  /\ TypeOK
  /\ errno \in BOOLEAN
  /\ at \in {"idle", "levels", "list", "appenders", "numbers", "facility", "flags", "filters", "add", "done"}
  /\ file \in Files \union {None}
  /\ draft # None => draft.name \in DOMAIN file.sections
  /\ failures \in 0 .. MaxFailures

\* What a file says, without regard to the way it is read.
Fits(numbers) == \A k \in DOMAIN numbers : numbers[k].val \in -IntMax .. IntMax
FitsSets(f) == Fits(Key(f, "mods", <<>>)) /\ Fits(Key(f, "tags", <<>>))

Values(numbers) == {numbers[k].val : k \in DOMAIN numbers}

Written(f) ==
  [mods |-> Values(Key(f, "mods", <<>>)) \cap Mods,
   tags |-> Values(Key(f, "tags", <<>>)) \cap (0 .. TagSize - 1),
   levels |-> LevelsNamed(Key(f, "levels", <<>>))]

\* "An array that starts at 0 or 1", neng-log.properties:46, each of whose members
\* names something.
WellNumbered(filters) ==
  /\ \E k \in 0 .. Cardinality(DOMAIN filters) : DOMAIN filters \in {0 .. k, 1 .. k}
  /\ \A n \in DOMAIN filters : HasSets(filters[n]) /\ FitsSets(filters[n])

WrittenFilters(c) ==
  LET filters == Key(c, "filters", NoKeys)
  IN  {Written(filters[n]) : n \in DOMAIN filters} \ {Route!NoSets}

\* What a unit stands for.
Scale(unit) == Key([k |-> Kilo, m |-> Kilo * Kilo, g |-> Kilo * Kilo * Kilo], unit, 1)

Matched(sets, mod, tag, level) == \E f \in sets : Route!Matches(f, mod, tag, level)
Accepts(a, mod, tag, level) ==
  a.filters = <<>> \/ \E k \in DOMAIN a.filters : Route!Matches(a.filters[k], mod, tag, level)

Registered == {appenders[k] : k \in DOMAIN appenders}
Tags == 0 .. TagSize - 1

(* An appender that was read while errno was 0 accepts exactly the messages    *)
(* that some filter written for it matches, or all if none is written, however *)
(* the list is numbered within what the sample file allows                     *)
(* (log_properties_misc.c:121-147, neng-log.properties:45-52); and so do the   *)
(* filters that give a syslog appender the facility of a message, when each    *)
(* names one (log_syslog_properties.c:120-154).                                *)
RoutesAsWritten ==
  \A a \in Registered :
    LET filters == Key(a.section, "filters", NoKeys)
        faced == Key(a.section, "facility_filters", NoKeys)
    IN  /\ a.intact /\ WellNumbered(filters) =>
             \A mod \in Mods, tag \in Tags, level \in Levels :
               Accepts(a, mod, tag, level) <=>
                 (WrittenFilters(a.section) = {} \/ Matched(WrittenFilters(a.section), mod, tag, level))
        /\ /\ a.intact /\ a.section.type = "syslog" /\ WellNumbered(faced)
           /\ \A n \in DOMAIN faced : "facility" \in DOMAIN faced[n]
           => {<<f.facility, f.sets>> : f \in {a.facility_filters[k] : k \in DOMAIN a.facility_filters}}
               = {<<Facility(Key(faced[n], "facility", "")), Written(faced[n])>> : n \in
                    {m \in DOMAIN faced : Facility(Key(faced[m], "facility", "")) # 0
                                            /\ Written(faced[m]) # Route!NoSets}}

(* Sizes and counts that fit an int are what the file says, a size in its unit *)
(* of 1024, and 0 where it says nothing, so long as errno was 0                *)
(* (properties.c:370-455, log_file_properties.c:26-33).                        *)
SettingsAsWritten ==
  \A a \in Registered :
    \A k \in {"max_size", "max_days", "max_loop"} :
      LET w == Key(a.section, k, [val |-> 0, unit |-> ""])
          value == IF k = "max_size" THEN w.val * Scale(w.unit) ELSE w.val
      IN  a.intact /\ a.section.type = "file" /\ w.val \in -IntMax .. IntMax /\ value \in -IntMax .. IntMax
            => a[k] = value

(* Whatever a file says, the syslog appender joins the synchronous list: the   *)
(* flag it is created with (log_syslog.c:175) outlives the reading of the      *)
(* other flags, which sets each anew (log_properties_misc.c:149-198).          *)
SyslogStaysSync == \A a \in Registered : a.section.type = "syslog" => a.sync

(* When a load has ended and nothing has failed, every appender of the list    *)
(* that can be loaded is registered, once for each time it is listed, in the   *)
(* order of the list, behind those of earlier loads (log_properties.c:50-81).  *)
LoadsAllListed ==
  at = "done" /\ ~errno =>
    LET mine   == {k \in DOMAIN appenders : appenders[k].load = loads}
        listed == {i \in DOMAIN file.appenders : Loadable(Section(file, file.appenders[i]))}
    IN  /\ \A k \in DOMAIN appenders \ mine, m \in mine : k < m
        /\ \E place \in [mine -> listed] :
             /\ \A i \in listed : \E k \in mine : place[k] = i
             /\ \A k, m \in mine : k < m => place[k] < place[m]
             /\ \A k \in mine : appenders[k].name = file.appenders[place[k]]

(* Only a message that matches a filter is handed to an appender that has some *)
(* (neng-log.properties:45).                                                   *)
OnlyMatching ==
  \A a \in Registered :
    WellNumbered(Key(a.section, "filters", NoKeys)) /\ WrittenFilters(a.section) # {} =>
      \A mod \in Mods, tag \in Tags, level \in Levels :
        Accepts(a, mod, tag, level) => Matched(WrittenFilters(a.section), mod, tag, level)
=============================================================================
