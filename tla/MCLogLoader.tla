------------------------------ MODULE MCLogLoader ------------------------------
(* Levels of three modules and files that take each way of the loader.       *)
EXTENDS LogLoader

MCModIds == {-1, 0, 1, 2, 3}
MCLevelIds == {-1, 0, 6, 8}
MCWords == {0, 6, 7, 6 + 8, 7 + 65536}

Num(v) == [val |-> v, unit |-> ""]
Size(v, u) == [val |-> v, unit |-> u]
Empty == [k \in {} |-> k]
At(n, f) == [k \in {n} |-> f]
AtBoth(m, f, n, g) == [k \in {m, n} |-> IF k = m THEN f ELSE g]

\* Two file appenders: filters from 0 and from 1, ids out of range, an unknown
\* level, sizes with units, a section of no known type between.
FilesInOrder ==
  [levels |-> AtBoth(0, "info", 1, "emerg"),
   appenders |-> <<"log1", "none", "log2">>,
   sections |->
     [log1 |-> [type |-> "file", filepath |-> "a", max_size |-> Size(3, "k"), max_loop |-> Num(3),
                flags |-> [enable_tid |-> "true", disable_pid |-> "no"],
                filters |-> AtBoth(0, [mods |-> <<Num(1), Num(9)>>, levels |-> <<"notice", "err">>],
                                   1, [tags |-> <<Num(1)>>, levels |-> <<"loud">>])],
      none |-> [type |-> "pipe"],
      log2 |-> [type |-> "file", filepath |-> "b", max_size |-> Size(2, "m"), max_days |-> Num(5),
                daily |-> "yes",
                filters |-> AtBoth(1, [mods |-> <<Num(0)>>], 2, [mods |-> <<Num(2)>>])]]]

\* The syslog appender with its own filters, one of which has no facility, and a
\* file appender that is listed twice, with a size that overflows.
FilesSyslog ==
  [levels |-> At(2, "loud"),
   appenders |-> <<"log3", "log4", "log4">>,
   sections |->
     [log3 |-> [type |-> "syslog", option |-> <<"pid">>, facility |-> "user",
                override_facility |-> "true",
                flags |-> [enable_tid |-> "on"],
                facility_filters |-> AtBoth(1, [facility |-> "mail", mods |-> <<Num(1)>>],
                                            2, [facility |-> "kern", tags |-> <<Num(1)>>])],
      log4 |-> [type |-> "file", filepath |-> "c", max_size |-> Size(2, "g"), disable_async |-> Num(1),
                filters |-> Empty]]]

\* A number too large for strtol before filters and a list that is emptied by it.
FilesTooLarge ==
  [levels |-> At(1, "debug"),
   appenders |-> <<"log5", "log6">>,
   sections |->
     [log5 |-> [type |-> "file", filepath |-> "d", max_size |-> Num(60000),
                filters |-> At(0, [mods |-> <<Num(1)>>])],
      log6 |-> [type |-> "syslog",
                filters |-> At(0, [mods |-> <<Num(1)>>, tags |-> <<Num(0), Num(99999), Num(1)>>])]]]

\* A good file by itself.
MCGoodFiles == {FilesInOrder}

MCFiles == {FilesInOrder, FilesSyslog, FilesTooLarge}
===============================================================================
