----------------------------- MODULE MCLogMessage -----------------------------
(* Two threads and three blocks.  The calls have texts that fit, that are too  *)
(* long with the cut right behind a separator, and none.                       *)
EXTENDS LogMessage, TLC

CONSTANTS i1, i2, i3, t1, t2

MCItems == {i1, i2, i3}
MCThreads == {t1, t2}
MCSymmetry == Permutations(MCItems) \union Permutations(MCThreads)

MCLengths == 2 .. 4

MCCalls ==
  {[file |-> Path(20, {4, 12}), func |-> 63, size |-> 2, digits |-> 1],
   [file |-> Path(300, {1, 127, 200}), func |-> Null, size |-> 4, digits |-> 11],
   [file |-> Null, func |-> 100, size |-> 3, digits |-> 11]}

\* A name that fits an item, one that does not, one that ends in a separator.
MCNames == {Path(40, {4, 9}), Path(140, {}), Path(5, {5})}

Disabled == {"disable_time", "disable_pid", "disable_level"}

\* The default, everything, nothing but the place in its forms, nothing at all.
MCFlagSets ==
  {{}, HeaderFlags \ Disabled, HeaderFlags \ {"enable_fullpath"}, Disabled \union {"enable_file"},
   Disabled \union {"enable_func", "enable_mod"}, Disabled}

\* No character, the first field with and without a byte to spare, the middle of
\* others, the buffer of the appenders.
MCBufferSizes == {1, 25, 26, 60, HeaderBufSize}
===============================================================================
