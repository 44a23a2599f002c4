------------------------------- MODULE MCLogFile -------------------------------
(* Appenders with one way of rotation each, for TLC.  The bounds let every  *)
(* backup number be taken and the oldest be given up: two messages fill a   *)
(* file, and two backups are kept.                                          *)
EXTENDS LogFile

Plain ==
  [max_size |-> 0, max_days |-> 0, max_loop |-> 2, daily |-> FALSE, fd_zero |-> FALSE,
   time |-> 0, lines |-> 0]

BySize == [Plain EXCEPT !.max_size = 1, !.lines = 8]
ByDay == [Plain EXCEPT !.daily = TRUE, !.time = 5, !.lines = 4]
ForDays == [Plain EXCEPT !.max_size = 1, !.max_days = 1, !.time = 4, !.lines = 5]
OnStdin == [Plain EXCEPT !.fd_zero = TRUE, !.lines = 3]

MCOptions == {BySize, ByDay, ForDays, OnStdin}
=============================================================================
