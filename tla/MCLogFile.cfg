\* Rotation by size among two backups, by day with days that begin at an odd
\* hour of the clock, by size with backups kept for a day; crashes, failing
\* calls and logrotate.
CONSTANTS
  Options <- MCOptions
  DayLength = 2
  Timezone = 1
  MaxFaults = 1
SPECIFICATION Spec
INVARIANTS
  TypeOK
  Chronological
  OldestLost
  SizeBound
  OneDay
  WritesLogFile
  OnlyExpiredLost
\* The messages may be used up.
CHECK_DEADLOCK FALSE
