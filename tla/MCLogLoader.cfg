\* Loading three kinds of files, with an int of 8 bits and Kilo = 4: 2m fits, 2g does not.
CONSTANTS
  ModSize = 3
  ModIds <- MCModIds
  LevelIds <- MCLevelIds
  Words <- MCWords
  None = None
  Files <- MCFiles
  TagSize = 2
  IntMax = 127
  LongMax = 32767
  Kilo = 4
  MaxLoads = 2
  MaxFailures = 1
SPECIFICATION LoadSpec
INVARIANTS
  LoaderTypeOK
  ChecksThreshold
  RoutesAsWritten
  SettingsAsWritten
  SyslogStaysSync
  LoadsAllListed
