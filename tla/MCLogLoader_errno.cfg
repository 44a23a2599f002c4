\* A load when errno is set: the numbers of its filters are lost.
CONSTANTS
  ModSize = 3
  ModIds <- MCModIds
  LevelIds <- MCLevelIds
  Words <- MCWords
  None = None
  Files <- MCGoodFiles
  TagSize = 2
  IntMax = 127
  LongMax = 32767
  Kilo = 4
  MaxLoads = 1
  MaxFailures = 0
SPECIFICATION LoadSpec
INVARIANTS
  OnlyMatching
