\* Every sequence of filter calls with up to two filters.
CONSTANTS
  ModBytes = 2
  TagBytes = 1
  LevelBytes = 1
  ModIds <- MCModIds
  TagIds <- MCTagIds
  LevelIds <- MCLevelIds
  Words <- MCWords
  NoExtend = NoExtend
  MaxFilters = 2
SPECIFICATION Spec
INVARIANTS
  TypeOK
  DecidesAsRoute
PROPERTY ImplementsRoute
