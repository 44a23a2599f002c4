\* Are the filters cleared?
CONSTANTS
  Appenders = {a1}
  NoAppender = NoAppender
  Facilities <- MCFacilities
  Filters <- MCFilters
  Words <- MCWords
  MaxFilters = 1
SPECIFICATION Spec
INVARIANTS
  FiltersCleared
\* A crash is an end.
CHECK_DEADLOCK FALSE
