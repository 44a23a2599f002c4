\* Two appenders that share the connection.
CONSTANTS
  Appenders = {a1, a2}
  NoAppender = NoAppender
  Facilities <- MCFacilities
  Filters <- MCFilters
  Words <- MCWords
  MaxFilters = 2
SPECIFICATION Spec
INVARIANTS
  TypeOK
  NoDanglingIdent
  SentWithSeverity
\* A crash is an end.
CHECK_DEADLOCK FALSE
