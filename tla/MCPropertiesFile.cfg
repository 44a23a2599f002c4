\* All files of up to seven elements.
CONSTANTS
  MaxElements = 7
SPECIFICATION Spec
INVARIANTS
  TypeOK
  ReadsAsWritten
\* The file has an end.
CHECK_DEADLOCK FALSE
