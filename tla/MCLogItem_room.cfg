\* Item pool: is there room for the terminator of a long message?
CONSTANTS
  i1 = i1
  i2 = i2
  i3 = i3
  i4 = i4
  Items <- MCItems
  Lengths <- MCLengths
  DefSize = 3
  PoolSize = 2
  IntMax = 3
SYMMETRY MCSymmetry
SPECIFICATION ItemSpec
INVARIANTS
  MessageFits
CHECK_DEADLOCK FALSE
