\* Item pool: three freed blocks exceed the limit of two.
CONSTANTS
  i1 = i1
  i2 = i2
  i3 = i3
  i4 = i4
  Items <- MCItems
  Lengths <- MCLengths
  DefSize = 3
  PoolSize = 2
  IntMax = 3
SYMMETRY MCSymmetry
SPECIFICATION ItemSpec
INVARIANTS
  PoolBounded
CHECK_DEADLOCK FALSE
