SPECIFICATION Spec
CONSTANTS
  Copy = {s1, s2}
  First = s1
  Filter = {f1, f2}
  Nil = Nil
  MaxFilters = 5
INVARIANTS
  TypeOK
  EarlyFiltersKept
  NoHoles
SYMMETRY Filters
CHECK_DEADLOCK FALSE
