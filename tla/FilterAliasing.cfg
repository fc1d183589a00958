SPECIFICATION Spec
CONSTANTS
  Copy = {s1, s2}
  First = s1
  Filter = {f1, f2}
  Nil = Nil
  MaxFilters = 5
INVARIANTS
  ChainAsRegistered
SYMMETRY Filters
CHECK_DEADLOCK FALSE
