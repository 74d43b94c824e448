SPECIFICATION Spec
CONSTANTS
  Readers = {r}
  Ids = {i, j}
  Values = {v, w}
  Dims = 3
  Filters <- MCFilters
  All = All
  None = None
  Pending = Pending
  MaxChanges = 3
SYMMETRY Symmetry
INVARIANTS TypeOK NoDeadBranches
PROPERTIES WritesShareTheRest ImplementsPointInTime
