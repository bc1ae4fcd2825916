SPECIFICATION Spec
CONSTANTS
  Entries <- MCEntries
  Writers = {w1, w2}
  Readers = {p1}
  Filters <- MCFilters
  Limits = {1, 2}
  None = None
  MaxId = 4
SYMMETRY Symmetric
INVARIANTS
  TypeOK
  PagesComplete
PROPERTIES
  ImplementsContract
