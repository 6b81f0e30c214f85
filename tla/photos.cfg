SPECIFICATION Spec
CONSTANTS
  NoPhoto = NoPhoto
  Photos = {f1, f2, f3}
  Requests = {r1, r2, r3}
SYMMETRY Symmetric
INVARIANTS
  RowsHaveFiles
  NoStrayFiles
  OnePrimary
  UndeletedHasPrimary
CHECK_DEADLOCK FALSE
