SPECIFICATION Spec
CONSTANTS
  Managers = {m1, m2}
  Keys = {k1}
  Fields = {f1}
  Prices <- CloseRates
  Requests = {r1, r2}
  MaxStarts = 6
  MaxListings = 1
  Edited = {1}
  Patched = {"active"}
SYMMETRY Symmetric
INVARIANTS
  DayPriceAlwaysOrdered
CHECK_DEADLOCK FALSE
