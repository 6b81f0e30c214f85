SPECIFICATION Spec
CONSTANTS
  Managers = {m1, m2}
  Keys = {k1}
  Fields = {f1}
  Prices <- FewPrices
  Requests = {r1, r2}
  MaxStarts = 4
  MaxListings = 2
  Edited = {1}
  Patched = {"active"}
SYMMETRY Symmetric
INVARIANTS
  OneListingPerKey
  PublishedIsComplete
  DayPriceKeepsFloor
PROPERTIES
  HiddenFieldsStayUnset
CHECK_DEADLOCK FALSE
