SPECIFICATION Spec
CONSTANTS
  n1 = n1
  n2 = n2
  ann = ann
  Numbers = {n1, n2}
  Spellings = {"local", "international", "trunk", "none"}
  Addresses = {ann}
  NoPhone = NoPhone
  Imports = {j1, j2}
  SheetBatches <- Sheets
  SyncBatches <- Syncs
  Resorts <- Map
  MaxResults = 2
  Radii = {139}
  Outages <- Failures
  Registrants <- People
  PhoneChanges <- Changes
  MaxListed = 2
INVARIANTS
  OneListingPerOwner
  ImportedManagersList
  CountsAreTrue
  SkippedOwnersAreUsers
  PreviewHidesNothing
PROPERTIES
  BatchesEnd
CHECK_DEADLOCK FALSE
