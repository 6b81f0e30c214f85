SPECIFICATION SpecR
CONSTANTS
  a1 = a1
  m1 = m1
  NoLimit = NoLimit
  Leads = {l1}
  Properties = {p1, p2}
  Agents = {a1}
  Managers = {m1}
  AgentOf <- OneAgent
  ManagerOf <- OneManager
  Stays <- TwoStays
  Rates = {1, 2}
  B2BRate <- Floor1
  Fits <- EveryFit
  BidLimit <- FreeBids
  AcceptLimit <- FreeAccepts
  MonthLength = 2
  Horizon = 1
  Managed = {}
  BlockRanges <- NoDays
  NewRates = {}
  SlowHandlers <- EverySlow
  MaxBetween = 2
SYMMETRY PropertySymmetry
INVARIANTS
  BookedIffConfirmed
PROPERTIES
  DatesPartOnlyFromOldRows
  ClosedLeadReturnsOnlyFromOldRows
CHECK_DEADLOCK FALSE
