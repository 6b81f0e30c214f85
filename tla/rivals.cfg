SPECIFICATION SpecA
CONSTANTS
  a1 = a1
  m1 = m1
  NoLimit = NoLimit
  Leads = {l1, l2}
  Properties = {p1}
  Agents = {a1}
  Managers = {m1}
  AgentOf <- OneAgent
  ManagerOf <- OneManager
  Stays <- TwoStays
  Rates = {1, 2}
  B2BRate <- Floor1
  Fits <- EveryFit
  BidLimit <- FreeBids
  AcceptLimit <- FreeAccepts
  MonthLength = 2
  Horizon = 1
  MaxEdits = 1
  Managed = {}
  BlockRanges <- FirstDay
  NewRates = {}
SYMMETRY LeadSymmetry
INVARIANTS
  LiveBidsKeepLeadDates
  LastWordIsTrue
  UnlistedBidsWereEarly
PROPERTIES
  AcceptPausesRivals
  RollbackFreesLeadAndRivals
CHECK_DEADLOCK FALSE
