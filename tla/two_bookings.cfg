SPECIFICATION Spec
CONSTANTS
  a1 = a1
  m1 = m1
  NoLimit = NoLimit
  Leads = {l1}
  Properties = {p1, p2}
  Agents = {a1}
  Managers = {m1}
  AgentOf <- OneAgent
  ManagerOf <- OneManager
  Stays <- OneStay
  Rates = {1}
  B2BRate <- Floor1
  Fits <- EveryFit
  BidLimit <- FreeBids
  AcceptLimit <- FreeAccepts
  MonthLength = 2
  Horizon = 1
  Managed = {}
  BlockRanges <- FirstDay
  NewRates = {}
INVARIANTS
  OneBookingPerLead
CHECK_DEADLOCK FALSE
