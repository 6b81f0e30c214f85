SPECIFICATION FairSpecQ
CONSTANTS
  a1 = a1
  m1 = m1
  NoLimit = NoLimit
  Leads = {l1, l2}
  Properties = {p1}
  Agents = {a1}
  Managers = {m1}
  AgentOf <- OneAgent
  ManagerOf <- OneManager
  Stays <- OneStay
  Rates = {1}
  B2BRate <- Floor1
  Fits <- EveryFit
  BidLimit <- OneBid
  AcceptLimit <- OneAccept
  MonthLength = 2
  Horizon = 3
  Managed = {p1}
  BlockRanges <- FirstDay
  NewRates = {}
INVARIANTS
  NewBidsWithinPlan
  AcceptancesWithinPlan
PROPERTIES
  ClosedLeadStaysClosed
  OverdueLeadsExpire
CHECK_DEADLOCK FALSE
