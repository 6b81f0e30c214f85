SPECIFICATION SpecToday
CONSTANTS
  a1 = a1
  m1 = m1
  NoLimit = NoLimit
  Leads = {l1}
  Properties = {p1, p2}
  Agents = {a1}
  Managers = {m1}
  AgentOf <- OneAgent
  ManagerOf <- OneManager
  Stays <- TwoStays
  Rates = {1, 2, 3}
  B2BRate <- Floor2
  Fits <- EveryFit
  BidLimit <- FreeBids
  AcceptLimit <- FreeAccepts
  MonthLength = 2
  Horizon = 1
  Managed = {p1}
  BlockRanges <- NoDays
  NewRates = {3}
INVARIANTS
  BookedLeadIsSettled
  BookingFollowsBid
  NoDealBelowFloor
PROPERTIES
  ImplementsPaymentFlow
  OnlyOldPaymentsBookAgain
CHECK_DEADLOCK FALSE
