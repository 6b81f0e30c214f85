SPECIFICATION Spec
CONSTANTS
  ann = ann
  bob = bob
  b1 = b1
  People = {ann, bob}
  Bids = {b1}
  AgentOf <- Agents
  ManagerOf <- Managers
  RolesOf <- HeldRoles
  Requests = {r1, r2}
  Decisions = {"bid_countered"}
  MaxNotes = 3
  MaxMessages = 1
SYMMETRY Symmetric
INVARIANTS
  ReadMessagesWereShown
  NothingMarkedBlindly
  InboxKeepsUpWithMail
CHECK_DEADLOCK FALSE
