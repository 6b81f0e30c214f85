SPECIFICATION Spec
CONSTANTS
  Users = {boss, u1}
  EmailOf <- OwnAddresses
  Root = boss
  Codes = {c1, c2}
  Requests = {r1, r2}
  Nobody = Nobody
  NoCode = NoCode
SYMMETRY Symmetric
INVARIANTS
  SpentCodeIsDead
  VerifiedOnce
  ActiveRoleIsHeld
PROPERTY
  LastAdministratorFallsLate
CHECK_DEADLOCK FALSE
