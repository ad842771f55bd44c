SPECIFICATION Spec
CONSTANTS
  boss = boss
  agent = agent
  customer = customer
  Staff = {boss, agent}
  Clients = {customer}
  Role <- MCRole
  Attempts = {a1, a2, a3, a4, a5}
  Casts <- MCCasts
  Visits = {v1, v2}
  MaxFailed = 1
  Window = 1
  SessionTtl = 0
  Parallel = 2
  MaxTime = 1
  None = None
SYMMETRY LoginSymmetry
CHECK_DEADLOCK FALSE
INVARIANTS
  TypeOK
  GuessesBounded
  LockedForFailures
PROPERTIES
  DisabledGoesQuiet
  CommandsEntitled
