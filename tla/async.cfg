\* A radio capability, a preferred network, a radio power and a facility lock on two
\* SIMs, or two radio capabilities of one SIM and a preferred network of the other.
SPECIFICATION FairSpec
CONSTANTS
  sim1 = sim1
  sim2 = sim2
  rc = rc
  rc2 = rc2
  pn = pn
  p1 = p1
  f1 = f1
  RIL_SOCKET_1 = sim1
  RIL_SOCKET_2 = sim2
  Requests = {rc, rc2, pn, p1, f1}
  SimOf <- MCSimOf
  ThreadOf <- MCThreadOf
  KindOf <- MCKindOf
  MaxRetries = 1
  Free = Free
CONSTRAINT OneScenario
INVARIANTS RadioPowerExclusive CompletedOnce
PROPERTY EveryRequestCompleted
CHECK_DEADLOCK FALSE
