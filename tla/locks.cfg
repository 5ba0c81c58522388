\* SIM 2 turns its radio on and a data call of it ends; SIM 1 turns its radio off,
\* applies a capability and allows data; commands may fail.
SPECIFICATION FairSpec
CONSTANTS
  on1 = on1
  on2 = on2
  off1 = off1
  rc1 = rc1
  rd1 = rd1
  em2 = em2
  da2 = da2
  db2 = db2
  al1 = al1
  al2 = al2
  NoOne = NoOne
  Requests = {on2, off1, rc1, da2, al1}
  SimOf <- MCSimOf
  KindOf <- MCKindOf
  ChannelsPerSim = 2
  BusySims = {1, 2}
  CommandsFail = TRUE
INVARIANTS RestartIsAlone NothingKept
PROPERTIES EveryRequestCompleted
CHECK_DEADLOCK FALSE
