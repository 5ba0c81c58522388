\* Two data calls of SIM 2 end while SIM 1 turns its radio on.
SPECIFICATION FairSpec
CONSTANTS
  on1 = on1
  on2 = on2
  off1 = off1
  rc1 = rc1
  rd1 = rd1
  em2 = em2
  da2 = da2
  db2 = db2
  al1 = al1
  al2 = al2
  NoOne = NoOne
  Requests = {on1, on2, da2, db2}
  SimOf <- MCSimOf
  KindOf <- MCKindOf
  ChannelsPerSim = 2
  BusySims = {}
  CommandsFail = FALSE
PROPERTIES EveryRequestCompleted
CHECK_DEADLOCK FALSE
