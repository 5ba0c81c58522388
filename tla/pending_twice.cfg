SPECIFICATION FairSpec
CONSTANTS
  sim1 = sim1
  sim2 = sim2
  r1 = r1
  r2 = r2
  r3 = r3
  c1 = c1
  c2 = c2
  c3 = c3
  d1 = d1
  Sims <- MCSims
  Requests = {r1, r2, r3}
  SimOf <- MCSimOf
  NoAddr = NoAddr
  NoReq = NoReq
  Addrs = {a1, a2}
  Calls = {c1, c2, c3, d1}
  ForRequest <- MCForTwice
INVARIANTS ListedAreLive OneOwner
PROPERTY ImplementsService
CHECK_DEADLOCK FALSE
