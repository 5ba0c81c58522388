\* One SIM and one request thread; modemd may speak at any moment.
SPECIFICATION FairSpec
CONSTANTS
  sim1 = sim1
  thread1 = thread1
  thread2 = thread2
  Sims = {sim1}
  Threads = {thread1}
  SimOf <- OneSim
  Channels = {channel1, channel2}
  MaxOpens = 2
  MaxMessages = 3
  MaxRequests = 2
INVARIANTS UnavailableWhileClosed CalmReaderCanBeWoken InitialisedIsHeard
PROPERTIES ReaderDies Reopens
CHECK_DEADLOCK FALSE
