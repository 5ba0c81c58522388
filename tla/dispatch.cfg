\* Two SIMs with a channel each: SIM 1's normal thread and the data thread both SIMs
\* share, or three threads of SIM 1; and a modem restart that reopens the channels.
SPECIFICATION FairSpec
CONSTANTS
    Sims <- TwoSims
    RIL_SOCKET_1 = 1
    Requests <- MCRequests
    SimOf <- MCSimOf
    KindOf <- MCKindOf
    Deferrable <- RequestsDeferred
    Channels <- OneChannelEach
    ChannelSim <- MCChannelSim
    Workers = {w1}
    LLVersion = FALSE
    MaxOpens = 2
    NoReq = NoReq
    NoChannel = NoChannel
CONSTRAINT OneScenario
INVARIANTS NoLostWakeup ChannelsAccounted DataRequestsOneAtATime
PROPERTIES ImplementsService EveryRequestAnswered
CHECK_DEADLOCK FALSE
