-------------------------- MODULE MCRequestThreads --------------------------
(* Small instances of RequestThreads: a request is <<SIM, kind, number>>,  *)
(* a channel <<SIM, number>>.                                              *)
EXTENDS RequestThreads

TwoSims == {1, 2}

\* Both lists of one SIM's normal thread, and two SIMs that share the data thread.
RequestsTwoSims ==
    {<<1, "call", 1>>, <<1, "simIO", 1>>, <<1, "setupData", 1>>,
     <<2, "setupData", 1>>}

MCSimOf        == [r \in Requests |-> r[1]]
MCKindOf       == [r \in Requests |-> r[2]]
MCChannelSim   == [c \in Channels |-> c[1]]

\* Three threads of one SIM that compete for a single channel.
RequestsOneChannel == {<<1, "simIO", 1>>, <<1, "slow", 1>>, <<1, "other", 1>>}

\* Two requests of the slow thread whose answers may be left to a line: the second
\* may be answered before the first.
RequestsDeferred == {<<1, "slow", 2>>, <<1, "slow", 3>>}

\* The requests of one behaviour come from one of the three sets.  Only the call
\* of enqueueRequest is cut off by this, to which fairness owes nothing.
OneScenario ==
    \E S \in {RequestsTwoSims, RequestsOneChannel, RequestsDeferred} : submitted \subseteq S

MCRequests     == RequestsTwoSims \cup RequestsOneChannel \cup RequestsDeferred
OneChannelEach == {<<1, 1>>, <<2, 1>>}
=============================================================================
