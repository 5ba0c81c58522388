--------------------------- MODULE RequestThreads ---------------------------
(***************************************************************************)
(* The request scheduler of libril_threads/request_threads.c together with *)
(* the frame of processRequest in sprd-ril/sprd_ril.c.                     *)
(*                                                                         *)
(* enqueueRequest puts a request on one of the lists of its SIM and        *)
(* signals the dispatch thread of that list.  The slow, normal and data    *)
(* dispatch threads process the requests of their lists one at a time and  *)
(* take a request off its list only after it is processed; the other       *)
(* dispatch thread hands each request to a pool of workers.  Whoever       *)
(* processes a request borrows one of the AT channels of the SIM.          *)
(*                                                                         *)
(* Data abstracted: a request is its SIM and the class getCmdType gives    *)
(* it; what a handler does between getChannel and its return is one step,  *)
(* by which it has answered the request or has left the answer to an       *)
(* unsolicited line or a timer (module AsyncCmd).  answered says that a    *)
(* request was given to RIL_onRequestComplete; how often is a question to  *)
(* AsyncCmd and RequestTrip.  The mutexes are the atomicity of the         *)
(* actions.  The check for an empty list and pthread_cond_wait are one     *)
(* action because both run under the dispatch mutex, which the signaller   *)
(* needs.                                                                  *)
(***************************************************************************)
EXTENDS Naturals, Sequences, FiniteSets

CONSTANTS Sims,         \* the sockets, one per SIM
          RIL_SOCKET_1, \* the first of them; its mutex guards the data list
          Requests,     \* the requests of one run
          SimOf,        \* [Requests -> Sims]
          KindOf,       \* [Requests -> Kinds]: what the request is
          Deferrable,   \* those a line or a timer may answer: "FD" in
                        \* SET_FACILITY_LOCK, SET_PREFERRED_NETWORK_TYPE
                        \* and SET_RADIO_CAPABILITY
          Channels,     \* the AT channels getChannel hands out
          ChannelSim,   \* [Channels -> Sims]: whose channel it is
          Workers,      \* names of the CommandThreads of each SIM (MAX_THR)
          LLVersion,    \* isLLVersion(): both SIMs run a full LTE stack
          MaxOpens,     \* bound: how often mainLoop (re)opens the channels
          NoReq, NoChannel

Kinds == {"slow", "call", "simIO", "setupData", "deactivateData", "other"}

ASSUME RequestThreadsAssumption ==
    /\ RIL_SOCKET_1 \in Sims
    /\ SimOf \in [Requests -> Sims]
    /\ KindOf \in [Requests -> Kinds]
    /\ Deferrable \subseteq {r \in Requests : KindOf[r] \in {"slow", "call"}}
    /\ ChannelSim \in [Channels -> Sims]
    /\ Workers \cap {"slow", "normal", "data", "otherDispatch"} = {}
    /\ LLVersion \in BOOLEAN
    /\ MaxOpens \in Nat
    /\ NoReq \notin Requests
    /\ NoChannel \notin Channels

MultiSim == Sims # {RIL_SOCKET_1}

-----------------------------------------------------------------------------
(* The class of a request and the list it goes to.                         *)

\* Data requests are slow requests of their SIM, however many SIMs there are.
CmdTypeIgnoresSimCount(k) ==
    CASE k \in {"slow", "setupData"}       -> "SLOW"
      [] k = "call"                        -> "NORMAL_FAST"
      [] k = "simIO"                       -> "NORMAL_SLOW"
      [] k \in {"deactivateData", "other"} -> "OTHER"

getCmdType(k) ==
    CASE k = "slow"           -> "SLOW"
      [] k = "call"           -> "NORMAL_FAST"
      [] k = "simIO"          -> "NORMAL_SLOW"
      [] k = "setupData"      -> IF MultiSim THEN "DATA" ELSE "SLOW"
      [] k = "deactivateData" -> IF LLVersion /\ MultiSim THEN "DATA" ELSE "OTHER"
      [] k = "other"          -> "OTHER"

DataList  == <<RIL_SOCKET_1, "data">>
OwnLists  == Sims \X {"slow", "call", "sim", "other"}
Lists     == OwnLists \cup {DataList}

ListOf(r) ==
    LET t == getCmdType(KindOf[r]) IN
    CASE t = "SLOW"        -> <<SimOf[r], "slow">>
      [] t = "NORMAL_FAST" -> <<SimOf[r], "call">>
      [] t = "NORMAL_SLOW" -> <<SimOf[r], "sim">>
      [] t = "DATA"        -> DataList
      [] t = "OTHER"       -> <<SimOf[r], "other">>

(* The dispatch threads, the lists each serves and the workers.            *)
Serial      == (Sims \X {"slow", "normal"}) \cup {DataList}
Others      == Sims \X {"otherDispatch"}
Pool        == Sims \X Workers
Dispatchers == Serial \cup Others
Processors  == Serial \cup Pool     \* the threads that run processRequest
Threads     == Dispatchers \cup Pool

Serves(t) ==
    CASE t[2] = "slow"          -> {<<t[1], "slow">>}
      [] t[2] = "normal"        -> {<<t[1], "call">>, <<t[1], "sim">>}
      [] t[2] = "data"          -> {DataList}
      [] t[2] = "otherDispatch" -> {<<t[1], "other">>}

-----------------------------------------------------------------------------
VARIABLES list,       \* [Lists -> Seq(Requests)]: the linked lists
          submitted,  \* requests enqueueRequest has put on a list
          signalling, \* those whose enqueueRequest has not signalled yet
          pc,         \* [Threads -> control state]
          cur,        \* [Threads -> request]: cmd_item
          poolQueue,  \* [Sims -> Seq(Requests)]: queue_head of the pool
          idle,       \* SUBSET Channels: those in state CHANNEL_IDLE
          chanOf,     \* [Processors -> Channels \cup {NoChannel}]: channelID
          open,       \* SUBSET Sims: s_channelOpen
          opens,      \* how often mainLoop has opened the channels
          deferred,   \* requests whose handler returned without an answer
          answered    \* requests given to RIL_onRequestComplete

vars == <<list, submitted, signalling, pc, cur, poolQueue, idle, chanOf, open,
          opens, deferred, answered>>

listVars   == <<list, submitted, signalling>>
chanVars   == <<idle, chanOf, open, opens>>
answerVars == <<deferred, answered>>

PCs == {"check", "wait", "select", "dispatch", "begin", "getChannel", "run",
        "putChannel", "remove", "idle"}

TypeOK ==
    /\ list \in [Lists -> Seq(Requests)]
    /\ submitted \in SUBSET Requests
    /\ signalling \in SUBSET submitted
    /\ pc \in [Threads -> PCs]
    /\ cur \in [Threads -> Requests \cup {NoReq}]
    /\ poolQueue \in [Sims -> Seq(Requests)]
    /\ idle \in SUBSET Channels
    /\ chanOf \in [Processors -> Channels \cup {NoChannel}]
    /\ open \in SUBSET Sims
    /\ opens \in 0 .. MaxOpens
    /\ deferred \in SUBSET submitted
    /\ answered \in SUBSET submitted

(* requestThreadsInit: the lists are empty, no channel is open, and every  *)
(* dispatch thread has been through its first check and sleeps.            *)
Init ==
    /\ list = [l \in Lists |-> <<>>]
    /\ submitted = {}
    /\ signalling = {}
    /\ pc = [t \in Threads |-> IF t \in Pool THEN "idle" ELSE "wait"]
    /\ cur = [t \in Threads |-> NoReq]
    /\ poolQueue = [s \in Sims |-> <<>>]
    /\ idle = Channels
    /\ chanOf = [t \in Processors |-> NoChannel]
    /\ open = {}
    /\ opens = 0
    /\ deferred = {}
    /\ answered = {}

Move(t, from, to) == pc[t] = from /\ pc' = [pc EXCEPT ![t] = to]

Pending(t) == {l \in Serves(t) : list[l] # <<>>}

\* The call list is looked at before the SIM list.
Preferred(t) ==
    IF <<t[1], "call">> \in Pending(t) THEN {<<t[1], "call">>} ELSE Pending(t)

AfterProcess(t) == IF t \in Pool THEN "idle" ELSE "remove"

\* cmd_item stays set until request_list_remove; a worker frees its request.
Done(t) == cur' = IF t \in Pool THEN [cur EXCEPT ![t] = NoReq] ELSE cur

-----------------------------------------------------------------------------
(* Plausible mistakes in the operations below; the mutants of PROJECT.json *)
(* put each in the place of the operation it varies.                       *)

\* normalDispatch decides to wait by looking at the first of its lists only.
CheckFirstListOnly(t) ==
    /\ IF {l \in Pending(t) : l[2] # "sim"} = {}
       THEN Move(t, "check", "wait")
       ELSE Move(t, "check", "select")
    /\ UNCHANGED <<listVars, cur, poolQueue, chanVars, answerVars>>

\* getChannel tests the state and sets it without holding the channel mutex:
\* another thread may have seen it idle as well.
GetChannelUnlocked(t) ==
    /\ Move(t, "getChannel", "run")
    /\ SimOf[cur[t]] \in open
    /\ \E c \in Channels :
          /\ ChannelSim[c] = SimOf[cur[t]]
          /\ c \in idle \/ \E u \in Processors : chanOf[u] = c /\ pc[u] = "run"
          /\ idle' = idle \ {c}
          /\ chanOf' = [chanOf EXCEPT ![t] = c]
    /\ UNCHANGED <<listVars, cur, poolQueue, open, opens, answerVars>>

\* enqueueRequest adds at the head (request_list_add_head exists, unused).
AddHead(r) ==
    /\ r \notin submitted
    /\ submitted' = submitted \cup {r}
    /\ list' = [list EXCEPT ![ListOf(r)] = <<r>> \o @]
    /\ signalling' = signalling \cup {r}
    /\ UNCHANGED <<pc, cur, poolQueue, chanVars, answerVars>>

\* The early returns of processRequest leave without releasing the channel.
PutChannelForgotten(t) ==
    /\ Move(t, "putChannel", AfterProcess(t))
    /\ chanOf' = [chanOf EXCEPT ![t] = NoChannel]
    /\ Done(t)
    /\ UNCHANGED <<listVars, poolQueue, idle, open, opens, answerVars>>

-----------------------------------------------------------------------------
(* enqueueRequest: the node is added under the list mutex and only then is *)
(* the dispatch thread signalled under the dispatch mutex.                 *)

request_list_add_tail(r) ==
    /\ r \notin submitted
    /\ submitted' = submitted \cup {r}
    /\ list' = [list EXCEPT ![ListOf(r)] = Append(@, r)]
    /\ signalling' = signalling \cup {r}
    /\ UNCHANGED <<pc, cur, poolQueue, chanVars, answerVars>>

signalDispatch(r) ==
    /\ r \in signalling
    /\ signalling' = signalling \ {r}
    /\ \E t \in Dispatchers :
          /\ ListOf(r) \in Serves(t)
          /\ pc' = [pc EXCEPT ![t] = IF @ = "wait" THEN "select" ELSE @]
    /\ UNCHANGED <<list, submitted, cur, poolQueue, chanVars, answerVars>>

(* The dispatch loop: wait while there is nothing to do, then drain.       *)

checkLists(t) ==
    /\ IF Pending(t) = {} THEN Move(t, "check", "wait")
                          ELSE Move(t, "check", "select")
    /\ UNCHANGED <<listVars, cur, poolQueue, chanVars, answerVars>>

\* pthread_cond_wait may return without a signal; the wait is under an if.  A
\* thread woken with nothing to do goes straight back to sleep: left out.
spuriousWakeup(t) ==
    /\ Pending(t) # {}
    /\ Move(t, "wait", "select")
    /\ UNCHANGED <<listVars, cur, poolQueue, chanVars, answerVars>>

selectRequest(t) ==
    /\ pc[t] = "select"
    /\ IF Pending(t) = {}
       THEN /\ pc' = [pc EXCEPT ![t] = "check"]
            /\ UNCHANGED cur
       ELSE \E l \in Preferred(t) :
            /\ cur' = [cur EXCEPT ![t] = Head(list[l])]
            /\ pc' = [pc EXCEPT ![t] =
                          IF t \in Others THEN "dispatch" ELSE "begin"]
    /\ UNCHANGED <<listVars, poolQueue, chanVars, answerVars>>

\* thread_pool_dispatch from otherDispatch (module ThreadPool has the pool).
dispatchToPool(t) ==
    /\ Move(t, "dispatch", "remove")
    /\ poolQueue' = [poolQueue EXCEPT ![t[1]] = Append(@, cur[t])]
    /\ UNCHANGED <<listVars, cur, chanVars, answerVars>>

\* The list without its i-th node.
Unlinked(s, i) == [j \in 1 .. Len(s) - 1 |-> IF j < i THEN s[j] ELSE s[j + 1]]

request_list_remove(t) ==
    /\ Move(t, "remove", "select")
    /\ \E i \in DOMAIN list[ListOf(cur[t])] :
          /\ list[ListOf(cur[t])][i] = cur[t]
          /\ list' = [list EXCEPT ![ListOf(cur[t])] = Unlinked(@, i)]
    /\ cur' = [cur EXCEPT ![t] = NoReq]
    /\ UNCHANGED <<submitted, signalling, poolQueue, chanVars, answerVars>>

CommandThread(t) ==
    /\ Move(t, "idle", "begin")
    /\ poolQueue[t[1]] # <<>>
    /\ cur' = [cur EXCEPT ![t] = Head(poolQueue[t[1]])]
    /\ poolQueue' = [poolQueue EXCEPT ![t[1]] = Tail(@)]
    /\ UNCHANGED <<listVars, chanVars, answerVars>>

-----------------------------------------------------------------------------
(* processRequest: a request the code does not support, or cannot serve in *)
(* the present radio or modem state, is answered at once; any other gets a *)
(* channel, is handled, and gives the channel back.                        *)

rejectRequest(t) ==
    /\ Move(t, "begin", AfterProcess(t))
    /\ answered' = answered \cup {cur[t]}
    /\ Done(t)
    /\ UNCHANGED <<listVars, poolQueue, chanVars, deferred>>

admitRequest(t) ==
    /\ Move(t, "begin", "getChannel")
    /\ UNCHANGED <<listVars, cur, poolQueue, chanVars, answerVars>>

getChannel(t) ==
    /\ Move(t, "getChannel", "run")
    /\ SimOf[cur[t]] \in open
    /\ \E c \in idle :
          /\ ChannelSim[c] = SimOf[cur[t]]
          /\ idle' = idle \ {c}
          /\ chanOf' = [chanOf EXCEPT ![t] = c]
    /\ UNCHANGED <<listVars, cur, poolQueue, open, opens, answerVars>>

\* The request is answered before processRequest releases the channel: by its
\* handler, or by a line that comes before the handler has returned.
handleRequest(t) ==
    /\ Move(t, "run", "putChannel")
    /\ answered' = answered \cup {cur[t]}
    /\ UNCHANGED <<listVars, cur, poolQueue, chanVars, deferred>>

\* The handler returns when the modem has accepted the command; the request is
\* on s_timerList and not answered yet.
deferAnswer(t) ==
    /\ Move(t, "run", "putChannel")
    /\ cur[t] \in Deferrable
    /\ deferred' = deferred \cup {cur[t]}
    /\ UNCHANGED <<listVars, cur, poolQueue, chanVars, answered>>

putChannel(t) ==
    /\ Move(t, "putChannel", AfterProcess(t))
    /\ idle' = idle \cup {chanOf[t]}
    /\ chanOf' = [chanOf EXCEPT ![t] = NoChannel]
    /\ Done(t)
    /\ UNCHANGED <<listVars, poolQueue, open, opens, answerVars>>

-----------------------------------------------------------------------------
(* The reader thread, at the line, or the timer thread answers a request   *)
(* whose handler has returned (module AsyncCmd has the entries).           *)
answerDeferred(r) ==
    /\ r \in deferred \ answered
    /\ answered' = answered \cup {r}
    /\ UNCHANGED <<listVars, pc, cur, poolQueue, chanVars, deferred>>

-----------------------------------------------------------------------------
(* mainLoop opens the ttys of every SIM, first and again after a modem     *)
(* restart: setChannelInfo makes each channel CHANNEL_IDLE whatever its    *)
(* state, then setChannelOpened lets getChannel proceed for good.          *)
setChannelOpened ==
    /\ opens < MaxOpens
    /\ opens' = opens + 1
    /\ idle' = Channels
    /\ open' = Sims
    /\ UNCHANGED <<listVars, pc, cur, poolQueue, chanOf, answerVars>>

-----------------------------------------------------------------------------
processRequest(t) ==
    \/ rejectRequest(t) \/ admitRequest(t) \/ getChannel(t)
    \/ handleRequest(t) \/ deferAnswer(t) \/ putChannel(t)

Dispatch(t) ==
    \/ checkLists(t) \/ selectRequest(t) \/ dispatchToPool(t)
    \/ request_list_remove(t)

Next ==
    \/ \E r \in Requests :
          request_list_add_tail(r) \/ signalDispatch(r) \/ answerDeferred(r)
    \/ \E t \in Dispatchers : Dispatch(t) \/ spuriousWakeup(t)
    \/ \E t \in Pool : CommandThread(t)
    \/ \E t \in Processors : processRequest(t)
    \/ setChannelOpened

Spec == Init /\ [][Next]_vars

(* The scheduler runs every thread that can run; enqueueRequest, once      *)
(* started, goes on to its signal; the channels are opened at least once.  *)
(* A request left to a line is answered by its timer if the line never     *)
(* comes.                                                                  *)
Fairness ==
    /\ \A r \in Requests : WF_vars(signalDispatch(r))
    /\ \A r \in Requests : WF_vars(answerDeferred(r))
    /\ \A t \in Dispatchers : WF_vars(Dispatch(t))
    /\ \A t \in Pool : WF_vars(CommandThread(t))
    /\ \A t \in Processors : WF_vars(processRequest(t))
    /\ WF_vars(setChannelOpened)

FairSpec == Spec /\ Fairness

-----------------------------------------------------------------------------
(* Properties.                                                             *)

InHand(r)    == {t \in Processors : cur[t] = r}
Processing   == {"begin", "getChannel", "run"}

\* No lost wakeup: a dispatch thread sleeps on its condition variable with a
\* non-empty list only while some enqueueRequest is between adding its node and
\* signalling (lines 629-653).
NoLostWakeup ==
    \A t \in Dispatchers :
        pc[t] = "wait" /\ Pending(t) # {} =>
            \E r \in signalling : ListOf(r) \in Serves(t)

\* getChannel and putChannel keep the channels: a channel is CHANNEL_IDLE or
\* borrowed by exactly one thread, of the SIM it belongs to.  This is about one
\* opening of the channels; see the README for what reopening does.
ChannelsAccounted ==
    opens <= 1 =>
      /\ \A c \in Channels :
            (c \in idle) = ({t \in Processors : chanOf[t] = c} = {})
      /\ \A t, u \in Processors :
            chanOf[t] = chanOf[u] /\ t # u => chanOf[t] = NoChannel
      /\ \A t \in Processors :
            /\ (chanOf[t] # NoChannel) = (pc[t] \in {"run", "putChannel"})
            /\ chanOf[t] # NoChannel => ChannelSim[chanOf[t]] = SimOf[cur[t]]

\* On a phone with several SIMs one thread (dataDispatch) serves the data calls
\* of all of them: two SETUP_DATA_CALL or ALLOW_DATA requests are never in
\* progress together, whatever their SIMs; with one SIM the slow thread does it.
DataRequestsOneAtATime ==
    \A t, u \in Processors :
        /\ t # u
        /\ pc[t] \in Processing
        /\ pc[u] \in Processing
        => ~(KindOf[cur[t]] = "setupData" /\ KindOf[cur[u]] = "setupData")

SerialLists == UNION {Serves(t) : t \in Serial}

\* The requests whose handler is done with them.
Served == answered \cup deferred

\* A request that has been served may still be the head of its list.
Unserved(l) ==
    IF list[l] # <<>> /\ Head(list[l]) \in Served THEN Tail(list[l]) ELSE list[l]

Service == INSTANCE RequestService WITH
    Fifos    <- SerialLists,
    FifoOf   <- [r \in Requests |-> ListOf(r)],
    fifo     <- [l \in SerialLists |-> Unserved(l)],
    loose    <- {r \in submitted \ answered :
                    ListOf(r) \notin SerialLists \/ r \in deferred},
    answered <- answered

\* The scheduler implements RequestService: the requests of a list are taken up
\* in the order of submission, and each is answered before the next is taken up
\* unless its handler leaves the answer to a line or a timer (onRequest and
\* enqueueRequest; ril_sim.c:1308-1337, ril_network.c:1953-1958 and 3035-3036).
ImplementsService == Service!Spec

\* "Must be completed with a call to RIL_onRequestComplete()": with a fair
\* scheduler there is always a time at which every request put on a list has
\* been answered, also while the threads of the SIM compete for its channels.
\* The handlers that never answer (neverAnswers of RequestTrip) are outside it.
EveryRequestAnswered == []<>(submitted \subseteq answered)
=============================================================================
