------------------------ MODULE RequestThreadsProofs ------------------------
(***************************************************************************)
(* Proofs about the request scheduler for any number of SIMs, requests,    *)
(* channels and workers and any assignment of requests to classes.         *)
(*                                                                         *)
(* The argument for the channels: a thread holds a channel exactly between *)
(* its getChannel and its putChannel, getChannel takes only an idle one,   *)
(* and before the first opening of the channels nobody holds any.          *)
(***************************************************************************)
EXTENDS RequestThreads, SequenceTheorems, TLAPS

\* A thread holds a channel, of the SIM of its request, while it handles it.
HoldersHaveChannels ==
    \A t \in Processors :
        /\ (chanOf[t] # NoChannel) = (pc[t] \in {"run", "putChannel"})
        /\ chanOf[t] # NoChannel => ChannelSim[chanOf[t]] = SimOf[cur[t]]

\* A thread that processes a request has one.
ProcessorsHaveRequests ==
    \A t \in Threads :
        pc[t] \in {"dispatch", "begin", "getChannel", "run", "putChannel", "remove"}
           => cur[t] \in submitted

ListsHoldSubmitted ==
    /\ \A l \in Lists : \A i \in DOMAIN list[l] : list[l][i] \in submitted
    /\ \A s \in Sims : \A i \in DOMAIN poolQueue[s] : poolQueue[s][i] \in submitted

NothingOpenAtFirst ==
    opens = 0 => open = {} /\ \A t \in Processors : chanOf[t] = NoChannel

TypeInv ==
    /\ TypeOK
    /\ ListsHoldSubmitted
    /\ ProcessorsHaveRequests
    /\ HoldersHaveChannels

ChannelInv == TypeInv /\ NothingOpenAtFirst /\ ChannelsAccounted

-----------------------------------------------------------------------------
(* Taking a node out of a linked list leaves a list of the other nodes.    *)
LEMMA UnlinkedIsSeq ==
  ASSUME NEW S, NEW s \in Seq(S), NEW i \in DOMAIN s
  PROVE  /\ Unlinked(s, i) \in Seq(S)
         /\ \A j \in DOMAIN Unlinked(s, i) :
               \E k \in DOMAIN s : Unlinked(s, i)[j] = s[k]
<1>1. Len(s) - 1 \in Nat /\ DOMAIN s = 1 .. Len(s)
  OBVIOUS
<1>2. \A j \in 1 .. Len(s) - 1 : j \in DOMAIN s /\ j + 1 \in DOMAIN s
  BY <1>1
<1>3. Unlinked(s, i) \in [1 .. Len(s) - 1 -> S]
  BY <1>1, <1>2 DEF Unlinked
<1>4. \A j \in 1 .. Len(s) - 1 : \E k \in DOMAIN s : Unlinked(s, i)[j] = s[k]
  BY <1>2 DEF Unlinked
<1> QED
  BY <1>1, <1>3, <1>4 DEF Unlinked

\* Every list of a request is one of the lists, every dispatcher serves lists.
LEMMA ListOfIsList ==
  ASSUME NEW r \in Requests
  PROVE  ListOf(r) \in Lists /\ SimOf[r] \in Sims
<1>1. SimOf[r] \in Sims /\ KindOf[r] \in Kinds
  BY RequestThreadsAssumption
<1>2. getCmdType(KindOf[r]) \in {"SLOW", "NORMAL_FAST", "NORMAL_SLOW", "DATA", "OTHER"}
  BY <1>1 DEF getCmdType, Kinds
<1> QED
  BY <1>1, <1>2 DEF ListOf, Lists, OwnLists, DataList

LEMMA ServesLists ==
  ASSUME NEW t \in Dispatchers
  PROVE  Serves(t) \subseteq Lists
  BY RequestThreadsAssumption
     DEF Dispatchers, Serial, Others, Serves, Lists, OwnLists, DataList

LEMMA PoolSims == \A t \in Pool : t[1] \in Sims
  BY DEF Pool

LEMMA DispatcherSims == \A t \in Dispatchers : t[1] \in Sims
  BY RequestThreadsAssumption DEF Dispatchers, Serial, Others, DataList

\* The next-state relation, one disjunct per action.
LEMMA StepCases ==
  ASSUME [Next]_vars
  PROVE  \/ \E r \in Requests : request_list_add_tail(r) \/ signalDispatch(r)
         \/ \E t \in Dispatchers : \/ checkLists(t) \/ spuriousWakeup(t)
                                   \/ selectRequest(t)
                                   \/ dispatchToPool(t) \/ request_list_remove(t)
         \/ \E t \in Pool : CommandThread(t)
         \/ \E t \in Processors : \/ rejectRequest(t) \/ admitRequest(t)
                                  \/ getChannel(t) \/ handleRequest(t)
                                  \/ deferAnswer(t) \/ putChannel(t)
         \/ \E r \in Requests : answerDeferred(r)
         \/ setChannelOpened
         \/ UNCHANGED vars
  BY DEF Next, Dispatch, processRequest

-----------------------------------------------------------------------------
LEMMA TypeInit == Init => TypeInv
<1> SUFFICES ASSUME Init PROVE TypeInv
  OBVIOUS
<1>1. TypeOK
  BY RequestThreadsAssumption DEF Init, TypeOK, PCs
<1>2. ListsHoldSubmitted
  BY DEF Init, ListsHoldSubmitted
<1>3. ProcessorsHaveRequests
  BY DEF Init, ProcessorsHaveRequests
<1>4. HoldersHaveChannels
  BY DEF Init, HoldersHaveChannels, Processors, Serial, Threads, Dispatchers
<1> QED
  BY <1>1, <1>2, <1>3, <1>4 DEF TypeInv

\* A thread that moves on without touching its request or a channel.
LEMMA QuietMove ==
  ASSUME TypeInv, NEW t \in Threads, NEW p \in PCs \ {"run", "putChannel"},
         pc[t] \notin {"run", "putChannel"},
         pc' = [pc EXCEPT ![t] = p],
         p \in {"wait", "select", "check", "idle"} \/ cur[t] \in submitted,
         UNCHANGED <<cur, submitted, chanOf>>
  PROVE  /\ pc' \in [Threads -> PCs]
         /\ ProcessorsHaveRequests'
         /\ HoldersHaveChannels'
<1> USE DEF TypeInv, TypeOK
<1>1. pc' \in [Threads -> PCs]
  OBVIOUS
<1>2. ProcessorsHaveRequests'
  BY DEF ProcessorsHaveRequests, PCs
<1>3. HoldersHaveChannels'
  BY DEF HoldersHaveChannels, Processors, Threads, Dispatchers
<1> QED
  BY <1>1, <1>2, <1>3

LEMMA TypeStep == TypeInv /\ [Next]_vars => TypeInv'
<1> SUFFICES ASSUME TypeInv, [Next]_vars PROVE TypeInv'
  OBVIOUS
<1> USE RequestThreadsAssumption
    DEF TypeInv, TypeOK, ListsHoldSubmitted, ProcessorsHaveRequests,
        HoldersHaveChannels, listVars, chanVars, answerVars, Move, PCs
<1>p. /\ Processors \subseteq Threads /\ Pool \subseteq Threads
      /\ Pool \subseteq Processors /\ Dispatchers \subseteq Threads
  BY DEF Processors, Threads, Dispatchers
<1> USE <1>p
<1>1. ASSUME NEW r \in Requests, request_list_add_tail(r) PROVE TypeInv'
  BY <1>1, ListOfIsList DEF request_list_add_tail
<1>2. ASSUME NEW r \in Requests, signalDispatch(r) PROVE TypeInv'
  BY <1>2 DEF signalDispatch
<1>3. ASSUME NEW t \in Dispatchers, checkLists(t) PROVE TypeInv'
  <2>1. pc[t] = "check"
    BY <1>3 DEF checkLists
  <2>2. PICK p \in {"wait", "select"} : pc' = [pc EXCEPT ![t] = p]
    BY <1>3 DEF checkLists
  <2>3. pc' \in [Threads -> PCs] /\ ProcessorsHaveRequests' /\ HoldersHaveChannels'
    BY <1>3, <2>1, <2>2, QuietMove DEF checkLists
  <2> QED
    BY <1>3, <2>3 DEF checkLists
<1>4. ASSUME NEW t \in Dispatchers, spuriousWakeup(t) PROVE TypeInv'
  BY <1>4 DEF spuriousWakeup
<1>5. ASSUME NEW t \in Dispatchers, selectRequest(t) PROVE TypeInv'
  <2>1. CASE Pending(t) = {}
    <3>1. /\ pc[t] = "select" /\ pc' = [pc EXCEPT ![t] = "check"]
          /\ UNCHANGED <<cur, submitted, chanOf>>
      BY <1>5, <2>1 DEF selectRequest
    <3>2. pc' \in [Threads -> PCs] /\ ProcessorsHaveRequests' /\ HoldersHaveChannels'
      BY <3>1, QuietMove
    <3> QED
      BY <1>5, <2>1, <3>2 DEF selectRequest
  <2>2. CASE Pending(t) # {}
    <3>1. PICK l \in Pending(t) :
             /\ cur' = [cur EXCEPT ![t] = Head(list[l])]
             /\ pc' = [pc EXCEPT ![t] = IF t \in Others THEN "dispatch" ELSE "begin"]
      BY <1>5, <2>2 DEF selectRequest, Preferred
    <3>2. Head(list[l]) \in submitted
      <4>1. l \in Lists /\ list[l] \in Seq(Requests) /\ list[l] # <<>>
        BY ServesLists DEF Pending
      <4>2. 1 \in DOMAIN list[l] /\ Head(list[l]) = list[l][1]
        BY <4>1
      <4> QED
        BY <4>1, <4>2
    <3> QED
      BY <1>5, <3>1, <3>2 DEF selectRequest
  <2> QED
    BY <2>1, <2>2
<1>6. ASSUME NEW t \in Dispatchers, dispatchToPool(t) PROVE TypeInv'
  <2>1. cur[t] \in submitted /\ cur[t] \in Requests
    BY <1>6 DEF dispatchToPool
  <2>2. pc' \in [Threads -> PCs] /\ ProcessorsHaveRequests' /\ HoldersHaveChannels'
    BY <1>6, <2>1, QuietMove DEF dispatchToPool
  <2>3. poolQueue' \in [Sims -> Seq(Requests)]
    <3>1. t[1] \in Sims /\ Append(poolQueue[t[1]], cur[t]) \in Seq(Requests)
      BY <2>1, DispatcherSims
    <3> QED
      BY <1>6, <3>1 DEF dispatchToPool
  <2>4. ListsHoldSubmitted'
    BY <1>6, <2>1 DEF dispatchToPool
  <2> QED
    BY <1>6, <2>2, <2>3, <2>4 DEF dispatchToPool
<1>7. ASSUME NEW t \in Dispatchers, request_list_remove(t) PROVE TypeInv'
  <2>1. cur[t] \in Requests /\ ListOf(cur[t]) \in Lists
    BY <1>7, ListOfIsList DEF request_list_remove
  <2> DEFINE l == ListOf(cur[t])
  <2>2. PICK i \in DOMAIN list[l] : list' = [list EXCEPT ![l] = Unlinked(list[l], i)]
    BY <1>7 DEF request_list_remove
  <2>3. list[l] \in Seq(Requests)
    BY <2>1
  <2>4. /\ Unlinked(list[l], i) \in Seq(Requests)
        /\ \A j \in DOMAIN Unlinked(list[l], i) : Unlinked(list[l], i)[j] \in submitted
    <3> HIDE DEF l
    <3> QED
      BY <2>1, <2>2, <2>3, UnlinkedIsSeq DEF l
  <2>5. list' \in [Lists -> Seq(Requests)]
    BY <2>2, <2>4
  <2>6. ListsHoldSubmitted'
    BY <1>7, <2>1, <2>2, <2>4 DEF request_list_remove
  <2> QED
    BY <1>7, <2>5, <2>6 DEF request_list_remove
<1>8. ASSUME NEW t \in Pool, CommandThread(t) PROVE TypeInv'
  <2>1. t[1] \in Sims /\ poolQueue[t[1]] \in Seq(Requests) /\ poolQueue[t[1]] # <<>>
    BY <1>8, PoolSims DEF CommandThread
  <2>2. Head(poolQueue[t[1]]) \in submitted
    <3>1. 1 \in DOMAIN poolQueue[t[1]] /\ Head(poolQueue[t[1]]) = poolQueue[t[1]][1]
      BY <2>1
    <3> QED
      BY <2>1, <3>1
  <2>3. \A j \in DOMAIN Tail(poolQueue[t[1]]) :
           Tail(poolQueue[t[1]])[j] = poolQueue[t[1]][j + 1] /\ j + 1 \in DOMAIN poolQueue[t[1]]
    BY <2>1
  <2>4. Tail(poolQueue[t[1]]) \in Seq(Requests)
    BY <2>1
  <2>5. poolQueue' \in [Sims -> Seq(Requests)]
    BY <1>8, <2>1, <2>4 DEF CommandThread
  <2>6. ListsHoldSubmitted'
    BY <1>8, <2>1, <2>3 DEF CommandThread
  <2> QED
    BY <1>8, <2>2, <2>5, <2>6 DEF CommandThread
<1>9. ASSUME NEW t \in Processors, rejectRequest(t) PROVE TypeInv'
  BY <1>9 DEF rejectRequest, AfterProcess, Done
<1>10. ASSUME NEW t \in Processors, admitRequest(t) PROVE TypeInv'
  BY <1>10 DEF admitRequest
<1>11. ASSUME NEW t \in Processors, getChannel(t) PROVE TypeInv'
  BY <1>11 DEF getChannel
<1>12. ASSUME NEW t \in Processors, handleRequest(t) PROVE TypeInv'
  BY <1>12 DEF handleRequest
<1>13. ASSUME NEW t \in Processors, putChannel(t) PROVE TypeInv'
  BY <1>13 DEF putChannel, AfterProcess, Done
<1>14. CASE setChannelOpened
  BY <1>14 DEF setChannelOpened
<1>15. ASSUME NEW t \in Processors, deferAnswer(t) PROVE TypeInv'
  BY <1>15 DEF deferAnswer
<1>16. ASSUME NEW r \in Requests, answerDeferred(r) PROVE TypeInv'
  BY <1>16 DEF answerDeferred
<1>17. CASE UNCHANGED vars
  BY <1>17 DEF vars
<1> QED
  BY <1>1, <1>2, <1>3, <1>4, <1>5, <1>6, <1>7, <1>8, <1>9, <1>10, <1>11, <1>12, <1>13,
     <1>14, <1>15, <1>16, <1>17, StepCases

(* TypeOK is an invariant of the scheduler for all constants.              *)
THEOREM TypeCorrect == Spec => []TypeOK
<1>1. TypeInv => TypeOK
  BY DEF TypeInv
<1> QED
  BY TypeInit, TypeStep, <1>1, PTL DEF Spec

-----------------------------------------------------------------------------
(* The channels.  Only getChannel, putChannel and the opening change who   *)
(* holds what; every other step leaves idle, chanOf, open and opens alone  *)
(* and ChannelsAccounted then follows from HoldersHaveChannels'.           *)
LEMMA ChannelInit == Init => ChannelInv
<1> SUFFICES ASSUME Init PROVE ChannelInv
  OBVIOUS
<1>1. TypeInv
  BY TypeInit
<1>2. NothingOpenAtFirst
  BY DEF Init, NothingOpenAtFirst
<1>3. ChannelsAccounted
  BY <1>1, RequestThreadsAssumption
     DEF Init, ChannelsAccounted, TypeInv, HoldersHaveChannels
<1> QED
  BY <1>1, <1>2, <1>3 DEF ChannelInv

LEMMA ChannelStep == ChannelInv /\ [Next]_vars => ChannelInv'
<1> SUFFICES ASSUME ChannelInv, [Next]_vars PROVE ChannelInv'
  OBVIOUS
<1>t. TypeInv /\ TypeInv'
  BY TypeStep DEF ChannelInv
<1> USE RequestThreadsAssumption, <1>t
    DEF ChannelInv, NothingOpenAtFirst, ChannelsAccounted, Move
<1>1. ASSUME NEW t \in Processors, getChannel(t) PROVE ChannelInv'
  <2>1. PICK c \in idle :
           /\ ChannelSim[c] = SimOf[cur[t]]
           /\ idle' = idle \ {c}
           /\ chanOf' = [chanOf EXCEPT ![t] = c]
           /\ pc[t] = "getChannel"
           /\ UNCHANGED <<open, opens>>
    BY <1>1 DEF getChannel
  <2>2. c \in Channels /\ chanOf[t] = NoChannel /\ chanOf \in [Processors -> Channels \cup {NoChannel}]
    BY <2>1 DEF TypeInv, TypeOK, HoldersHaveChannels
  <2>3. opens <= 1 => \A u \in Processors : chanOf[u] # c
    BY <2>1, <2>2
  <2>4. ASSUME opens <= 1, NEW d \in Channels
        PROVE  (d \in idle') = ({u \in Processors : chanOf'[u] = d} = {})
    <3>1. CASE d = c
      <4>1. t \in {u \in Processors : chanOf'[u] = d}
        BY <2>1, <2>2, <3>1
      <4> QED
        BY <2>1, <3>1, <4>1
    <3>2. CASE d # c
      <4>1. \A u \in Processors : (chanOf'[u] = d) = (chanOf[u] = d)
        BY <2>1, <2>2, <3>2
      <4>2. {u \in Processors : chanOf'[u] = d} = {u \in Processors : chanOf[u] = d}
        BY <4>1
      <4> QED
        BY <2>1, <2>4, <3>2, <4>2
    <3> QED
      BY <3>1, <3>2
  <2>5. ASSUME opens <= 1, NEW u \in Processors, NEW v \in Processors,
               chanOf'[u] = chanOf'[v], u # v
        PROVE  chanOf'[u] = NoChannel
    BY <2>1, <2>2, <2>3, <2>5
  <2>6. opens # 0
    BY <1>1 DEF getChannel
  <2> QED
    BY <2>1, <2>4, <2>5, <2>6 DEF TypeInv, HoldersHaveChannels
<1>2. ASSUME NEW t \in Processors, putChannel(t) PROVE ChannelInv'
  <2>1. /\ idle' = idle \cup {chanOf[t]}
        /\ chanOf' = [chanOf EXCEPT ![t] = NoChannel]
        /\ UNCHANGED <<open, opens>>
    BY <1>2 DEF putChannel
  <2>2. chanOf[t] \in Channels /\ chanOf \in [Processors -> Channels \cup {NoChannel}]
    BY <1>2 DEF putChannel, TypeInv, TypeOK, HoldersHaveChannels
  <2>3. ASSUME opens <= 1, NEW d \in Channels
        PROVE  (d \in idle') = ({u \in Processors : chanOf'[u] = d} = {})
    <3>1. CASE d = chanOf[t]
      <4>1. \A u \in Processors : chanOf'[u] # d
        BY <2>1, <2>2, <2>3, <3>1
      <4> QED
        BY <2>1, <3>1, <4>1
    <3>2. CASE d # chanOf[t]
      <4>1. {u \in Processors : chanOf'[u] = d} = {u \in Processors : chanOf[u] = d}
        BY <2>1, <2>2, <3>2
      <4> QED
        BY <2>1, <2>3, <3>2, <4>1
    <3> QED
      BY <3>1, <3>2
  <2>4. ASSUME opens <= 1, NEW u \in Processors, NEW v \in Processors,
               chanOf'[u] = chanOf'[v], u # v
        PROVE  chanOf'[u] = NoChannel
    BY <2>1, <2>2, <2>4
  <2> QED
    BY <2>1, <2>3, <2>4 DEF TypeInv, HoldersHaveChannels
<1>3. CASE setChannelOpened
  <2>1. opens' = opens + 1 /\ idle' = Channels /\ UNCHANGED chanOf /\ opens \in Nat
    BY <1>3 DEF setChannelOpened, TypeInv, TypeOK
  <2>2. opens' # 0
    BY <2>1
  <2>3. opens' <= 1 => opens = 0
    BY <2>1
  <2>4. opens' <= 1 => \A c \in Channels : \A t \in Processors : chanOf[t] # c
    BY <2>3
  <2>5. opens' <= 1 => ChannelsAccounted'
    BY <2>1, <2>3, <2>4 DEF TypeInv, HoldersHaveChannels
  <2> QED
    BY <2>1, <2>2, <2>5 DEF TypeInv, HoldersHaveChannels
<1>4. CASE UNCHANGED chanVars
  BY <1>4 DEF chanVars, TypeInv, HoldersHaveChannels
<1> QED
  BY <1>1, <1>2, <1>3, <1>4, StepCases
     DEF request_list_add_tail, signalDispatch, checkLists, spuriousWakeup, selectRequest,
         dispatchToPool, request_list_remove, CommandThread, rejectRequest, admitRequest,
         handleRequest, deferAnswer, answerDeferred, vars, chanVars

(* A channel is idle or borrowed by exactly one thread, of the SIM of its  *)
(* request, from the first opening of the channels until they are opened   *)
(* again (getChannel, putChannel and setChannelInfo).                      *)
THEOREM ChannelsNeverShared == Spec => []ChannelsAccounted
<1>1. ChannelInv => ChannelsAccounted
  BY DEF ChannelInv
<1> QED
  BY ChannelInit, ChannelStep, <1>1, PTL DEF Spec

-----------------------------------------------------------------------------
(* Which thread works on which request.  A request is on its own list, a   *)
(* dispatcher takes its requests from the lists it serves, and only what   *)
(* is on a list of class OTHER gets to the pool.                           *)
OtherLists == Sims \X {"other"}

ListsHoldOwn ==
    /\ \A l \in Lists : \A i \in DOMAIN list[l] : ListOf(list[l][i]) = l
    /\ \A s \in Sims : \A i \in DOMAIN poolQueue[s] :
          ListOf(poolQueue[s][i]) \in OtherLists

ThreadsServeOwn ==
    /\ \A t \in Dispatchers : cur[t] # NoReq => ListOf(cur[t]) \in Serves(t)
    /\ \A t \in Pool : cur[t] # NoReq => ListOf(cur[t]) \in OtherLists
    /\ \A t \in Threads : pc[t] = "dispatch" => t \in Others

RouteInv == TypeInv /\ ListsHoldOwn /\ ThreadsServeOwn

LEMMA KindsOfThreads ==
  /\ Pool \cap Dispatchers = {}
  /\ \A t \in Others : Serves(t) \subseteq OtherLists
  /\ \A t \in Dispatchers : Preferred(t) \subseteq Pending(t) /\ Pending(t) \subseteq Serves(t)
<1>1. Pool \cap Dispatchers = {}
  BY RequestThreadsAssumption DEF Pool, Dispatchers, Serial, Others, DataList
<1>2. \A t \in Others : Serves(t) \subseteq OtherLists
  BY DEF Others, Serves, OtherLists
<1>3. \A t \in Dispatchers : Preferred(t) \subseteq Pending(t) /\ Pending(t) \subseteq Serves(t)
  BY DEF Preferred, Pending
<1> QED
  BY <1>1, <1>2, <1>3

LEMMA RouteInit == Init => RouteInv
  BY TypeInit DEF Init, RouteInv, ListsHoldOwn, ThreadsServeOwn, Threads, Dispatchers

LEMMA RouteStep == RouteInv /\ [Next]_vars => RouteInv'
<1> SUFFICES ASSUME RouteInv, [Next]_vars PROVE RouteInv'
  OBVIOUS
<1>t. TypeInv /\ TypeInv'
  BY TypeStep DEF RouteInv
<1>o. /\ list \in [Lists -> Seq(Requests)] /\ poolQueue \in [Sims -> Seq(Requests)]
      /\ cur \in [Threads -> Requests \cup {NoReq}] /\ pc \in [Threads -> PCs]
      /\ submitted \subseteq Requests /\ NoReq \notin Requests
  BY <1>t, RequestThreadsAssumption DEF TypeInv, TypeOK
<1>s. Dispatchers \subseteq Threads /\ Pool \subseteq Threads /\ Processors \subseteq Threads
  BY DEF Threads, Processors, Dispatchers
<1> USE <1>o, <1>s DEF RouteInv, ListsHoldOwn, ThreadsServeOwn, Move
<1>1. ASSUME NEW r \in Requests, request_list_add_tail(r) PROVE RouteInv'
  <2>1. list' = [list EXCEPT ![ListOf(r)] = Append(@, r)] /\ ListOf(r) \in Lists
    BY <1>1, ListOfIsList DEF request_list_add_tail
  <2>2. ASSUME NEW l \in Lists, NEW i \in DOMAIN list'[l] PROVE ListOf(list'[l][i]) = l
    <3>1. CASE l = ListOf(r)
      <4>1. list'[l] = Append(list[l], r) /\ list[l] \in Seq(Requests)
        BY <2>1, <3>1
      <4>2. i \in 1 .. Len(list[l]) \/ i = Len(list[l]) + 1
        BY <2>2, <4>1
      <4> QED
        BY <3>1, <4>1, <4>2
    <3>2. CASE l # ListOf(r)
      BY <2>1, <2>2, <3>2
    <3> QED
      BY <3>1, <3>2
  <2> QED
    BY <1>1, <1>t, <2>2 DEF request_list_add_tail
<1>2. ASSUME NEW t \in Dispatchers, selectRequest(t) PROVE RouteInv'
  <2>1. CASE Pending(t) = {}
    BY <1>2, <1>t, <2>1 DEF selectRequest, listVars
  <2>2. CASE Pending(t) # {}
    <3>1. PICK l \in Preferred(t) :
             /\ cur' = [cur EXCEPT ![t] = Head(list[l])]
             /\ pc' = [pc EXCEPT ![t] = IF t \in Others THEN "dispatch" ELSE "begin"]
      BY <1>2, <2>2 DEF selectRequest
    <3>2. l \in Serves(t) /\ l \in Lists /\ list[l] # <<>>
      BY KindsOfThreads, ServesLists DEF Pending
    <3>3. Head(list[l]) = list[l][1] /\ 1 \in DOMAIN list[l]
      BY <3>2
    <3>4. ListOf(cur'[t]) \in Serves(t)
      BY <3>1, <3>2, <3>3
    <3> QED
      BY <1>2, <1>t, <3>1, <3>4, KindsOfThreads DEF selectRequest, listVars
  <2> QED
    BY <2>1, <2>2
<1>3. ASSUME NEW t \in Dispatchers, dispatchToPool(t) PROVE RouteInv'
  <2>1. /\ poolQueue' = [poolQueue EXCEPT ![t[1]] = Append(@, cur[t])]
        /\ pc' = [pc EXCEPT ![t] = "remove"] /\ pc[t] = "dispatch"
        /\ t[1] \in Sims
    BY <1>3, DispatcherSims DEF dispatchToPool
  <2>2. cur[t] \in Requests /\ ListOf(cur[t]) \in OtherLists
    BY <2>1, <1>t, KindsOfThreads DEF TypeInv, ProcessorsHaveRequests
  <2>3. ASSUME NEW s \in Sims, NEW i \in DOMAIN poolQueue'[s]
        PROVE  ListOf(poolQueue'[s][i]) \in OtherLists
    <3>1. CASE s = t[1]
      <4>1. poolQueue'[s] = Append(poolQueue[s], cur[t]) /\ poolQueue[s] \in Seq(Requests)
        BY <2>1, <3>1
      <4>2. i \in 1 .. Len(poolQueue[s]) \/ i = Len(poolQueue[s]) + 1
        BY <2>2, <2>3, <4>1
      <4> QED
        BY <2>2, <4>1, <4>2
    <3>2. CASE s # t[1]
      BY <2>1, <2>3, <3>2
    <3> QED
      BY <3>1, <3>2
  <2> QED
    BY <1>3, <1>t, <2>1, <2>3 DEF dispatchToPool, listVars
<1>4. ASSUME NEW t \in Dispatchers, request_list_remove(t) PROVE RouteInv'
  <2> DEFINE l == ListOf(cur[t])
  <2>1. PICK i \in DOMAIN list[l] : list' = [list EXCEPT ![l] = Unlinked(@, i)]
    BY <1>4 DEF request_list_remove
  <2>2. l \in Lists
    BY <1>4, <1>t, ListOfIsList DEF request_list_remove, TypeInv, ProcessorsHaveRequests
  <2>3. list'[l] = Unlinked(list[l], i) /\ list[l] \in Seq(Requests)
    BY <2>1, <2>2
  <2>4. \A j \in DOMAIN list'[l] : \E k \in DOMAIN list[l] : list'[l][j] = list[l][k]
    BY <2>3, UnlinkedIsSeq
  <2>5. \A j \in DOMAIN list'[l] : ListOf(list'[l][j]) = l
    BY <2>2, <2>4
  <2>6. \A m \in Lists : \A j \in DOMAIN list'[m] : ListOf(list'[m][j]) = m
    BY <2>1, <2>2, <2>5
  <2> QED
    BY <1>4, <1>t, <2>6 DEF request_list_remove
<1>5. ASSUME NEW t \in Pool, CommandThread(t) PROVE RouteInv'
  <2> DEFINE q == poolQueue[t[1]]
  <2>1. /\ q \in Seq(Requests) /\ q # <<>> /\ t[1] \in Sims
        /\ cur' = [cur EXCEPT ![t] = Head(q)]
        /\ poolQueue' = [poolQueue EXCEPT ![t[1]] = Tail(q)]
        /\ pc' = [pc EXCEPT ![t] = "begin"]
    BY <1>5, PoolSims DEF CommandThread
  <2>2. Head(q) = q[1] /\ 1 \in DOMAIN q
    BY <2>1
  <2>3. \A j \in DOMAIN Tail(q) : j + 1 \in DOMAIN q /\ Tail(q)[j] = q[j + 1]
    BY <2>1
  <2>4. \A s \in Sims : \A i \in DOMAIN poolQueue'[s] : ListOf(poolQueue'[s][i]) \in OtherLists
    BY <2>1, <2>3
  <2>5. ListOf(cur'[t]) \in OtherLists
    BY <2>1, <2>2
  <2> QED
    BY <1>5, <1>t, <2>1, <2>4, <2>5, KindsOfThreads DEF CommandThread, listVars
<1>6. ASSUME UNCHANGED <<list, poolQueue>>,
             \A t \in Threads : cur'[t] \in {cur[t], NoReq},
             \A t \in Threads : pc'[t] = "dispatch" => pc[t] = "dispatch"
      PROVE  RouteInv'
  BY <1>6, <1>t
<1>7. ASSUME NEW r \in Requests, signalDispatch(r) PROVE RouteInv'
  BY <1>6, <1>7 DEF signalDispatch
<1>8. ASSUME NEW t \in Dispatchers, checkLists(t) \/ spuriousWakeup(t) PROVE RouteInv'
  BY <1>6, <1>8 DEF checkLists, spuriousWakeup, listVars
<1>9. ASSUME NEW t \in Processors,
             \/ rejectRequest(t) \/ admitRequest(t) \/ getChannel(t)
             \/ handleRequest(t) \/ deferAnswer(t) \/ putChannel(t)
      PROVE  RouteInv'
  BY <1>6, <1>9
     DEF rejectRequest, admitRequest, getChannel, handleRequest, deferAnswer,
         putChannel, Done, AfterProcess, listVars
<1>10. CASE setChannelOpened \/ (\E r \in Requests : answerDeferred(r)) \/ UNCHANGED vars
  BY <1>6, <1>10 DEF setChannelOpened, answerDeferred, listVars, vars
<1> QED
  BY <1>1, <1>2, <1>3, <1>4, <1>5, <1>7, <1>8, <1>9, <1>10, StepCases

(* SETUP_DATA_CALL and ALLOW_DATA are on one list: that of dataDispatch    *)
(* with several SIMs, that of the slow thread with one.                    *)
LEMMA OneDataThread ==
  ASSUME NEW r \in Requests, KindOf[r] = "setupData",
         NEW t \in Dispatchers, ListOf(r) \in Serves(t)
  PROVE  t = IF MultiSim THEN DataList ELSE <<RIL_SOCKET_1, "slow">>
<1> USE RequestThreadsAssumption
<1>1. CASE MultiSim
  BY <1>1 DEF ListOf, getCmdType, Dispatchers, Serial, Others, DataList, Serves
<1>2. CASE ~MultiSim
  BY <1>2 DEF MultiSim, ListOf, getCmdType, Dispatchers, Serial, Others, DataList, Serves
<1> QED
  BY <1>1, <1>2

LEMMA DataIsNotOther ==
  ASSUME NEW r \in Requests, KindOf[r] = "setupData"
  PROVE  ListOf(r) \notin OtherLists
  BY DEF ListOf, getCmdType, DataList, OtherLists

(* Two SETUP_DATA_CALL or ALLOW_DATA requests are never in progress at the *)
(* same time, whatever the SIMs and the number of requests and channels    *)
(* (getCmdType, enqueueRequest and dataDispatch).                          *)
THEOREM DataCallsNeverOverlap == Spec => []DataRequestsOneAtATime
<1>1. RouteInv => DataRequestsOneAtATime
  <2> SUFFICES ASSUME RouteInv, NEW t \in Processors, NEW u \in Processors,
                      pc[t] \in Processing, pc[u] \in Processing,
                      KindOf[cur[t]] = "setupData", KindOf[cur[u]] = "setupData"
               PROVE  t = u
    BY DEF DataRequestsOneAtATime
  <2>1. ASSUME NEW v \in Processors, pc[v] \in Processing, KindOf[cur[v]] = "setupData"
        PROVE  v = IF MultiSim THEN DataList ELSE <<RIL_SOCKET_1, "slow">>
    <3>1. v \in Threads /\ (v \in Dispatchers \/ v \in Pool)
      BY DEF Processors, Threads, Dispatchers
    <3>2. cur[v] \in Requests /\ cur[v] # NoReq
      BY <2>1, <3>1, RequestThreadsAssumption
         DEF RouteInv, TypeInv, TypeOK, ProcessorsHaveRequests, Processing
    <3>3. v \notin Pool
      BY <2>1, <3>2, DataIsNotOther DEF RouteInv, ThreadsServeOwn
    <3> QED
      BY <2>1, <3>1, <3>2, <3>3, OneDataThread DEF RouteInv, ThreadsServeOwn
  <2> QED
    BY <2>1
<1> QED
  BY RouteInit, RouteStep, <1>1, PTL DEF Spec
-----------------------------------------------------------------------------
(* The wakeups.  A list is served by one thread, so the signal for it goes *)
(* to the thread that can use it; a list grows only with a signal on the   *)
(* way, and a thread falls asleep only with all of its lists empty.        *)
LEMMA OneServer ==
  ASSUME NEW t \in Dispatchers, NEW u \in Dispatchers,
         NEW l \in Serves(t), l \in Serves(u)
  PROVE  t = u
  BY DEF Dispatchers, Serial, Others, DataList, Serves

WakeupInv == TypeInv /\ NoLostWakeup

LEMMA WakeupInit == Init => WakeupInv
<1> SUFFICES ASSUME Init PROVE WakeupInv
  OBVIOUS
<1>1. \A t \in Dispatchers : Pending(t) = {}
  BY ServesLists DEF Init, Pending
<1> QED
  BY <1>1, TypeInit DEF WakeupInv, NoLostWakeup

LEMMA WakeupStep == WakeupInv /\ [Next]_vars => WakeupInv'
<1> SUFFICES ASSUME WakeupInv, [Next]_vars PROVE WakeupInv'
  OBVIOUS
<1>t. TypeInv /\ TypeInv'
  BY TypeStep DEF WakeupInv
<1>o. list \in [Lists -> Seq(Requests)] /\ pc \in [Threads -> PCs]
  BY <1>t DEF TypeInv, TypeOK
<1>s. Dispatchers \subseteq Threads /\ Pool \subseteq Threads /\ Processors \subseteq Threads
  BY DEF Threads, Processors, Dispatchers
<1> USE <1>t, <1>o, <1>s DEF WakeupInv, NoLostWakeup, Move
<1>1. ASSUME NEW r \in Requests, request_list_add_tail(r) PROVE WakeupInv'
  <2>1. /\ list' = [list EXCEPT ![ListOf(r)] = Append(@, r)]
        /\ signalling' = signalling \cup {r} /\ UNCHANGED pc
    BY <1>1 DEF request_list_add_tail
  <2>2. ASSUME NEW t \in Dispatchers, pc[t] = "wait", Pending(t)' # {}
        PROVE  \E q \in signalling' : ListOf(q) \in Serves(t)
    <3>1. CASE ListOf(r) \in Serves(t)
      BY <2>1, <3>1
    <3>2. CASE ListOf(r) \notin Serves(t)
      <4>1. \A l \in Serves(t) : list'[l] = list[l]
        BY <2>1, <3>2, ServesLists
      <4>2. Pending(t) # {}
        BY <2>2, <4>1 DEF Pending
      <4> QED
        BY <2>1, <2>2, <4>2
    <3> QED
      BY <3>1, <3>2
  <2> QED
    BY <2>1, <2>2
<1>2. ASSUME NEW r \in Requests, signalDispatch(r) PROVE WakeupInv'
  <2>1. PICK u \in Dispatchers :
           /\ ListOf(r) \in Serves(u)
           /\ pc' = [pc EXCEPT ![u] = IF @ = "wait" THEN "select" ELSE @]
    BY <1>2 DEF signalDispatch
  <2>2. signalling' = signalling \ {r} /\ UNCHANGED list
    BY <1>2 DEF signalDispatch
  <2>3. ASSUME NEW t \in Dispatchers, pc'[t] = "wait", Pending(t)' # {}
        PROVE  \E q \in signalling' : ListOf(q) \in Serves(t)
    <3>1. t # u /\ pc[t] = "wait"
      BY <2>1, <2>3
    <3>2. Pending(t) # {}
      BY <2>2, <2>3 DEF Pending
    <3>3. PICK q \in signalling : ListOf(q) \in Serves(t)
      BY <3>1, <3>2
    <3>4. q # r
      BY <2>1, <3>1, <3>3, OneServer
    <3> QED
      BY <2>2, <3>3, <3>4
  <2> QED
    BY <2>3
<1>3. ASSUME NEW t \in Dispatchers, checkLists(t) PROVE WakeupInv'
  <2>1. /\ pc' = [pc EXCEPT ![t] = IF Pending(t) = {} THEN "wait" ELSE "select"]
        /\ UNCHANGED <<list, signalling>>
    BY <1>3 DEF checkLists, listVars
  <2>2. \A u \in Dispatchers : Pending(u)' = Pending(u)
    BY <2>1 DEF Pending
  <2> QED
    BY <2>1, <2>2
<1>4. ASSUME UNCHANGED signalling,
             \A t \in Dispatchers : pc'[t] = "wait" => pc[t] = "wait",
             \A t \in Dispatchers : Pending(t)' \subseteq Pending(t)
      PROVE  WakeupInv'
  BY <1>4
<1>5. ASSUME NEW t \in Dispatchers, request_list_remove(t) PROVE WakeupInv'
  <2> DEFINE l == ListOf(cur[t])
  <2>1. PICK i \in DOMAIN list[l] : list' = [list EXCEPT ![l] = Unlinked(@, i)]
    BY <1>5 DEF request_list_remove
  <2>2. \A m \in Lists : list'[m] # <<>> => list[m] # <<>>
    <3>1. list[l] # <<>>
      BY <2>1
    <3> QED
      BY <2>1, <3>1
  <2>3. \A u \in Dispatchers : Pending(u)' \subseteq Pending(u)
    BY <2>2, ServesLists DEF Pending
  <2> QED
    BY <1>4, <1>5, <2>3 DEF request_list_remove
<1>6. ASSUME UNCHANGED <<list, signalling>>,
             \A t \in Dispatchers : pc'[t] = "wait" => pc[t] = "wait"
      PROVE  WakeupInv'
  BY <1>4, <1>6 DEF Pending
<1>7. ASSUME NEW t \in Dispatchers, spuriousWakeup(t) \/ selectRequest(t) \/ dispatchToPool(t)
      PROVE  WakeupInv'
  BY <1>6, <1>7 DEF spuriousWakeup, selectRequest, dispatchToPool, listVars
<1>8. ASSUME NEW t \in Pool, CommandThread(t) PROVE WakeupInv'
  BY <1>6, <1>8 DEF CommandThread, listVars
<1>9. ASSUME NEW t \in Processors,
             \/ rejectRequest(t) \/ admitRequest(t) \/ getChannel(t)
             \/ handleRequest(t) \/ deferAnswer(t) \/ putChannel(t)
      PROVE  WakeupInv'
  BY <1>6, <1>9
     DEF rejectRequest, admitRequest, getChannel, handleRequest, deferAnswer,
         putChannel, AfterProcess, listVars
<1>10. CASE setChannelOpened \/ (\E r \in Requests : answerDeferred(r)) \/ UNCHANGED vars
  BY <1>6, <1>10 DEF setChannelOpened, answerDeferred, listVars, vars
<1> QED
  BY <1>1, <1>2, <1>3, <1>5, <1>7, <1>8, <1>9, <1>10, StepCases

(* A dispatch thread sleeps on a list that is not empty only while the     *)
(* enqueueRequest that filled it has still to signal.                      *)
THEOREM WakeupsNotLost == Spec => []NoLostWakeup
<1>1. WakeupInv => NoLostWakeup
  BY DEF WakeupInv
<1> QED
  BY WakeupInit, WakeupStep, <1>1, PTL DEF Spec

-----------------------------------------------------------------------------
(* The refinement.  A dispatcher works on the head of one of its lists and *)
(* unlinks it after it is served, or handed to the pool; so a request that *)
(* is already handled is the head its own dispatcher is about to unlink,   *)
(* and the pool never gets a request a second time.                        *)
NodesDistinct ==
    \A l \in Lists : \A i, j \in DOMAIN list[l] : list[l][i] = list[l][j] => i = j

WorksOnHead ==
    \A t \in Dispatchers : cur[t] # NoReq =>
        list[ListOf(cur[t])] # <<>> /\ cur[t] = list[ListOf(cur[t])][1]

Queued  == {r \in Requests :
              \E s \in Sims : \E i \in DOMAIN poolQueue[s] : poolQueue[s][i] = r}
Handled == Served \cup Queued \cup {r \in Requests : \E w \in Pool : cur[w] = r}

HandledIsHead ==
    \A t \in Dispatchers : \A l \in Serves(t) : \A i \in DOMAIN list[l] :
        list[l][i] \in Handled =>
            i = 1 /\ cur[t] = list[l][i] /\ pc[t] \in {"putChannel", "remove"}

PoolHasOnce ==
    /\ \A s, u \in Sims : \A i \in DOMAIN poolQueue[s], j \in DOMAIN poolQueue[u] :
          poolQueue[s][i] = poolQueue[u][j] => s = u /\ i = j
    /\ \A r \in Served : r \notin Queued
    /\ \A w \in Pool : cur[w] \notin Queued
    /\ \A w, x \in Pool : cur[w] = cur[x] /\ cur[w] # NoReq => w = x
    /\ \A w \in Pool : cur[w] \in submitted \cup {NoReq}
    /\ \A w \in Pool : pc[w] \in Processing => cur[w] \notin Served

ServedBeforeUnlinked ==
    \A t \in Serial : pc[t] \in {"putChannel", "remove"} => cur[t] \in Served

ServiceInv ==
    /\ RouteInv
    /\ NodesDistinct
    /\ WorksOnHead
    /\ HandledIsHead
    /\ PoolHasOnce
    /\ ServedBeforeUnlinked

LEMMA AppendFacts ==
  ASSUME NEW S, NEW s \in Seq(S), NEW e \in S
  PROVE  /\ Append(s, e) \in Seq(S) /\ Append(s, e) # <<>>
         /\ Len(Append(s, e)) = Len(s) + 1
         /\ \A i \in DOMAIN s : i \in DOMAIN Append(s, e) /\ Append(s, e)[i] = s[i]
         /\ Append(s, e)[Len(s) + 1] = e
         /\ \A i \in DOMAIN Append(s, e) : i \in DOMAIN s \/ i = Len(s) + 1
         /\ Len(s) + 1 \notin DOMAIN s
  OBVIOUS

LEMMA TailFacts ==
  ASSUME NEW S, NEW s \in Seq(S), s # <<>>
  PROVE  /\ Tail(s) \in Seq(S)
         /\ 1 \in DOMAIN s /\ Head(s) = s[1]
         /\ \A i \in DOMAIN Tail(s) :
               i \in Nat \ {0} /\ i + 1 \in DOMAIN s /\ Tail(s)[i] = s[i + 1]
  OBVIOUS

LEMMA UnlinkedHead ==
  ASSUME NEW S, NEW s \in Seq(S), s # <<>>
  PROVE  Unlinked(s, 1) = Tail(s)
<1>1. Len(s) - 1 \in Nat /\ Len(Tail(s)) = Len(s) - 1 /\ Tail(s) \in Seq(S)
  OBVIOUS
<1>2. \A j \in 1 .. Len(s) - 1 : ~(j < 1) /\ Tail(s)[j] = s[j + 1]
  BY <1>1
<1>3. Unlinked(s, 1) = [j \in 1 .. Len(s) - 1 |-> Tail(s)[j]]
  BY <1>2 DEF Unlinked
<1>4. Unlinked(s, 1) \in Seq(S) /\ Len(Unlinked(s, 1)) = Len(s) - 1
  BY <1>1, UnlinkedIsSeq DEF Unlinked
<1> QED
  BY <1>1, <1>3, <1>4, SeqEqual

LEMMA ServiceInit == Init => ServiceInv
<1> SUFFICES ASSUME Init PROVE ServiceInv
  OBVIOUS
<1>1. Dispatchers \subseteq Threads /\ Pool \subseteq Threads /\ Serial \subseteq Threads
  BY DEF Threads, Dispatchers
<1>2. NodesDistinct /\ WorksOnHead /\ ServedBeforeUnlinked
  BY <1>1 DEF Init, NodesDistinct, WorksOnHead, ServedBeforeUnlinked
<1>3. HandledIsHead
  BY ServesLists DEF Init, HandledIsHead
<1>4. PoolHasOnce
  BY <1>1 DEF Init, PoolHasOnce, Queued, Served, Processing
<1> QED
  BY RouteInit, <1>2, <1>3, <1>4 DEF ServiceInv

\* The facts about the types that every step below uses.
LEMMA ServiceTypes ==
  ASSUME ServiceInv
  PROVE  /\ list \in [Lists -> Seq(Requests)] /\ poolQueue \in [Sims -> Seq(Requests)]
         /\ cur \in [Threads -> Requests \cup {NoReq}] /\ pc \in [Threads -> PCs]
         /\ submitted \subseteq Requests /\ Served \subseteq submitted
         /\ answered \subseteq Served /\ deferred \subseteq Served
         /\ NoReq \notin Requests
         /\ Queued \subseteq submitted
         /\ \A s \in Sims : \A i \in DOMAIN poolQueue[s] :
               poolQueue[s][i] \in Requests /\ poolQueue[s][i] \in Queued
         /\ \A l \in Lists : \A i \in DOMAIN list[l] : list[l][i] \in Requests
         /\ TypeInv /\ ListsHoldSubmitted /\ ProcessorsHaveRequests
         /\ ListsHoldOwn /\ ThreadsServeOwn
         /\ Dispatchers \subseteq Threads /\ Pool \subseteq Threads
         /\ Processors \subseteq Threads /\ Serial \subseteq Dispatchers
         /\ Pool \cap Dispatchers = {} /\ Processors = Serial \cup Pool
<1>1. /\ list \in [Lists -> Seq(Requests)] /\ poolQueue \in [Sims -> Seq(Requests)]
      /\ submitted \subseteq Requests /\ ListsHoldSubmitted
  BY DEF ServiceInv, RouteInv, TypeInv, TypeOK
<1>2. \A s \in Sims : \A i \in DOMAIN poolQueue[s] :
         poolQueue[s][i] \in submitted /\ poolQueue[s][i] \in Queued
  BY <1>1 DEF ListsHoldSubmitted, Queued
<1>3. Queued \subseteq submitted
  BY <1>1 DEF ListsHoldSubmitted, Queued
<1>4. \A l \in Lists : \A i \in DOMAIN list[l] : list[l][i] \in Requests
  BY <1>1 DEF ListsHoldSubmitted
<1> QED
  BY <1>1, <1>2, <1>3, <1>4, RequestThreadsAssumption, KindsOfThreads
     DEF ServiceInv, RouteInv, TypeInv, TypeOK, Threads, Dispatchers, Processors, Served

\* A step that moves threads on without touching a list, the queue of the pool
\* or an answer keeps the invariant when it keeps who is unlinking what.
LEMMA ServiceQuiet ==
  ASSUME ServiceInv, RouteInv',
         UNCHANGED <<list, submitted, poolQueue, Served>>,
         \A t \in Dispatchers : cur'[t] = cur[t],
         \A w \in Pool : cur'[w] \in {cur[w], NoReq},
         \A t \in Dispatchers : (pc[t] \in {"putChannel", "remove"})
                                   = (pc'[t] \in {"putChannel", "remove"}),
         \A w \in Pool : pc'[w] \in Processing => pc[w] \in Processing /\ cur'[w] = cur[w]
  PROVE  ServiceInv'
<1> USE ServiceTypes DEF ServiceInv
<1>1. NodesDistinct' /\ WorksOnHead'
  BY DEF NodesDistinct, WorksOnHead
<1>2. Handled' \subseteq Handled
  BY DEF Handled, Queued
<1>3. HandledIsHead'
  BY <1>2, ServesLists DEF HandledIsHead
<1>4. Queued' = Queued
  BY DEF Queued
<1>5. NoReq \notin Queued /\ Served' = Served
  OBVIOUS
<1>6. PoolHasOnce'
  <2>1. \A w \in Pool : pc'[w] \in Processing => cur'[w] \notin Served
    BY DEF PoolHasOnce
  <2>2. /\ \A w \in Pool : cur'[w] \notin Queued /\ cur'[w] \in submitted \cup {NoReq}
        /\ \A w, x \in Pool : cur'[w] = cur'[x] /\ cur'[w] # NoReq => w = x
    BY <1>5 DEF PoolHasOnce
  <2> HIDE DEF ServiceInv
  <2>3. PoolHasOnce
    BY DEF ServiceInv
  <2> QED
    BY <1>4, <1>5, <2>1, <2>2, <2>3 DEF PoolHasOnce
<1>7. ServedBeforeUnlinked'
  BY DEF ServedBeforeUnlinked
<1> QED
  BY <1>1, <1>3, <1>6, <1>7

LEMMA ServiceAppend ==
  ASSUME ServiceInv, RouteInv', NEW r \in Requests, request_list_add_tail(r)
  PROVE  ServiceInv'
<1> DEFINE l == ListOf(r)
           L == Len(list[l])
<1>t. /\ l \in Lists /\ list[l] \in Seq(Requests) /\ r \notin submitted
      /\ list' = [list EXCEPT ![l] = Append(list[l], r)]
      /\ submitted' = submitted \cup {r}
      /\ UNCHANGED <<pc, cur, poolQueue, Served>>
  BY ServiceTypes, ListOfIsList DEF request_list_add_tail, answerVars, Served
<1>a. /\ list'[l] # <<>> /\ list'[l][L + 1] = r
      /\ \A i \in DOMAIN list[l] : i \in DOMAIN list'[l] /\ list'[l][i] = list[l][i]
      /\ \A i \in DOMAIN list'[l] : i \in DOMAIN list[l] \/ i = L + 1
  <2>1. list'[l] = Append(list[l], r)
    BY <1>t, ServiceTypes
  <2> HIDE DEF l
  <2> QED
    BY <1>t, <2>1, AppendFacts DEF l
<1>m. \A m \in Lists \ {l} : list'[m] = list[m]
  BY <1>t, ServiceTypes
<1>r. \A m \in Lists : \A i \in DOMAIN list[m] : list[m][i] # r
  BY <1>t, ServiceTypes DEF ListsHoldSubmitted
<1> USE DEF ServiceInv
<1> HIDE DEF l, L
<1>1. NodesDistinct'
  <2> SUFFICES ASSUME NEW m \in Lists, NEW i \in DOMAIN list'[m], NEW j \in DOMAIN list'[m],
                      list'[m][i] = list'[m][j]
               PROVE  i = j
    BY DEF NodesDistinct
  <2>1. CASE m = l
    BY <1>t, <1>a, <1>r, <2>1 DEF NodesDistinct
  <2>2. CASE m # l
    BY <1>m, <2>2 DEF NodesDistinct
  <2> QED
    BY <2>1, <2>2
<1>2. WorksOnHead'
  <2> SUFFICES ASSUME NEW t \in Dispatchers, cur[t] # NoReq
               PROVE  list'[ListOf(cur[t])] # <<>> /\ cur[t] = list'[ListOf(cur[t])][1]
    BY <1>t DEF WorksOnHead
  <2>1. list[ListOf(cur[t])] # <<>> /\ cur[t] = list[ListOf(cur[t])][1]
    BY DEF WorksOnHead
  <2>2. ListOf(cur[t]) \in Lists
    BY ServiceTypes, ListOfIsList
  <2>3. 1 \in DOMAIN list[ListOf(cur[t])]
    BY <2>1, <2>2, ServiceTypes
  <2>4. CASE ListOf(cur[t]) = l
    BY <1>a, <2>1, <2>3, <2>4
  <2>5. CASE ListOf(cur[t]) # l
    BY <1>m, <2>1, <2>2, <2>5
  <2> QED
    BY <2>4, <2>5
<1>3. r \notin Handled
  BY <1>t, ServiceTypes DEF Handled, PoolHasOnce
<1>4. Handled' = Handled
  BY <1>t DEF Handled, Queued
<1>5. HandledIsHead'
  <2> SUFFICES ASSUME NEW t \in Dispatchers, NEW m \in Serves(t), NEW i \in DOMAIN list'[m],
                      list'[m][i] \in Handled
               PROVE  i = 1 /\ cur[t] = list'[m][i] /\ pc[t] \in {"putChannel", "remove"}
    BY <1>t, <1>4 DEF HandledIsHead
  <2>1. m \in Lists
    BY ServesLists
  <2>2. i \in DOMAIN list[m] /\ list'[m][i] = list[m][i]
    BY <1>a, <1>m, <1>3, <2>1
  <2> QED
    BY <2>2 DEF HandledIsHead
<1>6. PoolHasOnce'
  BY <1>t DEF PoolHasOnce, Queued
<1>7. ServedBeforeUnlinked'
  BY <1>t DEF ServedBeforeUnlinked
<1> QED
  BY <1>1, <1>2, <1>5, <1>6, <1>7

LEMMA ServiceSelect ==
  ASSUME ServiceInv, RouteInv', NEW t \in Dispatchers, selectRequest(t)
  PROVE  ServiceInv'
<1>p. pc[t] = "select" /\ UNCHANGED <<list, submitted, poolQueue, Served>>
  BY DEF selectRequest, listVars, answerVars, Served
<1>1. CASE Pending(t) = {}
  BY <1>p, <1>1, ServiceQuiet, ServiceTypes DEF selectRequest
<1>2. CASE Pending(t) # {}
  <2>1. PICK l \in Preferred(t) :
           /\ cur' = [cur EXCEPT ![t] = Head(list[l])]
           /\ pc' = [pc EXCEPT ![t] = IF t \in Others THEN "dispatch" ELSE "begin"]
    BY <1>2 DEF selectRequest
  <2>2. l \in Serves(t) /\ l \in Lists /\ list[l] # <<>> /\ list[l] \in Seq(Requests)
    BY KindsOfThreads, ServesLists, ServiceTypes DEF Pending
  <2>3. Head(list[l]) = list[l][1] /\ 1 \in DOMAIN list[l]
    BY <2>2
  <2>4. ListOf(cur'[t]) = l /\ cur'[t] = list[l][1]
    BY <2>1, <2>2, <2>3, ServiceTypes DEF ListsHoldOwn
  <2>5. /\ \A u \in Threads \ {t} : cur'[u] = cur[u] /\ pc'[u] = pc[u]
        /\ pc'[t] \notin {"putChannel", "remove"}
    BY <2>1, ServiceTypes
  <2> USE ServiceTypes DEF ServiceInv
  <2>6. NodesDistinct'
    BY <1>p DEF NodesDistinct
  <2>7. WorksOnHead'
    BY <1>p, <2>2, <2>4, <2>5 DEF WorksOnHead
  <2>8. Handled' = Handled
    BY <1>p, <2>5 DEF Handled, Queued
  <2>9. HandledIsHead'
    <3> SUFFICES ASSUME NEW u \in Dispatchers, NEW m \in Serves(u), NEW i \in DOMAIN list[m],
                        list[m][i] \in Handled
                 PROVE  i = 1 /\ cur'[u] = list[m][i] /\ pc'[u] \in {"putChannel", "remove"}
      BY <1>p, <2>8 DEF HandledIsHead
    <3>1. i = 1 /\ cur[u] = list[m][i] /\ pc[u] \in {"putChannel", "remove"}
      BY DEF HandledIsHead
    <3> QED
      BY <1>p, <2>5, <3>1
  <2>10. PoolHasOnce'
    <3>1. \A w \in Pool : cur'[w] = cur[w] /\ pc'[w] = pc[w]
      BY <2>5
    <3>2. Queued' = Queued
      BY <1>p DEF Queued
    <3> QED
      BY <1>p, <3>1, <3>2 DEF PoolHasOnce
  <2>11. ServedBeforeUnlinked'
    BY <1>p, <2>5 DEF ServedBeforeUnlinked
  <2> QED
    BY <2>6, <2>7, <2>9, <2>10, <2>11
<1> QED
  BY <1>1, <1>2

\* The head of the list is handed to the pool: nobody had it before.
LEMMA ServiceDispatch ==
  ASSUME ServiceInv, RouteInv', NEW t \in Dispatchers, dispatchToPool(t)
  PROVE  ServiceInv'
<1> DEFINE r == cur[t]
           k == t[1]
           L == Len(poolQueue[k])
<1>t. /\ pc[t] = "dispatch" /\ pc' = [pc EXCEPT ![t] = "remove"]
      /\ poolQueue' = [poolQueue EXCEPT ![k] = Append(poolQueue[k], r)]
      /\ k \in Sims /\ poolQueue[k] \in Seq(Requests)
      /\ UNCHANGED <<list, submitted, cur, Served>>
  BY DispatcherSims, ServiceTypes DEF dispatchToPool, listVars, Move, answerVars, Served
<1>r. r \in Requests /\ r \in submitted /\ r # NoReq
  BY <1>t, ServiceTypes DEF ProcessorsHaveRequests
<1>l. /\ ListOf(r) \in Serves(t) /\ ListOf(r) \in Lists /\ t \notin Serial
      /\ list[ListOf(r)] # <<>> /\ r = list[ListOf(r)][1] /\ 1 \in DOMAIN list[ListOf(r)]
  <2>1. ListOf(r) \in Serves(t) /\ t \in Others
    BY <1>t, <1>r, ServiceTypes DEF ThreadsServeOwn
  <2>2. list[ListOf(r)] # <<>> /\ r = list[ListOf(r)][1]
    BY <1>r DEF ServiceInv, WorksOnHead
  <2>3. t \notin Serial
    BY <2>1 DEF Serial, Others, DataList
  <2>4. ListOf(r) \in Lists
    BY <2>1, ServesLists
  <2>5. 1 \in DOMAIN list[ListOf(r)]
    BY <2>2, <2>4, ServiceTypes
  <2> QED
    BY <2>1, <2>2, <2>3, <2>4, <2>5
<1>h. r \notin Handled
  BY <1>t, <1>l DEF ServiceInv, HandledIsHead
<1>q. /\ poolQueue'[k][L + 1] = r
      /\ \A i \in DOMAIN poolQueue[k] :
            i \in DOMAIN poolQueue'[k] /\ poolQueue'[k][i] = poolQueue[k][i]
      /\ \A i \in DOMAIN poolQueue'[k] : i \in DOMAIN poolQueue[k] \/ i = L + 1
      /\ \A s \in Sims \ {k} : poolQueue'[s] = poolQueue[s]
  <2>1. poolQueue'[k] = Append(poolQueue[k], r)
    BY <1>t, ServiceTypes
  <2>2. \A s \in Sims \ {k} : poolQueue'[s] = poolQueue[s]
    BY <1>t, ServiceTypes
  <2> HIDE DEF k, r
  <2> QED
    BY <1>t, <1>r, <2>1, <2>2, AppendFacts
<1> HIDE DEF r, k, L
<1> USE DEF ServiceInv
<1>1. \A x : x \in Queued' => x \in Queued \/ x = r
  <2> SUFFICES ASSUME NEW s \in Sims, NEW i \in DOMAIN poolQueue'[s]
               PROVE  poolQueue'[s][i] \in Queued \/ poolQueue'[s][i] = r
    BY DEF Queued
  <2> QED
    BY <1>q, ServiceTypes
<1>2. NodesDistinct'
  BY <1>t DEF NodesDistinct
<1>3. WorksOnHead'
  BY <1>t DEF WorksOnHead
<1>4. HandledIsHead'
  <2> SUFFICES ASSUME NEW u \in Dispatchers, NEW m \in Serves(u), NEW i \in DOMAIN list[m],
                      list[m][i] \in Handled'
               PROVE  i = 1 /\ cur[u] = list[m][i] /\ pc'[u] \in {"putChannel", "remove"}
    BY <1>t DEF HandledIsHead
  <2>1. list[m][i] \in Handled \/ list[m][i] = r
    BY <1>t, <1>1 DEF Handled
  <2>2. CASE list[m][i] \in Handled
    <3>1. i = 1 /\ cur[u] = list[m][i] /\ pc[u] \in {"putChannel", "remove"}
      BY <2>2 DEF HandledIsHead
    <3> QED
      BY <1>t, <3>1, ServiceTypes
  <2>3. CASE list[m][i] = r
    <3>1. m \in Lists /\ m = ListOf(r)
      BY <2>3, ServesLists, ServiceTypes DEF ListsHoldOwn
    <3>2. u = t
      BY <1>l, <3>1, OneServer
    <3>3. i = 1
      BY <1>l, <2>3, <3>1 DEF NodesDistinct
    <3> QED
      BY <1>t, <2>3, <3>2, <3>3, ServiceTypes DEF r
  <2> QED
    BY <2>1, <2>2, <2>3
<1>5. PoolHasOnce'
  <2>1. ASSUME NEW s \in Sims, NEW u \in Sims,
               NEW i \in DOMAIN poolQueue'[s], NEW j \in DOMAIN poolQueue'[u],
               poolQueue'[s][i] = poolQueue'[u][j]
        PROVE  s = u /\ i = j
    <3>1. r \notin Queued
      BY <1>h DEF Handled
    <3>2. \A v \in Sims : \A n \in DOMAIN poolQueue'[v] :
             \/ n \in DOMAIN poolQueue[v] /\ poolQueue'[v][n] = poolQueue[v][n]
                  /\ poolQueue'[v][n] # r
             \/ v = k /\ n = L + 1 /\ poolQueue'[v][n] = r
      BY <1>q, <3>1, ServiceTypes
    <3> QED
      BY <2>1, <3>2 DEF PoolHasOnce
  <2>2. \A x \in Served : x \notin Queued'
    BY <1>1, <1>h DEF PoolHasOnce, Handled
  <2>3. \A w \in Pool : cur[w] \notin Queued'
    <3> SUFFICES ASSUME NEW w \in Pool, cur[w] \in Queued' PROVE FALSE
      OBVIOUS
    <3>1. \E s \in Sims : \E i \in DOMAIN poolQueue'[s] : poolQueue'[s][i] = cur[w]
      BY <1>t DEF Queued
    <3>2. cur[w] \in Queued \/ cur[w] = r
      BY <1>q, <3>1 DEF Queued
    <3> QED
      BY <1>h, <1>r, <3>2 DEF PoolHasOnce, Handled
  <2>4. \A w \in Pool : pc'[w] = pc[w]
    BY <1>t, ServiceTypes
  <2> QED
    BY <1>t, <2>1, <2>2, <2>3, <2>4 DEF PoolHasOnce
<1>6. ServedBeforeUnlinked'
  BY <1>t, <1>l, ServiceTypes DEF ServedBeforeUnlinked
<1> QED
  BY <1>2, <1>3, <1>4, <1>5, <1>6

\* What request_list_remove unlinks is the head.
LEMMA RemovesHead ==
  ASSUME ServiceInv, NEW t \in Dispatchers, request_list_remove(t)
  PROVE  /\ cur[t] \in Requests /\ ListOf(cur[t]) \in Lists /\ ListOf(cur[t]) \in Serves(t)
         /\ list[ListOf(cur[t])] \in Seq(Requests) /\ list[ListOf(cur[t])] # <<>>
         /\ cur[t] = list[ListOf(cur[t])][1]
         /\ list' = [list EXCEPT ![ListOf(cur[t])] = Tail(list[ListOf(cur[t])])]
<1> DEFINE l == ListOf(cur[t])
<1>1. cur[t] \in Requests /\ l \in Lists /\ list[l] \in Seq(Requests)
  BY ServiceTypes, ListOfIsList DEF request_list_remove, Move, ProcessorsHaveRequests
<1>2. l \in Serves(t) /\ list[l] # <<>> /\ cur[t] = list[l][1]
  BY <1>1, ServiceTypes DEF ServiceInv, WorksOnHead, ThreadsServeOwn
<1>3. PICK i \in DOMAIN list[l] : list[l][i] = cur[t] /\ list' = [list EXCEPT ![l] = Unlinked(list[l], i)]
  BY DEF request_list_remove
<1>4. 1 \in DOMAIN list[l]
  BY <1>1, <1>2
<1>5. i = 1
  BY <1>1, <1>2, <1>3, <1>4 DEF ServiceInv, NodesDistinct
<1>6. Unlinked(list[l], i) = Tail(list[l])
  BY <1>1, <1>2, <1>5, UnlinkedHead
<1> QED
  BY <1>1, <1>2, <1>3, <1>6

LEMMA ServiceRemove ==
  ASSUME ServiceInv, RouteInv', NEW t \in Dispatchers, request_list_remove(t)
  PROVE  ServiceInv'
<1> DEFINE l == ListOf(cur[t])
<1>t. /\ pc[t] = "remove" /\ pc' = [pc EXCEPT ![t] = "select"]
      /\ cur' = [cur EXCEPT ![t] = NoReq]
      /\ UNCHANGED <<submitted, poolQueue, Served>>
  BY DEF request_list_remove, Move, answerVars, Served
<1>l. /\ l \in Lists /\ l \in Serves(t) /\ list[l] \in Seq(Requests) /\ list[l] # <<>>
      /\ cur[t] = list[l][1] /\ list'[l] = Tail(list[l])
      /\ \A m \in Lists \ {l} : list'[m] = list[m]
  BY RemovesHead, ServiceTypes
<1>a. /\ \A i \in DOMAIN list'[l] :
            i \in Nat \ {0} /\ i + 1 \in DOMAIN list[l] /\ list'[l][i] = list[l][i + 1]
      /\ 1 \in DOMAIN list[l]
  BY <1>l, TailFacts
<1>u. /\ cur'[t] = NoReq
      /\ \A u \in Threads \ {t} : cur'[u] = cur[u] /\ pc'[u] = pc[u]
  BY <1>t, ServiceTypes
<1> HIDE DEF l
<1> USE DEF ServiceInv
<1>1. NodesDistinct'
  <2> SUFFICES ASSUME NEW m \in Lists, NEW i \in DOMAIN list'[m], NEW j \in DOMAIN list'[m],
                      list'[m][i] = list'[m][j]
               PROVE  i = j
    BY DEF NodesDistinct
  <2>1. CASE m = l
    <3>1. /\ i + 1 \in DOMAIN list[l] /\ j + 1 \in DOMAIN list[l]
          /\ list[l][i + 1] = list[l][j + 1] /\ i \in Nat /\ j \in Nat
      BY <1>a, <2>1
    <3>2. \A a, b \in DOMAIN list[l] : list[l][a] = list[l][b] => a = b
      BY <1>l DEF NodesDistinct
    <3>3. i + 1 = j + 1
      BY <3>1, <3>2
    <3> QED
      BY <3>1, <3>3
  <2>2. CASE m # l
    BY <1>l, <2>2 DEF NodesDistinct
  <2> QED
    BY <2>1, <2>2
<1>2. WorksOnHead'
  <2> SUFFICES ASSUME NEW u \in Dispatchers, cur'[u] # NoReq
               PROVE  list'[ListOf(cur'[u])] # <<>> /\ cur'[u] = list'[ListOf(cur'[u])][1]
    BY DEF WorksOnHead
  <2>1. u # t /\ cur'[u] = cur[u] /\ ListOf(cur[u]) \in Serves(u)
    BY <1>u, ServiceTypes DEF ThreadsServeOwn
  <2>2. ListOf(cur[u]) # l /\ ListOf(cur[u]) \in Lists
    BY <1>l, <2>1, OneServer, ServesLists
  <2> QED
    BY <1>l, <2>1, <2>2 DEF WorksOnHead
<1>3. Handled' \subseteq Handled
  BY <1>t, <1>u, ServiceTypes DEF Handled, Queued
<1>4. HandledIsHead'
  <2> SUFFICES ASSUME NEW u \in Dispatchers, NEW m \in Serves(u), NEW i \in DOMAIN list'[m],
                      list'[m][i] \in Handled'
               PROVE  i = 1 /\ cur'[u] = list'[m][i] /\ pc'[u] \in {"putChannel", "remove"}
    BY DEF HandledIsHead
  <2>m. m \in Lists
    BY ServesLists
  <2>1. CASE m = l
    <3>1. u = t
      BY <1>l, <2>1, OneServer
    <3>2. list'[m][i] \in Requests
      BY <1>l, <1>a, <2>1, ServiceTypes
    <3>3. list[l][i + 1] \in Handled
      BY <1>a, <1>3, <2>1, <3>2
    <3>4. i + 1 = 1
      <4>1. i + 1 \in DOMAIN list[l]
        BY <1>a, <2>1
      <4>2. t \in Dispatchers /\ l \in Serves(t) /\ HandledIsHead
        BY <1>l
      <4> QED
        BY <3>3, <4>1, <4>2 DEF HandledIsHead
    <3> QED
      BY <1>a, <2>1, <3>4
  <2>2. CASE m # l
    <3>1. list'[m] = list[m] /\ list[m][i] \in Requests
      BY <1>l, <2>m, <2>2, ServiceTypes
    <3>2. list[m][i] \in Handled
      BY <1>3, <3>1
    <3>3. i = 1 /\ cur[u] = list[m][i] /\ pc[u] \in {"putChannel", "remove"}
      BY <3>1, <3>2 DEF HandledIsHead
    <3>4. u # t
      BY <2>m, <2>2, <3>1, <3>3, ServiceTypes DEF ListsHoldOwn, l
    <3> QED
      BY <1>u, <3>1, <3>3, <3>4, ServiceTypes
  <2> QED
    BY <2>1, <2>2
<1>5. PoolHasOnce'
  <2>1. \A w \in Pool : cur'[w] = cur[w] /\ pc'[w] = pc[w]
    BY <1>u, ServiceTypes
  <2>2. Queued' = Queued
    BY <1>t DEF Queued
  <2> QED
    BY <1>t, <2>1, <2>2 DEF PoolHasOnce
<1>6. ServedBeforeUnlinked'
  BY <1>t, <1>u, ServiceTypes DEF ServedBeforeUnlinked
<1> QED
  BY <1>1, <1>2, <1>4, <1>5, <1>6

LEMMA ServiceWorker ==
  ASSUME ServiceInv, RouteInv', NEW w \in Pool, CommandThread(w)
  PROVE  ServiceInv'
<1> DEFINE k == w[1]
           r == Head(poolQueue[k])
<1>t. /\ pc' = [pc EXCEPT ![w] = "begin"] /\ cur' = [cur EXCEPT ![w] = r]
      /\ poolQueue' = [poolQueue EXCEPT ![k] = Tail(poolQueue[k])]
      /\ k \in Sims /\ poolQueue[k] \in Seq(Requests) /\ poolQueue[k] # <<>>
      /\ UNCHANGED <<list, submitted, Served>>
  BY PoolSims, ServiceTypes DEF CommandThread, listVars, Move, answerVars, Served
<1>q. /\ 1 \in DOMAIN poolQueue[k] /\ r = poolQueue[k][1]
      /\ \A i \in DOMAIN poolQueue'[k] :
            i \in Nat \ {0} /\ i + 1 \in DOMAIN poolQueue[k] /\ poolQueue'[k][i] = poolQueue[k][i + 1]
      /\ \A s \in Sims \ {k} : poolQueue'[s] = poolQueue[s]
  <2>1. poolQueue'[k] = Tail(poolQueue[k])
    BY <1>t, ServiceTypes
  <2>2. \A s \in Sims \ {k} : poolQueue'[s] = poolQueue[s]
    BY <1>t, ServiceTypes
  <2> DEFINE s == poolQueue[k]
  <2>3. s \in Seq(Requests) /\ s # <<>>
    BY <1>t
  <2> HIDE DEF s
  <2>4. /\ 1 \in DOMAIN s /\ Head(s) = s[1]
        /\ \A i \in DOMAIN Tail(s) :
               i \in Nat \ {0} /\ i + 1 \in DOMAIN s /\ Tail(s)[i] = s[i + 1]
    BY <2>3, TailFacts
  <2> QED
    BY <2>1, <2>2, <2>4 DEF s
<1>u. /\ cur'[w] = r /\ \A u \in Threads \ {w} : cur'[u] = cur[u] /\ pc'[u] = pc[u]
      /\ \A u \in Dispatchers : cur'[u] = cur[u] /\ pc'[u] = pc[u]
      /\ w \in Threads
  BY <1>t, ServiceTypes
<1> HIDE DEF r, k
<1> USE DEF ServiceInv
<1>r. r \in Queued
  BY <1>t, <1>q DEF Queued
<1>s. \A s \in Sims : \A i \in DOMAIN poolQueue'[s] :
         \E j \in DOMAIN poolQueue[s] :
            /\ poolQueue'[s][i] = poolQueue[s][j]
            /\ j = IF s = k THEN i + 1 ELSE i
            /\ s = k => i \in Nat \ {0}
  BY <1>q
<1>1. \A x : x \in Queued' => x \in Queued /\ x # r
  <2> SUFFICES ASSUME NEW s \in Sims, NEW i \in DOMAIN poolQueue'[s]
               PROVE  poolQueue'[s][i] \in Queued /\ poolQueue'[s][i] # r
    BY DEF Queued
  <2>1. PICK j \in DOMAIN poolQueue[s] :
            /\ poolQueue'[s][i] = poolQueue[s][j]
            /\ j = IF s = k THEN i + 1 ELSE i
            /\ s = k => i \in Nat \ {0}
    BY <1>s
  <2>2. poolQueue[s][j] = r => s = k /\ j = 1
    BY <1>t, <1>q DEF PoolHasOnce
  <2> QED
    BY <2>1, <2>2, ServiceTypes
<1>2. NodesDistinct' /\ WorksOnHead'
  BY <1>t, <1>u DEF NodesDistinct, WorksOnHead
<1>3. Handled' \subseteq Handled
  <2> SUFFICES ASSUME NEW q, q \in Handled' PROVE q \in Handled
    OBVIOUS
  <2>1. q \in Served \/ q \in Queued' \/ (q \in Requests /\ \E x \in Pool : cur'[x] = q)
    BY <1>t DEF Handled
  <2> QED
    <3>1. CASE q \in Served \/ q \in Queued'
      BY <1>1, <3>1 DEF Handled
    <3>2. ASSUME NEW x \in Pool, cur'[x] = q, q \in Requests PROVE q \in Handled
      BY <1>u, <1>r, <3>2, ServiceTypes DEF Handled
    <3> QED
      BY <2>1, <3>1, <3>2
<1>4. HandledIsHead'
  <2> SUFFICES ASSUME NEW u \in Dispatchers, NEW m \in Serves(u), NEW i \in DOMAIN list[m],
                      list[m][i] \in Handled
               PROVE  i = 1 /\ cur[u] = list[m][i] /\ pc[u] \in {"putChannel", "remove"}
    BY <1>t, <1>u, <1>3 DEF HandledIsHead
  <2> QED
    BY DEF HandledIsHead
<1>5. PoolHasOnce'
  <2>1. ASSUME NEW s \in Sims, NEW u \in Sims,
               NEW i \in DOMAIN poolQueue'[s], NEW j \in DOMAIN poolQueue'[u],
               poolQueue'[s][i] = poolQueue'[u][j]
        PROVE  s = u /\ i = j
    <3>1. PICK a \in DOMAIN poolQueue[s] :
            /\ poolQueue'[s][i] = poolQueue[s][a]
            /\ a = IF s = k THEN i + 1 ELSE i
            /\ s = k => i \in Nat \ {0}
      BY <1>s
    <3>2. PICK b \in DOMAIN poolQueue[u] :
            /\ poolQueue'[u][j] = poolQueue[u][b]
            /\ b = IF u = k THEN j + 1 ELSE j
            /\ u = k => j \in Nat \ {0}
      BY <1>s
    <3>3. \A x, y \in Sims : \A c \in DOMAIN poolQueue[x], d \in DOMAIN poolQueue[y] :
             poolQueue[x][c] = poolQueue[y][d] => x = y /\ c = d
      BY DEF PoolHasOnce
    <3>4. poolQueue[s][a] = poolQueue[u][b]
      BY <2>1, <3>1, <3>2
    <3>5. s = u /\ a = b
      BY <3>3, <3>4
    <3> QED
      BY <3>1, <3>2, <3>5
  <2>2. \A x \in Served : x \notin Queued'
    BY <1>1 DEF PoolHasOnce
  <2>3. ASSUME NEW x \in Pool, cur'[x] \in Queued' PROVE FALSE
    <3>1. cur'[x] \in Queued /\ cur'[x] # r
      BY <1>1, <2>3
    <3> QED
      BY <1>u, <3>1, ServiceTypes DEF PoolHasOnce
  <2>4. ASSUME NEW x \in Pool, NEW y \in Pool, cur'[x] = cur'[y], cur'[x] # NoReq
        PROVE  x = y
    BY <1>u, <1>r, <2>4, ServiceTypes DEF PoolHasOnce
  <2>5. \A x \in Pool : cur'[x] \in submitted \cup {NoReq}
    BY <1>u, <1>r, ServiceTypes DEF PoolHasOnce
  <2>6. \A x \in Pool : pc'[x] \in Processing => cur'[x] \notin Served
    BY <1>u, <1>r, ServiceTypes DEF PoolHasOnce
  <2> QED
    BY <1>t, <2>1, <2>2, <2>3, <2>4, <2>5, <2>6 DEF PoolHasOnce
<1>6. ServedBeforeUnlinked'
  BY <1>t, <1>u, ServiceTypes DEF ServedBeforeUnlinked
<1> QED
  BY <1>2, <1>4, <1>5, <1>6

\* A serial thread answers the head of its list.
LEMMA SerialAnswers ==
  ASSUME ServiceInv, NEW t \in Serial, pc[t] \in Processing
  PROVE  /\ cur[t] \in Requests /\ cur[t] \in submitted /\ cur[t] \notin Handled
         /\ ListOf(cur[t]) \in Serves(t) /\ ListOf(cur[t]) \in Lists
         /\ list[ListOf(cur[t])] # <<>> /\ cur[t] = list[ListOf(cur[t])][1]
         /\ 1 \in DOMAIN list[ListOf(cur[t])]
<1> DEFINE r == cur[t]
<1>1. r \in Requests /\ r \in submitted /\ ListOf(r) \in Serves(t) /\ ListOf(r) \in Lists
  BY ServiceTypes, ListOfIsList DEF Processing, ProcessorsHaveRequests, ThreadsServeOwn
<1>2. list[ListOf(r)] # <<>> /\ r = list[ListOf(r)][1]
  BY <1>1, ServiceTypes DEF ServiceInv, WorksOnHead
<1>3. 1 \in DOMAIN list[ListOf(r)]
  BY <1>1, <1>2, ServiceTypes
<1>4. r \notin Handled
  BY <1>1, <1>2, <1>3, ServiceTypes DEF ServiceInv, HandledIsHead, Processing
<1> QED
  BY <1>1, <1>2, <1>3, <1>4

LEMMA ServiceSerialAnswer ==
  ASSUME ServiceInv, RouteInv', NEW t \in Serial, pc[t] \in Processing,
         NEW p \in {"putChannel", "remove"}, pc' = [pc EXCEPT ![t] = p],
         Served' = Served \cup {cur[t]},
         UNCHANGED <<list, submitted, cur, poolQueue>>
  PROVE  ServiceInv'
<1> DEFINE r == cur[t]
<1> USE DEF ServiceInv
<1>r. /\ r \in Requests /\ r \notin Handled /\ ListOf(r) \in Serves(t)
      /\ ListOf(r) \in Lists /\ r = list[ListOf(r)][1] /\ 1 \in DOMAIN list[ListOf(r)]
  BY SerialAnswers
<1>u. /\ t \in Threads /\ t \in Dispatchers /\ t \notin Pool /\ pc'[t] = p
      /\ \A u \in Threads \ {t} : pc'[u] = pc[u]
  BY ServiceTypes
<1> HIDE DEF r
<1>1. NodesDistinct' /\ WorksOnHead'
  BY DEF NodesDistinct, WorksOnHead
<1>2. Queued' = Queued
  BY DEF Queued
<1>3. Handled' = Handled \cup {r}
  BY <1>2 DEF Handled, r
<1>4. HandledIsHead'
  <2> SUFFICES ASSUME NEW u \in Dispatchers, NEW m \in Serves(u), NEW i \in DOMAIN list[m],
                      list[m][i] \in Handled \cup {r}
               PROVE  i = 1 /\ cur[u] = list[m][i] /\ pc'[u] \in {"putChannel", "remove"}
    BY <1>3 DEF HandledIsHead
  <2>1. CASE list[m][i] \in Handled
    BY <1>u, <2>1, ServiceTypes DEF HandledIsHead
  <2>2. CASE list[m][i] = r
    <3>1. m \in Lists /\ m = ListOf(r)
      BY <2>2, ServesLists, ServiceTypes DEF ListsHoldOwn
    <3>2. u = t
      BY <1>r, <1>u, <3>1, OneServer
    <3>3. i = 1
      BY <1>r, <2>2, <3>1 DEF NodesDistinct
    <3> QED
      BY <1>u, <2>2, <3>2, <3>3 DEF r
  <2> QED
    BY <2>1, <2>2
<1>5. PoolHasOnce'
  <2>1. \A w \in Pool : pc'[w] = pc[w] /\ cur[w] # r
    BY <1>r, <1>u, ServiceTypes DEF Handled
  <2>2. r \notin Queued
    BY <1>r DEF Handled
  <2>3. Served' = Served \cup {r}
    BY DEF r
  <2> QED
    BY <1>2, <2>1, <2>2, <2>3 DEF PoolHasOnce
<1>6. ServedBeforeUnlinked'
  BY <1>u, ServiceTypes DEF ServedBeforeUnlinked, r
<1> QED
  BY <1>1, <1>4, <1>5, <1>6

LEMMA ServicePoolAnswer ==
  ASSUME ServiceInv, RouteInv', NEW w \in Pool, pc[w] \in Processing,
         NEW p \in {"putChannel", "idle"}, pc' = [pc EXCEPT ![w] = p],
         NEW c \in {cur[w], NoReq}, cur' = [cur EXCEPT ![w] = c],
         Served' = Served \cup {cur[w]},
         UNCHANGED <<list, submitted, poolQueue>>
  PROVE  ServiceInv'
<1> DEFINE r == cur[w]
<1> USE DEF ServiceInv
<1>r. r \in Requests /\ r # NoReq /\ r \in Handled /\ r \notin Queued
  BY ServiceTypes DEF Processing, ProcessorsHaveRequests, Handled, PoolHasOnce
<1>u. /\ w \in Threads /\ cur'[w] = c /\ pc'[w] = p
      /\ \A u \in Threads \ {w} : cur'[u] = cur[u] /\ pc'[u] = pc[u]
      /\ \A u \in Dispatchers : cur'[u] = cur[u] /\ pc'[u] = pc[u]
  BY ServiceTypes
<1>a. Served' = Served \cup {r}
  OBVIOUS
<1> HIDE DEF r
<1>1. NodesDistinct' /\ WorksOnHead'
  BY <1>u DEF NodesDistinct, WorksOnHead
<1>2. Queued' = Queued
  BY DEF Queued
<1>3. Handled' \subseteq Handled
  <2>1. \A x \in Pool : cur'[x] # NoReq => cur'[x] = cur[x]
    BY <1>u, ServiceTypes
  <2> QED
    BY <1>r, <1>a, <1>2, <2>1, ServiceTypes DEF Handled
<1>4. HandledIsHead'
  <2> SUFFICES ASSUME NEW u \in Dispatchers, NEW m \in Serves(u), NEW i \in DOMAIN list[m],
                      list[m][i] \in Handled
               PROVE  i = 1 /\ cur[u] = list[m][i] /\ pc[u] \in {"putChannel", "remove"}
    BY <1>u, <1>3 DEF HandledIsHead
  <2> QED
    BY DEF HandledIsHead
<1>5. PoolHasOnce'
  <2>1. \A x \in Pool : cur'[x] \in {cur[x], NoReq}
    BY <1>u, ServiceTypes
  <2>2. NoReq \notin Queued
    BY ServiceTypes
  <2>3. \A x \in Pool : pc'[x] \in Processing => x # w /\ cur'[x] = cur[x] /\ pc[x] \in Processing
    BY <1>u, ServiceTypes DEF Processing
  <2>4. \A x \in Pool : x # w => cur[x] # r
    BY <1>r DEF PoolHasOnce, r
  <2> QED
    BY <1>r, <1>a, <1>2, <2>1, <2>2, <2>3, <2>4 DEF PoolHasOnce
<1>6. ServedBeforeUnlinked'
  BY <1>u, ServiceTypes DEF ServedBeforeUnlinked
<1> QED
  BY <1>1, <1>4, <1>5, <1>6

LEMMA ServiceStep == ServiceInv /\ [Next]_vars => ServiceInv'
<1> SUFFICES ASSUME ServiceInv, [Next]_vars PROVE ServiceInv'
  OBVIOUS
<1>r. RouteInv'
  BY RouteStep DEF ServiceInv
<1>t. /\ cur \in [Threads -> Requests \cup {NoReq}] /\ pc \in [Threads -> PCs]
      /\ Dispatchers \subseteq Threads /\ Pool \subseteq Threads
      /\ Pool \cap Dispatchers = {} /\ Processors = Serial \cup Pool
      /\ Serial \subseteq Dispatchers
  BY ServiceTypes
<1> USE <1>r, <1>t DEF Move, listVars, chanVars, answerVars, Served
<1>1. ASSUME NEW r \in Requests, request_list_add_tail(r) PROVE ServiceInv'
  BY <1>1, ServiceAppend
<1>2. ASSUME NEW r \in Requests, signalDispatch(r) PROVE ServiceInv'
  BY <1>2, ServiceQuiet DEF signalDispatch
<1>3. ASSUME NEW t \in Dispatchers, checkLists(t) \/ spuriousWakeup(t) PROVE ServiceInv'
  BY <1>3, ServiceQuiet DEF checkLists, spuriousWakeup
<1>4. ASSUME NEW t \in Dispatchers, selectRequest(t) PROVE ServiceInv'
  BY <1>4, ServiceSelect
<1>5. ASSUME NEW t \in Dispatchers, dispatchToPool(t) PROVE ServiceInv'
  BY <1>5, ServiceDispatch
<1>6. ASSUME NEW t \in Dispatchers, request_list_remove(t) PROVE ServiceInv'
  BY <1>6, ServiceRemove
<1>7. ASSUME NEW w \in Pool, CommandThread(w) PROVE ServiceInv'
  BY <1>7, ServiceWorker
<1>8. ASSUME NEW t \in Processors, admitRequest(t) \/ getChannel(t) PROVE ServiceInv'
  BY <1>8, ServiceQuiet DEF admitRequest, getChannel, Processing
<1>9. ASSUME NEW t \in Processors, putChannel(t) PROVE ServiceInv'
  BY <1>9, ServiceQuiet DEF putChannel, AfterProcess, Done, Processing
<1>10. ASSUME NEW t \in Serial, rejectRequest(t) PROVE ServiceInv'
  BY <1>10, ServiceSerialAnswer DEF rejectRequest, AfterProcess, Done, Processing
<1>11. ASSUME NEW t \in Serial, handleRequest(t) \/ deferAnswer(t) PROVE ServiceInv'
  BY <1>11, ServiceSerialAnswer DEF handleRequest, deferAnswer, Processing
<1>12. ASSUME NEW w \in Pool, rejectRequest(w) PROVE ServiceInv'
  BY <1>12, ServicePoolAnswer DEF rejectRequest, AfterProcess, Done, Processing
<1>13. ASSUME NEW w \in Pool, handleRequest(w) \/ deferAnswer(w) PROVE ServiceInv'
  <2>1. cur' = [cur EXCEPT ![w] = cur[w]]
    BY <1>13 DEF handleRequest, deferAnswer
  <2> QED
    BY <1>13, <2>1, ServicePoolAnswer DEF handleRequest, deferAnswer, Processing
<1>14. CASE setChannelOpened \/ (\E r \in Requests : answerDeferred(r)) \/ UNCHANGED vars
  BY <1>14, ServiceQuiet DEF setChannelOpened, answerDeferred, vars
<1> QED
  BY <1>1, <1>2, <1>3, <1>4, <1>5, <1>6, <1>7, <1>8, <1>9, <1>10, <1>11, <1>12, <1>13,
     <1>14, StepCases

-----------------------------------------------------------------------------
(* What a step of the scheduler is to RequestService.                      *)
LEMMA SerialAreLists ==
  /\ SerialLists \subseteq Lists
  /\ SerialLists \cap OtherLists = {}
  /\ \A r \in Requests : ListOf(r) \in SerialLists \/ ListOf(r) \in OtherLists
  /\ \A l \in SerialLists : \E t \in Serial : l \in Serves(t)
<1>1. SerialLists \subseteq Lists
  BY ServesLists DEF SerialLists, Dispatchers
<1>2. \A l \in SerialLists : \E t \in Serial : l \in Serves(t)
  BY DEF SerialLists
<1>3. SerialLists \cap OtherLists = {}
  BY DEF SerialLists, OtherLists, Serial, Serves, DataList
<1>4. ASSUME NEW r \in Requests PROVE ListOf(r) \in SerialLists \/ ListOf(r) \in OtherLists
  <2>1. \/ ListOf(r) \in OtherLists
        \/ \E t \in {<<SimOf[r], "slow">>, <<SimOf[r], "normal">>, DataList} :
              ListOf(r) \in Serves(t)
    <3>1. SimOf[r] \in Sims /\ KindOf[r] \in Kinds
      BY RequestThreadsAssumption
    <3>2. getCmdType(KindOf[r]) \in {"SLOW", "NORMAL_FAST", "NORMAL_SLOW", "DATA", "OTHER"}
      BY <3>1 DEF getCmdType, Kinds
    <3> QED
      BY <3>1, <3>2 DEF ListOf, OtherLists, Serves, DataList
  <2>2. {<<SimOf[r], "slow">>, <<SimOf[r], "normal">>, DataList} \subseteq Serial
    BY RequestThreadsAssumption DEF Serial
  <2> QED
    BY <2>1, <2>2 DEF SerialLists
<1> QED
  BY <1>1, <1>2, <1>3, <1>4

\* Only requests of the slow and the normal threads may be left to a line.
LEMMA DeferrableIsSerial ==
  ASSUME NEW r \in Deferrable
  PROVE  r \in Requests /\ ListOf(r) \notin OtherLists
<1>1. r \in Requests /\ KindOf[r] \in {"slow", "call"}
  BY RequestThreadsAssumption
<1>2. getCmdType(KindOf[r]) \in {"SLOW", "NORMAL_FAST"}
  BY <1>1 DEF getCmdType
<1> QED
  BY <1>1, <1>2 DEF ListOf, OtherLists

LEMMA ServiceStarts == Init => Service!Init
<1> SUFFICES ASSUME Init PROVE Service!Init
  OBVIOUS
<1>1. \A l \in SerialLists : Unserved(l) = <<>>
  BY SerialAreLists DEF Init, Unserved
<1> QED
  BY <1>1 DEF Init, Service!Init

\* A step that adds no request and answers none.
LEMMA ServiceStutter ==
  ASSUME UNCHANGED <<submitted, answerVars>>,
         \A l \in SerialLists : Unserved(l)' = Unserved(l)
  PROVE  UNCHANGED Service!vars
  BY DEF Service!vars, answerVars

LEMMA AppendIsSubmit ==
  ASSUME ServiceInv, NEW r \in Requests, request_list_add_tail(r)
  PROVE  Service!Submit(r)
<1> DEFINE l == ListOf(r)
<1>t. /\ r \notin submitted /\ r \notin Served /\ l \in Lists
      /\ r \notin answered /\ r \notin deferred
      /\ list' = [list EXCEPT ![l] = Append(list[l], r)]
      /\ submitted' = submitted \cup {r} /\ UNCHANGED <<answered, deferred, Served>>
      /\ list[l] \in Seq(Requests)
  BY ServiceTypes, ListOfIsList DEF request_list_add_tail, answerVars, Served
<1>1. \A m \in Lists : m # l => list'[m] = list[m]
  BY <1>t, ServiceTypes
<1>2. list'[l] = Append(list[l], r)
  BY <1>t, ServiceTypes
<1>3. \A m \in SerialLists : m # l => Unserved(m)' = Unserved(m)
  BY <1>t, <1>1, SerialAreLists DEF Unserved
<1>4. Unserved(l)' = Append(Unserved(l), r)
  <2>1. Unserved(l)' = IF list'[l] # <<>> /\ Head(list'[l]) \in Served
                         THEN Tail(list'[l]) ELSE list'[l]
    BY <1>t DEF Unserved
  <2> DEFINE s == list[l]
  <2>2. s \in Seq(Requests)
    BY <1>t
  <2> HIDE DEF l, s
  <2>3. CASE s = <<>>
    <3>1. Append(s, r) # <<>> /\ Head(Append(s, r)) = r
      BY <2>3
    <3> QED
      BY <1>t, <1>2, <2>1, <2>3, <3>1 DEF Unserved, s
  <2>4. CASE s # <<>>
    <3>1. /\ Append(s, r) # <<>> /\ Head(Append(s, r)) = Head(s)
          /\ Tail(Append(s, r)) = Append(Tail(s), r)
      BY <2>2, <2>4
    <3> QED
      BY <1>t, <1>2, <2>1, <2>4, <3>1 DEF Unserved, s
  <2> QED
    BY <2>3, <2>4
<1>5. \A i \in DOMAIN Unserved(l) : Unserved(l)[i] # r
  <2>1. \A i \in DOMAIN list[l] : list[l][i] # r
    BY <1>t, ServiceTypes DEF ListsHoldSubmitted
  <2>2. list[l] # <<>> => \A i \in DOMAIN Tail(list[l]) :
           i + 1 \in DOMAIN list[l] /\ Tail(list[l])[i] = list[l][i + 1]
    BY <1>t
  <2> QED
    BY <2>1, <2>2 DEF Unserved
<1> HIDE DEF l
<1>6. ~Service!Submitted(r)
  BY <1>t, <1>5 DEF Service!Submitted, Service!Ordered, l
<1>7. CASE l \in SerialLists
  <2>1. {q \in submitted' \ answered' :
            ListOf(q) \notin SerialLists \/ q \in deferred'}
           = {q \in submitted \ answered :
                 ListOf(q) \notin SerialLists \/ q \in deferred}
    BY <1>t, <1>7 DEF l
  <2>2. [m \in SerialLists |-> Unserved(m)']
           = [[m \in SerialLists |-> Unserved(m)] EXCEPT ![l] = Append(Unserved(l), r)]
    BY <1>3, <1>4, <1>7
  <2> QED
    BY <1>t, <1>6, <1>7, <2>1, <2>2 DEF Service!Submit, Service!Ordered, l
<1>8. CASE l \notin SerialLists
  <2>1. {q \in submitted' \ answered' :
            ListOf(q) \notin SerialLists \/ q \in deferred'}
           = {q \in submitted \ answered :
                 ListOf(q) \notin SerialLists \/ q \in deferred} \cup {r}
    BY <1>t, <1>8 DEF l
  <2>2. [m \in SerialLists |-> Unserved(m)'] = [m \in SerialLists |-> Unserved(m)]
    BY <1>3, <1>8
  <2> QED
    BY <1>t, <1>6, <1>8, <2>1, <2>2 DEF Service!Submit, Service!Ordered, l
<1> QED
  BY <1>7, <1>8

\* A serial thread that is done with its request takes it from the fifo.
LEMMA SerialServes ==
  ASSUME ServiceInv, NEW t \in Serial, pc[t] \in Processing,
         Served' = Served \cup {cur[t]}, UNCHANGED list
  PROVE  LET r == cur[t]
             l == ListOf(r)
         IN  /\ r \in Requests /\ r \in submitted /\ r \notin Served /\ l \in SerialLists
             /\ Unserved(l) # <<>> /\ r = Head(Unserved(l))
             /\ [m \in SerialLists |-> Unserved(m)']
                   = [[m \in SerialLists |-> Unserved(m)] EXCEPT ![l] = Tail(Unserved(l))]
<1> DEFINE r == cur[t]
<1>l. PICK l \in SerialLists : l = ListOf(r)
  BY SerialAnswers DEF SerialLists
<1>t. /\ r \in Requests /\ r \in submitted /\ r \notin Served /\ l \in Lists
      /\ list[l] \in Seq(Requests) /\ list[l] # <<>> /\ r = Head(list[l])
  BY <1>l, SerialAnswers, ServiceTypes DEF Handled
<1> HIDE DEF r
<1>1. Unserved(l) = list[l] /\ Unserved(l)' = Tail(list[l])
  BY <1>t DEF Unserved, r
<1>2. ASSUME NEW m \in SerialLists, m # l PROVE Unserved(m)' = Unserved(m)
  <2>1. m \in Lists /\ list[m] \in Seq(Requests)
    BY SerialAreLists, ServiceTypes
  <2>2. list[m] # <<>> => 1 \in DOMAIN list[m] /\ Head(list[m]) = list[m][1]
    BY <2>1
  <2>3. list[m] # <<>> => Head(list[m]) # r
    BY <1>l, <1>2, <2>1, <2>2, ServiceTypes DEF ListsHoldOwn
  <2> QED
    BY <2>3 DEF Unserved, r
<1>3. [m \in SerialLists |-> Unserved(m)']
         = [[m \in SerialLists |-> Unserved(m)] EXCEPT ![l] = Tail(Unserved(l))]
  BY <1>t, <1>1, <1>2
<1> QED
  BY <1>l, <1>t, <1>1, <1>3 DEF r

LEMMA SerialAnswerIsAnswer ==
  ASSUME ServiceInv, NEW t \in Serial, pc[t] \in Processing, NEW r, r = cur[t],
         answered' = answered \cup {r}, UNCHANGED <<list, submitted, deferred>>
  PROVE  Service!Answer(r)
<1> DEFINE l == ListOf(r)
<1>1. Served' = Served \cup {r}
  BY DEF Served
<1>2. /\ r \in Requests /\ r \notin Served /\ l \in SerialLists
      /\ Unserved(l) # <<>> /\ r = Head(Unserved(l))
      /\ [m \in SerialLists |-> Unserved(m)']
            = [[m \in SerialLists |-> Unserved(m)] EXCEPT ![l] = Tail(Unserved(l))]
  BY <1>1, SerialServes
<1>3. {q \in submitted' \ answered' : ListOf(q) \notin SerialLists \/ q \in deferred'}
         = {q \in submitted \ answered : ListOf(q) \notin SerialLists \/ q \in deferred}
  BY <1>2 DEF Served
<1>4. r \notin answered /\ answered' = answered \cup {r}
  BY <1>2 DEF Served
<1> QED
  BY <1>2, <1>3, <1>4 DEF Service!Answer, Service!Ordered

LEMMA DeferIsPutAside ==
  ASSUME ServiceInv, NEW t \in Serial, pc[t] \in Processing,
         NEW r \in Deferrable, r = cur[t],
         deferred' = deferred \cup {r}, UNCHANGED <<list, submitted, answered>>
  PROVE  Service!PutAside(r)
<1> DEFINE l == ListOf(r)
<1>1. Served' = Served \cup {r}
  BY DEF Served
<1>2. /\ r \in Requests /\ r \in submitted /\ r \notin Served /\ l \in SerialLists
      /\ Unserved(l) # <<>> /\ r = Head(Unserved(l))
      /\ [m \in SerialLists |-> Unserved(m)']
            = [[m \in SerialLists |-> Unserved(m)] EXCEPT ![l] = Tail(Unserved(l))]
  BY <1>1, SerialServes
<1>3. {q \in submitted' \ answered' : ListOf(q) \notin SerialLists \/ q \in deferred'}
         = {q \in submitted \ answered : ListOf(q) \notin SerialLists \/ q \in deferred}
              \cup {r}
  BY <1>2 DEF Served
<1> QED
  BY <1>2, <1>3 DEF Service!PutAside, Service!Ordered

\* The line or the timer answers a request that was put aside.
LEMMA LateAnswerIsAnswer ==
  ASSUME ServiceInv, NEW r \in Requests, answerDeferred(r)
  PROVE  Service!Answer(r)
<1>1. /\ r \in deferred /\ r \notin answered /\ r \in submitted
      /\ answered' = answered \cup {r} /\ UNCHANGED <<list, submitted, deferred, Served>>
  BY ServiceTypes DEF answerDeferred, listVars, Served
<1>2. \A m \in SerialLists : Unserved(m)' = Unserved(m)
  BY <1>1 DEF Unserved
<1>3. {q \in submitted' \ answered' : ListOf(q) \notin SerialLists \/ q \in deferred'}
         = {q \in submitted \ answered : ListOf(q) \notin SerialLists \/ q \in deferred}
              \ {r}
  BY <1>1
<1>4. [m \in SerialLists |-> Unserved(m)'] = [m \in SerialLists |-> Unserved(m)]
  BY <1>2
<1> QED
  BY <1>1, <1>3, <1>4 DEF Service!Answer

LEMMA PoolAnswerIsAnswer ==
  ASSUME ServiceInv, NEW w \in Pool, pc[w] \in Processing, NEW r, r = cur[w],
         answered' = answered \cup {r}, UNCHANGED <<list, submitted, deferred>>
  PROVE  Service!Answer(r)
<1>t. /\ r \in Requests /\ r \in submitted /\ r \notin Served
      /\ ListOf(r) \notin SerialLists /\ r \notin answered
  BY ServiceTypes, SerialAreLists
     DEF Processing, ProcessorsHaveRequests, ThreadsServeOwn, ServiceInv, PoolHasOnce
<1>s. Served' = Served \cup {r}
  BY DEF Served
<1>1. ASSUME NEW m \in SerialLists PROVE Unserved(m)' = Unserved(m)
  <2>1. m \in Lists /\ list[m] \in Seq(Requests)
    BY SerialAreLists, ServiceTypes
  <2>2. list[m] # <<>> => 1 \in DOMAIN list[m] /\ Head(list[m]) = list[m][1]
    BY <2>1
  <2>3. list[m] # <<>> => Head(list[m]) # r
    BY <1>t, <2>1, <2>2, ServiceTypes DEF ListsHoldOwn
  <2> QED
    BY <1>s, <2>3 DEF Unserved
<1>2. {q \in submitted' \ answered' : ListOf(q) \notin SerialLists \/ q \in deferred'}
         = {q \in submitted \ answered : ListOf(q) \notin SerialLists \/ q \in deferred}
              \ {r}
  BY <1>t
<1>3. [m \in SerialLists |-> Unserved(m)'] = [m \in SerialLists |-> Unserved(m)]
  BY <1>1
<1> QED
  BY <1>t, <1>2, <1>3 DEF Service!Answer

LEMMA RemoveIsStutter ==
  ASSUME ServiceInv, NEW t \in Dispatchers, request_list_remove(t)
  PROVE  UNCHANGED Service!vars
<1>l. PICK l \in Lists : l = ListOf(cur[t])
  BY RemovesHead
<1>t. /\ pc[t] = "remove" /\ UNCHANGED <<submitted, answerVars, Served>>
      /\ l \in Lists /\ l \in Serves(t) /\ list[l] \in Seq(Requests) /\ list[l] # <<>>
      /\ cur[t] = list[l][1] /\ list'[l] = Tail(list[l])
      /\ \A m \in Lists \ {l} : list'[m] = list[m]
  <2>1. /\ pc[t] = "remove" /\ UNCHANGED <<submitted, answerVars, Served>>
        /\ list \in [Lists -> Seq(Requests)]
    BY ServiceTypes DEF request_list_remove, Move, answerVars, Served
  <2>2. /\ l \in Serves(t) /\ list[l] \in Seq(Requests) /\ list[l] # <<>>
        /\ cur[t] = list[l][1] /\ list' = [list EXCEPT ![l] = Tail(list[l])]
    BY <1>l, RemovesHead
  <2> QED
    BY <2>1, <2>2
<1>1. ASSUME NEW m \in SerialLists PROVE Unserved(m)' = Unserved(m)
  <2>1. CASE m # l
    BY <1>t, <2>1, SerialAreLists DEF Unserved
  <2>2. CASE m = l
    <3>1. t \in Serial
      <4>1. PICK u \in Serial : l \in Serves(u)
        BY <2>2, SerialAreLists
      <4>2. u \in Dispatchers
        BY DEF Dispatchers
      <4> QED
        BY <1>t, <4>1, <4>2, OneServer
    <3>2. cur[t] \in Served
      BY <1>t, <3>1 DEF ServiceInv, ServedBeforeUnlinked
    <3>3. Head(list[l]) = list[l][1]
      BY <1>t
    <3>4. Unserved(l) = Tail(list[l])
      BY <1>t, <3>2, <3>3 DEF Unserved
    <3>5. list'[l] # <<>> => Head(list'[l]) \notin Served
      <4>1. SUFFICES ASSUME Tail(list[l]) # <<>> PROVE list[l][2] \notin Served
        BY <1>t
      <4>2. 2 \in DOMAIN list[l]
        BY <1>t, <4>1
      <4>3. list[l][2] \notin Handled
        BY <1>t, <4>2 DEF ServiceInv, HandledIsHead
      <4> QED
        BY <4>3 DEF Handled
    <3> QED
      BY <1>t, <2>2, <3>4, <3>5 DEF Unserved
  <2> QED
    BY <2>1, <2>2
<1> QED
  BY <1>t, <1>1, ServiceStutter

LEMMA ServiceSimulates ==
  ServiceInv /\ [Next]_vars => [Service!Next]_(Service!vars)
<1> SUFFICES ASSUME ServiceInv, [Next]_vars PROVE [Service!Next]_(Service!vars)
  OBVIOUS
<1>t. Processors = Serial \cup Pool /\ Serial \subseteq Threads /\ Pool \subseteq Threads
      /\ \A t \in Threads : pc[t] \in Processing => cur[t] \in Requests
  BY ServiceTypes DEF Processing, ProcessorsHaveRequests
<1>1. ASSUME NEW r \in Requests, request_list_add_tail(r) PROVE Service!Next
  BY <1>1, AppendIsSubmit DEF Service!Next
<1>2. ASSUME NEW t \in Processors, rejectRequest(t) \/ handleRequest(t) PROVE Service!Next
  <2>1. /\ pc[t] \in Processing /\ answered' = answered \cup {cur[t]}
        /\ UNCHANGED <<list, submitted, deferred>>
    BY <1>2 DEF rejectRequest, handleRequest, Move, Processing, listVars
  <2>2. PICK r \in Requests : r = cur[t]
    BY <1>t, <2>1
  <2>3. Service!Answer(r)
    BY <1>t, <2>1, <2>2, SerialAnswerIsAnswer, PoolAnswerIsAnswer
  <2> QED
    BY <2>3 DEF Service!Next
<1>3. ASSUME NEW t \in Processors, deferAnswer(t) PROVE Service!Next
  <2>1. /\ pc[t] \in Processing /\ cur[t] \in Deferrable
        /\ deferred' = deferred \cup {cur[t]} /\ UNCHANGED <<list, submitted, answered>>
    BY <1>3 DEF deferAnswer, Move, Processing, listVars
  <2>2. t \in Serial
    BY <1>t, <2>1, DeferrableIsSerial, ServiceTypes, RequestThreadsAssumption
       DEF ThreadsServeOwn
  <2>3. PICK r \in Requests : r = cur[t]
    BY <1>t, <2>1
  <2>4. Service!PutAside(r)
    BY <2>1, <2>2, <2>3, DeferIsPutAside
  <2> QED
    BY <2>4 DEF Service!Next
<1>4. ASSUME NEW r \in Requests, answerDeferred(r) PROVE Service!Next
  BY <1>4, LateAnswerIsAnswer DEF Service!Next
<1>5. ASSUME NEW t \in Dispatchers, request_list_remove(t) PROVE UNCHANGED Service!vars
  BY <1>5, RemoveIsStutter
<1>6. ASSUME UNCHANGED <<list, submitted, answerVars>> PROVE UNCHANGED Service!vars
  BY <1>6, ServiceStutter DEF Unserved, Served, answerVars
<1> QED
  BY <1>1, <1>2, <1>3, <1>4, <1>5, <1>6, StepCases
     DEF signalDispatch, checkLists, spuriousWakeup, selectRequest, dispatchToPool,
         CommandThread, admitRequest, getChannel, putChannel, setChannelOpened, vars,
         listVars, chanVars, answerVars

(* The scheduler implements RequestService: the requests the framework     *)
(* hands to enqueueRequest are taken up in the order of submission when    *)
(* one thread serves their list, and each is answered, or put aside for a  *)
(* line or a timer to answer, before the next is taken up.                 *)
THEOREM SchedulerImplementsService == Spec => ImplementsService
<1>1. Init => Service!Init
  BY ServiceStarts
<1>2. ServiceInv /\ [Next]_vars => [Service!Next]_(Service!vars)
  BY ServiceSimulates
<1> QED
  BY <1>1, <1>2, ServiceInit, ServiceStep, PTL DEF Spec, ImplementsService, Service!Spec
=============================================================================
