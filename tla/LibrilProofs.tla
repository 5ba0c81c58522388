---------------------------- MODULE LibrilProofs ----------------------------
(***************************************************************************)
(* Proofs about the two state machines of libril: PendingRequests, for any *)
(* number of SIMs, requests, addresses and calls, and any number of calls  *)
(* for one request; and TimedCallbacks, for any number of threads, timers, *)
(* calls and lengths of time.                                              *)
(*                                                                         *)
(* PendingRequests: a RequestInfo is either on the list of its SIM, or     *)
(* owned by the one call that unlinked it, or free.  The serial in a live  *)
(* RequestInfo has not been answered, except by the owner that is about to *)
(* free it, and a serial is never allocated again.                         *)
(*                                                                         *)
(* TimedCallbacks: what is pending is due, the list of timers is sorted,   *)
(* and so a timer that is due before another is ahead of it.  The timer of *)
(* an indication is known to its thread alone until it is stored as the    *)
(* last one; unless a timer fires meanwhile, it is there when the          *)
(* indication ends.  Who adds a timer while the loop sleeps wakes it.      *)
(***************************************************************************)
EXTENDS PendingRequests, TimedCallbacks, SequenceTheorems, WellFoundedInduction, TLAPS

HeapIsToken == \A a \in Addrs : heap[a] # NoReq => token[heap[a]] = a

StartedHaveToken == \A c \in Calls : pc[c] # "ready" => TokenOf(c) \in Addrs

OwnedAreLive == \A c \in Calls : Owns(c) => heap[TokenOf(c)] # NoReq

NotYetAnswered ==
    \A c \in Calls : pc[c] \in {"ready", "search", "respond"} => delivered[c] = NoReq

AnsweredAreGone ==
    \A c \in Calls, a \in Addrs :
       delivered[c] # NoReq /\ heap[a] = delivered[c]
          => pc[c] = "free" /\ TokenOf(c) = a

AnsweredWereAdded ==
    \A c \in Calls : delivered[c] # NoReq => token[delivered[c]] # NoAddr

IInv ==
    /\ TypeOK
    /\ ListedAreLive
    /\ OneOwner
    /\ HeapIsToken
    /\ StartedHaveToken
    /\ OwnedAreLive
    /\ NotYetAnswered
    /\ AnsweredAreGone
    /\ AnsweredWereAdded
    /\ AnsweredAtMostOnce

-----------------------------------------------------------------------------
(* The types hold initially and through every step, given that a call that *)
(* has started works on a token onRequest was really given.                *)
TypeInv == TypeOK /\ StartedHaveToken

LEMMA TypeInit == Init => TypeInv
  BY PendingRequestsAssumption DEF Init, TypeInv, TypeOK, StartedHaveToken

LEMMA TypeStep == TypeInv /\ [Next]_vars => TypeInv'
<1> SUFFICES ASSUME TypeInv, [Next]_vars PROVE TypeInv'
  OBVIOUS
<1> USE PendingRequestsAssumption DEF TypeInv, TypeOK, StartedHaveToken, TokenOf, Move
<1>1. ASSUME NEW r \in Requests, addRequestToList(r) PROVE TypeInv'
  BY <1>1 DEF addRequestToList
<1>2. ASSUME NEW c \in Calls, chooseList(c) PROVE TypeInv'
  BY <1>2 DEF chooseList
<1>3. ASSUME NEW c \in Calls, checkAndDequeueRequestInfo(c) PROVE TypeInv'
  BY <1>3 DEF checkAndDequeueRequestInfo
<1>4. ASSUME NEW c \in Calls, sendResponse(c) PROVE TypeInv'
  BY <1>4 DEF sendResponse
<1>5. ASSUME NEW c \in Calls, freeRequest(c) PROVE TypeInv'
  BY <1>5 DEF freeRequest
<1>6. CASE UNCHANGED vars
  BY <1>6 DEF vars
<1> QED
  BY <1>1, <1>2, <1>3, <1>4, <1>5, <1>6 DEF Next, RIL_onRequestComplete

(* TypeOK is an invariant of the lists of ril.cpp for all constants.       *)
THEOREM TypeCorrect == Spec => []TypeOK
<1>1. TypeInv => TypeOK
  BY DEF TypeInv
<1> QED
  BY TypeInit, TypeStep, <1>1, PTL DEF Spec

-----------------------------------------------------------------------------
(* The inductive invariant holds initially and through every step.         *)
LEMMA IInvInit == Init => IInv
<1> SUFFICES ASSUME Init PROVE IInv
  OBVIOUS
<1>1. TypeInv
  BY TypeInit
<1> QED
  BY <1>1, PendingRequestsAssumption
     DEF Init, IInv, TypeInv, ListedAreLive, OneOwner, HeapIsToken, OwnedAreLive, Owns,
         NotYetAnswered, AnsweredAreGone, AnsweredWereAdded, AnsweredAtMostOnce

LEMMA IInvStep == IInv /\ [Next]_vars => IInv'
<1> SUFFICES ASSUME IInv, [Next]_vars PROVE IInv'
  OBVIOUS
<1>t. TypeInv /\ TypeInv'
  BY TypeStep DEF IInv, TypeInv
<1> USE PendingRequestsAssumption
<1>1. ASSUME NEW r \in Requests, addRequestToList(r) PROVE IInv'
  <2>1. PICK a \in Addrs :
           /\ token[r] = NoAddr
           /\ heap[a] = NoReq
           /\ heap' = [heap EXCEPT ![a] = r]
           /\ pending' = [pending EXCEPT ![SimOf[r]] = @ \cup {a}]
           /\ token' = [token EXCEPT ![r] = a]
           /\ UNCHANGED <<pc, hook, delivered>>
    BY <1>1 DEF addRequestToList
  <2> USE <1>t, <2>1 DEF IInv, TypeInv, TypeOK, StartedHaveToken, TokenOf, Owns
  <2>2. \A c \in Calls : pc[c] # "ready" => TokenOf(c)' = TokenOf(c)
    OBVIOUS
  <2>3. ListedAreLive'
    BY <2>2 DEF ListedAreLive, OwnedAreLive
  <2>4. OneOwner' /\ OwnedAreLive'
    BY <2>2 DEF OneOwner, OwnedAreLive
  <2>5. HeapIsToken'
    BY DEF HeapIsToken
  <2>6. NotYetAnswered' /\ AnsweredWereAdded' /\ AnsweredAtMostOnce'
    BY DEF NotYetAnswered, AnsweredWereAdded, AnsweredAtMostOnce
  <2>7. AnsweredAreGone'
    BY <2>2 DEF AnsweredAreGone, AnsweredWereAdded, NotYetAnswered
  <2> QED
    BY <2>3, <2>4, <2>5, <2>6, <2>7
<1>2. ASSUME NEW c \in Calls, chooseList(c) PROVE IInv'
  <2> USE <1>2, <1>t
      DEF IInv, TypeInv, TypeOK, StartedHaveToken, TokenOf, Owns, Move, chooseList
  <2>1. ListedAreLive' /\ OneOwner' /\ OwnedAreLive' /\ HeapIsToken'
    BY DEF ListedAreLive, OneOwner, OwnedAreLive, HeapIsToken
  <2>2. NotYetAnswered' /\ AnsweredAreGone' /\ AnsweredWereAdded' /\ AnsweredAtMostOnce'
    BY DEF NotYetAnswered, AnsweredAreGone, AnsweredWereAdded, AnsweredAtMostOnce
  <2> QED
    BY <2>1, <2>2
<1>3. ASSUME NEW c \in Calls, checkAndDequeueRequestInfo(c) PROVE IInv'
  <2> USE <1>3, <1>t
      DEF IInv, TypeInv, TypeOK, StartedHaveToken, TokenOf, Owns, Move,
          checkAndDequeueRequestInfo
  <2>1. ListedAreLive'
    BY DEF ListedAreLive
  <2>2. OneOwner'
    BY DEF OneOwner, ListedAreLive
  <2>3. OwnedAreLive' /\ HeapIsToken'
    BY DEF OwnedAreLive, HeapIsToken, ListedAreLive
  <2>4. NotYetAnswered' /\ AnsweredAreGone' /\ AnsweredWereAdded' /\ AnsweredAtMostOnce'
    BY DEF NotYetAnswered, AnsweredAreGone, AnsweredWereAdded, AnsweredAtMostOnce
  <2> QED
    BY <2>1, <2>2, <2>3, <2>4
<1>4. ASSUME NEW c \in Calls, sendResponse(c) PROVE IInv'
  <2> USE <1>4, <1>t
      DEF IInv, TypeInv, TypeOK, StartedHaveToken, TokenOf, Owns, Move, sendResponse
  <2>1. ListedAreLive' /\ OneOwner' /\ OwnedAreLive' /\ HeapIsToken'
    BY DEF ListedAreLive, OneOwner, OwnedAreLive, HeapIsToken
  <2>2. \A d \in Calls : delivered[d] # NoReq => delivered[d] # heap[TokenOf(c)]
    BY DEF AnsweredAreGone, OneOwner, OwnedAreLive
  <2>3. NotYetAnswered' /\ AnsweredAtMostOnce'
    BY <2>2 DEF NotYetAnswered, AnsweredAtMostOnce
  <2>4. AnsweredAreGone' /\ AnsweredWereAdded'
    BY DEF AnsweredAreGone, AnsweredWereAdded, HeapIsToken, OwnedAreLive
  <2> QED
    BY <2>1, <2>3, <2>4
<1>5. ASSUME NEW c \in Calls, freeRequest(c) PROVE IInv'
  <2> USE <1>5, <1>t
      DEF IInv, TypeInv, TypeOK, StartedHaveToken, TokenOf, Owns, Move, freeRequest
  <2>1. ListedAreLive'
    BY DEF ListedAreLive
  <2>2. OneOwner' /\ OwnedAreLive' /\ HeapIsToken'
    BY DEF OneOwner, OwnedAreLive, HeapIsToken
  <2>3. NotYetAnswered' /\ AnsweredAreGone' /\ AnsweredWereAdded' /\ AnsweredAtMostOnce'
    BY DEF NotYetAnswered, AnsweredAreGone, AnsweredWereAdded, AnsweredAtMostOnce
  <2> QED
    BY <2>1, <2>2, <2>3
<1>6. CASE UNCHANGED vars
  BY <1>6, <1>t
     DEF vars, IInv, TypeInv, TypeOK, ListedAreLive, OneOwner, HeapIsToken, StartedHaveToken,
         OwnedAreLive, Owns, TokenOf, NotYetAnswered, AnsweredAreGone, AnsweredWereAdded,
         AnsweredAtMostOnce
<1> QED
  BY <1>1, <1>2, <1>3, <1>4, <1>5, <1>6 DEF Next, RIL_onRequestComplete

(* However many times RIL_onRequestComplete is called for a request, the   *)
(* framework gets at most one response with its serial (ril.cpp:640-697).  *)
THEOREM AtMostOneAnswer == Spec => []AnsweredAtMostOnce
<1>1. IInv => AnsweredAtMostOnce
  BY DEF IInv
<1> QED
  BY IInvInit, IInvStep, <1>1, PTL DEF Spec

(* No list of outstanding requests ever holds the address of a RequestInfo *)
(* that is freed or that a call is answering (ril.cpp:583-605).            *)
THEOREM ListsHoldLiveRequests == Spec => []ListedAreLive
<1>1. IInv => ListedAreLive
  BY DEF IInv
<1> QED
  BY IInvInit, IInvStep, <1>1, PTL DEF Spec

(* No RequestInfo is answered from, or freed, by two calls (ril.cpp:696).  *)
THEOREM NoDoubleFree == Spec => []OneOwner
<1>1. IInv => OneOwner
  BY DEF IInv
<1> QED
  BY IInvInit, IInvStep, <1>1, PTL DEF Spec

-----------------------------------------------------------------------------
(* A request that has been added is still in the RequestInfo it was given, *)
(* or has been answered.  A call that has sent its response still has the  *)
(* RequestInfo it sent it from.                                            *)
LiveOrAnswered ==
    \A r \in Requests : token[r] # NoAddr =>
       heap[token[r]] = r \/ \E d \in Calls : delivered[d] = r

SentFromOwn == \A c \in Calls : pc[c] = "free" => delivered[c] = heap[TokenOf(c)]

LEMMA LiveOrAnsweredStep ==
  IInv /\ LiveOrAnswered /\ SentFromOwn /\ [Next]_vars => LiveOrAnswered' /\ SentFromOwn'
<1> SUFFICES ASSUME IInv, LiveOrAnswered, SentFromOwn, [Next]_vars
             PROVE  LiveOrAnswered' /\ SentFromOwn'
  OBVIOUS
<1> USE PendingRequestsAssumption
    DEF IInv, LiveOrAnswered, SentFromOwn, TypeOK, StartedHaveToken, TokenOf, Move
<1>1. ASSUME NEW r \in Requests, addRequestToList(r) PROVE LiveOrAnswered' /\ SentFromOwn'
  <2>1. LiveOrAnswered'
    BY <1>1 DEF addRequestToList
  <2>2. SentFromOwn'
    BY <1>1 DEF addRequestToList, OwnedAreLive, Owns
  <2> QED
    BY <2>1, <2>2
<1>2. ASSUME NEW c \in Calls, chooseList(c) PROVE LiveOrAnswered' /\ SentFromOwn'
  BY <1>2 DEF chooseList
<1>3. ASSUME NEW c \in Calls, checkAndDequeueRequestInfo(c)
      PROVE  LiveOrAnswered' /\ SentFromOwn'
  BY <1>3 DEF checkAndDequeueRequestInfo
<1>4. ASSUME NEW c \in Calls, sendResponse(c) PROVE LiveOrAnswered' /\ SentFromOwn'
  <2>1. delivered[c] = NoReq
    BY <1>4 DEF sendResponse, NotYetAnswered
  <2>2. LiveOrAnswered'
    BY <1>4, <2>1 DEF sendResponse
  <2>3. SentFromOwn'
    BY <1>4 DEF sendResponse
  <2> QED
    BY <2>2, <2>3
<1>5. ASSUME NEW c \in Calls, freeRequest(c) PROVE LiveOrAnswered' /\ SentFromOwn'
  <2>1. LiveOrAnswered'
    BY <1>5 DEF freeRequest
  <2>2. SentFromOwn'
    BY <1>5 DEF freeRequest, OneOwner, Owns
  <2> QED
    BY <2>1, <2>2
<1>6. CASE UNCHANGED vars
  BY <1>6 DEF vars
<1> QED
  BY <1>1, <1>2, <1>3, <1>4, <1>5, <1>6 DEF Next, RIL_onRequestComplete

(* However often requests are completed and addresses are used again, a    *)
(* response carries the serial of another request than the one it was made *)
(* for only when that one has been answered before (ril.cpp:588 and 684).  *)
THEOREM ResponsesNotMixedUp == Spec => OnlyLateCallsMixUp
<1> DEFINE A == \A c \in Calls :
                   delivered'[c] \notin {delivered[c], ForRequest[c]}
                      => ForRequest[c] \in {delivered[d] : d \in Calls \ {c}}
<1>1. Init => LiveOrAnswered /\ SentFromOwn
  BY PendingRequestsAssumption DEF Init, LiveOrAnswered, SentFromOwn
<1>2. IInv /\ LiveOrAnswered /\ [Next]_vars => [A]_vars
  <2> SUFFICES ASSUME IInv, LiveOrAnswered, [Next]_vars,
                      NEW c \in Calls, delivered'[c] \notin {delivered[c], ForRequest[c]}
               PROVE  ForRequest[c] \in {delivered[d] : d \in Calls \ {c}}
    OBVIOUS
  <2>1. UNCHANGED delivered \/ \E d \in Calls : sendResponse(d)
    BY DEF Next, RIL_onRequestComplete, addRequestToList, chooseList,
           checkAndDequeueRequestInfo, freeRequest, vars
  <2>2. PICK d \in Calls : sendResponse(d)
    BY <2>1
  <2>3. d = c
    BY <2>2 DEF sendResponse, IInv, TypeOK
  <2>4. /\ delivered'[c] = heap[TokenOf(c)]
        /\ delivered[c] = NoReq
        /\ TokenOf(c) # NoAddr
    BY <2>2, <2>3, PendingRequestsAssumption
       DEF sendResponse, Move, IInv, TypeOK, StartedHaveToken, NotYetAnswered
  <2>5. ForRequest[c] \in Requests
    BY PendingRequestsAssumption
  <2>6. PICK e \in Calls : delivered[e] = ForRequest[c]
    BY <2>4, <2>5 DEF LiveOrAnswered, TokenOf
  <2>7. e # c
    BY <2>4, <2>5, <2>6, PendingRequestsAssumption
  <2> QED
    BY <2>6, <2>7
<1>3. Spec => [][A]_vars
  BY <1>1, <1>2, IInvInit, IInvStep, LiveOrAnsweredStep, PTL DEF Spec
<1> QED
  BY <1>3 DEF OnlyLateCallsMixUp

-----------------------------------------------------------------------------
(* The lists of outstanding requests implement the service that answers    *)
(* every submitted request at most once: linking a request in submits it,  *)
(* sending the response answers it, every other step is invisible.         *)
THEOREM ListsImplementService == Spec => Service!Spec
<1> USE PendingRequestsAssumption
<1>1. Init => Service!Init
  BY DEF Init, Service!Init, Answered
<1>2. IInv /\ [Next]_vars => [Service!Next]_(Service!vars)
  <2> SUFFICES ASSUME IInv, [Next]_vars PROVE [Service!Next]_(Service!vars)
    OBVIOUS
  <2> USE DEF IInv, TypeOK, StartedHaveToken, TokenOf, Move, Service!vars
  <2>1. ASSUME NEW r \in Requests, addRequestToList(r) PROVE Service!Submit(r)
    <3>1. token[r] = NoAddr /\ r \notin Answered
      BY <2>1 DEF addRequestToList, Answered, AnsweredWereAdded
    <3>2. UNCHANGED delivered /\ Answered' = Answered
      BY <2>1 DEF addRequestToList, Answered
    <3>3. {q \in Requests : token'[q] # NoAddr} = {q \in Requests : token[q] # NoAddr} \cup {r}
      BY <2>1 DEF addRequestToList
    <3> QED
      BY <3>1, <3>2, <3>3 DEF Service!Submit, Service!Submitted, Service!Ordered
  <2>2. ASSUME NEW c \in Calls, NEW r \in Requests, r = heap[TokenOf(c)], sendResponse(c)
        PROVE  Service!Answer(r)
    <3>1. token[r] # NoAddr /\ delivered[c] = NoReq
      BY <2>2 DEF sendResponse, OwnedAreLive, Owns, HeapIsToken, NotYetAnswered
    <3>2. r \notin Answered
      BY <2>2, <3>1 DEF sendResponse, Answered, AnsweredAreGone, OneOwner, Owns
    <3>3. Answered' = Answered \cup {r}
      BY <2>2, <3>1 DEF sendResponse, Answered
    <3>4. UNCHANGED token
      BY <2>2 DEF sendResponse
    <3> QED
      BY <3>1, <3>2, <3>3, <3>4 DEF Service!Answer, Service!Ordered
  <2>3. CASE UNCHANGED <<token, delivered>>
    BY <2>3 DEF Answered
  <2>4. ASSUME NEW c \in Calls, sendResponse(c) PROVE heap[TokenOf(c)] \in Requests
    BY <2>4 DEF sendResponse, OwnedAreLive, Owns
  <2>5. \/ \E r \in Requests : addRequestToList(r)
        \/ \E c \in Calls : sendResponse(c)
        \/ UNCHANGED <<token, delivered>>
    BY DEF Next, RIL_onRequestComplete, chooseList, checkAndDequeueRequestInfo, freeRequest,
           vars
  <2>6. ASSUME NEW r \in Requests, addRequestToList(r) PROVE Service!Next
    BY <2>1, <2>6 DEF Service!Next
  <2>7. ASSUME NEW c \in Calls, sendResponse(c) PROVE Service!Next
    BY <2>2, <2>4, <2>7 DEF Service!Next
  <2> QED
    BY <2>3, <2>5, <2>6, <2>7
<1> QED
  BY <1>1, <1>2, IInvInit, IInvStep, PTL DEF Spec, Service!Spec

-----------------------------------------------------------------------------
(* TimedCallbacks: what its variables are.                                 *)

SomeInfo == Infos \cup {NULL}

\* where the loop has a UserCallbackInfo in hand
RunPCs == {"callback", "forget", "clear", "free"}

LoopStates == [pc : {"top", "select", "selected", "fire"} \cup RunPCs, timeout : Int, ready : BOOLEAN,
               p_info : SomeInfo]

\* where an indication has a timer of its own
TimedPCs == {"trigger", "scheduled", "cancel", "store"}

Locals == [pc : {"rest", "grabbed", "copy"} \cup TimedPCs, kind : {"none", "user", "wake"}, p_info : SomeInfo,
           last : SomeInfo]

StoreTypes ==
  /\ info \in [Infos -> [kind : {"free", "user", "wake"}, cancelled : BOOLEAN]]
  /\ remaining \in [Infos -> Nat \cup {-1}]
  /\ timer_list \in Seq(Infos) /\ pending_list \in Seq(Infos \cup {Wakeup})
  /\ before \in SUBSET (Infos \X Infos)

LoopTypes ==
  /\ loop \in LoopStates
  /\ loop.pc \in RunPCs => loop.p_info \in Infos

\* what a caller knows where it is
Fits(r) ==
  /\ r.kind = "none" <=> r.pc = "rest"
  /\ r.kind = "user" => r.pc = "trigger"
  /\ r.pc \in TimedPCs => r.p_info \in Infos
  /\ r.pc = "cancel" => r.last \in Infos

ThreadTypes == thread \in [Callers -> Locals] /\ \A t \in Callers : Fits(thread[t])

PlainTypes ==
  /\ pipe \in BOOLEAN /\ held \in BOOLEAN
  /\ s_last_wake_timeout_info \in SomeInfo
  /\ calls \in Nat
  /\ happened \in SUBSET {"overlap", "early", "noMemory"}

CallbackTypes == StoreTypes /\ LoopTypes /\ ThreadTypes /\ PlainTypes

(* A UserCallbackInfo is in one place of one list, or in the hand of the   *)
(* loop, or free.                                                          *)
Distinct ==
  /\ \A i, j \in DOMAIN timer_list : timer_list[i] = timer_list[j] => i = j
  /\ \A i, j \in DOMAIN pending_list : pending_list[i] = pending_list[j] => i = j
  /\ \A i \in DOMAIN timer_list, j \in DOMAIN pending_list : timer_list[i] # pending_list[j]

Busy ==
  /\ \A i \in DOMAIN timer_list : info[timer_list[i]].kind # "free"
  /\ \A i \in DOMAIN pending_list : pending_list[i] # Wakeup => info[pending_list[i]].kind # "free"

InHand ==
  /\ loop.pc \in {"top", "select", "selected"} => pending_list = <<>>
  /\ loop.pc \in RunPCs => /\ info[loop.p_info].kind # "free"
                           /\ \A i \in DOMAIN timer_list : timer_list[i] # loop.p_info
                           /\ \A i \in DOMAIN pending_list : pending_list[i] # loop.p_info
  /\ loop.pc = "callback" => info[loop.p_info].kind = "user"

Sorted ==
  \A i, j \in DOMAIN timer_list : i < j => remaining[timer_list[i]] <= remaining[timer_list[j]]

PendingAreDue ==
  \A i \in DOMAIN pending_list : pending_list[i] # Wakeup => remaining[pending_list[i]] = -1

\* p is run before q
Ahead(p, q) ==
  \/ \E i, j \in DOMAIN pending_list : i < j /\ pending_list[i] = p /\ pending_list[j] = q
  \/ \E i \in DOMAIN pending_list, j \in DOMAIN timer_list : pending_list[i] = p /\ timer_list[j] = q
  \/ \E i, j \in DOMAIN timer_list : i < j /\ timer_list[i] = p /\ timer_list[j] = q

InOrder == \A pair \in before : Ahead(pair[1], pair[2])

OrderInv == Distinct /\ Busy /\ InHand /\ Sorted /\ PendingAreDue /\ InOrder

live(p) == info[p] = [kind |-> "wake", cancelled |-> FALSE]

releases(p) == p \in Queued /\ live(p)

(* s_last_wake_timeout_info is the timer of an indication until the loop   *)
(* has it in hand.                                                         *)
LastIsWake ==
  s_last_wake_timeout_info # NULL =>
    /\ info[s_last_wake_timeout_info].kind = "wake"
    /\ \/ s_last_wake_timeout_info \in Queued
       \/ loop.pc \in {"forget", "clear"} /\ loop.p_info = s_last_wake_timeout_info

(* The timer of an indication under way is its own: nobody else has read   *)
(* its address.                                                            *)
OwnTimer(t) ==
  /\ releases(thread[t].p_info)
  /\ thread[t].p_info # s_last_wake_timeout_info
  /\ \A u \in indicating :
       /\ u # t /\ thread[u].pc \in TimedPCs => thread[u].p_info # thread[t].p_info
       /\ thread[u].pc = "cancel" => thread[u].last # thread[t].p_info

(* While no wake timer has fired during an indication.                     *)
NoneFires == indicating # {} => ~ inWakeCallback

ClearsLast == loop.pc = "clear" => s_last_wake_timeout_info = loop.p_info

OwnTimers ==
  \A t \in indicating : /\ thread[t].pc \in TimedPCs => OwnTimer(t)
                        /\ thread[t].pc = "cancel" => info[thread[t].last].kind = "wake"

LockHasTimer == indicating = {} /\ held => \E p \in Infos : releases(p)

Timely == NoneFires /\ LastIsWake /\ ClearsLast /\ OwnTimers /\ LockHasTimer

(* While nothing has gone wrong: there is one indication at a time, and a  *)
(* timer that will release the wake lock is its own or the last one.       *)
OneAtATime == \A t, u \in indicating : t = u

IndicationHolds == indicating # {} => held

TimerHasLock ==
  \A p \in Infos : releases(p) =>
    /\ held
    /\ \/ p = s_last_wake_timeout_info
       \/ \E t \in indicating : thread[t].pc \in TimedPCs /\ p = thread[t].p_info

ReplacesLast ==
  \A t \in indicating :
    /\ thread[t].pc = "cancel" => thread[t].last = s_last_wake_timeout_info
    /\ thread[t].pc = "store" => \A p \in Infos : p = s_last_wake_timeout_info => ~ releases(p)

Quiet == OneAtATime /\ IndicationHolds /\ TimerHasLock /\ ReplacesLast

LockInv ==
  /\ "early" \notin happened => Timely
  /\ happened = {} => Quiet

-----------------------------------------------------------------------------
(* How the list of timers is cut and mended.                               *)

LEMMA ListFacts ==
  ASSUME CallbackTypes
  PROVE  /\ Len(timer_list) \in Nat /\ DOMAIN timer_list = 1..Len(timer_list)
         /\ \A i \in 1..Len(timer_list) : timer_list[i] \in Infos /\ remaining[timer_list[i]] \in Int
         /\ Len(pending_list) \in Nat /\ DOMAIN pending_list = 1..Len(pending_list)
         /\ \A i \in 1..Len(pending_list) : pending_list[i] \in Infos \cup {Wakeup}
<1>1. timer_list \in Seq(Infos) /\ pending_list \in Seq(Infos \cup {Wakeup})
  BY DEF CallbackTypes, StoreTypes
<1>2. remaining \in [Infos -> Nat \cup {-1}]
  BY DEF CallbackTypes, StoreTypes
<1>3. /\ Len(timer_list) \in Nat /\ DOMAIN timer_list = 1..Len(timer_list)
      /\ Len(pending_list) \in Nat /\ DOMAIN pending_list = 1..Len(pending_list)
  BY <1>1, LenProperties
<1>4. \A i \in 1..Len(timer_list) : timer_list[i] \in Infos
  BY <1>1, ElementOfSeq
<1>5. \A i \in 1..Len(pending_list) : pending_list[i] \in Infos \cup {Wakeup}
  BY <1>1, ElementOfSeq
<1> QED BY <1>2, <1>3, <1>4, <1>5

LEMMA EarlierIs ==
  ASSUME CallbackTypes, NEW n \in Int
  PROVE  /\ earlier(n) \in 0..Len(timer_list)
         /\ \A i \in 1..Len(timer_list) : i <= earlier(n) => remaining[timer_list[i]] < n
         /\ earlier(n) < Len(timer_list) => remaining[timer_list[earlier(n) + 1]] >= n
<1> DEFINE later == {i \in DOMAIN timer_list : remaining[timer_list[i]] >= n}
           least == CHOOSE i \in later : \A j \in later : i <= j
<1>1. /\ Len(timer_list) \in Nat /\ DOMAIN timer_list = 1..Len(timer_list)
      /\ \A i \in 1..Len(timer_list) : remaining[timer_list[i]] \in Int
  BY ListFacts
<1>2. earlier(n) = IF later = {} THEN Len(timer_list) ELSE least - 1
  BY DEF earlier
<1>3. CASE later = {}
  BY <1>1, <1>2, <1>3
<1>4. CASE later # {}
  <2>1. later \subseteq Nat /\ later # {}
    BY <1>1, <1>4
  <2> HIDE DEF later
  <2>2. PICK m \in later : \A i \in later : ~ (<<i, m>> \in OpToRel(<, Nat))
    BY <2>1, NatLessThanWellFounded, WFMin
  <2>3. \A i \in later : m <= i
    <3> SUFFICES ASSUME NEW i \in later PROVE m <= i
      OBVIOUS
    <3>1. i \in Nat /\ m \in Nat
      BY <2>1, <2>2
    <3>2. i < m => <<i, m>> \in OpToRel(<, Nat)
      BY <3>1 DEF OpToRel
    <3>3. ~ (i < m)
      BY <2>2, <3>2
    <3> QED BY <3>1, <3>3
  <2>4. least \in later /\ \A i \in later : least <= i
    BY <2>3
  <2> USE DEF later
  <2> HIDE DEF least
  <2>5. earlier(n) = least - 1 /\ least \in 1..Len(timer_list)
    BY <1>1, <1>2, <1>4, <2>4
  <2>6. ASSUME NEW i \in 1..Len(timer_list), i < least PROVE remaining[timer_list[i]] < n
    <3>1. i \notin later
      BY <1>1, <2>4, <2>5, <2>6
    <3> QED BY <1>1, <3>1
  <2> QED BY <1>1, <2>4, <2>5, <2>6
<1> QED BY <1>3, <1>4

LEMMA EarlierSorted ==
  ASSUME CallbackTypes, Sorted, NEW n \in Int
  PROVE  \A i \in 1..Len(timer_list) : i > earlier(n) => remaining[timer_list[i]] >= n
<1> DEFINE e == earlier(n)
<1>1. /\ e \in 0..Len(timer_list)
      /\ e < Len(timer_list) => remaining[timer_list[e + 1]] >= n
  BY EarlierIs
<1>2. /\ Len(timer_list) \in Nat /\ DOMAIN timer_list = 1..Len(timer_list)
      /\ \A i \in 1..Len(timer_list) : remaining[timer_list[i]] \in Int
  BY ListFacts
<1> HIDE DEF e
<1>3. ASSUME NEW i \in 1..Len(timer_list), i > e PROVE remaining[timer_list[i]] >= n
  <2>1. e + 1 \in 1..Len(timer_list) /\ remaining[timer_list[e + 1]] >= n
    BY <1>1, <1>2, <1>3
  <2>2. e + 1 < i => remaining[timer_list[e + 1]] <= remaining[timer_list[i]]
    BY <1>2, <2>1 DEF Sorted
  <2> QED BY <1>1, <1>2, <1>3, <2>1, <2>2
<1> QED BY <1>3 DEF e

LEMMA InsertIs ==
  ASSUME CallbackTypes, NEW p \in Infos, NEW n \in Int, timer_list' = insertSorted(p, n)
  PROVE  /\ timer_list' \in Seq(Infos)
         /\ Len(timer_list') = Len(timer_list) + 1
         /\ \A i \in 1..Len(timer_list) + 1 :
              timer_list'[i] = IF i <= earlier(n) THEN timer_list[i]
                               ELSE IF i = earlier(n) + 1 THEN p ELSE timer_list[i - 1]
<1> DEFINE e == earlier(n)
           len == Len(timer_list)
           front == SubSeq(timer_list, 1, (e + 1) - 1)
           back == SubSeq(timer_list, e + 1, len)
<1>1. e \in 0..len
  BY EarlierIs
<1>2. len \in Nat
  BY ListFacts
<1>11. timer_list' = front \o <<p>> \o back
  BY DEF insertSorted, InsertAt
<1>3. \A i \in 1..len : timer_list[i] \in Infos
  BY ListFacts
<1> HIDE DEF e
<1>4. /\ front \in Seq(Infos) /\ Len(front) = e
      /\ \A i \in 1..e : front[i] = timer_list[i]
  <2>1. (e + 1) - 1 = e
    BY <1>1
  <2>2. \A i \in 1..e : timer_list[i] \in Infos
    BY <1>1, <1>2, <1>3
  <2> HIDE DEF len
  <2> QED BY <1>1, <1>2, <2>1, <2>2, SubSeqProperties
<1>5. /\ back \in Seq(Infos) /\ Len(back) = len - e
      /\ \A i \in 1..len - e : back[i] = timer_list[e + i]
  <2>1. \A i \in e + 1..len : timer_list[i] \in Infos
    BY <1>1, <1>2, <1>3
  <2>2. e + 1 \in Int /\ len \in Int
    BY <1>1, <1>2
  <2> HIDE DEF len
  <2>3. /\ back \in Seq(Infos)
        /\ Len(back) = IF e + 1 <= len THEN len - (e + 1) + 1 ELSE 0
        /\ \A i \in 1..len - (e + 1) + 1 : back[i] = timer_list[e + 1 + i - 1]
    BY <2>1, <2>2, SubSeqProperties
  <2> HIDE DEF back
  <2> QED BY <1>1, <1>2, <2>3
<1> HIDE DEF front, back, len
<1>6. /\ <<p>> \in Seq(Infos) /\ Len(<<p>>) = 1 /\ <<p>>[1] = p
  OBVIOUS
<1> DEFINE one == <<p>>
<1> HIDE DEF one
<1>7. /\ front \o one \in Seq(Infos) /\ Len(front \o one) = e + 1
      /\ \A i \in 1..e + 1 : (front \o one)[i] = IF i <= e THEN front[i] ELSE one[i - e]
  BY <1>4, <1>6, ConcatProperties DEF one
<1> DEFINE both == front \o one
<1> HIDE DEF both
<1>8. /\ both \o back \in Seq(Infos) /\ Len(both \o back) = len + 1
      /\ \A i \in 1..len + 1 : (both \o back)[i] = IF i <= e + 1 THEN both[i] ELSE back[i - (e + 1)]
  <2>1. /\ both \o back \in Seq(Infos) /\ Len(both \o back) = (e + 1) + (len - e)
        /\ \A i \in 1..(e + 1) + (len - e) : (both \o back)[i] = IF i <= e + 1 THEN both[i] ELSE back[i - (e + 1)]
    <3>1. both \in Seq(Infos) /\ Len(both) = e + 1
      BY <1>7 DEF both
    <3>2. back \in Seq(Infos) /\ Len(back) = len - e
      BY <1>5
    <3>3. /\ both \o back \in Seq(Infos) /\ Len(both \o back) = Len(both) + Len(back)
          /\ \A i \in 1..Len(both) + Len(back) :
               (both \o back)[i] = IF i <= Len(both) THEN both[i] ELSE back[i - Len(both)]
      <4> HIDE DEF both
      <4> QED BY <3>1, <3>2, ConcatProperties
    <3> QED BY <3>1, <3>2, <3>3
  <2> QED BY <1>1, <1>2, <2>1
<1>9. timer_list' = both \o back
  BY <1>11 DEF both, one
<1>10. ASSUME NEW i \in 1..len + 1
       PROVE  timer_list'[i] = IF i <= e THEN timer_list[i] ELSE IF i = e + 1 THEN p ELSE timer_list[i - 1]
  <2>4. i \in Nat /\ e \in Nat
    BY <1>1, <1>2
  <2>1. CASE i <= e
    BY <1>1, <1>2, <1>4, <1>7, <1>8, <1>9, <2>1 DEF both
  <2>2. CASE i = e + 1
    BY <1>1, <1>2, <1>6, <1>7, <1>8, <1>9, <2>2 DEF both, one
  <2>3. CASE i > e + 1
    <3>1. i - (e + 1) \in 1..len - e /\ e + (i - (e + 1)) = i - 1
      BY <1>1, <1>2, <2>3
    <3>2. timer_list'[i] = back[i - (e + 1)]
      BY <1>8, <1>9, <2>3, <2>4
    <3>3. back[i - (e + 1)] = timer_list[i - 1]
      BY <1>5, <3>1
    <3> QED BY <2>3, <2>4, <3>2, <3>3
  <2> QED BY <2>1, <2>2, <2>3, <2>4
<1> QED BY <1>8, <1>9, <1>10 DEF e, len

LEMMA CutIs ==
  ASSUME CallbackTypes, processTimeouts
  PROVE  /\ expired \in 0..Len(timer_list)
         /\ timer_list' \in Seq(Infos)
         /\ Len(timer_list') = Len(timer_list) - expired
         /\ \A i \in 1..Len(timer_list) - expired : timer_list'[i] = timer_list[expired + i]
         /\ pending_list' \in Seq(Infos \cup {Wakeup})
         /\ Len(pending_list') = expired + (IF loop.ready THEN 1 ELSE 0)
         /\ \A i \in 1..Len(pending_list') : pending_list'[i] = IF i <= expired THEN timer_list[i] ELSE Wakeup
<1> DEFINE e == expired
           len == Len(timer_list)
           front == SubSeq(timer_list, 1, e)
           back == SubSeq(timer_list, e + 1, len)
           wakeup == IF loop.ready THEN <<Wakeup>> ELSE <<>>
           all == Infos \cup {Wakeup}
<1>1. e \in 0..len
  BY EarlierIs DEF expired
<1>2. len \in Nat
  BY ListFacts
<1>3. timer_list' = back /\ pending_list' = front \o wakeup
  BY DEF processTimeouts
<1>4. \A i \in 1..len : timer_list[i] \in Infos
  BY ListFacts
<1> HIDE DEF e
<1>5. /\ front \in Seq(all) /\ Len(front) = e
      /\ \A i \in 1..e : front[i] = timer_list[i]
  <2>1. \A i \in 1..e : timer_list[i] \in all
    BY <1>1, <1>2, <1>4
  <2> HIDE DEF all, len
  <2> QED BY <1>1, <1>2, <2>1, SubSeqProperties
<1>6. /\ back \in Seq(Infos) /\ Len(back) = len - e
      /\ \A i \in 1..len - e : back[i] = timer_list[e + i]
  <2>1. \A i \in e + 1..len : timer_list[i] \in Infos
    BY <1>1, <1>2, <1>4
  <2>2. e + 1 \in Int /\ len \in Int
    BY <1>1, <1>2
  <2> HIDE DEF len
  <2>3. /\ back \in Seq(Infos)
        /\ Len(back) = IF e + 1 <= len THEN len - (e + 1) + 1 ELSE 0
        /\ \A i \in 1..len - (e + 1) + 1 : back[i] = timer_list[e + 1 + i - 1]
    BY <2>1, <2>2, SubSeqProperties
  <2> HIDE DEF back
  <2> QED BY <1>1, <1>2, <2>3
<1>7. /\ wakeup \in Seq(all) /\ Len(wakeup) = (IF loop.ready THEN 1 ELSE 0)
      /\ \A i \in 1..Len(wakeup) : wakeup[i] = Wakeup
  <2>1. Wakeup \in all
    OBVIOUS
  <2> HIDE DEF all
  <2>2. CASE loop.ready
    BY <2>1, <2>2
  <2>3. CASE ~ loop.ready
    BY <2>3
  <2> QED BY <2>2, <2>3
<1> HIDE DEF front, wakeup, all, len, back
<1>8. /\ front \o wakeup \in Seq(all) /\ Len(front \o wakeup) = Len(front) + Len(wakeup)
      /\ \A i \in 1..Len(front) + Len(wakeup) :
           (front \o wakeup)[i] = IF i <= Len(front) THEN front[i] ELSE wakeup[i - Len(front)]
  BY <1>5, <1>7, ConcatProperties
<1>9. Len(wakeup) \in Nat /\ e \in Nat
  BY <1>1, <1>2, <1>7
<1>10. ASSUME NEW i \in 1..e + Len(wakeup)
       PROVE  pending_list'[i] = IF i <= e THEN timer_list[i] ELSE Wakeup
  <2>1. CASE i <= e
    <3>1. pending_list'[i] = front[i]
      BY <1>3, <1>5, <1>8, <1>9, <2>1
    <3> QED BY <1>5, <1>9, <2>1, <3>1
  <2>2. CASE i > e
    <3>1. pending_list'[i] = wakeup[i - e] /\ i - e \in 1..Len(wakeup)
      BY <1>3, <1>5, <1>8, <1>9, <2>2
    <3> QED BY <1>7, <1>9, <2>2, <3>1
  <2> QED BY <1>9, <2>1, <2>2
<1> QED BY <1>1, <1>3, <1>5, <1>6, <1>7, <1>8, <1>9, <1>10 DEF e, len, all

LEMMA FirstIs ==
  ASSUME CallbackTypes, pending_list # <<>>
  PROVE  /\ Len(pending_list) >= 1 /\ Head(pending_list) = pending_list[1]
         /\ Tail(pending_list) \in Seq(Infos \cup {Wakeup})
         /\ Len(Tail(pending_list)) = Len(pending_list) - 1
         /\ \A i \in 1..Len(pending_list) - 1 : Tail(pending_list)[i] = pending_list[i + 1]
<1> DEFINE all == Infos \cup {Wakeup}
<1>1. pending_list \in Seq(all)
  BY DEF CallbackTypes, StoreTypes
<1> HIDE DEF all
<1>2. Len(pending_list) \in Nat \ {0}
  BY <1>1, EmptySeq
<1>3. /\ Tail(pending_list) \in Seq(all)
      /\ Len(Tail(pending_list)) = Len(pending_list) - 1
      /\ \A i \in 1..Len(Tail(pending_list)) : Tail(pending_list)[i] = pending_list[i + 1]
  BY <1>1, HeadTailProperties
<1>4. Head(pending_list) = pending_list[1]
  BY <1>1
<1> QED BY <1>2, <1>3, <1>4 DEF all

-----------------------------------------------------------------------------
(* TimedCallbacks: the types are kept.                                     *)

LEMMA TypesInit == CallbacksInit => CallbackTypes
<1> SUFFICES ASSUME CallbacksInit PROVE CallbackTypes
  OBVIOUS
<1>1. StoreTypes
  BY DEF CallbacksInit, StoreTypes, Free
<1>2. LoopTypes
  BY DEF CallbacksInit, LoopTypes, LoopStates, RunPCs, SomeInfo, Forever
<1>3. ThreadTypes
  BY DEF CallbacksInit, ThreadTypes, Locals, SomeInfo, Fits, TimedPCs, Rest
<1>4. PlainTypes
  BY DEF CallbacksInit, PlainTypes, SomeInfo
<1> QED BY <1>1, <1>2, <1>3, <1>4 DEF CallbackTypes

LEMMA ThreadStep ==
  ASSUME ThreadTypes, NEW t \in Callers, NEW r \in Locals, Fits(r), thread' = [thread EXCEPT ![t] = r]
  PROVE  ThreadTypes' /\ thread'[t] = r /\ \A u \in Callers : u # t => thread'[u] = thread[u]
<1>1. thread' \in [Callers -> Locals]
  BY DEF ThreadTypes
<1>2. thread'[t] = r /\ \A u \in Callers : u # t => thread'[u] = thread[u]
  BY DEF ThreadTypes
<1>3. ASSUME NEW u \in Callers PROVE Fits(thread'[u])
  BY <1>2, Zenon DEF ThreadTypes
<1>4. (\A u \in Callers : Fits(thread[u]))'
  BY <1>3 DEF Fits
<1> QED BY <1>1, <1>2, <1>4 DEF ThreadTypes

\* a new timer
LEMMA AddedStore ==
  ASSUME CallbackTypes, NEW p \in Infos, NEW kind \in {"user", "wake"}, NEW n \in Nat,
         addTimer(p, kind, n), UNCHANGED pending_list
  PROVE  StoreTypes'
<1>1. info' = [info EXCEPT ![p] = [kind |-> kind, cancelled |-> FALSE]]
  <2>1. /\ [Free EXCEPT !.kind = kind] \in [kind : {kind}, cancelled : BOOLEAN]
        /\ [Free EXCEPT !.kind = kind].cancelled = FALSE
    BY DEF Free
  <2> DEFINE r == [Free EXCEPT !.kind = kind]
  <2> HIDE DEF r
  <2>2. r = [kind |-> kind, cancelled |-> FALSE]
    <3>1. r \in [kind : {kind}, cancelled : BOOLEAN] /\ r.cancelled = FALSE
      BY <2>1 DEF r
    <3> QED BY <3>1
  <2> QED BY <2>2 DEF addTimer, r
<1>2. info' \in [Infos -> [kind : {"free", "user", "wake"}, cancelled : BOOLEAN]]
  BY <1>1 DEF CallbackTypes, StoreTypes
<1>3. remaining' \in [Infos -> Nat \cup {-1}]
  BY DEF CallbackTypes, StoreTypes, addTimer
<1>4. timer_list' \in Seq(Infos)
  BY InsertIs DEF addTimer
<1>5. before' \in SUBSET (Infos \X Infos)
  <2>1. Queued \subseteq Infos
    <3>1. Range(timer_list) \subseteq Infos /\ Range(pending_list) \subseteq Infos \cup {Wakeup}
      BY RangeOfSeq DEF CallbackTypes, StoreTypes
    <3> QED BY <3>1 DEF Queued, ToSet, Range
  <2> QED BY <2>1 DEF CallbackTypes, StoreTypes, addTimer
<1> QED BY <1>2, <1>3, <1>4, <1>5 DEF CallbackTypes, StoreTypes

LEMMA TypesStep == CallbackTypes /\ [CallbacksNext]_callbackVars => CallbackTypes'
<1> SUFFICES ASSUME CallbackTypes, [CallbacksNext]_callbackVars PROVE CallbackTypes'
  OBVIOUS
<1> USE DEF CallbackTypes
<1>1. ASSUME NEW t \in Callers, RIL_requestTimedCallback(t) PROVE CallbackTypes'
  <2>1. PICK p \in Infos, delay \in Delays :
          /\ addTimer(p, "user", delay)
          /\ thread' = [thread EXCEPT ![t] = [Rest EXCEPT !.pc = "trigger", !.kind = "user", !.p_info = p]]
    BY <1>1 DEF RIL_requestTimedCallback
  <2> DEFINE r == [Rest EXCEPT !.pc = "trigger", !.kind = "user", !.p_info = p]
  <2>2. StoreTypes'
    BY <1>1, <2>1, AddedStore, TimersAssumption DEF RIL_requestTimedCallback
  <2>3. ThreadTypes'
    <3>1. r \in Locals /\ Fits(r)
      BY DEF Rest, Locals, Fits, TimedPCs, SomeInfo
    <3> HIDE DEF r
    <3> QED BY <2>1, <3>1, ThreadStep DEF r
  <2>4. LoopTypes' /\ PlainTypes'
    BY <1>1 DEF RIL_requestTimedCallback, wakeLock, LoopTypes, PlainTypes
  <2> QED BY <2>2, <2>3, <2>4
<1>2. ASSUME NEW t \in Callers, RIL_onUnsolicitedResponse(t) PROVE CallbackTypes'
  <2> DEFINE r == [Rest EXCEPT !.pc = "grabbed", !.kind = "wake"]
  <2>1. ThreadTypes'
    <3>1. r \in Locals /\ Fits(r) /\ thread' = [thread EXCEPT ![t] = r]
      BY <1>2 DEF Rest, Locals, Fits, TimedPCs, SomeInfo, RIL_onUnsolicitedResponse
    <3> HIDE DEF r
    <3> QED BY <3>1, ThreadStep
  <2>2. LoopTypes' /\ StoreTypes'
    BY <1>2 DEF RIL_onUnsolicitedResponse, timers, LoopTypes, StoreTypes
  <2>3. PlainTypes'
    BY <1>2 DEF RIL_onUnsolicitedResponse, PlainTypes, startsIndication
  <2> QED BY <2>1, <2>2, <2>3
<1>3. ASSUME NEW t \in Callers, triggerEvLoop(t) PROVE CallbackTypes'
  <2> DEFINE r == IF thread[t].kind = "user" THEN Rest ELSE [thread[t] EXCEPT !.pc = "scheduled"]
  <2>1. ThreadTypes'
    <3>1. thread[t] \in Locals /\ Fits(thread[t]) /\ thread[t].pc = "trigger"
      BY <1>3 DEF triggerEvLoop, ThreadTypes
    <3>2. r \in Locals /\ Fits(r)
      BY <3>1 DEF Rest, Locals, Fits, TimedPCs, SomeInfo
    <3>3. thread' = [thread EXCEPT ![t] = r]
      BY <1>3 DEF triggerEvLoop
    <3> HIDE DEF r
    <3> QED BY <3>2, <3>3, ThreadStep
  <2>2. LoopTypes' /\ StoreTypes' /\ PlainTypes'
    BY <1>3 DEF triggerEvLoop, timers, wakeLock, LoopTypes, StoreTypes, PlainTypes
  <2> QED BY <2>1, <2>2
<1>4. ASSUME NEW t \in Callers, scheduleTimeout(t) PROVE CallbackTypes'
  <2>1. PICK p \in Infos :
          /\ addTimer(p, "wake", WakeTimeout)
          /\ thread' = [thread EXCEPT ![t].pc = "trigger", ![t].p_info = p]
    BY <1>4 DEF scheduleTimeout
  <2> DEFINE r == [thread[t] EXCEPT !.pc = "trigger", !.p_info = p]
  <2>2. StoreTypes'
    BY <1>4, <2>1, AddedStore, TimersAssumption DEF scheduleTimeout
  <2>3. ThreadTypes'
    <3>1. thread[t] \in Locals /\ Fits(thread[t]) /\ thread[t].pc = "grabbed"
      BY <1>4 DEF scheduleTimeout, ThreadTypes
    <3>2. r \in Locals /\ Fits(r)
      BY <3>1 DEF Locals, Fits, TimedPCs, SomeInfo
    <3>3. thread' = [thread EXCEPT ![t] = r]
      BY <2>1
    <3> HIDE DEF r
    <3> QED BY <3>2, <3>3, ThreadStep
  <2>4. LoopTypes' /\ PlainTypes'
    BY <1>4 DEF scheduleTimeout, wakeLock, LoopTypes, PlainTypes
  <2> QED BY <2>2, <2>3, <2>4
<1>5. ASSUME NEW t \in Callers, outOfMemory(t) PROVE CallbackTypes'
  <2>1. ThreadTypes'
    <3>1. Rest \in Locals /\ Fits(Rest) /\ thread' = [thread EXCEPT ![t] = Rest]
      BY <1>5 DEF Rest, Locals, Fits, TimedPCs, SomeInfo, outOfMemory
    <3> QED BY <3>1, ThreadStep
  <2>2. LoopTypes' /\ StoreTypes' /\ PlainTypes'
    BY <1>5 DEF outOfMemory, timers, LoopTypes, StoreTypes, PlainTypes
  <2> QED BY <2>1, <2>2
<1>6. ASSUME NEW t \in Callers, readLast(t) PROVE CallbackTypes'
  <2> DEFINE r == [thread[t] EXCEPT !.last = s_last_wake_timeout_info,
                                    !.pc = IF s_last_wake_timeout_info = NULL THEN "store" ELSE "cancel"]
  <2>1. ThreadTypes'
    <3>1. thread[t] \in Locals /\ Fits(thread[t]) /\ thread[t].pc = "scheduled"
      BY <1>6 DEF readLast, ThreadTypes
    <3>2. r \in Locals /\ Fits(r)
      BY <3>1 DEF Locals, Fits, TimedPCs, SomeInfo, PlainTypes
    <3>3. thread' = [thread EXCEPT ![t] = r]
      BY <1>6 DEF readLast
    <3> HIDE DEF r
    <3> QED BY <3>2, <3>3, ThreadStep
  <2>2. LoopTypes' /\ StoreTypes' /\ PlainTypes'
    BY <1>6 DEF readLast, timers, wakeLock, LoopTypes, StoreTypes, PlainTypes
  <2> QED BY <2>1, <2>2
<1>7. ASSUME NEW t \in Callers, cancelLast(t) PROVE CallbackTypes'
  <2> DEFINE r == [thread[t] EXCEPT !.pc = "store"]
  <2>1. ThreadTypes'
    <3>1. thread[t] \in Locals /\ Fits(thread[t]) /\ thread[t].pc = "cancel"
      BY <1>7 DEF cancelLast, ThreadTypes
    <3>2. r \in Locals /\ Fits(r)
      BY <3>1 DEF Locals, Fits, TimedPCs, SomeInfo
    <3>3. thread' = [thread EXCEPT ![t] = r]
      BY <1>7 DEF cancelLast
    <3> HIDE DEF r
    <3> QED BY <3>2, <3>3, ThreadStep
  <2>2. StoreTypes'
    BY <1>7 DEF cancelLast, StoreTypes
  <2>3. LoopTypes' /\ PlainTypes'
    BY <1>7 DEF cancelLast, wakeLock, LoopTypes, PlainTypes
  <2> QED BY <2>1, <2>2, <2>3
<1>8. ASSUME NEW t \in Callers, storeLast(t) PROVE CallbackTypes'
  <2>1. ThreadTypes'
    <3>1. PICK next \in {Rest, Copying} : thread' = [thread EXCEPT ![t] = next]
      BY <1>8 DEF storeLast
    <3>2. Rest \in Locals /\ Fits(Rest)
      BY DEF Rest, Locals, Fits, TimedPCs, SomeInfo
    <3>3. Copying \in Locals /\ Fits(Copying)
      BY DEF Copying, Locals, Fits, TimedPCs, SomeInfo
    <3> QED BY <3>1, <3>2, <3>3, ThreadStep
  <2>2. thread[t].p_info \in Infos
    BY <1>8 DEF storeLast, ThreadTypes, Fits, TimedPCs
  <2>3. LoopTypes' /\ StoreTypes' /\ PlainTypes'
    BY <1>8, <2>2 DEF storeLast, timers, LoopTypes, StoreTypes, PlainTypes, SomeInfo
  <2> QED BY <2>1, <2>3
<1>9. ASSUME calcNextTimeout PROVE CallbackTypes'
  <2>1. timer_list # <<>> => remaining[Head(timer_list)] \in Int
    BY HeadTailProperties DEF StoreTypes
  <2>2. LoopTypes'
    <3> DEFINE m == IF timer_list = <<>> THEN Forever
                    ELSE IF remaining[Head(timer_list)] > 0 THEN remaining[Head(timer_list)] ELSE 0
    <3>2. m \in Int
      BY <2>1 DEF Forever
    <3>3. loop' = [loop EXCEPT !.pc = "select", !.timeout = m]
      BY <1>9 DEF calcNextTimeout
    <3> HIDE DEF m
    <3>4. PICK n \in Int : loop' = [loop EXCEPT !.pc = "select", !.timeout = n]
      BY <3>2, <3>3
    <3> QED BY <3>4 DEF LoopTypes, LoopStates, RunPCs, SomeInfo
  <2>3. ThreadTypes' /\ StoreTypes' /\ PlainTypes'
    BY <1>9 DEF calcNextTimeout, timers, wakeLock, ThreadTypes, Fits, StoreTypes, PlainTypes
  <2> QED BY <2>2, <2>3
<1>10. ASSUME select PROVE CallbackTypes'
  <2>1. LoopTypes'
    <3>1. PICK n \in Int : loop' = [loop EXCEPT !.pc = "selected", !.timeout = n, !.ready = pipe]
      <4>1. Forever \in Int
        BY DEF Forever
      <4> QED BY <1>10, <4>1 DEF select
    <3>2. pipe \in BOOLEAN
      BY DEF PlainTypes
    <3> QED BY <3>1, <3>2 DEF LoopTypes, LoopStates, RunPCs, SomeInfo
  <2>2. ThreadTypes' /\ StoreTypes' /\ PlainTypes'
    BY <1>10 DEF select, timers, wakeLock, ThreadTypes, Fits, StoreTypes, PlainTypes
  <2> QED BY <2>1, <2>2
<1>11. ASSUME processTimeouts PROVE CallbackTypes'
  <2>1. LoopTypes'
    BY <1>11 DEF processTimeouts, LoopTypes, LoopStates, RunPCs, SomeInfo
  <2>2. StoreTypes'
    BY <1>11, CutIs DEF processTimeouts, StoreTypes
  <2>3. ThreadTypes' /\ PlainTypes'
    BY <1>11 DEF processTimeouts, wakeLock, ThreadTypes, Fits, PlainTypes
  <2> QED BY <2>1, <2>2, <2>3
<1>12. ASSUME firePending PROVE CallbackTypes'
  <2> DEFINE p == Head(pending_list)
  <2>1. p \in Infos \cup {Wakeup} /\ pending_list' \in Seq(Infos \cup {Wakeup})
    BY <1>12, HeadTailProperties DEF firePending, StoreTypes
  <2> HIDE DEF p
  <2>2. \/ p = Wakeup /\ pipe' = FALSE /\ UNCHANGED <<before, loop, held, happened>>
        \/ /\ p # Wakeup /\ loop' = [loop EXCEPT !.pc = "forget", !.p_info = p]
           /\ held' = (held /\ info[p].cancelled) /\ UNCHANGED pipe
           /\ happened' = happened \cup {h \in {"early"} : indicating # {}}
           /\ before' \subseteq before
        \/ /\ p # Wakeup /\ loop' = [loop EXCEPT !.pc = "callback", !.p_info = p]
           /\ UNCHANGED <<pipe, held, happened>>
           /\ before' \subseteq before
    BY <1>12 DEF firePending, p
  <2>3. LoopTypes'
    BY <2>1, <2>2 DEF LoopTypes, LoopStates, RunPCs, SomeInfo
  <2>4. StoreTypes'
    BY <1>12, <2>1, <2>2 DEF firePending, StoreTypes
  <2>5. UNCHANGED <<calls, s_last_wake_timeout_info, thread>>
    BY <1>12 DEF firePending
  <2>6. PlainTypes'
    BY <2>1, <2>2, <2>5 DEF StoreTypes, PlainTypes
  <2>7. ThreadTypes'
    BY <2>5 DEF ThreadTypes, Fits
  <2> QED BY <2>3, <2>4, <2>6, <2>7
<1>13. ASSUME nothingPending PROVE CallbackTypes'
  <2>1. LoopTypes'
    BY <1>13 DEF nothingPending, LoopTypes, LoopStates, RunPCs, SomeInfo
  <2>2. ThreadTypes' /\ StoreTypes' /\ PlainTypes'
    BY <1>13 DEF nothingPending, timers, wakeLock, ThreadTypes, Fits, StoreTypes, PlainTypes
  <2> QED BY <2>1, <2>2
<1>14. ASSUME callbackReturns PROVE CallbackTypes'
  <2>1. LoopTypes'
    BY <1>14 DEF callbackReturns, LoopTypes, LoopStates, RunPCs, SomeInfo
  <2>2. ThreadTypes' /\ StoreTypes' /\ PlainTypes'
    BY <1>14 DEF callbackReturns, timers, wakeLock, ThreadTypes, Fits, StoreTypes, PlainTypes
  <2> QED BY <2>1, <2>2
<1>15. ASSUME isLast PROVE CallbackTypes'
  <2>1. LoopTypes'
    BY <1>15 DEF isLast, LoopTypes, LoopStates, RunPCs, SomeInfo
  <2>2. ThreadTypes' /\ StoreTypes' /\ PlainTypes'
    BY <1>15 DEF isLast, timers, wakeLock, ThreadTypes, Fits, StoreTypes, PlainTypes
  <2> QED BY <2>1, <2>2
<1>16. ASSUME clearLast PROVE CallbackTypes'
  <2>1. LoopTypes'
    BY <1>16 DEF clearLast, LoopTypes, LoopStates, RunPCs, SomeInfo
  <2>2. ThreadTypes' /\ StoreTypes' /\ PlainTypes'
    BY <1>16 DEF clearLast, timers, ThreadTypes, Fits, StoreTypes, PlainTypes, SomeInfo
  <2> QED BY <2>1, <2>2
<1>17. ASSUME freeInfo PROVE CallbackTypes'
  <2>1. LoopTypes'
    BY <1>17 DEF freeInfo, LoopTypes, LoopStates, RunPCs, SomeInfo
  <2>2. StoreTypes'
    BY <1>17 DEF freeInfo, StoreTypes, Free
  <2>3. ThreadTypes' /\ PlainTypes'
    BY <1>17 DEF freeInfo, wakeLock, ThreadTypes, Fits, PlainTypes
  <2> QED BY <2>1, <2>2, <2>3
<1>18. ASSUME Tick PROVE CallbackTypes'
  <2>1. LoopTypes'
    <3>1. PICK n \in Int : loop' = [loop EXCEPT !.timeout = n]
      <4>1. loop.timeout \in Int
        BY DEF LoopTypes, LoopStates
      <4> QED BY <1>18, <4>1 DEF Tick
    <3> QED BY <3>1 DEF LoopTypes, LoopStates, RunPCs, SomeInfo
  <2>2. remaining' \in [Infos -> Nat \cup {-1}]
    BY <1>18 DEF Tick, StoreTypes
  <2>3. StoreTypes'
    BY <1>18, <2>2 DEF Tick, StoreTypes
  <2>4. ThreadTypes' /\ PlainTypes'
    BY <1>18 DEF Tick, wakeLock, ThreadTypes, Fits, PlainTypes
  <2> QED BY <2>1, <2>3, <2>4
<1>19. ASSUME UNCHANGED callbackVars PROVE CallbackTypes'
  BY <1>19 DEF callbackVars, timers, wakeLock, StoreTypes, LoopTypes, ThreadTypes, Fits, PlainTypes
<1> QED
  BY <1>1, <1>2, <1>3, <1>4, <1>5, <1>6, <1>7, <1>8, <1>9, <1>10, <1>11, <1>12, <1>13, <1>14, <1>15, <1>16,
     <1>17, <1>18, <1>19 DEF CallbacksNext, ril_event_loop, continues

-----------------------------------------------------------------------------
(* TimedCallbacks: the order of the timers.                                *)

LEMMA QueuedIs ==
  \A q : q \in Queued <=> \/ \E i \in DOMAIN timer_list : timer_list[i] = q
                          \/ q # Wakeup /\ \E i \in DOMAIN pending_list : pending_list[i] = q
BY DEF Queued, ToSet

LEMMA QueuedNextIs ==
  \A q : q \in Queued' <=> \/ \E i \in DOMAIN timer_list' : timer_list'[i] = q
                           \/ q # Wakeup /\ \E i \in DOMAIN pending_list' : pending_list'[i] = q
BY DEF Queued, ToSet

LEMMA QueuedAreInfos ==
  ASSUME CallbackTypes, OrderInv, NEW q \in Queued
  PROVE  q \in Infos /\ info[q].kind # "free"
BY QueuedIs, ListFacts DEF OrderInv, Busy

LEMMA AheadAreQueued ==
  ASSUME CallbackTypes, NEW a \in Infos, NEW b \in Infos, Ahead(a, b)
  PROVE  a \in Queued /\ b \in Queued
BY QueuedIs, TimersAssumption, Zenon DEF Ahead

\* of two timers in the list the first stays the first when one is added
LEMMA AddedOrder ==
  ASSUME CallbackTypes, OrderInv, NEW p \in Infos, NEW kind \in {"user", "wake"}, NEW n \in Nat,
         addTimer(p, kind, n), UNCHANGED <<pending_list, loop>>
  PROVE  /\ OrderInv' /\ Queued' = Queued \cup {p} /\ p \notin Queued
         /\ info' = [info EXCEPT ![p] = [kind |-> kind, cancelled |-> FALSE]]
         /\ \A q \in Infos : q # p => info'[q] = info[q]
         /\ info'[p].kind = kind /\ info[p].kind = "free"
<1> DEFINE e == earlier(n)
           len == Len(timer_list)
           new == timer_list'
           put(i) == IF i <= e THEN i ELSE i + 1
<1>1. /\ e \in 0..len
      /\ \A i \in 1..len : i <= e => remaining[timer_list[i]] < n
  <2>1. n \in Int
    OBVIOUS
  <2> QED BY <2>1, EarlierIs, Zenon
<1>2. \A i \in 1..len : i > e => remaining[timer_list[i]] >= n
  BY EarlierSorted DEF OrderInv
<1>3. /\ len \in Nat /\ DOMAIN timer_list = 1..len
      /\ \A i \in 1..len : timer_list[i] \in Infos /\ remaining[timer_list[i]] \in Int
      /\ Len(pending_list) \in Nat /\ DOMAIN pending_list = 1..Len(pending_list)
      /\ \A i \in 1..Len(pending_list) : pending_list[i] \in Infos \cup {Wakeup}
  BY ListFacts
<1>4. /\ new \in Seq(Infos) /\ Len(new) = len + 1
      /\ \A i \in 1..len + 1 : new[i] = IF i <= e THEN timer_list[i] ELSE IF i = e + 1 THEN p ELSE timer_list[i - 1]
  BY InsertIs DEF addTimer
<1>5. DOMAIN new = 1..len + 1
  BY <1>4, LenProperties
<1> HIDE DEF e, len, new
<1>6. /\ e + 1 \in 1..len + 1 /\ new[e + 1] = p
      /\ \A i \in 1..len : put(i) \in 1..len + 1 /\ put(i) # e + 1 /\ new[put(i)] = timer_list[i]
  BY <1>1, <1>3, <1>4
<1>7. \A i \in 1..len + 1 : i = e + 1 \/ \E j \in 1..len : i = put(j)
  <2>1. ASSUME NEW i \in 1..len + 1, i # e + 1 PROVE \E j \in 1..len : i = put(j)
    <3>1. CASE i <= e
      BY <1>1, <1>3, <3>1
    <3>2. CASE i > e + 1
      <4>1. i - 1 \in 1..len /\ put(i - 1) = i
        BY <1>1, <1>3, <3>2
      <4> QED BY <4>1
    <3> QED BY <1>1, <1>3, <2>1, <3>1, <3>2
  <2> QED BY <2>1
<1>8. \A i, j \in 1..len : /\ i < j <=> put(i) < put(j)
                           /\ put(i) < e + 1 <=> i <= e
                           /\ put(i) > e + 1 <=> i > e
  BY <1>1, <1>3
<1> HIDE DEF put
<1>9. /\ info[p].kind = "free" /\ info'[p] = [kind |-> kind, cancelled |-> FALSE]
      /\ \A q \in Infos : q # p => info'[q] = info[q]
      /\ info' = [info EXCEPT ![p] = [kind |-> kind, cancelled |-> FALSE]]
  <2>1. /\ [Free EXCEPT !.kind = kind] \in [kind : {kind}, cancelled : BOOLEAN]
        /\ [Free EXCEPT !.kind = kind].cancelled = FALSE
    BY DEF Free
  <2> DEFINE r == [Free EXCEPT !.kind = kind]
  <2> HIDE DEF r
  <2>2. r = [kind |-> kind, cancelled |-> FALSE]
    <3>1. r \in [kind : {kind}, cancelled : BOOLEAN] /\ r.cancelled = FALSE
      BY <2>1 DEF r
    <3> QED BY <3>1
  <2>3. info[p].kind = "free" /\ info' = [info EXCEPT ![p] = r]
    BY DEF addTimer, r
  <2> QED BY <2>2, <2>3 DEF CallbackTypes, StoreTypes
<1>10. remaining'[p] = n /\ \A q \in Infos : q # p => remaining'[q] = remaining[q]
  BY DEF addTimer, CallbackTypes, StoreTypes
<1>11. /\ \A i \in 1..len : timer_list[i] # p
       /\ \A i \in 1..Len(pending_list) : pending_list[i] # p
  BY <1>3, <1>9, TimersAssumption DEF OrderInv, Busy
<1>12. UNCHANGED <<pending_list, loop>>
  OBVIOUS
<1>20. ASSUME NEW i \in 1..len + 1
       PROVE  \/ i = e + 1 /\ new[i] = p
              \/ i # e + 1 /\ \E j \in 1..len : new[i] = timer_list[j]
  <2>1. CASE i = e + 1
    BY <1>6, <2>1
  <2>2. CASE i # e + 1
    BY <1>6, <1>7, <2>2
  <2> QED BY <2>1, <2>2
<1>13. Distinct'
  <2>1. ASSUME NEW i \in 1..len + 1, NEW j \in 1..len + 1, new[i] = new[j] PROVE i = j
    <3>1. CASE i = e + 1 \/ j = e + 1
      BY <1>6, <1>11, <1>20, <2>1, <3>1
    <3>2. CASE i # e + 1 /\ j # e + 1
      <4>1. PICK k \in 1..len, m \in 1..len : i = put(k) /\ j = put(m)
        BY <1>7, <3>2
      <4>2. timer_list[k] = timer_list[m]
        BY <1>6, <2>1, <4>1
      <4> QED BY <1>3, <4>1, <4>2 DEF OrderInv, Distinct
    <3> QED BY <3>1, <3>2
  <2>2. ASSUME NEW i \in 1..len + 1, NEW j \in 1..Len(pending_list) PROVE new[i] # pending_list[j]
    <3>1. ASSUME NEW k \in 1..len PROVE timer_list[k] # pending_list[j]
      BY <1>3 DEF OrderInv, Distinct
    <3> QED BY <1>11, <1>20, <3>1
  <2> QED BY <1>3, <1>5, <1>12, <2>1, <2>2 DEF OrderInv, Distinct, new
<1>14. Busy'
  <2>1. ASSUME NEW i \in 1..len + 1 PROVE info'[new[i]].kind # "free"
    <3>1. ASSUME NEW k \in 1..len PROVE info'[timer_list[k]].kind # "free"
      BY <1>3, <1>9, <1>11 DEF OrderInv, Busy
    <3>2. info'[p].kind # "free"
      BY <1>9
    <3> QED BY <1>20, <3>1, <3>2
  <2>2. ASSUME NEW i \in 1..Len(pending_list), pending_list[i] # Wakeup PROVE info'[pending_list[i]].kind # "free"
    BY <1>3, <1>9, <1>11, <2>2 DEF OrderInv, Busy
  <2> QED BY <1>3, <1>5, <1>12, <2>1, <2>2 DEF Busy, new
<1>15. InHand'
  <2>1. ASSUME loop.pc \in RunPCs
        PROVE  /\ info'[loop.p_info] = info[loop.p_info]
               /\ info[loop.p_info].kind # "free"
               /\ \A i \in 1..len + 1 : new[i] # loop.p_info
    <3>1. loop.p_info \in Infos /\ loop.p_info # p
      BY <1>9, <2>1 DEF OrderInv, InHand, CallbackTypes, LoopTypes
    <3>2. info'[loop.p_info] = info[loop.p_info]
      BY <1>9, <3>1
    <3>3. /\ info[loop.p_info].kind # "free"
          /\ \A i \in 1..len : timer_list[i] # loop.p_info
      BY <1>3, <2>1 DEF OrderInv, InHand
    <3> QED BY <1>20, <3>1, <3>2, <3>3
  <2>2. "callback" \in RunPCs
    BY DEF RunPCs
  <2> QED BY <1>3, <1>5, <1>12, <2>1, <2>2 DEF OrderInv, InHand, new
<1>16. Sorted'
  <2>1. ASSUME NEW i \in 1..len + 1, NEW j \in 1..len + 1, i < j PROVE remaining'[new[i]] <= remaining'[new[j]]
    <3>1. CASE i = e + 1
      <4>1. PICK k \in 1..len : j = put(k) /\ k > e
        BY <1>1, <1>3, <1>7, <1>8, <2>1, <3>1
      <4>2. new[i] = p /\ new[j] = timer_list[k] /\ timer_list[k] # p /\ timer_list[k] \in Infos
        BY <1>3, <1>6, <1>11, <3>1, <4>1
      <4> QED BY <1>2, <1>3, <1>10, <4>1, <4>2
    <3>2. CASE j = e + 1
      <4>1. PICK k \in 1..len : i = put(k) /\ k <= e
        BY <1>1, <1>3, <1>7, <1>8, <2>1, <3>2
      <4>2. new[j] = p /\ new[i] = timer_list[k] /\ timer_list[k] # p /\ timer_list[k] \in Infos
        BY <1>3, <1>6, <1>11, <3>2, <4>1
      <4> QED BY <1>1, <1>3, <1>10, <4>1, <4>2
    <3>3. CASE i # e + 1 /\ j # e + 1
      <4>1. PICK k \in 1..len, m \in 1..len : i = put(k) /\ j = put(m)
        BY <1>7, <3>3
      <4>2. k < m
        BY <1>8, <2>1, <4>1
      <4>3. /\ new[i] = timer_list[k] /\ timer_list[k] # p /\ timer_list[k] \in Infos
            /\ new[j] = timer_list[m] /\ timer_list[m] # p /\ timer_list[m] \in Infos
        BY <1>3, <1>6, <1>11, <4>1
      <4>4. remaining[timer_list[k]] <= remaining[timer_list[m]]
        BY <1>3, <4>2 DEF OrderInv, Sorted
      <4> QED BY <1>10, <4>3, <4>4
    <3> QED BY <3>1, <3>2, <3>3
  <2> QED BY <1>5, <2>1 DEF Sorted, new
<1>17. PendingAreDue'
  <2>1. ASSUME NEW i \in 1..Len(pending_list), pending_list[i] # Wakeup PROVE remaining'[pending_list[i]] = -1
    BY <1>3, <1>10, <1>11, <2>1 DEF OrderInv, PendingAreDue
  <2> QED BY <1>3, <1>12, <2>1 DEF PendingAreDue
<1>18. InOrder'
  <2> DEFINE ahead(a, b) ==
        \/ \E i, j \in 1..Len(pending_list) : i < j /\ pending_list[i] = a /\ pending_list[j] = b
        \/ \E i \in 1..Len(pending_list), j \in 1..len + 1 : pending_list[i] = a /\ new[j] = b
        \/ \E i, j \in 1..len + 1 : i < j /\ new[i] = a /\ new[j] = b
  <2>1. ASSUME NEW a, NEW b, Ahead(a, b) PROVE ahead(a, b)
    <3>1. CASE \E i, j \in 1..Len(pending_list) : i < j /\ pending_list[i] = a /\ pending_list[j] = b
      BY <3>1
    <3>2. CASE \E i \in 1..Len(pending_list), j \in 1..len : pending_list[i] = a /\ timer_list[j] = b
      BY <1>6, <3>2
    <3>3. CASE \E i, j \in 1..len : i < j /\ timer_list[i] = a /\ timer_list[j] = b
      BY <1>6, <1>8, <3>3
    <3> QED BY <1>3, <2>1, <3>1, <3>2, <3>3 DEF Ahead
  <2>2. ASSUME NEW q \in Queued, remaining[q] < n PROVE ahead(q, p)
    <3>1. CASE \E i \in 1..Len(pending_list) : pending_list[i] = q
      BY <1>6, <3>1
    <3>2. CASE \E i \in 1..len : timer_list[i] = q
      <4>1. PICK i \in 1..len : timer_list[i] = q
        BY <3>2
      <4>2. i <= e
        BY <1>1, <1>2, <1>3, <2>2, <4>1
      <4>3. put(i) < e + 1 /\ put(i) \in 1..len + 1 /\ new[put(i)] = q
        BY <1>6, <1>8, <4>1, <4>2
      <4> QED BY <1>6, <4>3
    <3> QED BY <1>3, <3>1, <3>2, QueuedIs
  <2>3. ASSUME NEW q \in Queued, remaining[q] > n PROVE ahead(p, q)
    <3>1. CASE \E i \in 1..Len(pending_list) : pending_list[i] = q /\ q # Wakeup
      BY <1>3, <2>3, <3>1 DEF OrderInv, PendingAreDue
    <3>2. CASE \E i \in 1..len : timer_list[i] = q
      <4>1. PICK i \in 1..len : timer_list[i] = q
        BY <3>2
      <4>2. i > e
        BY <1>1, <1>3, <2>3, <4>1
      <4>3. e + 1 < put(i) /\ put(i) \in 1..len + 1 /\ new[put(i)] = q
        BY <1>6, <1>8, <4>1, <4>2
      <4> QED BY <1>6, <4>3
    <3> QED BY <1>3, <3>1, <3>2, QueuedIs
  <2>4. ASSUME NEW pair \in before' PROVE ahead(pair[1], pair[2])
    <3>1. \/ pair \in before
          \/ \E q \in {r \in Queued : remaining[r] < n} : pair = <<q, p>>
          \/ \E q \in {r \in Queued : remaining[r] > n} : pair = <<p, q>>
      BY DEF addTimer
    <3> HIDE DEF ahead
    <3>2. CASE pair \in before
      BY <2>1, <3>2 DEF OrderInv, InOrder
    <3>3. ASSUME NEW q \in {r \in Queued : remaining[r] < n}, pair = <<q, p>> PROVE ahead(pair[1], pair[2])
      BY <2>2, <3>3
    <3>4. ASSUME NEW q \in {r \in Queued : remaining[r] > n}, pair = <<p, q>> PROVE ahead(pair[1], pair[2])
      BY <2>3, <3>4
    <3> QED BY <3>1, <3>2, <3>3, <3>4
  <2>5. \A a, b : ahead(a, b) => Ahead(a, b)'
    BY <1>3, <1>5, <1>12 DEF Ahead, new
  <2> HIDE DEF ahead
  <2>6. \A pair \in before' : Ahead(pair[1], pair[2])'
    BY <2>4, <2>5
  <2> QED BY <2>6 DEF InOrder, Ahead
<1>19. Queued' = Queued \cup {p} /\ p \notin Queued
  <2>1. \A q : q \in Queued' <=> q \in Queued \/ q = p
    <3> SUFFICES ASSUME NEW q PROVE q \in Queued' <=> q \in Queued \/ q = p
      OBVIOUS
    <3>1. (\E i \in 1..len + 1 : new[i] = q) <=> q = p \/ \E i \in 1..len : timer_list[i] = q
      <4>1. ASSUME NEW i \in 1..len, timer_list[i] = q PROVE \E j \in 1..len + 1 : new[j] = q
        BY <1>6, <4>1
      <4>2. new[e + 1] = p /\ e + 1 \in 1..len + 1
        BY <1>6
      <4> QED BY <1>20, <4>1, <4>2
    <3>2. q \in Queued' <=> \/ \E i \in 1..len + 1 : new[i] = q
                            \/ q # Wakeup /\ \E i \in DOMAIN pending_list : pending_list[i] = q
      BY <1>5, <1>12, QueuedNextIs DEF new
    <3>3. q \in Queued <=> \/ \E i \in 1..len : timer_list[i] = q
                           \/ q # Wakeup /\ \E i \in DOMAIN pending_list : pending_list[i] = q
      BY <1>3, QueuedIs
    <3> QED BY <3>1, <3>2, <3>3
  <2>2. p \notin Queued
    BY <1>3, <1>11, QueuedIs
  <2> QED BY <2>1, <2>2
<1> QED BY <1>9, <1>13, <1>14, <1>15, <1>16, <1>17, <1>18, <1>19 DEF OrderInv

\* what was in front of what stays there when the expired timers are taken away
LEMMA CutOrder ==
  ASSUME CallbackTypes, OrderInv, processTimeouts
  PROVE  OrderInv' /\ Queued' = Queued
<1> DEFINE e == expired
           len == Len(timer_list)
           cut == timer_list'
           due == pending_list'
           n == Len(pending_list')
<1>1. /\ len \in Nat /\ DOMAIN timer_list = 1..len
      /\ \A i \in 1..len : timer_list[i] \in Infos /\ remaining[timer_list[i]] \in Int
  BY ListFacts
<1>2. /\ e \in 0..len
      /\ cut \in Seq(Infos) /\ Len(cut) = len - e
      /\ \A i \in 1..len - e : cut[i] = timer_list[e + i]
      /\ due \in Seq(Infos \cup {Wakeup}) /\ n = e + (IF loop.ready THEN 1 ELSE 0)
      /\ \A i \in 1..n : due[i] = IF i <= e THEN timer_list[i] ELSE Wakeup
  BY CutIs
<1>3. DOMAIN cut = 1..len - e /\ DOMAIN due = 1..n
  BY <1>2, LenProperties
<1>4. \A i \in 1..len : i <= e => remaining[timer_list[i]] < 0
  BY EarlierIs DEF expired
<1>5. pending_list = <<>> /\ loop.pc = "selected" /\ loop'.pc = "fire"
  BY DEF processTimeouts, OrderInv, InHand, CallbackTypes, LoopTypes, LoopStates
<1>6. UNCHANGED <<info, remaining, before>>
  BY DEF processTimeouts
<1>7. /\ \A i, j \in 1..len : timer_list[i] = timer_list[j] => i = j
      /\ \A i \in 1..len : info[timer_list[i]].kind # "free"
  BY <1>1 DEF OrderInv, Distinct, Busy
<1> HIDE DEF e, len, cut, due, n
<1>8. n \in {e, e + 1} /\ e \in Nat
  BY <1>1, <1>2
<1>9. ASSUME NEW i \in 1..len - e PROVE e + i \in 1..len /\ cut[i] = timer_list[e + i]
  BY <1>1, <1>2
<1>10. ASSUME NEW i \in 1..n
       PROVE  \/ i \in 1..len /\ i <= e /\ due[i] = timer_list[i]
              \/ i = e + 1 /\ due[i] = Wakeup
  <2>1. CASE i <= e
    BY <1>1, <1>2, <1>8, <2>1
  <2>2. CASE i > e
    BY <1>2, <1>8, <2>2
  <2> QED BY <1>8, <2>1, <2>2
<1>11. \A i \in 1..len : timer_list[i] # Wakeup
  BY <1>1, TimersAssumption
<1>12. Distinct'
  <2>1. ASSUME NEW i \in 1..len - e, NEW j \in 1..len - e, cut[i] = cut[j] PROVE i = j
    <3>1. e + i = e + j
      BY <1>7, <1>9, <2>1
    <3> QED BY <1>8, <3>1
  <2>2. ASSUME NEW i \in 1..n, NEW j \in 1..n, due[i] = due[j] PROVE i = j
    BY <1>7, <1>10, <1>11, <2>2
  <2>3. ASSUME NEW i \in 1..len - e, NEW j \in 1..n PROVE cut[i] # due[j]
    <3>1. e + i \in 1..len /\ cut[i] = timer_list[e + i]
      BY <1>9
    <3>2. CASE j = e + 1 /\ due[j] = Wakeup
      BY <1>11, <3>1, <3>2
    <3>3. CASE j \in 1..len /\ j <= e /\ due[j] = timer_list[j]
      <4>1. e + i # j
        BY <1>8, <3>3
      <4> QED BY <1>7, <3>1, <3>3, <4>1
    <3> QED BY <1>10, <3>2, <3>3
  <2> QED BY <1>3, <2>1, <2>2, <2>3 DEF Distinct, cut, due
<1>13. Busy'
  <2>1. \A i \in 1..len - e : info[cut[i]].kind # "free"
    BY <1>7, <1>9
  <2>2. \A i \in 1..n : due[i] # Wakeup => info[due[i]].kind # "free"
    BY <1>7, <1>10
  <2> QED BY <1>3, <1>6, <2>1, <2>2 DEF Busy, cut, due
<1>14. InHand'
  BY <1>5 DEF InHand, RunPCs
<1>15. Sorted'
  <2>1. ASSUME NEW i \in 1..len - e, NEW j \in 1..len - e, i < j PROVE remaining[cut[i]] <= remaining[cut[j]]
    <3>1. e + i < e + j /\ e + i \in 1..len /\ e + j \in 1..len
      BY <1>8, <1>9, <2>1
    <3>2. remaining[timer_list[e + i]] <= remaining[timer_list[e + j]]
      BY <1>1, <3>1 DEF OrderInv, Sorted
    <3> QED BY <1>9, <3>2
  <2> QED BY <1>3, <1>6, <2>1 DEF Sorted, cut
<1>16. PendingAreDue'
  <2>1. ASSUME NEW i \in 1..n, due[i] # Wakeup PROVE remaining[due[i]] = -1
    <3>1. i \in 1..len /\ i <= e /\ due[i] = timer_list[i]
      BY <1>10, <2>1
    <3>2. remaining[due[i]] \in Nat \cup {-1} /\ remaining[due[i]] < 0
      BY <1>1, <1>4, <3>1 DEF CallbackTypes, StoreTypes
    <3> QED BY <3>2
  <2> QED BY <1>3, <1>6, <2>1 DEF PendingAreDue, due
<1>17. \A i \in 1..len : \/ i \in 1..n /\ due[i] = timer_list[i]
                         \/ i - e \in 1..len - e /\ cut[i - e] = timer_list[i] /\ i > e
  <2> SUFFICES ASSUME NEW i \in 1..len
               PROVE  \/ i \in 1..n /\ due[i] = timer_list[i]
                      \/ i - e \in 1..len - e /\ cut[i - e] = timer_list[i] /\ i > e
    OBVIOUS
  <2>1. CASE i <= e
    <3>1. i \in 1..n
      BY <1>8, <2>1
    <3> QED BY <1>2, <2>1, <3>1
  <2>2. CASE i > e
    <3>1. i - e \in 1..len - e /\ e + (i - e) = i
      BY <1>1, <1>8, <2>2
    <3> QED BY <1>9, <2>2, <3>1
  <2> QED BY <1>1, <1>8, <2>1, <2>2
<1>18. InOrder'
  <2> DEFINE ahead(a, b) ==
        \/ \E i, j \in 1..n : i < j /\ due[i] = a /\ due[j] = b
        \/ \E i \in 1..n, j \in 1..len - e : due[i] = a /\ cut[j] = b
        \/ \E i, j \in 1..len - e : i < j /\ cut[i] = a /\ cut[j] = b
  <2>1. ASSUME NEW a, NEW b, Ahead(a, b) PROVE ahead(a, b)
    <3>1. PICK i \in 1..len, j \in 1..len : i < j /\ timer_list[i] = a /\ timer_list[j] = b
      BY <1>1, <1>5, <2>1 DEF Ahead
    <3>2. CASE i \in 1..n /\ due[i] = a
      <4>1. CASE j \in 1..n /\ due[j] = b
        BY <3>1, <3>2, <4>1
      <4>2. CASE j - e \in 1..len - e /\ cut[j - e] = b
        BY <3>2, <4>2
      <4> QED BY <1>17, <3>1, <4>1, <4>2
    <3>3. CASE i - e \in 1..len - e /\ cut[i - e] = a /\ i > e
      <4>1. j - e \in 1..len - e /\ cut[j - e] = b
        <5>1. j - e \in 1..len - e /\ e + (j - e) = j
          BY <1>1, <1>8, <3>1, <3>3
        <5> QED BY <1>9, <3>1, <5>1
      <4>2. i - e < j - e
        BY <1>8, <3>1
      <4> QED BY <3>3, <4>1, <4>2
    <3> QED BY <1>17, <3>1, <3>2, <3>3
  <2>2. \A a, b : ahead(a, b) => Ahead(a, b)'
    BY <1>3 DEF Ahead, cut, due
  <2> HIDE DEF ahead
  <2>3. \A pair \in before : Ahead(pair[1], pair[2])'
    BY <2>1, <2>2 DEF OrderInv, InOrder
  <2> QED BY <1>6, <2>3 DEF InOrder, Ahead
<1>19. Queued' = Queued
  <2> SUFFICES ASSUME NEW q PROVE q \in Queued' <=> q \in Queued
    OBVIOUS
  <2>1. q \in Queued <=> \E i \in 1..len : timer_list[i] = q
    BY <1>1, <1>5, QueuedIs
  <2>2. q \in Queued' <=> \/ \E i \in 1..len - e : cut[i] = q
                          \/ q # Wakeup /\ \E i \in 1..n : due[i] = q
    BY <1>3, QueuedNextIs DEF cut, due
  <2>3. ASSUME NEW i \in 1..len, timer_list[i] = q PROVE q \in Queued'
    BY <1>11, <1>17, <2>2, <2>3
  <2>4. ASSUME NEW i \in 1..len - e, cut[i] = q PROVE q \in Queued
    BY <1>9, <2>1, <2>4
  <2>5. ASSUME NEW i \in 1..n, due[i] = q, q # Wakeup PROVE q \in Queued
    BY <1>10, <2>1, <2>5
  <2> QED BY <2>1, <2>2, <2>3, <2>4, <2>5
<1> QED BY <1>12, <1>13, <1>14, <1>15, <1>16, <1>18, <1>19 DEF OrderInv

\* the first pending event is ahead of all others
LEMMA FireOrder ==
  ASSUME CallbackTypes, OrderInv, firePending
  PROVE  /\ OrderInv' /\ Queued' = Queued \ {Head(pending_list)}
         /\ \A pair \in before : pair[2] # Head(pending_list)
<1> DEFINE p == Head(pending_list)
           n == Len(pending_list)
           tail == Tail(pending_list)
<1>1. /\ n \in Nat /\ n >= 1 /\ DOMAIN pending_list = 1..n
      /\ \A i \in 1..n : pending_list[i] \in Infos \cup {Wakeup}
      /\ \A i \in DOMAIN timer_list : timer_list[i] \in Infos
  BY ListFacts, FirstIs DEF firePending
<1>2. /\ p = pending_list[1] /\ Len(tail) = n - 1 /\ tail \in Seq(Infos \cup {Wakeup})
      /\ \A i \in 1..n - 1 : tail[i] = pending_list[i + 1]
  BY FirstIs DEF firePending
<1>3. DOMAIN tail = 1..n - 1
  BY <1>2, LenProperties
<1>4. pending_list' = tail /\ UNCHANGED <<info, remaining, timer_list>> /\ loop.pc = "fire"
  BY DEF firePending
<1>5. /\ \A i, j \in 1..n : pending_list[i] = pending_list[j] => i = j
      /\ \A i \in DOMAIN timer_list, j \in 1..n : timer_list[i] # pending_list[j]
      /\ \A i \in 1..n : pending_list[i] # Wakeup => info[pending_list[i]].kind # "free"
  BY <1>1 DEF OrderInv, Distinct, Busy
<1>6. \/ p = Wakeup /\ UNCHANGED <<loop, before>>
      \/ /\ p # Wakeup /\ loop' = [loop EXCEPT !.pc = "forget", !.p_info = p]
         /\ before' = {b \in before : p \notin {b[1], b[2]}}
      \/ /\ p # Wakeup /\ loop' = [loop EXCEPT !.pc = "callback", !.p_info = p] /\ info[p].kind = "user"
         /\ before' = {b \in before : p \notin {b[1], b[2]}}
  BY DEF firePending
<1> HIDE DEF p, n, tail
<1>7. ASSUME NEW i \in 1..n PROVE i = 1 \/ (i - 1 \in 1..n - 1 /\ tail[i - 1] = pending_list[i])
  <2>1. CASE i # 1
    <3>1. i - 1 \in 1..n - 1 /\ (i - 1) + 1 = i
      BY <1>1, <2>1
    <3> QED BY <1>2, <3>1
  <2> QED BY <2>1
<1>8. ASSUME NEW i \in 1..n - 1 PROVE i + 1 \in 1..n /\ tail[i] = pending_list[i + 1] /\ tail[i] # p
  <2>1. i + 1 \in 1..n /\ i + 1 # 1 /\ 1 \in 1..n
    BY <1>1
  <2> QED BY <1>2, <1>5, <2>1
<1>9. 1 \in 1..n /\ \A i \in DOMAIN timer_list : timer_list[i] # p
  BY <1>1, <1>2, <1>5
<1>10. Distinct'
  <2>1. ASSUME NEW i \in 1..n - 1, NEW j \in 1..n - 1, tail[i] = tail[j] PROVE i = j
    <3>1. i + 1 = j + 1
      BY <1>5, <1>8, <2>1
    <3> QED BY <3>1
  <2>2. ASSUME NEW i \in DOMAIN timer_list, NEW j \in 1..n - 1 PROVE timer_list[i] # tail[j]
    BY <1>5, <1>8
  <2>3. \A i, j \in DOMAIN timer_list : timer_list[i] = timer_list[j] => i = j
    BY DEF OrderInv, Distinct
  <2> QED BY <1>3, <1>4, <2>1, <2>2, <2>3 DEF Distinct
<1>11. Busy'
  <2>1. \A i \in 1..n - 1 : tail[i] # Wakeup => info[tail[i]].kind # "free"
    BY <1>5, <1>8
  <2> QED BY <1>3, <1>4, <2>1 DEF OrderInv, Busy
<1>12. InHand'
  <2>1. CASE p = Wakeup
    BY <1>4, <1>6, <2>1 DEF InHand, RunPCs
  <2>2. CASE p # Wakeup
    <3>1. /\ loop'.pc \in {"forget", "callback"} /\ loop'.p_info = p
          /\ loop'.pc = "callback" => info[p].kind = "user"
      BY <1>6, <2>2 DEF CallbackTypes, LoopTypes, LoopStates
    <3>2. info[p].kind # "free"
      BY <1>2, <1>5, <1>9, <2>2
    <3> QED BY <1>3, <1>4, <1>8, <1>9, <3>1, <3>2 DEF InHand
  <2> QED BY <2>1, <2>2
<1>13. Sorted'
  BY <1>4 DEF OrderInv, Sorted
<1>14. PendingAreDue'
  <2>1. \A i \in 1..n - 1 : tail[i] # Wakeup => remaining[tail[i]] = -1
    BY <1>1, <1>8 DEF OrderInv, PendingAreDue
  <2> QED BY <1>3, <1>4, <2>1 DEF PendingAreDue
<1> DEFINE ahead(a, b) ==
      \/ \E i, j \in 1..n - 1 : i < j /\ tail[i] = a /\ tail[j] = b
      \/ \E i \in 1..n - 1, j \in DOMAIN timer_list : tail[i] = a /\ timer_list[j] = b
      \/ \E i, j \in DOMAIN timer_list : i < j /\ timer_list[i] = a /\ timer_list[j] = b
<1>15. ASSUME NEW a, NEW b, Ahead(a, b) PROVE b # p /\ (a # p => ahead(a, b))
  <2>1. CASE \E i, j \in 1..n : i < j /\ pending_list[i] = a /\ pending_list[j] = b
    <3>1. PICK i \in 1..n, j \in 1..n : i < j /\ pending_list[i] = a /\ pending_list[j] = b
      BY <2>1
    <3>2. j # 1
      BY <3>1
    <3>3. j - 1 \in 1..n - 1 /\ tail[j - 1] = b
      BY <1>7, <3>1, <3>2
    <3>4. i # 1 => i - 1 \in 1..n - 1 /\ tail[i - 1] = a
      BY <1>7, <3>1
    <3>5. i = 1 => a = p
      BY <1>2, <3>1
    <3>6. i - 1 < j - 1
      BY <3>1
    <3> QED BY <1>8, <3>3, <3>4, <3>5, <3>6
  <2>2. CASE \E i \in 1..n, j \in DOMAIN timer_list : pending_list[i] = a /\ timer_list[j] = b
    <3>1. PICK i \in 1..n, j \in DOMAIN timer_list : pending_list[i] = a /\ timer_list[j] = b
      BY <2>2
    <3>2. i # 1 => i - 1 \in 1..n - 1 /\ tail[i - 1] = a
      BY <1>7, <3>1
    <3>3. i = 1 => a = p
      BY <1>2, <3>1
    <3> QED BY <1>9, <3>1, <3>2, <3>3
  <2>3. CASE \E i, j \in DOMAIN timer_list : i < j /\ timer_list[i] = a /\ timer_list[j] = b
    BY <1>9, <2>3
  <2> QED BY <1>1, <1>15, <2>1, <2>2, <2>3 DEF Ahead
<1>16. \A pair \in before : pair[2] # p
  BY <1>15 DEF OrderInv, InOrder
<1>17. InOrder'
  <2>1. \A a, b : ahead(a, b) => Ahead(a, b)'
    BY <1>3, <1>4 DEF Ahead
  <2> HIDE DEF ahead
  <2>2. ASSUME NEW pair \in before' PROVE pair \in before /\ pair[1] # p
    <3>1. CASE p = Wakeup
      <4>1. pair \in before /\ pair \in Infos \X Infos
        BY <1>6, <2>2, <3>1 DEF CallbackTypes, StoreTypes
      <4> QED BY <3>1, <4>1, TimersAssumption
    <3>2. CASE p # Wakeup
      BY <1>6, <2>2, <3>2
    <3> QED BY <3>1, <3>2
  <2>3. \A pair \in before' : Ahead(pair[1], pair[2])'
    BY <1>15, <2>1, <2>2 DEF OrderInv, InOrder
  <2> QED BY <2>3 DEF InOrder, Ahead
<1>18. Queued' = Queued \ {p}
  <2> SUFFICES ASSUME NEW q PROVE q \in Queued' <=> q \in Queued /\ q # p
    OBVIOUS
  <2>1. q \in Queued <=> \/ \E i \in DOMAIN timer_list : timer_list[i] = q
                         \/ q # Wakeup /\ \E i \in 1..n : pending_list[i] = q
    BY <1>1, QueuedIs
  <2>2. q \in Queued' <=> \/ \E i \in DOMAIN timer_list : timer_list[i] = q
                          \/ q # Wakeup /\ \E i \in 1..n - 1 : tail[i] = q
    BY <1>3, <1>4, QueuedNextIs
  <2>3. ASSUME NEW i \in 1..n, pending_list[i] = q, q # p PROVE \E j \in 1..n - 1 : tail[j] = q
    BY <1>2, <1>7, <2>3
  <2>4. ASSUME NEW i \in 1..n - 1, tail[i] = q PROVE q # p /\ \E j \in 1..n : pending_list[j] = q
    BY <1>8, <2>4
  <2> QED BY <1>9, <2>1, <2>2, <2>3, <2>4
<1> QED BY <1>10, <1>11, <1>12, <1>13, <1>14, <1>16, <1>17, <1>18 DEF OrderInv, p

\* where no timer moves
LEMMA OrderStays ==
  ASSUME CallbackTypes, OrderInv, UNCHANGED <<remaining, timer_list, pending_list, before>>,
         \A p \in Infos : info'[p].kind = info[p].kind,
         \/ loop' = loop \/ loop'.pc = "fire"
         \/ loop'.pc \in {"top", "select", "selected"} /\ pending_list = <<>>
         \/ loop'.pc \in {"forget", "clear", "free"} /\ loop.pc \in RunPCs /\ loop'.p_info = loop.p_info
  PROVE  OrderInv' /\ Queued' = Queued
<1>1. Distinct' /\ Sorted' /\ PendingAreDue' /\ InOrder'
  BY DEF OrderInv, Distinct, Sorted, PendingAreDue, InOrder, Ahead
<1>2. Busy'
  <2>1. \A i \in DOMAIN timer_list : timer_list[i] \in Infos
    BY ListFacts
  <2>2. \A i \in DOMAIN pending_list : pending_list[i] # Wakeup => pending_list[i] \in Infos
    BY ListFacts
  <2> QED BY <2>1, <2>2 DEF OrderInv, Busy
<1>3. InHand'
  <2>1. loop.pc \in RunPCs => loop.p_info \in Infos
    BY DEF CallbackTypes, LoopTypes
  <2>2. CASE loop' = loop
    BY <2>1, <2>2 DEF OrderInv, InHand, RunPCs
  <2>3. CASE loop'.pc = "fire"
    BY <2>3 DEF InHand, RunPCs
  <2>4. CASE loop'.pc \in {"top", "select", "selected"} /\ pending_list = <<>>
    BY <2>4 DEF InHand, RunPCs
  <2>5. CASE loop'.pc \in {"forget", "clear", "free"} /\ loop.pc \in RunPCs /\ loop'.p_info = loop.p_info
    BY <2>1, <2>5 DEF OrderInv, InHand
  <2> QED BY <2>2, <2>3, <2>4, <2>5
<1>4. Queued' = Queued
  BY DEF Queued
<1> QED BY <1>1, <1>2, <1>3, <1>4 DEF OrderInv

LEMMA FreeOrder ==
  ASSUME CallbackTypes, OrderInv, freeInfo
  PROVE  OrderInv' /\ Queued' = Queued /\ loop.p_info \notin Queued
<1> DEFINE p == loop.p_info
<1>1. /\ loop.pc = "free" /\ p \in Infos
      /\ \A i \in DOMAIN timer_list : timer_list[i] # p
      /\ \A i \in DOMAIN pending_list : pending_list[i] # p
  BY DEF freeInfo, OrderInv, InHand, RunPCs, CallbackTypes, LoopTypes
<1>2. /\ \A q \in Infos : q # p => info'[q] = info[q] /\ remaining'[q] = remaining[q]
      /\ UNCHANGED <<timer_list, pending_list, before>> /\ loop'.pc = "fire"
  BY DEF freeInfo, CallbackTypes, StoreTypes, LoopTypes, LoopStates
<1>3. /\ \A i \in DOMAIN timer_list : timer_list[i] \in Infos
      /\ \A i \in DOMAIN pending_list : pending_list[i] # Wakeup => pending_list[i] \in Infos
  BY ListFacts
<1> HIDE DEF p
<1>4. Distinct' /\ InOrder'
  BY <1>2 DEF OrderInv, Distinct, InOrder, Ahead
<1>5. Busy'
  BY <1>1, <1>2, <1>3 DEF OrderInv, Busy
<1>6. Sorted'
  BY <1>1, <1>2, <1>3 DEF OrderInv, Sorted
<1>7. PendingAreDue'
  BY <1>1, <1>2, <1>3 DEF OrderInv, PendingAreDue
<1>8. InHand'
  BY <1>2 DEF InHand, RunPCs
<1>9. Queued' = Queued /\ p \notin Queued
  BY <1>1, <1>2, QueuedIs DEF Queued
<1> QED BY <1>4, <1>5, <1>6, <1>7, <1>8, <1>9 DEF OrderInv, p

LEMMA TickOrder ==
  ASSUME CallbackTypes, OrderInv, Tick
  PROVE  OrderInv' /\ Queued' = Queued
<1>1. /\ UNCHANGED <<info, timer_list, pending_list, before>>
      /\ loop'.pc = loop.pc /\ loop'.p_info = loop.p_info
  BY DEF Tick, CallbackTypes, LoopTypes, LoopStates
<1>2. \A p \in Infos : /\ remaining[p] \in Nat \cup {-1}
                       /\ remaining'[p] = IF remaining[p] >= 0 THEN remaining[p] - 1 ELSE -1
  BY DEF Tick, CallbackTypes, StoreTypes
<1>3. /\ \A i \in DOMAIN timer_list : timer_list[i] \in Infos
      /\ \A i \in DOMAIN pending_list : pending_list[i] # Wakeup => pending_list[i] \in Infos
  BY ListFacts
<1>4. Distinct' /\ InOrder' /\ Busy' /\ InHand'
  BY <1>1 DEF OrderInv, Distinct, InOrder, Ahead, Busy, InHand
<1>5. Sorted'
  <2>1. \A i, j \in DOMAIN timer_list :
          remaining[timer_list[i]] <= remaining[timer_list[j]] => remaining'[timer_list[i]] <= remaining'[timer_list[j]]
    BY <1>2, <1>3
  <2> QED BY <1>1, <2>1 DEF OrderInv, Sorted
<1>6. PendingAreDue'
  BY <1>1, <1>2, <1>3 DEF OrderInv, PendingAreDue
<1>7. Queued' = Queued
  BY <1>1 DEF Queued
<1> QED BY <1>4, <1>5, <1>6, <1>7 DEF OrderInv

LEMMA OrderInit == CallbacksInit => OrderInv
BY DEF CallbacksInit, OrderInv, Distinct, Busy, InHand, Sorted, PendingAreDue, InOrder, RunPCs

\* which actions leave the timers where they are
LEMMA ThreadOrder ==
  ASSUME CallbackTypes, OrderInv, NEW t \in Callers,
         \/ RIL_onUnsolicitedResponse(t) \/ triggerEvLoop(t) \/ outOfMemory(t) \/ readLast(t) \/ cancelLast(t)
         \/ storeLast(t)
  PROVE  OrderInv' /\ Queued' = Queued /\ (\A p \in Infos : info'[p].kind = info[p].kind) /\ loop' = loop
<1>1. /\ UNCHANGED <<remaining, timer_list, pending_list, before, loop>>
      /\ info' = info \/ info' = [info EXCEPT ![thread[t].last].cancelled = (info[thread[t].last].kind # "free")]
  BY DEF RIL_onUnsolicitedResponse, triggerEvLoop, outOfMemory, readLast, cancelLast, storeLast, timers
<1>2. \A p \in Infos : info'[p].kind = info[p].kind
  BY <1>1 DEF CallbackTypes, StoreTypes
<1> QED BY <1>1, <1>2, OrderStays

LEMMA LoopOrder ==
  ASSUME CallbackTypes, OrderInv,
         calcNextTimeout \/ select \/ nothingPending \/ callbackReturns \/ isLast \/ clearLast
  PROVE  OrderInv' /\ Queued' = Queued
<1>1. UNCHANGED <<info, remaining, timer_list, pending_list, before>>
  BY DEF calcNextTimeout, select, nothingPending, callbackReturns, isLast, clearLast, timers
<1>2. CASE calcNextTimeout \/ select \/ nothingPending
  <2>1. loop'.pc \in {"top", "select", "selected"} /\ pending_list = <<>>
    BY <1>2 DEF calcNextTimeout, select, nothingPending, CallbackTypes, LoopTypes, LoopStates, OrderInv, InHand
  <2> QED BY <1>1, <2>1, OrderStays
<1>3. CASE callbackReturns \/ isLast \/ clearLast
  <2>1. loop'.pc \in {"forget", "clear", "free"} /\ loop.pc \in RunPCs /\ loop'.p_info = loop.p_info
    BY <1>3 DEF callbackReturns, isLast, clearLast, CallbackTypes, LoopTypes, LoopStates, RunPCs
  <2> QED BY <1>1, <2>1, OrderStays
<1> QED BY <1>2, <1>3

LEMMA OrderStep ==
  ASSUME CallbackTypes, OrderInv, [CallbacksNext]_callbackVars
  PROVE  /\ OrderInv'
         /\ \A pair \in before : pair[1] \in Queued' => pair[2] \in Queued'
<1>1. \A pair \in before : pair[1] \in Queued /\ pair[2] \in Queued
  <2>1. \A pair \in before : pair[1] \in Infos /\ pair[2] \in Infos
    BY DEF CallbackTypes, StoreTypes
  <2> QED BY <2>1, AheadAreQueued DEF OrderInv, InOrder
<1>2. ASSUME NEW t \in Callers, RIL_requestTimedCallback(t) PROVE OrderInv' /\ Queued \subseteq Queued'
  <2>1. PICK p \in Infos, delay \in Delays : addTimer(p, "user", delay)
    BY <1>2 DEF RIL_requestTimedCallback
  <2>2. UNCHANGED <<pending_list, loop>> /\ delay \in Nat
    BY <1>2, TimersAssumption DEF RIL_requestTimedCallback
  <2> QED BY <2>1, <2>2, AddedOrder
<1>3. ASSUME NEW t \in Callers, scheduleTimeout(t) PROVE OrderInv' /\ Queued \subseteq Queued'
  <2>1. PICK p \in Infos : addTimer(p, "wake", WakeTimeout)
    BY <1>3 DEF scheduleTimeout
  <2>2. UNCHANGED <<pending_list, loop>> /\ WakeTimeout \in Nat
    BY <1>3, TimersAssumption DEF scheduleTimeout
  <2> QED BY <2>1, <2>2, AddedOrder
<1>4. ASSUME NEW t \in Callers,
             \/ RIL_onUnsolicitedResponse(t) \/ triggerEvLoop(t) \/ outOfMemory(t) \/ readLast(t) \/ cancelLast(t)
             \/ storeLast(t)
      PROVE  OrderInv' /\ Queued' = Queued
  BY <1>4, ThreadOrder
<1>5. ASSUME calcNextTimeout \/ select \/ nothingPending \/ callbackReturns \/ isLast \/ clearLast
      PROVE  OrderInv' /\ Queued' = Queued
  BY <1>5, LoopOrder
<1>6. ASSUME processTimeouts \/ freeInfo \/ Tick PROVE OrderInv' /\ Queued' = Queued
  BY <1>6, CutOrder, FreeOrder, TickOrder
<1>7. ASSUME firePending PROVE OrderInv' /\ \A pair \in before : pair[2] \in Queued'
  BY <1>1, <1>7, FireOrder
<1>8. ASSUME UNCHANGED callbackVars PROVE OrderInv' /\ Queued' = Queued
  BY <1>8, OrderStays DEF callbackVars, timers
<1> QED
  BY <1>1, <1>2, <1>3, <1>4, <1>5, <1>6, <1>7, <1>8 DEF CallbacksNext, ril_event_loop, continues

LEMMA OrderHolds == CallbacksSpec => [](CallbackTypes /\ OrderInv)
<1>1. CallbackTypes /\ OrderInv /\ [CallbacksNext]_callbackVars => (CallbackTypes /\ OrderInv)'
  BY TypesStep, OrderStep
<1> QED
  BY <1>1, TypesInit, OrderInit, PTL DEF CallbacksSpec

(* No callback runs while one that is due before it still waits: timers    *)
(* are inserted in front of the first that is not due before them, the     *)
(* expired ones leave from the front and are run in that order.            *)
THEOREM CallbacksInOrder == CallbacksSpec => RunsInOrder
<1>1. CallbackTypes /\ OrderInv /\ [CallbacksNext]_callbackVars
        => (\A pair \in before : pair[1] \in Queued' => pair[2] \in Queued')
  BY OrderStep
<1>2. CallbackTypes /\ OrderInv /\ [CallbacksNext]_callbackVars
        => [\A pair \in before : pair[1] \in Queued' => pair[2] \in Queued']_callbackVars
  BY <1>1
<1>3. CallbacksSpec => [][\A pair \in before : pair[1] \in Queued' => pair[2] \in Queued']_callbackVars
  BY <1>2, OrderHolds, PTL DEF CallbacksSpec
<1> QED BY <1>3 DEF RunsInOrder

-----------------------------------------------------------------------------
(* TimedCallbacks: the wake lock and its timers.                           *)

\* an indication is past its first step when it has a timer
LEMMA IndicatingIs ==
  ASSUME CallbackTypes, NEW t \in Callers
  PROVE  /\ thread[t].pc \in {"grabbed", "scheduled", "cancel", "store"} => t \in indicating
         /\ t \in indicating <=> thread[t].kind = "wake"
         /\ thread[t].pc = "rest" => t \notin indicating
         /\ thread[t].pc \in TimedPCs => thread[t].p_info \in Infos
         /\ thread[t].pc = "cancel" => thread[t].last \in Infos
BY DEF CallbackTypes, ThreadTypes, Fits, Locals, TimedPCs, indicating

LEMMA OwnIs ==
  ASSUME CallbackTypes, OrderInv, OwnTimers, NEW t \in indicating, thread[t].pc \in TimedPCs
  PROVE  /\ thread[t].p_info \in Infos /\ thread[t].p_info \in Queued /\ live(thread[t].p_info)
         /\ info[thread[t].p_info].kind = "wake"
         /\ thread[t].p_info # s_last_wake_timeout_info
         /\ \A u \in indicating :
              /\ u # t /\ thread[u].pc \in TimedPCs => thread[u].p_info # thread[t].p_info
              /\ thread[u].pc = "cancel" => thread[u].last # thread[t].p_info
<1>1. OwnTimer(t)
  BY DEF OwnTimers
<1>2. thread[t].p_info \in Infos
  BY IndicatingIs DEF indicating
<1>3. info[thread[t].p_info] = [kind |-> "wake", cancelled |-> FALSE]
  BY <1>1 DEF OwnTimer, releases, live
<1> QED BY <1>1, <1>2, <1>3 DEF OwnTimer, releases, live

\* where nothing changes but the loop's place
LEMMA LockStays ==
  ASSUME CallbackTypes, OrderInv, Queued' = Queued,
         UNCHANGED <<info, thread, s_last_wake_timeout_info, held, happened>>,
         inWakeCallback' => inWakeCallback,
         s_last_wake_timeout_info # NULL /\ loop.pc \in {"forget", "clear"} /\ loop.p_info = s_last_wake_timeout_info
           => loop'.pc \in {"forget", "clear"} /\ loop'.p_info = s_last_wake_timeout_info,
         loop'.pc = "clear" => s_last_wake_timeout_info = loop'.p_info
  PROVE  /\ Timely => Timely'
         /\ Quiet => Quiet'
<1>1. indicating' = indicating
  BY DEF indicating
<1>2. \A p : releases(p)' <=> releases(p)
  BY DEF releases, live
<1>3. NoneFires => NoneFires'
  BY <1>1 DEF NoneFires
<1>4. LastIsWake => LastIsWake'
  BY DEF LastIsWake
<1>5. ClearsLast'
  BY DEF ClearsLast
<1>6. OwnTimers => OwnTimers'
  BY <1>1, <1>2 DEF OwnTimers, OwnTimer, releases, live
<1>7. LockHasTimer => LockHasTimer'
  BY <1>1, <1>2 DEF LockHasTimer
<1>8. OneAtATime => OneAtATime'
  BY <1>1 DEF OneAtATime
<1>9. IndicationHolds => IndicationHolds'
  BY <1>1 DEF IndicationHolds
<1>10. TimerHasLock => TimerHasLock'
  BY <1>1, <1>2 DEF TimerHasLock
<1>11. ReplacesLast => ReplacesLast'
  BY <1>1, <1>2 DEF ReplacesLast
<1> QED
  BY <1>3, <1>4, <1>5, <1>6, <1>7, <1>8, <1>9, <1>10, <1>11 DEF Timely, Quiet

LEMMA RequestLock ==
  ASSUME CallbackTypes, OrderInv, NEW t \in Callers, RIL_requestTimedCallback(t)
  PROVE  /\ Timely => Timely'
         /\ Timely /\ Quiet => Quiet'
<1> DEFINE r(p) == [Rest EXCEPT !.pc = "trigger", !.kind = "user", !.p_info = p]
<1>1. PICK p \in Infos, delay \in Delays : addTimer(p, "user", delay) /\ thread' = [thread EXCEPT ![t] = r(p)]
  BY DEF RIL_requestTimedCallback
<1>2. /\ UNCHANGED <<pending_list, loop, s_last_wake_timeout_info, held, happened>> /\ delay \in Nat
      /\ thread[t].pc = "rest"
  BY TimersAssumption DEF RIL_requestTimedCallback, mayCall, wakeLock
<1>3. /\ Queued' = Queued \cup {p} /\ p \notin Queued
      /\ \A q \in Infos : q # p => info'[q] = info[q]
      /\ info'[p].kind = "user" /\ info[p].kind = "free"
  BY <1>1, <1>2, AddedOrder
<1>4. /\ thread'[t].kind = "user"
      /\ \A u \in Callers : u # t => thread'[u] = thread[u]
  BY <1>1 DEF CallbackTypes, ThreadTypes, Rest
<1>5. indicating' = indicating /\ t \notin indicating
  BY <1>2, <1>4, IndicatingIs DEF indicating
<1>6. \A u \in indicating : thread'[u] = thread[u] /\ u \in Callers
  BY <1>4, <1>5 DEF indicating
<1>7. ASSUME NEW q \in Infos PROVE releases(q)' <=> releases(q)
  <2>1. CASE q = p
    BY <1>3, <2>1 DEF releases, live
  <2>2. CASE q # p
    BY <1>3, <2>2 DEF releases, live
  <2> QED BY <2>1, <2>2
<1>8. ASSUME NEW q \in Infos, info[q].kind # "free" PROVE info'[q] = info[q] /\ q # p
  BY <1>3, <1>8
<1>9. loop.pc \in RunPCs => loop.p_info \in Infos /\ info[loop.p_info].kind # "free"
  BY DEF CallbackTypes, LoopTypes, OrderInv, InHand
<1>10. ASSUME Timely PROVE Timely'
  <2> USE <1>10 DEF Timely
  <2>1. NoneFires'
    BY <1>2, <1>5, <1>8, <1>9 DEF NoneFires, inWakeCallback, RunPCs
  <2>2. LastIsWake'
    <3>1. s_last_wake_timeout_info \in SomeInfo
      BY DEF CallbackTypes, PlainTypes
    <3> QED BY <1>2, <1>3, <1>8, <3>1 DEF LastIsWake, SomeInfo
  <2>3. ClearsLast'
    BY <1>2 DEF ClearsLast
  <2>4. ASSUME NEW u \in indicating, thread[u].pc \in TimedPCs PROVE OwnTimer(u)'
    <3>1. thread[u].p_info \in Infos /\ releases(thread[u].p_info) /\ OwnTimer(u)
      BY <1>6, <2>4, IndicatingIs DEF OwnTimers, OwnTimer
    <3>2. PICK q \in Infos : q = thread[u].p_info
      BY <3>1
    <3>3. releases(q)' /\ thread'[u].p_info = q
      BY <1>6, <1>7, <3>1, <3>2
    <3> QED BY <1>2, <1>5, <1>6, <3>1, <3>2, <3>3 DEF OwnTimer, releases, live
  <2>5. ASSUME NEW u \in indicating, thread[u].pc = "cancel" PROVE info'[thread[u].last].kind = "wake"
    <3>1. thread[u].last \in Infos /\ info[thread[u].last].kind = "wake"
      BY <1>6, <2>5, IndicatingIs DEF OwnTimers
    <3> QED BY <1>8, <3>1
  <2>6. OwnTimers'
    BY <1>5, <1>6, <2>4, <2>5 DEF OwnTimers
  <2>7. LockHasTimer'
    BY <1>2, <1>5, <1>7 DEF LockHasTimer
  <2> QED BY <2>1, <2>2, <2>3, <2>6, <2>7
<1>11. ASSUME Quiet PROVE Quiet'
  <2> USE <1>11 DEF Quiet
  <2>1. OneAtATime' /\ IndicationHolds'
    BY <1>2, <1>5 DEF OneAtATime, IndicationHolds
  <2>2. TimerHasLock'
    BY <1>2, <1>5, <1>6, <1>7 DEF TimerHasLock
  <2>3. ReplacesLast'
    BY <1>2, <1>5, <1>6, <1>7 DEF ReplacesLast
  <2> QED BY <2>1, <2>2, <2>3
<1> QED BY <1>10, <1>11

LEMMA ScheduleLock ==
  ASSUME CallbackTypes, OrderInv, NEW t \in Callers, scheduleTimeout(t)
  PROVE  /\ Timely => Timely'
         /\ Timely /\ Quiet => Quiet'
<1> DEFINE r(p) == [thread[t] EXCEPT !.pc = "trigger", !.p_info = p]
<1>1. PICK p \in Infos : addTimer(p, "wake", WakeTimeout) /\ thread' = [thread EXCEPT ![t] = r(p)]
  BY DEF scheduleTimeout
<1>2. /\ UNCHANGED <<pending_list, loop, s_last_wake_timeout_info, held, happened>> /\ WakeTimeout \in Nat
      /\ thread[t].pc = "grabbed"
  BY TimersAssumption DEF scheduleTimeout, wakeLock
<1>3. /\ Queued' = Queued \cup {p} /\ p \notin Queued
      /\ \A q \in Infos : q # p => info'[q] = info[q]
      /\ info'[p].kind = "wake" /\ info[p].kind = "free"
      /\ info' = [info EXCEPT ![p] = [kind |-> "wake", cancelled |-> FALSE]]
  BY <1>1, <1>2, AddedOrder
<1>4. /\ thread'[t].kind = "wake" /\ thread'[t].pc = "trigger" /\ thread'[t].p_info = p
      /\ \A u \in Callers : u # t => thread'[u] = thread[u]
      /\ t \in indicating
  BY <1>1, <1>2, IndicatingIs DEF CallbackTypes, ThreadTypes, Locals, indicating
<1>5. indicating' = indicating
  BY <1>4 DEF indicating
<1>6. \A u \in indicating : u # t => thread'[u] = thread[u] /\ u \in Callers
  BY <1>4 DEF indicating
<1>7. ASSUME NEW q \in Infos, q # p PROVE releases(q)' <=> releases(q)
  BY <1>3, <1>7 DEF releases, live
<1>8. ASSUME NEW q \in Infos, info[q].kind # "free" PROVE info'[q] = info[q] /\ q # p
  BY <1>3, <1>8
<1>9. loop.pc \in RunPCs => loop.p_info \in Infos /\ info[loop.p_info].kind # "free"
  BY DEF CallbackTypes, LoopTypes, OrderInv, InHand
<1>10. releases(p)' /\ ~ releases(p)
  BY <1>3 DEF releases, live, CallbackTypes, StoreTypes
<1>11. ASSUME Timely PROVE Timely'
  <2> USE <1>11 DEF Timely
  <2>1. NoneFires'
    BY <1>2, <1>5, <1>8, <1>9 DEF NoneFires, inWakeCallback, RunPCs
  <2>2. s_last_wake_timeout_info \in SomeInfo
    BY DEF CallbackTypes, PlainTypes
  <2>3. LastIsWake' /\ s_last_wake_timeout_info # p
    <3>1. s_last_wake_timeout_info # p
      BY <1>3, TimersAssumption DEF LastIsWake
    <3> QED BY <1>2, <1>3, <1>8, <2>2, <3>1 DEF LastIsWake, SomeInfo
  <2>4. ClearsLast'
    BY <1>2 DEF ClearsLast
  <2>5. ASSUME NEW u \in indicating, u # t PROVE thread[u].pc \in TimedPCs => thread[u].p_info # p
    <3>1. thread[u].pc \in TimedPCs => thread[u].p_info \in Queued
      BY OwnIs
    <3> QED BY <1>3, <3>1
  <2>6. ASSUME NEW u \in indicating, u # t, thread[u].pc = "cancel"
        PROVE  thread[u].last # p /\ info'[thread[u].last].kind = "wake"
    <3>1. thread[u].last \in Infos /\ info[thread[u].last].kind = "wake"
      BY <1>6, <2>6, IndicatingIs DEF OwnTimers
    <3> QED BY <1>3, <1>8, <3>1
  <2>7. ASSUME NEW u \in indicating, u # t, thread[u].pc \in TimedPCs PROVE OwnTimer(u)'
    <3>1. /\ thread[u].p_info \in Infos /\ releases(thread[u].p_info) /\ OwnTimer(u)
      BY <1>6, <2>7, IndicatingIs DEF OwnTimers, OwnTimer
    <3>2. PICK q \in Infos : q = thread[u].p_info
      BY <3>1
    <3>3. q # p /\ releases(q)' /\ thread'[u].p_info = q
      BY <1>6, <1>7, <2>5, <2>7, <3>1, <3>2
    <3>4. q # s_last_wake_timeout_info
      BY <3>1, <3>2 DEF OwnTimer
    <3>5. ASSUME NEW v \in indicating
          PROVE  /\ v # u /\ thread'[v].pc \in TimedPCs => thread'[v].p_info # q
                 /\ thread'[v].pc = "cancel" => thread'[v].last # q
      BY <1>4, <1>6, <3>1, <3>2, <3>3 DEF OwnTimer
    <3> QED BY <1>2, <1>5, <3>3, <3>4, <3>5 DEF OwnTimer, releases, live
  <2>8. OwnTimer(t)'
    <3>1. ASSUME NEW v \in indicating
          PROVE  /\ v # t /\ thread'[v].pc \in TimedPCs => thread'[v].p_info # p
                 /\ thread'[v].pc = "cancel" => thread'[v].last # p
      BY <1>4, <1>6, <2>5, <2>6
    <3> QED BY <1>2, <1>4, <1>5, <1>10, <2>3, <3>1 DEF OwnTimer, releases, live
  <2>9. OwnTimers'
    <3>1. ASSUME NEW u \in indicating
          PROVE  /\ thread'[u].pc \in TimedPCs => OwnTimer(u)'
                 /\ thread'[u].pc = "cancel" => info'[thread'[u].last].kind = "wake"
      BY <1>4, <1>6, <2>6, <2>7, <2>8
    <3> QED BY <1>5, <3>1 DEF OwnTimers
  <2>10. LockHasTimer'
    BY <1>4, <1>5 DEF LockHasTimer
  <2> QED BY <2>1, <2>3, <2>4, <2>9, <2>10
<1>12. ASSUME Quiet PROVE Quiet'
  <2> USE <1>12 DEF Quiet
  <2>1. OneAtATime' /\ IndicationHolds'
    BY <1>2, <1>5 DEF OneAtATime, IndicationHolds
  <2>2. \A u \in indicating : u = t
    BY <1>4 DEF OneAtATime
  <2>3. held
    BY <1>4 DEF IndicationHolds
  <2>4. "trigger" \in TimedPCs /\ "grabbed" \notin TimedPCs
    BY DEF TimedPCs
  <2>5. TimerHasLock'
    <3>1. ASSUME NEW q \in Infos, releases(q)'
          PROVE  \/ q = s_last_wake_timeout_info
                 \/ \E u \in indicating : thread'[u].pc \in TimedPCs /\ q = thread'[u].p_info
      <4>1. CASE q = p
        BY <1>4, <2>4, <4>1
      <4>2. CASE q # p
        BY <1>2, <1>7, <2>2, <2>4, <3>1, <4>2 DEF TimerHasLock
      <4> QED BY <4>1, <4>2
    <3> QED BY <1>2, <1>5, <2>3, <3>1 DEF TimerHasLock
  <2>6. ReplacesLast'
    BY <1>4, <1>5, <2>2 DEF ReplacesLast
  <2> QED BY <2>1, <2>5, <2>6
<1> QED BY <1>11, <1>12

LEMMA IndicationLock ==
  ASSUME CallbackTypes, OrderInv, NEW t \in Callers, RIL_onUnsolicitedResponse(t), Queued' = Queued
  PROVE  /\ Timely /\ "early" \notin happened' => Timely'
         /\ Timely /\ Quiet /\ happened' = {} => Quiet'
<1>1. /\ UNCHANGED <<info, loop, s_last_wake_timeout_info>>
      /\ held' = TRUE /\ thread[t].pc = "rest"
      /\ thread' = [thread EXCEPT ![t] = [Rest EXCEPT !.pc = "grabbed", !.kind = "wake"]]
      /\ happened' = happened \cup {h \in {"overlap"} : indicating # {}} \cup {h \in {"early"} : inWakeCallback}
  BY DEF RIL_onUnsolicitedResponse, mayCall, timers, startsIndication
<1>2. /\ thread'[t].kind = "wake" /\ thread'[t].pc = "grabbed"
      /\ \A u \in Callers : u # t => thread'[u] = thread[u]
      /\ t \notin indicating
  BY <1>1, IndicatingIs DEF CallbackTypes, ThreadTypes, Rest
<1>3. indicating' = indicating \cup {t}
  BY <1>2 DEF indicating
<1>4. \A u \in indicating : u # t /\ thread'[u] = thread[u]
  BY <1>2 DEF indicating
<1>5. \A q : releases(q)' <=> releases(q)
  BY <1>1 DEF releases, live
<1>6. "grabbed" \notin TimedPCs
  BY DEF TimedPCs
<1>7. ASSUME Timely, "early" \notin happened' PROVE Timely'
  <2> USE <1>7 DEF Timely
  <2>1. NoneFires'
    BY <1>1 DEF NoneFires, inWakeCallback
  <2>2. LastIsWake' /\ ClearsLast' /\ LockHasTimer'
    BY <1>1, <1>3 DEF LastIsWake, ClearsLast, LockHasTimer
  <2>3. ASSUME NEW u \in indicating, thread[u].pc \in TimedPCs PROVE OwnTimer(u)'
    <3>1. OwnTimer(u)
      BY <2>3 DEF OwnTimers
    <3> QED BY <1>1, <1>2, <1>3, <1>4, <1>6, <3>1 DEF OwnTimer, releases, live
  <2>4. OwnTimers'
    <3>1. ASSUME NEW u \in indicating'
          PROVE  /\ thread'[u].pc \in TimedPCs => OwnTimer(u)'
                 /\ thread'[u].pc = "cancel" => info'[thread'[u].last].kind = "wake"
      BY <1>1, <1>2, <1>3, <1>4, <1>6, <2>3 DEF OwnTimers
    <3> QED BY <3>1 DEF OwnTimers
  <2> QED BY <2>1, <2>2, <2>4
<1>8. ASSUME Quiet, happened' = {} PROVE Quiet'
  <2> USE <1>8 DEF Quiet
  <2>1. indicating = {}
    BY <1>1
  <2>2. OneAtATime' /\ IndicationHolds'
    BY <1>1, <1>3, <2>1 DEF OneAtATime, IndicationHolds
  <2>3. TimerHasLock'
    BY <1>1, <1>5, <2>1 DEF TimerHasLock
  <2>4. ReplacesLast'
    BY <1>2, <1>3, <2>1 DEF ReplacesLast
  <2> QED BY <2>2, <2>3, <2>4
<1> QED BY <1>7, <1>8

LEMMA TriggerLock ==
  ASSUME CallbackTypes, OrderInv, NEW t \in Callers, triggerEvLoop(t), Queued' = Queued
  PROVE  /\ Timely => Timely'
         /\ Quiet => Quiet'
<1> DEFINE r == IF thread[t].kind = "user" THEN Rest ELSE [thread[t] EXCEPT !.pc = "scheduled"]
<1>1. /\ UNCHANGED <<info, loop, s_last_wake_timeout_info, held>>
      /\ thread[t].pc = "trigger" /\ thread' = [thread EXCEPT ![t] = r]
  BY DEF triggerEvLoop, timers, wakeLock
<1>2. thread[t] \in Locals /\ Fits(thread[t])
  BY DEF CallbackTypes, ThreadTypes
<1>3. /\ thread[t].kind = "user" => thread'[t].kind = "none"
      /\ thread[t].kind = "wake" => /\ thread'[t].kind = "wake" /\ thread'[t].pc = "scheduled"
                                    /\ thread'[t].p_info = thread[t].p_info
      /\ thread[t].kind \in {"user", "wake"}
      /\ \A u \in Callers : u # t => thread'[u] = thread[u]
  BY <1>1, <1>2 DEF CallbackTypes, ThreadTypes, Rest, Fits, Locals
<1>4. indicating' = indicating
  BY <1>3 DEF indicating
<1>5. "trigger" \in TimedPCs /\ "scheduled" \in TimedPCs
  BY DEF TimedPCs
<1>6. ASSUME NEW u \in indicating
      PROVE  /\ thread'[u].pc \in TimedPCs <=> thread[u].pc \in TimedPCs
             /\ thread'[u].p_info = thread[u].p_info
             /\ thread'[u].pc \in {"cancel", "store"} => thread'[u] = thread[u]
  BY <1>1, <1>3, <1>5 DEF indicating
<1>7. \A q : releases(q)' <=> releases(q)
  BY <1>1 DEF releases, live
<1>8. ASSUME Timely PROVE Timely'
  <2> USE <1>8 DEF Timely
  <2>1. NoneFires' /\ LastIsWake' /\ ClearsLast' /\ LockHasTimer'
    BY <1>1, <1>4, <1>7 DEF NoneFires, inWakeCallback, LastIsWake, ClearsLast, LockHasTimer
  <2>2. ASSUME NEW u \in indicating, thread[u].pc \in TimedPCs PROVE OwnTimer(u)'
    <3>1. OwnTimer(u)
      BY <2>2 DEF OwnTimers
    <3> QED BY <1>1, <1>4, <1>6, <3>1 DEF OwnTimer, releases, live
  <2>3. OwnTimers'
    <3>1. ASSUME NEW u \in indicating'
          PROVE  /\ thread'[u].pc \in TimedPCs => OwnTimer(u)'
                 /\ thread'[u].pc = "cancel" => info'[thread'[u].last].kind = "wake"
      BY <1>1, <1>4, <1>6, <2>2 DEF OwnTimers
    <3> QED BY <3>1 DEF OwnTimers
  <2> QED BY <2>1, <2>3
<1>9. ASSUME Quiet PROVE Quiet'
  <2> USE <1>9 DEF Quiet
  <2>1. OneAtATime' /\ IndicationHolds'
    BY <1>1, <1>4 DEF OneAtATime, IndicationHolds
  <2>2. TimerHasLock'
    BY <1>1, <1>4, <1>6, <1>7 DEF TimerHasLock
  <2>3. ReplacesLast'
    BY <1>1, <1>4, <1>6, <1>7 DEF ReplacesLast
  <2> QED BY <2>1, <2>2, <2>3
<1> QED BY <1>8, <1>9

LEMMA NoMemoryLock ==
  ASSUME CallbackTypes, OrderInv, NEW t \in Callers, outOfMemory(t), Queued' = Queued
  PROVE  (Timely => Timely') /\ happened' # {}
<1>1. /\ UNCHANGED <<info, loop, s_last_wake_timeout_info>>
      /\ held' = FALSE /\ thread' = [thread EXCEPT ![t] = Rest] /\ "noMemory" \in happened'
  BY DEF outOfMemory, timers
<1>2. thread'[t].kind = "none" /\ \A u \in Callers : u # t => thread'[u] = thread[u]
  BY <1>1 DEF CallbackTypes, ThreadTypes, Rest
<1>3. indicating' \subseteq indicating /\ \A u \in indicating' : thread'[u] = thread[u]
  BY <1>2 DEF indicating
<1>4. ASSUME Timely PROVE Timely'
  <2> USE <1>4 DEF Timely
  <2>1. NoneFires' /\ LastIsWake' /\ ClearsLast' /\ LockHasTimer'
    BY <1>1, <1>3 DEF NoneFires, inWakeCallback, LastIsWake, ClearsLast, LockHasTimer
  <2>2. ASSUME NEW u \in indicating', thread[u].pc \in TimedPCs PROVE OwnTimer(u)'
    <3>1. OwnTimer(u)
      BY <1>3, <2>2 DEF OwnTimers
    <3> QED BY <1>1, <1>3, <3>1 DEF OwnTimer, releases, live
  <2>3. OwnTimers'
    <3>1. ASSUME NEW u \in indicating'
          PROVE  /\ thread'[u].pc \in TimedPCs => OwnTimer(u)'
                 /\ thread'[u].pc = "cancel" => info'[thread'[u].last].kind = "wake"
      BY <1>1, <1>3, <2>2 DEF OwnTimers
    <3> QED BY <3>1 DEF OwnTimers
  <2> QED BY <2>1, <2>3
<1> QED BY <1>1, <1>4

LEMMA ReadLock ==
  ASSUME CallbackTypes, OrderInv, NEW t \in Callers, readLast(t), Queued' = Queued
  PROVE  /\ Timely => Timely'
         /\ Quiet => Quiet'
<1> DEFINE last == s_last_wake_timeout_info
           r == [thread[t] EXCEPT !.last = last, !.pc = IF last = NULL THEN "store" ELSE "cancel"]
<1>1. /\ UNCHANGED <<info, loop, s_last_wake_timeout_info, held>>
      /\ thread[t].pc = "scheduled" /\ thread' = [thread EXCEPT ![t] = r]
  BY DEF readLast, timers, wakeLock
<1>2. /\ thread'[t].kind = thread[t].kind /\ thread'[t].p_info = thread[t].p_info /\ thread'[t].last = last
      /\ thread'[t].pc = IF last = NULL THEN "store" ELSE "cancel"
      /\ \A u \in Callers : u # t => thread'[u] = thread[u]
      /\ t \in indicating
  BY <1>1, IndicatingIs DEF CallbackTypes, ThreadTypes, Locals
<1>3. indicating' = indicating /\ \A u \in indicating : u # t => thread'[u] = thread[u]
  BY <1>2 DEF indicating
<1>4. {"scheduled", "store", "cancel"} \subseteq TimedPCs
  BY DEF TimedPCs
<1>5. ASSUME NEW u \in indicating
      PROVE  /\ thread'[u].pc \in TimedPCs <=> thread[u].pc \in TimedPCs
             /\ thread'[u].p_info = thread[u].p_info
  BY <1>1, <1>2, <1>3, <1>4
<1>6. \A q : releases(q)' <=> releases(q)
  BY <1>1 DEF releases, live
<1>7. ASSUME Timely PROVE Timely'
  <2> USE <1>7 DEF Timely
  <2>1. NoneFires' /\ LastIsWake' /\ ClearsLast' /\ LockHasTimer'
    BY <1>1, <1>3, <1>6 DEF NoneFires, inWakeCallback, LastIsWake, ClearsLast, LockHasTimer
  <2>2. ASSUME NEW u \in indicating, thread[u].pc \in TimedPCs PROVE OwnTimer(u)'
    <3>1. OwnTimer(u)
      BY <2>2 DEF OwnTimers
    <3>2. ASSUME NEW v \in indicating, thread'[v].pc = "cancel" PROVE thread'[v].last # thread[u].p_info
      BY <1>2, <1>3, <3>1, <3>2 DEF OwnTimer
    <3> QED BY <1>1, <1>3, <1>5, <3>1, <3>2 DEF OwnTimer, releases, live
  <2>3. OwnTimers'
    <3>1. ASSUME NEW u \in indicating, thread'[u].pc = "cancel" PROVE info'[thread'[u].last].kind = "wake"
      BY <1>1, <1>2, <1>3, <3>1 DEF OwnTimers, LastIsWake
    <3>2. \A u \in indicating : thread'[u].pc \in TimedPCs => OwnTimer(u)'
      BY <1>5, <2>2
    <3> QED BY <1>3, <3>1, <3>2 DEF OwnTimers
  <2> QED BY <2>1, <2>3
<1>8. ASSUME Quiet PROVE Quiet'
  <2> USE <1>8 DEF Quiet
  <2>1. OneAtATime' /\ IndicationHolds'
    BY <1>1, <1>3 DEF OneAtATime, IndicationHolds
  <2>2. TimerHasLock'
    BY <1>1, <1>3, <1>5, <1>6 DEF TimerHasLock
  <2>3. ReplacesLast'
    <3>1. \A u \in indicating : u = t
      BY <1>2 DEF OneAtATime
    <3>2. NULL \notin Infos
      BY TimersAssumption
    <3> QED BY <1>1, <1>2, <1>3, <3>1, <3>2 DEF ReplacesLast
  <2> QED BY <2>1, <2>2, <2>3
<1> QED BY <1>7, <1>8

LEMMA CancelLock ==
  ASSUME CallbackTypes, OrderInv, NEW t \in Callers, cancelLast(t), Queued' = Queued
  PROVE  /\ Timely => Timely'
         /\ Timely /\ Quiet => Quiet'
<1>1. PICK c \in Infos : c = thread[t].last
  BY IndicatingIs DEF cancelLast
<1>2. /\ UNCHANGED <<loop, s_last_wake_timeout_info, held>> /\ thread[t].pc = "cancel"
      /\ info' = [info EXCEPT ![c].cancelled = (info[c].kind # "free")]
      /\ thread' = [thread EXCEPT ![t].pc = "store"]
  BY <1>1 DEF cancelLast, wakeLock
<1>3. /\ thread'[t].kind = thread[t].kind /\ thread'[t].p_info = thread[t].p_info /\ thread'[t].pc = "store"
      /\ \A u \in Callers : u # t => thread'[u] = thread[u]
      /\ t \in indicating
  BY <1>2, IndicatingIs DEF CallbackTypes, ThreadTypes, Locals
<1>4. indicating' = indicating /\ \A u \in indicating : u # t => thread'[u] = thread[u]
  BY <1>3 DEF indicating
<1>5. {"store", "cancel"} \subseteq TimedPCs
  BY DEF TimedPCs
<1>6. ASSUME NEW u \in indicating
      PROVE  /\ thread'[u].pc \in TimedPCs <=> thread[u].pc \in TimedPCs
             /\ thread'[u].p_info = thread[u].p_info
             /\ thread'[u].pc = "cancel" => u # t /\ thread'[u] = thread[u]
  BY <1>2, <1>3, <1>4, <1>5
<1>7. /\ \A q \in Infos : q # c => info'[q] = info[q]
      /\ \A q \in Infos : info'[q].kind = info[q].kind
      /\ info'[c].cancelled = (info[c].kind # "free")
  BY <1>2 DEF CallbackTypes, StoreTypes
<1>8. ASSUME NEW q \in Infos, q # c PROVE releases(q)' <=> releases(q)
  BY <1>7, <1>8 DEF releases, live
<1>9. loop.pc \in RunPCs => loop.p_info \in Infos
  BY DEF CallbackTypes, LoopTypes
<1>10. ASSUME Timely PROVE Timely'
  <2> USE <1>10 DEF Timely
  <2>1. NoneFires'
    BY <1>2, <1>4, <1>7, <1>9 DEF NoneFires, inWakeCallback, RunPCs
  <2>2. LastIsWake'
    <3>1. s_last_wake_timeout_info \in SomeInfo
      BY DEF CallbackTypes, PlainTypes
    <3> QED BY <1>2, <1>7, <3>1 DEF LastIsWake, SomeInfo
  <2>3. ClearsLast' /\ LockHasTimer'
    BY <1>2, <1>3, <1>4 DEF ClearsLast, LockHasTimer
  <2>4. ASSUME NEW u \in indicating, thread[u].pc \in TimedPCs PROVE OwnTimer(u)'
    <3>1. OwnTimer(u)
      BY <2>4 DEF OwnTimers
    <3>2. PICK q \in Infos : q = thread[u].p_info
      BY <2>4, OwnIs
    <3>3. q # c
      BY <1>1, <1>2, <1>3, <3>1, <3>2 DEF OwnTimer
    <3>4. releases(q)'
      BY <1>8, <3>1, <3>2, <3>3 DEF OwnTimer
    <3>5. thread'[u].p_info = q
      BY <1>6, <3>2
    <3> QED BY <1>2, <1>4, <1>6, <3>1, <3>2, <3>4, <3>5 DEF OwnTimer, releases, live
  <2>5. OwnTimers'
    <3>1. ASSUME NEW u \in indicating, thread'[u].pc = "cancel" PROVE info'[thread'[u].last].kind = "wake"
      <4>1. thread'[u] = thread[u] /\ thread[u].last \in Infos /\ info[thread[u].last].kind = "wake"
        BY <1>6, <3>1, IndicatingIs DEF OwnTimers, indicating
      <4> QED BY <1>7, <4>1
    <3>2. \A u \in indicating : thread'[u].pc \in TimedPCs => OwnTimer(u)'
      BY <1>6, <2>4
    <3> QED BY <1>4, <3>1, <3>2 DEF OwnTimers
  <2> QED BY <2>1, <2>2, <2>3, <2>5
<1>11. ASSUME Timely, Quiet PROVE Quiet'
  <2> USE <1>11 DEF Quiet
  <2>1. OneAtATime' /\ IndicationHolds'
    BY <1>2, <1>4 DEF OneAtATime, IndicationHolds
  <2>2. c = s_last_wake_timeout_info /\ info[c].kind = "wake"
    BY <1>1, <1>2, <1>3 DEF ReplacesLast, Timely, OwnTimers
  <2>3. ~ releases(c)'
    <3>1. info'[c].cancelled = TRUE
      BY <1>7, <2>2
    <3>2. [kind |-> "wake", cancelled |-> FALSE].cancelled = FALSE
      OBVIOUS
    <3>3. info'[c] # [kind |-> "wake", cancelled |-> FALSE]
      BY <3>1, <3>2
    <3> QED BY <3>3 DEF releases, live
  <2>4. TimerHasLock'
    <3>1. \A q \in Infos : releases(q)' => releases(q)
      BY <1>8, <2>3
    <3> QED BY <1>2, <1>4, <1>6, <3>1 DEF TimerHasLock
  <2>5. ReplacesLast'
    <3>1. \A u \in indicating : u = t
      BY <1>3 DEF OneAtATime
    <3> QED BY <1>2, <1>3, <1>4, <2>2, <2>3, <3>1 DEF ReplacesLast
  <2> QED BY <2>1, <2>4, <2>5
<1> QED BY <1>10, <1>11

LEMMA StoreLock ==
  ASSUME CallbackTypes, OrderInv, NEW t \in Callers, storeLast(t), Queued' = Queued
  PROVE  /\ Timely => Timely'
         /\ Timely /\ Quiet => Quiet'
<1>1. PICK p \in Infos : p = thread[t].p_info
  BY IndicatingIs DEF storeLast, TimedPCs
<1>2. /\ UNCHANGED <<info, loop, held>> /\ thread[t].pc = "store" /\ s_last_wake_timeout_info' = p
      /\ \E next \in {Rest, Copying} : thread' = [thread EXCEPT ![t] = next]
  BY <1>1 DEF storeLast, timers
<1>3. /\ thread'[t].pc \in {"rest", "copy"}
      /\ \A u \in Callers : u # t => thread'[u] = thread[u]
      /\ t \in indicating
  <2>1. PICK next \in {Rest, Copying} : thread' = [thread EXCEPT ![t] = next]
    BY <1>2
  <2>2. next.pc \in {"rest", "copy"}
    BY <2>1 DEF Rest, Copying
  <2>3. DOMAIN thread = Callers /\ t \in indicating
    BY <1>2, IndicatingIs DEF CallbackTypes, ThreadTypes
  <2> HIDE DEF Rest, Copying
  <2> QED BY <2>1, <2>2, <2>3
<1>4. indicating' \subseteq indicating /\ \A u \in indicating' : u # t => thread'[u] = thread[u]
  BY <1>3 DEF indicating
<1>5. "store" \in TimedPCs /\ "rest" \notin TimedPCs /\ "copy" \notin TimedPCs
  BY DEF TimedPCs
<1>6. \A q : releases(q)' <=> releases(q)
  BY <1>2 DEF releases, live
<1>7. ASSUME Timely
      PROVE  /\ releases(p) /\ info[p].kind = "wake" /\ p \in Queued
             /\ \A u \in indicating' : u # t /\ thread[u].pc \in TimedPCs => thread[u].p_info # p
  BY <1>1, <1>2, <1>3, <1>4, <1>5, <1>7, OwnIs DEF Timely, releases
<1>8. ASSUME Timely PROVE Timely'
  <2> USE <1>8 DEF Timely
  <2>1. NoneFires' /\ ~ inWakeCallback
    BY <1>2, <1>3, <1>4 DEF NoneFires, inWakeCallback
  <2>2. LastIsWake'
    BY <1>2, <1>7 DEF LastIsWake
  <2>3. loop.pc # "clear"
    <3>1. ASSUME loop.pc = "clear" PROVE FALSE
      <4>1. loop.p_info \in Infos /\ loop.p_info = s_last_wake_timeout_info
        BY <3>1 DEF ClearsLast, CallbackTypes, LoopTypes, RunPCs
      <4>2. info[loop.p_info].kind = "wake"
        BY <4>1, TimersAssumption DEF LastIsWake
      <4> QED BY <2>1, <3>1, <4>2 DEF inWakeCallback
    <3> QED BY <3>1
  <2>4. ClearsLast'
    BY <1>2, <2>3 DEF ClearsLast
  <2>5. LockHasTimer'
    BY <1>6, <1>7 DEF LockHasTimer
  <2>6. ASSUME NEW u \in indicating', u # t, thread[u].pc \in TimedPCs PROVE OwnTimer(u)'
    <3>1. OwnTimer(u) /\ thread[u].p_info # p
      BY <1>4, <1>7, <2>6 DEF OwnTimers
    <3> QED BY <1>2, <1>3, <1>4, <1>5, <2>6, <3>1 DEF OwnTimer, releases, live
  <2>7. OwnTimers'
    <3>1. ASSUME NEW u \in indicating'
          PROVE  /\ thread'[u].pc \in TimedPCs => OwnTimer(u)'
                 /\ thread'[u].pc = "cancel" => info'[thread'[u].last].kind = "wake"
      BY <1>2, <1>3, <1>4, <1>5, <2>6 DEF OwnTimers
    <3> QED BY <3>1 DEF OwnTimers
  <2> QED BY <2>1, <2>2, <2>4, <2>5, <2>7
<1>9. ASSUME Timely, Quiet PROVE Quiet'
  <2> USE <1>9 DEF Quiet
  <2>1. indicating' \subseteq {t} /\ \A u \in indicating : u = t
    BY <1>3, <1>4 DEF OneAtATime
  <2>2. OneAtATime' /\ IndicationHolds' /\ ReplacesLast'
    BY <1>2, <1>3, <2>1 DEF OneAtATime, IndicationHolds, ReplacesLast
  <2>3. TimerHasLock'
    <3>1. ASSUME NEW q \in Infos, releases(q) PROVE q = p /\ held
      BY <1>1, <1>2, <1>3, <2>1, <3>1 DEF TimerHasLock, ReplacesLast
    <3> QED BY <1>2, <1>6, <3>1 DEF TimerHasLock
  <2> QED BY <2>2, <2>3
<1> QED BY <1>8, <1>9

LEMMA ClearLock ==
  ASSUME CallbackTypes, OrderInv, clearLast, Queued' = Queued, Timely
  PROVE  Timely' /\ (Quiet => Quiet')
<1> USE DEF Timely
<1>1. /\ UNCHANGED <<info, thread, held>> /\ loop.pc = "clear" /\ s_last_wake_timeout_info' = NULL
      /\ loop' = [loop EXCEPT !.pc = "free"]
  BY DEF clearLast, timers
<1>2. loop'.pc = "free" /\ loop'.p_info = loop.p_info /\ loop.p_info \in Infos
  BY <1>1 DEF CallbackTypes, LoopTypes, LoopStates, RunPCs
<1>3. indicating' = indicating /\ \A q : releases(q)' <=> releases(q)
  BY <1>1 DEF indicating, releases, live
<1>4. s_last_wake_timeout_info = loop.p_info /\ info[loop.p_info].kind = "wake" /\ indicating = {}
  <2>1. s_last_wake_timeout_info = loop.p_info
    BY <1>1 DEF ClearsLast
  <2>2. info[loop.p_info].kind = "wake"
    BY <1>2, <2>1, TimersAssumption DEF LastIsWake
  <2> QED BY <1>1, <2>1, <2>2 DEF NoneFires, inWakeCallback
<1>5. loop.p_info \notin Queued
  BY <1>1, QueuedIs DEF OrderInv, InHand, RunPCs
<1>6. Timely'
  <2>1. NoneFires' /\ OwnTimers'
    BY <1>3, <1>4 DEF NoneFires, OwnTimers
  <2>2. LastIsWake' /\ ClearsLast' /\ LockHasTimer'
    BY <1>1, <1>2, <1>3 DEF LastIsWake, ClearsLast, LockHasTimer
  <2> QED BY <2>1, <2>2
<1>7. ASSUME Quiet PROVE Quiet'
  <2> USE <1>7 DEF Quiet
  <2>1. OneAtATime' /\ IndicationHolds' /\ ReplacesLast'
    BY <1>3, <1>4 DEF OneAtATime, IndicationHolds, ReplacesLast
  <2>2. TimerHasLock'
    <3>1. \A q \in Infos : ~ releases(q)
      BY <1>4, <1>5 DEF TimerHasLock, releases
    <3> QED BY <1>3, <3>1 DEF TimerHasLock
  <2> QED BY <2>1, <2>2
<1> QED BY <1>6, <1>7

LEMMA FreeLock ==
  ASSUME CallbackTypes, OrderInv, freeInfo, Timely
  PROVE  Timely' /\ (Quiet => Quiet')
<1> USE DEF Timely
<1> DEFINE p == loop.p_info
<1>1. Queued' = Queued /\ p \notin Queued
  BY FreeOrder
<1>2. /\ UNCHANGED <<thread, held, s_last_wake_timeout_info>> /\ loop.pc = "free" /\ loop'.pc = "fire"
      /\ \A q \in Infos : q # p => info'[q] = info[q]
  BY DEF freeInfo, wakeLock, CallbackTypes, StoreTypes, LoopTypes, LoopStates
<1>3. indicating' = indicating
  BY <1>2 DEF indicating
<1>4. \A q \in Infos : releases(q)' <=> releases(q)
  BY <1>1, <1>2 DEF releases, live
<1>5. indicating # {} => info[p].kind # "wake"
  BY <1>2 DEF NoneFires, inWakeCallback
<1> HIDE DEF p
<1>6. Timely'
  <2>1. NoneFires' /\ ClearsLast' /\ LockHasTimer'
    BY <1>2, <1>3, <1>4 DEF NoneFires, inWakeCallback, ClearsLast, LockHasTimer
  <2>2. LastIsWake'
    <3>1. s_last_wake_timeout_info # NULL =>
             s_last_wake_timeout_info \in Infos /\ s_last_wake_timeout_info \in Queued
      BY <1>2 DEF LastIsWake, CallbackTypes, PlainTypes, SomeInfo
    <3> QED BY <1>1, <1>2, <3>1 DEF LastIsWake
  <2>3. ASSUME NEW u \in indicating, thread[u].pc \in TimedPCs PROVE OwnTimer(u)'
    <3>1. OwnTimer(u)
      BY <2>3 DEF OwnTimers
    <3>2. PICK q \in Infos : q = thread[u].p_info
      BY <2>3, OwnIs
    <3>3. releases(q)'
      BY <1>4, <3>1, <3>2 DEF OwnTimer
    <3> QED BY <1>2, <1>3, <3>1, <3>2, <3>3 DEF OwnTimer, releases, live
  <2>4. OwnTimers'
    <3>1. ASSUME NEW u \in indicating, thread[u].pc = "cancel" PROVE info'[thread[u].last].kind = "wake"
      <4>1. thread[u].last \in Infos /\ info[thread[u].last].kind = "wake" /\ info[p].kind # "wake"
        BY <1>5, <3>1, IndicatingIs DEF OwnTimers, indicating
      <4> QED BY <1>2, <4>1
    <3> QED BY <1>2, <1>3, <2>3, <3>1 DEF OwnTimers
  <2> QED BY <2>1, <2>2, <2>4
<1>7. ASSUME Quiet PROVE Quiet'
  <2> USE <1>7 DEF Quiet
  <2>1. OneAtATime' /\ IndicationHolds'
    BY <1>2, <1>3 DEF OneAtATime, IndicationHolds
  <2>2. TimerHasLock' /\ ReplacesLast'
    BY <1>2, <1>3, <1>4 DEF TimerHasLock, ReplacesLast
  <2> QED BY <2>1, <2>2
<1> QED BY <1>6, <1>7

LEMMA FireLock ==
  ASSUME CallbackTypes, OrderInv, firePending, Timely
  PROVE  /\ "early" \notin happened' => Timely'
         /\ Quiet /\ happened' = {} => Quiet'
<1> USE DEF Timely
<1> DEFINE p == Head(pending_list)
<1>1. Queued' = Queued \ {p}
  BY FireOrder
<1>2. p \in Queued \/ p = Wakeup
  <2>1. 1 \in DOMAIN pending_list /\ p = pending_list[1]
    BY FirstIs, ListFacts DEF firePending
  <2> QED BY <2>1, QueuedIs
<1>3. /\ UNCHANGED <<info, thread, s_last_wake_timeout_info>> /\ loop.pc = "fire"
      /\ \/ p = Wakeup /\ UNCHANGED <<loop, held, happened>>
         \/ /\ p # Wakeup /\ info[p].kind = "wake" /\ held' = (held /\ info[p].cancelled)
            /\ happened' = happened \cup {h \in {"early"} : indicating # {}}
            /\ loop' = [loop EXCEPT !.pc = "forget", !.p_info = p]
         \/ /\ p # Wakeup /\ info[p].kind = "user" /\ UNCHANGED <<held, happened>>
            /\ loop' = [loop EXCEPT !.pc = "callback", !.p_info = p]
  BY DEF firePending
<1>4. indicating' = indicating
  BY <1>3 DEF indicating
<1> HIDE DEF p
<1>5. CASE p = Wakeup
  <2>1. Wakeup \notin Queued
    BY QueuedAreInfos, TimersAssumption
  <2>2. Queued' = Queued /\ UNCHANGED <<loop, held, happened>>
    BY <1>1, <1>3, <1>5, <2>1
  <2>3. inWakeCallback' = inWakeCallback
    BY <1>3, <2>2 DEF inWakeCallback
  <2> QED BY <1>3, <2>2, <2>3, LockStays DEF ClearsLast
<1>6. CASE p # Wakeup /\ info[p].kind = "user"
  <2>1. UNCHANGED <<held, happened>> /\ loop'.pc = "callback"
    BY <1>3, <1>6 DEF CallbackTypes, LoopTypes, LoopStates
  <2>2. \A q : releases(q)' <=> releases(q)
    <3>1. ~ live(p)
      BY <1>6 DEF live
    <3> QED BY <1>1, <1>3, <3>1 DEF releases, live
  <2>3. NoneFires' /\ ClearsLast' /\ LockHasTimer'
    BY <1>4, <2>1, <2>2 DEF NoneFires, inWakeCallback, ClearsLast, LockHasTimer
  <2>4. LastIsWake'
    BY <1>1, <1>3, <1>6 DEF LastIsWake
  <2>5. OwnTimers'
    <3>1. ASSUME NEW u \in indicating, thread[u].pc \in TimedPCs PROVE OwnTimer(u)'
      <4>1. OwnTimer(u)
        BY <3>1 DEF OwnTimers
      <4>2. releases(thread[u].p_info)'
        BY <1>3, <2>2, <4>1 DEF OwnTimer, releases, live
      <4> QED BY <1>3, <1>4, <4>1, <4>2 DEF OwnTimer
    <3> QED BY <1>3, <1>4, <3>1 DEF OwnTimers
  <2>6. Quiet => Quiet'
    <3>1. OneAtATime /\ IndicationHolds => OneAtATime' /\ IndicationHolds'
      BY <1>4, <2>1 DEF OneAtATime, IndicationHolds
    <3>2. TimerHasLock => TimerHasLock'
      BY <1>3, <1>4, <2>1, <2>2 DEF TimerHasLock
    <3>3. ReplacesLast => ReplacesLast'
      BY <1>3, <1>4, <2>2 DEF ReplacesLast
    <3> QED BY <3>1, <3>2, <3>3 DEF Quiet
  <2> QED BY <2>3, <2>4, <2>5, <2>6
<1>7. CASE p # Wakeup /\ info[p].kind = "wake"
  <2>1. /\ held' = (held /\ info[p].cancelled) /\ loop'.pc = "forget" /\ loop'.p_info = p
        /\ happened' = happened \cup {h \in {"early"} : indicating # {}}
    BY <1>3, <1>7 DEF CallbackTypes, LoopTypes, LoopStates
  <2>2. "early" \notin happened' \/ happened' = {} => indicating = {}
    BY <2>1
  <2>3. p \in Infos /\ p \in Queued
    BY <1>2, <1>7, QueuedAreInfos
  <2>4. held' => ~ releases(p)
    <3>1. info[p].cancelled => info[p] # [kind |-> "wake", cancelled |-> FALSE]
      OBVIOUS
    <3> QED BY <2>1, <3>1 DEF releases, live
  <2>5. ~ info[p].cancelled => releases(p)
    <3>1. info[p] \in [kind : {"free", "user", "wake"}, cancelled : BOOLEAN]
      BY <2>3 DEF CallbackTypes, StoreTypes
    <3>2. ~ info[p].cancelled => info[p] = [kind |-> "wake", cancelled |-> FALSE]
      BY <1>7, <3>1
    <3> QED BY <2>3, <3>2 DEF releases, live
  <2>6. \A q : releases(q)' <=> releases(q) /\ q # p
    BY <1>1, <1>3 DEF releases, live
  <2>7. ASSUME indicating = {} PROVE Timely'
    <3>1. NoneFires' /\ ClearsLast' /\ OwnTimers'
      BY <1>4, <2>1, <2>7 DEF NoneFires, ClearsLast, OwnTimers
    <3>2. LastIsWake'
      BY <1>1, <1>3, <2>1 DEF LastIsWake
    <3>3. LockHasTimer'
      <4>1. ASSUME held' PROVE \E q \in Infos : releases(q) /\ q # p
        BY <2>1, <2>4, <2>7, <4>1 DEF LockHasTimer
      <4> QED BY <2>6, <4>1 DEF LockHasTimer
    <3> QED BY <3>1, <3>2, <3>3
  <2>8. ASSUME indicating = {}, Quiet PROVE Quiet'
    <3>1. OneAtATime' /\ IndicationHolds' /\ ReplacesLast'
      BY <1>4, <2>8 DEF OneAtATime, IndicationHolds, ReplacesLast
    <3>2. \A q \in Infos : releases(q) => held /\ q = s_last_wake_timeout_info
      BY <2>8 DEF Quiet, TimerHasLock
    <3>3. TimerHasLock'
      <4>1. ASSUME NEW q \in Infos, releases(q)' PROVE held' /\ q = s_last_wake_timeout_info
        <5>1. releases(q) /\ q # p /\ held /\ q = s_last_wake_timeout_info
          BY <2>6, <3>2, <4>1
        <5>2. ~ releases(p)
          BY <2>3, <3>2, <5>1
        <5> QED BY <2>1, <2>5, <5>1, <5>2
      <4> QED BY <1>3, <4>1 DEF TimerHasLock
    <3> QED BY <3>1, <3>3 DEF Quiet
  <2> QED BY <2>2, <2>7, <2>8
<1> QED BY <1>3, <1>5, <1>6, <1>7

\* where the loop only goes on
LEMMA LoopLock ==
  ASSUME CallbackTypes, OrderInv, Queued' = Queued,
         \/ calcNextTimeout \/ select \/ processTimeouts \/ nothingPending \/ callbackReturns \/ isLast \/ Tick
         \/ UNCHANGED callbackVars
  PROVE  /\ Timely => Timely'
         /\ Timely /\ Quiet => Quiet'
<1> SUFFICES ASSUME Timely PROVE Timely' /\ (Quiet => Quiet')
  OBVIOUS
<1>1. UNCHANGED <<info, thread, s_last_wake_timeout_info, held, happened>>
  BY DEF calcNextTimeout, select, processTimeouts, nothingPending, callbackReturns, isLast, Tick, callbackVars,
         timers, wakeLock
<1>2. loop \in LoopStates
  BY DEF CallbackTypes, LoopTypes
<1>3. CASE calcNextTimeout \/ select \/ processTimeouts \/ nothingPending
  <2>1. loop.pc \in {"top", "select", "selected", "fire"} /\ loop'.pc \in {"top", "select", "selected", "fire"}
    BY <1>2, <1>3 DEF calcNextTimeout, select, processTimeouts, nothingPending, LoopStates
  <2> QED BY <1>1, <2>1, LockStays DEF inWakeCallback
<1>4. CASE callbackReturns
  <2>1. loop.pc = "callback" /\ loop'.pc = "forget" /\ loop'.p_info = loop.p_info /\ info[loop.p_info].kind = "user"
    BY <1>2, <1>4 DEF callbackReturns, LoopStates, OrderInv, InHand
  <2> QED BY <1>1, <2>1, LockStays DEF inWakeCallback
<1>5. CASE isLast
  <2>1. /\ loop.pc = "forget" /\ loop'.p_info = loop.p_info
        /\ loop'.pc = IF s_last_wake_timeout_info = loop.p_info THEN "clear" ELSE "free"
    BY <1>2, <1>5 DEF isLast, LoopStates
  <2> QED BY <1>1, <2>1, LockStays DEF inWakeCallback
<1>6. CASE Tick \/ UNCHANGED callbackVars
  <2>1. loop.pc = loop'.pc /\ loop'.p_info = loop.p_info
    BY <1>2, <1>6 DEF Tick, LoopStates, callbackVars
  <2> QED BY <1>1, <2>1, LockStays DEF inWakeCallback, Timely, ClearsLast
<1> QED BY <1>3, <1>4, <1>5, <1>6

LEMMA HappenedStays ==
  ASSUME [CallbacksNext]_callbackVars
  PROVE  happened \subseteq happened'
<1>1. ASSUME NEW t \in Callers,
             RIL_requestTimedCallback(t) \/ RIL_onUnsolicitedResponse(t) \/ continues(t)
      PROVE  happened \subseteq happened'
  BY <1>1 DEF RIL_requestTimedCallback, RIL_onUnsolicitedResponse, continues, startsIndication, triggerEvLoop,
              scheduleTimeout, outOfMemory, readLast, cancelLast, storeLast
<1>2. ASSUME ril_event_loop PROVE happened \subseteq happened'
  BY <1>2 DEF ril_event_loop, calcNextTimeout, select, processTimeouts, firePending, nothingPending,
              callbackReturns, isLast, clearLast, freeInfo
<1>3. ASSUME Tick \/ UNCHANGED callbackVars PROVE happened \subseteq happened'
  BY <1>3 DEF Tick, callbackVars
<1> QED BY <1>1, <1>2, <1>3 DEF CallbacksNext

LEMMA LockInit == CallbacksInit => LockInv
<1> SUFFICES ASSUME CallbacksInit PROVE LockInv
  OBVIOUS
<1>1. indicating = {} /\ Queued = {}
  BY DEF CallbacksInit, indicating, Rest, Queued, ToSet
<1>2. Timely
  BY <1>1 DEF CallbacksInit, Timely, NoneFires, LastIsWake, ClearsLast, OwnTimers, LockHasTimer
<1>3. Quiet
  BY <1>1 DEF CallbacksInit, Quiet, OneAtATime, IndicationHolds, TimerHasLock, ReplacesLast, releases
<1> QED BY <1>2, <1>3 DEF LockInv

LEMMA LockStep ==
  ASSUME CallbackTypes, OrderInv, LockInv, [CallbacksNext]_callbackVars
  PROVE  LockInv'
<1>1. happened \subseteq happened'
  BY HappenedStays
<1> SUFFICES ASSUME "early" \notin happened' PROVE Timely' /\ (happened' = {} => Quiet')
  BY DEF LockInv
<1>2. Timely /\ (happened' = {} => Quiet)
  BY <1>1 DEF LockInv
<1>3. ASSUME NEW t \in Callers, RIL_requestTimedCallback(t) \/ scheduleTimeout(t)
      PROVE  Timely' /\ (happened' = {} => Quiet')
  BY <1>2, <1>3, RequestLock, ScheduleLock
<1>4. ASSUME NEW t \in Callers,
             \/ RIL_onUnsolicitedResponse(t) \/ triggerEvLoop(t) \/ outOfMemory(t) \/ readLast(t) \/ cancelLast(t)
             \/ storeLast(t)
      PROVE  Timely' /\ (happened' = {} => Quiet')
  <2>1. Queued' = Queued
    BY <1>4, ThreadOrder
  <2> QED BY <1>2, <1>4, <2>1, IndicationLock, TriggerLock, NoMemoryLock, ReadLock, CancelLock, StoreLock
<1>5. ASSUME \/ calcNextTimeout \/ select \/ processTimeouts \/ nothingPending \/ callbackReturns \/ isLast \/ Tick
             \/ UNCHANGED callbackVars
      PROVE  Timely' /\ (happened' = {} => Quiet')
  <2>1. Queued' = Queued
    <3>1. CASE UNCHANGED callbackVars
      BY <3>1 DEF callbackVars, timers, Queued
    <3> QED BY <1>5, <3>1, LoopOrder, CutOrder, TickOrder
  <2> QED BY <1>2, <1>5, <2>1, LoopLock
<1>6. ASSUME clearLast PROVE Timely' /\ (happened' = {} => Quiet')
  <2>1. Queued' = Queued
    BY <1>6, LoopOrder
  <2> QED BY <1>2, <1>6, <2>1, ClearLock
<1>7. ASSUME freeInfo PROVE Timely' /\ (happened' = {} => Quiet')
  BY <1>2, <1>7, FreeLock
<1>8. ASSUME firePending PROVE Timely' /\ (happened' = {} => Quiet')
  BY <1>2, <1>8, FireLock
<1> QED
  BY <1>3, <1>4, <1>5, <1>6, <1>7, <1>8 DEF CallbacksNext, ril_event_loop, continues

(* While no indication is under way the wake lock is held exactly as long  *)
(* as there is a timer that will release it.  It is kept for good only if  *)
(* a wake timer fired during an indication (the one whose address          *)
(* grabPartialWakeLock had read, line 879); it is released before only if  *)
(* indications overlapped, that happened, or one got no memory for its     *)
(* timer.                                                                  *)
THEOREM WakeLockTimed == CallbacksSpec => []WakeLockIsTimed
<1>1. CallbackTypes /\ OrderInv /\ LockInv /\ [CallbacksNext]_callbackVars => LockInv'
  BY LockStep
<1>2. LockInv => WakeLockIsTimed
  <2> SUFFICES ASSUME LockInv, indicating = {}
               PROVE  /\ held => "early" \in happened \/ \E p \in Infos : releases(p)
                      /\ (\E p \in Infos : releases(p)) => held \/ happened # {}
    BY DEF WakeLockIsTimed, releases, live
  <2>1. ASSUME held, "early" \notin happened PROVE \E p \in Infos : releases(p)
    BY <2>1 DEF LockInv, Timely, LockHasTimer
  <2>2. ASSUME NEW p \in Infos, releases(p), happened = {} PROVE held
    BY <2>2 DEF LockInv, Quiet, TimerHasLock
  <2> QED BY <2>1, <2>2
<1> QED
  BY <1>1, <1>2, LockInit, OrderHolds, PTL DEF CallbacksSpec

-----------------------------------------------------------------------------
(* TimedCallbacks: how long the loop sleeps.                               *)

\* in the event loop only a user callback makes calls
LoopCalls == thread[EventLoop].pc # "rest" => loop.pc = "callback"

\* select ends before a timer has waited n, or a byte is in the pipe or will be
hearsOf(n) ==
  \/ loop.timeout # Forever /\ (loop.timeout <= n \/ loop.timeout = 0)
  \/ pipe
  \/ \E t \in Callers \ {EventLoop} : thread[t].pc = "trigger"

SleepsNoLonger ==
  loop.pc = "select" => \A i \in DOMAIN timer_list : hearsOf(remaining[timer_list[i]])

LEMMA CallsInit == CallbacksInit => LoopCalls /\ SleepsNoLonger
BY DEF CallbacksInit, LoopCalls, SleepsNoLonger, Rest, Callers

LEMMA CallsStep ==
  ASSUME CallbackTypes, LoopCalls, [CallbacksNext]_callbackVars
  PROVE  LoopCalls'
<1>0. EventLoop \in Callers
  BY DEF Callers
<1>1. ASSUME NEW t \in Callers, RIL_requestTimedCallback(t) \/ RIL_onUnsolicitedResponse(t) PROVE LoopCalls'
  <2>1. /\ loop' = loop /\ (t = EventLoop => loop.pc = "callback")
        /\ \A u \in Callers : u # t => thread'[u] = thread[u]
    BY <1>1 DEF RIL_requestTimedCallback, RIL_onUnsolicitedResponse, mayCall, CallbackTypes, ThreadTypes
  <2> QED BY <1>0, <2>1 DEF LoopCalls
<1>2. ASSUME NEW t \in Callers, continues(t) PROVE LoopCalls'
  <2>1. /\ loop' = loop /\ thread[t].pc # "rest"
        /\ \A u \in Callers : u # t => thread'[u] = thread[u]
    BY <1>2 DEF continues, triggerEvLoop, scheduleTimeout, outOfMemory, readLast, cancelLast, storeLast,
                CallbackTypes, ThreadTypes
  <2> QED BY <1>0, <2>1 DEF LoopCalls
<1>3. ASSUME callbackReturns PROVE LoopCalls'
  BY <1>3 DEF callbackReturns, LoopCalls, Rest
<1>4. ASSUME \/ calcNextTimeout \/ select \/ processTimeouts \/ firePending \/ nothingPending
             \/ isLast \/ clearLast \/ freeInfo
      PROVE  LoopCalls'
  <2>1. thread' = thread /\ (loop' = loop \/ loop.pc # "callback")
    BY <1>4 DEF calcNextTimeout, select, processTimeouts, firePending, nothingPending, isLast, clearLast, freeInfo
  <2> QED BY <1>0, <2>1 DEF LoopCalls
<1>5. ASSUME Tick \/ UNCHANGED callbackVars PROVE LoopCalls'
  <2>1. thread' = thread /\ loop'.pc = loop.pc
    BY <1>5 DEF Tick, callbackVars, CallbackTypes, LoopTypes, LoopStates
  <2> QED BY <1>0, <2>1 DEF LoopCalls
<1> QED BY <1>1, <1>2, <1>3, <1>4, <1>5 DEF CallbacksNext, ril_event_loop

\* a thread that adds a timer is about to write to the pipe
LEMMA AddedSleep ==
  ASSUME CallbackTypes, LoopCalls, SleepsNoLonger, NEW t \in Callers,
         RIL_requestTimedCallback(t) \/ scheduleTimeout(t)
  PROVE  SleepsNoLonger'
<1>1. /\ loop' = loop /\ thread'[t].pc = "trigger"
      /\ t = EventLoop => loop.pc = "callback"
  <2>1. CASE RIL_requestTimedCallback(t)
    BY <2>1 DEF RIL_requestTimedCallback, mayCall, CallbackTypes, ThreadTypes, Rest
  <2>2. CASE scheduleTimeout(t)
    <3>1. thread[t].pc = "grabbed" /\ loop' = loop
      BY <2>2 DEF scheduleTimeout
    <3>2. PICK p \in Infos : thread' = [thread EXCEPT ![t].pc = "trigger", ![t].p_info = p]
      BY <2>2 DEF scheduleTimeout
    <3>3. thread'[t].pc = "trigger"
      BY <3>2 DEF CallbackTypes, ThreadTypes, Locals
    <3> QED BY <3>1, <3>3 DEF LoopCalls
  <2> QED BY <2>1, <2>2
<1> QED BY <1>1 DEF SleepsNoLonger, hearsOf

LEMMA SleepStep ==
  ASSUME CallbackTypes, OrderInv, LoopCalls, SleepsNoLonger, [CallbacksNext]_callbackVars
  PROVE  SleepsNoLonger'
<1>1. ASSUME NEW t \in Callers, RIL_requestTimedCallback(t) \/ scheduleTimeout(t) PROVE SleepsNoLonger'
  BY <1>1, AddedSleep
<1>2. ASSUME NEW t \in Callers, triggerEvLoop(t) PROVE SleepsNoLonger'
  <2>1. /\ UNCHANGED <<remaining, timer_list, loop>> /\ (pipe => pipe')
        /\ t # EventLoop => pipe'
        /\ \A u \in Callers : u # t => thread'[u] = thread[u]
    BY <1>2 DEF triggerEvLoop, timers, CallbackTypes, ThreadTypes
  <2> QED BY <2>1 DEF SleepsNoLonger, hearsOf
<1>3. ASSUME NEW t \in Callers,
             RIL_onUnsolicitedResponse(t) \/ outOfMemory(t) \/ readLast(t) \/ cancelLast(t) \/ storeLast(t)
      PROVE  SleepsNoLonger'
  <2>1. /\ UNCHANGED <<remaining, timer_list, loop, pipe>> /\ thread[t].pc # "trigger"
        /\ \A u \in Callers : u # t => thread'[u] = thread[u]
    BY <1>3 DEF RIL_onUnsolicitedResponse, mayCall, outOfMemory, readLast, cancelLast, storeLast, timers,
                CallbackTypes, ThreadTypes
  <2> QED BY <2>1 DEF SleepsNoLonger, hearsOf
<1>4. ASSUME calcNextTimeout PROVE SleepsNoLonger'
  <2> DEFINE head == timer_list[1]
             n == IF remaining[head] > 0 THEN remaining[head] ELSE 0
  <2>1. /\ UNCHANGED <<remaining, timer_list>>
        /\ timer_list # <<>> => loop'.timeout = n
    <3>1. timer_list # <<>> => Head(timer_list) = head
      BY DEF CallbackTypes, StoreTypes
    <3> QED BY <1>4, <3>1 DEF calcNextTimeout, timers, CallbackTypes, LoopTypes, LoopStates
  <2>2. /\ Len(timer_list) \in Nat /\ DOMAIN timer_list = 1..Len(timer_list)
        /\ \A i \in 1..Len(timer_list) : remaining[timer_list[i]] \in Int
    BY ListFacts
  <2>3. ASSUME NEW i \in DOMAIN timer_list PROVE hearsOf(remaining[timer_list[i]])'
    <3>1. timer_list # <<>> /\ 1 \in DOMAIN timer_list
      BY <2>2
    <3>2. remaining[head] <= remaining[timer_list[i]]
      BY <2>2, <3>1 DEF OrderInv, Sorted
    <3>3. remaining[head] \in Int /\ remaining[timer_list[i]] \in Int
      BY <2>2, <3>1
    <3>4. n # Forever /\ (n <= remaining[timer_list[i]] \/ n = 0)
      BY <3>2, <3>3 DEF Forever
    <3> QED BY <2>1, <3>1, <3>4 DEF hearsOf
  <2> QED BY <2>1, <2>3 DEF SleepsNoLonger, hearsOf
<1>5. ASSUME \/ select \/ processTimeouts \/ firePending \/ nothingPending \/ callbackReturns \/ isLast \/ clearLast
             \/ freeInfo
      PROVE  SleepsNoLonger'
  <2>1. loop'.pc # "select"
    BY <1>5 DEF select, processTimeouts, firePending, nothingPending, callbackReturns, isLast, clearLast, freeInfo,
                CallbackTypes, LoopTypes, LoopStates
  <2> QED BY <2>1 DEF SleepsNoLonger
<1>6. ASSUME Tick PROVE SleepsNoLonger'
  <2>1. /\ UNCHANGED <<timer_list, pipe, thread>> /\ loop'.pc = loop.pc /\ loop.timeout \in Int
        /\ loop'.timeout = IF loop.timeout > 0 THEN loop.timeout - 1 ELSE loop.timeout
    BY <1>6 DEF Tick, CallbackTypes, LoopTypes, LoopStates
  <2>2. \A p \in Infos : /\ remaining[p] \in Nat \cup {-1}
                         /\ remaining'[p] = IF remaining[p] >= 0 THEN remaining[p] - 1 ELSE -1
    BY <1>6 DEF Tick, CallbackTypes, StoreTypes
  <2>3. ASSUME loop.pc = "select", NEW i \in DOMAIN timer_list PROVE hearsOf(remaining[timer_list[i]])'
    <3>1. PICK p \in Infos : p = timer_list[i]
      BY ListFacts
    <3>2. hearsOf(remaining[p])
      BY <2>3, <3>1 DEF SleepsNoLonger
    <3>3. loop.timeout # Forever /\ (loop.timeout <= remaining[p] \/ loop.timeout = 0)
            => loop'.timeout # Forever /\ (loop'.timeout <= remaining'[p] \/ loop'.timeout = 0)
      BY <2>1, <2>2 DEF Forever
    <3> QED BY <2>1, <3>1, <3>2, <3>3 DEF hearsOf
  <2> QED BY <2>1, <2>3 DEF SleepsNoLonger, hearsOf
<1>7. ASSUME UNCHANGED callbackVars PROVE SleepsNoLonger'
  BY <1>7 DEF callbackVars, timers, SleepsNoLonger, hearsOf
<1> QED BY <1>1, <1>2, <1>3, <1>4, <1>5, <1>6, <1>7 DEF CallbacksNext, ril_event_loop, continues

(* The loop never sleeps in select beyond the time of a timer on the list, *)
(* although calcNextTimeout reads the list without listMutex, unless a     *)
(* byte is in the wakeup pipe or the thread that added the timer has still *)
(* to write it: no write is lost while the pipe is drained, and a callback *)
(* that adds a timer need not write any (line 278).                        *)
THEOREM NoTimerOverslept == CallbacksSpec => []SleepsNoLonger
<1>1. CallbackTypes /\ OrderInv /\ LoopCalls /\ SleepsNoLonger /\ [CallbacksNext]_callbackVars
        => (LoopCalls /\ SleepsNoLonger)'
  BY CallsStep, SleepStep
<1> QED
  BY <1>1, CallsInit, OrderHolds, PTL DEF CallbacksSpec
=============================================================================
