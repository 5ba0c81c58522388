-------------------------- MODULE PendingRequests --------------------------
(***************************************************************************)
(* The list of outstanding requests of each SIM in libril/ril.cpp.         *)
(*                                                                         *)
(* addRequestToList allocates a RequestInfo and links it in; its address   *)
(* is the RIL_Token the vendor library completes.  RIL_onRequestComplete   *)
(* unlinks the RequestInfo if its address is on the list of its SIM, sends *)
(* the response with the serial number found in it and frees it.  A call   *)
(* whose address is not on the list is an invalid token and is ignored.    *)
(*                                                                         *)
(* The calls come from the request threads, the reader threads and the     *)
(* timer threads, so two calls for one request can be under way together,  *)
(* and the heap may hand the address of a freed RequestInfo out again.     *)
(* Reading a freed RequestInfo is undefined: it yields any SIM.  The list  *)
(* is a set of addresses, as its order is never looked at.                 *)
(* RIL_onRequestAck has no caller and cancelled and local are never set.   *)
(***************************************************************************)
EXTENDS Naturals, FiniteSets

CONSTANTS Sims,         \* RIL_SOCKET_ID
          Requests,     \* the requests, named by their serial numbers
          SimOf,        \* [Requests -> Sims]
          Addrs,        \* addresses calloc may return
          Calls,        \* the calls of RIL_onRequestComplete
          ForRequest,   \* [Calls -> Requests]: the request a call is meant for
          NoAddr, NoReq

ASSUME PendingRequestsAssumption ==
    /\ SimOf \in [Requests -> Sims]
    /\ ForRequest \in [Calls -> Requests]
    /\ NoAddr \notin Addrs
    /\ NoReq \notin Requests

VARIABLES heap,         \* [Addrs -> Requests \cup {NoReq}]: the live RequestInfos
          pending,      \* [Sims -> SUBSET Addrs]: s_pendingRequests
          token,        \* [Requests -> Addrs \cup {NoAddr}]: what onRequest got
          pc,           \* [Calls -> control state]
          hook,         \* [Calls -> Sims]: the list a call will search
          delivered     \* [Calls -> Requests \cup {NoReq}]: serial it answered

vars == <<heap, pending, token, pc, hook, delivered>>

TypeOK ==
    /\ heap \in [Addrs -> Requests \cup {NoReq}]
    /\ pending \in [Sims -> SUBSET Addrs]
    /\ token \in [Requests -> Addrs \cup {NoAddr}]
    /\ pc \in [Calls -> {"ready", "search", "respond", "free", "done"}]
    /\ hook \in [Calls -> Sims]
    /\ delivered \in [Calls -> Requests \cup {NoReq}]

Init ==
    /\ heap = [a \in Addrs |-> NoReq]
    /\ pending = [s \in Sims |-> {}]
    /\ token = [r \in Requests |-> NoAddr]
    /\ pc = [c \in Calls |-> "ready"]
    /\ hook = [c \in Calls |-> SimOf[ForRequest[c]]]
    /\ delivered = [c \in Calls |-> NoReq]

TokenOf(c) == token[ForRequest[c]]

Move(c, from, to) == pc[c] = from /\ pc' = [pc EXCEPT ![c] = to]

-----------------------------------------------------------------------------
(* Mutants of the actions below, used only to test the properties.         *)

\* The request goes on the list of whatever SIM.
AddToAnyList(r) ==
    /\ token[r] = NoAddr
    /\ \E a \in Addrs, s \in Sims :
          /\ heap[a] = NoReq
          /\ heap' = [heap EXCEPT ![a] = r]
          /\ pending' = [pending EXCEPT ![s] = @ \cup {a}]
          /\ token' = [token EXCEPT ![r] = a]
    /\ UNCHANGED <<pc, hook, delivered>>

\* The request is found but stays linked.
DequeueKeepsLinked(c) ==
    /\ pc[c] = "search"
    /\ pc' = [pc EXCEPT ![c] = IF TokenOf(c) \in pending[hook[c]]
                               THEN "respond" ELSE "done"]
    /\ UNCHANGED <<heap, pending, token, hook, delivered>>

\* A found request is left on the list and taken for an invalid token.
DequeueIgnores(c) ==
    /\ Move(c, "search", "done")
    /\ UNCHANGED <<heap, pending, token, hook, delivered>>

-----------------------------------------------------------------------------
(* ril_service allocates the request, links it in and calls onRequest.     *)
addRequestToList(r) ==
    /\ token[r] = NoAddr
    /\ \E a \in Addrs :
          /\ heap[a] = NoReq
          /\ heap' = [heap EXCEPT ![a] = r]
          /\ pending' = [pending EXCEPT ![SimOf[r]] = @ \cup {a}]
          /\ token' = [token EXCEPT ![r] = a]
    /\ UNCHANGED <<pc, hook, delivered>>

\* The list is chosen by pRI->socket_id, read before the mutex is taken.
chooseList(c) ==
    /\ TokenOf(c) # NoAddr
    /\ Move(c, "ready", "search")
    /\ \E s \in Sims :
          /\ heap[TokenOf(c)] # NoReq => s = SimOf[heap[TokenOf(c)]]
          /\ hook' = [hook EXCEPT ![c] = s]
    /\ UNCHANGED <<heap, pending, token, delivered>>

\* Under the mutex of the list: unlink the address if it is there.
checkAndDequeueRequestInfo(c) ==
    /\ \/ /\ TokenOf(c) \in pending[hook[c]]
          /\ pending' = [pending EXCEPT ![hook[c]] = @ \ {TokenOf(c)}]
          /\ Move(c, "search", "respond")
       \/ /\ TokenOf(c) \notin pending[hook[c]]
          /\ Move(c, "search", "done")
          /\ UNCHANGED pending
    /\ UNCHANGED <<heap, token, hook, delivered>>

\* responseFunction sends the response under the serial found in pRI.
sendResponse(c) ==
    /\ Move(c, "respond", "free")
    /\ delivered' = [delivered EXCEPT ![c] = heap[TokenOf(c)]]
    /\ UNCHANGED <<heap, pending, token, hook>>

freeRequest(c) ==
    /\ Move(c, "free", "done")
    /\ heap' = [heap EXCEPT ![TokenOf(c)] = NoReq]
    /\ UNCHANGED <<pending, token, hook, delivered>>

RIL_onRequestComplete(c) ==
    \/ chooseList(c)
    \/ checkAndDequeueRequestInfo(c)
    \/ sendResponse(c)
    \/ freeRequest(c)

Next ==
    \/ \E r \in Requests : addRequestToList(r)
    \/ \E c \in Calls : RIL_onRequestComplete(c)

Spec == Init /\ [][Next]_vars

\* Every handler makes its calls and every call runs to its end.
FairSpec == Spec /\ \A c \in Calls : WF_vars(RIL_onRequestComplete(c))

-----------------------------------------------------------------------------
(* A call that has unlinked a RequestInfo owns it until it has freed it.   *)
Owns(c) == pc[c] \in {"respond", "free"}

(* Everything on a list is a live RequestInfo of that SIM that no call is  *)
(* answering: no list ever holds a dangling pointer (ril.cpp:583-597).     *)
ListedAreLive ==
    \A s \in Sims : \A a \in pending[s] :
       /\ heap[a] # NoReq
       /\ SimOf[heap[a]] = s
       /\ \A c \in Calls : Owns(c) => TokenOf(c) # a

(* Two calls never own one RequestInfo, so none is answered from or freed  *)
(* twice (ril.cpp:646 and 696), however many calls are made for a request. *)
OneOwner ==
    \A c, d \in Calls : Owns(c) /\ Owns(d) /\ TokenOf(c) = TokenOf(d) => c = d

(* The framework gets at most one response with a given serial, although   *)
(* RIL_onRequestComplete may be called more than once for a request.       *)
AnsweredAtMostOnce ==
    \A c, d \in Calls :
       delivered[c] # NoReq /\ delivered[c] = delivered[d] => c = d

(* A call answers a request other than the one it was made for only when   *)
(* its own has been answered before: only calls that come too late can mix *)
(* up responses (ril.cpp:588 and 684), whatever addresses are used again.  *)
OnlyLateCallsMixUp ==
    [][\A c \in Calls :
          delivered'[c] \notin {delivered[c], ForRequest[c]}
             => ForRequest[c] \in {delivered[d] : d \in Calls \ {c}}]_vars

(* What ril.h:7410 promises a caller that completes a request again: of    *)
(* the calls made for one request only one has an effect; the others are   *)
(* tolerated but ignored.                                                  *)
LaterCallsIgnored ==
    \A c, d \in Calls :
       ForRequest[c] = ForRequest[d] /\ {delivered[c], delivered[d]} \cap {NoReq} = {}
          => c = d

(* The list is one implementation of the promise that every request is     *)
(* answered once: a request is outstanding from addRequestToList until a   *)
(* call has sent a response with its serial.                               *)
Answered == {delivered[c] : c \in Calls} \ {NoReq}

Service == INSTANCE RequestService
    WITH Fifos <- {}, FifoOf <- [r \in Requests |-> SimOf[r]], Deferrable <- {},
         fifo <- [f \in {} |-> <<>>],
         loose <- {r \in Requests : token[r] # NoAddr} \ Answered,
         answered <- Answered

ImplementsService == Service!FairSpec
=============================================================================
