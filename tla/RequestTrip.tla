------------------------------ MODULE RequestTrip ------------------------------
(***************************************************************************)
(* The trip of one event through the daemon.  The event is a method that   *)
(* a client calls (libril lists the request, allocates its data and hands  *)
(* both to the library; processRequest refuses the request or runs one of  *)
(* its handlers; the answer goes through the response function of the      *)
(* request to the client; the data is freed), a line that the modem sends  *)
(* on its own, the callback of a timer, or a procedure that handlers have  *)
(* in common.  One event is followed at a time, to its end: what several   *)
(* of them do to each other is the subject of the other modules.           *)
(*                                                                         *)
(* The trip is put together from the tables of the handler modules, of     *)
(* HidlRequests, HidlResponses, HidlIndications and VendorMemory: what is  *)
(* checked is that these, written in five places of two libraries, agree.  *)
(***************************************************************************)
EXTENDS HandlerPaths, FiniteSets

Sim     == INSTANCE SimHandlers
Call    == INSTANCE CallHandlers
Network == INSTANCE NetworkHandlers
Data    == INSTANCE DataHandlers
Sms     == INSTANCE SmsHandlers
Misc    == INSTANCE MiscHandlers
Stk     == INSTANCE StkHandlers
SS      == INSTANCE SsHandlers

Requests    == INSTANCE HidlRequests
Responses   == INSTANCE HidlResponses
Indications == INSTANCE HidlIndications
Memory      == INSTANCE VendorMemory

VARIABLES
  origin,     \* what set the trip off: [kind, name]
  stage,      \* how far it has come
  request,    \* the request number, once a method has chosen it
  listed,     \* the request is in the list of outstanding requests
  data,       \* the blocks that carry the arguments: "allocated", "null" or "freed"
  todo,       \* what is left of the path that the handler takes
  response,   \* the ATResponse pointers of the handler
  channels,   \* AT channels that the trip has taken and not given back
  raised,     \* flags of the library that the trip has raised
  waiting,    \* the token is kept for a later answer
  answers     \* what the client has been told, in order

vars == <<origin, stage, request, listed, data, todo, response, channels, raised, waiting, answers>>

-----------------------------------------------------------------------------
(* The tables.                                                             *)

\* the process functions, in the order in which processRequest tries them
handlers ==
  Sim!processSimRequests @@ Call!processCallRequest @@ Network!processNetworkRequests @@
  Data!processDataRequests @@ Sms!processSmsRequests @@ Misc!processMiscRequests @@
  Stk!processStkRequests @@ SS!processSSRequests

\* the requests on properties of the phone need no channel
propHandlers == Misc!processPropRequests

paths ==
  [ procedure |-> Sim!simProcedures @@ Network!networkProcedures @@ Data!dataProcedures @@
                  Misc!miscProcedures @@ Stk!stkProcedures,
    callback  |-> Sim!simCallbacks @@ Network!networkCallbacks @@ Data!dataCallbacks @@
                  Misc!miscCallbacks @@ Stk!stkCallbacks @@ Call!callCallbacks,
    line      |-> Sim!processSimUnsolicited @@ Call!processCallUnsolicited @@
                  Network!processNetworkUnsolicited @@ Data!processDataUnsolicited @@
                  SS!processSSUnsolicited @@ Sms!processSmsUnsolicited @@
                  Stk!processStkUnsolicited @@ Misc!processMiscUnsolicited ]

\* the answers that a request thread leaves to the line it waits for, or to its timer
lateAnswers ==
  [ SET_FACILITY_LOCK |-> Sim!dispatchCLCK,
    SET_PREFERRED_NETWORK_TYPE |-> Lower("radioPowerMutex") & (Success(None) | Generic),
    EXT_SET_PREFERRED_NETWORK_TYPE |-> Lower("radioPowerMutex") & (Success(None) | Generic),
    SET_RADIO_CAPABILITY |->
      Lower("radioPowerMutex") &
      ( Success(Struct("RadioCapability")) & Network!sendUnsolRadioCapability
      | Done("GENERIC_FAILURE", Struct("RadioCapability")) ) ]

\* answered without a look at the modem
unsupported ==
  [ CDMA_QUERY_PREFERRED_VOICE_PRIVACY_MODE |-> "REQUEST_NOT_SUPPORTED",
    CDMA_SET_ROAMING_PREFERENCE |-> "REQUEST_NOT_SUPPORTED",
    CDMA_SET_PREFERRED_VOICE_PRIVACY_MODE |-> "REQUEST_NOT_SUPPORTED",
    GET_ACTIVITY_INFO |-> "REQUEST_NOT_SUPPORTED",
    SET_CARRIER_RESTRICTIONS |-> "REQUEST_NOT_SUPPORTED",
    GET_CARRIER_RESTRICTIONS |-> "REQUEST_NOT_SUPPORTED",
    START_KEEPALIVE |-> "REQUEST_NOT_SUPPORTED",
    STOP_KEEPALIVE |-> "REQUEST_NOT_SUPPORTED",
    STOP_LCE |-> "REQUEST_NOT_SUPPORTED",
    PULL_LCEDATA |-> "RADIO_NOT_AVAILABLE",
    START_LCE |-> "LCE_NOT_SUPPORTED" ]

-----------------------------------------------------------------------------
(* The response function of the request, called with the list entry.       *)

reader == Responses!responseFunctions[Responses!responseOf[request]]

\* how the error arrives when the payload is this one
Told(err, payload) ==
  IF payload \in reader.accepts THEN err
  ELSE IF reader.otherwise = "MISREAD" \/ err = "SUCCESS" THEN reader.otherwise
  ELSE err

Answer(by, err, payload) ==
  Append(answers, [by |-> by, method |-> Responses!responseOf[request], err |-> Told(err, payload)])

\* RIL_onRequestComplete: a token that is not listed any more is ignored
Complete(err, payload) ==
  /\ listed' = FALSE
  /\ answers' = IF listed THEN Answer("library", err, payload) ELSE answers

-----------------------------------------------------------------------------
Nothing == "nothing"

pointers == {"p_response", "p_newResponse", "p_resp", "p_rdpResponse", "all_calls"}

Init ==
  /\ origin = [kind |-> "none", name |-> "none"]
  /\ stage = "idle"
  /\ request = "none"
  /\ listed = FALSE
  /\ data = <<>>
  /\ todo = <<>>
  /\ response = [p \in pointers |-> "null"]
  /\ channels = 0
  /\ raised = {}
  /\ waiting = FALSE
  /\ answers = <<>>

\* a client calls a method: addRequestToList
CallMethod(m) ==
  /\ stage = "idle"
  /\ origin' = [kind |-> "method", name |-> m]
  /\ request' = Requests!methods[m].request
  /\ listed' = TRUE
  /\ stage' = "allocating"
  /\ UNCHANGED <<data, todo, response, channels, raised, waiting, answers>>

\* the method refuses the arguments, or does not ask a library of this version:
\* sendErrorResponse calls the response function and leaves the request listed
RefuseCall(m) ==
  /\ stage = "idle"
  /\ origin' = [kind |-> "method", name |-> m]
  /\ request' = Requests!refusedByMethod[m].request
  /\ listed' = TRUE
  /\ answers' = <<[by |-> "method", method |-> Responses!responseOf[request'],
                   err |-> Requests!refusedByMethod[m].err]>>
  /\ stage' = "over"
  /\ UNCHANGED <<data, todo, response, channels, raised, waiting>>

blocksOf == Requests!methods[origin.name].blocks

nextBlock == blocksOf[Cardinality(DOMAIN data) + 1]

Allocate ==
  /\ stage = "allocating"
  /\ Cardinality(DOMAIN data) < Len(blocksOf)
  /\ data' = data @@ (nextBlock :> "allocated")
  /\ UNCHANGED <<origin, stage, request, listed, todo, response, channels, raised, waiting, answers>>

\* the string is empty: copyHidlStringToRil leaves a NULL pointer
PassNull ==
  /\ stage = "allocating"
  /\ Cardinality(DOMAIN data) < Len(blocksOf)
  /\ nextBlock \in Requests!methods[origin.name].nulls
  /\ data' = data @@ (nextBlock :> "null")
  /\ UNCHANGED <<origin, stage, request, listed, todo, response, channels, raised, waiting, answers>>

\* memsetString and free do nothing with NULL
FreeAll(blocks) ==
  [b \in DOMAIN data |-> IF b \in blocks /\ data[b] # "null" THEN "freed" ELSE data[b]]


\* memsetAndFreeStrings and free, before a method returns
freedOnFailure ==
  IF origin.name = "setInitialAttachApn" /\ DOMAIN data = {"struct"} THEN {} ELSE DOMAIN data

\* what is allocated so far is freed, and the request answered but left in the list
AllocationFails ==
  /\ stage = "allocating"
  /\ Cardinality(DOMAIN data) < Len(blocksOf)
  /\ data' = FreeAll(freedOnFailure)
  /\ answers' = Answer("method", "NO_MEMORY", None)
  /\ stage' = "over"
  /\ UNCHANGED <<origin, request, listed, todo, response, channels, raised, waiting>>

\* CALL_ONREQUEST: the request waits for its thread
HandOver ==
  /\ stage = "allocating"
  /\ Cardinality(DOMAIN data) = Len(blocksOf)
  /\ stage' = "admission"
  /\ UNCHANGED <<origin, request, listed, data, todo, response, channels, raised, waiting, answers>>

\* goto done
RefuseRequest(err) ==
  /\ stage = "admission"
  /\ Complete(err, None)
  /\ stage' = "returned"
  /\ UNCHANGED <<origin, request, data, todo, response, channels, raised, waiting>>

Unsupported ==
  /\ request \in DOMAIN unsupported
  /\ RefuseRequest(unsupported[request])

\* the modem is not alive (as it may be for every request), or the radio is off or
\* unavailable and the request not one of those that are served all the same
NotAvailable ==
  /\ request \notin DOMAIN unsupported
  /\ RefuseRequest("RADIO_NOT_AVAILABLE")

ServeProperty ==
  /\ stage = "admission"
  /\ request \in DOMAIN propHandlers
  /\ todo' \in propHandlers[request]
  /\ stage' = "handling"
  /\ UNCHANGED <<origin, request, listed, data, response, channels, raised, waiting, answers>>

\* getChannel, and the process functions in turn
Serve ==
  /\ stage = "admission"
  /\ request \notin DOMAIN unsupported \cup DOMAIN propHandlers
  /\ todo' \in IF request \in DOMAIN handlers THEN handlers[request] ELSE Fail("REQUEST_NOT_SUPPORTED")
  /\ origin.name \in Requests!sendABool => \A i \in DOMAIN todo' : todo'[i].op # "negative"
  /\ channels' = channels + 1
  /\ stage' = "handling"
  /\ UNCHANGED <<origin, request, listed, data, response, raised, waiting, answers>>

\* a line of the modem, a callback or a procedure; nobody waits for an answer
OtherEvent(kind, name) ==
  /\ stage = "idle"
  /\ origin' = [kind |-> kind, name |-> name]
  /\ todo' \in paths[kind][name]
  /\ stage' = "handling"
  /\ UNCHANGED <<request, listed, data, response, channels, raised, waiting, answers>>

-----------------------------------------------------------------------------
(* The steps of a handler.                                                 *)

Now(ops) == todo # <<>> /\ Head(todo).op \in ops

StepDone ==
  /\ todo' = Tail(todo)
  /\ UNCHANGED <<origin, stage, request, data>>

\* at_send_command and its variants: without a final response the pointer stays
SendCommand ==
  /\ Now({"ok", "empty", "refused", "noLine", "noAnswer"})
  /\ LET s == Head(todo)
         outcome == [ok |-> "lines", empty |-> "noLines", refused |-> "refused", noLine |-> "null"]
     IN  response' = IF s.op = "noAnswer" THEN response
                     ELSE [response EXCEPT ![s.var] = outcome[s.op]]
  /\ StepDone
  /\ UNCHANGED <<listed, channels, raised, waiting, answers>>

\* at_response_free does nothing with NULL
FreeResponse ==
  /\ Now({"free", "clear", "null"})
  /\ LET s == Head(todo)
     IN  response' = [response EXCEPT ![s.var] =
                        IF s.op = "free" /\ @ # "null" THEN "freed" ELSE "null"]
  /\ StepDone
  /\ UNCHANGED <<listed, channels, raised, waiting, answers>>

\* the line or the final response is read, the request's data used (a negative
\* number among them), an indication sent, a timer started, a procedure called
UseOrTell ==
  /\ Now({"line", "final", "takes", "reads", "negative", "indicate", "after", "call"})
  /\ StepDone
  /\ UNCHANGED <<listed, response, channels, raised, waiting, answers>>

SetFlag ==
  /\ Now({"raise", "lower"})
  /\ LET s == Head(todo)
     IN  raised' = IF s.op = "raise" THEN raised \cup {s.err} ELSE raised \ {s.err}
  /\ StepDone
  /\ UNCHANGED <<listed, response, channels, waiting, answers>>

MoveChannel ==
  /\ Now({"takeChannel", "giveChannel"})
  /\ channels' = IF Head(todo).op = "takeChannel" THEN channels + 1 ELSE channels - 1
  /\ StepDone
  /\ UNCHANGED <<listed, response, raised, waiting, answers>>

CompleteRequest ==
  /\ Now({"done"})
  /\ Complete(Head(todo).err, Head(todo).pay)
  /\ StepDone
  /\ UNCHANGED <<response, channels, raised, waiting>>

\* addAsyncCmdList
KeepToken ==
  /\ Now({"later"})
  /\ waiting' = TRUE
  /\ StepDone
  /\ UNCHANGED <<listed, response, channels, raised, answers>>

-----------------------------------------------------------------------------
(* The end.                                                                *)

HandlerReturns ==
  /\ stage = "handling"
  /\ todo = <<>>
  /\ channels' = IF origin.kind = "method" /\ request \notin DOMAIN propHandlers
                 THEN channels - 1 ELSE channels
  /\ stage' = IF origin.kind = "method" THEN "returned" ELSE "over"
  /\ UNCHANGED <<origin, request, listed, data, todo, response, raised, waiting, answers>>

\* freeFunction
FreeData ==
  /\ stage = "returned"
  /\ data' = FreeAll(Memory!Freed(request))
  /\ stage' = IF waiting THEN "waiting" ELSE "over"
  /\ UNCHANGED <<origin, request, listed, todo, response, channels, raised, waiting, answers>>

\* the line arrives, or the timer expires
LateAnswer ==
  /\ stage = "waiting"
  /\ todo = <<>>
  /\ waiting
  /\ todo' \in lateAnswers[request]
  /\ waiting' = FALSE
  /\ UNCHANGED <<origin, stage, request, listed, data, response, channels, raised, answers>>

LateAnswerGiven ==
  /\ stage = "waiting"
  /\ todo = <<>>
  /\ ~ waiting
  /\ stage' = "over"
  /\ UNCHANGED <<origin, request, listed, data, todo, response, channels, raised, waiting, answers>>

\* the next event finds everything as it was
Rest ==
  /\ stage = "over"
  /\ origin' = [kind |-> "none", name |-> "none"]
  /\ stage' = "idle"
  /\ request' = "none"
  /\ listed' = FALSE
  /\ data' = <<>>
  /\ todo' = <<>>
  /\ response' = [p \in pointers |-> "null"]
  /\ channels' = 0
  /\ raised' = {}
  /\ waiting' = FALSE
  /\ answers' = <<>>

Handler ==
  \/ SendCommand \/ FreeResponse \/ UseOrTell \/ SetFlag
  \/ MoveChannel \/ CompleteRequest \/ KeepToken

Next ==
  \/ \E m \in DOMAIN Requests!methods : CallMethod(m)
  \/ \E m \in DOMAIN Requests!refusedByMethod : RefuseCall(m)
  \/ Allocate \/ PassNull \/ AllocationFails \/ HandOver
  \/ Unsupported \/ NotAvailable \/ ServeProperty \/ Serve
  \/ \E kind \in DOMAIN paths : \E name \in DOMAIN paths[kind] : OtherEvent(kind, name)
  \/ Handler
  \/ HandlerReturns \/ FreeData \/ LateAnswer \/ LateAnswerGiven
  \/ Rest

Spec == Init /\ [][Next]_vars

-----------------------------------------------------------------------------
Over == stage = "over"

Requested == origin.kind = "method"

(***************************************************************************)
(* The properties hold for every event but the ones that are named here,   *)
(* each with the line where the code goes wrong.                           *)
(***************************************************************************)

\* the answer is read without a look at the result or at the lines, or after
\* it has been freed
readsBlindly ==
  { "setSuppServiceNotifications",   \* ril_ss.c:901, the result is not kept
    "dialEmergencyWhileCallFailed",  \* ril_call.c:2392, success with no line
    "queryEccNetworkList",           \* ril_call.c:2529, success with no line
    "getDefaultNAN",                 \* ril_stk.c:409, no context has cid 1
    "vsimSendCmd",                   \* ril_misc.c:875, VSIM_TIMEOUT sends nothing
    "setSimCardPower_1_1",           \* ril_sim.c:2540, a negative number sends nothing
    "getICCID",                      \* ril_sim.c:2575, freed one line before
    "lunchOpenChannel" }             \* ril_stk_bip.c:1324, the name points into a freed line

\* an empty string arrives as NULL, and is used without a look
readsNull ==
  { "dial",                          \* ril_call.c:998 and 1024, strcmp with the number
    "sendDtmf",                      \* ril_call.c:773, the first character
    "startDtmf",                     \* ril_call.c:827, the first character
    "sendUssd",                      \* ril_ss.c:62, strlen
    "setNetworkSelectionModeManual", \* ril_network.c:1456, strstr
    "getRadioPreference",            \* ril_misc.c:1166, strncmp
    "sendSms",                       \* ril_sms.c:40, strlen of the PDU
    "sendSMSExpectMore",             \* ril_sms.c:40, the same
    "sendImsSms",                    \* ril_sms.c:143, strlen of the PDU
    "writeSmsToSim" }                \* ril_sms.c:268, strlen of the PDU

\* freed, not cleared, and freed again when the next command has no answer
freesTwice ==
  { "supplyIccPukForApp",            \* ril_sim.c:960
    "readSimRecord",                 \* ril_sim.c:1529
    "iccTransmitApduLogicalChannel" } \* ril_sim.c:2023

neverAnswers ==
  { "getImsRegAddress",              \* ril_data.c:2638, break out of the switch
    "sendTerminalResponseToSim",     \* ril_stk.c:479, the answer to the dialog
    "setSimPowerReal",               \* ril_sim.c:3209, the token is not passed on
    "sendCmdAsync",                  \* ril_misc.c:678 (and 1107), the commands for the virtual SIM
    "sendRequestStrings" }           \* ril_misc.c:1044, the same

\* a failure that has been answered goes on to the common error exit
answersTwice ==
  { "getSignalStrength",             \* ril_network.c:559
    "getIMSPcscfAddress" }           \* ril_data.c:2547

\* an answer that its response function reads as something else
misunderstood ==
  { "sendCmdAsync",                  \* ril_service.cpp:10734, a failure has no string
    "vsimSendCmd",                   \* an array of strings, read as a string
    "queryCallForwardStatus" }       \* ril_ss.c:744, SUCCESS and no list

\* allocations that no function frees
leaks ==
  { "getSimlockRemaintimes",         \* ril_oem_mmgr.h:24, an array and freeVoid
    "sendImsSms",                    \* ril_mmgr.c:273, the message in the structure
    "setInitialAttachApn" }          \* ril_service.cpp:2427, when the apn cannot be copied

\* s_ussdRun stays set when asprintf fails; the channels of the other SIMs
\* stay taken when a restart fails half way
keeps ==
  { "sendUssd",                      \* ril_ss.c:71
    "applySetRadioCapability",       \* ril_network.c:3089 and 3135
    "getImsRegAddress" }             \* ril_data.c:2638, past at_response_free

\* two entries of the table are swapped: ril_oem_commands.h:95-96
swapped == {"getIMSPcscfAddress", "setIMSPcscfAddress"}

\* methods of IRadio whose answer has another name
answerName ==
  [ getImsiForApp |-> "getIMSIForApp", hangup |-> "hangupConnection",
    setSimCardPower_1_1 |-> "setSimCardPower" ]

-----------------------------------------------------------------------------
(* Properties.                                                             *)

\* A handler reads the lines of a response only where the modem has sent
\* some, its final result only where there is one, and frees no response
\* twice, however each of its commands ends: at_send_command leaves the
\* pointer alone when no answer comes (atchannel.c 883-976), and the handlers
\* share one pointer between several commands.
ResponseInHand ==
  LET s == Head(todo)
  IN  /\ Now({"line"}) => response[s.var] = "lines" \/ origin.name \in readsBlindly
      /\ Now({"final"}) =>
           response[s.var] \in {"lines", "noLines", "refused"} \/ origin.name \in readsBlindly
      /\ Now({"free", "clear"}) => response[s.var] # "freed" \/ origin.name \in freesTwice

\* Whatever the modem answers and whichever error exit the handler takes, the
\* client gets one answer through the callback of the method it has called,
\* and the request has left the list of outstanding ones unless the method
\* itself refused it.
AnsweredOnce ==
  Requested =>
    /\ Now({"done"}) => listed \/ origin.name \in answersTwice
    /\ Over => Len(answers) = 1 \/ origin.name \in neverAnswers
    /\ Over /\ origin.name \notin neverAnswers =>
         (listed <=> \E i \in DOMAIN answers : answers[i].by = "method")
    /\ \A i \in DOMAIN answers :
         \/ answers[i].method = (answerName @@ (origin.name :> origin.name))[origin.name]
         \/ origin.name \in swapped

\* What the five tables say of a payload agrees: a handler uses of a request's
\* data no more than the method has sent, a string that the method may leave
\* NULL is looked at before it is used (copyHidlStringToRil makes a NULL pointer
\* of an empty string), the response function does not turn
\* an answer into INVALID_RESPONSE or read it as another type, and what the
\* library says on its own is something the indication function understands.
PayloadsAgree ==
  /\ Now({"takes"}) /\ Requested =>
       LET used == Head(todo).pay
           sent == Requests!methods[origin.name].payload
       IN  used[1] = sent[1] /\ used[2] <= sent[2]
  /\ Now({"reads"}) /\ Requested =>
       data[Head(todo).err] = "allocated" \/ origin.name \in readsNull
  /\ Now({"indicate"}) =>
       LET told == Head(todo)
       IN  /\ told.err \in DOMAIN Indications!indicationOf
           /\ LET understood == Indications!indicationFunctions[Indications!indicationOf[told.err]]
              IN  understood = {None} \/ told.pay \in understood
  /\ \A i \in DOMAIN answers :
       answers[i].err \notin {"INVALID_RESPONSE", "MISREAD"} \/ origin.name \in misunderstood


\* flags that say that something is under way, and that only its end lowers
underWay == {"ussdRun", "setNetworkId", "manualSearchNetworkId", "radioPowerMutex", "simBusy"}

\* When an event is over every response has been freed, every channel taken has
\* been given back, and after a failure no flag says that it is still under
\* way; nor is a response overwritten before it has been freed.
NothingKept ==
  /\ Now({"ok", "empty", "refused", "noLine", "null"}) => response[Head(todo).var] \in {"null", "freed"}
  /\ Over /\ origin.name \notin keeps =>
       /\ \A p \in pointers : response[p] \in {"null", "freed"}
       /\ channels = 0
       /\ (\E i \in DOMAIN answers : answers[i].err # "SUCCESS") => raised \cap underWay = {}

=============================================================================
